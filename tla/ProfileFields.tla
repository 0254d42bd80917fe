----------------------------- MODULE ProfileFields -----------------------------
(***************************************************************************)
(* The fields of a page, on the three ways in: a business that edits its   *)
(* page, an admin who prepares one for a business, and the business that   *)
(* claims it.  Pages has when these happen; here is what becomes of each   *)
(* field.                                                                  *)
(*                                                                         *)
(* A text is its length and what is left of it trimmed, since the limits   *)
(* are on one or the other.  The five fields are those a prepared page     *)
(* has; the other texts of a page go through the same checks.              *)
(***************************************************************************)
EXTENDS Integers, SequencesExt

CONSTANTS MAX_PER_BATCH, No     \* No is where the code throws a ValidationError

ASSUME FieldConstants == MAX_PER_BATCH \in Nat

ProfileField == {"businessName", "bio", "publicAddress", "whatsapp", "hours"}
Coordinate   == {"latitude", "longitude"}
PageField    == ProfileField \cup Coordinate

Text(length, trimmed) == [is |-> "text", length |-> length, trimmed |-> trimmed]
Undefined == [is |-> "undefined"]
Null   == [is |-> "null"]
Wrong  == [is |-> "not a text"]
Empty  == Text(0, 0)

IsText(value) == value.is = "text"

--------------------------------------------------------------------------------
(***************************************************************************)
(* business-invitation.entity.ts and InvitationsController.create.         *)
(***************************************************************************)

InvitationLimit == [businessName |-> 120, publicAddress |-> 300, whatsapp |-> 120,
                    hours |-> 300, bio |-> 600, note |-> 200]

DEFAULT_BIO == Text(65, 65)     \* what stands for the text of each category

optional(value, max) ==
    IF ~IsText(value) THEN IF value = Wrong THEN No ELSE Null
    ELSE CASE value.trimmed = 0   -> Null
           [] value.trimmed > max -> No
           [] OTHER               -> Text(value.trimmed, value.trimmed)

\* What one line of the paste becomes; nobody has claimed it.
createInvitation(line) ==
    LET read == [f \in DOMAIN InvitationLimit |-> optional(line[f], InvitationLimit[f])]
    IN  IF read.businessName = Null \/ ~line.categoryKnown \/ No \in {read[f] : f \in DOMAIN read}
        THEN No
        ELSE [read EXCEPT !.bio = IF @ = Null THEN DEFAULT_BIO ELSE @]

\* All of them or none, in one transaction.
create(lines) ==
    LET made == [i \in DOMAIN lines |-> createInvitation(lines[i])]
    IN  IF lines = <<>> \/ Len(lines) > MAX_PER_BATCH \/ No \in ToSet(made) THEN No ELSE made

--------------------------------------------------------------------------------
(***************************************************************************)
(* provider-profile.entity.ts and saveMine.  A coordinate is undefined,    *)
(* null, on the map or off it.                                             *)
(***************************************************************************)

ProfileLimit == [businessName |-> 120, publicAddress |-> 300, whatsapp |-> 120,
                 hours |-> 300, bio |-> 600]

draft == [f \in PageField |-> IF f \in Coordinate THEN "null" ELSE Null]

assertFits(value, max) == value \in {Undefined, Null} \/ (value.length > 0 /\ value.length <= max)

\* The two move together; neither sent leaves both alone.
place(profile, params) ==
    LET sent == <<params.latitude, params.longitude>>
        pair == [i \in 1..2 |-> IF sent[i] = "undefined" THEN "null" ELSE sent[i]]
    IN  CASE sent = <<"undefined", "undefined">>       -> <<profile.latitude, profile.longitude>>
          [] (pair[1] = "null") # (pair[2] = "null")   -> No
          [] "off" \in ToSet(pair)                     -> No
          [] OTHER                                     -> pair

\* One field that does not fit, and nothing of the request is kept.
update(profile, params) ==
    LET at == place(profile, params) IN
    IF at = No \/ \E f \in ProfileField : ~assertFits(params[f], ProfileLimit[f]) THEN No
    ELSE [f \in PageField |->
             CASE f = "latitude"      -> at[1]
               [] f = "longitude"     -> at[2]
               [] f \in ProfileField -> IF params[f] = Undefined THEN profile[f] ELSE params[f]]

\* saveMine: the app clears a field by sending it empty.
saveMine(profile, dto) ==
    update(profile, [x \in DOMAIN dto |->
                        IF x \in ProfileField /\ dto[x] = Empty THEN Null ELSE dto[x]])

\* claim: what the business wrote of its own wins.
claim(invitation, profile) ==
    update(profile, [f \in PageField |-> IF f \in Coordinate THEN "undefined"
                                         ELSE IF profile[f] = Null THEN invitation[f] ELSE profile[f]])

--------------------------------------------------------------------------------

Kept(profile) ==
    /\ \A f \in ProfileField : profile[f] = Null \/ profile[f].length \in 1..ProfileLimit[f]
    /\ profile.latitude = "null" <=> profile.longitude = "null"
    /\ {profile.latitude, profile.longitude} \subseteq {"null", "on"}

\* provider-profile.entity.ts: "half a coordinate is a point nowhere"; a page saved twice
\* holds no empty text, none past its limit and no half or impossible place, however the
\* two saves leave fields out, empty or null; and a field that is not sent is kept.
EditsKeepFields(first, second) ==
    LET p == saveMine(draft, first)
        q == saveMine(p, second)
    IN  /\ p # No => Kept(p)
        /\ p # No /\ q # No => /\ Kept(q)
                               /\ \A f \in ProfileField : second[f] = Undefined => q[f] = p[f]
                               /\ \A f \in ProfileField : q[f] = Null \/ q[f] \in {first[f], second[f]}

\* business-invitation.entity.ts: "Only fills what its own page doesn't have yet".  A page
\* an admin could prepare is one its business can claim, whatever it has written so far:
\* the two sides agree on what a field may hold.  Each field is then the business's own
\* or, where it had none, the prepared one; claiming again changes nothing.
PreparedPageFits(line, edit) ==
    LET inv == createInvitation(line)
        own == saveMine(draft, edit)
    IN  inv # No /\ own # No =>
          LET page == claim(inv, own)
          IN  /\ page # No
              /\ Kept(page)
              /\ \A f \in ProfileField : page[f] = IF own[f] # Null THEN own[f] ELSE inv[f]
              /\ page.businessName # Null /\ page.bio # Null
              /\ claim(inv, page) = page

\* invitations.controller.ts: "all or none".  A paste is refused for any line that would be
\* refused by itself or if it is too long, and otherwise makes a page of each, in order.
BatchIsWhole(lines) ==
    LET made == create(lines) IN
    /\ (\E i \in DOMAIN lines : create(<<lines[i]>>) = No) => made = No
    /\ made # No => /\ Len(made) = Len(lines) /\ Len(made) \in 1..MAX_PER_BATCH
                    /\ \A i \in DOMAIN lines : create(<<lines[i]>>) = <<made[i]>>
================================================================================
