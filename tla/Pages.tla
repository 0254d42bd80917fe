--------------------------------- MODULE Pages ---------------------------------
(***************************************************************************)
(* A business's page: what it writes, its address (slug), the design it    *)
(* drafts and publishes, the prepared page it may claim, the admin's       *)
(* approval, and who can see it.  ProvidersController, ProviderProfile,    *)
(* resolveSlug, InvitationsController and AdminBusinessesController.       *)
(*                                                                         *)
(* As in Booking, a handler works on the rows it loaded and a save makes   *)
(* the row equal to the copy, inserting it when it is gone.  VIP is what   *)
(* an admin grants by hand and does not run out (PlanBilling has the rest).*)
(* name and bio stand for all the fields a claim fills.                    *)
(***************************************************************************)
EXTENDS Naturals, FiniteSets

CONSTANTS
    Businesses,   \* accounts with the provider role
    Names,        \* business names
    Known,        \* those given at sign-up or in an invitation
    Texts,        \* what a business writes about itself
    Designs,      \* page designs
    Sent,         \* what a client sends in a save: fields and their values
    Invitations,  \* prepared pages
    Requests,     \* requests that can be in flight at once
    Traffic,      \* sets of endpoints that are called together
    Crowds,       \* those among them whose requests overlap
    Population,   \* how many businesses there still are, for each of them
    TrialDays,    \* TRIAL_DAYS, in units of the clock
    Horizon,      \* bound on the clock
    Prepared,     \* the text of a prepared page
    Default,      \* DEFAULT_PAGE_DESIGN
    None          \* no row, no value

VARIABLES
    profiles,     \* providers_profiles, by account
    invitations,  \* providers_invitations
    standing,     \* of each business's account
    req,          \* what each request in flight holds
    now,          \* the clock
    calls,        \* the endpoints that are called
    alone,        \* TRUE in behaviours where requests never overlap
    shared,       \* history, when alone: <<business, slug>> ever saved
    claimants     \* history, when alone: the businesses given each prepared page

tables  == <<profiles, invitations, standing>>
setup   == <<calls, alone>>
history == <<shared, claimants>>
vars    == <<tables, req, now, setup, history>>

\* slugify(name), then -2, -3, ...
Slug == Names \X (1..Cardinality(Businesses))

Profile == [name : Names \cup {None}, bio : Texts \cup {Prepared, None},
            category : {"walker", "vet"}, rate : BOOLEAN, slug : Slug \cup {None},
            published : BOOLEAN, approved : BOOLEAN, trialEnds : 0..(Horizon + TrialDays),
            vip : BOOLEAN, draft : Designs \cup {None},
            live : Designs \cup {Default, None}]

Invitation == [name : Names, claimedBy : Businesses \cup {None}, claimed : BOOLEAN]

Steps == {"idle", "mine", "claim", "claim.save", "remove", "save"}
Endpoint == {"mine", "design", "publish", "claim", "invite", "approve", "plan", "status",
             "delete"}

ASSUME PageConstants ==
    /\ Traffic \subseteq SUBSET Endpoint /\ Crowds \subseteq Traffic
    /\ Population \in [Traffic -> 0..Cardinality(Businesses)]
    /\ Known \subseteq Names
    /\ \A fields \in Sent :
          /\ DOMAIN fields \subseteq {"name", "bio", "category", "rate", "draft"}
          /\ "name"     \in DOMAIN fields => fields.name \in Names \cup {None}
          /\ "bio"      \in DOMAIN fields => fields.bio \in Texts \cup {None}
          /\ "category" \in DOMAIN fields => fields.category \in {"walker", "vet"}
          /\ "rate"     \in DOMAIN fields => fields.rate \in BOOLEAN
          /\ "draft"    \in DOMAIN fields => fields.draft \in Designs
    /\ TrialDays \in Nat \ {0} /\ Horizon \in Nat
    /\ None \notin Names \cup Texts \cup Designs \cup Businesses \cup {Prepared, Default}
    /\ None \notin Slug /\ Prepared \notin Texts /\ Default \notin Designs
    /\ None \notin Profile \cup Invitation

\* ProviderProfile.draft
draft == [name |-> None, bio |-> None, category |-> "walker", rate |-> FALSE, slug |-> None,
          published |-> FALSE, approved |-> FALSE, trialEnds |-> 0, vip |-> FALSE,
          draft |-> None, live |-> None]

Idle == [step |-> "idle", who |-> None, profile |-> None, edit |-> <<>>, which |-> None,
         invitation |-> None]

\* seedProviderProfile gave everybody a row with a name, or the sign-up died, or the
\* account is gone.
Init ==
    /\ profiles    \in [Businesses -> {None} \cup {[draft EXCEPT !.name = n] : n \in Known}]
    /\ invitations \in [Invitations -> [name : Known, claimedBy : {None}, claimed : {FALSE}]]
    /\ req         = [r \in Requests |-> Idle]
    /\ now         = 0
    /\ calls       \in Traffic
    /\ standing    \in [Businesses -> {"active", "deleted"}]
    /\ Cardinality({b \in Businesses : standing[b] = "active"}) = Population[calls]
    /\ \A b \in Businesses : standing[b] = "deleted" => profiles[b] = None
    /\ alone       = (calls \notin Crowds)
    /\ shared      = {}
    /\ claimants   = [i \in Invitations |-> {}]

--------------------------------------------------------------------------------
(***************************************************************************)
(* ProviderProfile.                                                        *)
(***************************************************************************)

\* The publish rule at the end of update().
IsComplete(p) ==
    /\ p.bio # None /\ p.name # None
    /\ p.category = "walker" => p.rate

\* Mutant: a page that was complete stays published.
UpdateSticky(p, fields) ==
    LET q == [f \in DOMAIN p |-> IF f \in DOMAIN fields THEN fields[f] ELSE p[f]]
    IN  [q EXCEPT !.published = p.published \/ IsComplete(q)]

\* update: the fields that were sent, and whether the page is complete now.
update(p, fields) ==
    LET q == [f \in DOMAIN p |-> IF f \in DOMAIN fields THEN fields[f] ELSE p[f]]
    IN  [q EXCEPT !.published = IsComplete(q)]

startTrial(p) == IF p.trialEnds # 0 THEN p ELSE [p EXCEPT !.trialEnds = now + TrialDays]

\* canCustomize: on VIP, during the trial, or waiting for the first approval.
canCustomize(p) ==
    \/ p.vip
    \/ p.trialEnds > now
    \/ ~p.approved /\ p.trialEnds = 0

\* isPubliclyVisible and PUBLICLY_VISIBLE, and the account's standing on top: what
\* the directory, by-slug and by-account answer.
Visible(b) ==
    /\ profiles[b] # None
    /\ profiles[b].published /\ profiles[b].approved
    /\ standing[b] = "active"

\* Mutant: the address follows the name.
FollowName(b, p) ==
    IF p.name = None THEN {p.slug}
    ELSE {s \in Slug : /\ s[1] = p.name
                       /\ \A c \in Businesses \ {b} : profiles[c] # None => profiles[c].slug # s
                       /\ \A k \in 1..(s[2] - 1) : \E c \in Businesses \ {b} :
                             profiles[c] # None /\ profiles[c].slug = <<p.name, k>>}

\* resolveSlug: the one it has, or the first that nobody else has taken.
resolveSlug(b, p) ==
    IF p.slug # None \/ p.name = None THEN {p.slug}
    ELSE {s \in Slug : /\ s[1] = p.name
                       /\ \A c \in Businesses \ {b} : profiles[c] # None => profiles[c].slug # s
                       /\ \A k \in 1..(s[2] - 1) : \E c \in Businesses \ {b} :
                             profiles[c] # None /\ profiles[c].slug = <<p.name, k>>}

--------------------------------------------------------------------------------
Arrives(r, e) ==
    /\ e \in calls
    /\ req[r] = Idle
    /\ alone => \A q \in Requests : req[q] = Idle

Finish(r)      == req' = [req EXCEPT ![r] = Idle]
Holds(r, held) == req' = [req EXCEPT ![r] = held]

\* profiles.save: refused when another business has the slug by now.
SaveProfile(b, p) ==
    /\ p.slug # None =>
         \A c \in Businesses \ {b} : profiles[c] # None => profiles[c].slug # p.slug
    /\ profiles' = [profiles EXCEPT ![b] = p]
    /\ shared' = IF p.slug = None \/ ~alone THEN shared ELSE shared \cup {<<b, p.slug>>}

\* The instance is killed or an awaited call rejects.
Abandon(r) ==
    /\ req[r] # Idle
    /\ Finish(r)
    /\ UNCHANGED <<tables, now, setup, history>>

\* A unit of the clock is days, a request is seconds.
Tick ==
    /\ "design" \in calls
    /\ now < Horizon
    /\ \A r \in Requests : req[r] = Idle
    /\ now' = now + 1
    /\ UNCHANGED <<tables, req, setup, history>>

--------------------------------------------------------------------------------
(***************************************************************************)
(* The business's own page.                                                *)
(***************************************************************************)

\* PATCH /v1/providers/me: the row is loaded, then the photos go up.
MineLoad(r, b, fields) ==
    /\ Arrives(r, IF "draft" \in DOMAIN fields THEN "design" ELSE "mine")
    /\ standing[b] = "active"
    /\ Holds(r, [Idle EXCEPT !.step = "mine", !.who = b, !.edit = fields,
                             !.profile = IF profiles[b] = None THEN draft ELSE profiles[b]])
    /\ UNCHANGED <<tables, now, setup, history>>

\* Mutant: a draft is taken whatever the plan.
MineUnasserted(r) ==
    LET q == req[r] IN
    /\ q.step = "mine"
    /\ \E s \in resolveSlug(q.who, update(q.profile, q.edit)) :
          Holds(r, [q EXCEPT !.step = "save",
                             !.profile = [update(q.profile, q.edit) EXCEPT !.slug = s]])
    /\ UNCHANGED <<tables, now, setup, history>>

\* Once its photos are up: update, saveDesignDraft, resolveSlug.
MineUpdate(r) ==
    LET q == req[r] IN
    /\ q.step = "mine"
    /\ "draft" \in DOMAIN q.edit => canCustomize(q.profile)
    /\ \E s \in resolveSlug(q.who, update(q.profile, q.edit)) :
          Holds(r, [q EXCEPT !.step = "save",
                             !.profile = [update(q.profile, q.edit) EXCEPT !.slug = s]])
    /\ UNCHANGED <<tables, now, setup, history>>

publishDesign(r, b) ==
    LET p == profiles[b] IN
    /\ Arrives(r, "publish")
    /\ standing[b] = "active" /\ p # None
    /\ canCustomize(p)
    /\ Holds(r, [Idle EXCEPT !.step = "save", !.who = b,
                   !.profile = [p EXCEPT !.live = IF p.draft = None THEN Default ELSE p.draft]])
    /\ UNCHANGED <<tables, now, setup, history>>

\* The last step of all of these, and of the admin's.
Save(r) ==
    LET q == req[r] IN
    /\ q.step = "save"
    /\ SaveProfile(q.who, q.profile)
    /\ Finish(r)
    /\ UNCHANGED <<invitations, standing, now, setup, claimants>>

--------------------------------------------------------------------------------
(***************************************************************************)
(* Prepared pages.                                                         *)
(***************************************************************************)

\* claim: the invitation is loaded first ...
ClaimFind(r, b, i) ==
    /\ Arrives(r, "claim")
    /\ standing[b] = "active"
    /\ invitations[i] # None
    /\ Holds(r, [Idle EXCEPT !.step = "claim", !.who = b, !.which = i,
                             !.invitation = invitations[i]])
    /\ UNCHANGED <<tables, now, setup, history>>

\* What a claim writes: only what the page does not have.
Fill(p, inv) == update(p, [name |-> IF p.name = None THEN inv.name ELSE p.name,
                           bio  |-> IF p.bio = None THEN Prepared ELSE p.bio])

\* Mutant: anybody who holds the link gets the page.
ClaimAnyway(r) ==
    LET q == req[r]
        p == IF profiles[q.who] = None THEN draft ELSE profiles[q.who]
    IN
    /\ q.step = "claim"
    /\ \E s \in resolveSlug(q.who, Fill(p, q.invitation)) :
          Holds(r, [q EXCEPT !.step = "claim.save",
                      !.profile = [Fill(p, q.invitation) EXCEPT !.slug = s],
                      !.invitation.claimedBy = q.who, !.invitation.claimed = TRUE])
    /\ UNCHANGED <<tables, now, setup, history>>

\* ... then the page; one that was claimed goes to nobody else, and nothing happens
\* when it was by this business.
Claim(r) ==
    LET q == req[r]
        p == IF profiles[q.who] = None THEN draft ELSE profiles[q.who]
    IN
    /\ q.step = "claim"
    /\ ~q.invitation.claimed
    /\ \E s \in resolveSlug(q.who, Fill(p, q.invitation)) :
          Holds(r, [q EXCEPT !.step = "claim.save",
                      !.profile = [Fill(p, q.invitation) EXCEPT !.slug = s],
                      !.invitation.claimedBy = q.who, !.invitation.claimed = TRUE])
    /\ UNCHANGED <<tables, now, setup, history>>

\* Both rows in one transaction.
ClaimSave(r) ==
    LET q == req[r] IN
    /\ q.step = "claim.save"
    /\ SaveProfile(q.who, q.profile)
    /\ invitations' = [invitations EXCEPT ![q.which] = q.invitation]
    /\ claimants' = IF alone THEN [claimants EXCEPT ![q.which] = @ \cup {q.who}] ELSE claimants
    /\ Finish(r)
    /\ UNCHANGED <<standing, now, setup>>

\* remove: found unclaimed, and deleted by its id.
RemoveFind(r, i) ==
    /\ Arrives(r, "invite")
    /\ invitations[i] # None /\ ~invitations[i].claimed
    /\ Holds(r, [Idle EXCEPT !.step = "remove", !.which = i])
    /\ UNCHANGED <<tables, now, setup, history>>

Remove(r) ==
    /\ req[r].step = "remove"
    /\ invitations' = [invitations EXCEPT ![req[r].which] = None]
    /\ Finish(r)
    /\ UNCHANGED <<profiles, standing, now, setup, history>>

--------------------------------------------------------------------------------
(***************************************************************************)
(* The admin.                                                              *)
(***************************************************************************)

\* The editor's free month starts with the first approval.
updateApproval(r, b, approved) ==
    LET p == profiles[b] IN
    /\ Arrives(r, "approve")
    /\ p # None
    /\ Holds(r, [Idle EXCEPT !.step = "save", !.who = b,
                   !.profile = LET q == [p EXCEPT !.approved = approved]
                               IN  IF approved THEN startTrial(q) ELSE q])
    /\ UNCHANGED <<tables, now, setup, history>>

updatePlan(r, b, vip) ==
    /\ Arrives(r, "plan")
    /\ profiles[b] # None
    /\ Holds(r, [Idle EXCEPT !.step = "save", !.who = b,
                             !.profile = [profiles[b] EXCEPT !.vip = vip]])
    /\ UNCHANGED <<tables, now, setup, history>>

\* Suspended, let in again, or deleted: the row goes, its slug is free, and who claimed
\* an invitation is cleared.  (Accounts and Onboarding have the requests themselves.)
SetStanding(b) ==
    /\ "status" \in calls
    /\ standing[b] # "deleted"
    /\ standing' = [standing EXCEPT ![b] = IF @ = "active" THEN "suspended" ELSE "active"]
    /\ UNCHANGED <<profiles, invitations, req, now, setup, history>>

DeleteAccount(b) ==
    /\ "delete" \in calls
    /\ alone => \A r \in Requests : req[r] = Idle
    /\ standing[b] # "deleted"
    /\ standing' = [standing EXCEPT ![b] = "deleted"]
    /\ profiles' = [profiles EXCEPT ![b] = None]
    /\ invitations' = [i \in Invitations |->
                         IF invitations[i] # None /\ invitations[i].claimedBy = b
                         THEN [invitations[i] EXCEPT !.claimedBy = None] ELSE invitations[i]]
    /\ UNCHANGED <<req, now, setup, history>>

--------------------------------------------------------------------------------
Edit(r) ==
    \/ \E b \in Businesses : \/ \E fields \in Sent : MineLoad(r, b, fields)
                             \/ publishDesign(r, b)
    \/ MineUpdate(r) \/ Save(r)

Invite(r) ==
    \/ \E i \in Invitations : RemoveFind(r, i) \/ \E b \in Businesses : ClaimFind(r, b, i)
    \/ Claim(r) \/ ClaimSave(r) \/ Remove(r)

Admin(r) == \E b \in Businesses, on \in BOOLEAN : updateApproval(r, b, on) \/ updatePlan(r, b, on)

Next ==
    \/ \E r \in Requests : Edit(r) \/ Invite(r) \/ Admin(r) \/ Abandon(r)
    \/ \E b \in Businesses : SetStanding(b) \/ DeleteAccount(b)
    \/ Tick

Spec == Init /\ [][Next]_vars

--------------------------------------------------------------------------------
(***************************************************************************)
(* Properties.                                                             *)
(***************************************************************************)

Request == [step : Steps, who : Businesses \cup {None}, profile : Profile \cup {None},
            edit : Sent \cup {<<>>},
            which : Invitations \cup {None}, invitation : Invitation \cup {None}]

TypeOK ==
    /\ profiles \in [Businesses -> Profile \cup {None}]
    /\ invitations \in [Invitations -> Invitation \cup {None}]
    /\ standing \in [Businesses -> {"active", "suspended", "deleted"}]
    /\ req \in [Requests -> Request]
    /\ now \in 0..Horizon
    /\ calls \in Traffic /\ alone \in BOOLEAN
    /\ shared \subseteq Businesses \X Slug
    /\ claimants \in [Invitations -> SUBSET Businesses]

\* provider-profile.entity.ts: "complete and approved".  Whatever overlaps and whichever
\* stale copy is saved last, a page visitors see has a name, a text, a rate if it is a
\* walker's, the address it is shared by, and a trial that has started.
VisiblePageIsReady ==
    \A b \in Businesses : Visible(b) =>
        /\ IsComplete(profiles[b])
        /\ profiles[b].slug # None
        /\ profiles[b].trialEnds # 0

\* resolve-slug.ts: "links already shared would break".  A slug that was ever saved leads
\* to its business for as long as that one exists.
LinksKeepWorking ==
    alone => \A link \in shared :
                LET b == link[1] s == link[2] IN profiles[b] # None => profiles[b].slug = s

\* "Esta pagina ya la reclamo otro negocio": a prepared page goes to one business, also
\* after that one was deleted.
OneBusinessPerInvitation ==
    alone => \A i \in Invitations : Cardinality(claimants[i]) <= 1

\* assertCanCustomize: "Rejected outright on the free plan so a downgraded account can't
\* keep editing".  No sequence of calls changes a design after the trial, nor
\* starts a second trial.
DesignFrozen ==
    [][alone => \A b \in Businesses :
          LET p == profiles[b] q == profiles'[b] IN
          p # None /\ q # None =>
              /\ p.draft # q.draft \/ p.live # q.live => canCustomize(p)
              /\ p.trialEnds # 0 => q.trialEnds = p.trialEnds]_vars
================================================================================
