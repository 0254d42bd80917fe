------------------------------ MODULE PagesProofs ------------------------------
(***************************************************************************)
(* Theorems about Pages, for any businesses, names, fields a client sends, *)
(* prepared pages and requests in flight.                                  *)
(***************************************************************************)
EXTENDS Pages, FiniteSetTheorems, TLAPS

\* Every copy of a page, stored or in flight: published only when complete and with an
\* address, approved only when its trial has started.
Ready(p) ==
    /\ p.published => IsComplete(p) /\ p.slug # None
    /\ p.approved => p.trialEnds # 0

\* What a request holds at each await.
HeldPage(q) ==
    /\ q.step \in {"mine", "save", "claim", "claim.save"} => q.who \in Businesses
    /\ q.step \in {"mine", "save", "claim.save"} => q.profile \in Profile /\ Ready(q.profile)
    /\ q.step = "mine" => q.edit \in Sent
    /\ q.step \in {"claim", "claim.save", "remove"} => q.which \in Invitations
    /\ q.step \in {"claim", "claim.save"} => q.invitation \in Invitation

PageInv ==
    /\ TypeOK
    /\ \A b \in Businesses : profiles[b] # None => Ready(profiles[b])
    /\ \A r \in Requests : HeldPage(req[r])

(***************************************************************************)
(* The operations of a profile.                                            *)
(***************************************************************************)

\* What a client may send of a page.
Fields(fields) ==
    /\ DOMAIN fields \subseteq {"name", "bio", "category", "rate", "draft"}
    /\ "name"     \in DOMAIN fields => fields.name \in Names \cup {None}
    /\ "bio"      \in DOMAIN fields => fields.bio \in Texts \cup {Prepared, None}
    /\ "category" \in DOMAIN fields => fields.category \in {"walker", "vet"}
    /\ "rate"     \in DOMAIN fields => fields.rate \in BOOLEAN
    /\ "draft"    \in DOMAIN fields => fields.draft \in Designs

LEMMA DraftIsReady == draft \in Profile /\ Ready(draft) /\ draft.slug = None
BY PageConstants DEF draft, Profile, Ready

\* update writes what was sent and decides afresh whether the page is published; the
\* rest stays as it was.
LEMMA UpdateWrites ==
    ASSUME NEW p \in Profile, NEW fields, Fields(fields)
    PROVE  LET q == update(p, fields) IN
           /\ q \in Profile
           /\ q.published <=> IsComplete(q)
           /\ q.slug = p.slug /\ q.approved = p.approved /\ q.trialEnds = p.trialEnds
           /\ q.live = p.live
           /\ "draft" \notin DOMAIN fields => q.draft = p.draft
<1> DEFINE w == [f \in DOMAIN p |-> IF f \in DOMAIN fields THEN fields[f] ELSE p[f]]
           q == update(p, fields)
<1>1. DOMAIN p = {"name", "bio", "category", "rate", "slug", "published", "approved",
                  "trialEnds", "vip", "draft", "live"}
  BY DEF Profile
<1>2. /\ w.name \in Names \cup {None} /\ w.bio \in Texts \cup {Prepared, None}
      /\ w.category \in {"walker", "vet"} /\ w.rate \in BOOLEAN
      /\ w.draft \in Designs \cup {None}
  BY <1>1 DEF Profile, Fields
<1>3. /\ w.slug = p.slug /\ w.published = p.published /\ w.approved = p.approved
      /\ w.trialEnds = p.trialEnds /\ w.vip = p.vip /\ w.live = p.live
      /\ "draft" \notin DOMAIN fields => w.draft = p.draft
  BY <1>1 DEF Profile, Fields
<1>4. DOMAIN w = DOMAIN p
  OBVIOUS
<1>5. w \in Profile
  <2>1. w = [name |-> w.name, bio |-> w.bio, category |-> w.category, rate |-> w.rate,
             slug |-> w.slug, published |-> w.published, approved |-> w.approved,
             trialEnds |-> w.trialEnds, vip |-> w.vip, draft |-> w.draft, live |-> w.live]
    BY <1>1
  <2>2. /\ w.slug \in Slug \cup {None} /\ w.published \in BOOLEAN /\ w.approved \in BOOLEAN
        /\ w.trialEnds \in 0..(Horizon + TrialDays) /\ w.vip \in BOOLEAN
        /\ w.live \in Designs \cup {Default, None}
    BY <1>3 DEF Profile
  <2> HIDE DEF w
  <2> QED
    BY <1>2, <2>1, <2>2 DEF Profile
<1>6. q = [w EXCEPT !.published = IsComplete(w)]
  BY DEF update
<1> HIDE DEF w, q
<1>7. IsComplete(w) \in BOOLEAN
  BY DEF IsComplete
<1>8. q \in Profile
  BY <1>5, <1>6, <1>7 DEF Profile
<1>9. /\ q.published = IsComplete(w) /\ q.name = w.name /\ q.bio = w.bio
      /\ q.category = w.category /\ q.rate = w.rate /\ q.slug = w.slug
      /\ q.approved = w.approved /\ q.trialEnds = w.trialEnds /\ q.live = w.live
      /\ q.draft = w.draft
  BY <1>5, <1>6 DEF Profile
<1>10. IsComplete(q) = IsComplete(w)
  BY <1>9 DEF IsComplete
<1> QED
  BY <1>3, <1>8, <1>9, <1>10 DEF q

LEMMA SentAreFields == \A fields \in Sent : Fields(fields)
BY PageConstants DEF Fields

\* The address of a page: kept when there is one, found when there is a name.
LEMMA ResolveKeeps ==
    ASSUME NEW b, NEW p \in Profile, NEW s \in resolveSlug(b, p)
    PROVE  /\ s \in Slug \cup {None}
           /\ p.slug # None => s = p.slug
           /\ p.name # None => s # None
BY PageConstants DEF resolveSlug, Profile

\* A page that was updated and given its address is ready to be saved.
LEMMA UpdatedIsReady ==
    ASSUME NEW b, NEW p \in Profile, Ready(p), NEW fields, Fields(fields),
           NEW s \in resolveSlug(b, update(p, fields))
    PROVE  LET q == [update(p, fields) EXCEPT !.slug = s] IN
           /\ q \in Profile /\ Ready(q)
           /\ p.slug # None => q.slug = p.slug
           /\ q.trialEnds = p.trialEnds /\ q.live = p.live
           /\ "draft" \notin DOMAIN fields => q.draft = p.draft
<1>1. PICK u : u = update(p, fields)
  OBVIOUS
<1>2. /\ u \in Profile /\ (u.published <=> IsComplete(u))
      /\ u.slug = p.slug /\ u.approved = p.approved /\ u.trialEnds = p.trialEnds
      /\ u.live = p.live /\ ("draft" \notin DOMAIN fields => u.draft = p.draft)
  BY <1>1, UpdateWrites
<1>3. s \in Slug \cup {None} /\ (u.slug # None => s = u.slug) /\ (u.name # None => s # None)
  BY <1>1, <1>2, ResolveKeeps
<1>4. PICK q : q = [u EXCEPT !.slug = s]
  OBVIOUS
<1>5. /\ q \in Profile /\ q.slug = s /\ q.published = u.published
      /\ q.name = u.name /\ q.bio = u.bio /\ q.category = u.category /\ q.rate = u.rate
      /\ q.approved = u.approved /\ q.trialEnds = u.trialEnds /\ q.live = u.live
      /\ q.draft = u.draft
  BY <1>2, <1>3, <1>4 DEF Profile
<1>6. IsComplete(q) <=> IsComplete(u)
  BY <1>5 DEF IsComplete
<1>7. Ready(q)
  BY <1>2, <1>3, <1>5, <1>6 DEF Ready, IsComplete
<1> QED
  BY <1>1, <1>2, <1>3, <1>4, <1>5, <1>7

\* A prepared page fills what is missing.
LEMMA FillIsUpdate ==
    ASSUME NEW p \in Profile, NEW inv \in Invitation
    PROVE  \E fields : Fields(fields) /\ "draft" \notin DOMAIN fields /\ Fill(p, inv) = update(p, fields)
<1> DEFINE fields == [name |-> IF p.name = None THEN inv.name ELSE p.name,
                      bio  |-> IF p.bio = None THEN Prepared ELSE p.bio]
<1>1. Fields(fields) /\ "draft" \notin DOMAIN fields
  BY DEF Fields, Profile, Invitation
<1>2. Fill(p, inv) = update(p, fields)
  BY DEF Fill
<1> QED
  BY <1>1, <1>2

(***************************************************************************)
(* The invariant, whatever overlaps.                                       *)
(***************************************************************************)

LEMMA IdleHolds == Idle \in Request /\ HeldPage(Idle)
BY DEF Idle, Request, Steps, HeldPage

\* A request arrives, moves on or ends, and no table changes.
LEMMA HoldKeeps ==
    ASSUME PageInv, NEW r \in Requests, NEW new \in Request, HeldPage(new),
           req' = [req EXCEPT ![r] = new], UNCHANGED <<tables, now, setup, history>>
    PROVE  PageInv'
<1>1. TypeOK'
  BY DEF PageInv, TypeOK, tables, setup, history
<1>2. \A q \in Requests : req'[q] = new \/ req'[q] = req[q]
  BY DEF PageInv, TypeOK
<1> QED
  BY <1>1, <1>2 DEF PageInv, tables

\* The row of a business becomes the copy a request holds.
LEMMA SaveKeeps ==
    ASSUME PageInv, NEW r \in Requests, NEW b \in Businesses, NEW p \in Profile, Ready(p),
           SaveProfile(b, p), req' = [req EXCEPT ![r] = Idle],
           invitations' \in [Invitations -> Invitation \cup {None}],
           claimants' \in [Invitations -> SUBSET Businesses],
           UNCHANGED <<standing, now, setup>>
    PROVE  PageInv'
<1>1. req' \in [Requests -> Request]
  BY IdleHolds DEF PageInv, TypeOK
<1>2. profiles' = [profiles EXCEPT ![b] = p]
  BY DEF SaveProfile
<1>3. shared' \subseteq Businesses \X Slug
  <2>1. p.slug = None \/ p.slug \in Slug
    BY DEF Profile
  <2> QED
    BY <2>1 DEF SaveProfile, PageInv, TypeOK
<1>4. TypeOK'
  BY <1>1, <1>2, <1>3 DEF PageInv, TypeOK, setup
<1>5. \A c \in Businesses : profiles'[c] = p \/ profiles'[c] = profiles[c]
  BY <1>2 DEF PageInv, TypeOK
<1>6. \A q \in Requests : req'[q] = Idle \/ req'[q] = req[q]
  BY DEF PageInv, TypeOK
<1> QED
  BY <1>4, <1>5, <1>6, IdleHolds DEF PageInv

LEMMA MineLoadKeeps ==
    ASSUME PageInv, NEW r \in Requests, NEW b \in Businesses, NEW fields \in Sent,
           MineLoad(r, b, fields)
    PROVE  PageInv'
<1> DEFINE p   == IF profiles[b] = None THEN draft ELSE profiles[b]
           new == [Idle EXCEPT !.step = "mine", !.who = b, !.edit = fields, !.profile = p]
<1>1. p \in Profile /\ Ready(p)
  BY DraftIsReady DEF PageInv, TypeOK
<1>2. req' = [req EXCEPT ![r] = new] /\ UNCHANGED <<tables, now, setup, history>>
  BY DEF MineLoad, Holds
<1> HIDE DEF p
<1>3. new \in Request /\ HeldPage(new)
  BY <1>1 DEF Idle, Request, Steps, HeldPage
<1> HIDE DEF new
<1> QED
  BY <1>2, <1>3, HoldKeeps

\* What holds a page that is to be saved.
LEMMA ToSave ==
    ASSUME NEW q \in Request, NEW b \in Businesses, NEW p \in Profile, Ready(p)
    PROVE  LET new == [q EXCEPT !.step = "save", !.who = b, !.profile = p]
           IN  new \in Request /\ HeldPage(new)
BY DEF Request, Steps, HeldPage

LEMMA MineUpdateKeeps ==
    ASSUME PageInv, NEW r \in Requests, MineUpdate(r)
    PROVE  PageInv'
<1> DEFINE q == req[r]
<1>1. q.step = "mine" /\ q \in Request /\ UNCHANGED <<tables, now, setup, history>>
  BY DEF MineUpdate, PageInv, TypeOK
<1>2. /\ q.who \in Businesses /\ q.profile \in Profile /\ Ready(q.profile)
      /\ q.edit \in Sent
  BY <1>1 DEF PageInv, HeldPage
<1>3. PICK s \in resolveSlug(q.who, update(q.profile, q.edit)) :
          Holds(r, [q EXCEPT !.step = "save",
                             !.profile = [update(q.profile, q.edit) EXCEPT !.slug = s]])
  BY DEF MineUpdate
<1>4. PICK p : p = [update(q.profile, q.edit) EXCEPT !.slug = s]
  OBVIOUS
<1>5. p \in Profile /\ Ready(p)
  BY <1>2, <1>4, SentAreFields, UpdatedIsReady
<1>6. PICK new : new = [q EXCEPT !.step = "save", !.profile = p]
  OBVIOUS
<1>7. new \in Request /\ HeldPage(new)
  BY <1>1, <1>2, <1>5, <1>6 DEF Request, Steps, HeldPage
<1>8. req' = [req EXCEPT ![r] = new]
  BY <1>3, <1>4, <1>6 DEF Holds
<1> QED
  BY <1>1, <1>7, <1>8, HoldKeeps

\* What an admin or the publisher changes of a page leaves it ready.
LEMMA MarksAreReady ==
    ASSUME NEW p \in Profile, Ready(p), now \in 0..Horizon
    PROVE  /\ \A vip \in BOOLEAN :
                [p EXCEPT !.vip = vip] \in Profile /\ Ready([p EXCEPT !.vip = vip])
           /\ LET q == [p EXCEPT !.live = IF p.draft = None THEN Default ELSE p.draft]
              IN  q \in Profile /\ Ready(q)
           /\ \A on \in BOOLEAN :
                LET u == [p EXCEPT !.approved = on]
                    q == IF on THEN startTrial(u) ELSE u
                IN  q \in Profile /\ Ready(q)
<1>1. ASSUME NEW vip \in BOOLEAN
      PROVE  [p EXCEPT !.vip = vip] \in Profile /\ Ready([p EXCEPT !.vip = vip])
  BY DEF Profile, Ready, IsComplete
<1>2. LET q == [p EXCEPT !.live = IF p.draft = None THEN Default ELSE p.draft]
      IN  q \in Profile /\ Ready(q)
  BY DEF Profile, Ready, IsComplete
<1>3. ASSUME NEW on \in BOOLEAN
      PROVE  LET u == [p EXCEPT !.approved = on]
                 q == IF on THEN startTrial(u) ELSE u
             IN  q \in Profile /\ Ready(q)
  <2>1. PICK u : u = [p EXCEPT !.approved = on]
    OBVIOUS
  <2>2. /\ u \in Profile /\ u.published = p.published /\ u.name = p.name /\ u.bio = p.bio
        /\ u.category = p.category /\ u.rate = p.rate /\ u.slug = p.slug
        /\ u.trialEnds = p.trialEnds /\ u.approved = on
    BY <2>1 DEF Profile
  <2>3. CASE ~on
    BY <2>1, <2>2, <2>3 DEF Ready, IsComplete
  <2>4. CASE on /\ u.trialEnds # 0
    BY <2>1, <2>2, <2>4 DEF Ready, IsComplete, startTrial
  <2>5. CASE on /\ u.trialEnds = 0
    <3>1. PICK q : q = [u EXCEPT !.trialEnds = now + TrialDays]
      OBVIOUS
    <3>2. /\ now + TrialDays \in 0..(Horizon + TrialDays) /\ now + TrialDays # 0
      BY PageConstants
    <3>3. q \in Profile
      BY <2>2, <3>1, <3>2 DEF Profile
    <3>4. /\ q.published = u.published /\ q.name = u.name /\ q.bio = u.bio
          /\ q.category = u.category /\ q.rate = u.rate /\ q.slug = u.slug
          /\ q.trialEnds = now + TrialDays /\ q.approved = u.approved
      BY <2>2, <3>1 DEF Profile
    <3>5. Ready(q)
      BY <2>2, <3>2, <3>4 DEF Ready, IsComplete
    <3> QED
      BY <2>1, <2>5, <3>1, <3>3, <3>5 DEF startTrial
  <2> QED
    BY <2>3, <2>4, <2>5
<1> QED
  BY <1>1, <1>2, <1>3

\* A page that is loaded and held to be saved.
LEMMA LoadToSaveKeeps ==
    ASSUME PageInv, NEW r \in Requests, NEW b \in Businesses, NEW p \in Profile, Ready(p),
           Holds(r, [Idle EXCEPT !.step = "save", !.who = b, !.profile = p]),
           UNCHANGED <<tables, now, setup, history>>
    PROVE  PageInv'
<1>1. PICK new : new = [Idle EXCEPT !.step = "save", !.who = b, !.profile = p]
  OBVIOUS
<1> QED
  BY <1>1, IdleHolds, ToSave, HoldKeeps DEF Holds

LEMMA MarkingKeeps ==
    ASSUME PageInv, NEW r \in Requests, NEW b \in Businesses,
           \/ publishDesign(r, b)
           \/ \E on \in BOOLEAN : updateApproval(r, b, on) \/ updatePlan(r, b, on)
    PROVE  PageInv'
<1>1. profiles[b] # None
  BY DEF publishDesign, updateApproval, updatePlan
<1>2. profiles[b] \in Profile /\ Ready(profiles[b]) /\ now \in 0..Horizon
  BY <1>1 DEF PageInv, TypeOK
<1>3. UNCHANGED <<tables, now, setup, history>>
  BY DEF publishDesign, updateApproval, updatePlan
<1>4. CASE publishDesign(r, b)
  <2>1. PICK p : p = [profiles[b] EXCEPT !.live = IF profiles[b].draft = None THEN Default
                                                  ELSE profiles[b].draft]
    OBVIOUS
  <2>2. p \in Profile /\ Ready(p)
    BY <1>2, <2>1, MarksAreReady
  <2> QED
    BY <1>3, <1>4, <2>1, <2>2, LoadToSaveKeeps DEF publishDesign
<1>5. ASSUME NEW on \in BOOLEAN, updateApproval(r, b, on) PROVE PageInv'
  <2>1. PICK u : u = [profiles[b] EXCEPT !.approved = on]
    OBVIOUS
  <2>2. PICK p : p = IF on THEN startTrial(u) ELSE u
    OBVIOUS
  <2>3. p \in Profile /\ Ready(p)
    BY <1>2, <2>1, <2>2, MarksAreReady
  <2> QED
    BY <1>3, <1>5, <2>1, <2>2, <2>3, LoadToSaveKeeps DEF updateApproval
<1>6. ASSUME NEW on \in BOOLEAN, updatePlan(r, b, on) PROVE PageInv'
  <2>1. PICK p : p = [profiles[b] EXCEPT !.vip = on]
    OBVIOUS
  <2>2. p \in Profile /\ Ready(p)
    BY <1>2, <2>1, MarksAreReady
  <2> QED
    BY <1>3, <1>6, <2>1, <2>2, LoadToSaveKeeps DEF updatePlan
<1> QED
  BY <1>4, <1>5, <1>6

LEMMA FindKeeps ==
    ASSUME PageInv, NEW r \in Requests, NEW i \in Invitations,
           RemoveFind(r, i) \/ \E b \in Businesses : ClaimFind(r, b, i)
    PROVE  PageInv'
<1>1. ASSUME RemoveFind(r, i) PROVE PageInv'
  <2>1. PICK new : new = [Idle EXCEPT !.step = "remove", !.which = i]
    OBVIOUS
  <2>2. new \in Request /\ HeldPage(new)
    BY <2>1 DEF Idle, Request, Steps, HeldPage
  <2> QED
    BY <1>1, <2>1, <2>2, HoldKeeps DEF RemoveFind, Holds
<1>2. ASSUME NEW b \in Businesses, ClaimFind(r, b, i) PROVE PageInv'
  <2>1. PICK new : new = [Idle EXCEPT !.step = "claim", !.who = b, !.which = i,
                                      !.invitation = invitations[i]]
    OBVIOUS
  <2>2. invitations[i] \in Invitation
    BY <1>2 DEF ClaimFind, PageInv, TypeOK
  <2>3. new \in Request /\ HeldPage(new)
    BY <2>1, <2>2 DEF Idle, Request, Steps, HeldPage
  <2> QED
    BY <1>2, <2>1, <2>3, HoldKeeps DEF ClaimFind, Holds
<1> QED
  BY <1>1, <1>2

\* What a claim computes: the filled page, and the invitation as claimed.
LEMMA ClaimHolds ==
    ASSUME PageInv, NEW r \in Requests, Claim(r)
    PROVE  \E p \in Profile, inv \in Invitation :
              LET q   == req[r]
                  row == profiles[q.who]
                  new == [q EXCEPT !.step = "claim.save", !.profile = p, !.invitation = inv]
              IN
              /\ q.step = "claim" /\ q.who \in Businesses /\ q.which \in Invitations
              /\ ~q.invitation.claimed
              /\ Ready(p)
              /\ row # None => /\ row.slug # None => p.slug = row.slug
                               /\ p.trialEnds = row.trialEnds
                               /\ p.live = row.live /\ p.draft = row.draft
              /\ inv.claimed /\ inv.claimedBy = q.who
              /\ req' = [req EXCEPT ![r] = new]
              /\ new \in Request /\ HeldPage(new)
              /\ UNCHANGED <<tables, now, setup, history>>
<1>1. PICK q : q = req[r]
  OBVIOUS
<1>2. /\ q \in Request /\ q.step = "claim" /\ ~q.invitation.claimed
      /\ UNCHANGED <<tables, now, setup, history>>
  BY <1>1 DEF Claim, PageInv, TypeOK
<1>3. q.who \in Businesses /\ q.which \in Invitations /\ q.invitation \in Invitation
  BY <1>1, <1>2 DEF PageInv, HeldPage
<1>4. PICK old : old = IF profiles[q.who] = None THEN draft ELSE profiles[q.who]
  OBVIOUS
<1>5. old \in Profile /\ Ready(old)
  BY <1>3, <1>4, DraftIsReady DEF PageInv, TypeOK
<1>6. PICK s \in resolveSlug(q.who, Fill(old, q.invitation)) :
          Holds(r, [q EXCEPT !.step = "claim.save",
                      !.profile = [Fill(old, q.invitation) EXCEPT !.slug = s],
                      !.invitation.claimedBy = q.who, !.invitation.claimed = TRUE])
  BY <1>1, <1>4 DEF Claim
<1>7. PICK p : p = [Fill(old, q.invitation) EXCEPT !.slug = s]
  OBVIOUS
<1>8. PICK fields : /\ Fields(fields) /\ "draft" \notin DOMAIN fields
                    /\ Fill(old, q.invitation) = update(old, fields)
  BY <1>3, <1>5, FillIsUpdate
<1>9. /\ p \in Profile /\ Ready(p) /\ (old.slug # None => p.slug = old.slug)
      /\ p.trialEnds = old.trialEnds /\ p.live = old.live /\ p.draft = old.draft
  BY <1>5, <1>6, <1>7, <1>8, UpdatedIsReady
<1>10. PICK inv : inv = [q.invitation EXCEPT !.claimedBy = q.who, !.claimed = TRUE]
  OBVIOUS
<1>11. inv \in Invitation /\ inv.claimed /\ inv.claimedBy = q.who
  BY <1>3, <1>10 DEF Invitation
<1>12. PICK new : new = [q EXCEPT !.step = "claim.save", !.profile = p, !.invitation = inv]
  OBVIOUS
<1>13. /\ new \in Request /\ new.step = "claim.save" /\ new.who = q.who
       /\ new.which = q.which /\ new.profile = p /\ new.invitation = inv
  BY <1>2, <1>3, <1>9, <1>11, <1>12 DEF Request, Steps
<1>14. HeldPage(new)
  BY <1>3, <1>9, <1>11, <1>13 DEF HeldPage
<1>15. req' = [req EXCEPT ![r] = new]
  BY <1>2, <1>6, <1>7, <1>10, <1>12 DEF Holds, Request
<1>16. profiles[q.who] # None => old = profiles[q.who]
  BY <1>4
<1> QED
  BY <1>1, <1>2, <1>3, <1>9, <1>11, <1>12, <1>13, <1>14, <1>15, <1>16

LEMMA ClaimKeeps ==
    ASSUME PageInv, NEW r \in Requests, Claim(r)
    PROVE  PageInv'
<1>1. PICK new \in Request : /\ req' = [req EXCEPT ![r] = new] /\ HeldPage(new)
                             /\ UNCHANGED <<tables, now, setup, history>>
  BY ClaimHolds
<1> QED
  BY <1>1, HoldKeeps

LEMMA SavingKeeps ==
    ASSUME PageInv, NEW r \in Requests, Save(r) \/ ClaimSave(r)
    PROVE  PageInv'
<1>1. req[r].step \in {"save", "claim.save"} /\ SaveProfile(req[r].who, req[r].profile)
  BY DEF Save, ClaimSave
<1>2. PICK b \in Businesses, p \in Profile :
          req[r].who = b /\ req[r].profile = p /\ Ready(p)
  BY <1>1 DEF PageInv, HeldPage
<1>3. req' = [req EXCEPT ![r] = Idle] /\ UNCHANGED <<standing, now, setup>>
  BY DEF Save, ClaimSave, Finish
<1>4. invitations' \in [Invitations -> Invitation \cup {None}]
  <2>1. CASE Save(r)
    BY <2>1 DEF Save, PageInv, TypeOK
  <2>2. CASE ClaimSave(r)
    <3>1. req[r].which \in Invitations /\ req[r].invitation \in Invitation
      BY <2>2 DEF ClaimSave, PageInv, HeldPage
    <3> QED
      BY <2>2, <3>1 DEF ClaimSave, PageInv, TypeOK
  <2> QED
    BY <2>1, <2>2
<1>5. claimants' \in [Invitations -> SUBSET Businesses]
  <2>1. CASE Save(r)
    BY <2>1 DEF Save, PageInv, TypeOK
  <2>2. CASE ClaimSave(r)
    <3>1. claimants' = IF alone THEN [claimants EXCEPT ![req[r].which] = @ \cup {b}]
                       ELSE claimants
      BY <1>2, <2>2 DEF ClaimSave
    <3> QED
      BY <3>1 DEF PageInv, TypeOK
  <2> QED
    BY <2>1, <2>2
<1> QED
  BY <1>1, <1>2, <1>3, <1>4, <1>5, SaveKeeps

\* An invitation is removed, an account is suspended or deleted: no page changes but
\* those that go.
LEMMA RestKeeps ==
    ASSUME PageInv, TypeOK',
           \A q \in Requests : req'[q] = Idle \/ req'[q] = req[q],
           \A b \in Businesses : profiles'[b] = None \/ profiles'[b] = profiles[b]
    PROVE  PageInv'
BY IdleHolds DEF PageInv

LEMMA RemoveKeeps ==
    ASSUME PageInv, NEW r \in Requests, Remove(r)
    PROVE  PageInv'
<1>1. /\ req' = [req EXCEPT ![r] = Idle]
      /\ invitations' = [invitations EXCEPT ![req[r].which] = None]
      /\ UNCHANGED <<profiles, standing, now, setup, history>>
  BY DEF Remove, Finish
<1>2. TypeOK'
  BY <1>1, IdleHolds DEF PageInv, TypeOK, setup, history
<1>3. \A q \in Requests : req'[q] = Idle \/ req'[q] = req[q]
  BY <1>1 DEF PageInv, TypeOK
<1> QED
  BY <1>1, <1>2, <1>3, RestKeeps

LEMMA AbandonKeeps ==
    ASSUME PageInv, NEW r \in Requests, Abandon(r)
    PROVE  PageInv'
BY IdleHolds, HoldKeeps DEF Abandon, Finish

LEMMA SetStandingKeeps ==
    ASSUME PageInv, NEW b \in Businesses, SetStanding(b)
    PROVE  PageInv'
<1>1. TypeOK'
  BY DEF SetStanding, PageInv, TypeOK, setup, history
<1> QED
  BY <1>1, RestKeeps DEF SetStanding

LEMMA DeleteAccountKeeps ==
    ASSUME PageInv, NEW b \in Businesses, DeleteAccount(b)
    PROVE  PageInv'
<1>1. profiles' \in [Businesses -> Profile \cup {None}]
      /\ standing' \in [Businesses -> {"active", "suspended", "deleted"}]
  BY DEF DeleteAccount, PageInv, TypeOK
<1>2. invitations' \in [Invitations -> Invitation \cup {None}]
  <2>1. ASSUME NEW inv \in Invitation PROVE [inv EXCEPT !.claimedBy = None] \in Invitation
    BY DEF Invitation
  <2> QED
    BY <2>1 DEF DeleteAccount, PageInv, TypeOK
<1>3. TypeOK'
  BY <1>1, <1>2 DEF DeleteAccount, PageInv, TypeOK, setup, history
<1>4. \A c \in Businesses : profiles'[c] = None \/ profiles'[c] = profiles[c]
  BY DEF DeleteAccount, PageInv, TypeOK
<1> QED
  BY <1>3, <1>4, RestKeeps DEF DeleteAccount

LEMMA InitKeeps == Init => PageInv
<1> SUFFICES ASSUME Init PROVE PageInv
  OBVIOUS
<1>1. ASSUME NEW n \in Known
      PROVE  [draft EXCEPT !.name = n] \in Profile /\ Ready([draft EXCEPT !.name = n])
  <2>1. PICK p : p = [draft EXCEPT !.name = n]
    OBVIOUS
  <2>2. n \in Names
    BY PageConstants
  <2>3. p \in Profile
    BY <2>1, <2>2, DraftIsReady DEF Profile
  <2>4. p.published = FALSE /\ p.approved = FALSE
    BY <2>1 DEF draft
  <2> QED
    BY <2>1, <2>3, <2>4 DEF Ready
<1>2. \A b \in Businesses : profiles[b] = None \/ (profiles[b] \in Profile /\ Ready(profiles[b]))
  BY <1>1 DEF Init
<1>3. profiles \in [Businesses -> Profile \cup {None}]
  BY <1>2 DEF Init
<1>4. invitations \in [Invitations -> Invitation \cup {None}]
  BY PageConstants DEF Init, Invitation
<1>5. req \in [Requests -> Request] /\ \A r \in Requests : HeldPage(req[r])
  BY IdleHolds DEF Init
<1>6. TypeOK
  BY <1>3, <1>4, <1>5, PageConstants DEF Init, TypeOK
<1> QED
  BY <1>2, <1>5, <1>6 DEF PageInv

LEMMA NextKeeps == PageInv /\ [Next]_vars => PageInv'
<1> SUFFICES ASSUME PageInv, [Next]_vars PROVE PageInv'
  OBVIOUS
<1>1. ASSUME NEW r \in Requests, Edit(r) PROVE PageInv'
  BY <1>1, MineLoadKeeps, MarkingKeeps, MineUpdateKeeps, SavingKeeps DEF Edit
<1>2. ASSUME NEW r \in Requests, Invite(r) PROVE PageInv'
  BY <1>2, FindKeeps, ClaimKeeps, SavingKeeps, RemoveKeeps DEF Invite
<1>3. ASSUME NEW r \in Requests, Admin(r) PROVE PageInv'
  BY <1>3, MarkingKeeps DEF Admin
<1>4. CASE Tick
  <2>1. now' \in 0..Horizon
    BY <1>4, PageConstants DEF Tick, PageInv, TypeOK
  <2>2. TypeOK'
    BY <1>4, <2>1 DEF Tick, PageInv, TypeOK, tables, setup, history
  <2> QED
    BY <1>4, <2>2, RestKeeps DEF Tick, tables
<1>5. CASE UNCHANGED vars
  <2>1. TypeOK'
    BY <1>5 DEF vars, PageInv, TypeOK, tables, setup, history
  <2> QED
    BY <1>5, <2>1, RestKeeps DEF vars, tables
<1> QED
  BY <1>1, <1>2, <1>3, <1>4, <1>5, AbandonKeeps, SetStandingKeeps, DeleteAccountKeeps DEF Next

LEMMA AlwaysReady == Spec => []PageInv
BY InitKeeps, NextKeeps, PTL DEF Spec

\* Every row and every copy in flight keeps its type.
THEOREM TypeCorrect == Spec => []TypeOK
<1>1. PageInv => TypeOK
  BY DEF PageInv
<1> QED
  BY <1>1, AlwaysReady, PTL

\* isPubliclyVisible: whatever overlaps and whichever stale copy is saved last, a page
\* that visitors see is complete, has its address and has had its trial started.
THEOREM VisibleIsReady == Spec => []VisiblePageIsReady
<1>1. PageInv => VisiblePageIsReady
  BY DEF PageInv, VisiblePageIsReady, Visible, Ready
<1> QED
  BY <1>1, AlwaysReady, PTL

(***************************************************************************)
(* When requests do not overlap.                                           *)
(***************************************************************************)

\* What a save may change of the page it replaces.
Follows(row, p) ==
    /\ row.slug # None => p.slug = row.slug
    /\ row.draft # p.draft \/ row.live # p.live => canCustomize(row)
    /\ row.trialEnds # 0 => p.trialEnds = row.trialEnds

\* What a request holds agrees with the tables as they are.
InStep(q) ==
    LET row == profiles[q.who] IN
    /\ q.step \in {"mine", "save", "claim", "claim.save"} =>
          row # None \/ standing[q.who] # "deleted"
    /\ q.step = "mine" => row = None \/ q.profile = row
    /\ q.step \in {"save", "claim.save"} => row = None \/ Follows(row, q.profile)
    /\ q.step = "claim" => q.invitation = invitations[q.which]
    /\ q.step = "claim.save" => /\ invitations[q.which] # None /\ ~invitations[q.which].claimed
                                /\ q.invitation.claimed

\* An address that was shared is its business's, or the business is gone for good.
Links ==
    \A link \in shared :
        LET b == link[1] s == link[2] IN
        IF profiles[b] = None THEN standing[b] = "deleted" ELSE profiles[b].slug = s

\* A prepared page that was given to a business cannot be claimed again.
Claims ==
    \A i \in Invitations :
        \/ claimants[i] = {}
        \/ /\ \E b \in Businesses : claimants[i] = {b}
           /\ invitations[i] = None \/ invitations[i].claimed

AloneInv ==
    alone =>
        /\ \A q, r \in Requests : req[q] # Idle /\ req[r] # Idle => q = r
        /\ \A r \in Requests : InStep(req[r])
        /\ Links /\ Claims

\* Nobody but r is at work.
Only(r) == \A q \in Requests : q # r => req[q] = Idle

LEMMA IdleInStep == InStep(Idle) /\ InStep(Idle)'
BY DEF InStep, Idle

LEMMA WorksAlone ==
    ASSUME AloneInv, alone, NEW r \in Requests, req[r].step # "idle"
    PROVE  Only(r) /\ InStep(req[r])
<1>1. req[r] # Idle
  BY DEF Idle
<1> QED
  BY <1>1 DEF AloneInv, Only

LEMMA AloneStep ==
    ASSUME NEW r \in Requests, Only(r)', InStep(req[r])', Links', Claims'
    PROVE  AloneInv'
<1>1. \A q \in Requests : q # r => req'[q] = Idle
  BY DEF Only
<1>2. \A q \in Requests : q # r => InStep(req[q])'
  BY <1>1, IdleInStep
<1> QED
  BY <1>1, <1>2 DEF AloneInv

LEMMA HoldAlone ==
    ASSUME PageInv, AloneInv, alone, NEW r \in Requests, Only(r), NEW new, InStep(new),
           req' = [req EXCEPT ![r] = new], UNCHANGED <<tables, now, setup, history>>
    PROVE  AloneInv'
<1>1. req'[r] = new /\ \A q \in Requests : q # r => req'[q] = req[q]
  BY DEF PageInv, TypeOK
<1>2. Only(r)'
  BY <1>1 DEF Only
<1>3. InStep(new)'
  BY DEF InStep, Follows, canCustomize, tables
<1>4. Links' /\ Claims'
  BY DEF AloneInv, Links, Claims, tables, history
<1> QED
  BY <1>1, <1>2, <1>3, <1>4, AloneStep

\* A request that arrives with the page it is to save.
LEMMA LoadToSaveAlone ==
    ASSUME PageInv, AloneInv, alone, NEW r \in Requests, NEW e, Arrives(r, e),
           NEW b \in Businesses, NEW p, profiles[b] # None, Follows(profiles[b], p),
           Holds(r, [Idle EXCEPT !.step = "save", !.who = b, !.profile = p]),
           UNCHANGED <<tables, now, setup, history>>
    PROVE  AloneInv'
<1>1. Only(r)
  BY DEF Arrives, Only
<1>2. PICK new : new = [Idle EXCEPT !.step = "save", !.who = b, !.profile = p]
  OBVIOUS
<1>3. new.step = "save" /\ new.who = b /\ new.profile = p
  BY <1>2 DEF Idle
<1>4. InStep(new)
  BY <1>3 DEF InStep
<1> QED
  BY <1>1, <1>2, <1>4, HoldAlone DEF Holds

LEMMA MarkingAlone ==
    ASSUME PageInv, AloneInv, alone, NEW r \in Requests, NEW b \in Businesses,
           \/ publishDesign(r, b)
           \/ \E on \in BOOLEAN : updateApproval(r, b, on) \/ updatePlan(r, b, on)
    PROVE  AloneInv'
<1> DEFINE row == profiles[b]
<1>1. row # None /\ row \in Profile /\ UNCHANGED <<tables, now, setup, history>>
  BY DEF publishDesign, updateApproval, updatePlan, PageInv, TypeOK
<1>2. CASE publishDesign(r, b)
  <2>1. PICK p : p = [row EXCEPT !.live = IF row.draft = None THEN Default ELSE row.draft]
    OBVIOUS
  <2>2. p.slug = row.slug /\ p.trialEnds = row.trialEnds /\ canCustomize(row)
    BY <1>1, <1>2, <2>1 DEF Profile, publishDesign
  <2> QED
    BY <1>1, <1>2, <2>1, <2>2, LoadToSaveAlone DEF publishDesign, Follows
<1>3. ASSUME NEW on \in BOOLEAN, updateApproval(r, b, on) PROVE AloneInv'
  <2>1. PICK u : u = [row EXCEPT !.approved = on]
    OBVIOUS
  <2>2. PICK p : p = IF on THEN startTrial(u) ELSE u
    OBVIOUS
  <2>3. u \in Profile /\ u.slug = row.slug /\ u.trialEnds = row.trialEnds
        /\ u.draft = row.draft /\ u.live = row.live
    BY <1>1, <2>1 DEF Profile
  <2>4. p.slug = row.slug /\ p.draft = row.draft /\ p.live = row.live
        /\ (row.trialEnds # 0 => p.trialEnds = row.trialEnds)
    BY <2>2, <2>3 DEF Profile, startTrial
  <2> QED
    BY <1>1, <1>3, <2>1, <2>2, <2>4, LoadToSaveAlone DEF updateApproval, Follows
<1>4. ASSUME NEW on \in BOOLEAN, updatePlan(r, b, on) PROVE AloneInv'
  <2>1. PICK p : p = [row EXCEPT !.vip = on]
    OBVIOUS
  <2>2. p.slug = row.slug /\ p.draft = row.draft /\ p.live = row.live
        /\ p.trialEnds = row.trialEnds
    BY <1>1, <2>1 DEF Profile
  <2> QED
    BY <1>1, <1>4, <2>1, <2>2, LoadToSaveAlone DEF updatePlan, Follows
<1> QED
  BY <1>2, <1>3, <1>4

LEMMA FindAlone ==
    ASSUME PageInv, AloneInv, alone, NEW r \in Requests,
           \/ \E b \in Businesses, fields \in Sent : MineLoad(r, b, fields)
           \/ \E b \in Businesses, i \in Invitations : ClaimFind(r, b, i)
           \/ \E i \in Invitations : RemoveFind(r, i)
    PROVE  AloneInv'
<1>1. Only(r)
  BY DEF MineLoad, ClaimFind, RemoveFind, Arrives, Only
<1>2. ASSUME NEW b \in Businesses, NEW fields \in Sent, MineLoad(r, b, fields) PROVE AloneInv'
  <2>1. PICK new : new = [Idle EXCEPT !.step = "mine", !.who = b, !.edit = fields,
                             !.profile = IF profiles[b] = None THEN draft ELSE profiles[b]]
    OBVIOUS
  <2>2. /\ new.step = "mine" /\ new.who = b
        /\ new.profile = IF profiles[b] = None THEN draft ELSE profiles[b]
    BY <2>1 DEF Idle
  <2>3. InStep(new)
    BY <1>2, <2>2 DEF InStep, MineLoad
  <2> QED
    BY <1>1, <1>2, <2>1, <2>3, HoldAlone DEF MineLoad, Holds
<1>3. ASSUME NEW b \in Businesses, NEW i \in Invitations, ClaimFind(r, b, i) PROVE AloneInv'
  <2>1. PICK new : new = [Idle EXCEPT !.step = "claim", !.who = b, !.which = i,
                                      !.invitation = invitations[i]]
    OBVIOUS
  <2>2. /\ new.step = "claim" /\ new.who = b /\ new.which = i
        /\ new.invitation = invitations[i]
    BY <2>1 DEF Idle
  <2>3. InStep(new)
    BY <1>3, <2>2 DEF InStep, ClaimFind
  <2> QED
    BY <1>1, <1>3, <2>1, <2>3, HoldAlone DEF ClaimFind, Holds
<1>4. ASSUME NEW i \in Invitations, RemoveFind(r, i) PROVE AloneInv'
  <2>1. PICK new : new = [Idle EXCEPT !.step = "remove", !.which = i]
    OBVIOUS
  <2>2. new.step = "remove"
    BY <2>1 DEF Idle
  <2>3. InStep(new)
    BY <2>2 DEF InStep
  <2> QED
    BY <1>1, <1>4, <2>1, <2>3, HoldAlone DEF RemoveFind, Holds
<1> QED
  BY <1>2, <1>3, <1>4

LEMMA MineUpdateAlone ==
    ASSUME PageInv, AloneInv, alone, NEW r \in Requests, MineUpdate(r)
    PROVE  AloneInv'
<1>1. PICK q : q = req[r]
  OBVIOUS
<1>2. /\ q.step = "mine" /\ q \in Request /\ UNCHANGED <<tables, now, setup, history>>
      /\ "draft" \in DOMAIN q.edit => canCustomize(q.profile)
  BY <1>1 DEF MineUpdate, PageInv, TypeOK
<1>3. q.profile \in Profile /\ Ready(q.profile) /\ q.edit \in Sent
  BY <1>1, <1>2 DEF PageInv, HeldPage
<1>4. Only(r) /\ InStep(q)
  BY <1>1, <1>2, WorksAlone
<1>5. PICK s \in resolveSlug(q.who, update(q.profile, q.edit)) :
          Holds(r, [q EXCEPT !.step = "save",
                             !.profile = [update(q.profile, q.edit) EXCEPT !.slug = s]])
  BY <1>1 DEF MineUpdate
<1>6. PICK p : p = [update(q.profile, q.edit) EXCEPT !.slug = s]
  OBVIOUS
<1>7. /\ q.profile.slug # None => p.slug = q.profile.slug
      /\ p.trialEnds = q.profile.trialEnds /\ p.live = q.profile.live
      /\ "draft" \notin DOMAIN q.edit => p.draft = q.profile.draft
  BY <1>3, <1>6, SentAreFields, UpdatedIsReady
<1>8. Follows(q.profile, p)
  BY <1>2, <1>7 DEF Follows
<1>9. PICK new : new = [q EXCEPT !.step = "save", !.profile = p]
  OBVIOUS
<1>10. new.step = "save" /\ new.who = q.who /\ new.profile = p
  BY <1>2, <1>9 DEF Request
<1>11. InStep(new)
  BY <1>2, <1>4, <1>8, <1>10 DEF InStep
<1>12. req' = [req EXCEPT ![r] = new]
  BY <1>5, <1>6, <1>9 DEF Holds
<1> QED
  BY <1>2, <1>4, <1>11, <1>12, HoldAlone

LEMMA ClaimAlone ==
    ASSUME PageInv, AloneInv, alone, NEW r \in Requests, Claim(r)
    PROVE  AloneInv'
<1>1. PICK q : q = req[r]
  OBVIOUS
<1>2. PICK p \in Profile, inv \in Invitation :
          LET row == profiles[q.who]
              new == [q EXCEPT !.step = "claim.save", !.profile = p, !.invitation = inv]
          IN
          /\ q.step = "claim" /\ q.which \in Invitations /\ ~q.invitation.claimed
          /\ row # None => /\ row.slug # None => p.slug = row.slug
                           /\ p.trialEnds = row.trialEnds
                           /\ p.live = row.live /\ p.draft = row.draft
          /\ inv.claimed
          /\ req' = [req EXCEPT ![r] = new]
          /\ UNCHANGED <<tables, now, setup, history>>
  BY <1>1, ClaimHolds
<1>3. Only(r) /\ InStep(q) /\ q \in Request
  BY <1>1, <1>2, WorksAlone DEF PageInv, TypeOK
<1>4. PICK new : new = [q EXCEPT !.step = "claim.save", !.profile = p, !.invitation = inv]
  OBVIOUS
<1>5. /\ new.step = "claim.save" /\ new.who = q.who /\ new.which = q.which
      /\ new.profile = p /\ new.invitation = inv
  BY <1>3, <1>4 DEF Request
<1>6. q.invitation = invitations[q.which] /\ q.invitation \in Invitation
  BY <1>1, <1>2, <1>3 DEF InStep, PageInv, HeldPage
<1>7. invitations[q.which] # None
  BY <1>6, PageConstants
<1>8. profiles[q.who] # None => Follows(profiles[q.who], p)
  BY <1>2 DEF Follows
<1>9. InStep(new)
  BY <1>2, <1>3, <1>5, <1>6, <1>7, <1>8 DEF InStep
<1> QED
  BY <1>2, <1>3, <1>4, <1>9, HoldAlone

\* The row becomes the copy: a shared address is kept, and this one is shared from now on.
LEMMA SaveLinks ==
    ASSUME PageInv, AloneInv, alone, NEW r \in Requests,
           req[r].step \in {"save", "claim.save"},
           NEW b \in Businesses, NEW p \in Profile, req[r].who = b, req[r].profile = p,
           SaveProfile(b, p), UNCHANGED standing
    PROVE  Links'
<1>1. InStep(req[r])
  BY WorksAlone
<1>2. p # None
  BY PageConstants
<1>3. profiles'[b] = p /\ \A c \in Businesses : c # b => profiles'[c] = profiles[c]
  BY DEF SaveProfile, PageInv, TypeOK
<1>4. ASSUME NEW link \in shared'
      PROVE  LET c == link[1] s == link[2] IN
             IF profiles'[c] = None THEN standing'[c] = "deleted" ELSE profiles'[c].slug = s
  <2> DEFINE c == link[1]
             s == link[2]
  <2>1. CASE link \in shared
    <3>1. c \in Businesses /\ s \in Slug
      BY <2>1 DEF PageInv, TypeOK
    <3>2. IF profiles[c] = None THEN standing[c] = "deleted" ELSE profiles[c].slug = s
      BY <2>1 DEF AloneInv, Links
    <3>3. CASE c # b
      BY <1>3, <3>1, <3>2, <3>3
    <3>4. CASE c = b
      <4>1. profiles[b] # None /\ Follows(profiles[b], p)
        BY <1>1, <3>2, <3>4 DEF InStep
      <4>2. profiles[b].slug = s /\ s # None
        BY <3>1, <3>2, <3>4, <4>1, PageConstants
      <4> QED
        BY <1>2, <1>3, <3>4, <4>1, <4>2 DEF Follows
    <3> QED
      BY <3>3, <3>4
  <2>2. CASE link = <<b, p.slug>>
    BY <1>2, <1>3, <2>2
  <2> QED
    BY <2>1, <2>2 DEF SaveProfile
<1> QED
  BY <1>4 DEF Links

LEMMA SavingAlone ==
    ASSUME PageInv, AloneInv, alone, NEW r \in Requests, Save(r) \/ ClaimSave(r)
    PROVE  AloneInv'
<1>1. /\ req[r].step \in {"save", "claim.save"} /\ SaveProfile(req[r].who, req[r].profile)
      /\ req' = [req EXCEPT ![r] = Idle] /\ UNCHANGED standing
  BY DEF Save, ClaimSave, Finish
<1>2. PICK b \in Businesses, p \in Profile : req[r].who = b /\ req[r].profile = p
  BY <1>1 DEF PageInv, HeldPage
<1>3. Only(r) /\ InStep(req[r])
  BY <1>1, WorksAlone
<1>4. req'[r] = Idle /\ \A q \in Requests : q # r => req'[q] = req[q]
  BY <1>1 DEF PageInv, TypeOK
<1>5. Only(r)' /\ InStep(req[r])'
  BY <1>3, <1>4, IdleInStep DEF Only
<1>6. Links'
  BY <1>1, <1>2, SaveLinks
<1>7. Claims'
  <2>1. CASE Save(r)
    BY <2>1 DEF Save, AloneInv, Claims
  <2>2. CASE ClaimSave(r)
    <3>1. PICK i \in Invitations, inv \in Invitation :
              req[r].which = i /\ req[r].invitation = inv
      BY <2>2 DEF ClaimSave, PageInv, HeldPage
    <3>2. /\ invitations' = [invitations EXCEPT ![i] = inv]
          /\ claimants' = [claimants EXCEPT ![i] = @ \cup {b}]
      BY <1>2, <2>2, <3>1 DEF ClaimSave
    <3>3. invitations[i] # None /\ ~invitations[i].claimed /\ inv.claimed
      BY <1>3, <2>2, <3>1 DEF ClaimSave, InStep
    <3>4. claimants[i] = {}
      BY <3>3 DEF AloneInv, Claims
    <3>5. claimants'[i] = {b} /\ invitations'[i] = inv
      BY <3>2, <3>4 DEF PageInv, TypeOK
    <3>6. \A j \in Invitations : j # i =>
              claimants'[j] = claimants[j] /\ invitations'[j] = invitations[j]
      BY <3>2 DEF PageInv, TypeOK
    <3> QED
      BY <3>3, <3>5, <3>6 DEF AloneInv, Claims
  <2> QED
    BY <2>1, <2>2
<1> QED
  BY <1>5, <1>6, <1>7, AloneStep

LEMMA EndAlone ==
    ASSUME PageInv, AloneInv, alone, NEW r \in Requests, Remove(r) \/ Abandon(r)
    PROVE  AloneInv'
<1>1. req' = [req EXCEPT ![r] = Idle] /\ UNCHANGED <<profiles, standing, shared, claimants>>
  BY DEF Remove, Abandon, Finish, tables, history
<1>2. Only(r)
  <2>1. req[r] # Idle
    BY DEF Remove, Abandon, Idle
  <2> QED
    BY <2>1 DEF AloneInv, Only
<1>3. req'[r] = Idle /\ \A q \in Requests : q # r => req'[q] = req[q]
  BY <1>1 DEF PageInv, TypeOK
<1>4. Only(r)' /\ InStep(req[r])'
  BY <1>2, <1>3, IdleInStep DEF Only
<1>5. \A i \in Invitations : invitations'[i] = None \/ invitations'[i] = invitations[i]
  BY DEF Remove, Abandon, tables, PageInv, TypeOK
<1>6. Links'
  BY <1>1 DEF AloneInv, Links
<1>7. Claims'
  BY <1>1, <1>5 DEF AloneInv, Claims
<1> QED
  BY <1>4, <1>6, <1>7, AloneStep

LEMMA SetStandingAlone ==
    ASSUME PageInv, AloneInv, alone, NEW b \in Businesses, SetStanding(b)
    PROVE  AloneInv'
<1>1. /\ UNCHANGED <<profiles, invitations, req, now, setup, history>>
      /\ standing[b] # "deleted" /\ standing'[b] # "deleted"
      /\ \A c \in Businesses : c # b => standing'[c] = standing[c]
  BY DEF SetStanding, PageInv, TypeOK
<1>2. ASSUME NEW r \in Requests PROVE InStep(req[r])'
  <2>1. InStep(req[r])
    BY DEF AloneInv
  <2>2. req[r].step \in {"mine", "save", "claim", "claim.save"} => req[r].who \in Businesses
    BY DEF PageInv, HeldPage
  <2> QED
    BY <1>1, <2>1, <2>2 DEF InStep, Follows, canCustomize
<1>3. Links'
  <2>1. \A link \in shared : link[1] \in Businesses
    BY DEF PageInv, TypeOK
  <2> QED
    BY <1>1, <2>1 DEF AloneInv, Links, history
<1>4. Claims'
  BY <1>1 DEF AloneInv, Claims, history
<1> QED
  BY <1>1, <1>2, <1>3, <1>4 DEF AloneInv, setup

LEMMA DeleteAccountAlone ==
    ASSUME PageInv, AloneInv, alone, NEW b \in Businesses, DeleteAccount(b)
    PROVE  AloneInv'
<1>1. (\A r \in Requests : req[r] = Idle) /\ UNCHANGED <<req, setup, history>>
  BY DEF DeleteAccount
<1>2. /\ profiles'[b] = None /\ standing'[b] = "deleted"
      /\ \A c \in Businesses : c # b => profiles'[c] = profiles[c] /\ standing'[c] = standing[c]
  BY DEF DeleteAccount, PageInv, TypeOK
<1>3. Links'
  <2>1. \A link \in shared : link[1] \in Businesses
    BY DEF PageInv, TypeOK
  <2> QED
    BY <1>1, <1>2, <2>1 DEF AloneInv, Links, history
<1>4. \A i \in Invitations : invitations[i] = None \/ invitations[i].claimed =>
          invitations'[i] = None \/ invitations'[i].claimed
  <2>1. ASSUME NEW inv \in Invitation
        PROVE  [inv EXCEPT !.claimedBy = None].claimed = inv.claimed
    BY DEF Invitation
  <2> QED
    BY <2>1 DEF DeleteAccount, PageInv, TypeOK
<1>5. Claims'
  BY <1>1, <1>4 DEF AloneInv, Claims, history
<1> QED
  BY <1>1, <1>3, <1>5, IdleInStep DEF AloneInv

LEMMA NextAlone == PageInv /\ AloneInv /\ [Next]_vars => AloneInv'
<1> SUFFICES ASSUME PageInv, AloneInv, [Next]_vars PROVE AloneInv'
  OBVIOUS
<1>1. alone' = alone
  BY DEF Next, vars, setup, Edit, MineLoad, publishDesign, MineUpdate, Save, Invite,
         RemoveFind, ClaimFind, Claim, ClaimSave, Remove, Admin, updateApproval, updatePlan,
         Abandon, SetStanding, DeleteAccount, Tick
<1>2. CASE ~alone
  BY <1>1, <1>2 DEF AloneInv
<1>3. CASE alone
  <2>1. ASSUME NEW r \in Requests, Edit(r) PROVE AloneInv'
    BY <1>3, <2>1, FindAlone, MarkingAlone, MineUpdateAlone, SavingAlone DEF Edit
  <2>2. ASSUME NEW r \in Requests, Invite(r) PROVE AloneInv'
    BY <1>3, <2>2, FindAlone, ClaimAlone, SavingAlone, EndAlone DEF Invite
  <2>3. ASSUME NEW r \in Requests, Admin(r) PROVE AloneInv'
    BY <1>3, <2>3, MarkingAlone DEF Admin
  <2>4. CASE Tick
    <3>1. /\ \A r \in Requests : req[r] = Idle
          /\ UNCHANGED <<tables, req, setup, history>>
      BY <2>4 DEF Tick
    <3> QED
      BY <3>1, IdleInStep DEF AloneInv, Links, Claims, tables, setup, history
  <2>5. CASE UNCHANGED vars
    <3>1. UNCHANGED <<profiles, invitations, standing, req, now, alone, shared, claimants>>
      BY <2>5 DEF vars, tables, setup, history
    <3>2. \A r \in Requests : InStep(req[r])' <=> InStep(req[r])
      BY <3>1 DEF InStep, Follows, canCustomize
    <3>3. Links' /\ Claims'
      BY <1>3, <3>1 DEF AloneInv, Links, Claims
    <3> QED
      BY <3>1, <3>2, <3>3 DEF AloneInv
  <2> QED
    BY <1>3, <2>1, <2>2, <2>3, <2>4, <2>5, EndAlone, SetStandingAlone, DeleteAccountAlone
    DEF Next
<1> QED
  BY <1>2, <1>3

LEMMA AlwaysAlone == Spec => [](PageInv /\ AloneInv)
<1>1. Init => AloneInv
  BY IdleInStep DEF Init, AloneInv, Links, Claims
<1> QED
  BY <1>1, InitKeeps, NextKeeps, NextAlone, PTL DEF Spec

\* resolveSlug: however a business is renamed, unnamed, claimed for, approved or edited, an
\* address that was ever saved leads to it while it exists; when requests do not overlap.
THEOREM LinksKeep == Spec => []LinksKeepWorking
<1>1. AloneInv => LinksKeepWorking
  BY DEF AloneInv, Links, LinksKeepWorking
<1> QED
  BY <1>1, AlwaysAlone, PTL

\* claim: a prepared page goes to one business only, also after that one was deleted; when
\* requests do not overlap.
THEOREM GivenOnce == Spec => []OneBusinessPerInvitation
<1>1. AloneInv => OneBusinessPerInvitation
  <2> SUFFICES ASSUME AloneInv, alone, NEW i \in Invitations
               PROVE  Cardinality(claimants[i]) <= 1
    BY DEF OneBusinessPerInvitation
  <2>1. CASE claimants[i] = {}
    BY <2>1, FS_EmptySet
  <2>2. ASSUME NEW b \in Businesses, claimants[i] = {b} PROVE Cardinality(claimants[i]) <= 1
    BY <2>2, FS_Singleton
  <2> QED
    BY <2>1, <2>2 DEF AloneInv, Claims
<1> QED
  BY <1>1, AlwaysAlone, PTL

\* assertCanCustomize: no call, and nothing computed before the trial ran out, changes the
\* design of a page on the free plan or starts a second trial; when requests do not overlap.
THEOREM DesignIsFrozen == Spec => DesignFrozen
<1>1. PageInv /\ AloneInv /\ [Next]_vars =>
        [alone => \A b \in Businesses :
            LET p == profiles[b] q == profiles'[b] IN
            p # None /\ q # None =>
                /\ p.draft # q.draft \/ p.live # q.live => canCustomize(p)
                /\ p.trialEnds # 0 => q.trialEnds = p.trialEnds]_vars
  <2> SUFFICES ASSUME PageInv, AloneInv, Next, alone, NEW b \in Businesses,
                      profiles[b] # None, profiles'[b] # None
               PROVE  \/ profiles'[b] = profiles[b]
                      \/ Follows(profiles[b], profiles'[b])
    BY DEF Follows
  <2>1. ASSUME NEW r \in Requests, Save(r) \/ ClaimSave(r)
        PROVE  profiles'[b] = profiles[b] \/ Follows(profiles[b], profiles'[b])
    <3>1. /\ req[r].step \in {"save", "claim.save"}
          /\ profiles' = [profiles EXCEPT ![req[r].who] = req[r].profile]
      BY <2>1 DEF Save, ClaimSave, SaveProfile
    <3>2. InStep(req[r])
      BY <3>1, WorksAlone
    <3> QED
      BY <3>1, <3>2 DEF InStep, PageInv, TypeOK
  <2>2. ASSUME NEW c \in Businesses, DeleteAccount(c) PROVE profiles'[b] = profiles[b]
    BY <2>2 DEF DeleteAccount, PageInv, TypeOK
  <2>3. (\E r \in Requests : Save(r) \/ ClaimSave(r)) \/ (\E c \in Businesses : DeleteAccount(c))
        \/ profiles' = profiles
    BY DEF Next, tables, Edit, MineLoad, publishDesign, MineUpdate, Invite, RemoveFind,
           ClaimFind, Claim, Remove, Admin, updateApproval, updatePlan, Abandon,
           SetStanding, Tick
  <2> QED
    BY <2>1, <2>2, <2>3
<1> QED
  BY <1>1, AlwaysAlone, PTL DEF Spec, DesignFrozen
================================================================================
