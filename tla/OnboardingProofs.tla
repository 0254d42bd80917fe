---------------------------- MODULE OnboardingProofs ----------------------------
(***************************************************************************)
(* Theorems about Onboarding, for any ids, addresses, documents that       *)
(* clients send, uploads and requests in flight.                           *)
(***************************************************************************)
EXTENDS Onboarding, TLAPS

(***************************************************************************)
(* What holds however requests overlap and die.                            *)
(***************************************************************************)

Early   == {"signup.upload", "account"}
Rowed   == {"review.delete", "review.save", "match.save", "move.upload", "move.delete", "move.save"}
Deleting == {"delete.rows", "delete.files"}
Nobody  == Early \cup {"idle"}

\* What a request holds at each await, of the rows it will write and of what its role
\* needs.
HeldGrant(q) ==
    /\ q \in Request
    /\ q.step \notin Nobody => q.id \in Ids
    /\ q.step \in Early \cup Granting \cup {"role.save"} => q.role \in Roles
    /\ q.step \in Early \cup {"role.save"} =>
          q.account \in Account /\ assertAcceptedRequiredDocuments(q.role, q.docs)
    /\ q.step \in Granting => assertAcceptedRequiredDocuments(q.role, accepted[q.id] \cup q.docs)
    /\ q.step \in Granting \ {"accept"} => q.docs = {}
    /\ q.step \in Rowed => q.row \in Verification
    /\ q.step \in Deleting => "delete" \in calls
    /\ q.role = "provider" /\ "delete" \notin calls =>
          /\ q.step \in {"profile", "answer"} => verifications[q.id] # None
          /\ q.step = "answer" => q.id \in profiles

GrantInv ==
    /\ TypeOK
    /\ \A r \in Requests : HeldGrant(req[r])
    /\ AnsweredIsComplete

(***************************************************************************)
(* What holds when requests do not overlap.                                *)
(***************************************************************************)

Others(r) == \A k \in Requests \ {r} : req[k] = Idle

\* q is what the request in flight holds, or nothing is in flight.
Sole(q) ==
    IF q = Idle THEN \A r \in Requests : req[r] = Idle
    ELSE \E r \in Requests : req[r] = q /\ Others(r)

Refers(id, f) == verifications[id] # None /\ verifications[id].photo = f

\* A photo on its way into a row is in storage, and nothing refers to it yet.
Carries(q) ==
    q.photo \in File =>
        q.photo \in stored /\ q.photo # Public /\ \A i \in Ids : ~Refers(i, q.photo)

Uploading == {"signup.upload", "role.upload", "submit.upload", "move.upload"}
Carrying  == {"account", "accept", "verification", "submit.save", "move.delete", "move.save"}
Rewriting == {"review.save", "move.save"}

\* A photo a row refers to that was to be deleted is gone or counted as lost.
Disposed(f) == f \in stored => f \in lost

\* What a request looked up is still so.
InStep(q) ==
    LET v == verifications[q.id] IN
    /\ q.step \notin Nobody \cup {"delete.files"} => accounts[q.id] # None
    /\ q.step \in Early => q.account.roles = {q.role}
    /\ q.step = "role.save" =>
          q.account.roles = accounts[q.id].roles \cup {q.role}
    /\ q.step \in {"submit.upload", "submit.save"} =>
          q.row = v /\ (v # None => v.status # "verified")
    /\ q.step \in Rowed => v # None
    /\ q.step = "review.delete" => q.row.photo = v.photo
    /\ q.step = "review.save" => q.row.photo = None /\ Disposed(v.photo)
    /\ q.step = "match.save" => q.row = v
    /\ q.step \in {"move.upload", "move.delete"} => q.row = v /\ v.photo = Public
    /\ q.step = "move.save" =>
          /\ v.photo = Public /\ Disposed(Public)
          /\ q.row.photo = q.photo /\ q.row.status = v.status
    /\ q.step = "delete.rows" => q.photo = IF v = None THEN None ELSE v.photo
    /\ q.step = "delete.files" => \A i \in Ids : q.photo \in File => ~Refers(i, q.photo)
    /\ q.step \in Carrying => Carries(q)
    /\ q.step \notin Carrying \cup Deleting => q.photo = None
    /\ q.step \in {"account", "accept"} /\ q.role = "owner" => q.photo = None
    /\ q.step \in {"signup.upload", "role.upload"} => q.role = "provider"
    /\ q.step \in {"profile", "answer"} /\ q.role = "provider" => v # None
    /\ q.step = "answer" /\ q.role = "provider" => q.id \in profiles

\* An account that is gone left no row; a photo is kept while its verification is
\* pending, in one row; storage holds what was uploaded.
Rows ==
    /\ \A i \in Ids : accounts[i] = None => verifications[i] = None /\ i \notin profiles
    /\ \A i \in Ids : verifications[i] # None /\ verifications[i].photo # None
                         => verifications[i].status = "pending"
    /\ \A i, j \in Ids : \A f \in File : Refers(i, f) /\ Refers(j, f) => i = j
    /\ \A i \in Ids : \A f \in File : Refers(i, f) => f <= uploads
    /\ stored \subseteq 0..uploads

\* A row's photo is there, or the request that deleted it saves the row or died.
Kept(q) ==
    \A i \in Ids : \A f \in File : Refers(i, f) =>
        f \in stored \/ Dead(i, Rewriting) \/ (q.id = i /\ q.step \in Rewriting)

Accounted(f, q) ==
    \/ f \in lost
    \/ \E i \in Ids : <<i, f>> \in leftover \/ Refers(i, f)
    \/ q.photo = f

Complete(i, role) ==
    /\ documentsRequiredFor(role) \subseteq accepted[i]
    /\ role = "provider" => verifications[i] # None /\ i \in profiles

\* A role an account has is complete, or the request that gives it is on its way or died.
Completing(q) ==
    \A i \in Ids \ legacy : accounts[i] # None /\ ~Dead(i, Granting) =>
        \A role \in accounts[i].roles :
            Complete(i, role) \/ (q.id = i /\ q.role = role /\ q.step \in Granting)

Works(q) ==
    InStep(q) /\ Rows /\ Kept(q) /\ Completing(q) /\ \A f \in stored : Accounted(f, q)

AloneInv == alone => \E q \in {Idle} \cup {req[r] : r \in Requests} : Sole(q) /\ Works(q)

(***************************************************************************)
(* The invariant, whatever overlaps.                                       *)
(***************************************************************************)

LEMMA AssertGrows ==
    ASSUME NEW role, NEW S, NEW T, S \subseteq T, assertAcceptedRequiredDocuments(role, S)
    PROVE  assertAcceptedRequiredDocuments(role, T)
BY DEF assertAcceptedRequiredDocuments

LEMMA IdleHolds == Idle \in Request /\ Idle.step = "idle" /\ HeldGrant(Idle)
<1>1. Idle \in Request
  BY DEF Idle, Request, Steps, HalfDone, Granting, Photo
<1>2. Idle.step = "idle" /\ Idle.role = None
  BY DEF Idle
<1> QED
  BY <1>1, <1>2 DEF HeldGrant, Nobody, Early, Granting, Rowed, Deleting

\* Acceptances are kept, and rows too while no account is deleted.
Grows ==
    /\ \A i \in Ids : accepted[i] \subseteq accepted'[i]
    /\ calls' = calls
    /\ "delete" \notin calls =>
          /\ \A i \in Ids : verifications[i] # None => verifications'[i] # None
          /\ profiles \subseteq profiles'

LEMMA HeldLasts == ASSUME Grows, NEW q, HeldGrant(q) PROVE HeldGrant(q)'
<1>1. q.step \in Granting => q.id \in Ids
  BY DEF HeldGrant, Nobody, Early, Granting
<1>2. q.step \in Granting => assertAcceptedRequiredDocuments(q.role, accepted'[q.id] \cup q.docs)
  BY <1>1, AssertGrows DEF HeldGrant, Grows
<1>3. q.role = "provider" /\ "delete" \notin calls =>
          /\ q.step \in {"profile", "answer"} => verifications'[q.id] # None
          /\ q.step = "answer" => q.id \in profiles'
  BY <1>1 DEF HeldGrant, Grows, Granting
<1> QED
  BY <1>2, <1>3 DEF HeldGrant, Grows

LEMMA AnsweredLasts ==
    ASSUME TypeOK, Grows, AnsweredIsComplete, answered' = answered PROVE AnsweredIsComplete'
<1> SUFFICES ASSUME NEW given \in answered
             PROVE  /\ assertAcceptedRequiredDocuments(given[2], accepted'[given[1]])
                    /\ given[2] = "provider" /\ "delete" \notin calls
                         => verifications'[given[1]] # None /\ given[1] \in profiles'
  BY DEF AnsweredIsComplete, Grows
<1>1. given[1] \in Ids
  BY DEF TypeOK
<1>2. assertAcceptedRequiredDocuments(given[2], accepted[given[1]])
  BY DEF AnsweredIsComplete
<1>3. assertAcceptedRequiredDocuments(given[2], accepted'[given[1]])
  BY <1>1, <1>2, AssertGrows DEF Grows
<1> QED
  BY <1>1, <1>3 DEF AnsweredIsComplete, Grows

LEMMA GrantStep ==
    ASSUME GrantInv, TypeOK', Grows, NEW r \in Requests, NEW new, HeldGrant(new)',
           req' = [req EXCEPT ![r] = new], answered' = answered
    PROVE  GrantInv'
<1>1. \A q \in Requests : req'[q] = IF q = r THEN new ELSE req[q]
  BY DEF GrantInv, TypeOK
<1>2. ASSUME NEW k \in Requests PROVE HeldGrant(req[k])'
  <2>1. PICK h : h = req'[k]
    OBVIOUS
  <2>2. h = new \/ HeldGrant(h)
    BY <1>1, <2>1 DEF GrantInv
  <2>3. HeldGrant(h)'
    BY <2>2, HeldLasts
  <2> QED
    BY <2>1, <2>3 DEF HeldGrant
<1>3. AnsweredIsComplete'
  BY AnsweredLasts DEF GrantInv
<1> QED
  BY <1>2, <1>3 DEF GrantInv

\* A request arrives, moves on or ends, and no table changes.
LEMMA GrantHolds ==
    ASSUME GrantInv, NEW r \in Requests, NEW new, HeldGrant(new), req' = [req EXCEPT ![r] = new],
           UNCHANGED <<tables, files, setup, history>>
    PROVE  GrantInv'
<1>1. new \in Request
  BY DEF HeldGrant
<1>2. TypeOK'
  BY <1>1 DEF GrantInv, TypeOK, tables, files, setup, history
<1>3. Grows
  BY DEF Grows, tables, setup
<1> QED
  BY <1>2, <1>3, HeldLasts, GrantStep DEF history

LEMMA AbandonGrants == ASSUME GrantInv, NEW r \in Requests, Abandon(r) PROVE GrantInv'
<1>1. req' = [req EXCEPT ![r] = Idle]
  BY DEF Abandon, Finish
<1>2. died' \subseteq Ids \X HalfDone /\ lost' \subseteq File
  BY DEF Abandon, Noted, GrantInv, TypeOK
<1>3. TypeOK'
  BY <1>1, <1>2, IdleHolds DEF Abandon, GrantInv, TypeOK, tables, files, setup
<1>4. Grows
  BY DEF Abandon, Grows, tables, setup
<1> QED
  BY <1>1, <1>3, <1>4, IdleHolds, HeldLasts, GrantStep DEF Abandon

LEMMA UploadGrants == ASSUME GrantInv, NEW r \in Requests, Upload(r) PROVE GrantInv'
<1>1. PICK q : q = req[r]
  OBVIOUS
<1>2. q \in Request /\ HeldGrant(q) /\ q.step \in DOMAIN AfterUpload
  BY <1>1 DEF Upload, GrantInv, TypeOK
<1>3. PICK photo \in File \cup {Inline} :
          /\ req' = [req EXCEPT ![r] = [q EXCEPT !.photo = photo, !.step = AfterUpload[q.step]]]
          /\ \/ UNCHANGED files
             \/ uploads' = uploads + 1 /\ uploads < MaxUploads /\ stored' = stored \cup {uploads'}
          /\ lost' \subseteq lost \cup {uploads'}
          /\ lost' = lost \/ uploads' \in File
  <2>1. uploads < MaxUploads /\ uploads' = uploads + 1 => uploads' \in File
    BY OnboardingConstants DEF GrantInv, TypeOK, File
  <2> QED
    BY <1>1, <2>1 DEF Upload, Holds, Noted
<1>4. PICK new : new = [q EXCEPT !.photo = photo, !.step = AfterUpload[q.step]]
  OBVIOUS
<1>5. /\ q.step = "signup.upload" => AfterUpload[q.step] = "account"
      /\ q.step = "role.upload" => AfterUpload[q.step] = "verification"
      /\ q.step = "submit.upload" => AfterUpload[q.step] = "submit.save"
      /\ q.step = "move.upload" => AfterUpload[q.step] = "move.delete"
      /\ q.step \in {"signup.upload", "role.upload", "submit.upload", "move.upload"}
  BY <1>2 DEF AfterUpload
<1>6. /\ new.step = AfterUpload[q.step] /\ new.id = q.id /\ new.role = q.role /\ new.docs = q.docs
      /\ new.account = q.account /\ new.row = q.row /\ new.photo = photo
      /\ new \in Request
  BY <1>2, <1>4, <1>5 DEF Request, Steps, HalfDone, Granting, Photo
<1>7. HeldGrant(new)
  BY <1>2, <1>5, <1>6 DEF HeldGrant, Nobody, Early, Granting, Rowed, Deleting
<1>8. stored' \subseteq File /\ uploads' \in 0..MaxUploads /\ lost' \subseteq File
  BY <1>3, OnboardingConstants DEF GrantInv, TypeOK, File, files
<1>9. TypeOK'
  BY <1>3, <1>4, <1>6, <1>8 DEF Upload, GrantInv, TypeOK, tables, setup
<1>10. Grows
  BY DEF Upload, Grows, tables, setup
<1> QED
  BY <1>3, <1>4, <1>7, <1>9, <1>10, HeldLasts, GrantStep DEF Upload

LEMMA LookupGrants ==
    ASSUME GrantInv, NEW r \in Requests, NEW email \in Emails, NEW role \in Roles,
           NEW docs \in Ticks, SignupLookup(r, email, role, docs)
    PROVE  GrantInv'
<1>1. PICK account : account = [email |-> email, roles |-> {role}]
  OBVIOUS
<1>2. PICK new : new = [Idle EXCEPT !.step = IF role = "provider" THEN "signup.upload" ELSE "account",
                                    !.role = role, !.docs = docs, !.account = account]
  OBVIOUS
<1>3. account \in Account /\ docs \in SUBSET Documents
  BY <1>1, OnboardingConstants DEF Account
<1>4. /\ new.step \in Early /\ new.role = role /\ new.docs = docs /\ new.account = account
      /\ new \in Request
  BY <1>2, <1>3, IdleHolds DEF Idle, Request, Steps, Early
<1>5. HeldGrant(new)
  BY <1>3, <1>4 DEF SignupLookup, HeldGrant, Nobody, Early, Granting, Rowed, Deleting
<1> QED
  BY <1>1, <1>2, <1>5, GrantHolds DEF SignupLookup, Holds

LEMMA SignupGrants ==
    ASSUME GrantInv, NEW r \in Requests, NEW id \in Ids, SignupSave(r, id) PROVE GrantInv'
<1>1. PICK q : q = req[r]
  OBVIOUS
<1>2. q \in Request /\ HeldGrant(q) /\ q.step = "account"
  BY <1>1 DEF SignupSave, GrantInv, TypeOK
<1>3. q.account \in Account /\ q.role \in Roles /\ assertAcceptedRequiredDocuments(q.role, q.docs)
  BY <1>2 DEF HeldGrant, Early
<1>4. PICK new : new = [q EXCEPT !.step = "accept", !.id = id, !.account = None]
  OBVIOUS
<1>5. /\ new.step = "accept" /\ new.id = id /\ new.role = q.role /\ new.docs = q.docs
      /\ new \in Request
  BY <1>2, <1>4 DEF Request, Steps, HalfDone, Granting
<1>6. assertAcceptedRequiredDocuments(q.role, accepted[id] \cup q.docs)
  BY <1>3, AssertGrows
<1>7. HeldGrant(new)
  BY <1>3, <1>5, <1>6 DEF HeldGrant, Nobody, Early, Granting, Rowed, Deleting
<1>8. req' = [req EXCEPT ![r] = new]
  BY <1>1, <1>4 DEF SignupSave, Holds
<1>9. TypeOK'
  BY <1>1, <1>3, <1>5, <1>8 DEF SignupSave, GrantInv, TypeOK, files, setup
<1>10. Grows
  BY DEF SignupSave, Grows, setup
<1> QED
  BY <1>7, <1>8, <1>9, <1>10, HeldLasts, GrantStep DEF SignupSave

LEMMA AddRoleGrants ==
    ASSUME GrantInv, NEW r \in Requests, NEW id \in Ids, NEW role \in Roles,
           NEW docs \in Ticks, addRole(r, id, role, docs)
    PROVE  GrantInv'
<1>1. PICK account : account = [accounts[id] EXCEPT !.roles = @ \cup {role}]
  OBVIOUS
<1>2. PICK new : new = [Idle EXCEPT !.step = "role.save", !.id = id, !.role = role, !.docs = docs,
                                    !.account = account]
  OBVIOUS
<1>3. account \in Account /\ docs \in SUBSET Documents
  <2>1. accounts[id] \in Account
    BY DEF addRole, GrantInv, TypeOK
  <2> QED
    BY <1>1, <2>1, OnboardingConstants DEF Account
<1>4. /\ new.step = "role.save" /\ new.id = id /\ new.role = role /\ new.docs = docs
      /\ new.account = account /\ new \in Request
  BY <1>2, <1>3, IdleHolds DEF Idle, Request, Steps
<1>5. HeldGrant(new)
  BY <1>3, <1>4 DEF addRole, HeldGrant, Nobody, Early, Granting, Rowed, Deleting
<1> QED
  BY <1>1, <1>2, <1>5, GrantHolds DEF addRole, Holds

LEMMA RoleGrants == ASSUME GrantInv, NEW r \in Requests, RoleSave(r) PROVE GrantInv'
<1>1. PICK q : q = req[r]
  OBVIOUS
<1>2. q \in Request /\ HeldGrant(q) /\ q.step = "role.save"
  BY <1>1 DEF RoleSave, GrantInv, TypeOK
<1>3. /\ q.id \in Ids /\ q.account \in Account /\ q.role \in Roles
      /\ assertAcceptedRequiredDocuments(q.role, q.docs)
  BY <1>2 DEF HeldGrant, Nobody, Early
<1>4. PICK new : new = [q EXCEPT !.step = "accept", !.account = None]
  OBVIOUS
<1>5. /\ new.step = "accept" /\ new.id = q.id /\ new.role = q.role /\ new.docs = q.docs
      /\ new \in Request
  BY <1>2, <1>4 DEF Request, Steps, HalfDone, Granting
<1>6. assertAcceptedRequiredDocuments(q.role, accepted[q.id] \cup q.docs)
  BY <1>3, AssertGrows
<1>7. HeldGrant(new)
  BY <1>3, <1>5, <1>6 DEF HeldGrant, Nobody, Early, Granting, Rowed, Deleting
<1>8. req' = [req EXCEPT ![r] = new]
  BY <1>1, <1>4 DEF RoleSave, Holds
<1>9. TypeOK'
  BY <1>1, <1>3, <1>5, <1>8 DEF RoleSave, GrantInv, TypeOK, files, setup, history
<1>10. Grows
  BY DEF RoleSave, Grows, setup
<1> QED
  BY <1>7, <1>8, <1>9, <1>10, HeldLasts, GrantStep DEF RoleSave, history

LEMMA AcceptanceGrants ==
    ASSUME GrantInv, NEW r \in Requests, NEW d \in Documents, RecordAcceptance(r, d)
    PROVE  GrantInv'
<1>1. PICK q : q = req[r]
  OBVIOUS
<1>2. q \in Request /\ HeldGrant(q) /\ q.step = "accept" /\ d \in q.docs
  BY <1>1 DEF RecordAcceptance, GrantInv, TypeOK
<1>3. /\ q.id \in Ids /\ q.role \in Roles
      /\ assertAcceptedRequiredDocuments(q.role, accepted[q.id] \cup q.docs)
  BY <1>2 DEF HeldGrant, Nobody, Early, Granting
<1>4. PICK step : step = IF q.docs \ {d} # {} THEN "accept"
                         ELSE IF q.role = "owner" THEN "answer"
                         ELSE IF q.photo = None THEN "role.upload"
                         ELSE "verification"
  OBVIOUS
<1>5. PICK new : new = [q EXCEPT !.docs = q.docs \ {d}, !.step = step]
  OBVIOUS
<1>6. /\ new.step = step /\ new.id = q.id /\ new.role = q.role /\ new.docs = q.docs \ {d}
      /\ step \in {"accept", "answer", "role.upload", "verification"}
      /\ step # "accept" => new.docs = {} /\ (step = "answer" => new.role = "owner")
      /\ new \in Request
  BY <1>2, <1>4, <1>5 DEF Request, Steps, HalfDone, Granting
<1>7. /\ req' = [req EXCEPT ![r] = new] /\ accepted' = [accepted EXCEPT ![q.id] = @ \cup {d}]
      /\ UNCHANGED <<accounts, verifications, profiles, files, setup, history>>
  BY <1>1, <1>4, <1>5 DEF RecordAcceptance, Holds
<1>8. /\ accepted'[q.id] = accepted[q.id] \cup {d}
      /\ accepted' \in [Ids -> SUBSET Documents]
      /\ \A i \in Ids : accepted[i] \subseteq accepted'[i]
  BY <1>3, <1>7 DEF GrantInv, TypeOK
<1>9. assertAcceptedRequiredDocuments(new.role, accepted'[new.id] \cup new.docs)
  <2>1. accepted[q.id] \cup q.docs = accepted'[q.id] \cup (q.docs \ {d})
    BY <1>2, <1>8
  <2> QED
    BY <1>3, <1>6, <2>1
<1>10. HeldGrant(new)'
  BY <1>3, <1>6, <1>9 DEF HeldGrant, Nobody, Early, Granting, Rowed, Deleting
<1>11. TypeOK'
  BY <1>6, <1>7, <1>8 DEF GrantInv, TypeOK, files, setup, history
<1>12. Grows
  BY <1>7, <1>8 DEF Grows, setup
<1> QED
  BY <1>7, <1>10, <1>11, <1>12, GrantStep DEF history

LEMMA VerificationGrants ==
    ASSUME GrantInv, NEW r \in Requests, SaveVerification(r) PROVE GrantInv'
<1>1. PICK q : q = req[r]
  OBVIOUS
<1>2. q \in Request /\ HeldGrant(q) /\ q.step = "verification"
  BY <1>1 DEF SaveVerification, GrantInv, TypeOK
<1>3. /\ q.id \in Ids /\ q.role \in Roles /\ q.docs = {}
      /\ assertAcceptedRequiredDocuments(q.role, accepted[q.id])
  BY <1>2 DEF HeldGrant, Nobody, Early, Granting
<1>4. PICK new : new = [q EXCEPT !.step = "profile", !.photo = None]
  OBVIOUS
<1>5. /\ new.step = "profile" /\ new.id = q.id /\ new.role = q.role /\ new.docs = {}
      /\ new \in Request
  BY <1>2, <1>3, <1>4 DEF Request, Steps, HalfDone, Granting, Photo
<1>6. PICK row : row = [status |-> "pending", photo |-> q.photo]
  OBVIOUS
<1>7. row \in Verification /\ row # None
  <2>1. row \in Verification
    BY <1>2, <1>6 DEF Verification, Request
  <2> QED
    BY <2>1, OnboardingConstants
<1>8. /\ req' = [req EXCEPT ![r] = new]
      /\ \/ verifications' = [verifications EXCEPT ![q.id] = row]
         \/ verifications[q.id] # None /\ verifications' = verifications
      /\ leftover' \subseteq Ids \X File
      /\ UNCHANGED <<accounts, accepted, profiles, files, setup, born, answered, died, lost>>
  BY <1>1, <1>3, <1>4, <1>6 DEF SaveVerification, Holds, Noted, GrantInv, TypeOK
<1>9. /\ verifications' \in [Ids -> Verification \cup {None}] /\ verifications'[q.id] # None
      /\ \A i \in Ids : verifications[i] # None => verifications'[i] # None
  BY <1>3, <1>7, <1>8 DEF GrantInv, TypeOK
<1>10. HeldGrant(new)'
  BY <1>3, <1>5, <1>8, <1>9 DEF HeldGrant, Nobody, Early, Granting, Rowed, Deleting, setup
<1>11. TypeOK'
  BY <1>5, <1>8, <1>9 DEF GrantInv, TypeOK, files, setup
<1>12. Grows
  BY <1>8, <1>9 DEF Grows, setup
<1> QED
  BY <1>8, <1>10, <1>11, <1>12, GrantStep

LEMMA ProfileGrants ==
    ASSUME GrantInv, NEW r \in Requests, SeedProviderProfile(r) PROVE GrantInv'
<1>1. PICK q : q = req[r]
  OBVIOUS
<1>2. q \in Request /\ HeldGrant(q) /\ q.step = "profile"
  BY <1>1 DEF SeedProviderProfile, GrantInv, TypeOK
<1>3. /\ q.id \in Ids /\ q.role \in Roles /\ q.docs = {}
      /\ assertAcceptedRequiredDocuments(q.role, accepted[q.id])
  BY <1>2 DEF HeldGrant, Nobody, Early, Granting
<1>4. CASE /\ q.id \notin profiles /\ profiles' = profiles \cup {q.id}
           /\ req' = [req EXCEPT ![r].step = "answer"]
  <2>1. PICK new : new = [q EXCEPT !.step = "answer"]
    OBVIOUS
  <2>2. /\ new.step = "answer" /\ new.id = q.id /\ new.role = q.role /\ new.docs = {}
        /\ new \in Request
    BY <1>2, <1>3, <2>1 DEF Request, Steps, HalfDone, Granting
  <2>3. req' = [req EXCEPT ![r] = new]
    BY <1>1, <1>4, <2>1 DEF GrantInv, TypeOK
  <2>4. HeldGrant(new)'
    BY <1>2, <1>3, <1>4, <2>2 DEF SeedProviderProfile, HeldGrant, Nobody, Early, Granting, Rowed,
       Deleting, setup
  <2>5. TypeOK'
    BY <1>3, <1>4, <2>2, <2>3 DEF SeedProviderProfile, GrantInv, TypeOK, files, setup, history
  <2>6. Grows
    BY <1>4 DEF SeedProviderProfile, Grows, setup
  <2> QED
    BY <2>3, <2>4, <2>5, <2>6, GrantStep DEF SeedProviderProfile, history
<1>5. CASE profiles' = profiles /\ Finish(r)
  BY <1>5, IdleHolds, GrantHolds DEF SeedProviderProfile, Finish, tables
<1> QED
  BY <1>1, <1>4, <1>5 DEF SeedProviderProfile, Goes

LEMMA AnswerGrants == ASSUME GrantInv, NEW r \in Requests, Answer(r) PROVE GrantInv'
<1>1. PICK q : q = req[r]
  OBVIOUS
<1>2. q \in Request /\ HeldGrant(q) /\ q.step = "answer"
  BY <1>1 DEF Answer, GrantInv, TypeOK
<1>3. /\ q.id \in Ids /\ q.role \in Roles /\ q.docs = {}
      /\ assertAcceptedRequiredDocuments(q.role, accepted[q.id] \cup q.docs)
  BY <1>2 DEF HeldGrant, Nobody, Early, Granting
<1>4. /\ answered' = answered \cup {<<q.id, q.role>>} /\ req' = [req EXCEPT ![r] = Idle]
      /\ UNCHANGED <<tables, files, setup, born, died, lost, leftover>>
  BY <1>1 DEF Answer, Finish
<1>5. TypeOK'
  BY <1>3, <1>4, IdleHolds DEF GrantInv, TypeOK, tables, files, setup
<1>6. ASSUME NEW k \in Requests PROVE HeldGrant(req[k])'
  <2>1. PICK h : h = req'[k]
    OBVIOUS
  <2>2. HeldGrant(h)
    BY <1>4, <2>1, IdleHolds DEF GrantInv, TypeOK
  <2>3. Grows
    BY <1>4 DEF Grows, tables, setup
  <2>4. HeldGrant(h)'
    BY <2>2, <2>3, HeldLasts
  <2> QED
    BY <2>1, <2>4 DEF HeldGrant
<1>7. AnsweredIsComplete'
  <2>1. accepted[q.id] \cup q.docs = accepted[q.id]
    BY <1>3
  <2>2. assertAcceptedRequiredDocuments(q.role, accepted[q.id])
    BY <1>3, <2>1
  <2>3. q.role = "provider" /\ "delete" \notin calls => verifications[q.id] # None /\ q.id \in profiles
    BY <1>2 DEF HeldGrant
  <2>4. ASSUME NEW given \in answered'
        PROVE  /\ assertAcceptedRequiredDocuments(given[2], accepted[given[1]])
               /\ given[2] = "provider" /\ "delete" \notin calls
                    => verifications[given[1]] # None /\ given[1] \in profiles
    BY <1>4, <2>2, <2>3 DEF GrantInv, AnsweredIsComplete
  <2> QED
    BY <1>4, <2>4 DEF AnsweredIsComplete, tables, setup
<1> QED
  BY <1>5, <1>6, <1>7 DEF GrantInv

LEMMA AcceptGrants ==
    ASSUME GrantInv, NEW id \in Ids, NEW d \in Documents, accept(id, d) PROVE GrantInv'
<1>1. /\ accepted' \in [Ids -> SUBSET Documents]
      /\ \A i \in Ids : accepted[i] \subseteq accepted'[i]
  BY DEF accept, GrantInv, TypeOK
<1>2. TypeOK'
  BY <1>1 DEF accept, GrantInv, TypeOK, files, setup, history
<1>3. Grows
  BY <1>1 DEF accept, Grows, setup
<1>4. ASSUME NEW k \in Requests PROVE HeldGrant(req[k])'
  <2>1. PICK h : h = req[k]
    OBVIOUS
  <2>2. HeldGrant(h)
    BY <2>1 DEF GrantInv
  <2>3. HeldGrant(h)'
    BY <1>3, <2>2, HeldLasts
  <2> QED
    BY <2>1, <2>3 DEF accept, HeldGrant
<1>5. AnsweredIsComplete'
  BY <1>3, AnsweredLasts DEF accept, history, GrantInv
<1> QED
  BY <1>2, <1>4, <1>5 DEF GrantInv

\* A request of the verification or of the deletion holds no role.
Plain == Steps \ (Early \cup Granting \cup {"role.save"})

LEMMA PlainHolds ==
    ASSUME NEW q \in Request, q.step \in Plain, q.id \in Ids,
           q.step \in Rowed => q.row \in Verification,
           q.step \in Deleting => "delete" \in calls
    PROVE  HeldGrant(q)
BY DEF HeldGrant, Plain, Nobody, Early, Granting, Rowed, Deleting

LEMMA OpensGrants ==
    ASSUME GrantInv, NEW r \in Requests, NEW id \in Ids, NEW new,
           UNCHANGED <<tables, files, setup, history>>, req' = [req EXCEPT ![r] = new],
           \/ \E row : /\ new = [Idle EXCEPT !.step = "submit.upload", !.id = id, !.row = row]
                       /\ row \in Verification \cup {None}
           \/ \E row \in Verification, step \in {"review.delete", "match.save", "move.upload"} :
                 new = [Idle EXCEPT !.step = step, !.id = id, !.row = row]
    PROVE  GrantInv'
<1>1. new \in Request /\ new.id = id /\ new.step \in Plain \ Deleting
      /\ (new.step \in Rowed => new.row \in Verification)
  <2>1. ASSUME NEW row \in Verification \cup {None}, NEW step \in Plain \ Deleting,
               step \in Rowed => row \in Verification,
               new = [Idle EXCEPT !.step = step, !.id = id, !.row = row]
        PROVE  /\ new \in Request /\ new.id = id /\ new.step = step /\ new.row = row
    <3>1. step \in Steps
      BY DEF Plain
    <3> QED
      BY <2>1, <3>1, IdleHolds DEF Idle, Request
  <2>2. {"submit.upload", "review.delete", "match.save", "move.upload"} \subseteq Plain \ Deleting
    BY DEF Plain, Steps, HalfDone, Granting, Early, Deleting
  <2>3. "submit.upload" \notin Rowed
    BY DEF Rowed
  <2> QED
    BY <2>1, <2>2, <2>3
<1>2. HeldGrant(new)
  BY <1>1, PlainHolds
<1> QED
  BY <1>2, GrantHolds

LEMMA VerifyOpens ==
    ASSUME GrantInv, NEW r \in Requests, NEW id \in Ids,
           \/ submitVerification(r, id)
           \/ faceMatch(r, id)
           \/ MoveLoad(r, id)
           \/ \E status \in {"verified", "rejected"} : ReviewLoad(r, id, status)
    PROVE  GrantInv'
<1>1. verifications[id] \in Verification \cup {None}
  BY DEF GrantInv, TypeOK
<1>2. CASE submitVerification(r, id)
  BY <1>1, <1>2, OpensGrants DEF submitVerification, Holds
<1>3. CASE faceMatch(r, id)
  BY <1>1, <1>3, OpensGrants DEF faceMatch, Holds
<1>4. CASE MoveLoad(r, id)
  BY <1>1, <1>4, OpensGrants DEF MoveLoad, Holds
<1>5. ASSUME NEW status \in {"verified", "rejected"}, ReviewLoad(r, id, status) PROVE GrantInv'
  <2>1. PICK row : row = [verifications[id] EXCEPT !.status = status]
    OBVIOUS
  <2>2. row \in Verification
    BY <1>1, <1>5, <2>1 DEF ReviewLoad, Verification
  <2> QED
    BY <1>5, <2>1, <2>2, OpensGrants DEF ReviewLoad, Holds
<1> QED
  BY <1>2, <1>3, <1>4, <1>5

LEMMA CollectGrants ==
    ASSUME GrantInv, NEW r \in Requests, NEW id \in Ids, collectPhotos(r, id) PROVE GrantInv'
<1>1. PICK photo : photo = IF verifications[id] = None THEN None ELSE verifications[id].photo
  OBVIOUS
<1>2. photo \in Photo
  BY <1>1 DEF GrantInv, TypeOK, Verification, Photo
<1>3. PICK new : new = [Idle EXCEPT !.step = "delete.rows", !.id = id, !.photo = photo]
  OBVIOUS
<1>4. new \in Request /\ new.id = id /\ new.step = "delete.rows"
  BY <1>2, <1>3, IdleHolds DEF Idle, Request, Steps
<1>5. HeldGrant(new)
  BY <1>4, PlainHolds DEF collectPhotos, Arrives, Plain, Steps, Early, Granting, Rowed
<1> QED
  BY <1>1, <1>3, <1>5, GrantHolds DEF collectPhotos, Holds

LEMMA SubmitGrants == ASSUME GrantInv, NEW r \in Requests, SubmitSave(r) PROVE GrantInv'
<1>1. PICK q : q = req[r]
  OBVIOUS
<1>2. q \in Request /\ HeldGrant(q) /\ q.step = "submit.save"
  BY <1>1 DEF SubmitSave, GrantInv, TypeOK
<1>3. q.id \in Ids
  BY <1>2 DEF HeldGrant, Nobody, Early
<1>4. PICK new : new = [q EXCEPT !.step = "submit.consent", !.photo = None]
  OBVIOUS
<1>5. new.step = "submit.consent" /\ new.id = q.id /\ new \in Request
  BY <1>2, <1>4 DEF Request, Steps, Photo
<1>6. PICK row : row = [status |-> "pending", photo |-> q.photo]
  OBVIOUS
<1>7. row \in Verification /\ row # None
  <2>1. row \in Verification
    BY <1>2, <1>6 DEF Verification, Request
  <2> QED
    BY <2>1, OnboardingConstants
<1>8. /\ req' = [req EXCEPT ![r] = new]
      /\ verifications' = [verifications EXCEPT ![q.id] = row]
      /\ leftover' \subseteq Ids \X File
      /\ UNCHANGED <<accounts, accepted, profiles, files, setup, born, answered, died, lost>>
  BY <1>1, <1>3, <1>4, <1>6 DEF SubmitSave, Holds, Noted, GrantInv, TypeOK
<1>9. /\ verifications' \in [Ids -> Verification \cup {None}]
      /\ \A i \in Ids : verifications[i] # None => verifications'[i] # None
  BY <1>3, <1>7, <1>8 DEF GrantInv, TypeOK
<1>10. HeldGrant(new)
  BY <1>3, <1>5, PlainHolds DEF Plain, Steps, Early, Granting, Rowed, Deleting
<1>11. TypeOK'
  BY <1>5, <1>8, <1>9 DEF GrantInv, TypeOK, files, setup
<1>12. Grows
  BY <1>8, <1>9 DEF Grows, setup
<1> QED
  BY <1>8, <1>10, <1>11, <1>12, HeldLasts, GrantStep

LEMMA ConsentGrants == ASSUME GrantInv, NEW r \in Requests, SubmitConsent(r) PROVE GrantInv'
<1>1. PICK id : id = req[r].id
  OBVIOUS
<1>2. id \in Ids
  BY <1>1 DEF SubmitConsent, GrantInv, HeldGrant, Nobody, Early
<1>3. /\ accepted' = [accepted EXCEPT ![id] = @ \cup {"identity_verification_consent"}]
      /\ req' = [req EXCEPT ![r] = Idle]
      /\ UNCHANGED <<accounts, verifications, profiles, files, setup, history>>
  BY <1>1 DEF SubmitConsent, Finish
<1>4. /\ accepted' \in [Ids -> SUBSET Documents]
      /\ \A i \in Ids : accepted[i] \subseteq accepted'[i]
  BY <1>2, <1>3 DEF GrantInv, TypeOK, Documents
<1>5. TypeOK'
  BY <1>3, <1>4, IdleHolds DEF GrantInv, TypeOK, files, setup, history
<1>6. Grows
  BY <1>3, <1>4 DEF Grows, setup
<1> QED
  BY <1>3, <1>5, <1>6, IdleHolds, HeldLasts, GrantStep DEF history

\* Files come and go; what is counted as lost are files.
LEMMA DisposeTypes ==
    ASSUME TypeOK, NEW photo, deleteStoredPhoto(photo)
    PROVE  stored' \subseteq stored /\ lost' \subseteq File /\ lost \subseteq lost'
BY DEF TypeOK, deleteStoredPhoto, Noted

LEMMA PhotosGrants == ASSUME GrantInv, NEW r \in Requests, deletePhotosOf(r) PROVE GrantInv'
<1>1. PICK q : q = req[r]
  OBVIOUS
<1>2. q \in Request /\ HeldGrant(q) /\ q.step = "review.delete"
  BY <1>1 DEF deletePhotosOf, GrantInv, TypeOK
<1>3. q.id \in Ids /\ q.row \in Verification
  BY <1>2 DEF HeldGrant, Nobody, Early, Rowed
<1>4. PICK row : row = [q.row EXCEPT !.photo = None]
  OBVIOUS
<1>5. row \in Verification
  BY <1>3, <1>4 DEF Verification, Photo
<1>6. PICK new : new = [q EXCEPT !.step = "review.save", !.row = row]
  OBVIOUS
<1>7. new.step = "review.save" /\ new.id = q.id /\ new.row = row /\ new \in Request
  BY <1>2, <1>5, <1>6 DEF Request, Steps, HalfDone
<1>8. /\ req' = [req EXCEPT ![r] = new] /\ stored' \subseteq stored /\ lost' \subseteq File
      /\ UNCHANGED <<tables, uploads, setup, born, answered, died, leftover>>
  <2>1. [q EXCEPT !.step = "review.save", !.row.photo = None] = new
    BY <1>2, <1>4, <1>6 DEF Request
  <2> QED
    BY <1>1, <2>1, DisposeTypes DEF deletePhotosOf, Holds, GrantInv
<1>9. HeldGrant(new)
  BY <1>3, <1>5, <1>7, PlainHolds DEF Plain, Steps, HalfDone, Early, Granting, Deleting
<1>10. TypeOK'
  BY <1>7, <1>8 DEF GrantInv, TypeOK, tables, setup
<1>11. Grows
  BY <1>8 DEF Grows, tables, setup
<1> QED
  BY <1>8, <1>9, <1>10, <1>11, HeldLasts, GrantStep

LEMMA MoveGrants == ASSUME GrantInv, NEW r \in Requests, MoveDelete(r) PROVE GrantInv'
<1>1. PICK q : q = req[r]
  OBVIOUS
<1>2. q \in Request /\ HeldGrant(q) /\ q.step = "move.delete"
  BY <1>1 DEF MoveDelete, GrantInv, TypeOK
<1>3. q.id \in Ids /\ q.row \in Verification /\ q.photo \in Photo
  BY <1>2 DEF HeldGrant, Nobody, Early, Rowed, Request
<1>4. PICK row : row = [q.row EXCEPT !.photo = q.photo]
  OBVIOUS
<1>5. row \in Verification
  BY <1>3, <1>4 DEF Verification
<1>6. PICK new : new = [q EXCEPT !.step = "move.save", !.row = row]
  OBVIOUS
<1>7. new.step = "move.save" /\ new.id = q.id /\ new.row = row /\ new \in Request
  BY <1>2, <1>5, <1>6 DEF Request, Steps, HalfDone
<1>8. /\ req' = [req EXCEPT ![r] = new] /\ stored' \subseteq stored /\ lost' \subseteq File
      /\ UNCHANGED <<tables, uploads, setup, born, answered, died, leftover>>
  <2>1. [q EXCEPT !.step = "move.save", !.row.photo = q.photo] = new
    BY <1>2, <1>4, <1>6 DEF Request
  <2> QED
    BY <1>1, <2>1, DisposeTypes DEF MoveDelete, Holds, GrantInv
<1>9. HeldGrant(new)
  BY <1>3, <1>5, <1>7, PlainHolds DEF Plain, Steps, HalfDone, Early, Granting, Deleting
<1>10. TypeOK'
  BY <1>7, <1>8 DEF GrantInv, TypeOK, tables, setup
<1>11. Grows
  BY <1>8 DEF Grows, tables, setup
<1> QED
  BY <1>8, <1>9, <1>10, <1>11, HeldLasts, GrantStep

LEMMA RowGrants == ASSUME GrantInv, NEW r \in Requests, SaveRow(r) PROVE GrantInv'
<1>1. PICK q : q = req[r]
  OBVIOUS
<1>2. q \in Request /\ HeldGrant(q) /\ q.step \in {"review.save", "match.save", "move.save"}
  BY <1>1 DEF SaveRow, GrantInv, TypeOK
<1>3. q.id \in Ids /\ q.row \in Verification /\ q.row # None
  BY <1>2, OnboardingConstants DEF HeldGrant, Nobody, Early, Rowed
<1>4. /\ req' = [req EXCEPT ![r] = Idle]
      /\ verifications' = [verifications EXCEPT ![q.id] = q.row]
      /\ UNCHANGED <<accounts, accepted, profiles, files, setup, history>>
  BY <1>1 DEF SaveRow, Finish
<1>5. /\ verifications' \in [Ids -> Verification \cup {None}]
      /\ \A i \in Ids : verifications[i] # None => verifications'[i] # None
  BY <1>3, <1>4 DEF GrantInv, TypeOK
<1>6. TypeOK'
  BY <1>4, <1>5, IdleHolds DEF GrantInv, TypeOK, files, setup, history
<1>7. Grows
  BY <1>4, <1>5 DEF Grows, setup
<1> QED
  BY <1>4, <1>6, <1>7, IdleHolds, HeldLasts, GrantStep DEF history

LEMMA RowsGrants == ASSUME GrantInv, NEW r \in Requests, deleteRows(r) PROVE GrantInv'
<1>1. PICK q : q = req[r]
  OBVIOUS
<1>2. q \in Request /\ HeldGrant(q) /\ q.step = "delete.rows"
  BY <1>1 DEF deleteRows, GrantInv, TypeOK
<1>3. q.id \in Ids /\ "delete" \in calls
  BY <1>2 DEF HeldGrant, Nobody, Early, Deleting
<1>4. PICK new : new = [q EXCEPT !.step = "delete.files"]
  OBVIOUS
<1>5. new.step = "delete.files" /\ new.id = q.id /\ new \in Request
  BY <1>2, <1>4 DEF Request, Steps
<1>6. /\ req' = [req EXCEPT ![r] = new]
      /\ accounts' = [accounts EXCEPT ![q.id] = None]
      /\ verifications' = [verifications EXCEPT ![q.id] = None]
      /\ profiles' = profiles \ {q.id}
      /\ UNCHANGED <<accepted, files, setup, history>>
  BY <1>1, <1>4 DEF deleteRows, Goes, GrantInv, TypeOK
<1>7. TypeOK'
  BY <1>5, <1>6 DEF GrantInv, TypeOK, files, setup, history
<1>8. HeldGrant(new)
  BY <1>3, <1>5, PlainHolds DEF Plain, Steps, Early, Granting, Rowed
<1>9. Grows
  BY <1>3, <1>6 DEF Grows, setup
<1> QED
  BY <1>6, <1>7, <1>8, <1>9, HeldLasts, GrantStep DEF history

LEMMA FilesGrants == ASSUME GrantInv, NEW r \in Requests, DeleteFiles(r) PROVE GrantInv'
<1>1. /\ req' = [req EXCEPT ![r] = Idle] /\ stored' \subseteq stored /\ lost' \subseteq File
      /\ UNCHANGED <<tables, uploads, setup, born, answered, died, leftover>>
  BY DisposeTypes DEF DeleteFiles, Finish, GrantInv
<1>2. TypeOK'
  BY <1>1, IdleHolds DEF GrantInv, TypeOK, tables, setup
<1>3. Grows
  BY <1>1 DEF Grows, tables, setup
<1> QED
  BY <1>1, <1>2, <1>3, IdleHolds, HeldLasts, GrantStep

LEMMA GrantInit == Init => GrantInv
<1> SUFFICES ASSUME Init PROVE GrantInv
  OBVIOUS
<1>1. Public \in File /\ 0 \in 0..MaxUploads
  BY OnboardingConstants DEF Public, File
<1>2. /\ accounts \in [Ids -> Account \cup {None}]
      /\ verifications \in [Ids -> Verification \cup {None}]
      /\ profiles \subseteq Ids /\ born \subseteq Ids /\ legacy \subseteq born /\ stored \subseteq File
  <2>1. CASE \E id \in Ids, email \in Emails : Legacy(id, email)
    <3>1. PICK id \in Ids, email \in Emails : Legacy(id, email)
      BY <2>1
    <3>2. [email |-> email, roles |-> {"provider"}] \in Account
      BY DEF Account, Roles
    <3>3. [status |-> "pending", photo |-> Public] \in Verification
      BY <1>1 DEF Verification, Photo
    <3> QED
      BY <1>1, <3>1, <3>2, <3>3 DEF Legacy
  <2>2. CASE ~\E id \in Ids, email \in Emails : Legacy(id, email)
    BY <2>2 DEF Init
  <2> QED
    BY <2>1, <2>2
<1>3. TypeOK
  BY <1>1, <1>2, IdleHolds DEF Init, TypeOK
<1> QED
  BY <1>3, IdleHolds DEF Init, GrantInv, AnsweredIsComplete

LEMMA GrantNext == GrantInv /\ [Next]_vars => GrantInv'
<1> SUFFICES ASSUME GrantInv, [Next]_vars PROVE GrantInv'
  OBVIOUS
<1>1. ASSUME NEW r \in Requests, Enrol(r) PROVE GrantInv'
  BY <1>1, LookupGrants, SignupGrants, AddRoleGrants, RoleGrants, AcceptanceGrants,
     VerificationGrants, ProfileGrants, AnswerGrants DEF Enrol
<1>2. ASSUME NEW r \in Requests, Verify(r) PROVE GrantInv'
  BY <1>2, VerifyOpens, SubmitGrants, ConsentGrants, PhotosGrants, MoveGrants, RowGrants
     DEF Verify
<1>3. ASSUME NEW r \in Requests, Delete(r) PROVE GrantInv'
  BY <1>3, CollectGrants, RowsGrants, FilesGrants DEF Delete
<1>4. CASE UNCHANGED vars
  <2>1. TypeOK' /\ Grows
    BY <1>4 DEF vars, tables, files, setup, history, GrantInv, TypeOK, Grows
  <2>2. ASSUME NEW k \in Requests PROVE HeldGrant(req[k])'
    <3>1. PICK h : h = req[k]
      OBVIOUS
    <3>2. HeldGrant(h)'
      BY <2>1, <3>1, HeldLasts DEF GrantInv
    <3> QED
      BY <1>4, <3>1, <3>2 DEF vars, HeldGrant
  <2> QED
    BY <1>4, <2>1, <2>2, AnsweredLasts DEF vars, history, GrantInv
<1> QED
  BY <1>1, <1>2, <1>3, <1>4, UploadGrants, AbandonGrants, AcceptGrants DEF Next

LEMMA GrantAlways == Spec => []GrantInv
BY GrantInit, GrantNext, PTL DEF Spec

\* Rows and what requests hold keep their types, whatever overlaps.
THEOREM TypeCorrect == Spec => []TypeOK
BY GrantAlways, PTL DEF GrantInv

\* A role whose request was answered has its documents on file and, while no account is
\* deleted, its verification and its page, however requests overlap and wherever they die.
THEOREM AnsweredComplete == Spec => []AnsweredIsComplete
BY GrantAlways, PTL DEF GrantInv

(***************************************************************************)
(* The invariant, one request at a time.                                   *)
(***************************************************************************)

LEMMA IdleFields ==
    /\ Idle.step = "idle" /\ Idle.id = None /\ Idle.role = None /\ Idle.docs = {}
    /\ Idle.account = None /\ Idle.row = None /\ Idle.photo = None
BY DEF Idle

\* A request that acts is the only one, and holds what it needs.
LEMMA Enters ==
    ASSUME AloneInv, alone, NEW r \in Requests, NEW q, q = req[r],
           q # Idle \/ \A k \in Requests : req[k] = Idle
    PROVE  Others(r) /\ Works(q)
<1>1. PICK p : Sole(p) /\ Works(p)
  BY DEF AloneInv
<1>2. CASE p = Idle
  <2>1. q = p /\ Others(r)
    BY <1>1, <1>2 DEF Sole, Others
  <2> QED
    BY <1>1, <2>1
<1>3. CASE p # Idle
  <2>1. PICK k \in Requests : req[k] = p /\ Others(k)
    BY <1>1, <1>3 DEF Sole
  <2>2. k = r
    BY <1>3, <2>1 DEF Others
  <2> QED
    BY <1>1, <2>1, <2>2
<1> QED
  BY <1>2, <1>3

LEMMA Leaves ==
    ASSUME GrantInv, NEW r \in Requests, Others(r), NEW new, req' = [req EXCEPT ![r] = new],
           Works(new)'
    PROVE  AloneInv'
<1>1. \A k \in Requests : req'[k] = IF k = r THEN new ELSE req[k]
  BY DEF GrantInv, TypeOK
<1>2. Sole(new)'
  <2>1. \A k \in Requests \ {r} : req'[k] = Idle
    BY <1>1 DEF Others
  <2>2. CASE new = Idle
    BY <1>1, <2>1, <2>2 DEF Sole
  <2>3. CASE new # Idle
    BY <1>1, <2>1, <2>3 DEF Sole, Others
  <2> QED
    BY <2>2, <2>3
<1>3. new \in {Idle} \cup {req'[k] : k \in Requests}
  BY <1>1
<1> QED
  BY <1>2, <1>3 DEF AloneInv

LEMMA IdleInStep == InStep(Idle) /\ InStep(Idle)'
<1>1. /\ Idle.step \in Nobody /\ Idle.step \notin Early \cup Rowed \cup Carrying \cup Deleting
      /\ Idle.step = "idle"
  BY IdleFields DEF Nobody, Early, Rowed, Carrying, Deleting
<1>2. InStep(Idle)
  BY <1>1, IdleFields DEF InStep
<1>3. InStep(Idle)'
  BY <1>1, IdleFields DEF InStep
<1> QED
  BY <1>2, <1>3

\* A step that leaves the accounts, the rows and the files alone.
LEMMA Moves ==
    ASSUME NEW q, NEW new, Works(q), InStep(new)',
           UNCHANGED <<accounts, verifications, stored, uploads, legacy>>,
           \A i \in Ids : accepted[i] \subseteq accepted'[i],
           profiles \subseteq profiles',
           \A i \in profiles' \ profiles : accounts[i] # None,
           died \subseteq died', lost \subseteq lost', leftover \subseteq leftover',
           q.step \in Rewriting =>
              Dead(q.id, Rewriting)' \/ (new.id = q.id /\ new.step \in Rewriting),
           q.photo \in stored => Accounted(q.photo, new)',
           q.step \in Granting =>
              \/ Complete(q.id, q.role)' \/ Dead(q.id, Granting)'
              \/ new.id = q.id /\ new.role = q.role /\ new.step \in Granting
    PROVE  Works(new)'
<1>1. \A i : \A S : Dead(i, S) => Dead(i, S)'
  BY DEF Dead
<1>2. \A i, f : Refers(i, f)' = Refers(i, f)
  BY DEF Refers
<1>3. Rows'
  <2>1. \A i \in Ids : accounts'[i] = None => verifications'[i] = None /\ i \notin profiles'
    BY DEF Works, Rows
  <2>2. \A i, j \in Ids : \A f \in File : Refers(i, f)' /\ Refers(j, f)' => i = j
    BY <1>2 DEF Works, Rows
  <2>3. \A i \in Ids : \A f \in File : Refers(i, f)' => f <= uploads'
    BY <1>2 DEF Works, Rows
  <2> QED
    BY <2>1, <2>2, <2>3 DEF Works, Rows
<1>4. Kept(new)'
  <2> SUFFICES ASSUME NEW i \in Ids, NEW f \in File, Refers(i, f)'
               PROVE  f \in stored' \/ Dead(i, Rewriting)' \/ (new.id = i /\ new.step \in Rewriting)
    BY DEF Kept
  <2>1. f \in stored \/ Dead(i, Rewriting) \/ (q.id = i /\ q.step \in Rewriting)
    BY <1>2 DEF Works, Kept
  <2> QED
    BY <1>1, <2>1
<1>5. Completing(new)'
  <2> SUFFICES ASSUME NEW i \in Ids \ legacy', accounts'[i] # None, ~Dead(i, Granting)',
                      NEW role \in accounts'[i].roles
               PROVE  Complete(i, role)' \/ (new.id = i /\ new.role = role /\ new.step \in Granting)
    BY DEF Completing
  <2>1. Complete(i, role) \/ (q.id = i /\ q.role = role /\ q.step \in Granting)
    BY <1>1 DEF Works, Completing
  <2>2. Complete(i, role) => Complete(i, role)'
    BY DEF Complete
  <2> QED
    BY <2>1, <2>2
<1>6. ASSUME NEW f \in stored' PROVE Accounted(f, new)'
  <2>1. f \in lost \/ (\E i \in Ids : <<i, f>> \in leftover \/ Refers(i, f)) \/ q.photo = f
    BY DEF Works, Accounted
  <2>2. CASE q.photo = f
    BY <2>2
  <2>3. CASE q.photo # f
    BY <1>2, <2>1, <2>3 DEF Accounted
  <2> QED
    BY <2>2, <2>3
<1> QED
  BY <1>3, <1>4, <1>5, <1>6 DEF Works

\* Arrivals: what was idle holds something new, and what it holds was just read.
LEMMA Arrived ==
    ASSUME TypeOK, Works(Idle), NEW new, InStep(new)', UNCHANGED <<tables, files, setup, history>>
    PROVE  Works(new)'
<1>1. Idle.step \notin Rewriting /\ Idle.step \notin Granting
  BY IdleFields DEF Rewriting, Granting
<1>2. Idle.photo \notin stored
  BY IdleFields, OnboardingConstants DEF TypeOK
<1> QED
  BY <1>1, <1>2, Moves DEF tables, files, setup, history

LEMMA LookupWorks ==
    ASSUME GrantInv, NEW r \in Requests, NEW email \in Emails, NEW role \in Roles,
           NEW docs \in Ticks, SignupLookup(r, email, role, docs), Works(Idle)
    PROVE  \E new : req' = [req EXCEPT ![r] = new] /\ Works(new)'
<1>1. PICK account : account = [email |-> email, roles |-> {role}]
  OBVIOUS
<1>2. PICK new : new = [Idle EXCEPT !.step = IF role = "provider" THEN "signup.upload" ELSE "account",
                                    !.role = role, !.docs = docs, !.account = account]
  OBVIOUS
<1>3. /\ new.step = IF role = "provider" THEN "signup.upload" ELSE "account"
      /\ new.role = role /\ new.account = account /\ new.photo = None
  BY <1>2 DEF Idle
<1>4. account.roles = {role}
  BY <1>1
<1>5. Carries(new)'
  BY <1>3, OnboardingConstants DEF Carries
<1>6. InStep(new)'
  BY <1>3, <1>4, <1>5 DEF InStep, Nobody, Early, Rowed, Carrying, Deleting
<1> QED
  BY <1>1, <1>2, <1>6, Arrived DEF SignupLookup, Holds, GrantInv

LEMMA AddRoleWorks ==
    ASSUME GrantInv, NEW r \in Requests, NEW id \in Ids, NEW role \in Roles,
           NEW docs \in Ticks, addRole(r, id, role, docs), Works(Idle)
    PROVE  \E new : req' = [req EXCEPT ![r] = new] /\ Works(new)'
<1>1. PICK account : account = [accounts[id] EXCEPT !.roles = @ \cup {role}]
  OBVIOUS
<1>2. account.roles = accounts[id].roles \cup {role}
  <2>1. accounts[id] \in Account
    BY DEF addRole, GrantInv, TypeOK
  <2> QED
    BY <1>1, <2>1 DEF Account
<1>3. PICK new : new = [Idle EXCEPT !.step = "role.save", !.id = id, !.role = role, !.docs = docs,
                                    !.account = account]
  OBVIOUS
<1>4. /\ new.step = "role.save" /\ new.id = id /\ new.role = role /\ new.account = account
      /\ new.photo = None
  BY <1>3 DEF Idle
<1>5. InStep(new)'
  BY <1>2, <1>4 DEF addRole, tables, InStep, Nobody, Early, Rowed, Carrying, Deleting
<1> QED
  BY <1>1, <1>3, <1>5, Arrived DEF addRole, Holds, GrantInv

LEMMA OpensWorks ==
    ASSUME GrantInv, NEW r \in Requests, NEW id \in Ids, Works(Idle),
           \/ submitVerification(r, id)
           \/ faceMatch(r, id)
           \/ MoveLoad(r, id)
    PROVE  \E new : req' = [req EXCEPT ![r] = new] /\ Works(new)'
<1>1. PICK v : v = verifications[id]
  OBVIOUS
<1>2. PICK step \in {"submit.upload", "match.save", "move.upload"} :
          /\ req' = [req EXCEPT ![r] = [Idle EXCEPT !.step = step, !.id = id, !.row = v]]
          /\ UNCHANGED <<tables, files, setup, history>>
          /\ step = "submit.upload" => (v # None => v.status # "verified")
          /\ step # "submit.upload" => v # None
          /\ step = "move.upload" => v.photo = Public
          /\ accounts[id] # None
  <2>1. v # None => accounts[id] # None
    BY <1>1 DEF Works, Rows
  <2> QED
    BY <1>1, <2>1 DEF submitVerification, faceMatch, MoveLoad, Holds
<1>3. PICK new : new = [Idle EXCEPT !.step = step, !.id = id, !.row = v]
  OBVIOUS
<1>4. new.step = step /\ new.id = id /\ new.row = v /\ new.photo = None
  BY <1>3 DEF Idle
<1>5. InStep(new)'
  BY <1>1, <1>2, <1>4 DEF tables, InStep, Nobody, Early, Rowed, Carrying, Deleting
<1> QED
  BY <1>2, <1>3, <1>5, Arrived DEF GrantInv

LEMMA ReviewWorks ==
    ASSUME GrantInv, NEW r \in Requests, NEW id \in Ids, NEW status \in {"verified", "rejected"},
           ReviewLoad(r, id, status), Works(Idle)
    PROVE  \E new : req' = [req EXCEPT ![r] = new] /\ Works(new)'
<1>1. PICK row : row = [verifications[id] EXCEPT !.status = status]
  OBVIOUS
<1>2. row.photo = verifications[id].photo /\ verifications[id] # None /\ accounts[id] # None
  <2>1. verifications[id] \in Verification
    BY DEF ReviewLoad, GrantInv, TypeOK
  <2> QED
    BY <1>1, <2>1 DEF ReviewLoad, Verification, Works, Rows
<1>3. PICK new : new = [Idle EXCEPT !.step = "review.delete", !.id = id, !.row = row]
  OBVIOUS
<1>4. new.step = "review.delete" /\ new.id = id /\ new.row = row /\ new.photo = None
  BY <1>3 DEF Idle
<1>5. InStep(new)'
  BY <1>2, <1>4 DEF ReviewLoad, tables, InStep, Nobody, Early, Rowed, Carrying, Deleting
<1> QED
  BY <1>1, <1>3, <1>5, Arrived DEF ReviewLoad, Holds, GrantInv

LEMMA CollectWorks ==
    ASSUME GrantInv, NEW r \in Requests, NEW id \in Ids, collectPhotos(r, id), Works(Idle)
    PROVE  \E new : req' = [req EXCEPT ![r] = new] /\ Works(new)'
<1>1. PICK photo : photo = IF verifications[id] = None THEN None ELSE verifications[id].photo
  OBVIOUS
<1>2. PICK new : new = [Idle EXCEPT !.step = "delete.rows", !.id = id, !.photo = photo]
  OBVIOUS
<1>3. new.step = "delete.rows" /\ new.id = id /\ new.photo = photo
  BY <1>2 DEF Idle
<1>4. InStep(new)'
  BY <1>1, <1>3 DEF collectPhotos, tables, InStep, Nobody, Early, Rowed, Carrying, Deleting
<1> QED
  BY <1>1, <1>2, <1>4, Arrived DEF collectPhotos, Holds, GrantInv

LEMMA AbandonWorks ==
    ASSUME GrantInv, alone, NEW r \in Requests, Abandon(r), NEW q, q = req[r], Works(q)
    PROVE  \E new : req' = [req EXCEPT ![r] = new] /\ Works(new)'
<1>1. HeldGrant(q)
  BY DEF GrantInv
<1>2. q.step \in HalfDone => <<q.id, q.step>> \in died'
  BY <1>1 DEF Abandon, Noted, HeldGrant, Nobody, Early, HalfDone, Granting
<1>3. /\ q.step \in Rewriting => Dead(q.id, Rewriting)'
      /\ q.step \in Granting => Dead(q.id, Granting)'
  BY <1>2 DEF Dead, HalfDone, Rewriting
<1>4. q.photo \in stored => Accounted(q.photo, Idle)'
  <2> SUFFICES ASSUME q.photo \in stored, q.photo \notin lost' PROVE Accounted(q.photo, Idle)'
    BY DEF Accounted
  <2>1. q.photo \in Referenced
    BY DEF Abandon, Noted, GrantInv, TypeOK
  <2>2. \E i \in Ids : Refers(i, q.photo)'
    BY <2>1 DEF Referenced, Refers, Abandon, tables
  <2> QED
    BY <2>2 DEF Accounted
<1>5. Works(Idle)'
  BY <1>3, <1>4, IdleInStep, Moves DEF Abandon, tables, files, setup
<1> QED
  BY <1>5 DEF Abandon, Finish

\* A new file in the private store.
LEMMA FileArrives ==
    ASSUME GrantInv, NEW q, NEW new, Works(q), InStep(new)', q.photo = None,
           UNCHANGED <<tables, setup, died, leftover>>,
           uploads' = uploads + 1, stored' = stored \cup {uploads'}, lost \subseteq lost',
           new.photo = uploads' \/ uploads' \in lost',
           q.step \notin Rewriting,
           q.step \in Granting => new.id = q.id /\ new.role = q.role /\ new.step \in Granting
    PROVE  Works(new)'
<1>1. /\ uploads \in Nat /\ \A i, f : Refers(i, f)' = Refers(i, f)
      /\ \A i, S : Dead(i, S)' = Dead(i, S)
      /\ \A i, role : Complete(i, role)' = Complete(i, role)
  BY OnboardingConstants DEF GrantInv, TypeOK, Refers, tables, Dead, Complete
<1>2. Rows'
  <2>1. \A i \in Ids : \A f \in File : Refers(i, f)' => f <= uploads'
    <3> SUFFICES ASSUME NEW i \in Ids, NEW f \in File, Refers(i, f) PROVE f <= uploads'
      BY <1>1
    <3>1. f <= uploads /\ f \in Nat
      BY OnboardingConstants DEF Works, Rows, File
    <3> QED
      BY <1>1, <3>1
  <2>2. stored' \subseteq 0..uploads'
    <3>1. stored \subseteq 0..uploads
      BY DEF Works, Rows
    <3>2. uploads \in Nat /\ uploads' = uploads + 1 /\ stored' = stored \cup {uploads'}
      BY <1>1
    <3>3. ASSUME NEW f \in stored' PROVE f \in 0..(uploads + 1)
      BY <3>1, <3>2, <3>3
    <3> QED
      BY <3>2, <3>3
  <2>3. \A i, j \in Ids : \A f \in File : Refers(i, f)' /\ Refers(j, f)' => i = j
    BY <1>1 DEF Works, Rows
  <2> QED
    BY <2>1, <2>2, <2>3 DEF Works, Rows, tables
<1>3. Kept(new)'
  BY <1>1 DEF Works, Kept
<1>4. Completing(new)'
  BY <1>1 DEF Works, Completing, tables, setup
<1>5. ASSUME NEW f \in stored' PROVE Accounted(f, new)'
  <2>1. CASE f = uploads'
    BY <2>1 DEF Accounted
  <2>2. CASE f \in stored
    <3>1. f # None
      BY <2>2, OnboardingConstants DEF GrantInv, TypeOK
    <3> QED
      BY <1>1, <2>2, <3>1 DEF Works, Accounted
  <2> QED
    BY <2>1, <2>2
<1> QED
  BY <1>2, <1>3, <1>4, <1>5 DEF Works

LEMMA UploadWorks ==
    ASSUME GrantInv, alone, NEW r \in Requests, Upload(r), NEW q, q = req[r], Works(q)
    PROVE  \E new : req' = [req EXCEPT ![r] = new] /\ Works(new)'
<1>1. HeldGrant(q) /\ q \in Request
  BY DEF GrantInv, TypeOK
<1>2. /\ q.step \in Uploading
      /\ q.step = "signup.upload" => AfterUpload[q.step] = "account"
      /\ q.step = "role.upload" => AfterUpload[q.step] = "verification"
      /\ q.step = "submit.upload" => AfterUpload[q.step] = "submit.save"
      /\ q.step = "move.upload" => AfterUpload[q.step] = "move.delete"
  BY DEF Upload, AfterUpload, Uploading
<1>3. /\ q.photo = None
      /\ q.step \in {"signup.upload", "role.upload"} => q.role = "provider"
  BY <1>2 DEF Uploading, Works, InStep, Carrying, Deleting
<1>4. PICK photo :
        /\ req' = [req EXCEPT ![r] = [q EXCEPT !.photo = photo, !.step = AfterUpload[q.step]]]
        /\ \/ /\ uploads < MaxUploads /\ uploads' = uploads + 1 /\ stored' = stored \cup {uploads'}
              /\ \/ photo = uploads' /\ lost' = lost
                 \/ photo = Inline /\ lost' = lost \cup {uploads'}
           \/ photo = Inline /\ UNCHANGED <<files, lost>>
  BY DEF Upload, Holds, Noted
<1>5. PICK new : new = [q EXCEPT !.photo = photo, !.step = AfterUpload[q.step]]
  OBVIOUS
<1>6. /\ new.step = AfterUpload[q.step] /\ new.photo = photo /\ new.id = q.id
      /\ new.role = q.role /\ new.account = q.account /\ new.row = q.row
  BY <1>1, <1>5 DEF Request
<1>7. UNCHANGED <<accounts, accepted, verifications, profiles, setup, born, answered, died, leftover>>
  BY DEF Upload, tables
<1>8. Carries(new)'
  <2> SUFFICES ASSUME photo \in File
               PROVE  photo \in stored' /\ photo # Public /\ \A i \in Ids : ~Refers(i, photo)'
    BY <1>6 DEF Carries
  <2>1. photo = uploads' /\ uploads' = uploads + 1 /\ stored' = stored \cup {uploads'}
    BY <1>4, OnboardingConstants
  <2>2. uploads \in Nat
    BY OnboardingConstants DEF GrantInv, TypeOK
  <2>3. ASSUME NEW i \in Ids, Refers(i, photo)' PROVE FALSE
    <3>1. Refers(i, photo)
      BY <1>7, <2>3 DEF Refers
    <3>2. photo <= uploads
      BY <3>1 DEF Works, Rows
    <3> QED
      BY <2>1, <2>2, <3>2
  <2> QED
    BY <2>1, <2>2, <2>3 DEF Public
<1>9. /\ new.step \in {"account", "verification", "submit.save", "move.delete"}
      /\ q.step \notin Rewriting
      /\ q.step \in Granting => new.step \in Granting
      /\ new.step \in {"account", "accept"} /\ new.role = "owner" => new.photo = None
  BY <1>2, <1>3, <1>6 DEF Uploading, Rewriting, Granting
<1>10. InStep(new)'
  BY <1>2, <1>6, <1>7, <1>8, <1>9
     DEF Works, InStep, Nobody, Early, Uploading, Rowed, Carrying, Deleting
<1>11. CASE photo = Inline /\ UNCHANGED <<files, lost>>
  <2>1. q.photo \notin stored
    BY <1>3, OnboardingConstants DEF GrantInv, TypeOK
  <2> QED
    BY <1>4, <1>5, <1>6, <1>7, <1>9, <1>10, <1>11, <2>1, Moves DEF files, setup
<1>12. CASE uploads' = uploads + 1 /\ stored' = stored \cup {uploads'}
  <2>1. /\ uploads' = uploads + 1 /\ stored' = stored \cup {uploads'} /\ lost \subseteq lost'
        /\ new.photo = uploads' \/ uploads' \in lost'
    <3>1. uploads \in Nat
      BY OnboardingConstants DEF GrantInv, TypeOK
    <3> QED
      BY <1>4, <1>6, <1>12, <3>1 DEF files
  <2>2. UNCHANGED <<tables, setup, died, leftover>>
    BY DEF Upload
  <2>3. Works(new)'
    BY <1>3, <1>6, <1>9, <1>10, <2>1, <2>2, FileArrives
  <2> QED
    BY <1>4, <1>5, <2>3
<1> QED
  BY <1>4, <1>11, <1>12

\* Rows, files and what is counted as lost stay; accounts gain one, or a role.
LEMMA AccountGains ==
    ASSUME NEW q, NEW new, Works(q), InStep(new)',
           UNCHANGED <<accepted, verifications, profiles, stored, uploads, legacy, died, lost, leftover>>,
           q.step \notin Rewriting, q.step \notin Granting, new.photo = q.photo,
           \A i \in Ids : accounts'[i] = None => accounts[i] = None,
           \A i \in Ids \ legacy : accounts'[i] # None =>
              \A role \in accounts'[i].roles :
                 \/ accounts[i] # None /\ role \in accounts[i].roles
                 \/ new.id = i /\ new.role = role /\ new.step \in Granting
    PROVE  Works(new)'
<1>1. /\ \A i, f : Refers(i, f)' = Refers(i, f)
      /\ \A i, S : Dead(i, S)' = Dead(i, S)
      /\ \A i, role : Complete(i, role)' = Complete(i, role)
  BY DEF Refers, Dead, Complete
<1>2. Rows'
  BY <1>1 DEF Works, Rows
<1>3. Kept(new)'
  BY <1>1 DEF Works, Kept
<1>4. Completing(new)'
  <2> SUFFICES ASSUME NEW i \in Ids \ legacy, accounts'[i] # None, ~Dead(i, Granting),
                      NEW role \in accounts'[i].roles
               PROVE  Complete(i, role) \/ (new.id = i /\ new.role = role /\ new.step \in Granting)
    BY <1>1 DEF Completing
  <2> QED
    BY DEF Works, Completing
<1>5. \A f \in stored : Accounted(f, new)'
  BY <1>1 DEF Works, Accounted
<1> QED
  BY <1>2, <1>3, <1>4, <1>5 DEF Works

LEMMA SignupWorks ==
    ASSUME GrantInv, NEW r \in Requests, NEW id \in Ids, SignupSave(r, id),
           NEW q, q = req[r], Works(q)
    PROVE  \E new : req' = [req EXCEPT ![r] = new] /\ Works(new)'
<1>1. q \in Request /\ q.step = "account" /\ HeldGrant(q) /\ q.account \in Account
  BY DEF SignupSave, GrantInv, TypeOK, HeldGrant, Early
<1>2. PICK new : new = [q EXCEPT !.step = "accept", !.id = id, !.account = None]
  OBVIOUS
<1>3. new.step = "accept" /\ new.id = id /\ new.role = q.role /\ new.photo = q.photo
  BY <1>1, <1>2 DEF Request
<1>4. /\ q.account.roles = {q.role} /\ Carries(q) /\ (q.role = "owner" => q.photo = None)
      /\ q.account # None
  BY <1>1, OnboardingConstants DEF Works, InStep, Early, Carrying
<1>5. /\ accounts' = [accounts EXCEPT ![id] = q.account] /\ id \notin born
      /\ UNCHANGED <<accepted, verifications, profiles, files, setup, died, lost, leftover>>
      /\ req' = [req EXCEPT ![r] = new]
  BY <1>2 DEF SignupSave, Holds
<1>6. Carries(new)'
  BY <1>3, <1>4, <1>5 DEF Carries, Refers, files
<1>7. accounts'[id] = q.account /\ \A i \in Ids : i # id => accounts'[i] = accounts[i]
  BY <1>5 DEF GrantInv, TypeOK
<1>8. InStep(new)'
  BY <1>3, <1>4, <1>6, <1>7 DEF InStep, Nobody, Early, Rowed, Carrying, Deleting
<1>9. q.step \notin Rewriting /\ q.step \notin Granting /\ new.step \in Granting
  BY <1>1, <1>3 DEF Rewriting, Granting
<1>10. Works(new)'
  BY <1>3, <1>4, <1>5, <1>7, <1>8, <1>9, AccountGains DEF files, setup
<1> QED
  BY <1>5, <1>10

LEMMA RoleWorks ==
    ASSUME GrantInv, NEW r \in Requests, RoleSave(r), NEW q, q = req[r], Works(q)
    PROVE  \E new : req' = [req EXCEPT ![r] = new] /\ Works(new)'
<1>1. /\ q \in Request /\ q.step = "role.save" /\ HeldGrant(q) /\ q.account \in Account
      /\ q.id \in Ids /\ q.account # None
  BY OnboardingConstants DEF RoleSave, GrantInv, TypeOK, HeldGrant, Early, Nobody
<1>2. PICK new : new = [q EXCEPT !.step = "accept", !.account = None]
  OBVIOUS
<1>3. new.step = "accept" /\ new.id = q.id /\ new.role = q.role /\ new.photo = q.photo
  BY <1>1, <1>2 DEF Request
<1>4. /\ q.account.roles = accounts[q.id].roles \cup {q.role} /\ accounts[q.id] # None
      /\ q.photo = None
  BY <1>1 DEF Works, InStep, Early, Carrying, Nobody, Deleting
<1>5. /\ accounts' = [accounts EXCEPT ![q.id] = q.account]
      /\ UNCHANGED <<accepted, verifications, profiles, files, setup, history>>
      /\ req' = [req EXCEPT ![r] = new]
  BY <1>2 DEF RoleSave, Holds
<1>6. Carries(new)'
  BY <1>3, <1>4, OnboardingConstants DEF Carries
<1>7. accounts'[q.id] = q.account /\ \A i \in Ids : i # q.id => accounts'[i] = accounts[i]
  BY <1>1, <1>5 DEF GrantInv, TypeOK
<1>8. InStep(new)'
  BY <1>1, <1>3, <1>4, <1>6, <1>7 DEF InStep, Nobody, Early, Rowed, Carrying, Deleting
<1>9. q.step \notin Rewriting /\ q.step \notin Granting /\ new.step \in Granting
  BY <1>1, <1>3 DEF Rewriting, Granting
<1>10. Works(new)'
  BY <1>1, <1>3, <1>4, <1>5, <1>7, <1>8, <1>9, AccountGains DEF files, setup, history
<1> QED
  BY <1>5, <1>10

LEMMA AcceptanceWorks ==
    ASSUME GrantInv, NEW r \in Requests, NEW d \in Documents, RecordAcceptance(r, d),
           NEW q, q = req[r], Works(q)
    PROVE  \E new : req' = [req EXCEPT ![r] = new] /\ Works(new)'
<1>1. /\ q \in Request /\ q.step = "accept" /\ q.id \in Ids /\ q.role \in Roles
  BY DEF RecordAcceptance, GrantInv, TypeOK, HeldGrant, Early, Nobody, Granting
<1>2. /\ Carries(q) /\ accounts[q.id] # None
      /\ q.role = "owner" => q.photo = None
  BY <1>1 DEF Works, InStep, Carrying, Nobody, Early
<1>3. PICK step, left :
        /\ req' = [req EXCEPT ![r] = [q EXCEPT !.docs = left, !.step = step]]
        /\ \/ step = "accept"
           \/ step = "answer" /\ q.role = "owner"
           \/ step = "role.upload" /\ q.role = "provider" /\ q.photo = None
           \/ step = "verification" /\ q.role = "provider"
  BY <1>1 DEF RecordAcceptance, Holds, Roles
<1>4. PICK new : new = [q EXCEPT !.docs = left, !.step = step]
  OBVIOUS
<1>5. new.step = step /\ new.id = q.id /\ new.role = q.role /\ new.photo = q.photo
  BY <1>1, <1>4 DEF Request
<1>6. /\ \A i \in Ids : accepted[i] \subseteq accepted'[i]
      /\ UNCHANGED <<accounts, verifications, profiles, files, setup, history>>
  BY <1>1 DEF RecordAcceptance, GrantInv, TypeOK
<1>7. Carries(new)'
  BY <1>2, <1>5, <1>6 DEF Carries, Refers, files
<1>8. InStep(new)'
  BY <1>2, <1>3, <1>5, <1>6, <1>7 DEF InStep, Nobody, Early, Rowed, Carrying, Deleting
<1>9. q.step \notin Rewriting /\ new.step \in Granting
  BY <1>1, <1>3, <1>5 DEF Rewriting, Granting
<1>10. q.photo \in stored => Accounted(q.photo, new)'
  BY <1>5 DEF Accounted
<1>11. Works(new)'
  BY <1>5, <1>6, <1>8, <1>9, <1>10, Moves DEF files, setup, history
<1> QED
  BY <1>3, <1>4, <1>11

LEMMA ProfileWorks ==
    ASSUME GrantInv, NEW r \in Requests, SeedProviderProfile(r), NEW q, q = req[r], Works(q)
    PROVE  \E new : req' = [req EXCEPT ![r] = new] /\ Works(new)'
<1>1. /\ q \in Request /\ q.step = "profile" /\ q.id \in Ids
      /\ documentsRequiredFor(q.role) \subseteq accepted[q.id]
  <2>1. /\ q \in Request /\ q.step = "profile" /\ q.id \in Ids /\ q.docs = {}
        /\ assertAcceptedRequiredDocuments(q.role, accepted[q.id] \cup q.docs)
    BY DEF SeedProviderProfile, GrantInv, TypeOK, HeldGrant, Early, Nobody, Granting
  <2> QED
    BY <2>1 DEF assertAcceptedRequiredDocuments
<1>2. /\ q.photo = None /\ accounts[q.id] # None
      /\ q.role = "provider" => verifications[q.id] # None
  BY <1>1 DEF Works, InStep, Carrying, Nobody, Early, Deleting
<1>3. q.photo \notin stored
  BY <1>2, OnboardingConstants DEF GrantInv, TypeOK
<1>4. UNCHANGED <<accounts, accepted, verifications, files, setup, history>> /\ q.step \notin Rewriting
  BY <1>1 DEF SeedProviderProfile, Rewriting
<1>5. CASE profiles' = profiles \cup {q.id} /\ Goes(r, "answer")
  <2>1. PICK new : new = [q EXCEPT !.step = "answer"]
    OBVIOUS
  <2>2. new.step = "answer" /\ new.id = q.id /\ new.role = q.role /\ new.photo = None
    BY <1>1, <1>2, <2>1 DEF Request
  <2>3. InStep(new)'
    BY <1>2, <1>4, <1>5, <2>2 DEF InStep, Nobody, Early, Rowed, Carrying, Deleting
  <2>4. new.step \in Granting
    BY <2>2 DEF Granting
  <2>5. Works(new)'
    BY <1>2, <1>3, <1>4, <1>5, <2>2, <2>3, <2>4, Moves DEF files, setup, history
  <2>6. req' = [req EXCEPT ![r] = new]
    BY <1>5, <2>1 DEF Goes, GrantInv, TypeOK
  <2> QED
    BY <2>5, <2>6
<1>6. CASE q.id \in profiles /\ profiles' = profiles /\ Finish(r)
  <2>1. Complete(q.id, q.role)'
    BY <1>1, <1>2, <1>4, <1>6 DEF Complete
  <2>2. Works(Idle)'
    BY <1>3, <1>4, <1>6, <2>1, IdleInStep, Moves DEF files, setup, history
  <2> QED
    BY <1>6, <2>2 DEF Finish
<1> QED
  BY <1>5, <1>6 DEF SeedProviderProfile

LEMMA AnswerWorks ==
    ASSUME GrantInv, NEW r \in Requests, Answer(r), NEW q, q = req[r], Works(q)
    PROVE  \E new : req' = [req EXCEPT ![r] = new] /\ Works(new)'
<1>1. /\ q \in Request /\ q.step = "answer" /\ q.id \in Ids
      /\ documentsRequiredFor(q.role) \subseteq accepted[q.id]
  <2>1. /\ q \in Request /\ q.step = "answer" /\ q.id \in Ids /\ q.docs = {}
        /\ assertAcceptedRequiredDocuments(q.role, accepted[q.id] \cup q.docs)
    BY DEF Answer, GrantInv, TypeOK, HeldGrant, Early, Nobody, Granting
  <2> QED
    BY <2>1 DEF assertAcceptedRequiredDocuments
<1>2. /\ q.photo = None
      /\ q.role = "provider" => verifications[q.id] # None /\ q.id \in profiles
  BY <1>1 DEF Works, InStep, Carrying, Deleting
<1>3. q.photo \notin stored
  BY <1>2, OnboardingConstants DEF GrantInv, TypeOK
<1>4. UNCHANGED <<tables, files, setup, died, lost, leftover>> /\ q.step \notin Rewriting
  BY <1>1 DEF Answer, Rewriting
<1>5. Complete(q.id, q.role)'
  BY <1>1, <1>2, <1>4 DEF Complete, tables
<1>6. Works(Idle)'
  BY <1>3, <1>4, <1>5, IdleInStep, Moves DEF tables, files, setup
<1> QED
  BY <1>6 DEF Answer, Finish

LEMMA ConsentWorks ==
    ASSUME GrantInv, NEW r \in Requests, SubmitConsent(r), NEW q, q = req[r], Works(q)
    PROVE  \E new : req' = [req EXCEPT ![r] = new] /\ Works(new)'
<1>1. q \in Request /\ q.step = "submit.consent" /\ q.id \in Ids
  BY DEF SubmitConsent, GrantInv, TypeOK, HeldGrant, Early, Nobody
<1>2. q.photo = None
  BY <1>1 DEF Works, InStep, Carrying, Deleting
<1>3. q.photo \notin stored
  BY <1>2, OnboardingConstants DEF GrantInv, TypeOK
<1>4. /\ \A i \in Ids : accepted[i] \subseteq accepted'[i]
      /\ UNCHANGED <<accounts, verifications, profiles, files, setup, history>>
      /\ q.step \notin Rewriting /\ q.step \notin Granting
  BY <1>1 DEF SubmitConsent, Rewriting, Granting, GrantInv, TypeOK
<1>5. Works(Idle)'
  BY <1>3, <1>4, IdleInStep, Moves DEF files, setup, history
<1> QED
  BY <1>5 DEF SubmitConsent, Finish

\* A request writes the row of its account: what the old row referred to is accounted for,
\* and what the new one refers to is in storage and in no other row.
LEMMA RowWritten ==
    ASSUME GrantInv, NEW q, NEW new, NEW row, Works(q), InStep(new)', q.id \in Ids, row # None,
           verifications' = [verifications EXCEPT ![q.id] = row],
           UNCHANGED <<accounts, accepted, profiles, files, legacy, died, lost>>,
           leftover \subseteq leftover', accounts[q.id] # None,
           row.photo # None => row.status = "pending",
           row.photo \in File => row.photo \in stored /\ \A i \in Ids : ~Refers(i, row.photo),
           verifications[q.id] # None =>
              LET f == verifications[q.id].photo IN
              f \in stored => f \in lost \/ <<q.id, f>> \in leftover',
           q.photo \in stored => row.photo = q.photo,
           q.step \in Granting => new.id = q.id /\ new.role = q.role /\ new.step \in Granting
    PROVE  Works(new)'
<1>1. /\ verifications'[q.id] = row
      /\ \A i \in Ids \ {q.id} : verifications'[i] = verifications[i]
  BY DEF GrantInv, TypeOK
<1>2. /\ \A f : Refers(q.id, f)' <=> (row.photo = f)
      /\ \A i \in Ids \ {q.id} : \A f : Refers(i, f)' <=> Refers(i, f)
      /\ \A i, S : Dead(i, S)' = Dead(i, S)
  BY <1>1 DEF Refers, Dead
<1>3. stored \subseteq 0..uploads /\ stored \subseteq File /\ uploads \in Nat
  BY OnboardingConstants DEF GrantInv, TypeOK, Works, Rows
<1>4. Rows'
  <2>1. \A i \in Ids : accounts'[i] = None => verifications'[i] = None /\ i \notin profiles'
    BY <1>1 DEF Works, Rows
  <2>2. \A i \in Ids : verifications'[i] # None /\ verifications'[i].photo # None
                         => verifications'[i].status = "pending"
    BY <1>1 DEF Works, Rows
  <2>3. \A i, j \in Ids : \A f \in File : Refers(i, f)' /\ Refers(j, f)' => i = j
    <3>1. \A i, j \in Ids : \A f \in File : Refers(i, f) /\ Refers(j, f) => i = j
      BY DEF Works, Rows
    <3> QED
      BY <1>2, <3>1
  <2>4. \A i \in Ids : \A f \in File : Refers(i, f)' => f <= uploads'
    <3> SUFFICES ASSUME NEW i \in Ids, NEW f \in File, Refers(i, f)' PROVE f <= uploads
      BY DEF files
    <3>1. CASE i = q.id
      <4>1. f \in stored
        BY <1>2, <3>1
      <4> QED
        BY <1>3, <4>1
    <3>2. CASE i # q.id
      BY <1>2, <3>2 DEF Works, Rows
    <3> QED
      BY <3>1, <3>2
  <2> QED
    BY <1>3, <2>1, <2>2, <2>3, <2>4 DEF Rows, files
<1>5. Kept(new)'
  <2> SUFFICES ASSUME NEW i \in Ids, NEW f \in File, Refers(i, f)'
               PROVE  f \in stored \/ Dead(i, Rewriting)
    BY <1>2 DEF Kept, files
  <2>1. CASE i = q.id
    BY <1>2, <2>1
  <2>2. CASE i # q.id
    BY <1>2, <2>2 DEF Works, Kept
  <2> QED
    BY <2>1, <2>2
<1>6. Completing(new)'
  <2> SUFFICES ASSUME NEW i \in Ids \ legacy, accounts[i] # None, ~Dead(i, Granting),
                      NEW role \in accounts[i].roles
               PROVE  Complete(i, role)' \/ (new.id = i /\ new.role = role /\ new.step \in Granting)
    BY <1>2 DEF Completing
  <2>1. Complete(i, role) \/ (q.id = i /\ q.role = role /\ q.step \in Granting)
    BY DEF Works, Completing
  <2>2. Complete(i, role) => Complete(i, role)'
    BY <1>1 DEF Complete
  <2> QED
    BY <2>1, <2>2
<1>7. ASSUME NEW f \in stored PROVE Accounted(f, new)'
  <2>1. Accounted(f, q)
    BY DEF Works
  <2>2. CASE q.photo = f
    BY <1>2, <2>2 DEF Accounted
  <2>3. CASE Refers(q.id, f)
    BY <2>3 DEF Accounted, Refers
  <2>4. CASE q.photo # f /\ ~Refers(q.id, f)
    BY <1>2, <2>1, <2>4 DEF Accounted
  <2> QED
    BY <2>2, <2>3, <2>4
<1> QED
  BY <1>4, <1>5, <1>6, <1>7 DEF Works, files

LEMMA VerificationWorks ==
    ASSUME GrantInv, alone, NEW r \in Requests, SaveVerification(r), NEW q, q = req[r], Works(q)
    PROVE  \E new : req' = [req EXCEPT ![r] = new] /\ Works(new)'
<1>1. q \in Request /\ q.step = "verification" /\ q.id \in Ids
  BY DEF SaveVerification, GrantInv, TypeOK, HeldGrant, Early, Nobody, Granting
<1>2. Carries(q) /\ accounts[q.id] # None
  BY <1>1 DEF Works, InStep, Carrying, Nobody, Early
<1>3. PICK new : new = [q EXCEPT !.step = "profile", !.photo = None]
  OBVIOUS
<1>4. new.step = "profile" /\ new.id = q.id /\ new.role = q.role /\ new.photo = None
  BY <1>1, <1>3 DEF Request
<1>5. /\ req' = [req EXCEPT ![r] = new]
      /\ UNCHANGED <<accounts, accepted, profiles, files, setup, born, answered, died, lost>>
      /\ q.step \notin Rewriting /\ new.step \in Granting
  BY <1>1, <1>3, <1>4 DEF SaveVerification, Holds, Rewriting, Granting
<1>6. stored \subseteq File
  BY DEF GrantInv, TypeOK
<1>7. CASE /\ verifications[q.id] = None /\ UNCHANGED leftover
           /\ verifications' = [verifications EXCEPT ![q.id] = [status |-> "pending", photo |-> q.photo]]
  <2>1. PICK row : row = [status |-> "pending", photo |-> q.photo]
    OBVIOUS
  <2>2. row # None
    <3>1. row \in Verification
      BY <1>1, <2>1 DEF Verification, Request
    <3> QED
      BY <3>1, OnboardingConstants
  <2>3. row.photo = q.photo /\ row.status = "pending"
    BY <2>1
  <2>4. row.photo \in File => row.photo \in stored /\ \A i \in Ids : ~Refers(i, row.photo)
    BY <1>2, <2>3 DEF Carries
  <2>5. verifications'[q.id] = row
    BY <1>1, <1>7, <2>1 DEF GrantInv, TypeOK
  <2>6. InStep(new)'
    BY <1>2, <1>4, <1>5, <2>2, <2>5 DEF InStep, Nobody, Early, Rowed, Carrying, Deleting
  <2>7. Works(new)'
    BY <1>1, <1>2, <1>4, <1>5, <1>7, <2>1, <2>2, <2>3, <2>4, <2>6, RowWritten DEF setup
  <2> QED
    BY <1>5, <2>7
<1>8. CASE /\ verifications[q.id] # None /\ UNCHANGED verifications
           /\ leftover' = leftover \cup Noted({q.id} \X ({q.photo} \cap File))
  <2>1. InStep(new)'
    BY <1>2, <1>4, <1>5, <1>8 DEF InStep, Nobody, Early, Rowed, Carrying, Deleting
  <2>2. q.photo \in stored => Accounted(q.photo, new)'
    BY <1>1, <1>6, <1>8 DEF Accounted, Noted
  <2>3. Works(new)'
    BY <1>4, <1>5, <1>8, <2>1, <2>2, Moves DEF files, setup
  <2> QED
    BY <1>5, <2>3
<1> QED
  BY <1>7, <1>8 DEF SaveVerification

LEMMA SubmitWorks ==
    ASSUME GrantInv, alone, NEW r \in Requests, SubmitSave(r), NEW q, q = req[r], Works(q)
    PROVE  \E new : req' = [req EXCEPT ![r] = new] /\ Works(new)'
<1>1. q \in Request /\ q.step = "submit.save" /\ q.id \in Ids
  BY DEF SubmitSave, GrantInv, TypeOK, HeldGrant, Early, Nobody
<1>2. Carries(q) /\ accounts[q.id] # None /\ q.row = verifications[q.id]
  BY <1>1 DEF Works, InStep, Carrying, Nobody, Early
<1>3. PICK new : new = [q EXCEPT !.step = "submit.consent", !.photo = None]
  OBVIOUS
<1>4. new.step = "submit.consent" /\ new.id = q.id /\ new.photo = None
  BY <1>1, <1>3 DEF Request
<1>5. PICK row : row = [status |-> "pending", photo |-> q.photo]
  OBVIOUS
<1>6. row # None
  <2>1. row \in Verification
    BY <1>1, <1>5 DEF Verification, Request
  <2> QED
    BY <2>1, OnboardingConstants
<1>7. /\ req' = [req EXCEPT ![r] = new]
      /\ verifications' = [verifications EXCEPT ![q.id] = row]
      /\ UNCHANGED <<accounts, accepted, profiles, files, setup, born, answered, died, lost>>
      /\ q.step \notin Granting
  BY <1>1, <1>3, <1>5 DEF SubmitSave, Holds, Granting
<1>8. /\ leftover \subseteq leftover'
      /\ verifications[q.id] # None =>
           (verifications[q.id].photo \in File => <<q.id, verifications[q.id].photo>> \in leftover')
  BY <1>1, <1>2 DEF SubmitSave, Noted
<1>9. stored \subseteq File
  BY DEF GrantInv, TypeOK
<1>10. row.photo \in File => row.photo \in stored /\ \A i \in Ids : ~Refers(i, row.photo)
  BY <1>2, <1>5 DEF Carries
<1>11. InStep(new)'
  BY <1>2, <1>4, <1>7 DEF InStep, Nobody, Early, Rowed, Carrying, Deleting
<1>12. Works(new)'
  BY <1>1, <1>2, <1>5, <1>6, <1>7, <1>8, <1>9, <1>10, <1>11, RowWritten DEF setup
<1> QED
  BY <1>7, <1>12

LEMMA SaveWorks ==
    ASSUME GrantInv, alone, NEW r \in Requests, SaveRow(r), NEW q, q = req[r], Works(q)
    PROVE  \E new : req' = [req EXCEPT ![r] = new] /\ Works(new)'
<1>1. /\ q \in Request /\ q.step \in {"review.save", "match.save", "move.save"} /\ q.id \in Ids
      /\ q.row \in Verification /\ q.row # None
  BY OnboardingConstants DEF SaveRow, GrantInv, TypeOK, HeldGrant, Early, Nobody, Rowed
<1>2. accounts[q.id] # None /\ verifications[q.id] # None
  BY <1>1 DEF Works, InStep, Nobody, Early, Rowed
<1>3. /\ req' = [req EXCEPT ![r] = Idle]
      /\ verifications' = [verifications EXCEPT ![q.id] = q.row]
      /\ UNCHANGED <<accounts, accepted, profiles, files, setup, history>>
      /\ q.step \notin Granting
  BY <1>1 DEF SaveRow, Finish, Granting
<1>4. stored \subseteq File /\ None \notin File
  BY OnboardingConstants DEF GrantInv, TypeOK
<1>5. CASE q.step = "match.save"
  <2>1. verifications' = verifications
    BY <1>1, <1>3, <1>5 DEF Works, InStep, GrantInv, TypeOK
  <2>2. q.photo = None /\ q.step \notin Rewriting
    BY <1>5 DEF Works, InStep, Carrying, Deleting, Rewriting
  <2>3. Works(Idle)'
    BY <1>3, <1>4, <2>1, <2>2, IdleInStep, Moves DEF files, setup, history
  <2> QED
    BY <1>3, <2>3
<1>6. CASE q.step = "review.save"
  <2>1. q.photo = None /\ q.row.photo = None /\ Disposed(verifications[q.id].photo)
    BY <1>6 DEF Works, InStep, Carrying, Deleting
  <2>2. Works(Idle)'
    BY <1>1, <1>2, <1>3, <1>4, <2>1, IdleInStep, RowWritten DEF Disposed, setup, history
  <2> QED
    BY <1>3, <2>2
<1>7. CASE q.step = "move.save"
  <2>1. /\ Carries(q) /\ q.row.photo = q.photo /\ verifications[q.id].photo = Public
        /\ Disposed(Public) /\ q.row.status = verifications[q.id].status
    BY <1>7 DEF Works, InStep, Carrying
  <2>2. Public # None
    BY OnboardingConstants DEF Public, File
  <2>3. q.row.status = "pending"
    BY <1>1, <1>2, <2>1, <2>2 DEF Works, Rows
  <2>4. q.row.photo \in File => q.row.photo \in stored /\ \A i \in Ids : ~Refers(i, q.row.photo)
    BY <2>1 DEF Carries
  <2>5. Works(Idle)'
    BY <1>1, <1>2, <1>3, <1>4, <2>1, <2>3, <2>4, IdleInStep, RowWritten
       DEF Disposed, setup, history
  <2> QED
    BY <1>3, <2>5
<1> QED
  BY <1>1, <1>5, <1>6, <1>7

\* A file is deleted, or could not be and is counted as lost; only the row that the request
\* is about to save, or none, refers to it.
LEMMA FileGone ==
    ASSUME GrantInv, alone, NEW q, NEW new, NEW photo, Works(q), InStep(new)', deleteStoredPhoto(photo),
           UNCHANGED <<tables, uploads, setup, died, leftover>>,
           \A i \in Ids : photo \in File /\ Refers(i, photo) => new.id = i /\ new.step \in Rewriting,
           q.photo \in stored => q.photo = new.photo \/ q.photo = photo,
           q.step \notin Rewriting, q.step \notin Granting
    PROVE  Works(new)'
<1>1. /\ stored' \subseteq stored /\ stored \ {photo} \subseteq stored' /\ lost \subseteq lost'
      /\ photo \in stored' => photo \in lost'
  BY DEF deleteStoredPhoto, Noted
<1>2. /\ \A i, f : Refers(i, f)' <=> Refers(i, f)
      /\ \A i, S : Dead(i, S)' <=> Dead(i, S)
      /\ \A i, role : Complete(i, role)' <=> Complete(i, role)
  BY DEF Refers, Dead, Complete, tables
<1>3. Rows'
  <2>1. stored' \subseteq 0..uploads'
    BY <1>1 DEF Works, Rows
  <2>2. \A i, j \in Ids : \A f \in File : Refers(i, f)' /\ Refers(j, f)' => i = j
    BY <1>2 DEF Works, Rows
  <2>3. \A i \in Ids : \A f \in File : Refers(i, f)' => f <= uploads'
    BY <1>2 DEF Works, Rows
  <2> QED
    BY <2>1, <2>2, <2>3 DEF Works, Rows, tables
<1>4. Kept(new)'
  <2> SUFFICES ASSUME NEW i \in Ids, NEW f \in File, Refers(i, f)
               PROVE  f \in stored' \/ Dead(i, Rewriting) \/ (new.id = i /\ new.step \in Rewriting)
    BY <1>2 DEF Kept
  <2>1. f \in stored \/ Dead(i, Rewriting)
    BY DEF Works, Kept
  <2> QED
    BY <1>1, <2>1
<1>5. Completing(new)'
  BY <1>2 DEF Works, Completing, tables, setup
<1>6. ASSUME NEW f \in stored' PROVE Accounted(f, new)'
  <2>1. Accounted(f, q)
    BY <1>1 DEF Works
  <2>2. CASE f = photo
    BY <1>1, <2>2 DEF Accounted
  <2>3. CASE f # photo
    BY <1>1, <1>2, <2>1, <2>3 DEF Accounted
  <2> QED
    BY <2>2, <2>3
<1> QED
  BY <1>3, <1>4, <1>5, <1>6 DEF Works

LEMMA PhotosWorks ==
    ASSUME GrantInv, alone, NEW r \in Requests, deletePhotosOf(r), NEW q, q = req[r], Works(q)
    PROVE  \E new : req' = [req EXCEPT ![r] = new] /\ Works(new)'
<1>1. q \in Request /\ q.step = "review.delete" /\ q.id \in Ids /\ q.row \in Verification
  BY DEF deletePhotosOf, GrantInv, TypeOK, HeldGrant, Early, Nobody, Rowed
<1>2. /\ accounts[q.id] # None /\ verifications[q.id] # None /\ q.photo = None
      /\ q.row.photo = verifications[q.id].photo
  BY <1>1 DEF Works, InStep, Nobody, Early, Rowed, Carrying, Deleting
<1>3. PICK row : row = [q.row EXCEPT !.photo = None]
  OBVIOUS
<1>4. row.photo = None
  BY <1>1, <1>3 DEF Verification
<1>5. PICK new : new = [q EXCEPT !.step = "review.save", !.row = row]
  OBVIOUS
<1>6. new.step = "review.save" /\ new.id = q.id /\ new.row = row /\ new.photo = None
  BY <1>1, <1>2, <1>5 DEF Request
<1>7. /\ req' = [req EXCEPT ![r] = new] /\ deleteStoredPhoto(q.row.photo)
      /\ UNCHANGED <<tables, uploads, setup, born, answered, died, leftover>>
  <2>1. [q EXCEPT !.step = "review.save", !.row.photo = None] = new
    BY <1>1, <1>3, <1>5 DEF Request
  <2> QED
    BY <2>1 DEF deletePhotosOf, Holds
<1>8. Disposed(verifications[q.id].photo)'
  BY <1>2, <1>7 DEF deleteStoredPhoto, Noted, Disposed, tables
<1>9. InStep(new)'
  BY <1>2, <1>4, <1>6, <1>7, <1>8
     DEF tables, InStep, Nobody, Early, Rowed, Carrying, Deleting
<1>10. \A i \in Ids : q.row.photo \in File /\ Refers(i, q.row.photo) => i = q.id
  BY <1>1, <1>2 DEF Works, Rows, Refers
<1>11. q.photo \notin stored /\ new.step \in Rewriting /\ q.step \notin Rewriting /\ q.step \notin Granting
  BY <1>1, <1>2, <1>6, OnboardingConstants DEF GrantInv, TypeOK, Rewriting, Granting
<1>12. Works(new)'
  BY <1>6, <1>7, <1>9, <1>10, <1>11, FileGone
<1> QED
  BY <1>7, <1>12

LEMMA MoveWorks ==
    ASSUME GrantInv, alone, NEW r \in Requests, MoveDelete(r), NEW q, q = req[r], Works(q)
    PROVE  \E new : req' = [req EXCEPT ![r] = new] /\ Works(new)'
<1>1. q \in Request /\ q.step = "move.delete" /\ q.id \in Ids /\ q.row \in Verification
  BY DEF MoveDelete, GrantInv, TypeOK, HeldGrant, Early, Nobody, Rowed
<1>2. /\ accounts[q.id] # None /\ verifications[q.id] # None /\ Carries(q)
      /\ q.row = verifications[q.id] /\ verifications[q.id].photo = Public
  BY <1>1 DEF Works, InStep, Nobody, Early, Rowed, Carrying
<1>3. PICK row : row = [q.row EXCEPT !.photo = q.photo]
  OBVIOUS
<1>4. row.photo = q.photo /\ row.status = q.row.status
  BY <1>1, <1>3 DEF Verification
<1>5. PICK new : new = [q EXCEPT !.step = "move.save", !.row = row]
  OBVIOUS
<1>6. new.step = "move.save" /\ new.id = q.id /\ new.row = row /\ new.photo = q.photo
  BY <1>1, <1>5 DEF Request
<1>7. /\ req' = [req EXCEPT ![r] = new] /\ deleteStoredPhoto(Public)
      /\ UNCHANGED <<tables, uploads, setup, born, answered, died, leftover>>
  <2>1. [q EXCEPT !.step = "move.save", !.row.photo = q.photo] = new
    BY <1>1, <1>3, <1>5 DEF Request
  <2> QED
    BY <2>1 DEF MoveDelete, Holds
<1>8. Disposed(Public)' /\ stored \ {Public} \subseteq stored'
  BY <1>7 DEF deleteStoredPhoto, Noted, Disposed
<1>9. Carries(new)'
  BY <1>2, <1>6, <1>7, <1>8 DEF Carries, Refers, tables
<1>10. InStep(new)'
  BY <1>2, <1>4, <1>6, <1>7, <1>8, <1>9
     DEF tables, InStep, Nobody, Early, Rowed, Carrying, Deleting
<1>11. \A i \in Ids : Public \in File /\ Refers(i, Public) => i = q.id
  BY <1>1, <1>2 DEF Works, Rows, Refers
<1>12. new.step \in Rewriting /\ q.step \notin Rewriting /\ q.step \notin Granting
  BY <1>1, <1>6 DEF Rewriting, Granting
<1>13. Works(new)'
  BY <1>6, <1>7, <1>10, <1>11, <1>12, FileGone
<1> QED
  BY <1>7, <1>13

LEMMA FilesWorks ==
    ASSUME GrantInv, alone, NEW r \in Requests, DeleteFiles(r), NEW q, q = req[r], Works(q)
    PROVE  \E new : req' = [req EXCEPT ![r] = new] /\ Works(new)'
<1>1. /\ q.step = "delete.files" /\ deleteStoredPhoto(q.photo) /\ req' = [req EXCEPT ![r] = Idle]
      /\ UNCHANGED <<tables, uploads, setup, born, answered, died, leftover>>
  BY DEF DeleteFiles, Finish
<1>2. \A i \in Ids : q.photo \in File => ~Refers(i, q.photo)
  BY <1>1 DEF Works, InStep
<1>3. q.step \notin Rewriting /\ q.step \notin Granting
  BY <1>1 DEF Rewriting, Granting
<1>4. Works(Idle)'
  BY <1>1, <1>2, <1>3, IdleInStep, FileGone
<1> QED
  BY <1>1, <1>4

LEMMA RowsWorks ==
    ASSUME GrantInv, NEW r \in Requests, deleteRows(r), NEW q, q = req[r], Works(q)
    PROVE  \E new : req' = [req EXCEPT ![r] = new] /\ Works(new)'
<1>1. q \in Request /\ q.step = "delete.rows" /\ q.id \in Ids
  BY DEF deleteRows, GrantInv, TypeOK, HeldGrant, Early, Nobody
<1>2. q.photo = IF verifications[q.id] = None THEN None ELSE verifications[q.id].photo
  BY <1>1 DEF Works, InStep
<1>3. PICK new : new = [q EXCEPT !.step = "delete.files"]
  OBVIOUS
<1>4. new.step = "delete.files" /\ new.id = q.id /\ new.photo = q.photo
  BY <1>1, <1>3 DEF Request
<1>5. /\ req' = [req EXCEPT ![r] = new]
      /\ accounts' = [accounts EXCEPT ![q.id] = None]
      /\ verifications' = [verifications EXCEPT ![q.id] = None]
      /\ profiles' = profiles \ {q.id}
      /\ UNCHANGED <<accepted, files, setup, history>>
      /\ q.step \notin Rewriting /\ q.step \notin Granting
  BY <1>1, <1>3 DEF deleteRows, Goes, Rewriting, Granting, GrantInv, TypeOK
<1>6. /\ accounts'[q.id] = None /\ verifications'[q.id] = None
      /\ \A i \in Ids \ {q.id} : accounts'[i] = accounts[i] /\ verifications'[i] = verifications[i]
  BY <1>1, <1>5 DEF GrantInv, TypeOK
<1>7. /\ \A f : ~Refers(q.id, f)'
      /\ \A i \in Ids \ {q.id} : \A f : Refers(i, f)' <=> Refers(i, f)
      /\ \A i, S : Dead(i, S)' <=> Dead(i, S)
      /\ \A i \in Ids \ {q.id} : \A role : Complete(i, role)' <=> Complete(i, role)
  BY <1>5, <1>6 DEF Refers, Dead, Complete, history
<1>8. ASSUME NEW f \in File, Refers(q.id, f) PROVE q.photo = f
  BY <1>2, <1>8 DEF Refers
<1>9. \A i, j \in Ids : \A f \in File : Refers(i, f) /\ Refers(j, f) => i = j
  BY DEF Works, Rows
<1>10. InStep(new)'
  <2>1. ASSUME NEW i \in Ids, q.photo \in File PROVE ~Refers(i, q.photo)'
    <3>1. Refers(q.id, q.photo)
      BY <1>2, <2>1, OnboardingConstants DEF Refers
    <3> QED
      BY <1>1, <1>7, <1>9, <2>1, <3>1
  <2> QED
    BY <1>4, <2>1 DEF InStep, Nobody, Early, Rowed, Carrying, Deleting
<1>11. Rows'
  <2>1. \A i \in Ids : accounts'[i] = None => verifications'[i] = None /\ i \notin profiles'
    BY <1>5, <1>6 DEF Works, Rows
  <2>2. \A i \in Ids : verifications'[i] # None /\ verifications'[i].photo # None
                         => verifications'[i].status = "pending"
    BY <1>6 DEF Works, Rows
  <2>3. \A i, j \in Ids : \A f \in File : Refers(i, f)' /\ Refers(j, f)' => i = j
    BY <1>7, <1>9
  <2>4. \A i \in Ids : \A f \in File : Refers(i, f)' => f <= uploads'
    BY <1>5, <1>7 DEF Works, Rows, files
  <2>5. stored' \subseteq 0..uploads'
    BY <1>5 DEF Works, Rows, files
  <2> QED
    BY <2>1, <2>2, <2>3, <2>4, <2>5 DEF Rows
<1>12. Kept(new)'
  BY <1>5, <1>7 DEF Works, Kept, files
<1>13. Completing(new)'
  <2> SUFFICES ASSUME NEW i \in Ids \ legacy, accounts'[i] # None, ~Dead(i, Granting),
                      NEW role \in accounts'[i].roles
               PROVE  Complete(i, role)'
    BY <1>5, <1>7 DEF Completing, setup
  <2>1. i # q.id /\ accounts'[i] = accounts[i]
    BY <1>6
  <2>2. Complete(i, role)
    BY <1>5, <2>1 DEF Works, Completing
  <2> QED
    BY <1>7, <2>1, <2>2
<1>14. ASSUME NEW f \in stored PROVE Accounted(f, new)'
  <2>1. Accounted(f, q) /\ f \in File
    BY DEF Works, GrantInv, TypeOK
  <2>2. CASE Refers(q.id, f)
    BY <1>4, <1>8, <2>1, <2>2 DEF Accounted
  <2>3. CASE ~Refers(q.id, f)
    BY <1>4, <1>5, <1>7, <2>1, <2>3 DEF Accounted, history
  <2> QED
    BY <2>2, <2>3
<1> QED
  BY <1>5, <1>10, <1>11, <1>12, <1>13, <1>14 DEF Works, files

LEMMA SetupStays == [Next]_vars => alone' = alone
<1>1. ASSUME NEW r \in Requests, Enrol(r) PROVE alone' = alone
  BY <1>1 DEF Enrol, SignupLookup, SignupSave, addRole, RoleSave, RecordAcceptance, SaveVerification,
     SeedProviderProfile, Answer, setup
<1>2. ASSUME NEW r \in Requests, Verify(r) PROVE alone' = alone
  BY <1>2 DEF Verify, submitVerification, SubmitSave, SubmitConsent, ReviewLoad, deletePhotosOf,
     SaveRow, faceMatch, MoveLoad, MoveDelete, setup
<1>3. ASSUME NEW r \in Requests, Delete(r) \/ Upload(r) \/ Abandon(r) PROVE alone' = alone
  BY <1>3 DEF Delete, collectPhotos, deleteRows, DeleteFiles, Upload, Abandon, setup
<1>4. ASSUME NEW id \in Ids, NEW d \in Documents, accept(id, d) PROVE alone' = alone
  BY <1>4 DEF accept, setup
<1> QED
  BY <1>1, <1>2, <1>3, <1>4 DEF Next, vars, setup

\* A handler that starts finds nothing in flight; one that goes on is the one in flight.
Starts(r) == req[r] = Idle /\ \A k \in Requests : req[k] = Idle

LEMMA ArrivesAlone == ASSUME alone, NEW r, NEW e, Arrives(r, e) PROVE Starts(r)
BY DEF Arrives, Starts

LEMMA EnrolWorks ==
    ASSUME GrantInv, AloneInv, alone, NEW r \in Requests, Enrol(r)
    PROVE  Others(r) /\ \E new : req' = [req EXCEPT ![r] = new] /\ Works(new)'
<1>1. PICK q : q = req[r]
  OBVIOUS
<1>2. ASSUME NEW email \in Emails, NEW role \in Roles, NEW docs \in Ticks,
             SignupLookup(r, email, role, docs)
      PROVE  Others(r) /\ \E new : req' = [req EXCEPT ![r] = new] /\ Works(new)'
  <2>1. Starts(r)
    BY <1>2, ArrivesAlone DEF SignupLookup
  <2>2. Others(r) /\ Works(Idle)
    BY <2>1, Enters DEF Starts
  <2> QED
    BY <1>2, <2>2, LookupWorks
<1>3. ASSUME NEW id \in Ids, NEW role \in Roles, NEW docs \in Ticks, addRole(r, id, role, docs)
      PROVE  Others(r) /\ \E new : req' = [req EXCEPT ![r] = new] /\ Works(new)'
  <2>1. Starts(r)
    BY <1>3, ArrivesAlone DEF addRole
  <2>2. Others(r) /\ Works(Idle)
    BY <2>1, Enters DEF Starts
  <2> QED
    BY <1>3, <2>2, AddRoleWorks
<1>4. CASE \/ \E id \in Ids : SignupSave(r, id)
           \/ \E d \in Documents : RecordAcceptance(r, d)
           \/ RoleSave(r) \/ SaveVerification(r) \/ SeedProviderProfile(r) \/ Answer(r)
  <2>1. q.step \in {"account", "accept", "role.save", "verification", "profile", "answer"}
    BY <1>1, <1>4 DEF SignupSave, RecordAcceptance, RoleSave, SaveVerification, SeedProviderProfile,
       Answer
  <2>2. q # Idle
    BY <2>1, IdleFields
  <2>3. Others(r) /\ Works(q)
    BY <1>1, <2>2, Enters
  <2> QED
    BY <1>1, <1>4, <2>3, SignupWorks, AcceptanceWorks, RoleWorks, VerificationWorks, ProfileWorks,
       AnswerWorks
<1> QED
  BY <1>2, <1>3, <1>4 DEF Enrol

LEMMA VerifyWorks ==
    ASSUME GrantInv, AloneInv, alone, NEW r \in Requests, Verify(r)
    PROVE  Others(r) /\ \E new : req' = [req EXCEPT ![r] = new] /\ Works(new)'
<1>1. PICK q : q = req[r]
  OBVIOUS
<1>2. ASSUME NEW id \in Ids, submitVerification(r, id) \/ faceMatch(r, id) \/ MoveLoad(r, id)
      PROVE  Others(r) /\ \E new : req' = [req EXCEPT ![r] = new] /\ Works(new)'
  <2>1. Starts(r)
    BY <1>2, ArrivesAlone DEF submitVerification, faceMatch, MoveLoad
  <2>2. Others(r) /\ Works(Idle)
    BY <2>1, Enters DEF Starts
  <2> QED
    BY <1>2, <2>2, OpensWorks
<1>3. ASSUME NEW id \in Ids, NEW status \in {"verified", "rejected"}, ReviewLoad(r, id, status)
      PROVE  Others(r) /\ \E new : req' = [req EXCEPT ![r] = new] /\ Works(new)'
  <2>1. Starts(r)
    BY <1>3, ArrivesAlone DEF ReviewLoad
  <2>2. Others(r) /\ Works(Idle)
    BY <2>1, Enters DEF Starts
  <2> QED
    BY <1>3, <2>2, ReviewWorks
<1>4. CASE SubmitSave(r) \/ SubmitConsent(r) \/ deletePhotosOf(r) \/ SaveRow(r) \/ MoveDelete(r)
  <2>1. q.step \in {"submit.save", "submit.consent", "review.delete", "review.save", "match.save",
                    "move.save", "move.delete"}
    BY <1>1, <1>4 DEF SubmitSave, SubmitConsent, deletePhotosOf, SaveRow, MoveDelete
  <2>2. q # Idle
    BY <2>1, IdleFields
  <2>3. Others(r) /\ Works(q)
    BY <1>1, <2>2, Enters
  <2> QED
    BY <1>1, <1>4, <2>3, SubmitWorks, ConsentWorks, PhotosWorks, SaveWorks, MoveWorks
<1> QED
  BY <1>2, <1>3, <1>4 DEF Verify

LEMMA DeleteWorks ==
    ASSUME GrantInv, AloneInv, alone, NEW r \in Requests, Delete(r)
    PROVE  Others(r) /\ \E new : req' = [req EXCEPT ![r] = new] /\ Works(new)'
<1>1. PICK q : q = req[r]
  OBVIOUS
<1>2. ASSUME NEW id \in Ids, collectPhotos(r, id)
      PROVE  Others(r) /\ \E new : req' = [req EXCEPT ![r] = new] /\ Works(new)'
  <2>1. Starts(r)
    BY <1>2, ArrivesAlone DEF collectPhotos
  <2>2. Others(r) /\ Works(Idle)
    BY <2>1, Enters DEF Starts
  <2> QED
    BY <1>2, <2>2, CollectWorks
<1>3. CASE deleteRows(r) \/ DeleteFiles(r)
  <2>1. q.step \in {"delete.rows", "delete.files"}
    BY <1>1, <1>3 DEF deleteRows, DeleteFiles
  <2>2. q # Idle
    BY <2>1, IdleFields
  <2>3. Others(r) /\ Works(q)
    BY <1>1, <2>2, Enters
  <2> QED
    BY <1>1, <1>3, <2>3, RowsWorks, FilesWorks
<1> QED
  BY <1>2, <1>3 DEF Delete

LEMMA UploadOrAbandonWorks ==
    ASSUME GrantInv, AloneInv, alone, NEW r \in Requests, Upload(r) \/ Abandon(r)
    PROVE  Others(r) /\ \E new : req' = [req EXCEPT ![r] = new] /\ Works(new)'
<1>1. PICK q : q = req[r]
  OBVIOUS
<1>2. q # Idle
  <2>1. CASE Upload(r)
    <3>1. q.step \in {"signup.upload", "role.upload", "submit.upload", "move.upload"}
      BY <1>1, <2>1 DEF Upload, AfterUpload
    <3> QED
      BY <3>1, IdleFields
  <2>2. CASE Abandon(r)
    BY <1>1, <2>2 DEF Abandon
  <2> QED
    BY <2>1, <2>2
<1>3. Others(r) /\ Works(q)
  BY <1>1, <1>2, Enters
<1> QED
  BY <1>1, <1>3, UploadWorks, AbandonWorks

\* POST /legal/accept is not a request with awaits: what is in flight stays in flight.
LEMMA AcceptWorks ==
    ASSUME AloneInv, alone, \A i \in Ids : accepted[i] \subseteq accepted'[i],
           UNCHANGED <<accounts, verifications, profiles, files, req, setup, history>>
    PROVE  AloneInv'
<1>1. PICK q \in {Idle} \cup {req[r] : r \in Requests} : Sole(q) /\ Works(q)
  BY DEF AloneInv
<1>2. /\ \A i \in Ids : accepted[i] \subseteq accepted'[i]
      /\ UNCHANGED <<accounts, verifications, profiles, files, req, setup, history>>
  OBVIOUS
<1>3. InStep(q)'
  BY <1>1, <1>2 DEF Works, InStep, Carries, Refers, Disposed, files, history
<1>4. q.photo \in stored => Accounted(q.photo, q)'
  BY DEF Accounted
<1>5. q.step \in Granting =>
         Complete(q.id, q.role)' \/ Dead(q.id, Granting)'
         \/ (q.id = q.id /\ q.role = q.role /\ q.step \in Granting)
  OBVIOUS
<1>6. q.step \in Rewriting => Dead(q.id, Rewriting)' \/ (q.id = q.id /\ q.step \in Rewriting)
  OBVIOUS
<1>7. Works(q)'
  BY <1>1, <1>2, <1>3, <1>4, <1>5, <1>6, Moves DEF files, setup, history
<1>8. Sole(q)' /\ q \in {Idle} \cup {req'[r] : r \in Requests}
  BY <1>1, <1>2 DEF Sole, Others
<1> QED
  BY <1>7, <1>8 DEF AloneInv

LEMMA AloneInit == Init => AloneInv
<1> SUFFICES ASSUME Init PROVE AloneInv
  OBVIOUS
<1>1. Sole(Idle)
  BY DEF Init, Sole
<1>2. Public \in File /\ Public # None /\ 0 \in 0..0
  BY OnboardingConstants DEF Public, File
<1>3. Works(Idle)
  <2>1. CASE \E id \in Ids, email \in Emails : Legacy(id, email)
    <3>1. PICK id \in Ids, email \in Emails : Legacy(id, email)
      BY <2>1
    <3>2. /\ verifications[id] = [status |-> "pending", photo |-> Public]
          /\ \A i \in Ids \ {id} : verifications[i] = None /\ accounts[i] = None
          /\ accounts[id] = [email |-> email, roles |-> {"provider"}]
          /\ profiles = {id} /\ legacy = {id} /\ stored = {Public} /\ uploads = 0
      BY <3>1 DEF Legacy, Init
    <3>3. accounts[id] # None /\ verifications[id] # None
      <4>1. accounts[id] \in Account /\ verifications[id] \in Verification
        BY <1>2, <3>2 DEF Account, Verification, Roles, Photo
      <4> QED
        BY <4>1, OnboardingConstants
    <3>4. \A i, f : Refers(i, f) /\ i \in Ids => i = id /\ f = Public
      BY <3>2 DEF Refers
    <3>5. Rows
      BY <1>2, <3>2, <3>3, <3>4 DEF Rows, Public
    <3>6. Kept(Idle)
      BY <3>2, <3>4 DEF Kept
    <3>7. Completing(Idle)
      BY <3>2 DEF Completing
    <3>8. \A f \in stored : Accounted(f, Idle)
      BY <3>2, <3>3 DEF Accounted, Refers
    <3> QED
      BY <3>5, <3>6, <3>7, <3>8, IdleInStep DEF Works
  <2>2. CASE ~\E id \in Ids, email \in Emails : Legacy(id, email)
    <3>1. /\ \A i \in Ids : accounts[i] = None /\ verifications[i] = None
          /\ profiles = {} /\ stored = {}
      BY <2>2 DEF Init
    <3> QED
      BY <3>1, IdleInStep DEF Works, Rows, Kept, Completing, Refers
  <2> QED
    BY <2>1, <2>2
<1> QED
  BY <1>1, <1>3 DEF AloneInv

LEMMA AloneNext == GrantInv /\ AloneInv /\ [Next]_vars => AloneInv'
<1> SUFFICES ASSUME GrantInv, AloneInv, [Next]_vars PROVE AloneInv'
  OBVIOUS
<1>1. CASE ~alone
  BY <1>1, SetupStays DEF AloneInv
<1>2. CASE alone
  <2>1. ASSUME NEW r \in Requests, Enrol(r) PROVE AloneInv'
    BY <1>2, <2>1, EnrolWorks, Leaves
  <2>2. ASSUME NEW r \in Requests, Verify(r) PROVE AloneInv'
    BY <1>2, <2>2, VerifyWorks, Leaves
  <2>3. ASSUME NEW r \in Requests, Delete(r) PROVE AloneInv'
    BY <1>2, <2>3, DeleteWorks, Leaves
  <2>4. ASSUME NEW r \in Requests, Upload(r) \/ Abandon(r) PROVE AloneInv'
    BY <1>2, <2>4, UploadOrAbandonWorks, Leaves
  <2>5. CASE UNCHANGED vars
    BY <1>2, <2>5, AcceptWorks DEF vars, tables
  <2>6. ASSUME NEW id \in Ids, NEW d \in Documents, accept(id, d) PROVE AloneInv'
    BY <1>2, <2>6, AcceptWorks DEF accept, GrantInv, TypeOK
  <2> QED
    BY <2>1, <2>2, <2>3, <2>4, <2>5, <2>6 DEF Next
<1> QED
  BY <1>1, <1>2

LEMMA AloneAlways == Spec => [](GrantInv /\ AloneInv)
BY GrantInit, GrantNext, AloneInit, AloneNext, PTL DEF Spec

(***************************************************************************)
(* What follows when requests do not overlap.                              *)
(***************************************************************************)

LEMMA InFlight ==
    ASSUME NEW q \in {Idle} \cup {req[r] : r \in Requests}, q # Idle
    PROVE  \E r \in Requests : req[r] = q
OBVIOUS

\* "An account can never exist without the record of what it accepted", nor a business
\* without its verification and its page, once the request that gave the role is over and
\* unless it died; one request at a time.
THEOREM CompleteWhenQuiet == Spec => []CompleteAtRest
<1>1. GrantInv /\ AloneInv => CompleteAtRest
  <2> SUFFICES ASSUME GrantInv, AloneInv, alone, NEW id \in Ids \ legacy, accounts[id] # None,
                      Quiet(id), ~Dead(id, Granting), NEW role \in accounts[id].roles
               PROVE  Complete(id, role)
    BY DEF CompleteAtRest, Complete
  <2>1. PICK q \in {Idle} \cup {req[r] : r \in Requests} : Works(q)
    BY DEF AloneInv
  <2>2. q.id # id
    BY IdleFields, OnboardingConstants DEF Quiet
  <2> QED
    BY <2>1, <2>2 DEF Works, Completing
<1> QED
  BY <1>1, AloneAlways, PTL

\* A row never points at a photo that is gone, except while the review or the move that
\* deleted it has not saved the row, or died there; one request at a time.
THEOREM PhotoKept == Spec => []PhotoKeptWhileNeeded
<1>1. GrantInv /\ AloneInv => PhotoKeptWhileNeeded
  <2> SUFFICES ASSUME AloneInv, alone, NEW id \in Ids, verifications[id] # None,
                      verifications[id].photo \in File, verifications[id].photo \notin stored,
                      ~Dead(id, Rewriting)
               PROVE  \E r \in Requests : req[r].id = id /\ req[r].step \in Rewriting
    BY DEF PhotoKeptWhileNeeded, Rewriting
  <2>1. PICK q \in {Idle} \cup {req[r] : r \in Requests} : Works(q)
    BY DEF AloneInv
  <2>2. Refers(id, verifications[id].photo)
    BY DEF Refers
  <2>3. q.id = id /\ q.step \in Rewriting
    BY <2>1, <2>2 DEF Works, Kept
  <2>4. q # Idle
    BY <2>3, IdleFields DEF Rewriting
  <2> QED
    BY <2>3, <2>4, InFlight
<1> QED
  BY <1>1, AloneAlways, PTL

\* A file in storage belongs to a pending verification or to the request in flight, was lost
\* to a failure, or is a leftover of the two known kinds; one request at a time.
THEOREM PhotosAccounted == Spec => []NoStrayPhotos
<1>1. GrantInv /\ AloneInv => NoStrayPhotos
  <2> SUFFICES ASSUME GrantInv, AloneInv, alone, NEW f \in stored, f \notin lost,
                      ~\E r \in Requests : req[r].photo = f
               PROVE  \E id \in Ids : \/ <<id, f>> \in leftover
                                      \/ verifications[id] # None /\ verifications[id].photo = f
                                         /\ verifications[id].status = "pending"
    BY DEF NoStrayPhotos
  <2>1. PICK q \in {Idle} \cup {req[r] : r \in Requests} : Works(q)
    BY DEF AloneInv
  <2>2. f # None
    BY OnboardingConstants DEF GrantInv, TypeOK
  <2>3. q.photo # f
    BY <2>2, IdleFields
  <2>4. PICK id \in Ids : <<id, f>> \in leftover \/ Refers(id, f)
    BY <2>1, <2>3 DEF Works, Accounted
  <2> QED
    BY <2>1, <2>2, <2>4 DEF Refers, Works, Rows
<1> QED
  BY <1>1, AloneAlways, PTL

\* An account that was deleted leaves no verification and no page; one request at a time.
THEOREM NothingOfTheirsStays == Spec => []GoneForGood
<1>1. GrantInv /\ AloneInv => GoneForGood
  <2> SUFFICES ASSUME GrantInv, AloneInv, alone, NEW id \in born, accounts[id] = None
               PROVE  verifications[id] = None /\ id \notin profiles
    BY DEF GoneForGood
  <2>1. Rows /\ id \in Ids
    BY DEF AloneInv, Works, GrantInv, TypeOK
  <2> QED
    BY <2>1 DEF Rows
<1> QED
  BY <1>1, AloneAlways, PTL

\* What a step does to the row of an account that has its badge.
Badge(id) ==
    verifications[id] # None /\ verifications[id].status = "verified" =>
        \/ verifications'[id] # None /\ verifications'[id].status = "verified"
        \/ \E r \in Requests : req[r].id = id /\ req[r].step \in {"review.save", "delete.rows"}

LEMMA BadgeSaved ==
    ASSUME GrantInv, AloneInv, alone, NEW r \in Requests, NEW id \in Ids,
           SaveVerification(r) \/ SubmitSave(r) \/ SaveRow(r) \/ deleteRows(r)
    PROVE  Badge(id)
<1>1. PICK q : q = req[r]
  OBVIOUS
<1>2. q.step \in {"verification", "submit.save", "review.save", "match.save", "move.save", "delete.rows"}
  BY <1>1 DEF SaveVerification, SubmitSave, SaveRow, deleteRows
<1>3. q \in Request /\ HeldGrant(q) /\ q.id \in Ids
  BY <1>1, <1>2 DEF GrantInv, TypeOK, HeldGrant, Nobody, Early
<1>4. Works(q)
  <2>1. q # Idle
    BY <1>2, IdleFields
  <2> QED
    BY <1>1, <2>1, Enters
<1>5. CASE q.step \in {"review.save", "delete.rows"} /\ q.id = id
  BY <1>1, <1>5 DEF Badge
<1>6. CASE q.id # id
  BY <1>1, <1>3, <1>6 DEF Badge, SaveVerification, SubmitSave, SaveRow, deleteRows, GrantInv, TypeOK
<1>7. CASE SaveVerification(r) /\ q.id = id
  BY <1>1, <1>3, <1>7 DEF Badge, SaveVerification
<1>8. CASE SubmitSave(r) /\ q.id = id
  <2>1. q.step = "submit.save"
    BY <1>1, <1>8 DEF SubmitSave
  <2>2. verifications[id] # None => verifications[id].status # "verified"
    BY <1>4, <1>8, <2>1 DEF Works, InStep
  <2> QED
    BY <2>2 DEF Badge
<1>9. CASE SaveRow(r) /\ q.id = id /\ q.step \in {"match.save", "move.save"}
  <2>1. q.row.status = verifications[id].status
    BY <1>4, <1>9 DEF Works, InStep
  <2>2. verifications'[id] = q.row /\ q.row # None
    BY <1>1, <1>3, <1>9, OnboardingConstants
       DEF SaveRow, GrantInv, TypeOK, HeldGrant, Rowed
  <2> QED
    BY <2>1, <2>2 DEF Badge
<1> QED
  BY <1>1, <1>2, <1>5, <1>6, <1>7, <1>8, <1>9 DEF SaveRow, deleteRows

\* Only a decision or a deletion takes a badge away: submitting again, the face comparison,
\* the move of the photos and a second sign-up do not; one request at a time.
THEOREM BadgesKept == Spec => BadgeKept
<1>1. GrantInv /\ AloneInv /\ [Next]_vars =>
        [alone => \A id \in Ids :
            LET v == verifications[id] IN
            v # None /\ v.status = "verified" =>
                \/ verifications'[id] # None /\ verifications'[id].status = "verified"
                \/ \E r \in Requests : req[r].id = id
                                       /\ req[r].step \in {"review.save", "delete.rows"}]_vars
  <2> SUFFICES ASSUME GrantInv, AloneInv, [Next]_vars, alone, NEW id \in Ids PROVE Badge(id)
    BY DEF Badge
  <2>1. CASE verifications' = verifications
    BY <2>1 DEF Badge
  <2>2. CASE \E r \in Requests : SaveVerification(r) \/ SubmitSave(r) \/ SaveRow(r) \/ deleteRows(r)
    BY <2>2, BadgeSaved
  <2>3. ASSUME NEW r \in Requests, Enrol(r), ~SaveVerification(r) PROVE verifications' = verifications
    BY <2>3 DEF Enrol, SignupLookup, SignupSave, addRole, RoleSave, RecordAcceptance,
       SeedProviderProfile, Answer, tables
  <2>4. ASSUME NEW r \in Requests, Verify(r), ~SubmitSave(r), ~SaveRow(r)
        PROVE  verifications' = verifications
    BY <2>4 DEF Verify, submitVerification, SubmitConsent, ReviewLoad, deletePhotosOf, faceMatch,
       MoveLoad, MoveDelete, tables
  <2>5. ASSUME NEW r \in Requests, Delete(r) \/ Upload(r) \/ Abandon(r), ~deleteRows(r)
        PROVE  verifications' = verifications
    BY <2>5 DEF Delete, collectPhotos, DeleteFiles, Upload, Abandon, tables
  <2>6. ASSUME NEW i \in Ids, NEW d \in Documents, accept(i, d) PROVE verifications' = verifications
    BY <2>6 DEF accept
  <2> QED
    BY <2>1, <2>2, <2>3, <2>4, <2>5, <2>6 DEF Next, vars, tables
<1> QED
  BY <1>1, AloneAlways, PTL DEF Spec, BadgeKept
================================================================================
