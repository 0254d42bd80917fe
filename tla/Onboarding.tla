------------------------------ MODULE Onboarding -------------------------------
(***************************************************************************)
(* From sign-up to deletion: the account, the documents it accepted, its   *)
(* business page, its identity verification, and the photos in storage.    *)
(* AuthService, ProvidersController.submitVerification,                    *)
(* AdminVerificationsController, AccountDeletionService and                *)
(* private-blob-storage.                                                   *)
(*                                                                         *)
(* The tables are keyed by account.  A handler works on the rows it loaded *)
(* and a save makes the row equal to the copy, inserting it again when it  *)
(* was deleted meanwhile.  The two photos of a verification are uploaded,  *)
(* moved and deleted alike and are one here.                               *)
(***************************************************************************)
EXTENDS Naturals, FiniteSets

CONSTANTS
    Ids,         \* account ids
    Emails,      \* addresses
    Ticks,       \* the sets of documents a client sends as accepted
    Requests,    \* requests that can be in flight at once
    Traffic,     \* sets of endpoints that are called together
    Crowds,      \* those among them whose requests overlap
    MaxUploads,  \* bound on the photos put into private storage
    Inline,      \* a photo kept in its row
    None         \* no row, no photo

VARIABLES
    accounts,       \* identity_accounts
    accepted,       \* identity_legal_acceptances, current versions
    verifications,  \* identity_provider_verifications
    profiles,       \* the accounts with a row in providers_profiles
    stored,         \* files in the blob stores
    uploads,        \* files ever put into the private store
    req,            \* what each request in flight holds
    calls,          \* the endpoints that are called
    alone,          \* TRUE in behaviours where requests never overlap
    legacy,         \* accounts from before acceptances and private storage
    born,           \* history: ids given to accounts
    answered,       \* history: <<id, role>> of sign-ups and addRoles that returned
    died,           \* history, when alone: <<id, step>> of requests that died leaving a job half done
    lost,           \* history, when alone: files whose deletion failed or whose holder died
    leftover        \* history, when alone: <<id, file>> nothing refers to although nothing failed

tables  == <<accounts, accepted, verifications, profiles>>
files   == <<stored, uploads>>
setup   == <<calls, alone, legacy>>
history == <<born, answered, died, lost, leftover>>
vars    == <<tables, files, req, setup, history>>

Roles     == {"owner", "provider"}
Documents == {"privacy_notice", "provider_agreement", "owner_terms",
              "identity_verification_consent"}

\* StoredPhotoKind: a file of the old public store, files of the private store, or the
\* image itself.
Public == 0
File   == 0..MaxUploads
Photo  == File \cup {Inline, None}

Account      == [email : Emails, roles : SUBSET Roles]
Verification == [status : {"pending", "verified", "rejected"}, photo : Photo]

\* A sign-up or addRole past the point where its account exists.
Granting == {"accept", "role.upload", "verification", "profile", "answer"}
HalfDone == Granting \cup {"review.save", "move.save"}
Steps == HalfDone \cup
         {"idle", "signup.upload", "account", "role.save", "submit.upload", "submit.save",
          "submit.consent", "review.delete", "match.save", "move.upload",
          "move.delete", "delete.rows", "delete.files"}
Request == [step : Steps, id : Ids \cup {None}, role : Roles \cup {None},
            docs : SUBSET Documents, account : Account \cup {None},
            row : Verification \cup {None}, photo : Photo]
Endpoint == {"signup", "addRole", "submit", "review", "match", "move", "accept", "delete"}

ASSUME OnboardingConstants ==
    /\ Ticks \subseteq SUBSET Documents
    /\ Traffic \subseteq SUBSET Endpoint /\ Crowds \subseteq Traffic
    /\ MaxUploads \in Nat
    /\ Inline \notin File
    /\ None \notin Ids \cup File \cup {Inline}
    /\ None \notin Account \cup Verification

Idle == [step |-> "idle", id |-> None, role |-> None, docs |-> {}, account |-> None,
         row |-> None, photo |-> None]

\* Nobody yet, or one business from before acceptances and private storage existed.
Legacy(id, email) ==
    /\ accounts = [i \in Ids |-> IF i = id THEN [email |-> email, roles |-> {"provider"}]
                                 ELSE None]
    /\ verifications = [i \in Ids |-> IF i = id THEN [status |-> "pending", photo |-> Public]
                                      ELSE None]
    /\ profiles = {id} /\ born = {id} /\ legacy = {id} /\ stored = {Public}

Init ==
    /\ \/ /\ accounts = [i \in Ids |-> None] /\ verifications = [i \in Ids |-> None]
          /\ profiles = {} /\ born = {} /\ legacy = {} /\ stored = {}
       \/ \E id \in Ids, email \in Emails : Legacy(id, email)
    /\ accepted = [i \in Ids |-> {}]
    /\ uploads  = 0
    /\ req      = [r \in Requests |-> Idle]
    /\ calls    \in Traffic
    /\ alone    = (calls \notin Crowds)
    /\ answered = {} /\ died = {} /\ lost = {} /\ leftover = {}

--------------------------------------------------------------------------------
Arrives(r, e) ==
    /\ e \in calls
    /\ req[r] = Idle
    /\ alone => \A q \in Requests : req[q] = Idle

\* What history keeps of S: failures count against requests that do not overlap.
Noted(S) == IF alone THEN S ELSE {}

Finish(r)      == req' = [req EXCEPT ![r] = Idle]
Holds(r, held) == req' = [req EXCEPT ![r] = held]
Goes(r, step)  == req' = [req EXCEPT ![r].step = step]

\* The files a row refers to.
Referenced == {f \in File : \E id \in Ids : verifications[id] # None
                                            /\ verifications[id].photo = f}

\* The instance is killed, an awaited call rejects, or a unique index refuses a save.
Abandon(r) ==
    /\ req[r] # Idle
    /\ died' = died \cup Noted({<<req[r].id, req[r].step>>} \cap (Ids \X HalfDone))
    /\ lost' = lost \cup Noted(({req[r].photo} \cap File) \ Referenced)
    /\ Finish(r)
    /\ UNCHANGED <<tables, files, setup, born, answered, leftover>>

\* documentsRequiredFor.
documentsRequiredFor(role) ==
    {"privacy_notice", IF role = "provider" THEN "provider_agreement" ELSE "owner_terms"}

\* assertAcceptedRequiredDocuments: a provider sends the two photos, and consents to it.
assertAcceptedRequiredDocuments(role, docs) ==
    /\ documentsRequiredFor(role) \subseteq docs
    /\ role = "provider" => "identity_verification_consent" \in docs

\* Where a handler goes once its photo is up.
AfterUpload == [s \in {"signup.upload", "role.upload", "submit.upload", "move.upload"} |->
                  CASE s = "signup.upload" -> "account"
                    [] s = "role.upload"   -> "verification"
                    [] s = "submit.upload" -> "submit.save"
                    [] s = "move.upload"   -> "move.delete"]

\* Mutant: an upload that fails fails the request.
UploadOrFail(r) ==
    LET q == req[r] IN
    /\ q.step \in DOMAIN AfterUpload
    /\ \/ /\ uploads < MaxUploads
          /\ uploads' = uploads + 1 /\ stored' = stored \cup {uploads'}
          /\ Holds(r, [q EXCEPT !.photo = uploads', !.step = AfterUpload[q.step]])
       \/ Finish(r) /\ UNCHANGED files
    /\ UNCHANGED <<tables, setup, history>>

\* uploadPrivateBase64Photo: into the private store, or inline when there is none, it
\* refuses, or it does not answer in time: then the file may still get there.
Upload(r) ==
    LET q == req[r] IN
    /\ q.step \in DOMAIN AfterUpload
    /\ \/ /\ uploads < MaxUploads
          /\ uploads' = uploads + 1 /\ stored' = stored \cup {uploads'}
          /\ \/ Holds(r, [q EXCEPT !.photo = uploads', !.step = AfterUpload[q.step]])
                /\ UNCHANGED lost
             \/ Holds(r, [q EXCEPT !.photo = Inline, !.step = AfterUpload[q.step]])
                /\ lost' = lost \cup Noted({uploads'})
       \/ /\ Holds(r, [q EXCEPT !.photo = Inline, !.step = AfterUpload[q.step]])
          /\ UNCHANGED <<files, lost>>
    /\ UNCHANGED <<tables, setup, born, answered, died, leftover>>

\* deleteStoredPhoto: best effort, and nothing to do for an inline image.
deleteStoredPhoto(photo) ==
    \/ stored' = stored \ {photo} /\ UNCHANGED lost
    \/ photo \in stored /\ lost' = lost \cup Noted({photo}) /\ UNCHANGED stored

--------------------------------------------------------------------------------
(***************************************************************************)
(* Sign-up, and a second role.                                             *)
(***************************************************************************)

SignupLookup(r, email, role, docs) ==
    /\ Arrives(r, "signup")
    /\ assertAcceptedRequiredDocuments(role, docs)
    /\ \A id \in Ids : accounts[id] # None => accounts[id].email # email
    /\ Holds(r, [Idle EXCEPT !.step = IF role = "provider" THEN "signup.upload" ELSE "account",
                             !.role = role, !.docs = docs,
                             !.account = [email |-> email, roles |-> {role}]])
    /\ UNCHANGED <<tables, files, setup, history>>

\* The address is unique: whoever comes second is refused.
SignupSave(r, id) ==
    LET q == req[r] IN
    /\ q.step = "account"
    /\ id \notin born
    /\ \A i \in Ids : accounts[i] # None => accounts[i].email # q.account.email
    /\ accounts' = [accounts EXCEPT ![id] = q.account]
    /\ born' = born \cup {id}
    /\ Holds(r, [q EXCEPT !.step = "accept", !.id = id, !.account = None])
    /\ UNCHANGED <<accepted, verifications, profiles, files, setup, answered, died,
                   lost, leftover>>

addRole(r, id, role, docs) ==
    /\ Arrives(r, "addRole")
    /\ accounts[id] # None
    /\ assertAcceptedRequiredDocuments(role, docs)
    /\ Holds(r, [Idle EXCEPT !.step = "role.save", !.id = id, !.role = role, !.docs = docs,
                             !.account = [accounts[id] EXCEPT !.roles = @ \cup {role}]])
    /\ UNCHANGED <<tables, files, setup, history>>

RoleSave(r) ==
    LET q == req[r] IN
    /\ q.step = "role.save"
    /\ \A i \in Ids \ {q.id} : accounts[i] # None => accounts[i].email # q.account.email
    /\ accounts' = [accounts EXCEPT ![q.id] = q.account]
    /\ Holds(r, [q EXCEPT !.step = "accept", !.account = None])
    /\ UNCHANGED <<accepted, verifications, profiles, files, setup, history>>

\* Mutant: an acceptance that cannot be written does not stop the rest.
AcceptanceBestEffort(r, d) ==
    LET q    == req[r]
        left == q.docs \ {d}
    IN
    /\ q.step = "accept" /\ d \in q.docs
    /\ \/ accepted' = [accepted EXCEPT ![q.id] = @ \cup {d}]
       \/ UNCHANGED accepted
    /\ Holds(r, [q EXCEPT !.docs = left,
                          !.step = IF left # {} THEN "accept"
                                   ELSE IF q.role = "owner" THEN "answer"
                                   ELSE IF q.photo = None THEN "role.upload"
                                   ELSE "verification"])
    /\ UNCHANGED <<accounts, verifications, profiles, files, setup, history>>

\* recordAcceptances: one by one, skipping those on file.  A provider that signs up
\* has its photo already; one that adds the role uploads it now.
RecordAcceptance(r, d) ==
    LET q    == req[r]
        left == q.docs \ {d}
    IN
    /\ q.step = "accept" /\ d \in q.docs
    /\ accepted' = [accepted EXCEPT ![q.id] = @ \cup {d}]
    /\ Holds(r, [q EXCEPT !.docs = left,
                          !.step = IF left # {} THEN "accept"
                                   ELSE IF q.role = "owner" THEN "answer"
                                   ELSE IF q.photo = None THEN "role.upload"
                                   ELSE "verification"])
    /\ UNCHANGED <<accounts, verifications, profiles, files, setup, history>>

\* saveVerification: what is on file is not overwritten, and the new photo stays behind.
SaveVerification(r) ==
    LET q == req[r] IN
    /\ q.step = "verification"
    /\ \/ /\ verifications[q.id] = None
          /\ verifications' = [verifications EXCEPT ![q.id] =
                                 [status |-> "pending", photo |-> q.photo]]
          /\ UNCHANGED leftover
       \/ /\ verifications[q.id] # None
          /\ leftover' = leftover \cup Noted({q.id} \X ({q.photo} \cap File))
          /\ UNCHANGED verifications
    /\ Holds(r, [q EXCEPT !.step = "profile", !.photo = None])
    /\ UNCHANGED <<accounts, accepted, profiles, files, setup, born, answered, died, lost>>

\* seedProviderProfile always inserts: account_id is unique, so for a business that
\* has its page the request fails here.  So does one whose business name update refuses,
\* or whose picture is not stored: to the request that is a death here (Abandon).
SeedProviderProfile(r) ==
    LET q == req[r] IN
    /\ q.step = "profile"
    /\ \/ /\ q.id \notin profiles
          /\ profiles' = profiles \cup {q.id}
          /\ Goes(r, "answer")
       \/ /\ q.id \in profiles
          /\ Finish(r)
          /\ UNCHANGED profiles
    /\ UNCHANGED <<accounts, accepted, verifications, files, setup, history>>

Answer(r) ==
    LET q == req[r] IN
    /\ q.step = "answer"
    /\ answered' = answered \cup {<<q.id, q.role>>}
    /\ Finish(r)
    /\ UNCHANGED <<tables, files, setup, born, died, lost, leftover>>

\* POST /legal/accept: a single document at any later time.
accept(id, d) ==
    /\ "accept" \in calls
    /\ accounts[id] # None /\ d \notin accepted[id]
    /\ accepted' = [accepted EXCEPT ![id] = @ \cup {d}]
    /\ UNCHANGED <<accounts, verifications, profiles, files, req, setup, history>>

--------------------------------------------------------------------------------
(***************************************************************************)
(* Identity verification.                                                  *)
(***************************************************************************)

\* Mutant: a verified business may submit again.
SubmitAnyway(r, id) ==
    /\ Arrives(r, "submit")
    /\ accounts[id] # None /\ "provider" \in accounts[id].roles
    /\ Holds(r, [Idle EXCEPT !.step = "submit.upload", !.id = id, !.row = verifications[id]])
    /\ UNCHANGED <<tables, files, setup, history>>

submitVerification(r, id) ==
    /\ Arrives(r, "submit")
    /\ accounts[id] # None /\ "provider" \in accounts[id].roles
    /\ verifications[id] # None => verifications[id].status # "verified"
    /\ Holds(r, [Idle EXCEPT !.step = "submit.upload", !.id = id, !.row = verifications[id]])
    /\ UNCHANGED <<tables, files, setup, history>>

\* A row that was not there is inserted, and refused if there is one by now.  The photo
\* that was on file is replaced and nobody deletes it.
SubmitSave(r) ==
    LET q   == req[r]
        old == IF q.row = None THEN {} ELSE {q.row.photo} \cap File
    IN
    /\ q.step = "submit.save"
    /\ q.row = None => verifications[q.id] = None
    /\ verifications' = [verifications EXCEPT ![q.id] =
                           [status |-> "pending", photo |-> q.photo]]
    /\ leftover' = leftover \cup Noted({q.id} \X old)
    /\ Holds(r, [q EXCEPT !.step = "submit.consent", !.photo = None])
    /\ UNCHANGED <<accounts, accepted, profiles, files, setup, born, answered, died, lost>>

SubmitConsent(r) ==
    LET q == req[r] IN
    /\ q.step = "submit.consent"
    /\ accepted' = [accepted EXCEPT ![q.id] = @ \cup {"identity_verification_consent"}]
    /\ Finish(r)
    /\ UNCHANGED <<accounts, verifications, profiles, files, setup, history>>

\* update: the decision is taken on the copy ...
ReviewLoad(r, id, status) ==
    /\ Arrives(r, "review")
    /\ verifications[id] # None
    /\ Holds(r, [Idle EXCEPT !.step = "review.delete", !.id = id,
                             !.row = [verifications[id] EXCEPT !.status = status]])
    /\ UNCHANGED <<tables, files, setup, history>>

\* Mutant: the column is cleared and the photos stay.
ClearPhotosOf(r) ==
    LET q == req[r] IN
    /\ q.step = "review.delete"
    /\ Holds(r, [q EXCEPT !.step = "review.save", !.row.photo = None])
    /\ UNCHANGED <<tables, files, setup, history>>

\* ... deletePhotosOf destroys the photos first ...
deletePhotosOf(r) ==
    LET q == req[r] IN
    /\ q.step = "review.delete"
    /\ deleteStoredPhoto(q.row.photo)
    /\ Holds(r, [q EXCEPT !.step = "review.save", !.row.photo = None])
    /\ UNCHANGED <<tables, uploads, setup, born, answered, died, leftover>>

\* ... and the row is saved.  faceMatch and secureLegacyPhotos end in the same way.
SaveRow(r) ==
    LET q == req[r] IN
    /\ q.step \in {"review.save", "match.save", "move.save"}
    /\ verifications' = [verifications EXCEPT ![q.id] = q.row]
    /\ Finish(r)
    /\ UNCHANGED <<accounts, accepted, profiles, files, setup, history>>

\* Photos on file, and sent under the consent in force.
faceMatch(r, id) ==
    /\ Arrives(r, "match")
    /\ verifications[id] # None /\ verifications[id].photo # None
    /\ "identity_verification_consent" \in accepted[id]
    /\ Holds(r, [Idle EXCEPT !.step = "match.save", !.id = id, !.row = verifications[id]])
    /\ UNCHANGED <<tables, files, setup, history>>

\* secureLegacyPhotos, for one of the rows it loaded.
MoveLoad(r, id) ==
    /\ Arrives(r, "move")
    /\ verifications[id] # None /\ verifications[id].photo = Public
    /\ Public \in stored
    /\ Holds(r, [Idle EXCEPT !.step = "move.upload", !.id = id, !.row = verifications[id]])
    /\ UNCHANGED <<tables, files, setup, history>>

\* moveToPrivateStorage deletes the public original once a private one is stored.
MoveDelete(r) ==
    LET q == req[r] IN
    /\ q.step = "move.delete"
    /\ deleteStoredPhoto(Public)
    /\ Holds(r, [q EXCEPT !.step = "move.save", !.row.photo = q.photo])
    /\ UNCHANGED <<tables, uploads, setup, born, answered, died, leftover>>

--------------------------------------------------------------------------------
(***************************************************************************)
(* AccountDeletionService.                                                 *)
(***************************************************************************)

\* collectPhotos: what the rows refer to now.
collectPhotos(r, id) ==
    /\ Arrives(r, "delete")
    /\ accounts[id] # None
    /\ Holds(r, [Idle EXCEPT !.step = "delete.rows", !.id = id,
                   !.photo = IF verifications[id] = None THEN None ELSE verifications[id].photo])
    /\ UNCHANGED <<tables, files, setup, history>>

\* Mutant: the files go before the rows.
DeleteFilesFirst(r) ==
    LET q == req[r] IN
    /\ q.step = "delete.rows"
    /\ stored' = stored \ {q.photo}
    /\ \/ /\ accounts' = [accounts EXCEPT ![q.id] = None]
          /\ verifications' = [verifications EXCEPT ![q.id] = None]
          /\ profiles' = profiles \ {q.id}
          /\ Goes(r, "delete.files")
       \/ Finish(r) /\ UNCHANGED <<accounts, verifications, profiles>>
    /\ UNCHANGED <<accepted, uploads, setup, history>>

\* Mutant: the verification is forgotten.
DeleteAccountOnly(r) ==
    LET q == req[r] IN
    /\ q.step = "delete.rows"
    /\ accounts' = [accounts EXCEPT ![q.id] = None]
    /\ profiles' = profiles \ {q.id}
    /\ Goes(r, "delete.files")
    /\ UNCHANGED <<accepted, verifications, files, setup, history>>

\* One transaction; what was accepted is kept as evidence.
deleteRows(r) ==
    LET q == req[r] IN
    /\ q.step = "delete.rows"
    /\ accounts' = [accounts EXCEPT ![q.id] = None]
    /\ verifications' = [verifications EXCEPT ![q.id] = None]
    /\ profiles' = profiles \ {q.id}
    /\ Goes(r, "delete.files")
    /\ UNCHANGED <<accepted, files, setup, history>>

\* After the commit, never before.
DeleteFiles(r) ==
    LET q == req[r] IN
    /\ q.step = "delete.files"
    /\ deleteStoredPhoto(q.photo)
    /\ Finish(r)
    /\ UNCHANGED <<tables, uploads, setup, born, answered, died, leftover>>

--------------------------------------------------------------------------------
Enrol(r) ==
    \/ \E email \in Emails, role \in Roles, docs \in Ticks : SignupLookup(r, email, role, docs)
    \/ \E id \in Ids, role \in Roles, docs \in Ticks : addRole(r, id, role, docs)
    \/ \E id \in Ids : SignupSave(r, id)
    \/ \E d \in Documents : RecordAcceptance(r, d)
    \/ RoleSave(r) \/ SaveVerification(r) \/ SeedProviderProfile(r) \/ Answer(r)

Verify(r) ==
    \/ \E id \in Ids : submitVerification(r, id) \/ faceMatch(r, id) \/ MoveLoad(r, id)
    \/ \E id \in Ids, status \in {"verified", "rejected"} : ReviewLoad(r, id, status)
    \/ SubmitSave(r) \/ SubmitConsent(r) \/ deletePhotosOf(r) \/ SaveRow(r) \/ MoveDelete(r)

Delete(r) == (\E id \in Ids : collectPhotos(r, id)) \/ deleteRows(r) \/ DeleteFiles(r)

Next ==
    \/ \E r \in Requests : Enrol(r) \/ Verify(r) \/ Delete(r) \/ Upload(r) \/ Abandon(r)
    \/ \E id \in Ids, d \in Documents : accept(id, d)

Spec == Init /\ [][Next]_vars

--------------------------------------------------------------------------------
(***************************************************************************)
(* Properties.                                                             *)
(***************************************************************************)

TypeOK ==
    /\ accounts \in [Ids -> Account \cup {None}]
    /\ accepted \in [Ids -> SUBSET Documents]
    /\ verifications \in [Ids -> Verification \cup {None}]
    /\ profiles \subseteq Ids /\ born \subseteq Ids
    /\ stored \subseteq File /\ uploads \in 0..MaxUploads
    /\ req \in [Requests -> Request]
    /\ calls \in Traffic /\ alone \in BOOLEAN /\ legacy \subseteq born
    /\ answered \subseteq Ids \X Roles
    /\ died \subseteq Ids \X HalfDone
    /\ lost \subseteq File /\ leftover \subseteq Ids \X File

Quiet(id) == \A r \in Requests : req[r].id # id
Dead(id, steps) == \E s \in steps : <<id, s>> \in died

\* auth.service.ts: "an account can never exist without the record of what it accepted".
\* However requests overlap and die, a role whose request was answered has its documents
\* on file and, for a business that is not being deleted, its verification and its page.
AnsweredIsComplete ==
    \A given \in answered :
        LET id == given[1]  role == given[2] IN
        /\ assertAcceptedRequiredDocuments(role, accepted[id])
        /\ role = "provider" /\ "delete" \notin calls
             => verifications[id] # None /\ id \in profiles

\* auth.service.ts: photos go up before the account exists so that nobody can "log in
\* but [have] no verification and no business page".  Only a request that dies after
\* its account was written leaves such an account.
CompleteAtRest ==
    alone => \A id \in Ids \ legacy :
        accounts[id] # None /\ Quiet(id) /\ ~Dead(id, Granting) =>
            \A role \in accounts[id].roles :
                /\ documentsRequiredFor(role) \subseteq accepted[id]
                /\ role = "provider" => verifications[id] # None /\ id \in profiles

\* account-deletion.service.ts: "deleting an image and then failing to delete its row
\* would leave a row pointing at nothing".  A row points at a photo that is there,
\* except while a review or a move that has deleted it has not saved the row.
PhotoKeptWhileNeeded ==
    alone => \A id \in Ids :
        LET v == verifications[id] IN
        v # None /\ v.photo \in File =>
            \/ v.photo \in stored
            \/ Dead(id, {"review.save", "move.save"})
            \/ \E r \in Requests : req[r].id = id /\ req[r].step \in {"review.save", "move.save"}

\* provider-verification.entity.ts: the photos are "destroyed once an admin decides".  A
\* file in storage belongs to a pending verification, to a request that is not done
\* with it, was lost to a failure, or is one of the two kinds of leftover.
NoStrayPhotos ==
    alone => \A f \in stored :
        \/ f \in lost
        \/ \E id \in Ids : \/ <<id, f>> \in leftover
                           \/ verifications[id] # None /\ verifications[id].photo = f
                              /\ verifications[id].status = "pending"
        \/ \E r \in Requests : req[r].photo = f

\* account-deletion.service.ts: "everything that belongs to that person alone is gone".
GoneForGood ==
    alone => \A id \in born : accounts[id] = None =>
        verifications[id] = None /\ id \notin profiles

\* providers.controller.ts: resubmitting "would drop a badge the business already earned".
\* Only a decision or a deletion takes the badge away, one request at a time.
BadgeKept ==
    [][alone => \A id \in Ids :
          LET v == verifications[id] IN
          v # None /\ v.status = "verified" =>
              \/ verifications'[id] # None /\ verifications'[id].status = "verified"
              \/ \E r \in Requests : req[r].id = id
                                     /\ req[r].step \in {"review.save", "delete.rows"}]_vars
================================================================================
