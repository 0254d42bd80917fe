------------------------------- MODULE FaceMatch -------------------------------
(***************************************************************************)
(* The comparison of a business's face photo with its ID photo: how the    *)
(* stored photos are read, what is made of the answer of the service, what *)
(* is written on the verification, what the business is told of it, and    *)
(* when an admin may run it again.                                         *)
(*                                                                         *)
(* The world is what the code finds around it: the switch and the keys,    *)
(* the token of the private store, whether the store signs, and whether    *)
(* a photo can be fetched.  Similarities answered are in hundredths of a   *)
(* percent, those stored in tenths.                                        *)
(***************************************************************************)
EXTENDS Integers, FiniteSetsExt, SequencesExt

\* A stored photo: none, inline ("garbled" is inline and not an image), or a file.
StoredPhoto == {"none", "data", "garbled", "public", "private"}

World == [switch : BOOLEAN, keys : BOOLEAN, token : BOOLEAN, signs : BOOLEAN, serves : BOOLEAN]

faceMatchEnabled(world) == world.switch /\ world.keys

--------------------------------------------------------------------------------
(***************************************************************************)
(* private-blob-storage.ts: reading a photo back.                          *)
(***************************************************************************)

\* Something a browser can open, for a photo on file.
signedPhotoUrl(photo, world) == photo = "private" => world.token /\ world.signs

\* Its bytes can be had.
readStoredPhoto(photo, world) ==
    CASE photo = "none"              -> FALSE
      [] photo \in {"data","garbled"} -> photo = "data"
      [] OTHER                       -> signedPhotoUrl(photo, world) /\ world.serves

--------------------------------------------------------------------------------
(***************************************************************************)
(* compare-faces.ts.  The service answers the similarity of each face on   *)
(* the ID that it paired and the number of those it did not, or fails      *)
(* with the name of an error.                                              *)
(***************************************************************************)

Faces(scores, unmatched) == [is |-> "faces", scores |-> scores, unmatched |-> unmatched]
Fails(name)              == [is |-> "error", name |-> name]

NULL == -1
Result(status, similarity) == [status |-> status, similarity |-> similarity]

compareFaces(answer) ==
    IF answer.is = "faces"
    THEN IF answer.scores = <<>> /\ answer.unmatched = 0 THEN Result("no_face_id", NULL)
         ELSE Result("compared", (Max({0} \cup ToSet(answer.scores)) + 5) \div 10)
    ELSE Result(IF answer.name = "InvalidParameter" THEN "no_face_selfie" ELSE "error", NULL)

\* The same service, asked about a generated image.
testFaceMatchConnection(world, answer) ==
    IF ~world.keys THEN "missing_keys"
    ELSE IF answer.is = "faces" THEN "ok"
    ELSE CASE answer.name = "InvalidParameter" -> "ok"
           [] answer.name \in {"UnrecognizedClient", "SignatureDoesNotMatch"} -> "bad_keys"
           [] answer.name = "AccessDenied"     -> "no_permission"
           [] OTHER                            -> "unreachable"

--------------------------------------------------------------------------------
(***************************************************************************)
(* face-match.ts.  A verification is its status, its two photos and the    *)
(* last result, whose status is "none" before there is one.                *)
(***************************************************************************)

applyFaceMatch(verification, world, answer) ==
    IF ~faceMatchEnabled(world) THEN verification
    ELSE [verification EXCEPT !.match =
             IF readStoredPhoto(verification.selfie, world) /\ readStoredPhoto(verification.idDocument, world)
             THEN compareFaces(answer) ELSE Result("error", NULL)]

FACE_MISMATCH_BELOW == 700

photoFeedback(v) ==
    IF v.status # "pending" THEN "nothing"
    ELSE CASE v.match.status = "no_face_selfie"  -> "retake_selfie"
           [] v.match.status = "no_face_id"      -> "retake_id"
           [] v.match.status = "compared" /\ v.match.similarity # NULL
                 /\ v.match.similarity < FACE_MISMATCH_BELOW -> "mismatch"
           [] OTHER                              -> "nothing"

\* Whether a mail went out; one that is refused, or throws, did not.
emailPhotoFeedback(v, delivery) == photoFeedback(v) # "nothing" /\ delivery = "sent"

--------------------------------------------------------------------------------
(***************************************************************************)
(* admin-verifications.controller.ts: what the panel lists, and the guards *)
(* of the endpoint that runs the comparison again.                         *)
(***************************************************************************)

OnFile(v) == v.selfie # "none" /\ v.idDocument # "none"

faceMatchNeedsNewConsent(v, consented, world) == faceMatchEnabled(world) /\ ~consented /\ OnFile(v)
faceMatchAvailable(v, consented, world)       == faceMatchEnabled(world) /\ consented /\ OnFile(v)

\* submitVerification: new photos, the old result cleared, and the comparison run.
Submitted(selfie, idDocument, world, answer) ==
    applyFaceMatch([status |-> "pending", selfie |-> selfie, idDocument |-> idDocument,
                    match |-> Result("none", NULL)], world, answer)

\* update decides: the photos go, and the result stays.
Decided(v, status) == [v EXCEPT !.status = status, !.selfie = "none", !.idDocument = "none"]

--------------------------------------------------------------------------------

\* face-match.ts, compare-faces.ts: "never a decision".  Whatever the storage and the
\* service do, the verification keeps its status and photos; a business is told to send
\* another photo only while it is pending, and only of what the service saw in both photos
\* as they are now: two faces differ exactly when none on the ID reaches 69.95 %, and a
\* photo is blamed only for having no face.  A failure tells nobody anything, nor does the
\* result of photos since replaced, nor any result after the decision.  What the connection
\* test calls "ok" is a service whose answers are results, and the admin is offered the
\* comparison of just those photos that the consent, were it given, would allow.
FaceMatchAdvises(v, world, answer) ==
    LET w    == applyFaceMatch(v, world, answer)
        told == photoFeedback(w)
        seen == readStoredPhoto(v.selfie, world) /\ readStoredPhoto(v.idDocument, world)
        onId == answer.is = "faces" /\ (answer.scores # <<>> \/ answer.unmatched > 0)
    IN  /\ <<w.status, w.selfie, w.idDocument>> = <<v.status, v.selfie, v.idDocument>>
        /\ faceMatchEnabled(world) /\ v.status = "pending" =>
              /\ told = "mismatch" <=> seen /\ onId /\ \A s \in ToSet(answer.scores) : s < 6995
              /\ told = "retake_selfie" <=> seen /\ answer = Fails("InvalidParameter")
              /\ told = "retake_id" <=> seen /\ answer.is = "faces" /\ ~onId
        /\ LET again == Submitted(v.idDocument, v.selfie, world, answer)
           IN  photoFeedback(again) # "nothing" => seen /\ faceMatchEnabled(world)
        /\ \A status \in {"verified", "rejected"}, d \in {"sent", "refused", "throws"} :
              ~emailPhotoFeedback(Decided(w, status), d)
        /\ faceMatchAvailable(v, TRUE, world) =>
              /\ w.match.status # "error" => seen
              /\ seen => (testFaceMatchConnection(world, answer) = "ok" <=> w.match.status # "error")
        /\ faceMatchAvailable(v, TRUE, world) <=> faceMatchNeedsNewConsent(v, FALSE, world)
================================================================================
