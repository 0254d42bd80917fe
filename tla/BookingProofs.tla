----------------------------- MODULE BookingProofs -----------------------------
(***************************************************************************)
(* Theorems about Booking, for any number of bookings, keys, slots and     *)
(* requests in flight.                                                     *)
(***************************************************************************)
EXTENDS Booking, Integers, TLAPS

(***************************************************************************)
(* Type correctness.                                                       *)
(***************************************************************************)

\* The copies the endpoints make of a row are rows: only declared columns
\* change, to values of their type.
LEMMA CopiesAreRows ==
    ASSUME NEW e \in Row, NEW t \in Nat, NEW w \in Sides
    PROVE  /\ \A s \in Statuses : [e EXCEPT !.status = s] \in Row
           /\ [e EXCEPT !.status = InProgress, !.startedAt = TRUE] \in Row
           /\ [e EXCEPT !.status = Completed, !.completedAt = TRUE] \in Row
           /\ [e EXCEPT !.lastMessageAt = t] \in Row
           /\ markReadFor(e, w, t) \in Row
BY DEF Row, Statuses, InProgress, Completed, markReadFor

LEMMA RequestIsRow ==
    ASSUME NEW k \in Keys, NEW s \in Slots
    PROVE  request(k, s) \in Row
BY DEF request, Row, Statuses, Requested

LEMMA IdleIsRequest == Idle \in Request
BY DEF Idle, Request, Steps, Sides

\* Rows are never deleted by the booking context.
RowsKept == \A b \in Bookings : rows[b] # NoRow => rows'[b] # NoRow

\* A request that goes on, holding what its next step needs.
LEMMA GotoHeld ==
    ASSUME TypeOK, Held, RowsKept, NEW r \in Requests, NEW s \in Steps,
           NEW b \in Bookings \cup {NoBooking}, NEW e \in Row \cup {NoRow},
           NEW w \in Sides, Goto(r, s, b, e, w),
           s # "idle",
           s \in Drafting => e \in Row /\ b = NoBooking,
           s \in Answering => e = NoRow /\ b \in Bookings /\ rows'[b] # NoRow,
           s \in Copying => e \in Row /\ b \in Bookings /\ rows'[b] # NoRow
    PROVE  req' \in [Requests -> Request] /\ Held'
<1> DEFINE new == [step |-> s, booking |-> b, row |-> e, side |-> w]
<1>1. new \in Request /\ req' = [req EXCEPT ![r] = new]
  BY DEF Request, Goto
<1>2. req' \in [Requests -> Request]
  BY <1>1 DEF TypeOK
<1>3. HeldRow(new)'
  BY DEF HeldRow, Exists
<1>4. \A q \in Requests : q # r => HeldRow(req[q])' /\ req'[q] = req[q]
  BY <1>1 DEF TypeOK, Held, HeldRow, Exists, RowsKept
<1>5. req'[r] = new
  BY <1>1 DEF TypeOK
<1> HIDE DEF new
<1>6. Held'
  <2> SUFFICES ASSUME NEW q \in Requests PROVE HeldRow(req[q])'
    BY DEF Held
  <2>1. CASE q = r
    BY <2>1, <1>3, <1>5 DEF HeldRow, Exists
  <2>2. CASE q # r
    BY <2>2, <1>4 DEF HeldRow, Exists
  <2> QED
    BY <2>1, <2>2
<1> QED
  BY <1>2, <1>6

LEMMA FinishHeld ==
    ASSUME TypeOK, Held, RowsKept, NEW r \in Requests, Finish(r)
    PROVE  req' \in [Requests -> Request] /\ Held'
<1>1. req' \in [Requests -> Request]
  BY IdleIsRequest DEF TypeOK, Finish
<1>2. HeldRow(Idle)'
  BY DEF HeldRow, Idle, Drafting, Answering, Copying
<1>3. ASSUME NEW q \in Requests PROVE HeldRow(req[q])'
  <2>1. CASE q = r
    BY <2>1, <1>2 DEF TypeOK, Finish
  <2>2. CASE q # r
    BY <2>2 DEF TypeOK, Held, HeldRow, Exists, RowsKept, Finish
  <2> QED
    BY <2>1, <2>2
<1> QED
  BY <1>1, <1>3 DEF Held

\* A save writes a row where there was one, or inserts one.
LEMMA SaveType ==
    ASSUME TypeOK, NEW b \in Bookings, NEW e \in Row, SaveBooking(b, e)
    PROVE  /\ rows' = [rows EXCEPT ![b] = e]
           /\ rows' \in [Bookings -> Row \cup {NoRow}]
           /\ past' \in [Bookings -> SUBSET Statuses]
           /\ RowsKept /\ rows'[b] # NoRow
<1>1. e.status \in Statuses
  BY DEF Row
<1>2. rows' = [rows EXCEPT ![b] = e] /\ past' = [past EXCEPT ![b] = @ \cup {e.status}]
  BY DEF SaveBooking
<1> QED
  BY <1>1, <1>2, ConstantsAssumption DEF TypeOK, RowsKept

LEMMA EnqueueType ==
    ASSUME TypeOK, NEW b \in Bookings, NEW x \in SUBSET Events, enqueue(b, x)
    PROVE  outbox' \in [Bookings -> SUBSET Events]
BY DEF TypeOK, enqueue

TypeInv == TypeOK /\ Held

\* What a request holds, by the step it is at.
LEMMA HeldCopy ==
    ASSUME TypeInv, NEW r \in Requests, req[r].step \in Copying
    PROVE  req[r].row \in Row /\ req[r].booking \in Bookings /\ rows[req[r].booking] # NoRow
BY DEF TypeInv, Held, HeldRow, Exists

LEMMA HeldDraft ==
    ASSUME TypeInv, NEW r \in Requests, req[r].step \in Drafting
    PROVE  req[r].row \in Row
BY DEF TypeInv, Held, HeldRow

LEMMA HeldAnswer ==
    ASSUME TypeInv, NEW r \in Requests, req[r].step \in Answering
    PROVE  req[r].booking \in Bookings /\ rows[req[r].booking] \in Row
BY DEF TypeInv, Held, HeldRow, Exists, TypeOK

\* Every column keeps its type, and a request always holds what the step it is
\* at works on: a full copy of an existing row, a row to insert, or an id.
THEOREM TypeCorrect == Spec => []TypeInv
<1> USE DEF TypeInv
<1>1. Init => TypeInv
  BY IdleIsRequest DEF Init, TypeOK, Held, HeldRow, Idle, Steps, Copying, Drafting,
     Answering
<1>2. TypeInv /\ [Next]_vars => TypeInv'
  <2> SUFFICES ASSUME TypeInv, [Next]_vars PROVE TypeInv'
    OBVIOUS
  <2> USE DEF Steps, Copying, Drafting, Answering, Sides, tables, gateway, clients
  <2>1. ASSUME NEW r \in Requests, NEW k \in Keys, NEW s \in Slots, CreateArrives(r, k, s)
        PROVE  TypeInv'
    <3>1. RowsKept /\ UNCHANGED <<tables, gateway, seen, clock>>
      BY <2>1 DEF CreateArrives, RowsKept
    <3>2. CASE UNCHANGED req
      <4>1. replies' \subseteq Keys \X Bookings
        BY <2>1, <3>2 DEF CreateArrives, TypeOK
      <4> QED
        BY <3>1, <3>2, <4>1 DEF TypeOK, Held, HeldRow, Exists
    <3>3. CASE Goto(r, "create.lookup", NoBooking, request(k, s), "owner") /\ UNCHANGED replies
      <4>1. req' \in [Requests -> Request] /\ Held'
        BY <3>1, <3>3, RequestIsRow, GotoHeld
      <4> QED
        BY <3>1, <3>3, <4>1 DEF TypeOK
    <3> QED
      BY <2>1, <3>2, <3>3 DEF CreateArrives
  <2>2. ASSUME NEW r \in Requests, CreateLookup(r)
        PROVE  TypeInv'
    BY <2>2, GotoHeld, HeldDraft DEF CreateLookup, TypeOK, RowsKept, WithKey
  <2>3. ASSUME NEW r \in Requests, CreateCheck(r)
        PROVE  TypeInv'
    BY <2>3, GotoHeld, FinishHeld, HeldDraft DEF CreateCheck, TypeOK, RowsKept
  <2>4. ASSUME NEW r \in Requests, CreateInsert(r)
        PROVE  TypeInv'
    BY <2>4, GotoHeld, FinishHeld, HeldDraft, SaveType, EnqueueType DEF CreateInsert,
       TypeOK, RowsKept, Events
  <2>5. ASSUME NEW r \in Requests, CreateReply(r)
        PROVE  TypeInv'
    <3>1. req[r].booking \in Bookings /\ rows[req[r].booking].key \in Keys
      BY <2>5, HeldAnswer DEF CreateReply, Row
    <3>2. replies' \subseteq Keys \X Bookings
      BY <2>5, <3>1 DEF CreateReply, TypeOK
    <3>3. RowsKept /\ rows'[req[r].booking] # NoRow
      BY <2>5 DEF CreateReply, RowsKept, Held, HeldRow, Exists
    <3>4. req' \in [Requests -> Request] /\ Held'
      BY <2>5, <3>1, <3>3, GotoHeld DEF CreateReply
    <3> QED
      BY <2>5, <3>2, <3>4 DEF CreateReply, TypeOK
  <2>6. ASSUME NEW r \in Requests, CreateRemember(r)
        PROVE  TypeInv'
    BY <2>6, FinishHeld, HeldAnswer DEF CreateRemember, TypeOK, RowsKept, Row
  <2>7. ASSUME NEW r \in Requests, NEW b \in Bookings, AcceptLoad(r, b)
        PROVE  TypeInv'
    BY <2>7, GotoHeld DEF AcceptLoad, TypeOK, RowsKept, Arrives
  <2>8. ASSUME NEW r \in Requests, AcceptAuthorize(r)
        PROVE  TypeInv'
    BY <2>8, GotoHeld, FinishHeld, HeldCopy, CopiesAreRows DEF AcceptAuthorize, TypeOK,
       RowsKept, Statuses
  <2>9. ASSUME NEW r \in Requests, AcceptDecline(r)
        PROVE  TypeInv'
    BY <2>9, FinishHeld, HeldCopy, EnqueueType DEF AcceptDecline, TypeOK, RowsKept,
       Events
  <2>10. ASSUME NEW r \in Requests, AcceptSave(r)
        PROVE  TypeInv'
    BY <2>10, FinishHeld, HeldCopy, SaveType, EnqueueType DEF AcceptSave, TypeOK,
       RowsKept, Events
  <2>11. ASSUME NEW r \in Requests, NEW b \in Bookings, CancelLoad(r, b)
        PROVE  TypeInv'
    BY <2>11, GotoHeld, CopiesAreRows DEF CancelLoad, TypeOK, RowsKept, Arrives,
       Statuses
  <2>12. ASSUME NEW r \in Requests, CancelSave(r)
        PROVE  TypeInv'
    BY <2>12, FinishHeld, HeldCopy, SaveType, EnqueueType DEF CancelSave, TypeOK,
       RowsKept, Events
  <2>13. ASSUME NEW r \in Requests, NEW b \in Bookings, StartLoad(r, b)
        PROVE  TypeInv'
    BY <2>13, GotoHeld, CopiesAreRows DEF StartLoad, TypeOK, RowsKept, Arrives
  <2>14. ASSUME NEW r \in Requests, NEW b \in Bookings, CompleteLoad(r, b)
        PROVE  TypeInv'
    BY <2>14, GotoHeld, CopiesAreRows DEF CompleteLoad, TypeOK, RowsKept, Arrives
  <2>15. ASSUME NEW r \in Requests, CompleteCapture(r)
        PROVE  TypeInv'
    BY <2>15, GotoHeld, HeldCopy DEF CompleteCapture, TypeOK, RowsKept
  <2>16. ASSUME NEW r \in Requests, CompleteSave(r)
        PROVE  TypeInv'
    BY <2>16, FinishHeld, HeldCopy, SaveType, EnqueueType DEF CompleteSave, TypeOK,
       RowsKept, Events
  <2>17. ASSUME NEW r \in Requests, NEW b \in Bookings, NEW w \in Sides, SendLoad(r, b, w)
        PROVE  TypeInv'
    <3>1. clock' \in Nat /\ rows[b] \in Row /\ RowsKept /\ rows'[b] # NoRow
      BY <2>17 DEF SendLoad, Arrives, TypeOK, RowsKept
    <3> DEFINE e == [rows[b] EXCEPT !.lastMessageAt = clock']
    <3>2. e \in Row
      BY <3>1, CopiesAreRows
    <3>3. markReadFor(e, w, clock') \in Row
      BY <3>1, <3>2 DEF markReadFor, Row
    <3>4. req' \in [Requests -> Request] /\ Held'
      BY <2>17, <3>1, <3>3, GotoHeld DEF SendLoad
    <3> QED
      BY <2>17, <3>1, <3>4 DEF SendLoad, TypeOK
  <2>18. ASSUME NEW r \in Requests, SendMessage(r)
        PROVE  TypeInv'
    <3> DEFINE q == req[r]
    <3>1. q \in Request /\ q.row \in Row /\ q.booking \in Bookings /\ rows[q.booking] # NoRow
      BY <2>18, HeldCopy DEF SendMessage, TypeOK
    <3>2. [booking |-> q.booking, sender |-> q.side, sentAt |-> q.row.lastMessageAt] \in Message
      BY <3>1 DEF Message, Row, Request
    <3>3. messages' \subseteq Message
      BY <2>18, <3>2 DEF SendMessage, TypeOK
    <3>4. req' \in [Requests -> Request] /\ Held'
      BY <2>18, <3>1, GotoHeld DEF SendMessage, RowsKept, Request
    <3> QED
      BY <2>18, <3>3, <3>4 DEF SendMessage, TypeOK
  <2>19. ASSUME NEW r \in Requests, NEW b \in Bookings, NEW w \in Sides, ListLoad(r, b, w)
        PROVE  TypeInv'
    BY <2>19, GotoHeld DEF ListLoad, TypeOK, RowsKept, Arrives
  <2>20. ASSUME NEW r \in Requests, ListFind(r)
        PROVE  TypeInv'
    <3> DEFINE q == req[r]
    <3>1. q \in Request /\ q.row \in Row /\ q.booking \in Bookings /\ rows[q.booking] # NoRow
      BY <2>20, HeldCopy DEF ListFind, TypeOK
    <3>2. q.side \in Sides /\ markReadFor(q.row, q.side, clock) \in Row
      BY <3>1, CopiesAreRows DEF Request, TypeOK
    <3>3. seen' \in [Sides -> SUBSET Message]
      BY <2>20, <3>2 DEF ListFind, TypeOK
    <3>4. req' \in [Requests -> Request] /\ Held'
      BY <2>20, <3>1, <3>2, GotoHeld DEF ListFind, RowsKept
    <3> QED
      BY <2>20, <3>3, <3>4 DEF ListFind, TypeOK
  <2>21. ASSUME NEW r \in Requests, Save(r)
        PROVE  TypeInv'
    BY <2>21, FinishHeld, HeldCopy, SaveType DEF Save, TypeOK, RowsKept
  <2>22. ASSUME NEW r \in Requests, Abandon(r)
        PROVE  TypeInv'
    BY <2>22, FinishHeld DEF Abandon, TypeOK, RowsKept
  <2>23. ASSUME NEW k \in Keys, Expire(k)
        PROVE  TypeInv'
    BY <2>23 DEF Expire, TypeOK, Held, HeldRow, Exists
  <2>24. CASE UNCHANGED vars
    BY <2>24 DEF vars, TypeOK, Held, HeldRow, Exists
  <2> QED
    BY <2>1, <2>2, <2>3, <2>4, <2>5, <2>6, <2>7, <2>8, <2>9, <2>10, <2>11, <2>12,
       <2>13, <2>14, <2>15, <2>16, <2>17, <2>18, <2>19, <2>20, <2>21, <2>22, <2>23,
       <2>24 DEF Next, Create, Decide, Walk, Chat
<1> QED
  BY <1>1, <1>2, PTL DEF Spec
(***************************************************************************)
(* Payments and statuses (policy P-16).                                    *)
(***************************************************************************)

\* No status a booking has had is forgotten and no authorization withdrawn.
Kept == /\ \A b \in Bookings : past[b] \subseteq past'[b]
        /\ authorized \subseteq authorized'

LEMMA StatusKept ==
    ASSUME Kept, NEW q, q.step \in Copying => q.booking \in Bookings, StatusOfCopy(q)
    PROVE  StatusOfCopy(q)'
BY DEF Kept, StatusOfCopy

LEMMA GotoStatus ==
    ASSUME TypeInv, Kept, \A q \in Requests : StatusOfCopy(req[q]),
           NEW r \in Requests, NEW s, NEW b, NEW e, NEW w, Goto(r, s, b, e, w),
           StatusOfCopy([step |-> s, booking |-> b, row |-> e, side |-> w])'
    PROVE  \A q \in Requests : StatusOfCopy(req[q])'
<1> SUFFICES ASSUME NEW q \in Requests PROVE StatusOfCopy(req[q])'
  OBVIOUS
<1>1. CASE q = r
  BY <1>1 DEF TypeInv, TypeOK, Goto
<1>2. CASE q # r
  <2>1. req'[q] = req[q] /\ (req[q].step \in Copying => req[q].booking \in Bookings)
    BY <1>2 DEF TypeInv, TypeOK, Held, HeldRow, Goto
  <2> QED
    BY <2>1, StatusKept DEF StatusOfCopy
<1> QED
  BY <1>1, <1>2

LEMMA FinishStatus ==
    ASSUME TypeInv, Kept, \A q \in Requests : StatusOfCopy(req[q]),
           NEW r \in Requests, Finish(r)
    PROVE  \A q \in Requests : StatusOfCopy(req[q])'
<1> SUFFICES ASSUME NEW q \in Requests PROVE StatusOfCopy(req[q])'
  OBVIOUS
<1>1. CASE q = r
  BY <1>1 DEF TypeInv, TypeOK, Finish, Idle, StatusOfCopy, Drafting, Copying
<1>2. CASE q # r
  <2>1. req'[q] = req[q] /\ (req[q].step \in Copying => req[q].booking \in Bookings)
    BY <1>2 DEF TypeInv, TypeOK, Held, HeldRow, Finish
  <2> QED
    BY <2>1, StatusKept DEF StatusOfCopy
<1> QED
  BY <1>1, <1>2

\* A save keeps what a row's history records.
LEMMA SaveHistory ==
    ASSUME TypeInv, History, NEW b \in Bookings, NEW e \in Row, SaveBooking(b, e)
    PROVE  /\ \A c \in Bookings : /\ Exists(c)' => rows'[c].status \in past'[c]
                                  /\ ~Exists(c)' => past'[c] = {}
           /\ \A c \in Bookings : past[c] \subseteq past'[c]
           /\ \A c \in Bookings : past'[c] = IF c = b THEN past[c] \cup {e.status} ELSE past[c]
BY ConstantsAssumption DEF TypeInv, TypeOK, History, Exists, SaveBooking

\* The statuses with a single predecessor.
LEMMA OneWayIn ==
    ASSUME NEW s
    PROVE  /\ canTransition(s, Accepted) => s = Requested
           /\ canTransition(s, InProgress) => s = Confirmed
           /\ canTransition(s, Completed) => s = InProgress
BY DEF canTransition, ALLOWED_TRANSITIONS, Requested, Accepted, Confirmed, InProgress,
       Completed, Cancelled, Disputed

CapturedInv == \A b \in captured : b \in authorized /\ InProgress \in past[b]

PaymentInv == TypeInv /\ History /\ Consent /\ CapturedInv

LEMMA SaveStep ==
    ASSUME PaymentInv, TypeInv', NEW b \in Bookings, NEW e \in Row, SaveBooking(b, e),
           e.status \in {Requested, Cancelled} \/ b \in authorized,
           UNCHANGED gateway, \A q \in Requests : StatusOfCopy(req[q])'
    PROVE  PaymentInv'
<1>1. TypeInv /\ History
  BY DEF PaymentInv
<1>2. /\ \A c \in Bookings : /\ Exists(c)' => rows'[c].status \in past'[c]
                             /\ ~Exists(c)' => past'[c] = {}
      /\ \A c \in Bookings : past[c] \subseteq past'[c]
      /\ \A c \in Bookings : past'[c] = IF c = b THEN past[c] \cup {e.status} ELSE past[c]
  BY <1>1, SaveHistory
<1>3. History'
  BY <1>2 DEF History
<1>4. Consent'
  BY <1>2 DEF PaymentInv, Consent, gateway
<1>5. CapturedInv'
  BY <1>1, <1>2 DEF PaymentInv, CapturedInv, gateway, TypeInv, TypeOK
<1> QED
  BY <1>3, <1>4, <1>5 DEF PaymentInv

LEMMA SaveFinish ==
    ASSUME PaymentInv, TypeInv', NEW b \in Bookings, NEW e \in Row, SaveBooking(b, e),
           e.status \in {Requested, Cancelled} \/ b \in authorized,
           UNCHANGED gateway, NEW r \in Requests, Finish(r)
    PROVE  PaymentInv'
<1>1. Kept
  BY SaveHistory DEF PaymentInv, Kept, gateway
<1>2. \A q \in Requests : StatusOfCopy(req[q])'
  BY <1>1, FinishStatus DEF PaymentInv, History
<1> QED
  BY <1>2, SaveStep

\* Steps that write no booking row: what they owe is what r now holds.
LEMMA QuietGoto ==
    ASSUME PaymentInv, TypeInv', UNCHANGED <<rows, past, captured>>,
           authorized \subseteq authorized',
           NEW r \in Requests, NEW s, NEW b, NEW e, NEW w, Goto(r, s, b, e, w),
           StatusOfCopy([step |-> s, booking |-> b, row |-> e, side |-> w])'
    PROVE  PaymentInv'
<1>1. \A q \in Requests : StatusOfCopy(req[q])'
  BY GotoStatus DEF PaymentInv, History, Kept
<1> QED
  BY <1>1 DEF PaymentInv, History, Consent, CapturedInv, Exists

LEMMA QuietFinish ==
    ASSUME PaymentInv, TypeInv', UNCHANGED <<rows, past, captured>>,
           authorized \subseteq authorized', NEW r \in Requests, Finish(r)
    PROVE  PaymentInv'
<1>1. \A q \in Requests : StatusOfCopy(req[q])'
  BY FinishStatus DEF PaymentInv, History, Kept
<1> QED
  BY <1>1 DEF PaymentInv, History, Consent, CapturedInv, Exists

LEMMA QuietStutter ==
    ASSUME PaymentInv, TypeInv', UNCHANGED <<rows, past, authorized, captured, req>>
    PROVE  PaymentInv'
BY DEF PaymentInv, History, Consent, CapturedInv, Exists, StatusOfCopy

\* Every step keeps PaymentInv.  Only AcceptAuthorize authorizes, only a save of
\* an accepted copy commits the business, and the copy of a request cannot be of
\* a committed booking unless the payment was authorized before it was loaded.
LEMMA PaymentStep == PaymentInv /\ TypeInv' /\ [Next]_vars => PaymentInv'
<1> SUFFICES ASSUME PaymentInv, TypeInv', [Next]_vars PROVE PaymentInv'
  OBVIOUS
<1> USE DEF Steps, Copying, Drafting, Answering, tables, gateway, clients
<1>1. ASSUME NEW r \in Requests, NEW k \in Keys, NEW s \in Slots, CreateArrives(r, k, s)
      PROVE  PaymentInv'
  <2>1. StatusOfCopy([step |-> "create.lookup", booking |-> NoBooking, row |-> request(k, s), side |-> "owner"])'
    BY DEF StatusOfCopy, request
  <2>2. CASE UNCHANGED req
    BY <1>1, <2>2, QuietStutter DEF CreateArrives
  <2> QED
    BY <1>1, <2>1, <2>2, QuietGoto DEF CreateArrives
<1>2. ASSUME NEW r \in Requests, CreateLookup(r)
      PROVE  PaymentInv'
  <2> PICK e : e = req[r].row
    OBVIOUS
  <2>1. StatusOfCopy([step |-> "create.check", booking |-> NoBooking, row |-> e, side |-> "owner"])'
    BY <1>2 DEF CreateLookup, StatusOfCopy, PaymentInv, History
  <2>2. \A b \in Bookings : StatusOfCopy([step |-> "create.reply", booking |-> b, row |-> NoRow, side |-> "owner"])'
    BY DEF StatusOfCopy
  <2> QED
    BY <1>2, <2>1, <2>2, QuietGoto DEF CreateLookup, WithKey
<1>3. ASSUME NEW r \in Requests, CreateCheck(r)
      PROVE  PaymentInv'
  <2> PICK e : e = req[r].row
    OBVIOUS
  <2>1. StatusOfCopy([step |-> "create.insert", booking |-> NoBooking, row |-> e, side |-> "owner"])'
    BY <1>3 DEF CreateCheck, StatusOfCopy, PaymentInv, History
  <2> QED
    BY <1>3, <2>1, QuietGoto, QuietFinish DEF CreateCheck
<1>4. ASSUME NEW r \in Requests, CreateInsert(r)
      PROVE  PaymentInv'
  <2> PICK e : e = req[r].row
    OBVIOUS
  <2>1. CASE Finish(r) /\ UNCHANGED <<rows, past>>
    BY <1>4, <2>1, QuietFinish DEF CreateInsert
  <2>2. ASSUME NEW b \in Bookings, SaveBooking(b, e), Goto(r, "create.reply", b, NoRow, "owner")
        PROVE  PaymentInv'
    <3>1. StatusOfCopy([step |-> "create.reply", booking |-> b, row |-> NoRow, side |-> "owner"])'
      BY DEF StatusOfCopy
    <3>2. e \in Row /\ e.status = Requested
      BY <1>4, HeldDraft DEF CreateInsert, PaymentInv, History, StatusOfCopy
    <3>3. Kept
      BY <1>4, <2>2, <3>2, SaveHistory DEF PaymentInv, Kept, CreateInsert
    <3>4. \A q \in Requests : StatusOfCopy(req[q])'
      BY <2>2, <3>1, <3>3, GotoStatus DEF PaymentInv, History
    <3> QED
      BY <1>4, <2>2, <3>2, <3>4, SaveStep DEF CreateInsert
  <2> QED
    BY <1>4, <2>1, <2>2 DEF CreateInsert
<1>5. ASSUME NEW r \in Requests, CreateReply(r)
      PROVE  PaymentInv'
  <2> PICK b : b = req[r].booking
    OBVIOUS
  <2>1. StatusOfCopy([step |-> "create.remember", booking |-> b, row |-> NoRow, side |-> "owner"])'
    BY DEF StatusOfCopy
  <2> QED
    BY <1>5, <2>1, QuietGoto DEF CreateReply
<1>6. ASSUME NEW r \in Requests, CreateRemember(r)
      PROVE  PaymentInv'
  BY <1>6, QuietFinish DEF CreateRemember
<1>7. ASSUME NEW r \in Requests, NEW b \in Bookings, AcceptLoad(r, b)
      PROVE  PaymentInv'
  <2> PICK e : e = rows[b]
    OBVIOUS
  <2>1. rows[b] \in Row /\ rows[b].status \in past[b]
    BY <1>7 DEF AcceptLoad, Arrives, PaymentInv, TypeInv, TypeOK, History, Exists
  <2>2. e.status = rows[b].status
    BY <2>1 DEF Row
  <2>3. StatusOfCopy([step |-> "accept.authorize", booking |-> b, row |-> e, side |-> "provider"])'
    BY <1>7, <2>1, <2>2 DEF AcceptLoad, StatusOfCopy
  <2> QED
    BY <1>7, <2>3, QuietGoto DEF AcceptLoad
<1>8. ASSUME NEW r \in Requests, AcceptAuthorize(r)
      PROVE  PaymentInv'
  <2> PICK b, e : b = req[r].booking /\ e = req[r].row
    OBVIOUS
  <2>1. e \in Row /\ b \in Bookings /\ StatusOfCopy(req[r])
    BY <1>8, HeldCopy DEF AcceptAuthorize, PaymentInv, History
  <2>2. CASE canTransition(e.status, Accepted) /\ authorized' = authorized \cup {b}
             /\ Goto(r, "accept.save", b, [e EXCEPT !.status = Confirmed], "provider")
    <3>0. e.status = Requested
      BY <2>2, OneWayIn
    <3>1. e.status = Requested /\ Requested \in past[b]
      BY <1>8, <2>1, <3>0 DEF AcceptAuthorize, StatusOfCopy
    <3>2. StatusOfCopy([step |-> "accept.save", booking |-> b, row |-> [e EXCEPT !.status = Confirmed], side |-> "provider"])'
      BY <1>8, <2>1, <2>2, <3>1 DEF AcceptAuthorize, StatusOfCopy, Row
    <3> QED
      BY <1>8, <2>2, <3>2, QuietGoto DEF AcceptAuthorize
  <2>3. CASE Finish(r) /\ authorized' = authorized \cup {b}
    BY <1>8, <2>3, QuietFinish DEF AcceptAuthorize
  <2>4. CASE Goto(r, "accept.decline", b, e, "provider") /\ UNCHANGED authorized
    <3>1. StatusOfCopy([step |-> "accept.decline", booking |-> b, row |-> e, side |-> "provider"])'
      BY <1>8, <2>1, <2>4 DEF AcceptAuthorize, StatusOfCopy
    <3> QED
      BY <1>8, <2>4, <3>1, QuietGoto DEF AcceptAuthorize
  <2> QED
    BY <1>8, <2>2, <2>3, <2>4 DEF AcceptAuthorize
<1>9. ASSUME NEW r \in Requests, AcceptDecline(r)
      PROVE  PaymentInv'
  BY <1>9, QuietFinish DEF AcceptDecline
<1>10. ASSUME NEW r \in Requests, AcceptSave(r)
      PROVE  PaymentInv'
  <2>1. req[r].row \in Row /\ req[r].booking \in Bookings /\ StatusOfCopy(req[r])
    BY <1>10, HeldCopy DEF AcceptSave, PaymentInv, History
  <2>2. req[r].row.status \in {Requested, Cancelled} \/ req[r].booking \in authorized
    BY <1>10, <2>1 DEF AcceptSave, StatusOfCopy, PaymentInv, Consent, Requested,
       Accepted, Confirmed, InProgress, Completed, Cancelled, Disputed, canTransition,
       ALLOWED_TRANSITIONS
  <2> QED
    BY <1>10, <2>1, <2>2, SaveFinish DEF AcceptSave
<1>11. ASSUME NEW r \in Requests, NEW b \in Bookings, CancelLoad(r, b)
      PROVE  PaymentInv'
  <2> PICK e : e = [rows[b] EXCEPT !.status = Cancelled]
    OBVIOUS
  <2>1. rows[b] \in Row /\ rows[b].status \in past[b]
    BY <1>11 DEF CancelLoad, Arrives, PaymentInv, TypeInv, TypeOK, History, Exists
  <2>2. e.status = Cancelled
    BY <2>1 DEF Row
  <2>3. StatusOfCopy([step |-> "cancel.save", booking |-> b, row |-> e, side |-> "owner"])'
    BY <1>11, <2>1, <2>2 DEF CancelLoad, StatusOfCopy, Requested, Accepted, Confirmed,
       InProgress, Completed, Cancelled, Disputed, canTransition, ALLOWED_TRANSITIONS
  <2> QED
    BY <1>11, <2>3, QuietGoto DEF CancelLoad
<1>12. ASSUME NEW r \in Requests, CancelSave(r)
      PROVE  PaymentInv'
  <2>1. req[r].row \in Row /\ req[r].booking \in Bookings /\ StatusOfCopy(req[r])
    BY <1>12, HeldCopy DEF CancelSave, PaymentInv, History
  <2>2. req[r].row.status \in {Requested, Cancelled} \/ req[r].booking \in authorized
    BY <1>12, <2>1 DEF CancelSave, StatusOfCopy, PaymentInv, Consent, Requested,
       Accepted, Confirmed, InProgress, Completed, Cancelled, Disputed, canTransition,
       ALLOWED_TRANSITIONS
  <2> QED
    BY <1>12, <2>1, <2>2, SaveFinish DEF CancelSave
<1>13. ASSUME NEW r \in Requests, NEW b \in Bookings, StartLoad(r, b)
      PROVE  PaymentInv'
  <2> PICK e : e = [rows[b] EXCEPT !.status = InProgress, !.startedAt = TRUE]
    OBVIOUS
  <2>1. rows[b] \in Row /\ rows[b].status \in past[b]
    BY <1>13 DEF StartLoad, Arrives, PaymentInv, TypeInv, TypeOK, History, Exists
  <2>2. e.status = InProgress
    BY <2>1 DEF Row
  <2>0. rows[b].status = Confirmed
    BY <1>13, OneWayIn DEF StartLoad
  <2>3. StatusOfCopy([step |-> "save", booking |-> b, row |-> e, side |-> "provider"])'
    BY <1>13, <2>1, <2>2, <2>0 DEF StartLoad, StatusOfCopy
  <2> QED
    BY <1>13, <2>3, QuietGoto DEF StartLoad
<1>14. ASSUME NEW r \in Requests, NEW b \in Bookings, CompleteLoad(r, b)
      PROVE  PaymentInv'
  <2> PICK e : e = [rows[b] EXCEPT !.status = Completed, !.completedAt = TRUE]
    OBVIOUS
  <2>1. rows[b] \in Row /\ rows[b].status \in past[b]
    BY <1>14 DEF CompleteLoad, Arrives, PaymentInv, TypeInv, TypeOK, History, Exists
  <2>2. e.status = Completed
    BY <2>1 DEF Row
  <2>0. rows[b].status = InProgress
    BY <1>14, OneWayIn DEF CompleteLoad
  <2>3. StatusOfCopy([step |-> "complete.capture", booking |-> b, row |-> e, side |-> "provider"])'
    BY <1>14, <2>1, <2>2, <2>0 DEF CompleteLoad, StatusOfCopy
  <2> QED
    BY <1>14, <2>3, QuietGoto DEF CompleteLoad
<1>15. ASSUME NEW r \in Requests, CompleteCapture(r)
      PROVE  PaymentInv'
  <2> PICK b, e : b = req[r].booking /\ e = req[r].row
    OBVIOUS
  <2>1. b \in Bookings /\ e.status = Completed /\ InProgress \in past[b]
    BY <1>15, HeldCopy DEF CompleteCapture, PaymentInv, History, StatusOfCopy
  <2>2. b \in authorized
    BY <2>1 DEF PaymentInv, Consent, InProgress, Requested, Cancelled
  <2>3. StatusOfCopy([step |-> "complete.save", booking |-> b, row |-> e, side |-> "provider"])'
    BY <1>15, <2>1 DEF CompleteCapture, StatusOfCopy
  <2>4. \A q \in Requests : StatusOfCopy(req[q])'
    BY <1>15, <2>3, GotoStatus DEF CompleteCapture, PaymentInv, History, Kept
  <2> QED
    BY <1>15, <2>1, <2>2, <2>4 DEF CompleteCapture, PaymentInv, History, Consent,
       CapturedInv, Exists
<1>16. ASSUME NEW r \in Requests, CompleteSave(r)
      PROVE  PaymentInv'
  <2>1. req[r].row \in Row /\ req[r].booking \in Bookings /\ StatusOfCopy(req[r])
    BY <1>16, HeldCopy DEF CompleteSave, PaymentInv, History
  <2>2. req[r].row.status \in {Requested, Cancelled} \/ req[r].booking \in authorized
    BY <1>16, <2>1 DEF CompleteSave, StatusOfCopy, PaymentInv, Consent, Requested,
       Accepted, Confirmed, InProgress, Completed, Cancelled, Disputed, canTransition,
       ALLOWED_TRANSITIONS
  <2> QED
    BY <1>16, <2>1, <2>2, SaveFinish DEF CompleteSave
<1>17. ASSUME NEW r \in Requests, NEW b \in Bookings, NEW w \in Sides, SendLoad(r, b, w)
      PROVE  PaymentInv'
  <2> PICK e : e = markReadFor([rows[b] EXCEPT !.lastMessageAt = clock'], w, clock')
    OBVIOUS
  <2>1. rows[b] \in Row /\ rows[b].status \in past[b]
    BY <1>17 DEF SendLoad, Arrives, PaymentInv, TypeInv, TypeOK, History, Exists
  <2>2. e.status = rows[b].status
    BY <2>1 DEF Row, markReadFor
  <2>3. StatusOfCopy([step |-> "send.message", booking |-> b, row |-> e, side |-> w])'
    BY <1>17, <2>1, <2>2 DEF SendLoad, StatusOfCopy
  <2> QED
    BY <1>17, <2>3, QuietGoto DEF SendLoad
<1>18. ASSUME NEW r \in Requests, SendMessage(r)
      PROVE  PaymentInv'
  <2> PICK q : q = req[r]
    OBVIOUS
  <2>1. StatusOfCopy([step |-> "save", booking |-> q.booking, row |-> q.row, side |-> q.side])'
    BY <1>18 DEF SendMessage, StatusOfCopy, PaymentInv, History
  <2> QED
    BY <1>18, <2>1, QuietGoto DEF SendMessage
<1>19. ASSUME NEW r \in Requests, NEW b \in Bookings, NEW w \in Sides, ListLoad(r, b, w)
      PROVE  PaymentInv'
  <2> PICK e : e = rows[b]
    OBVIOUS
  <2>1. rows[b] \in Row /\ rows[b].status \in past[b]
    BY <1>19 DEF ListLoad, Arrives, PaymentInv, TypeInv, TypeOK, History, Exists
  <2>2. e.status = rows[b].status
    BY <2>1 DEF Row
  <2>3. StatusOfCopy([step |-> "list.find", booking |-> b, row |-> e, side |-> w])'
    BY <1>19, <2>1, <2>2 DEF ListLoad, StatusOfCopy
  <2> QED
    BY <1>19, <2>3, QuietGoto DEF ListLoad
<1>20. ASSUME NEW r \in Requests, ListFind(r)
      PROVE  PaymentInv'
  <2> PICK q : q = req[r]
    OBVIOUS
  <2>1. q.row \in Row
    BY <1>20, HeldCopy DEF ListFind, PaymentInv
  <2> PICK e : e = markReadFor(q.row, q.side, clock)
    OBVIOUS
  <2>2. e.status = q.row.status
    BY <2>1 DEF markReadFor, Row
  <2>3. StatusOfCopy([step |-> "save", booking |-> q.booking, row |-> e, side |-> q.side])'
    BY <1>20, <2>2 DEF ListFind, StatusOfCopy, PaymentInv, History
  <2> QED
    BY <1>20, <2>3, QuietGoto DEF ListFind
<1>21. ASSUME NEW r \in Requests, Save(r)
      PROVE  PaymentInv'
  <2>1. req[r].row \in Row /\ req[r].booking \in Bookings /\ StatusOfCopy(req[r])
    BY <1>21, HeldCopy DEF Save, PaymentInv, History
  <2>2. req[r].row.status \in {Requested, Cancelled} \/ req[r].booking \in authorized
    BY <1>21, <2>1 DEF Save, StatusOfCopy, PaymentInv, Consent, Requested, Accepted,
       Confirmed, InProgress, Completed, Cancelled, Disputed, canTransition,
       ALLOWED_TRANSITIONS
  <2> QED
    BY <1>21, <2>1, <2>2, SaveFinish DEF Save
<1>22. ASSUME NEW r \in Requests, Abandon(r)
      PROVE  PaymentInv'
  BY <1>22, QuietFinish DEF Abandon
<1>23. ASSUME NEW k \in Keys, Expire(k)
      PROVE  PaymentInv'
  BY <1>23, QuietStutter DEF Expire
<1>24. CASE UNCHANGED vars
  BY <1>24, QuietStutter DEF vars
<1> QED
  BY <1>1, <1>2, <1>3, <1>4, <1>5, <1>6, <1>7, <1>8, <1>9, <1>10, <1>11, <1>12, <1>13,
     <1>14, <1>15, <1>16, <1>17, <1>18, <1>19, <1>20, <1>21, <1>22, <1>23, <1>24
  DEF Next, Create, Decide, Walk, Chat

LEMMA AlwaysPaid == Spec => []PaymentInv
<1>1. Init => PaymentInv
  BY IdleIsRequest DEF Init, PaymentInv, TypeInv, TypeOK, Held, HeldRow, History,
     Consent,
     CapturedInv, StatusOfCopy, Exists, Idle, Steps, Copying, Drafting, Answering
<1> QED
  BY <1>1, PaymentStep, TypeCorrect, PTL DEF Spec

\* P-16: nothing a stale copy, a crash or a declined card does commits the
\* business to an unpaid booking, or captures a payment of a walk not started.
THEOREM PaymentOrderHolds == Spec => []PaymentOrder
<1>1. PaymentInv => PaymentOrder
  BY DEF PaymentInv, History, Consent, CapturedInv, PaymentOrder, Exists
<1> QED
  BY <1>1, AlwaysPaid, PTL

--------------------------------------------------------------------------------
(***************************************************************************)
(* Statuses are reached or restored.                                       *)
(***************************************************************************)

Allowed(b) == \/ rows'[b].status \in past[b]
              \/ \E s \in past[b] : canTransition(s, rows'[b].status)

\* A copy that is saved has a status the booking had, or that one of these allows.
LEMMA SaveReaches ==
    ASSUME PaymentInv, NEW r \in Requests, NEW b \in Bookings, Exists(b),
           req[r].step \in {"accept.save", "cancel.save", "complete.save", "save"},
           SaveBooking(req[r].booking, req[r].row)
    PROVE  Allowed(b)
<1> PICK c, e : c = req[r].booking /\ e = req[r].row
  OBVIOUS
<1>1. c \in Bookings /\ StatusOfCopy(req[r]) /\ rows[b].status \in past[b]
  BY HeldCopy DEF PaymentInv, History, Copying, Steps, Drafting, Answering
<1>2. rows' = [rows EXCEPT ![c] = e] /\ rows \in [Bookings -> Row \cup {NoRow}]
  BY DEF SaveBooking, PaymentInv, TypeInv, TypeOK
<1>3. CASE b # c
  BY <1>1, <1>2, <1>3 DEF Allowed
<1>4. CASE b = c
  <2>1. rows'[b] = e
    BY <1>1, <1>2, <1>4
  <2>2. canTransition(Requested, Confirmed) /\ canTransition(InProgress, Completed)
        /\ canTransition(Confirmed, InProgress)
    BY DEF canTransition, ALLOWED_TRANSITIONS
  <2>3. e.status \in past[b] \/ \E s \in past[b] : canTransition(s, e.status)
    BY <1>1, <1>4, <2>2 DEF StatusOfCopy, Copying, Steps, Drafting, Answering
  <2> QED
    BY <2>1, <2>3 DEF Allowed
<1> QED
  BY <1>3, <1>4

LEMMA OthersLeaveStatus ==
    ASSUME PaymentInv, NEW b \in Bookings, Exists(b), UNCHANGED rows
    PROVE  Allowed(b)
BY DEF PaymentInv, History, Allowed

\* The steps that write a booking's row.
LEMMA WhoWrites ==
    ASSUME Next
    PROVE  \/ UNCHANGED rows
           \/ \E r \in Requests : CreateInsert(r)
           \/ \E r \in Requests :
                 /\ req[r].step \in {"accept.save", "cancel.save", "complete.save", "save"}
                 /\ SaveBooking(req[r].booking, req[r].row)
<1> USE DEF tables
<1>1. ASSUME NEW r \in Requests, Create(r)
      PROVE  UNCHANGED rows \/ CreateInsert(r)
  BY <1>1 DEF Create, CreateArrives, CreateLookup, CreateCheck, CreateReply, CreateRemember
<1>2. ASSUME NEW r \in Requests, Decide(r)
      PROVE  UNCHANGED rows \/ AcceptSave(r) \/ CancelSave(r)
  BY <1>2 DEF Decide, AcceptLoad, AcceptAuthorize, AcceptDecline, CancelLoad
<1>3. ASSUME NEW r \in Requests, Walk(r)
      PROVE  UNCHANGED rows \/ CompleteSave(r)
  BY <1>3 DEF Walk, StartLoad, CompleteLoad, CompleteCapture
<1>4. ASSUME NEW r \in Requests, Chat(r) \/ Abandon(r)
      PROVE  UNCHANGED rows
  BY <1>4 DEF Chat, SendLoad, SendMessage, ListLoad, ListFind, Abandon
<1>5. ASSUME NEW k \in Keys, Expire(k) PROVE UNCHANGED rows
  BY <1>5 DEF Expire
<1> QED
  BY <1>1, <1>2, <1>3, <1>4, <1>5 DEF Next, AcceptSave, CancelSave, CompleteSave, Save

LEMMA StepReaches ==
    ASSUME PaymentInv, Next, NEW b \in Bookings, Exists(b)
    PROVE  Allowed(b)
<1>1. ASSUME NEW r \in Requests, CreateInsert(r) PROVE Allowed(b)
  <2>1. CASE UNCHANGED rows
    BY <2>1, OthersLeaveStatus
  <2>2. ASSUME NEW c \in Bookings, rows[c] = NoRow, SaveBooking(c, req[r].row) PROVE Allowed(b)
    BY <2>2 DEF SaveBooking, Exists, Allowed, PaymentInv, TypeInv, TypeOK, History
  <2> QED
    BY <1>1, <2>1, <2>2 DEF CreateInsert
<1> QED
  BY <1>1, WhoWrites, SaveReaches, OthersLeaveStatus

\* However requests overlap, a status is reached only by an allowed transition from one
\* that the booking has had: a stale save may put one back, and invents none.
THEOREM NothingInvented == Spec => ReachedOrRestored
<1>1. PaymentInv /\ [Next]_vars
      => [\A b \in Bookings :
             Exists(b) => \/ rows'[b].status \in past[b]
                          \/ \E s \in past[b] : canTransition(s, rows'[b].status)]_rows
  BY StepReaches DEF Allowed, vars, tables
<1> QED
  BY <1>1, AlwaysPaid, PTL DEF Spec, ReachedOrRestored

--------------------------------------------------------------------------------
(***************************************************************************)
(* The double-booking check.                                               *)
(***************************************************************************)

\* Two walks that share an instant overlap, as the query compares their bounds.
LEMMA SharingIsOverlapping ==
    ASSUME NEW s \in Slot, NEW t \in Slot, s.provider = t.provider,
           Instants(s) \cap Instants(t) # {}
    PROVE  Overlaps(s, t)
<1>1. PICK i \in Instants(s) : i \in Instants(t)
  OBVIOUS
<1>2. s.at \in Nat /\ s.len \in Nat /\ t.at \in Nat /\ t.len \in Nat
  BY DEF Slot
<1>3. i \in Int /\ s.at <= i /\ i <= s.at + s.len - 1 /\ t.at <= i /\ i <= t.at + t.len - 1
  BY <1>1, <1>2 DEF Instants
<1> QED
  BY <1>2, <1>3 DEF Overlaps

FreeOf(r, c) ==
    /\ req[r].step = "create.check" /\ req'[r].step = "create.insert"
    /\ Exists(c) /\ rows[c].status \in {Confirmed, InProgress}
    /\ rows[c].slot.provider = req[r].row.slot.provider
    => Instants(rows[c].slot) \cap Instants(req[r].row.slot) = {}

\* Only CreateCheck takes a request past the check.
LEMMA OnlyTheCheck ==
    ASSUME TypeInv, Next, NEW r \in Requests,
           req[r].step = "create.check", req'[r].step = "create.insert"
    PROVE  CreateCheck(r)
<1>0. req \in [Requests -> Request] /\ Idle.step = "idle"
  BY DEF TypeInv, TypeOK, Idle
<1>1. ASSUME NEW q \in Requests, NEW s, NEW b, NEW e, NEW w, Goto(q, s, b, e, w)
      PROVE  q = r /\ s = "create.insert"
  BY <1>0, <1>1 DEF Goto
<1>2. ASSUME NEW q \in Requests, Finish(q) PROVE FALSE
  BY <1>0, <1>2 DEF Finish
<1>3. ASSUME NEW q \in Requests, Create(q) PROVE CreateCheck(r)
  <2>1. req' # req
    OBVIOUS
  <2>2. CASE CreateCheck(q)
    BY <1>1, <1>2, <2>2 DEF CreateCheck
  <2> QED
    BY <1>1, <1>2, <1>3, <2>1, <2>2
       DEF Create, CreateArrives, CreateLookup, CreateInsert, CreateReply, CreateRemember
<1>4. ASSUME NEW q \in Requests, Decide(q) PROVE FALSE
  <2>1. ASSUME NEW b \in Bookings, AcceptLoad(q, b) \/ CancelLoad(q, b) PROVE FALSE
    BY <1>1, <2>1 DEF AcceptLoad, CancelLoad
  <2>2. CASE AcceptAuthorize(q)
    BY <1>1, <1>2, <2>2 DEF AcceptAuthorize
  <2>3. CASE AcceptDecline(q) \/ AcceptSave(q) \/ CancelSave(q)
    BY <1>2, <2>3 DEF AcceptDecline, AcceptSave, CancelSave
  <2> QED
    BY <1>4, <2>1, <2>2, <2>3 DEF Decide
<1>5. ASSUME NEW q \in Requests, Walk(q) PROVE FALSE
  <2>1. ASSUME NEW b \in Bookings, StartLoad(q, b) \/ CompleteLoad(q, b) PROVE FALSE
    BY <1>1, <2>1 DEF StartLoad, CompleteLoad
  <2>2. CASE CompleteCapture(q) \/ CompleteSave(q)
    BY <1>1, <1>2, <2>2 DEF CompleteCapture, CompleteSave
  <2> QED
    BY <1>5, <2>1, <2>2 DEF Walk
<1>6. ASSUME NEW q \in Requests, Chat(q) \/ Save(q) \/ Abandon(q) PROVE FALSE
  <2>1. ASSUME NEW b \in Bookings, NEW w \in Sides, SendLoad(q, b, w) \/ ListLoad(q, b, w)
        PROVE  FALSE
    BY <1>1, <2>1 DEF SendLoad, ListLoad
  <2>2. CASE SendMessage(q) \/ ListFind(q)
    BY <1>1, <2>2 DEF SendMessage, ListFind
  <2>3. CASE Save(q) \/ Abandon(q)
    BY <1>2, <2>3 DEF Save, Abandon
  <2> QED
    BY <1>6, <2>1, <2>2, <2>3 DEF Chat
<1>7. ASSUME NEW k \in Keys, Expire(k) PROVE FALSE
  BY <1>7 DEF Expire
<1> QED
  BY <1>3, <1>4, <1>5, <1>6, <1>7 DEF Next

LEMMA CheckIsFree ==
    ASSUME TypeInv, Next, NEW r \in Requests, NEW c \in Bookings
    PROVE  FreeOf(r, c)
<1> SUFFICES ASSUME req[r].step = "create.check", req'[r].step = "create.insert",
                    Exists(c), rows[c].status \in {Confirmed, InProgress},
                    rows[c].slot.provider = req[r].row.slot.provider,
                    Instants(rows[c].slot) \cap Instants(req[r].row.slot) # {}
             PROVE  FALSE
  BY DEF FreeOf
<1>1. rows[c].slot \in Slot /\ req[r].row.slot \in Slot
  BY HeldDraft, ConstantsAssumption DEF TypeInv, TypeOK, Exists, Row, Drafting
<1>2. Overlaps(rows[c].slot, req[r].row.slot)
  BY <1>1, SharingIsOverlapping
<1>3. c \in Overlapping(req[r].row.slot)
  BY <1>2 DEF Overlapping, Exists, ACTIVE_STATUSES
<1>4. CreateCheck(r)
  BY OnlyTheCheck
<1>5. Finish(r)
  BY <1>3, <1>4 DEF CreateCheck
<1> QED
  BY <1>5 DEF Finish, TypeInv, TypeOK, Idle

\* A request goes past the double-booking check only if its walk shares no instant with
\* one the business has confirmed or is on.
THEOREM FreeSlots == Spec => OnlyFreeSlotsPass
<1>1. TypeInv /\ [Next]_vars
      => [\A r \in Requests, c \in Bookings :
             /\ req[r].step = "create.check" /\ req'[r].step = "create.insert"
             /\ Exists(c) /\ rows[c].status \in {Confirmed, InProgress}
             /\ rows[c].slot.provider = req[r].row.slot.provider
             => Instants(rows[c].slot) \cap Instants(req[r].row.slot) = {}]_vars
  BY CheckIsFree DEF FreeOf
<1> QED
  BY <1>1, TypeCorrect, PTL DEF Spec, OnlyFreeSlotsPass

--------------------------------------------------------------------------------
(***************************************************************************)
(* Times, events and keys: whatever is saved over whatever, every row and   *)
(* every copy in flight is one the aggregate could have made.               *)
(***************************************************************************)

Timed(e) ==
    /\ e.startedAt <=> e.status \in {InProgress, Completed, Disputed}
    /\ e.completedAt <=> e.status \in {Completed, Disputed}

\* A copy has the times of its own status and the key of the row, which never changes;
\* an answer on its way to the interceptor has been given to the client.
Faithful(q) ==
    /\ q.step \in Drafting => Timed(q.row)
    /\ q.step \in Copying => Timed(q.row) /\ q.row.key = rows[q.booking].key
    /\ q.step = "create.remember" => <<rows[q.booking].key, q.booking>> \in replies

OutboxOf(b) ==
    /\ Exists(b) <=> "BookingCreated" \in outbox[b]
    /\ Cancelled \in past[b] <=> "BookingCancelled" \in outbox[b]
    /\ Cancelled \in past[b] <=> cancellations[b] > 0
    /\ Confirmed \in past[b] => {"ProviderAccepted", "BookingConfirmed"} \subseteq outbox[b]
    /\ Completed \in past[b] <=> "WalkFinished" \in outbox[b]

FaithfulInv ==
    /\ \A r \in Requests : Faithful(req[r])
    /\ \A b \in Bookings : Exists(b) => Timed(rows[b])
    /\ \A b \in Bookings : OutboxOf(b)
    /\ RetriesAreSafe

RowsInv == PaymentInv /\ FaithfulInv

\* Rows are not deleted and keep their key, answers are not taken back.
KeysKept ==
    /\ \A b \in Bookings : rows[b] # NoRow => rows'[b] # NoRow /\ rows'[b].key = rows[b].key
    /\ replies \subseteq replies'

LEMMA FaithfulKept ==
    ASSUME TypeInv, KeysKept, NEW q, HeldRow(q), Faithful(q)
    PROVE  Faithful(q)'
BY DEF KeysKept, HeldRow, Faithful, Exists, Answering, Timed

LEMMA GotoFaithful ==
    ASSUME TypeInv, KeysKept, \A q \in Requests : Faithful(req[q]),
           NEW r \in Requests, NEW s, NEW b, NEW e, NEW w, Goto(r, s, b, e, w),
           Faithful([step |-> s, booking |-> b, row |-> e, side |-> w])'
    PROVE  \A q \in Requests : Faithful(req[q])'
<1> PICK new : new = [step |-> s, booking |-> b, row |-> e, side |-> w]
  OBVIOUS
<1>1. req' = [req EXCEPT ![r] = new] /\ req \in [Requests -> Request]
  BY DEF TypeInv, TypeOK, Goto
<1> SUFFICES ASSUME NEW q \in Requests PROVE Faithful(req[q])'
  OBVIOUS
<1>2. CASE q = r
  BY <1>1, <1>2
<1>3. CASE q # r
  <2> PICK o : o = req[q] /\ o = req'[q]
    BY <1>1, <1>3
  <2>1. Faithful(o)'
    BY FaithfulKept DEF TypeInv, Held
  <2> QED
    BY <2>1
<1> QED
  BY <1>2, <1>3

LEMMA FinishFaithful ==
    ASSUME TypeInv, KeysKept, \A q \in Requests : Faithful(req[q]),
           NEW r \in Requests, Finish(r)
    PROVE  \A q \in Requests : Faithful(req[q])'
<1>1. Goto(r, "idle", NoBooking, NoRow, "owner")
  BY DEF Finish, Goto, Idle
<1>2. Faithful([step |-> "idle", booking |-> NoBooking, row |-> NoRow, side |-> "owner"])'
  BY DEF Faithful, Drafting, Copying
<1> QED
  BY <1>1, <1>2, GotoFaithful

\* The steps that write no row.
LEMMA RowsUntouched ==
    ASSUME RowsInv, UNCHANGED <<rows, past, cancellations, outbox, idem, replies>>,
           \A q \in Requests : Faithful(req[q])'
    PROVE  FaithfulInv'
BY DEF RowsInv, FaithfulInv, Exists, OutboxOf, RetriesAreSafe, Timed

LEMMA FaithfulGoto ==
    ASSUME RowsInv, UNCHANGED <<rows, past, cancellations, outbox, idem, replies>>,
           NEW r \in Requests, NEW s, NEW b, NEW e, NEW w, Goto(r, s, b, e, w),
           Faithful([step |-> s, booking |-> b, row |-> e, side |-> w])'
    PROVE  FaithfulInv'
<1>1. \A q \in Requests : Faithful(req[q])'
  BY GotoFaithful DEF RowsInv, PaymentInv, FaithfulInv, KeysKept
<1> QED
  BY <1>1, RowsUntouched

LEMMA FaithfulFinish ==
    ASSUME RowsInv, UNCHANGED <<rows, past, cancellations, outbox, idem, replies>>,
           NEW r \in Requests, Finish(r)
    PROVE  FaithfulInv'
<1>1. \A q \in Requests : Faithful(req[q])'
  BY FinishFaithful DEF RowsInv, PaymentInv, FaithfulInv, KeysKept
<1> QED
  BY <1>1, RowsUntouched

\* A save of a copy, which commits with the events that its status calls for.
LEMMA FaithfulSave ==
    ASSUME RowsInv, NEW r \in Requests, req[r].step \in Copying,
           NEW b, b = req[r].booking, NEW e, e = req[r].row,
           SaveBooking(b, e), Finish(r), UNCHANGED <<idem, replies>>,
           \A c \in Bookings \ {b} :
              outbox'[c] = outbox[c] /\ cancellations'[c] = cancellations[c],
           OutboxOf(b)'
    PROVE  FaithfulInv'
<1>1. /\ b \in Bookings /\ e \in Row /\ rows[b] # NoRow /\ Timed(e) /\ e.key = rows[b].key
      /\ e # NoRow
  BY HeldCopy, ConstantsAssumption DEF RowsInv, PaymentInv, FaithfulInv, Faithful
<1>2. /\ rows' = [rows EXCEPT ![b] = e] /\ rows \in [Bookings -> Row \cup {NoRow}]
      /\ past' = [past EXCEPT ![b] = past[b] \cup {e.status}] /\ DOMAIN past = Bookings
  BY DEF SaveBooking, RowsInv, PaymentInv, TypeInv, TypeOK
<1>3. /\ \A c \in Bookings : Exists(c)' <=> Exists(c)
      /\ \A c \in Bookings : Exists(c) => rows'[c].key = rows[c].key
      /\ \A c \in Bookings \ {b} : rows'[c] = rows[c] /\ past'[c] = past[c]
      /\ rows'[b] = e
  BY <1>1, <1>2 DEF Exists
<1>4. \A q \in Requests : Faithful(req[q])'
  BY <1>3, FinishFaithful DEF RowsInv, PaymentInv, FaithfulInv, KeysKept, Exists
<1>5. \A c \in Bookings : Exists(c)' => Timed(rows'[c])
  BY <1>1, <1>3 DEF RowsInv, FaithfulInv
<1>6. ASSUME NEW c \in Bookings PROVE OutboxOf(c)'
  <2>1. CASE c = b
    BY <2>1
  <2>2. CASE c # b
    BY <1>3, <2>2 DEF RowsInv, FaithfulInv, OutboxOf
  <2> QED
    BY <2>1, <2>2
<1>7. RetriesAreSafe'
  <2>1. RetriesAreSafe /\ replies \subseteq Keys \X Bookings
    BY DEF RowsInv, FaithfulInv, PaymentInv, TypeInv, TypeOK
  <2>2. \A p \in replies : p[2] \in Bookings
    BY <2>1
  <2> QED
    BY <1>3, <2>1, <2>2 DEF RetriesAreSafe
<1> QED
  BY <1>4, <1>5, <1>6, <1>7 DEF FaithfulInv, Timed, Exists

LEMMA FaithfulMove ==
    ASSUME RowsInv, UNCHANGED <<rows, past, cancellations, outbox, idem, replies>>,
           NEW r \in Requests, NEW s, NEW b, NEW e, NEW w, Goto(r, s, b, e, w),
           s # "create.remember", s \in Drafting => Timed(e),
           s \in Copying => Timed(e) /\ e.key = rows[b].key
    PROVE  FaithfulInv'
<1>1. Faithful([step |-> s, booking |-> b, row |-> e, side |-> w])'
  BY DEF Faithful, Timed
<1> QED
  BY <1>1, FaithfulGoto

\* What a copy keeps when the aggregate moves it along.
LEMMA TimesMove ==
    ASSUME NEW e \in Row, Timed(e)
    PROVE  /\ e.status = Requested => Timed([e EXCEPT !.status = Confirmed])
           /\ canTransition(e.status, Cancelled) => Timed([e EXCEPT !.status = Cancelled])
           /\ canTransition(e.status, InProgress)
              => Timed([e EXCEPT !.status = InProgress, !.startedAt = TRUE])
           /\ canTransition(e.status, Completed)
              => Timed([e EXCEPT !.status = Completed, !.completedAt = TRUE])
           /\ \A t, w : /\ Timed(markReadFor(e, w, t))
                        /\ Timed(markReadFor([e EXCEPT !.lastMessageAt = t], w, t))
<1> USE DEF Row, Timed, Requested, Accepted, Confirmed, InProgress, Completed, Cancelled,
            Disputed
<1>1. e.status = Requested => Timed([e EXCEPT !.status = Confirmed])
  OBVIOUS
<1>2. canTransition(e.status, Cancelled) => Timed([e EXCEPT !.status = Cancelled])
  BY DEF canTransition, ALLOWED_TRANSITIONS
<1>3. canTransition(e.status, InProgress)
      => Timed([e EXCEPT !.status = InProgress, !.startedAt = TRUE])
  BY DEF canTransition, ALLOWED_TRANSITIONS
<1>4. canTransition(e.status, Completed)
      => Timed([e EXCEPT !.status = Completed, !.completedAt = TRUE])
  BY DEF canTransition, ALLOWED_TRANSITIONS
<1>5. ASSUME NEW t, NEW w
      PROVE  /\ Timed(markReadFor(e, w, t))
             /\ Timed(markReadFor([e EXCEPT !.lastMessageAt = t], w, t))
  BY DEF markReadFor
<1> QED
  BY <1>1, <1>2, <1>3, <1>4, <1>5

LEMMA KeyKept ==
    ASSUME NEW e \in Row
    PROVE  /\ \A s : [e EXCEPT !.status = s].key = e.key
           /\ \A s : [e EXCEPT !.status = s, !.startedAt = TRUE].key = e.key
           /\ \A s : [e EXCEPT !.status = s, !.completedAt = TRUE].key = e.key
           /\ \A t, w : /\ markReadFor(e, w, t).key = e.key
                        /\ markReadFor([e EXCEPT !.lastMessageAt = t], w, t).key = e.key
BY DEF Row, markReadFor

LEMMA RowThere ==
    ASSUME RowsInv, NEW b \in Bookings, rows[b] # NoRow
    PROVE  rows[b] \in Row /\ Timed(rows[b])
BY DEF RowsInv, PaymentInv, TypeInv, TypeOK, FaithfulInv, Exists

LEMMA CopyThere ==
    ASSUME RowsInv, NEW r \in Requests, req[r].step \in Copying
    PROVE  /\ req[r].row \in Row /\ req[r].booking \in Bookings
           /\ Timed(req[r].row) /\ req[r].row.key = rows[req[r].booking].key
BY HeldCopy DEF RowsInv, PaymentInv, FaithfulInv, Faithful

LEMMA CreateFaithful ==
    ASSUME RowsInv, NEW r \in Requests, Create(r)
    PROVE  FaithfulInv'
<1> USE DEF Steps, Drafting, Answering, Copying, tables, gateway, clients
<1>0. /\ TypeInv /\ \A q \in Requests : Faithful(req[q])
      /\ RetriesAreSafe /\ replies \subseteq Keys \X Bookings
  BY DEF RowsInv, PaymentInv, FaithfulInv, TypeInv, TypeOK
<1>1. ASSUME NEW k \in Keys, NEW s \in Slots, CreateArrives(r, k, s) PROVE FaithfulInv'
  <2>1. CASE Goto(r, "create.lookup", NoBooking, request(k, s), "owner") /\ UNCHANGED replies
    <3>1. Timed(request(k, s))
      BY DEF Timed, request, Requested, InProgress, Completed, Disputed
    <3> QED
      BY <1>1, <2>1, <3>1, FaithfulMove DEF CreateArrives
  <2>2. CASE idem[k] # NoBooking /\ replies' = replies \cup {<<k, idem[k]>>} /\ UNCHANGED req
    <3>1. replies' = replies
      BY <1>0, <2>2 DEF RetriesAreSafe
    <3>2. \A q \in Requests : Faithful(req[q])'
      BY <1>0, <1>1, <2>2, <3>1 DEF CreateArrives, Faithful, Timed
    <3> QED
      BY <1>1, <2>2, <3>1, <3>2, RowsUntouched DEF CreateArrives
  <2> QED
    BY <1>1, <2>1, <2>2 DEF CreateArrives
<1>2. CASE CreateLookup(r)
  <2>1. Timed(req[r].row)
    BY <1>0, <1>2 DEF CreateLookup, Faithful
  <2> QED
    BY <1>2, <2>1, FaithfulMove DEF CreateLookup
<1>3. CASE CreateCheck(r)
  <2>1. Timed(req[r].row)
    BY <1>0, <1>3 DEF CreateCheck, Faithful
  <2> QED
    BY <1>3, <2>1, FaithfulMove, FaithfulFinish DEF CreateCheck
<1>4. CASE CreateInsert(r)
  <2> PICK e : e = req[r].row
    OBVIOUS
  <2>1. e \in Row /\ Timed(e) /\ e.status = Requested
    BY <1>0, <1>4, HeldDraft DEF CreateInsert, Faithful, RowsInv, PaymentInv, History, StatusOfCopy
  <2>2. CASE Finish(r) /\ UNCHANGED <<rows, past, outbox>>
    BY <1>4, <2>2, FaithfulFinish DEF CreateInsert
  <2>3. ASSUME NEW b \in Bookings, rows[b] = NoRow, SaveBooking(b, e), WithKey(e.key) = {},
               enqueue(b, {"BookingCreated"}), Goto(r, "create.reply", b, NoRow, "owner")
        PROVE  FaithfulInv'
    <3>1. /\ rows' = [rows EXCEPT ![b] = e] /\ rows \in [Bookings -> Row \cup {NoRow}]
          /\ past' = [past EXCEPT ![b] = {Requested}] /\ past[b] = {}
          /\ outbox' = [outbox EXCEPT ![b] = outbox[b] \cup {"BookingCreated"}]
          /\ DOMAIN past = Bookings /\ DOMAIN outbox = Bookings
          /\ UNCHANGED <<cancellations, idem, replies>> /\ e # NoRow
      <4>1. past[b] = {} /\ past[b] \cup {e.status} = {Requested}
        BY <2>1, <2>3 DEF RowsInv, PaymentInv, History, Exists
      <4>2. UNCHANGED <<cancellations, idem, replies>> /\ e # NoRow
        BY <1>4, <2>1, ConstantsAssumption DEF CreateInsert
      <4>3. /\ rows \in [Bookings -> Row \cup {NoRow}]
            /\ DOMAIN past = Bookings /\ DOMAIN outbox = Bookings
        BY <1>0 DEF TypeInv, TypeOK
      <4> QED
        BY <2>3, <4>1, <4>2, <4>3 DEF SaveBooking, enqueue
    <3>2. /\ rows'[b] = e /\ \A c \in Bookings \ {b} : rows'[c] = rows[c]
      BY <3>1
    <3>3. \A q \in Requests : Faithful(req[q])'
      <4>1. Faithful([step |-> "create.reply", booking |-> b, row |-> NoRow, side |-> "owner"])'
        BY DEF Faithful
      <4>2. KeysKept
        BY <2>3, <3>1, <3>2 DEF KeysKept
      <4> QED
        BY <1>0, <2>3, <4>1, <4>2, GotoFaithful
    <3>4. \A c \in Bookings : Exists(c)' => Timed(rows'[c])
      BY <2>1, <3>2 DEF RowsInv, FaithfulInv, Exists
    <3>5. ASSUME NEW c \in Bookings PROVE OutboxOf(c)'
      <4>1. CASE c # b
        BY <3>1, <4>1 DEF RowsInv, FaithfulInv, OutboxOf, Exists
      <4>2. CASE c = b
        <5>1. OutboxOf(b)
          BY DEF RowsInv, FaithfulInv
        <5>2. past'[b] = {Requested} /\ outbox'[b] = outbox[b] \cup {"BookingCreated"}
          BY <3>1
        <5> QED
          BY <3>1, <3>2, <4>2, <5>1, <5>2
             DEF OutboxOf, Exists, Requested, Cancelled, Confirmed, Completed
      <4> QED
        BY <4>1, <4>2
    <3>6. RetriesAreSafe'
      <4>1. \A c \in Bookings : Exists(c) => rows[c].key # e.key
        BY <2>3 DEF WithKey, Exists
      <4>2. \A p \in replies : p[2] \in Bookings /\ p[2] # b
        BY <1>0, <2>3 DEF RetriesAreSafe, Exists
      <4> QED
        BY <1>0, <3>1, <3>2, <4>1, <4>2 DEF RetriesAreSafe, Exists
    <3> QED
      BY <3>3, <3>4, <3>5, <3>6 DEF FaithfulInv, Exists, Timed
  <2> QED
    BY <1>4, <2>2, <2>3 DEF CreateInsert, IndexRefuses
<1>5. CASE CreateReply(r)
  <2> PICK b : b = req[r].booking
    OBVIOUS
  <2>1. b \in Bookings /\ rows[b] \in Row /\ rows[b] # NoRow
    BY <1>0, <1>5, HeldAnswer, ConstantsAssumption DEF CreateReply
  <2>2. /\ replies' = replies \cup {<<rows[b].key, b>>}
        /\ Goto(r, "create.remember", b, NoRow, "owner")
        /\ UNCHANGED <<rows, past, cancellations, outbox, idem>>
    BY <1>5 DEF CreateReply
  <2>3. Faithful([step |-> "create.remember", booking |-> b, row |-> NoRow, side |-> "owner"])'
    BY <2>2 DEF Faithful
  <2>4. \A q \in Requests : Faithful(req[q])'
    <3>1. KeysKept
      BY <2>2 DEF KeysKept
    <3> QED
      BY <1>0, <2>2, <2>3, <3>1, GotoFaithful
  <2>5. RetriesAreSafe'
    BY <1>0, <2>1, <2>2 DEF RetriesAreSafe, Exists
  <2> QED
    BY <2>2, <2>4, <2>5 DEF RowsInv, FaithfulInv, Exists, OutboxOf, Timed
<1>6. CASE CreateRemember(r)
  <2> PICK b : b = req[r].booking
    OBVIOUS
  <2>1. /\ idem' = [idem EXCEPT ![rows[b].key] = b] /\ Finish(r)
        /\ UNCHANGED <<rows, past, cancellations, outbox, replies>>
        /\ <<rows[b].key, b>> \in replies
    BY <1>0, <1>6 DEF CreateRemember, Faithful
  <2>2. \A q \in Requests : Faithful(req[q])'
    <3>1. KeysKept
      BY <2>1 DEF KeysKept
    <3> QED
      BY <1>0, <2>1, <3>1, FinishFaithful
  <2>3. RetriesAreSafe'
    BY <1>0, <2>1 DEF RetriesAreSafe, Exists, TypeInv, TypeOK
  <2> QED
    BY <2>1, <2>2, <2>3 DEF RowsInv, FaithfulInv, Exists, OutboxOf, Timed
<1> QED
  BY <1>1, <1>2, <1>3, <1>4, <1>5, <1>6 DEF Create

\* Copies are loaded, moved along and saved.
LEMMA CopyFaithful ==
    ASSUME RowsInv, NEW r \in Requests, Decide(r) \/ Walk(r) \/ Chat(r) \/ Save(r)
    PROVE  FaithfulInv'
<1> USE DEF Steps, Drafting, Answering, Copying, tables, gateway, clients
<1>1. ASSUME NEW b \in Bookings, AcceptLoad(r, b) PROVE FaithfulInv'
  BY <1>1, RowThere, FaithfulMove DEF AcceptLoad, Arrives
<1>2. CASE AcceptAuthorize(r)
  <2> PICK b, e : b = req[r].booking /\ e = req[r].row
    OBVIOUS
  <2>1. e \in Row /\ Timed(e) /\ e.key = rows[b].key
    BY <1>2, CopyThere DEF AcceptAuthorize
  <2>2. UNCHANGED <<rows, past, cancellations, outbox, idem, replies>>
    BY <1>2 DEF AcceptAuthorize
  <2>3. CASE /\ canTransition(e.status, Accepted)
             /\ Goto(r, "accept.save", b, [e EXCEPT !.status = Confirmed], "provider")
    BY <2>1, <2>2, <2>3, OneWayIn, TimesMove, KeyKept, FaithfulMove
  <2>4. CASE Finish(r)
    BY <2>2, <2>4, FaithfulFinish
  <2>5. CASE Goto(r, "accept.decline", b, e, "provider")
    BY <2>1, <2>2, <2>5, FaithfulMove
  <2> QED
    BY <1>2, <2>3, <2>4, <2>5 DEF AcceptAuthorize
<1>3. CASE AcceptDecline(r)
  <2> PICK b : b = req[r].booking
    OBVIOUS
  <2>1. /\ b \in Bookings /\ DOMAIN outbox = Bookings /\ TypeInv
        /\ outbox' = [outbox EXCEPT ![b] = outbox[b] \cup {"BookingPaymentAuthorizationFailed"}]
        /\ UNCHANGED <<rows, past, cancellations, idem, replies>> /\ Finish(r)
    BY <1>3, CopyThere DEF AcceptDecline, enqueue, RowsInv, PaymentInv, TypeInv, TypeOK
  <2>2. \A q \in Requests : Faithful(req[q])'
    BY <2>1, FinishFaithful DEF RowsInv, FaithfulInv, KeysKept
  <2>3. ASSUME NEW c \in Bookings PROVE OutboxOf(c)'
    <3>1. OutboxOf(c)
      BY DEF RowsInv, FaithfulInv
    <3>2. outbox'[c] \subseteq outbox[c] \cup {"BookingPaymentAuthorizationFailed"}
          /\ outbox[c] \subseteq outbox'[c]
      BY <2>1
    <3> QED
      BY <2>1, <3>1, <3>2 DEF OutboxOf, Exists
  <2> QED
    BY <2>1, <2>2, <2>3 DEF RowsInv, FaithfulInv, Exists, RetriesAreSafe, Timed
<1>4. CASE AcceptSave(r)
  <2> PICK b, e : b = req[r].booking /\ e = req[r].row
    OBVIOUS
  <2>1. /\ b \in Bookings /\ DOMAIN outbox = Bookings /\ DOMAIN past = Bookings
        /\ rows[b] # NoRow /\ e # NoRow /\ DOMAIN rows = Bookings
        /\ e.status = Confirmed /\ SaveBooking(b, e) /\ Finish(r)
        /\ outbox' = [outbox EXCEPT ![b] = outbox[b] \cup {"ProviderAccepted", "BookingConfirmed"}]
        /\ UNCHANGED <<cancellations, idem, replies>>
    BY <1>4, HeldCopy, ConstantsAssumption DEF AcceptSave, enqueue, RowsInv, PaymentInv,
       TypeInv, TypeOK, History, StatusOfCopy
  <2>2. /\ past'[b] = past[b] \cup {Confirmed} /\ rows'[b] # NoRow
        /\ outbox'[b] = outbox[b] \cup {"ProviderAccepted", "BookingConfirmed"}
    BY <2>1 DEF SaveBooking
  <2>3. OutboxOf(b)'
    <3>1. OutboxOf(b)
      BY <2>1 DEF RowsInv, FaithfulInv
    <3> QED
      BY <2>1, <2>2, <3>1 DEF OutboxOf, Exists, Confirmed, Cancelled, Completed
  <2> QED
    BY <1>4, <2>1, <2>3, FaithfulSave DEF AcceptSave
<1>5. ASSUME NEW b \in Bookings, CancelLoad(r, b) PROVE FaithfulInv'
  BY <1>5, RowThere, TimesMove, KeyKept, FaithfulMove DEF CancelLoad, Arrives
<1>6. CASE CancelSave(r)
  <2> PICK b, e : b = req[r].booking /\ e = req[r].row
    OBVIOUS
  <2>1. /\ b \in Bookings /\ DOMAIN outbox = Bookings /\ DOMAIN past = Bookings
        /\ rows[b] # NoRow /\ e # NoRow /\ DOMAIN rows = Bookings
        /\ cancellations \in [Bookings -> Nat]
        /\ e.status = Cancelled /\ SaveBooking(b, e) /\ Finish(r)
        /\ outbox' = [outbox EXCEPT ![b] = outbox[b] \cup {"BookingCancelled"}]
        /\ cancellations' = [cancellations EXCEPT ![b] = cancellations[b] + 1]
        /\ UNCHANGED <<idem, replies>>
    BY <1>6, HeldCopy, ConstantsAssumption DEF CancelSave, enqueue, RowsInv, PaymentInv,
       TypeInv, TypeOK, History, StatusOfCopy
  <2>2. /\ past'[b] = past[b] \cup {Cancelled} /\ rows'[b] # NoRow
        /\ outbox'[b] = outbox[b] \cup {"BookingCancelled"}
        /\ cancellations'[b] > 0
    BY <2>1 DEF SaveBooking
  <2>3. OutboxOf(b)'
    <3>1. OutboxOf(b)
      BY <2>1 DEF RowsInv, FaithfulInv
    <3> QED
      BY <2>1, <2>2, <3>1 DEF OutboxOf, Exists, Confirmed, Cancelled, Completed
  <2> QED
    BY <1>6, <2>1, <2>3, FaithfulSave DEF CancelSave
<1>7. ASSUME NEW b \in Bookings, StartLoad(r, b) PROVE FaithfulInv'
  BY <1>7, RowThere, TimesMove, KeyKept, FaithfulMove DEF StartLoad, Arrives
<1>8. ASSUME NEW b \in Bookings, CompleteLoad(r, b) PROVE FaithfulInv'
  BY <1>8, RowThere, TimesMove, KeyKept, FaithfulMove DEF CompleteLoad, Arrives
<1>9. CASE CompleteCapture(r)
  BY <1>9, CopyThere, FaithfulMove DEF CompleteCapture
<1>10. CASE CompleteSave(r)
  <2> PICK b, e : b = req[r].booking /\ e = req[r].row
    OBVIOUS
  <2>1. /\ b \in Bookings /\ DOMAIN outbox = Bookings /\ DOMAIN past = Bookings
        /\ rows[b] # NoRow /\ e # NoRow /\ DOMAIN rows = Bookings
        /\ e.status = Completed /\ SaveBooking(b, e) /\ Finish(r)
        /\ outbox' = [outbox EXCEPT ![b] = outbox[b] \cup {"WalkFinished"}]
        /\ UNCHANGED <<cancellations, idem, replies>>
    BY <1>10, HeldCopy, ConstantsAssumption DEF CompleteSave, enqueue, RowsInv, PaymentInv,
       TypeInv, TypeOK, History, StatusOfCopy
  <2>2. /\ past'[b] = past[b] \cup {Completed} /\ rows'[b] # NoRow
        /\ outbox'[b] = outbox[b] \cup {"WalkFinished"}
    BY <2>1 DEF SaveBooking
  <2>3. OutboxOf(b)'
    <3>1. OutboxOf(b)
      BY <2>1 DEF RowsInv, FaithfulInv
    <3> QED
      BY <2>1, <2>2, <3>1 DEF OutboxOf, Exists, Confirmed, Cancelled, Completed
  <2> QED
    BY <1>10, <2>1, <2>3, FaithfulSave DEF CompleteSave
<1>11. ASSUME NEW b \in Bookings, NEW w \in Sides, SendLoad(r, b, w) PROVE FaithfulInv'
  <2> PICK e : e = markReadFor([rows[b] EXCEPT !.lastMessageAt = clock'], w, clock')
    OBVIOUS
  <2>1. Timed(e) /\ e.key = rows[b].key
    <3> PICK f, t : f = rows[b] /\ t = clock'
      OBVIOUS
    <3>1. f \in Row /\ Timed(f)
      BY <1>11, RowThere DEF SendLoad, Arrives
    <3>2. e = markReadFor([f EXCEPT !.lastMessageAt = t], w, t)
      OBVIOUS
    <3>3. Timed(markReadFor([f EXCEPT !.lastMessageAt = t], w, t))
      BY <3>1, TimesMove
    <3> QED
      BY <3>1, <3>2, <3>3, KeyKept
  <2> QED
    BY <1>11, <2>1, FaithfulMove DEF SendLoad
<1>12. CASE SendMessage(r)
  BY <1>12, CopyThere, FaithfulMove DEF SendMessage
<1>13. ASSUME NEW b \in Bookings, NEW w \in Sides, ListLoad(r, b, w) PROVE FaithfulInv'
  BY <1>13, RowThere, FaithfulMove DEF ListLoad, Arrives
<1>14. CASE ListFind(r)
  <2> PICK q : q = req[r]
    OBVIOUS
  <2> PICK e : e = markReadFor(q.row, q.side, clock)
    OBVIOUS
  <2>1. q.row \in Row /\ Timed(q.row) /\ q.row.key = rows[q.booking].key
    BY <1>14, CopyThere DEF ListFind
  <2>2. Timed(e)
    BY <2>1, TimesMove
  <2>3. e.key = rows[q.booking].key
    BY <2>1 DEF Row, markReadFor
  <2> QED
    BY <1>14, <2>2, <2>3, FaithfulMove DEF ListFind
<1>15. CASE Save(r)
  <2> PICK b, e : b = req[r].booking /\ e = req[r].row
    OBVIOUS
  <2>1. /\ b \in Bookings /\ DOMAIN past = Bookings
        /\ rows[b] # NoRow /\ e # NoRow /\ DOMAIN rows = Bookings
        /\ e.status \in past[b] \/ e.status = InProgress
        /\ SaveBooking(b, e) /\ Finish(r)
        /\ UNCHANGED <<outbox, cancellations, idem, replies>>
    BY <1>15, HeldCopy, ConstantsAssumption DEF Save, RowsInv, PaymentInv,
       TypeInv, TypeOK, History, StatusOfCopy
  <2>2. /\ past'[b] \subseteq past[b] \cup {InProgress} /\ past[b] \subseteq past'[b]
        /\ rows'[b] # NoRow
    BY <2>1 DEF SaveBooking
  <2>3. OutboxOf(b)'
    <3>1. OutboxOf(b)
      BY <2>1 DEF RowsInv, FaithfulInv
    <3> QED
      BY <2>1, <2>2, <3>1 DEF OutboxOf, Exists, Confirmed, Cancelled, Completed, InProgress
  <2> QED
    BY <1>15, <2>1, <2>3, FaithfulSave DEF Save
<1> QED
  BY <1>1, <1>2, <1>3, <1>4, <1>5, <1>6, <1>7, <1>8, <1>9, <1>10, <1>11, <1>12, <1>13,
     <1>14, <1>15 DEF Decide, Walk, Chat

LEMMA RowsStep == RowsInv /\ [Next]_vars => FaithfulInv'
<1> SUFFICES ASSUME RowsInv, [Next]_vars PROVE FaithfulInv'
  OBVIOUS
<1> USE DEF tables, clients
<1>1. ASSUME NEW r \in Requests, Abandon(r) PROVE FaithfulInv'
  BY <1>1, FaithfulFinish DEF Abandon
<1>2. ASSUME NEW k \in Keys, Expire(k) PROVE FaithfulInv'
  <2>1. RetriesAreSafe'
    BY <1>2 DEF Expire, RowsInv, FaithfulInv, PaymentInv, TypeInv, TypeOK, RetriesAreSafe, Exists
  <2> QED
    BY <1>2, <2>1 DEF Expire, RowsInv, FaithfulInv, Exists, OutboxOf, Timed, Faithful
<1>3. CASE UNCHANGED vars
  BY <1>3, RowsUntouched DEF vars, RowsInv, FaithfulInv, Faithful, Timed
<1> QED
  BY <1>1, <1>2, <1>3, CreateFaithful, CopyFaithful DEF Next

LEMMA AlwaysFaithful == Spec => []RowsInv
<1>1. Init => FaithfulInv
  <2> SUFFICES ASSUME Init PROVE FaithfulInv
    OBVIOUS
  <2>1. \A r \in Requests : Faithful(req[r])
    BY DEF Init, Idle, Faithful, Drafting, Copying
  <2>2. \A b \in Bookings : ~Exists(b) /\ OutboxOf(b)
    BY DEF Init, OutboxOf, Exists
  <2>3. RetriesAreSafe
    BY <2>2 DEF Init, RetriesAreSafe
  <2> QED
    BY <2>1, <2>2, <2>3 DEF FaithfulInv
<1> QED
  BY <1>1, RowsStep, AlwaysPaid, PTL DEF Spec, RowsInv

\* Whatever is saved over whatever, a row shows the times of its own status.
THEOREM TimesAgree == Spec => []TimesMatchStatus
<1>1. RowsInv => TimesMatchStatus
  BY DEF RowsInv, FaithfulInv, Timed, TimesMatchStatus
<1> QED
  BY <1>1, AlwaysFaithful, PTL

\* Each status a booking has ever had was committed with its events, and a cancellation
\* with its record.
THEOREM OutboxAgrees == Spec => []OutboxMatchesRow
<1>1. RowsInv => OutboxMatchesRow
  BY DEF RowsInv, FaithfulInv, OutboxOf, OutboxMatchesRow
<1> QED
  BY <1>1, AlwaysFaithful, PTL

\* However often and however concurrently a client retries a key, there is at most one
\* booking for it, and every answer, remembered ones too, names that booking.
THEOREM SafeRetries == Spec => []RetriesAreSafe
<1>1. RowsInv => RetriesAreSafe
  BY DEF RowsInv, FaithfulInv
<1> QED
  BY <1>1, AlwaysFaithful, PTL

--------------------------------------------------------------------------------
(***************************************************************************)
(* Where requests on one booking do not overlap, a copy is never stale.     *)
(***************************************************************************)

WorksOn(q, b) == q.step \in Copying /\ q.booking = b

Solo == \A r, s \in Requests : \A b \in Bookings :
            WorksOn(req[r], b) /\ WorksOn(req[s], b) => r = s

\* The copy is the row, or has the status that its step takes the row to.
InStep(q) ==
    q.step \in Copying =>
        LET was == rows[q.booking] IN
        /\ q.step \in {"accept.authorize", "accept.decline", "list.find"} => q.row = was
        /\ q.step = "accept.save" => was.status = Requested /\ q.row.status = Confirmed
        /\ q.step = "cancel.save"
           => canTransition(was.status, Cancelled) /\ q.row.status = Cancelled
        /\ q.step \in {"complete.capture", "complete.save"}
           => was.status = InProgress /\ q.row.status = Completed
        /\ q.step = "send.message" => q.row.status = was.status
        /\ q.step = "save"
           => \/ q.row.status = was.status
              \/ was.status = Confirmed /\ q.row.status = InProgress

SoloInv == Solo /\ (\A r \in Requests : InStep(req[r])) /\ CancelledOnce

\* A step of r that touches no row others work on.
LEMMA SoloStep ==
    ASSUME TypeInv, SoloInv, NEW r \in Requests, NEW new, req' = [req EXCEPT ![r] = new],
           \A q \in Requests \ {r} : req[q].step \in Copying
               => rows'[req[q].booking] = rows[req[q].booking],
           \A b \in Bookings, q \in Requests \ {r} : ~(WorksOn(new, b) /\ WorksOn(req[q], b)),
           InStep(new)'
    PROVE  Solo' /\ \A q \in Requests : InStep(req[q])'
<1>0. req \in [Requests -> Request]
  BY DEF TypeInv, TypeOK
<1>1. req'[r] = new /\ \A q \in Requests \ {r} : req'[q] = req[q]
  BY <1>0
<1>2. Solo'
  <2> SUFFICES ASSUME NEW p \in Requests, NEW q \in Requests, NEW b \in Bookings,
                      WorksOn(req'[p], b), WorksOn(req'[q], b)
               PROVE  p = q
    BY DEF Solo, WorksOn
  <2> QED
    BY <1>1 DEF SoloInv, Solo
<1>3. ASSUME NEW q \in Requests PROVE InStep(req[q])'
  <2>1. CASE q = r
    BY <1>1, <2>1
  <2>2. CASE q # r
    <3> PICK o : o = req[q] /\ o = req'[q]
      BY <1>1, <2>2
    <3>1. InStep(o) /\ (o.step \in Copying => rows'[o.booking] = rows[o.booking])
      BY <2>2 DEF SoloInv
    <3>2. InStep(o)'
      BY <3>1 DEF InStep
    <3> QED
      BY <3>2
  <2> QED
    BY <2>1, <2>2
<1> QED
  BY <1>2, <1>3

LEMMA IdleInStep == InStep(Idle)' /\ \A b : ~WorksOn(Idle, b)
BY DEF InStep, WorksOn, Idle, Copying

LEMMA SoloQuiet ==
    ASSUME SoloInv, UNCHANGED <<rows, cancellations>>
    PROVE  CancelledOnce'
BY DEF SoloInv, CancelledOnce, Exists

\* A request ends, leaving the rows as they are.
LEMMA SoloFinish ==
    ASSUME TypeInv, SoloInv, UNCHANGED <<rows, cancellations>>, NEW r \in Requests, Finish(r)
    PROVE  SoloInv'
<1>1. Solo' /\ \A q \in Requests : InStep(req[q])'
  BY IdleInStep, SoloStep DEF Finish
<1> QED
  BY <1>1, SoloQuiet DEF SoloInv

\* A request loads a booking, or goes on with the one it works on, or has none.
LEMMA SoloGoto ==
    ASSUME TypeInv, SoloInv, UNCHANGED <<rows, cancellations>>, NEW r \in Requests,
           NEW s, NEW b, NEW e, NEW w, Goto(r, s, b, e, w),
           \/ s \notin Copying
           \/ WorksOn(req[r], b)
           \/ \A q \in Requests : req[q].row = NoRow \/ req[q].booking # b,
           InStep([step |-> s, booking |-> b, row |-> e, side |-> w])
    PROVE  SoloInv'
<1> PICK new : new = [step |-> s, booking |-> b, row |-> e, side |-> w]
  OBVIOUS
<1>1. \A c \in Bookings, q \in Requests \ {r} : ~(WorksOn(new, c) /\ WorksOn(req[q], c))
  <2> SUFFICES ASSUME NEW c \in Bookings, NEW q \in Requests \ {r},
                      WorksOn(new, c), WorksOn(req[q], c)
               PROVE  FALSE
    OBVIOUS
  <2>1. c = b /\ s \in Copying /\ req[q].step \in Copying /\ req[q].booking = b
    BY DEF WorksOn
  <2>2. req[q].row # NoRow
    BY <2>1, HeldCopy, ConstantsAssumption
  <2>3. WorksOn(req[r], b)
    BY <2>1, <2>2
  <2> QED
    BY <2>1, <2>3 DEF SoloInv, Solo
<1>2. req' = [req EXCEPT ![r] = new]
  BY DEF Goto
<1>3. InStep(new)'
  BY DEF InStep
<1>4. Solo' /\ \A q \in Requests : InStep(req[q])'
  BY <1>1, <1>2, <1>3, SoloStep
<1> QED
  BY <1>4, SoloQuiet DEF SoloInv

\* A save takes the row along an allowed transition or leaves its status.
Along(r) ==
    LET was == rows[req[r].booking].status
        now == req[r].row.status IN
    /\ was = now \/ canTransition(was, now)
    /\ req[r].step = "cancel.save" <=> was # Cancelled /\ now = Cancelled

LEMMA SaveAlong ==
    ASSUME TypeInv, SoloInv, NEW r \in Requests,
           req[r].step \in {"accept.save", "cancel.save", "complete.save", "save"}
    PROVE  Along(r)
<1>1. InStep(req[r]) /\ req[r].step \in Copying
  BY DEF SoloInv, Copying, Steps, Drafting, Answering
<1>2. /\ canTransition(Requested, Confirmed) /\ canTransition(InProgress, Completed)
      /\ canTransition(Confirmed, InProgress) /\ ~canTransition(Cancelled, Cancelled)
      /\ Confirmed # Cancelled /\ Completed # Cancelled /\ InProgress # Cancelled
  BY DEF canTransition, ALLOWED_TRANSITIONS, Requested, Accepted, Confirmed, InProgress,
         Completed, Cancelled, Disputed
<1> QED
  BY <1>1, <1>2 DEF InStep, Along

LEMMA SoloSave ==
    ASSUME TypeInv, SoloInv, NEW r \in Requests,
           req[r].step \in {"accept.save", "cancel.save", "complete.save", "save"},
           SaveBooking(req[r].booking, req[r].row), Finish(r),
           cancellations' = IF req[r].step = "cancel.save"
                            THEN [cancellations EXCEPT ![req[r].booking] = @ + 1]
                            ELSE cancellations
    PROVE  SoloInv'
<1> PICK b, e : b = req[r].booking /\ e = req[r].row
  OBVIOUS
<1>0. req[r].step \in Copying
  BY DEF Copying, Steps, Drafting, Answering
<1>1. b \in Bookings /\ e \in Row /\ rows[b] # NoRow /\ e # NoRow
  BY <1>0, HeldCopy, ConstantsAssumption
<1>2. rows' = [rows EXCEPT ![b] = e] /\ rows \in [Bookings -> Row \cup {NoRow}]
      /\ cancellations \in [Bookings -> Nat]
  BY DEF SaveBooking, TypeInv, TypeOK
<1>3. Solo' /\ \A q \in Requests : InStep(req[q])'
  <2>1. ASSUME NEW q \in Requests \ {r}, req[q].step \in Copying
        PROVE  rows'[req[q].booking] = rows[req[q].booking]
    <3>1. req[q].booking # b
      BY <1>0, <1>1, <2>1 DEF SoloInv, Solo, WorksOn
    <3>2. req[q].booking \in Bookings
      BY <2>1, HeldCopy
    <3> QED
      BY <1>2, <3>1, <3>2
  <2> QED
    BY <2>1, IdleInStep, SoloStep DEF Finish
<1>4. CancelledOnce'
  <2> SUFFICES ASSUME NEW c \in Bookings
               PROVE  /\ cancellations'[c] <= 1
                      /\ cancellations'[c] = 1 <=> rows'[c] # NoRow /\ rows'[c].status = Cancelled
    BY DEF CancelledOnce, Exists
  <2>1. /\ cancellations[c] \in Nat /\ cancellations[c] <= 1
        /\ cancellations[c] = 1 <=> rows[c] # NoRow /\ rows[c].status = Cancelled
    BY <1>2 DEF SoloInv, CancelledOnce, Exists
  <2>2. CASE c # b
    BY <1>1, <1>2, <2>1, <2>2
  <2>3. CASE c = b
    <3>1. rows'[b] = e /\ (req[r].step = "cancel.save" <=> rows[b].status # Cancelled /\ e.status = Cancelled)
      BY <1>1, <1>2, SaveAlong DEF Along
    <3>2. rows[b].status = Cancelled => e.status = Cancelled
      <4>1. ASSUME NEW s PROVE ~canTransition(Cancelled, s)
        BY DEF canTransition, ALLOWED_TRANSITIONS, Requested, Accepted, Confirmed, InProgress,
               Completed, Cancelled, Disputed
      <4> QED
        BY <4>1, SaveAlong DEF Along
    <3>3. cancellations'[b] = IF req[r].step = "cancel.save" THEN cancellations[b] + 1
                              ELSE cancellations[b]
      BY <1>1, <1>2
    <3> QED
      BY <1>1, <2>1, <2>3, <3>1, <3>2, <3>3
  <2> QED
    BY <2>2, <2>3
<1> QED
  BY <1>3, <1>4 DEF SoloInv

LEMMA SoloLoad ==
    ASSUME OneAtATime, TypeInv, SoloInv, UNCHANGED <<rows, cancellations>>, NEW r \in Requests,
           NEW x, NEW b, Arrives(r, x, b), NEW s, NEW e, NEW w, Goto(r, s, b, e, w),
           InStep([step |-> s, booking |-> b, row |-> e, side |-> w])
    PROVE  SoloInv'
BY SoloGoto DEF Arrives

LEMMA SoloGoesOn ==
    ASSUME TypeInv, SoloInv, UNCHANGED <<rows, cancellations>>, NEW r \in Requests,
           req[r].step \in Copying, NEW s, NEW e, NEW w, Goto(r, s, req[r].booking, e, w),
           InStep([step |-> s, booking |-> req[r].booking, row |-> e, side |-> w])
    PROVE  SoloInv'
BY SoloGoto DEF WorksOn

LEMMA SoloAnswer ==
    ASSUME TypeInv, SoloInv, UNCHANGED <<rows, cancellations>>, NEW r \in Requests,
           NEW s, s \notin Copying, NEW b, NEW e, NEW w, Goto(r, s, b, e, w)
    PROVE  SoloInv'
<1>1. InStep([step |-> s, booking |-> b, row |-> e, side |-> w])
  BY DEF InStep
<1> QED
  BY <1>1, SoloGoto

LEMMA SoloCreate ==
    ASSUME TypeInv, SoloInv, NEW r \in Requests, Create(r), PaymentInv
    PROVE  SoloInv'
<1> USE DEF Steps, Drafting, Answering, Copying, tables, gateway, clients
<1>1. ASSUME NEW k \in Keys, NEW s \in Slots, CreateArrives(r, k, s) PROVE SoloInv'
  <2>1. CASE UNCHANGED req
    <3>1. UNCHANGED <<rows, cancellations, req>>
      BY <1>1, <2>1 DEF CreateArrives
    <3> QED
      BY <3>1, SoloQuiet DEF SoloInv, Solo, WorksOn, InStep
  <2>2. CASE Goto(r, "create.lookup", NoBooking, request(k, s), "owner")
    BY <1>1, <2>2, SoloAnswer DEF CreateArrives
  <2> QED
    BY <1>1, <2>1, <2>2 DEF CreateArrives
<1>2. CASE CreateLookup(r)
  BY <1>2, SoloAnswer DEF CreateLookup
<1>3. CASE CreateCheck(r)
  BY <1>3, SoloAnswer, SoloFinish DEF CreateCheck
<1>4. CASE CreateInsert(r)
  <2> PICK e : e = req[r].row
    OBVIOUS
  <2>1. CASE Finish(r) /\ UNCHANGED <<rows, past, outbox>>
    BY <1>4, <2>1, SoloFinish DEF CreateInsert
  <2>2. ASSUME NEW b \in Bookings, rows[b] = NoRow, SaveBooking(b, e),
               Goto(r, "create.reply", b, NoRow, "owner")
        PROVE  SoloInv'
    <3>1. /\ rows' = [rows EXCEPT ![b] = e] /\ rows \in [Bookings -> Row \cup {NoRow}]
          /\ UNCHANGED cancellations /\ cancellations \in [Bookings -> Nat]
          /\ e.status = Requested
      BY <1>4, <2>2 DEF SaveBooking, CreateInsert, TypeInv, TypeOK, PaymentInv, History, StatusOfCopy
    <3>2. ASSUME NEW q \in Requests \ {r}, req[q].step \in Copying
          PROVE  rows'[req[q].booking] = rows[req[q].booking]
      BY <2>2, <3>1, <3>2, HeldCopy
    <3>3. PICK new : new = [step |-> "create.reply", booking |-> b, row |-> NoRow, side |-> "owner"]
      OBVIOUS
    <3>4. InStep(new)' /\ \A c \in Bookings : ~WorksOn(new, c)
      BY <3>3 DEF InStep, WorksOn
    <3>5. Solo' /\ \A q \in Requests : InStep(req[q])'
      BY <2>2, <3>2, <3>3, <3>4, SoloStep DEF Goto
    <3>6. CancelledOnce'
      BY <2>2, <3>1 DEF SoloInv, CancelledOnce, Exists, Requested, Cancelled
    <3> QED
      BY <3>5, <3>6 DEF SoloInv
  <2> QED
    BY <1>4, <2>1, <2>2 DEF CreateInsert
<1>5. CASE CreateReply(r)
  BY <1>5, SoloAnswer DEF CreateReply
<1>6. CASE CreateRemember(r)
  BY <1>6, SoloFinish DEF CreateRemember
<1> QED
  BY <1>1, <1>2, <1>3, <1>4, <1>5, <1>6 DEF Create

LEMMA SoloCopy ==
    ASSUME OneAtATime, TypeInv, SoloInv, NEW r \in Requests,
           Decide(r) \/ Walk(r) \/ Chat(r) \/ Save(r)
    PROVE  SoloInv'
<1> USE DEF Steps, Drafting, Answering, Copying, tables, gateway, clients
<1>0. InStep(req[r]) /\ \A b \in Bookings : rows[b] # NoRow => rows[b] \in Row
  BY DEF SoloInv, TypeInv, TypeOK
<1>1. ASSUME NEW b \in Bookings, AcceptLoad(r, b) PROVE SoloInv'
  <2>1. InStep([step |-> "accept.authorize", booking |-> b, row |-> rows[b], side |-> "provider"])
    BY DEF InStep
  <2> QED
    BY <1>1, <2>1, SoloLoad DEF AcceptLoad
<1>2. CASE AcceptAuthorize(r)
  <2> PICK b, e : b = req[r].booking /\ e = req[r].row
    OBVIOUS
  <2>1. e \in Row /\ e = rows[b]
    BY <1>0, <1>2, HeldCopy DEF AcceptAuthorize, InStep
  <2>2. CASE canTransition(e.status, Accepted)
             /\ Goto(r, "accept.save", b, [e EXCEPT !.status = Confirmed], "provider")
    <3>1. InStep([step |-> "accept.save", booking |-> b, row |-> [e EXCEPT !.status = Confirmed], side |-> "provider"])
      BY <2>1, <2>2, OneWayIn DEF InStep, Row
    <3> QED
      BY <1>2, <2>2, <3>1, SoloGoesOn DEF AcceptAuthorize
  <2>3. CASE Finish(r)
    BY <1>2, <2>3, SoloFinish DEF AcceptAuthorize
  <2>4. CASE Goto(r, "accept.decline", b, e, "provider")
    <3>1. InStep([step |-> "accept.decline", booking |-> b, row |-> e, side |-> "provider"])
      BY <2>1 DEF InStep
    <3> QED
      BY <1>2, <2>4, <3>1, SoloGoesOn DEF AcceptAuthorize
  <2> QED
    BY <1>2, <2>2, <2>3, <2>4 DEF AcceptAuthorize
<1>3. CASE AcceptDecline(r)
  BY <1>3, SoloFinish DEF AcceptDecline
<1>4. CASE AcceptSave(r)
  BY <1>4, SoloSave DEF AcceptSave
<1>5. ASSUME NEW b \in Bookings, CancelLoad(r, b) PROVE SoloInv'
  <2>1. InStep([step |-> "cancel.save", booking |-> b, row |-> [rows[b] EXCEPT !.status = Cancelled], side |-> "owner"])
    BY <1>0, <1>5 DEF InStep, CancelLoad, Arrives, Row
  <2> QED
    BY <1>5, <2>1, SoloLoad DEF CancelLoad
<1>6. CASE CancelSave(r)
  BY <1>6, SoloSave DEF CancelSave
<1>7. ASSUME NEW b \in Bookings, StartLoad(r, b) PROVE SoloInv'
  <2>1. InStep([step |-> "save", booking |-> b,
                row |-> [rows[b] EXCEPT !.status = InProgress, !.startedAt = TRUE], side |-> "provider"])
    BY <1>0, <1>7, OneWayIn DEF InStep, StartLoad, Arrives, Row
  <2> QED
    BY <1>7, <2>1, SoloLoad DEF StartLoad
<1>8. ASSUME NEW b \in Bookings, CompleteLoad(r, b) PROVE SoloInv'
  <2>1. InStep([step |-> "complete.capture", booking |-> b,
                row |-> [rows[b] EXCEPT !.status = Completed, !.completedAt = TRUE], side |-> "provider"])
    BY <1>0, <1>8, OneWayIn DEF InStep, CompleteLoad, Arrives, Row
  <2> QED
    BY <1>8, <2>1, SoloLoad DEF CompleteLoad
<1>9. CASE CompleteCapture(r)
  <2>1. InStep([step |-> "complete.save", booking |-> req[r].booking, row |-> req[r].row, side |-> "provider"])
    BY <1>0, <1>9 DEF InStep, CompleteCapture
  <2> QED
    BY <1>9, <2>1, SoloGoesOn DEF CompleteCapture
<1>10. CASE CompleteSave(r)
  BY <1>10, SoloSave DEF CompleteSave
<1>11. ASSUME NEW b \in Bookings, NEW w \in Sides, SendLoad(r, b, w) PROVE SoloInv'
  <2> PICK e : e = markReadFor([rows[b] EXCEPT !.lastMessageAt = clock'], w, clock')
    OBVIOUS
  <2>1. e.status = rows[b].status
    BY <1>0, <1>11 DEF SendLoad, Arrives, markReadFor, Row
  <2>2. InStep([step |-> "send.message", booking |-> b, row |-> e, side |-> w])
    BY <2>1 DEF InStep
  <2> QED
    BY <1>11, <2>2, SoloLoad DEF SendLoad
<1>12. CASE SendMessage(r)
  <2>1. InStep([step |-> "save", booking |-> req[r].booking, row |-> req[r].row, side |-> req[r].side])
    BY <1>0, <1>12 DEF InStep, SendMessage
  <2> QED
    BY <1>12, <2>1, SoloGoesOn DEF SendMessage
<1>13. ASSUME NEW b \in Bookings, NEW w \in Sides, ListLoad(r, b, w) PROVE SoloInv'
  <2>1. InStep([step |-> "list.find", booking |-> b, row |-> rows[b], side |-> w])
    BY DEF InStep
  <2> QED
    BY <1>13, <2>1, SoloLoad DEF ListLoad
<1>14. CASE ListFind(r)
  <2> PICK q : q = req[r]
    OBVIOUS
  <2> PICK e : e = markReadFor(q.row, q.side, clock)
    OBVIOUS
  <2>1. q.row \in Row /\ q.row = rows[q.booking]
    BY <1>0, <1>14, HeldCopy DEF ListFind, InStep
  <2>2. e.status = rows[q.booking].status
    BY <2>1 DEF markReadFor, Row
  <2>3. InStep([step |-> "save", booking |-> q.booking, row |-> e, side |-> q.side])
    BY <2>2 DEF InStep
  <2> QED
    BY <1>14, <2>3, SoloGoesOn DEF ListFind
<1>15. CASE Save(r)
  BY <1>15, SoloSave DEF Save
<1> QED
  BY <1>1, <1>2, <1>3, <1>4, <1>5, <1>6, <1>7, <1>8, <1>9, <1>10, <1>11, <1>12, <1>13,
     <1>14, <1>15 DEF Decide, Walk, Chat

LEMMA SoloNext ==
    ASSUME OneAtATime, PaymentInv, SoloInv, [Next]_vars
    PROVE  SoloInv'
<1> USE DEF tables, PaymentInv
<1>1. ASSUME NEW r \in Requests, Abandon(r) PROVE SoloInv'
  BY <1>1, SoloFinish DEF Abandon
<1>2. ASSUME UNCHANGED <<rows, cancellations, req>> PROVE SoloInv'
  BY <1>2, SoloQuiet DEF SoloInv, Solo, WorksOn, InStep
<1>3. ASSUME NEW k \in Keys, Expire(k) PROVE SoloInv'
  BY <1>2, <1>3 DEF Expire
<1>4. CASE UNCHANGED vars
  BY <1>2, <1>4 DEF vars
<1> QED
  BY <1>1, <1>3, <1>4, SoloCreate, SoloCopy DEF Next

LEMMA AlwaysSolo == ASSUME OneAtATime PROVE Spec => []SoloInv
<1>1. Init => SoloInv
  BY DEF Init, SoloInv, Solo, WorksOn, InStep, Idle, Copying, CancelledOnce, Exists
<1>2. PaymentInv /\ SoloInv /\ [Next]_vars => SoloInv'
  BY SoloNext
<1> QED
  BY <1>1, <1>2, AlwaysPaid, PTL DEF Spec

\* Where requests on one booking do not overlap it is cancelled, with one record, at most
\* once and for good.
THEOREM CancelsOnce == ASSUME OneAtATime PROVE Spec => []CancelledOnce
<1>1. SoloInv => CancelledOnce
  BY DEF SoloInv
<1> QED
  BY <1>1, AlwaysSolo, PTL

--------------------------------------------------------------------------------
(***************************************************************************)
(* Booking implements BookingLifecycle.                                    *)
(***************************************************************************)

LEMMA SameTransitions ==
    /\ Lifecycle!Requested = Requested
    /\ Lifecycle!Statuses = Statuses
    /\ \A s, t : canTransition(s, t) => Lifecycle!canTransition(s, t)
BY DEF Lifecycle!Requested, Lifecycle!Accepted, Lifecycle!Confirmed, Lifecycle!InProgress,
       Lifecycle!Completed, Lifecycle!Cancelled, Lifecycle!Disputed, Lifecycle!Statuses,
       Lifecycle!canTransition, Lifecycle!ALLOWED_TRANSITIONS,
       Requested, Accepted, Confirmed, InProgress, Completed, Cancelled, Disputed, Statuses,
       canTransition, ALLOWED_TRANSITIONS

\* A save takes its booking along the lifecycle or is a stutter; an insert requests one.
LEMMA SaveImplements ==
    ASSUME PaymentInv, SoloInv, NEW r \in Requests,
           req[r].step \in {"accept.save", "cancel.save", "complete.save", "save"},
           SaveBooking(req[r].booking, req[r].row)
    PROVE  [Lifecycle!Next]_statusOf
<1> PICK b, e : b = req[r].booking /\ e = req[r].row
  OBVIOUS
<1>0. TypeInv
  BY DEF PaymentInv
<1>1. b \in Bookings /\ e \in Row /\ rows[b] # NoRow /\ e # NoRow /\ rows[b] \in Row
  BY <1>0, HeldCopy, ConstantsAssumption
     DEF Copying, Steps, Drafting, Answering, TypeInv, TypeOK
<1>2. rows' = [rows EXCEPT ![b] = e] /\ rows \in [Bookings -> Row \cup {NoRow}]
  BY <1>0 DEF SaveBooking, TypeInv, TypeOK
<1>3. /\ statusOf' = [statusOf EXCEPT ![b] = e.status]
      /\ statusOf[b] = rows[b].status /\ e.status \in Statuses /\ rows[b].status \in Statuses
  <2>1. statusOf = [c \in Bookings |-> IF rows[c] # NoRow THEN rows[c].status ELSE NoRow]
        /\ statusOf' = [c \in Bookings |-> IF rows'[c] # NoRow THEN rows'[c].status ELSE NoRow]
    BY DEF statusOf, Exists
  <2>2. rows'[b] = e /\ \A c \in Bookings \ {b} : rows'[c] = rows[c]
    BY <1>1, <1>2
  <2> QED
    BY <1>1, <2>1, <2>2 DEF Row
<1>4. CASE rows[b].status = e.status
  <2>1. statusOf' = statusOf
    BY <1>3, <1>4 DEF statusOf
  <2> QED
    BY <2>1
<1>5. CASE canTransition(rows[b].status, e.status)
  <2>1. Lifecycle!transitionTo(b, e.status)
    BY <1>3, <1>5, SameTransitions, ConstantsAssumption DEF Lifecycle!transitionTo
  <2>2. Lifecycle!Next
    BY <1>1, <1>3, <2>1, SameTransitions DEF Lifecycle!Next
  <2> QED
    BY <2>2
<1> QED
  BY <1>0, <1>4, <1>5, SaveAlong DEF Along

LEMMA InsertImplements ==
    ASSUME PaymentInv, NEW r \in Requests, CreateInsert(r)
    PROVE  [Lifecycle!Next]_statusOf
<1> PICK e : e = req[r].row
  OBVIOUS
<1>1. e \in Row /\ e # NoRow /\ e.status = Requested /\ rows \in [Bookings -> Row \cup {NoRow}]
  BY HeldDraft, ConstantsAssumption
     DEF CreateInsert, Drafting, PaymentInv, History, StatusOfCopy, TypeInv, TypeOK
<1>2. CASE UNCHANGED rows
  BY <1>2 DEF statusOf, Exists
<1>3. ASSUME NEW b \in Bookings, rows[b] = NoRow, SaveBooking(b, e)
      PROVE  Lifecycle!Next
  <2>1. statusOf' = [statusOf EXCEPT ![b] = Requested] /\ statusOf[b] = NoRow
    <3>1. statusOf = [c \in Bookings |-> IF rows[c] # NoRow THEN rows[c].status ELSE NoRow]
          /\ statusOf' = [c \in Bookings |-> IF rows'[c] # NoRow THEN rows'[c].status ELSE NoRow]
      BY DEF statusOf, Exists
    <3>2. rows'[b] = e /\ \A c \in Bookings \ {b} : rows'[c] = rows[c]
      BY <1>1, <1>3 DEF SaveBooking
    <3> QED
      BY <1>1, <1>3, <3>1, <3>2
  <2> QED
    BY <2>1, SameTransitions DEF Lifecycle!Next, Lifecycle!Request
<1> QED
  BY <1>2, <1>3 DEF CreateInsert

\* Where requests on one booking do not overlap, every step of the booking context is,
\* for the statuses of the bookings, a step of BookingLifecycle or none.
THEOREM Implements == ASSUME OneAtATime PROVE Spec => FollowsLifecycle
<1>1. Init => Lifecycle!Init
  BY DEF Init, Lifecycle!Init, statusOf, Exists
<1>2. PaymentInv /\ SoloInv /\ [Next]_vars => [Lifecycle!Next]_statusOf
  <2> SUFFICES ASSUME PaymentInv, SoloInv, [Next]_vars PROVE [Lifecycle!Next]_statusOf
    OBVIOUS
  <2>1. CASE UNCHANGED rows
    BY <2>1 DEF statusOf, Exists
  <2>2. CASE UNCHANGED vars
    BY <2>1, <2>2 DEF vars, tables
  <2> QED
    BY <2>1, <2>2, WhoWrites, SaveImplements, InsertImplements
<1> QED
  BY <1>1, <1>2, AlwaysPaid, AlwaysSolo, PTL DEF Spec, FollowsLifecycle, Lifecycle!Spec

--------------------------------------------------------------------------------
(***************************************************************************)
(* Unread messages: where requests on one booking do not overlap and none   *)
(* dies between sending a message and saving the booking, the stamps of a   *)
(* row account for every message of its thread.                            *)
(***************************************************************************)

At(e, w) == IF w = "owner" THEN e.ownerLastReadAt ELSE e.providerLastReadAt

SameChat(e, f) == e.lastMessageAt = f.lastMessageAt /\ \A w \in Sides : At(e, w) = At(f, w)

Stamped(e) == e.lastMessageAt <= clock /\ \A w \in Sides : At(e, w) <= clock

\* No message is later than the last one, and one that a side had read the thread after
\* was shown to that side, or answered by it.
Accounts(b, e) ==
    \A m \in messages : m.booking = b =>
        /\ m.sentAt <= e.lastMessageAt
        /\ \A w \in Sides \ {m.sender} : m.sentAt <= At(e, w) =>
              \/ m \in seen[w]
              \/ \E n \in messages : n.booking = b /\ n.sender = w /\ n.sentAt >= m.sentAt

\* Until its message is sent, a copy is ahead of the row by that message; one that is
\* saved next accounts for the thread; the others have the stamps of the row.
ChatCopy(q) ==
    /\ q.step \in Drafting \cup Copying => Stamped(q.row)
    /\ q.step \in Copying \ {"save", "send.message"} => SameChat(q.row, rows[q.booking])
    /\ q.step = "send.message" =>
          /\ At(q.row, q.side) = q.row.lastMessageAt
          /\ \A w \in Sides \ {q.side} : /\ At(q.row, w) = At(rows[q.booking], w)
                                         /\ At(q.row, w) < q.row.lastMessageAt
          /\ \A m \in messages : m.booking = q.booking => m.sentAt < q.row.lastMessageAt
    /\ q.step = "save" => Accounts(q.booking, q.row)

Saving(b) == \E r \in Requests : req[r].step = "save" /\ req[r].booking = b

ChatRow(b) == Exists(b) => Stamped(rows[b]) /\ (Saving(b) \/ Accounts(b, rows[b]))

ChatInv ==
    /\ \A r \in Requests : ChatCopy(req[r])
    /\ \A b \in Bookings : ChatRow(b)
    /\ \A m \in messages : m.sentAt <= clock /\ Exists(m.booking)

LEMMA StampTypes ==
    ASSUME NEW e \in Row, NEW w
    PROVE  e.lastMessageAt \in Nat /\ At(e, w) \in Nat
BY DEF Row, At

LEMMA SameAccounts ==
    ASSUME NEW b, NEW e, NEW f, SameChat(e, f), Accounts(b, f)
    PROVE  Accounts(b, e)
BY DEF SameChat, Accounts

\* The aggregate's other moves leave the stamps alone.
LEMMA SameChatMoves ==
    ASSUME NEW e \in Row
    PROVE  /\ SameChat(e, e)
           /\ \A s : SameChat([e EXCEPT !.status = s], e)
           /\ \A s : SameChat([e EXCEPT !.status = s, !.startedAt = TRUE], e)
           /\ \A s : SameChat([e EXCEPT !.status = s, !.completedAt = TRUE], e)
BY DEF SameChat, At, Row

LEMMA MarkedAt ==
    ASSUME NEW e \in Row, NEW w \in Sides, NEW t \in Nat
    PROVE  /\ At(markReadFor(e, w, t), w) = t
           /\ \A v \in Sides \ {w} : At(markReadFor(e, w, t), v) = At(e, v)
           /\ markReadFor(e, w, t).lastMessageAt = e.lastMessageAt
BY DEF At, markReadFor, Row, Sides

\* Messages of a thread that gets none, and what was shown, stay.
ThreadKept(c) ==
    /\ messages \subseteq messages' /\ clock \in Nat /\ clock' \in Nat /\ clock <= clock'
    /\ \A w \in Sides : seen[w] \subseteq seen'[w]
    /\ \A m \in messages' : m.booking = c => m \in messages

LEMMA AccountsKept ==
    ASSUME NEW c, NEW e, ThreadKept(c), Accounts(c, e)
    PROVE  Accounts(c, e)'
BY DEF ThreadKept, Accounts

LEMMA StampedKept ==
    ASSUME NEW c, NEW e \in Row, ThreadKept(c), Stamped(e)
    PROVE  Stamped(e)'
<1>1. e.lastMessageAt \in Nat /\ \A w \in Sides : At(e, w) \in Nat
  BY StampTypes
<1> QED
  BY <1>1 DEF ThreadKept, Stamped

LEMMA ChatCopyKept ==
    ASSUME NEW q, q.step \in Drafting \cup Copying => q.row \in Row, ThreadKept(q.booking),
           ChatCopy(q), q.step \in Copying => rows'[q.booking] = rows[q.booking]
    PROVE  ChatCopy(q)'
<1>1. q.step \in Drafting \cup Copying => Stamped(q.row)'
  BY StampedKept DEF ChatCopy
<1>2. q.step \in Copying \ {"save", "send.message"} => SameChat(q.row, rows[q.booking])'
  BY DEF ChatCopy, SameChat, At
<1>3. q.step = "save" => Accounts(q.booking, q.row)'
  BY AccountsKept DEF ChatCopy
<1>4. q.step = "send.message" =>
          /\ At(q.row, q.side) = q.row.lastMessageAt
          /\ \A w \in Sides \ {q.side} : /\ At(q.row, w) = At(rows'[q.booking], w)
                                         /\ At(q.row, w) < q.row.lastMessageAt
          /\ \A m \in messages' : m.booking = q.booking => m.sentAt < q.row.lastMessageAt
  BY DEF ChatCopy, Copying, Steps, Drafting, Answering, ThreadKept
<1> QED
  BY <1>1, <1>2, <1>3, <1>4 DEF ChatCopy, At

LEMMA HeldRows ==
    ASSUME TypeInv, NEW r \in Requests, req[r].step \in Drafting \cup Copying
    PROVE  req[r].row \in Row
BY HeldCopy, HeldDraft

\* A step of r that is not the save of a thread's copy: what it owes is what r holds next.
LEMMA ChatStep ==
    ASSUME TypeInv, ChatInv, NEW r \in Requests, req[r].step # "save",
           NEW new, req' = [req EXCEPT ![r] = new], UNCHANGED <<rows, messages>>,
           \A c : ThreadKept(c), ChatCopy(new)'
    PROVE  ChatInv'
<1>0. req \in [Requests -> Request]
  BY DEF TypeInv, TypeOK
<1>1. req'[r] = new /\ \A q \in Requests \ {r} : req'[q] = req[q]
  BY <1>0
<1>2. ASSUME NEW q \in Requests PROVE ChatCopy(req[q])'
  <2>1. CASE q = r
    BY <1>1, <2>1
  <2>2. CASE q # r
    <3> PICK o : o = req[q] /\ o = req'[q]
      BY <1>1, <2>2
    <3>1. ChatCopy(o)'
      BY HeldRows, ChatCopyKept DEF ChatInv
    <3> QED
      BY <3>1
  <2> QED
    BY <2>1, <2>2
<1>3. ASSUME NEW b \in Bookings PROVE ChatRow(b)'
  <2> SUFFICES ASSUME Exists(b)' PROVE Stamped(rows[b])' /\ (Saving(b) \/ Accounts(b, rows[b]))'
    BY DEF ChatRow
  <2> PICK e : e = rows[b] /\ e = rows'[b]
    OBVIOUS
  <2>1. e \in Row /\ Stamped(e) /\ (Saving(b) \/ Accounts(b, e))
    BY DEF ChatInv, ChatRow, Exists, TypeInv, TypeOK
  <2>2. Stamped(e)'
    BY <2>1, StampedKept
  <2>3. Saving(b) => Saving(b)'
    BY <1>1 DEF Saving
  <2>4. Accounts(b, e) => Accounts(b, e)'
    BY AccountsKept
  <2> QED
    BY <2>1, <2>2, <2>3, <2>4
<1>4. \A m \in messages' : m.sentAt <= clock' /\ Exists(m.booking)'
  BY DEF ChatInv, ThreadKept, Exists, TypeInv, TypeOK, Message
<1> QED
  BY <1>2, <1>3, <1>4 DEF ChatInv

\* A step that shows and sends nothing.
LEMMA ChatMove ==
    ASSUME TypeInv, ChatInv, NEW r \in Requests, req[r].step # "save",
           NEW s, NEW b, NEW e, NEW w, Goto(r, s, b, e, w),
           UNCHANGED <<rows, messages, seen, clock>>,
           ChatCopy([step |-> s, booking |-> b, row |-> e, side |-> w])
    PROVE  ChatInv'
<1> PICK new : new = [step |-> s, booking |-> b, row |-> e, side |-> w]
  OBVIOUS
<1>1. \A c : ThreadKept(c)
  BY DEF ThreadKept, TypeInv, TypeOK
<1>2. ChatCopy(new)'
  BY DEF ChatCopy, Stamped, SameChat, Accounts, At
<1> QED
  BY <1>1, <1>2, ChatStep DEF Goto

LEMMA ChatFinish ==
    ASSUME TypeInv, ChatInv, NEW r \in Requests, req[r].step # "save", Finish(r),
           UNCHANGED <<rows, messages, seen, clock>>
    PROVE  ChatInv'
<1>1. Goto(r, "idle", NoBooking, NoRow, "owner")
  BY DEF Finish, Goto, Idle
<1>2. ChatCopy([step |-> "idle", booking |-> NoBooking, row |-> NoRow, side |-> "owner"])
  BY DEF ChatCopy, Drafting, Copying
<1> QED
  BY <1>1, <1>2, ChatMove

\* Nobody else saves a thread's copy of the booking that r is at work on.
LEMMA NobodySaves ==
    ASSUME TypeInv, SoloInv, NEW r \in Requests, req[r].step \in Copying,
           req[r].step # "save"
    PROVE  ~Saving(req[r].booking)
<1> SUFFICES ASSUME NEW q \in Requests, req[q].step = "save", req[q].booking = req[r].booking
             PROVE  FALSE
  BY DEF Saving
<1>1. req[r].booking \in Bookings
  BY HeldCopy
<1>2. "save" \in Copying
  BY DEF Copying, Steps, Drafting, Answering
<1> QED
  BY <1>1, <1>2 DEF SoloInv, Solo, WorksOn

LEMMA NobodyThere ==
    ASSUME TypeInv, OneAtATime, NEW r \in Requests, NEW x, NEW b, Arrives(r, x, b)
    PROVE  ~Saving(b) /\ req[r].step = "idle"
<1>1. "save" \in Copying
  BY DEF Copying, Steps, Drafting, Answering
<1> QED
  BY <1>1, HeldCopy, ConstantsAssumption DEF Saving, Arrives

\* The stamps of a row that nobody saves account for its thread.
LEMMA RowAccounts ==
    ASSUME TypeInv, ChatInv, NEW b \in Bookings, rows[b] # NoRow
    PROVE  /\ rows[b] \in Row /\ Stamped(rows[b])
           /\ ~Saving(b) => Accounts(b, rows[b])
BY DEF TypeInv, TypeOK, ChatInv, ChatRow, Exists

\* A booking is loaded, and the copy moved along.
LEMMA ChatLoad ==
    ASSUME OneAtATime, TypeInv, ChatInv, NEW r \in Requests, NEW x, NEW b \in Bookings,
           Arrives(r, x, b), NEW s, s \notin Drafting, s # "send.message", NEW e, NEW w,
           Goto(r, s, b, e, w), UNCHANGED <<rows, messages, seen, clock>>,
           SameChat(e, rows[b])
    PROVE  ChatInv'
<1>1. ~Saving(b) /\ req[r].step = "idle" /\ rows[b] # NoRow
  BY NobodyThere DEF Arrives
<1>2. Stamped(e) /\ Accounts(b, e)
  BY <1>1, RowAccounts, SameAccounts DEF SameChat, Stamped
<1>3. ChatCopy([step |-> s, booking |-> b, row |-> e, side |-> w])
  BY <1>2 DEF ChatCopy
<1> QED
  BY <1>1, <1>3, ChatMove

\* A copy goes on with the stamps of its row.
LEMMA ChatGoesOn ==
    ASSUME TypeInv, ChatInv, NEW r \in Requests,
           req[r].step \in Copying \ {"save", "send.message"}, NEW s,
           s \in Copying \ {"save", "send.message"}, NEW e, SameChat(e, req[r].row),
           NEW w, Goto(r, s, req[r].booking, e, w), UNCHANGED <<rows, messages, seen, clock>>
    PROVE  ChatInv'
<1>1. SameChat(req[r].row, rows[req[r].booking]) /\ Stamped(req[r].row)
  BY DEF ChatInv, ChatCopy
<1>2. Stamped(e) /\ SameChat(e, rows[req[r].booking])
  BY <1>1 DEF SameChat, Stamped
<1>3. s \notin Drafting
  BY DEF Copying
<1>4. ChatCopy([step |-> s, booking |-> req[r].booking, row |-> e, side |-> w])
  BY <1>2, <1>3 DEF ChatCopy
<1> QED
  BY <1>4, ChatMove

\* Saves: what is saved accounts for the thread.
LEMMA ChatSave ==
    ASSUME TypeInv, SoloInv, ChatInv, NEW r \in Requests,
           req[r].step \in {"accept.save", "cancel.save", "complete.save", "save"},
           SaveBooking(req[r].booking, req[r].row), Finish(r),
           UNCHANGED <<messages, seen, clock>>
    PROVE  ChatInv'
<1> PICK b, e : b = req[r].booking /\ e = req[r].row
  OBVIOUS
<1>0. req[r].step \in Copying /\ \A c : ThreadKept(c)
  BY DEF Copying, Steps, Drafting, Answering, ThreadKept, TypeInv, TypeOK
<1>1. b \in Bookings /\ e \in Row /\ rows[b] # NoRow /\ e # NoRow
  BY <1>0, HeldCopy, ConstantsAssumption
<1>2. rows' = [rows EXCEPT ![b] = e] /\ rows \in [Bookings -> Row \cup {NoRow}]
      /\ req \in [Requests -> Request] /\ req' = [req EXCEPT ![r] = Idle]
  BY DEF SaveBooking, Finish, TypeInv, TypeOK
<1>3. Stamped(e) /\ Accounts(b, e)
  <2>1. Stamped(e) /\ (req[r].step = "save" => Accounts(b, e))
    BY <1>0 DEF ChatInv, ChatCopy
  <2>2. CASE req[r].step # "save"
    <3>1. SameChat(e, rows[b])
      BY <1>0, <2>2 DEF ChatInv, ChatCopy
    <3>2. Accounts(b, rows[b])
      BY <1>0, <1>1, <2>2, NobodySaves, RowAccounts
    <3> QED
      BY <2>1, <3>1, <3>2, SameAccounts
  <2> QED
    BY <2>1, <2>2
<1>4. ASSUME NEW q \in Requests PROVE ChatCopy(req[q])'
  <2>1. CASE q = r
    <3>1. req'[r].step = "idle"
      BY <1>2 DEF Idle
    <3> QED
      BY <2>1, <3>1 DEF ChatCopy, Drafting, Copying
  <2>2. CASE q # r
    <3> PICK o : o = req[q] /\ o = req'[q]
      BY <1>2, <2>2
    <3>1. o.step \in Copying => o.booking \in Bookings /\ o.booking # b
      BY <1>0, <1>1, <2>2, HeldCopy DEF SoloInv, Solo, WorksOn
    <3>2. o.step \in Copying => rows'[o.booking] = rows[o.booking]
      BY <1>2, <3>1
    <3>3. ChatCopy(o)'
      BY <1>0, <3>2, HeldRows, ChatCopyKept DEF ChatInv
    <3> QED
      BY <3>3
  <2> QED
    BY <2>1, <2>2
<1>5. ASSUME NEW c \in Bookings PROVE ChatRow(c)'
  <2>1. CASE c = b
    <3> PICK f : f = e /\ f = rows'[c]
      BY <1>1, <1>2, <2>1
    <3>1. Stamped(f)' /\ Accounts(c, f)'
      BY <1>0, <1>1, <1>3, <2>1, StampedKept, AccountsKept
    <3> QED
      BY <3>1 DEF ChatRow
  <2>2. CASE c # b
    <3> PICK f : f = rows[c] /\ f = rows'[c]
      BY <1>2, <2>2
    <3>1. f # NoRow => f \in Row /\ Stamped(f) /\ (Saving(c) \/ Accounts(c, f))
      BY RowAccounts
    <3>2. Saving(c) => Saving(c)'
      BY <1>2, <2>2 DEF Saving
    <3>3. f # NoRow => Stamped(f)' /\ (Accounts(c, f) => Accounts(c, f)')
      BY <1>0, <3>1, StampedKept, AccountsKept
    <3> QED
      BY <3>1, <3>2, <3>3 DEF ChatRow, Exists
  <2> QED
    BY <2>1, <2>2
<1>6. \A m \in messages' : m.sentAt <= clock' /\ Exists(m.booking)'
  <2>1. \A c \in Bookings : Exists(c) => Exists(c)'
    BY <1>1, <1>2 DEF Exists
  <2>2. \A m \in messages : m.booking \in Bookings
    BY DEF TypeInv, TypeOK, Message
  <2> QED
    BY <2>1, <2>2 DEF ChatInv
<1> QED
  BY <1>4, <1>5, <1>6 DEF ChatInv

LEMMA ChatSendLoad ==
    ASSUME OneAtATime, TypeInv, ChatInv, NEW r \in Requests, NEW b \in Bookings,
           NEW w \in Sides, SendLoad(r, b, w)
    PROVE  ChatInv'
<1>0. clock \in Nat
  BY DEF TypeInv, TypeOK
<1> PICK t : t = clock + 1
  OBVIOUS
<1> PICK f : f = [rows[b] EXCEPT !.lastMessageAt = t]
  OBVIOUS
<1> PICK e : e = markReadFor(f, w, t)
  OBVIOUS
<1>1. /\ clock' = t /\ t \in Nat /\ clock \in Nat /\ t = clock + 1
      /\ Goto(r, "send.message", b, e, w) /\ UNCHANGED <<rows, messages, seen>>
  BY <1>0 DEF SendLoad, tables, clients
<1>2. ~Saving(b) /\ req[r].step = "idle" /\ rows[b] # NoRow
  BY NobodyThere DEF SendLoad, Arrives
<1>3. rows[b] \in Row /\ Stamped(rows[b])
  BY <1>2, RowAccounts
<1>4. f \in Row /\ f.lastMessageAt = t /\ \A v \in Sides : At(f, v) = At(rows[b], v)
  BY <1>1, <1>3 DEF Row, At
<1>5. /\ At(e, w) = t /\ e.lastMessageAt = t
      /\ \A v \in Sides \ {w} : At(e, v) = At(rows[b], v) /\ At(e, v) < t
  <2>1. \A v \in Sides : At(rows[b], v) \in Nat /\ At(rows[b], v) <= clock
    BY <1>3, StampTypes DEF Stamped
  <2>2. /\ At(e, w) = t /\ e.lastMessageAt = f.lastMessageAt
        /\ \A v \in Sides \ {w} : At(e, v) = At(f, v)
    BY <1>1, <1>4, MarkedAt
  <2>3. clock < t
    BY <1>1
  <2>4. ASSUME NEW v \in Sides \ {w} PROVE At(e, v) = At(rows[b], v) /\ At(e, v) < t
    BY <1>1, <1>4, <2>1, <2>2, <2>3
  <2> QED
    BY <1>4, <2>2, <2>4
<1>6. \A c : ThreadKept(c)
  BY <1>1 DEF ThreadKept
<1> PICK new : new = [step |-> "send.message", booking |-> b, row |-> e, side |-> w]
  OBVIOUS
<1>7. ChatCopy(new)'
  <2>1. Stamped(e)'
    <3>1. \A v \in Sides : At(e, v) <= t
      BY <1>1, <1>3, <1>5, StampTypes
    <3> QED
      BY <1>1, <1>5, <3>1 DEF Stamped
  <2>2. \A m \in messages' : m.booking = b => m.sentAt < e.lastMessageAt
    BY <1>1, <1>5 DEF ChatInv, TypeInv, TypeOK, Message
  <2>3. /\ At(e, w) = e.lastMessageAt
        /\ \A v \in Sides \ {w} : At(e, v) = At(rows'[b], v) /\ At(e, v) < e.lastMessageAt
    BY <1>1, <1>5
  <2> QED
    BY <2>1, <2>2, <2>3 DEF ChatCopy, At
<1> QED
  BY <1>1, <1>2, <1>6, <1>7, ChatStep DEF Goto

LEMMA ChatListFind ==
    ASSUME TypeInv, SoloInv, ChatInv, NEW r \in Requests, ListFind(r)
    PROVE  ChatInv'
<1> PICK b, f, w, t : b = req[r].booking /\ f = req[r].row /\ w = req[r].side /\ t = clock
  OBVIOUS
<1> PICK e : e = markReadFor(f, w, t)
  OBVIOUS
<1>0. req[r].step = "list.find" /\ "list.find" \in Copying
  BY DEF ListFind, Copying, Steps, Drafting, Answering
<1>1. /\ f \in Row /\ b \in Bookings /\ rows[b] # NoRow /\ w \in Sides /\ t \in Nat
      /\ seen \in [Sides -> SUBSET Message]
  BY <1>0, HeldCopy DEF TypeInv, TypeOK, Request
<1>2. /\ seen' = [seen EXCEPT ![w] = seen[w] \cup {m \in messages : m.booking = b}]
      /\ Goto(r, "save", b, e, w) /\ UNCHANGED <<rows, messages, clock>>
  BY DEF ListFind, tables
<1>3. SameChat(f, rows[b]) /\ Stamped(f) /\ Accounts(b, rows[b])
  BY <1>0, <1>1, NobodySaves, RowAccounts DEF ChatInv, ChatCopy
<1>4. Accounts(b, f)
  BY <1>3, SameAccounts
<1>5. /\ At(e, w) = t /\ e.lastMessageAt = f.lastMessageAt
      /\ \A v \in Sides \ {w} : At(e, v) = At(f, v)
  BY <1>1, MarkedAt
<1>6. \A c : ThreadKept(c)
  BY <1>1, <1>2 DEF ThreadKept
<1> PICK new : new = [step |-> "save", booking |-> b, row |-> e, side |-> w]
  OBVIOUS
<1>7. ChatCopy(new)'
  <2>1. Stamped(e)'
    BY <1>1, <1>2, <1>3, <1>5 DEF Stamped
  <2>2. Accounts(b, e)'
    <3> SUFFICES ASSUME NEW m \in messages, m.booking = b
                 PROVE  /\ m.sentAt <= e.lastMessageAt
                        /\ \A v \in Sides \ {m.sender} : m.sentAt <= At(e, v) =>
                              \/ m \in seen'[v]
                              \/ \E n \in messages : n.booking = b /\ n.sender = v /\ n.sentAt >= m.sentAt
      BY <1>2 DEF Accounts, At
    <3>1. m \in seen'[w]
      BY <1>1, <1>2
    <3>2. ASSUME NEW v \in Sides \ {m.sender}, v # w, m.sentAt <= At(e, v)
          PROVE  \/ m \in seen'[v]
                 \/ \E n \in messages : n.booking = b /\ n.sender = v /\ n.sentAt >= m.sentAt
      BY <1>1, <1>2, <1>4, <1>5, <3>2 DEF Accounts
    <3>3. m.sentAt <= e.lastMessageAt
      BY <1>4, <1>5 DEF Accounts
    <3> QED
      BY <3>1, <3>2, <3>3
  <2>3. "save" \notin Drafting
    BY DEF Drafting
  <2> QED
    BY <2>1, <2>2, <2>3 DEF ChatCopy
<1> QED
  BY <1>0, <1>2, <1>6, <1>7, ChatStep DEF Goto

\* The message that a copy was ahead of its row by.
LEMMA ChatSendMessage ==
    ASSUME TypeInv, SoloInv, ChatInv, NEW r \in Requests, SendMessage(r)
    PROVE  ChatInv'
<1> PICK b, e, w : b = req[r].booking /\ e = req[r].row /\ w = req[r].side
  OBVIOUS
<1> PICK msg : msg = [booking |-> b, sender |-> w, sentAt |-> e.lastMessageAt]
  OBVIOUS
<1> PICK new : new = [step |-> "save", booking |-> b, row |-> e, side |-> w]
  OBVIOUS
<1>0. req[r].step = "send.message" /\ "send.message" \in Copying /\ "save" \notin Drafting
  BY DEF SendMessage, Copying, Steps, Drafting, Answering
<1>1. /\ messages' = messages \cup {msg} /\ UNCHANGED <<rows, seen, clock>>
      /\ req' = [req EXCEPT ![r] = new] /\ req \in [Requests -> Request]
  BY DEF SendMessage, Goto, gateway, clients, TypeInv, TypeOK
<1>2. /\ e \in Row /\ b \in Bookings /\ rows[b] # NoRow /\ w \in Sides /\ clock \in Nat
      /\ e.lastMessageAt \in Nat
  BY <1>0, HeldCopy, StampTypes DEF TypeInv, TypeOK, Request
<1>3. /\ Stamped(e) /\ At(e, w) = e.lastMessageAt
      /\ \A v \in Sides \ {w} : At(e, v) = At(rows[b], v) /\ At(e, v) < e.lastMessageAt
      /\ \A m \in messages : m.booking = b => m.sentAt < e.lastMessageAt
  BY <1>0 DEF ChatInv, ChatCopy
<1>4. Accounts(b, rows[b])
  BY <1>0, <1>2, NobodySaves, RowAccounts
<1>5. Accounts(b, e)'
  <2> SUFFICES ASSUME NEW m \in messages', m.booking = b
               PROVE  /\ m.sentAt <= e.lastMessageAt
                      /\ \A v \in Sides \ {m.sender} : m.sentAt <= At(e, v) =>
                            \/ m \in seen[v]
                            \/ \E n \in messages' : n.booking = b /\ n.sender = v /\ n.sentAt >= m.sentAt
    BY <1>1 DEF Accounts, At
  <2>1. CASE m = msg
    <3>1. m.sender = w /\ m.sentAt = e.lastMessageAt
      BY <2>1
    <3>2. \A v \in Sides \ {w} : ~(e.lastMessageAt <= At(e, v))
      BY <1>2, <1>3, StampTypes
    <3> QED
      BY <1>2, <3>1, <3>2
  <2>2. CASE m \in messages
    <3>1. m.sentAt \in Nat /\ m.sentAt < e.lastMessageAt
      BY <1>3, <2>2 DEF TypeInv, TypeOK, Message
    <3>2. CASE w = m.sender
      <4>1. \A v \in Sides \ {w} : At(e, v) = At(rows[b], v)
        BY <1>3
      <4> QED
        BY <1>1, <1>2, <1>4, <2>2, <3>1, <3>2, <4>1 DEF Accounts
    <3>3. CASE w # m.sender
      <4>1. msg \in messages' /\ msg.booking = b /\ msg.sender = w /\ msg.sentAt >= m.sentAt
        BY <1>1, <1>2, <3>1
      <4>2. ASSUME NEW v \in Sides \ {m.sender}, v # w, m.sentAt <= At(e, v)
            PROVE  \/ m \in seen[v]
                   \/ \E n \in messages' : n.booking = b /\ n.sender = v /\ n.sentAt >= m.sentAt
        BY <1>1, <1>3, <1>4, <2>2, <4>2 DEF Accounts
      <4> QED
        BY <1>2, <3>1, <4>1, <4>2
    <3> QED
      BY <3>2, <3>3
  <2> QED
    BY <1>1, <2>1, <2>2
<1>6. ASSUME NEW c, c # b PROVE ThreadKept(c)
  BY <1>1, <1>2, <1>6 DEF ThreadKept
<1>7. ASSUME NEW q \in Requests PROVE ChatCopy(req[q])'
  <2>1. CASE q = r
    <3>1. ChatCopy(new)'
      <4>1. Stamped(e)'
        BY <1>1, <1>3 DEF Stamped
      <4> QED
        BY <1>0, <1>5, <4>1 DEF ChatCopy
    <3>2. req'[r] = new
      BY <1>1
    <3> QED
      BY <2>1, <3>1, <3>2
  <2>2. CASE q # r
    <3> PICK o : o = req[q] /\ o = req'[q]
      BY <1>1, <2>2
    <3>1. CASE o.step \in Drafting \cup Copying
      <4>1. o.booking # b
        BY <1>0, <1>2, <2>2, <3>1, ConstantsAssumption
           DEF SoloInv, Solo, WorksOn, TypeInv, Held, HeldRow
      <4>2. ChatCopy(o)'
        BY <1>1, <1>6, <4>1, HeldRows, ChatCopyKept DEF ChatInv
      <4> QED
        BY <4>2
    <3>2. CASE o.step \notin Drafting \cup Copying
      <4>1. o.step \notin {"send.message", "save"}
        BY <3>2 DEF Copying, Steps, Drafting, Answering
      <4>2. ChatCopy(o)'
        BY <3>2, <4>1 DEF ChatCopy
      <4> QED
        BY <4>2
    <3> QED
      BY <3>1, <3>2
  <2> QED
    BY <2>1, <2>2
<1>8. ASSUME NEW c \in Bookings PROVE ChatRow(c)'
  <2> PICK f : f = rows[c] /\ f = rows'[c]
    BY <1>1
  <2>1. f # NoRow => Stamped(f)'
    BY <1>1, RowAccounts DEF Stamped
  <2>2. CASE c = b
    <3>1. req'[r].step = "save" /\ req'[r].booking = b
      BY <1>1
    <3> QED
      BY <2>1, <2>2, <3>1 DEF ChatRow, Exists, Saving
  <2>3. CASE c # b
    <3>1. Saving(c) => Saving(c)'
      BY <1>0, <1>1, <2>3 DEF Saving
    <3>2. f # NoRow => Saving(c) \/ Accounts(c, f)
      BY RowAccounts
    <3>3. Accounts(c, f) => Accounts(c, f)'
      BY <1>6, <2>3, AccountsKept
    <3> QED
      BY <2>1, <3>1, <3>2, <3>3 DEF ChatRow, Exists
  <2> QED
    BY <2>2, <2>3
<1>9. \A m \in messages' : m.sentAt <= clock' /\ Exists(m.booking)'
  BY <1>1, <1>2, <1>3 DEF ChatInv, Exists, Stamped
<1> QED
  BY <1>7, <1>8, <1>9 DEF ChatInv

LEMMA ChatCreate ==
    ASSUME TypeInv, ChatInv, NEW r \in Requests, Create(r)
    PROVE  ChatInv'
<1> USE DEF Steps, Drafting, Answering, Copying, tables, gateway, clients
<1>0. ChatCopy(req[r]) /\ clock \in Nat
  BY DEF ChatInv, TypeInv, TypeOK
<1>1. ASSUME NEW k \in Keys, NEW s \in Slots, CreateArrives(r, k, s) PROVE ChatInv'
  <2>1. CASE UNCHANGED req
    <3>1. UNCHANGED <<rows, messages, seen, clock, req>>
      BY <1>1, <2>1 DEF CreateArrives
    <3> QED
      BY <3>1 DEF ChatInv, ChatCopy, ChatRow, Saving, Exists, Accounts, Stamped, SameChat, At
  <2>2. CASE Goto(r, "create.lookup", NoBooking, request(k, s), "owner")
    <3>1. ChatCopy([step |-> "create.lookup", booking |-> NoBooking, row |-> request(k, s), side |-> "owner"])
      BY <1>0 DEF ChatCopy, Stamped, At, request
    <3> QED
      BY <1>1, <2>2, <3>1, ChatMove DEF CreateArrives
  <2> QED
    BY <1>1, <2>1, <2>2 DEF CreateArrives
<1>2. ASSUME NEW s \in {"create.check", "create.insert"}, req[r].step \in Drafting
      PROVE  ChatCopy([step |-> s, booking |-> NoBooking, row |-> req[r].row, side |-> "owner"])
  BY <1>0, <1>2 DEF ChatCopy
<1>3. ASSUME NEW s \in Answering, NEW b
      PROVE  ChatCopy([step |-> s, booking |-> b, row |-> NoRow, side |-> "owner"])
  BY DEF ChatCopy
<1>4. CASE CreateLookup(r)
  BY <1>2, <1>3, <1>4, ChatMove DEF CreateLookup
<1>5. CASE CreateCheck(r)
  BY <1>2, <1>5, ChatMove, ChatFinish DEF CreateCheck
<1>6. CASE CreateInsert(r)
  <2> PICK e : e = req[r].row
    OBVIOUS
  <2>1. CASE Finish(r) /\ UNCHANGED <<rows, past, outbox>>
    BY <1>6, <2>1, ChatFinish DEF CreateInsert
  <2>2. ASSUME NEW b \in Bookings, rows[b] = NoRow, SaveBooking(b, e),
               Goto(r, "create.reply", b, NoRow, "owner")
        PROVE  ChatInv'
    <3> PICK new : new = [step |-> "create.reply", booking |-> b, row |-> NoRow, side |-> "owner"]
      OBVIOUS
    <3>1. /\ rows' = [rows EXCEPT ![b] = e] /\ rows \in [Bookings -> Row \cup {NoRow}]
          /\ req' = [req EXCEPT ![r] = new] /\ req \in [Requests -> Request]
          /\ UNCHANGED <<messages, seen, clock>> /\ e # NoRow
      BY <1>6, <2>2, HeldDraft, ConstantsAssumption
         DEF SaveBooking, Goto, CreateInsert, TypeInv, TypeOK
    <3>2. Stamped(e) /\ Accounts(b, e)
      BY <1>0, <1>6, <2>2 DEF CreateInsert, ChatCopy, Accounts, ChatInv, Exists
    <3>3. ASSUME NEW q \in Requests PROVE ChatCopy(req[q])'
      <4>1. ChatCopy(new)'
        BY DEF ChatCopy
      <4>2. CASE q # r
        <5> PICK o : o = req[q] /\ o = req'[q]
          BY <3>1, <4>2
        <5>1. o.step \in Copying => rows'[o.booking] = rows[o.booking]
          BY <2>2, <3>1, HeldCopy
        <5>2. ChatCopy(o)'
          BY <3>1, <5>1 DEF ChatInv, ChatCopy, Stamped, SameChat, Accounts, At
        <5> QED
          BY <5>2
      <4> QED
        BY <3>1, <4>1, <4>2
    <3>4. ASSUME NEW c \in Bookings PROVE ChatRow(c)'
      <4>1. CASE c = b
        BY <3>1, <3>2, <4>1 DEF ChatRow, Stamped, Accounts, At
      <4>2. CASE c # b
        <5>1. Saving(c) => Saving(c)'
          BY <1>6, <3>1 DEF Saving, CreateInsert
        <5>2. ChatRow(c) /\ rows'[c] = rows[c]
          BY <3>1, <4>2 DEF ChatInv
        <5> QED
          BY <3>1, <5>1, <5>2 DEF ChatRow, Exists, Stamped, Accounts, At
      <4> QED
        BY <4>1, <4>2
    <3>5. \A m \in messages' : m.sentAt <= clock' /\ Exists(m.booking)'
      BY <2>2, <3>1 DEF ChatInv, Exists
    <3> QED
      BY <3>3, <3>4, <3>5 DEF ChatInv
  <2> QED
    BY <1>6, <2>1, <2>2 DEF CreateInsert
<1>7. CASE CreateReply(r)
  BY <1>3, <1>7, ChatMove DEF CreateReply
<1>8. CASE CreateRemember(r)
  BY <1>8, ChatFinish DEF CreateRemember
<1> QED
  BY <1>1, <1>4, <1>5, <1>6, <1>7, <1>8 DEF Create

LEMMA ChatMoves ==
    ASSUME OneAtATime, TypeInv, SoloInv, ChatInv, NEW r \in Requests,
           Decide(r) \/ Walk(r) \/ Chat(r) \/ Save(r)
    PROVE  ChatInv'
<1> USE DEF Steps, Drafting, Answering, Copying, tables, gateway, clients
<1>1. ASSUME NEW b \in Bookings, NEW x, Arrives(r, x, b)
      PROVE  /\ SameChat(rows[b], rows[b])
             /\ \A s : SameChat([rows[b] EXCEPT !.status = s], rows[b])
             /\ \A s : SameChat([rows[b] EXCEPT !.status = s, !.startedAt = TRUE], rows[b])
             /\ \A s : SameChat([rows[b] EXCEPT !.status = s, !.completedAt = TRUE], rows[b])
  <2>1. rows[b] \in Row
    BY <1>1, RowAccounts DEF Arrives
  <2> QED
    BY <2>1, SameChatMoves
<1>2. ASSUME NEW b \in Bookings, AcceptLoad(r, b) PROVE ChatInv'
  BY <1>1, <1>2, ChatLoad DEF AcceptLoad
<1>3. ASSUME NEW b \in Bookings, CancelLoad(r, b) PROVE ChatInv'
  BY <1>1, <1>3, ChatLoad DEF CancelLoad
<1>4. ASSUME NEW b \in Bookings, StartLoad(r, b) PROVE ChatInv'
  BY <1>1, <1>4, ChatLoad DEF StartLoad
<1>5. ASSUME NEW b \in Bookings, CompleteLoad(r, b) PROVE ChatInv'
  BY <1>1, <1>5, ChatLoad DEF CompleteLoad
<1>6. ASSUME NEW b \in Bookings, NEW w \in Sides, ListLoad(r, b, w) PROVE ChatInv'
  BY <1>1, <1>6, ChatLoad DEF ListLoad
<1>7. CASE AcceptAuthorize(r)
  <2>1. /\ SameChat(req[r].row, req[r].row)
        /\ SameChat([req[r].row EXCEPT !.status = Confirmed], req[r].row)
    BY <1>7, HeldCopy, SameChatMoves DEF AcceptAuthorize
  <2> QED
    BY <1>7, <2>1, ChatGoesOn, ChatFinish DEF AcceptAuthorize
<1>8. CASE CompleteCapture(r)
  <2>1. SameChat(req[r].row, req[r].row)
    BY <1>8, HeldCopy, SameChatMoves DEF CompleteCapture
  <2> QED
    BY <1>8, <2>1, ChatGoesOn DEF CompleteCapture
<1>9. CASE AcceptDecline(r)
  BY <1>9, ChatFinish DEF AcceptDecline
<1>10. CASE AcceptSave(r) \/ CancelSave(r) \/ CompleteSave(r) \/ Save(r)
  BY <1>10, ChatSave DEF AcceptSave, CancelSave, CompleteSave, Save
<1> QED
  BY <1>2, <1>3, <1>4, <1>5, <1>6, <1>7, <1>8, <1>9, <1>10, ChatSendLoad, ChatSendMessage,
     ChatListFind DEF Decide, Walk, Chat

LEMMA AlwaysAccounted == ASSUME OneAtATime, ~Failures PROVE Spec => []ChatInv
<1>1. Init => ChatInv
  BY DEF Init, ChatInv, ChatCopy, ChatRow, Exists, Idle, Drafting, Copying
<1>2. TypeInv /\ SoloInv /\ ChatInv /\ [Next]_vars => ChatInv'
  <2> SUFFICES ASSUME TypeInv, SoloInv, ChatInv, [Next]_vars PROVE ChatInv'
    OBVIOUS
  <2>1. ASSUME UNCHANGED <<rows, messages, seen, clock, req>> PROVE ChatInv'
    BY <2>1 DEF ChatInv, ChatCopy, ChatRow, Saving, Exists, Accounts, Stamped, SameChat, At
  <2>2. ASSUME NEW k \in Keys, Expire(k) PROVE ChatInv'
    BY <2>1, <2>2 DEF Expire, clients
  <2>3. CASE UNCHANGED vars
    BY <2>1, <2>3 DEF vars, tables, clients
  <2>4. ASSUME NEW r \in Requests, Abandon(r) PROVE FALSE
    BY <2>4 DEF Abandon
  <2> QED
    BY <2>2, <2>3, <2>4, ChatCreate, ChatMoves DEF Next
<1> QED
  BY <1>1, <1>2, TypeCorrect, AlwaysSolo, PTL DEF Spec

\* Where requests on one booking do not overlap and none dies half way, a message its
\* reader has neither fetched nor answered later shows as unread once the booking is quiet.
THEOREM UnreadShows == ASSUME OneAtATime, ~Failures PROVE Spec => []UnreadIsFlagged
<1>1. TypeInv /\ ChatInv => UnreadIsFlagged
  <2> SUFFICES ASSUME TypeInv, ChatInv, NEW m \in messages, NEW w \in Sides, w # m.sender,
                      m \notin seen[w], Quiet(m.booking),
                      \A n \in messages : n.booking = m.booking /\ n.sender = w => n.sentAt < m.sentAt
               PROVE  Unread(m.booking, w)
    BY DEF UnreadIsFlagged
  <2> PICK b, e : b = m.booking /\ e = rows[b]
    OBVIOUS
  <2>1. b \in Bookings /\ rows[b] # NoRow /\ ~Saving(b) /\ m.sentAt \in Nat
    BY DEF ChatInv, Exists, TypeInv, TypeOK, Message, Quiet, Saving
  <2>2. e \in Row /\ Accounts(b, e)
    BY <2>1, RowAccounts
  <2>3. e.lastMessageAt \in Nat /\ At(e, w) \in Nat
    BY <2>2, StampTypes
  <2>4. \A n \in messages : n.booking = b /\ n.sender = w => ~(n.sentAt >= m.sentAt)
    BY DEF TypeInv, TypeOK, Message
  <2>5. m.sentAt <= e.lastMessageAt /\ ~(m.sentAt <= At(e, w))
    BY <2>2, <2>4 DEF Accounts
  <2> QED
    BY <2>1, <2>3, <2>5 DEF Unread, At
<1> QED
  BY <1>1, TypeCorrect, AlwaysAccounted, PTL
================================================================================
