-------------------------------- MODULE Booking --------------------------------
(***************************************************************************)
(* The booking context: BookingProcessManager, BookingController, the      *)
(* start and complete endpoints of TripsController and the idempotency     *)
(* interceptor, over the booking tables they share.                        *)
(*                                                                         *)
(* Every endpoint runs as a request on some serverless instance.  It loads *)
(* a booking into memory, checks it, waits for whatever it has to wait for *)
(* (the gateway, another table), and saves the booking it loaded.  Each    *)
(* await is a point where other requests run, so each endpoint is several  *)
(* actions here, and `req' holds what a request carries between them.      *)
(*                                                                         *)
(* The ORM is not under src/: TypeORM's save writes every loaded column    *)
(* that differs from the row, so saving a booking makes the row equal to   *)
(* the copy the request holds, whatever was committed since it was loaded; *)
(* dataSource.transaction is atomic, and the unique index on (owner_id,    *)
(* idempotency_key) refuses a second insert.                               *)
(***************************************************************************)
EXTENDS BookingStatus, Naturals

CONSTANTS
    Bookings,     \* ids a booking can get
    Keys,         \* (owner, Idempotency-Key) pairs of the clients
    Slots,        \* what a client can ask for: [provider, at, len]
    Requests,     \* requests that can be in flight at once
    Endpoints,    \* the endpoints the clients of this instance call
    Failures,     \* TRUE if a request may be killed at any await
    OneAtATime,   \* TRUE if requests on one booking never overlap in time
    MaxMessages,  \* bound on the chat messages sent
    MaxRecords,   \* bound on the cancellations started
    NoRow,        \* no booking row
    NoBooking     \* no booking id

VARIABLES
    rows,           \* booking_bookings
    cancellations,  \* number of CancellationRecord rows of each booking
    outbox,         \* event types enqueued for each booking
    messages,       \* booking_messages
    idem,           \* the response the interceptor remembers for a key
    authorized,     \* bookings whose payment the gateway has authorized
    captured,       \* bookings whose payment the gateway has captured
    req,            \* what each request in flight holds
    clock,          \* Date.now(), counted in messages stamped so far
    past,           \* history: every status a booking's row has had
    replies,        \* history: booking returned to a client for its key
    seen            \* history: messages each side has been shown

tables  == <<rows, past, cancellations, outbox, messages, idem>>
gateway == <<authorized, captured>>
clients == <<replies, seen>>
vars    == <<tables, gateway, clients, req, clock>>

Sides    == {"owner", "provider"}
Slot     == [provider : STRING, at : Nat, len : Nat]
Endpoint == {"create", "accept", "cancel", "start", "complete", "send", "list"}
Events   == {"BookingCreated", "BookingPaymentAuthorizationFailed",
             "ProviderAccepted", "BookingConfirmed", "BookingCancelled",
             "WalkFinished"}

\* The columns of Booking that some endpoint reads or writes.  The three chat
\* stamps count messages; 0 is null.
Row == [status : Statuses, key : Keys, slot : Slots,
        startedAt : BOOLEAN, completedAt : BOOLEAN,
        lastMessageAt : Nat, ownerLastReadAt : Nat, providerLastReadAt : Nat]

Message == [booking : Bookings, sender : Sides, sentAt : Nat]

\* Where a request can be: what it does next.
Steps == {"idle", "create.lookup", "create.check", "create.insert",
          "create.reply", "create.remember", "accept.authorize",
          "accept.decline", "accept.save", "cancel.save", "complete.capture",
          "complete.save", "send.message", "list.find", "save"}

Request == [step : Steps, booking : Bookings \cup {NoBooking},
            row : Row \cup {NoRow}, side : Sides]

ASSUME ConstantsAssumption ==
    /\ Keys # {} /\ Slots \subseteq Slot
    /\ Endpoints \subseteq Endpoint
    /\ Failures \in BOOLEAN /\ OneAtATime \in BOOLEAN
    /\ MaxMessages \in Nat /\ MaxRecords \in Nat
    /\ NoRow \notin Row \cup Statuses /\ NoBooking \notin Bookings

Idle == [step |-> "idle", booking |-> NoBooking, row |-> NoRow, side |-> "owner"]

Init ==
    /\ rows          = [b \in Bookings |-> NoRow]
    /\ past          = [b \in Bookings |-> {}]
    /\ cancellations = [b \in Bookings |-> 0]
    /\ outbox        = [b \in Bookings |-> {}]
    /\ messages      = {}
    /\ idem          = [k \in Keys |-> NoBooking]
    /\ authorized    = {}
    /\ captured      = {}
    /\ req           = [r \in Requests |-> Idle]
    /\ clock         = 0
    /\ replies       = {}
    /\ seen          = [s \in Sides |-> {}]

--------------------------------------------------------------------------------
(***************************************************************************)
(* Requests and saves.                                                     *)
(***************************************************************************)

\* Request r goes on to step s, holding copy e of the row of booking b.
Goto(r, s, b, e, w) ==
    req' = [req EXCEPT ![r] = [step |-> s, booking |-> b, row |-> e, side |-> w]]

Finish(r) == req' = [req EXCEPT ![r] = Idle]

\* A request on booking b reaches endpoint e and the row is there to load.
Arrives(r, e, b) ==
    /\ e \in Endpoints
    /\ req[r].step = "idle"
    /\ rows[b] # NoRow
    /\ OneAtATime => \A q \in Requests : req[q].row = NoRow \/ req[q].booking # b

\* bookings.save / manager.save(Booking): the row becomes the copy.
SaveBooking(b, e) ==
    /\ rows' = [rows EXCEPT ![b] = e]
    /\ past' = [past EXCEPT ![b] = @ \cup {e.status}]

enqueue(b, events) == outbox' = [outbox EXCEPT ![b] = @ \cup events]

\* The instance is killed, times out, or an await rejects (the database, a
\* port that refuses): the handler ends and nothing more of it happens.
Abandon(r) ==
    /\ Failures
    /\ req[r].step # "idle"
    /\ Finish(r)
    /\ UNCHANGED <<tables, gateway, clients, clock>>

--------------------------------------------------------------------------------
(***************************************************************************)
(* POST /v1/bookings                                                       *)
(***************************************************************************)

\* Booking.request
request(k, s) ==
    [status |-> Requested, key |-> k, slot |-> s,
     startedAt |-> FALSE, completedAt |-> FALSE,
     lastMessageAt |-> 0, ownerLastReadAt |-> 0, providerLastReadAt |-> 0]

\* The bookings of this owner with this key.
WithKey(k) == {b \in Bookings : rows[b] # NoRow /\ rows[b].key = k}

\* Mutant: only a slot that starts inside the other one overlaps it.
StartsInside(s, t) ==
    /\ s.provider = t.provider
    /\ t.at <= s.at
    /\ s.at < t.at + t.len

\* The half-open windows of s and t, for one business, intersect.
Overlaps(s, t) ==
    /\ s.provider = t.provider
    /\ s.at < t.at + t.len
    /\ s.at + s.len > t.at

\* The active bookings NoDoubleBookingPolicy finds over slot s.
Overlapping(s) ==
    {b \in Bookings : /\ rows[b] # NoRow
                      /\ rows[b].status \in ACTIVE_STATUSES
                      /\ Overlaps(rows[b].slot, s)}

\* Mutant: no unique index, the handler relies on the lookup it did earlier.
NoIndex(k) == FALSE

\* The unique index on (owner_id, idempotency_key) refuses the insert.
IndexRefuses(k) == WithKey(k) # {}

\* The interceptor answers a key it remembers and lets the others through.
CreateArrives(r, k, s) ==
    /\ "create" \in Endpoints
    /\ req[r].step = "idle"
    /\ \/ /\ idem[k] # NoBooking
          /\ replies' = replies \cup {<<k, idem[k]>>}
          /\ UNCHANGED req
       \/ /\ idem[k] = NoBooking
          /\ Goto(r, "create.lookup", NoBooking, request(k, s), "owner")
          /\ UNCHANGED replies
    /\ UNCHANGED <<tables, gateway, seen, clock>>

\* A booking of this owner with this key is returned as it is.
CreateLookup(r) ==
    LET e == req[r].row IN
    /\ req[r].step = "create.lookup"
    /\ \/ \E b \in WithKey(e.key) : Goto(r, "create.reply", b, NoRow, "owner")
       \/ /\ WithKey(e.key) = {}
          /\ Goto(r, "create.check", NoBooking, e, "owner")
    /\ UNCHANGED <<tables, gateway, clients, clock>>

CreateCheck(r) ==
    LET e == req[r].row IN
    /\ req[r].step = "create.check"
    /\ \/ /\ Overlapping(e.slot) # {}
          /\ Finish(r)
       \/ /\ Overlapping(e.slot) = {}
          /\ Goto(r, "create.insert", NoBooking, e, "owner")
    /\ UNCHANGED <<tables, gateway, clients, clock>>

\* The booking, its price and its BookingCreated event commit together, unless
\* the unique index already holds the key.
CreateInsert(r) ==
    LET e == req[r].row IN
    /\ req[r].step = "create.insert"
    /\ \/ /\ IndexRefuses(e.key)
          /\ Finish(r)
          /\ UNCHANGED <<rows, past, outbox>>
       \/ /\ ~IndexRefuses(e.key)
          /\ \E b \in Bookings :
                /\ rows[b] = NoRow
                /\ SaveBooking(b, e)
                /\ enqueue(b, {"BookingCreated"})
                /\ Goto(r, "create.reply", b, NoRow, "owner")
    /\ UNCHANGED <<cancellations, messages, idem, gateway, clients, clock>>

\* The client gets the booking; the interceptor has only started to save it.
CreateReply(r) ==
    LET b == req[r].booking IN
    /\ req[r].step = "create.reply"
    /\ replies' = replies \cup {<<rows[b].key, b>>}
    /\ Goto(r, "create.remember", b, NoRow, "owner")
    /\ UNCHANGED <<tables, gateway, seen, clock>>

CreateRemember(r) ==
    LET b == req[r].booking IN
    /\ req[r].step = "create.remember"
    /\ idem' = [idem EXCEPT ![rows[b].key] = b]
    /\ Finish(r)
    /\ UNCHANGED <<rows, past, cancellations, outbox, messages, gateway, clients,
                   clock>>

\* A remembered response outlives its 24 hours.
Expire(k) ==
    /\ idem[k] # NoBooking
    /\ idem' = [idem EXCEPT ![k] = NoBooking]
    /\ UNCHANGED <<rows, past, cancellations, outbox, messages, gateway, clients,
                   req, clock>>

--------------------------------------------------------------------------------
(***************************************************************************)
(* POST /v1/bookings/:id/accept, /reject and /cancel                       *)
(***************************************************************************)

AcceptLoad(r, b) ==
    /\ Arrives(r, "accept", b)
    /\ Goto(r, "accept.authorize", b, rows[b], "provider")
    /\ UNCHANGED <<tables, gateway, clients, clock>>

\* Mutant: the answer of the gateway is not looked at.
AuthorizeUnchecked(r) ==
    LET b == req[r].booking
        e == req[r].row
    IN
    /\ req[r].step = "accept.authorize"
    /\ authorized' \in {authorized, authorized \cup {b}}
    /\ \/ /\ canTransition(e.status, Accepted)
          /\ Goto(r, "accept.save", b, [e EXCEPT !.status = Confirmed], "provider")
       \/ /\ ~canTransition(e.status, Accepted)
          /\ Finish(r)
    /\ UNCHANGED <<tables, captured, clients, clock>>

\* The gateway answers before the booking's status is looked at: accept() and
\* confirm() then throw unless the copy was still requested.
AcceptAuthorize(r) ==
    LET b == req[r].booking
        e == req[r].row
    IN
    /\ req[r].step = "accept.authorize"
    /\ \/ /\ authorized' = authorized \cup {b}
          /\ canTransition(e.status, Accepted)
          /\ Goto(r, "accept.save", b, [e EXCEPT !.status = Confirmed], "provider")
       \/ /\ authorized' = authorized \cup {b}
          /\ ~canTransition(e.status, Accepted)
          /\ Finish(r)
       \/ /\ Goto(r, "accept.decline", b, e, "provider")
          /\ UNCHANGED authorized
    /\ UNCHANGED <<tables, captured, clients, clock>>

AcceptDecline(r) ==
    /\ req[r].step = "accept.decline"
    /\ enqueue(req[r].booking, {"BookingPaymentAuthorizationFailed"})
    /\ Finish(r)
    /\ UNCHANGED <<rows, past, cancellations, messages, idem, gateway, clients,
                   clock>>

AcceptSave(r) ==
    LET b == req[r].booking IN
    /\ req[r].step = "accept.save"
    /\ SaveBooking(b, req[r].row)
    /\ enqueue(b, {"ProviderAccepted", "BookingConfirmed"})
    /\ Finish(r)
    /\ UNCHANGED <<cancellations, messages, idem, gateway, clients, clock>>

\* Mutant: cancelling only checks that the walk has not started (P-15).
CancelUnchecked(r, b) ==
    /\ Arrives(r, "cancel", b)
    /\ cancellations[b] < MaxRecords
    /\ rows[b].status # InProgress
    /\ Goto(r, "cancel.save", b, [rows[b] EXCEPT !.status = Cancelled], "owner")
    /\ UNCHANGED <<tables, gateway, clients, clock>>

\* rejectBooking and cancelBooking differ only in the penalty they record.
CancelLoad(r, b) ==
    /\ Arrives(r, "cancel", b)
    /\ cancellations[b] < MaxRecords
    /\ rows[b].status # InProgress
    /\ canTransition(rows[b].status, Cancelled)
    /\ Goto(r, "cancel.save", b, [rows[b] EXCEPT !.status = Cancelled], "owner")
    /\ UNCHANGED <<tables, gateway, clients, clock>>

\* Mutant: the cancellation is recorded after the response, if at all.
CancelUnrecorded(r) ==
    /\ req[r].step = "cancel.save"
    /\ SaveBooking(req[r].booking, req[r].row)
    /\ enqueue(req[r].booking, {"BookingCancelled"})
    /\ Finish(r)
    /\ UNCHANGED <<cancellations, messages, idem, gateway, clients, clock>>

CancelSave(r) ==
    LET b == req[r].booking IN
    /\ req[r].step = "cancel.save"
    /\ SaveBooking(b, req[r].row)
    /\ cancellations' = [cancellations EXCEPT ![b] = @ + 1]
    /\ enqueue(b, {"BookingCancelled"})
    /\ Finish(r)
    /\ UNCHANGED <<messages, idem, gateway, clients, clock>>

--------------------------------------------------------------------------------
(***************************************************************************)
(* POST /v1/trips/:id/start and /complete                                  *)
(***************************************************************************)

\* Mutant: a walk starts whatever state its booking is in.
StartUnchecked(r, b) ==
    /\ Arrives(r, "start", b)
    /\ Goto(r, "save", b,
            [rows[b] EXCEPT !.status = InProgress, !.startedAt = TRUE], "provider")
    /\ UNCHANGED <<tables, gateway, clients, clock>>

StartLoad(r, b) ==
    /\ Arrives(r, "start", b)
    /\ canTransition(rows[b].status, InProgress)
    /\ Goto(r, "save", b,
            [rows[b] EXCEPT !.status = InProgress, !.startedAt = TRUE], "provider")
    /\ UNCHANGED <<tables, gateway, clients, clock>>

CompleteLoad(r, b) ==
    /\ Arrives(r, "complete", b)
    /\ canTransition(rows[b].status, Completed)
    /\ Goto(r, "complete.capture", b,
            [rows[b] EXCEPT !.status = Completed, !.completedAt = TRUE], "provider")
    /\ UNCHANGED <<tables, gateway, clients, clock>>

\* Whatever the gateway answers, the booking is saved as completed next.
CompleteCapture(r) ==
    LET b == req[r].booking IN
    /\ req[r].step = "complete.capture"
    /\ captured' \in {captured, captured \cup {b}}
    /\ Goto(r, "complete.save", b, req[r].row, "provider")
    /\ UNCHANGED <<tables, authorized, clients, clock>>

\* Mutant: only the columns complete() changed are written, to whatever row is there.
CompleteColumns(r) ==
    LET b == req[r].booking
        row == [rows[b] EXCEPT !.status = Completed, !.completedAt = TRUE] IN
    /\ req[r].step = "complete.save"
    /\ SaveBooking(b, row)
    /\ enqueue(b, {"WalkFinished"})
    /\ Finish(r)
    /\ UNCHANGED <<cancellations, messages, idem, gateway, clients, clock>>

CompleteSave(r) ==
    LET b == req[r].booking IN
    /\ req[r].step = "complete.save"
    /\ SaveBooking(b, req[r].row)
    /\ enqueue(b, {"WalkFinished"})
    /\ Finish(r)
    /\ UNCHANGED <<cancellations, messages, idem, gateway, clients, clock>>

--------------------------------------------------------------------------------
(***************************************************************************)
(* POST and GET /v1/bookings/:id/messages                                  *)
(***************************************************************************)

\* Mutant: reading the thread stamps the other side as having read it.
MarkOther(e, w, t) ==
    IF w = "owner" THEN [e EXCEPT !.providerLastReadAt = t]
                   ELSE [e EXCEPT !.ownerLastReadAt = t]

\* Copy e with side w marked as having read the thread at time t.
markReadFor(e, w, t) ==
    IF w = "owner" THEN [e EXCEPT !.ownerLastReadAt = t]
                   ELSE [e EXCEPT !.providerLastReadAt = t]

SendLoad(r, b, w) ==
    /\ Arrives(r, "send", b)
    /\ clock < MaxMessages
    /\ clock' = clock + 1
    /\ Goto(r, "send.message", b,
            markReadFor([rows[b] EXCEPT !.lastMessageAt = clock'], w, clock'), w)
    /\ UNCHANGED <<tables, gateway, clients>>

SendMessage(r) ==
    LET q == req[r] IN
    /\ q.step = "send.message"
    /\ messages' = messages \cup
          {[booking |-> q.booking, sender |-> q.side, sentAt |-> q.row.lastMessageAt]}
    /\ Goto(r, "save", q.booking, q.row, q.side)
    /\ UNCHANGED <<rows, past, cancellations, outbox, idem, gateway, clients, clock>>

ListLoad(r, b, w) ==
    /\ Arrives(r, "list", b)
    /\ Goto(r, "list.find", b, rows[b], w)
    /\ UNCHANGED <<tables, gateway, clients, clock>>

\* The thread is read, and then stamped as read now.
ListFind(r) ==
    LET q == req[r] IN
    /\ q.step = "list.find"
    /\ seen' = [seen EXCEPT ![q.side] =
                    @ \cup {m \in messages : m.booking = q.booking}]
    /\ Goto(r, "save", q.booking, markReadFor(q.row, q.side, clock), q.side)
    /\ UNCHANGED <<tables, gateway, replies, clock>>

\* bookings.save at the end of start, sendMessage and listMessages.
Save(r) ==
    /\ req[r].step = "save"
    /\ SaveBooking(req[r].booking, req[r].row)
    /\ Finish(r)
    /\ UNCHANGED <<cancellations, outbox, messages, idem, gateway, clients, clock>>

--------------------------------------------------------------------------------
Create(r) ==
    \/ \E k \in Keys, s \in Slots : CreateArrives(r, k, s)
    \/ CreateLookup(r)
    \/ CreateCheck(r)
    \/ CreateInsert(r)
    \/ CreateReply(r)
    \/ CreateRemember(r)

Decide(r) ==
    \/ \E b \in Bookings : AcceptLoad(r, b)
    \/ AcceptAuthorize(r)
    \/ AcceptDecline(r)
    \/ AcceptSave(r)
    \/ \E b \in Bookings : CancelLoad(r, b)
    \/ CancelSave(r)

Walk(r) ==
    \/ \E b \in Bookings : StartLoad(r, b)
    \/ \E b \in Bookings : CompleteLoad(r, b)
    \/ CompleteCapture(r)
    \/ CompleteSave(r)

Chat(r) ==
    \/ \E b \in Bookings, w \in Sides : SendLoad(r, b, w)
    \/ SendMessage(r)
    \/ \E b \in Bookings, w \in Sides : ListLoad(r, b, w)
    \/ ListFind(r)

Next ==
    \/ \E r \in Requests : \/ Create(r) \/ Decide(r) \/ Walk(r) \/ Chat(r)
                           \/ Save(r) \/ Abandon(r)
    \/ \E k \in Keys : Expire(k)

Spec == Init /\ [][Next]_vars
--------------------------------------------------------------------------------
(***************************************************************************)
(* Properties.                                                             *)
(***************************************************************************)

TypeOK ==
    /\ rows \in [Bookings -> Row \cup {NoRow}]
    /\ past \in [Bookings -> SUBSET Statuses]
    /\ cancellations \in [Bookings -> Nat]
    /\ outbox \in [Bookings -> SUBSET Events]
    /\ messages \subseteq Message
    /\ idem \in [Keys -> Bookings \cup {NoBooking}]
    /\ authorized \subseteq Bookings
    /\ captured \subseteq Bookings
    /\ req \in [Requests -> Request]
    /\ clock \in Nat
    /\ replies \subseteq Keys \X Bookings
    /\ seen \in [Sides -> SUBSET Message]

Exists(b) == rows[b] # NoRow

\* Policy P-16 (acceptBooking): however requests on a booking interleave, fail
\* or write back stale copies, no row says the business is committed to a
\* booking whose payment the gateway has not authorized, and no payment is
\* captured that was not authorized for a walk that had started.
PaymentOrder ==
    /\ \A b \in Bookings :
          Exists(b) => rows[b].status \in {Requested, Cancelled} \/ b \in authorized
    /\ \A b \in captured : b \in authorized /\ InProgress \in past[b]

\* start() and complete() stamp the booking as they move it: a row never shows
\* a status of one version of the booking with the times of another, even when
\* a stale copy is saved over a newer row.
TimesMatchStatus ==
    \A b \in Bookings : Exists(b) =>
        /\ rows[b].startedAt <=> rows[b].status \in {InProgress, Completed, Disputed}
        /\ rows[b].completedAt <=> rows[b].status \in {Completed, Disputed}

\* Each transaction of the saga commits a status together with what other
\* contexts need to know of it: a cancelled row has its CancellationRecord and
\* every status a row has ever had has its event in the outbox.
OutboxMatchesRow ==
    \A b \in Bookings :
        /\ Exists(b) <=> "BookingCreated" \in outbox[b]
        /\ Cancelled \in past[b] <=> "BookingCancelled" \in outbox[b]
        /\ Cancelled \in past[b] <=> cancellations[b] > 0
        /\ Confirmed \in past[b] => {"ProviderAccepted", "BookingConfirmed"} \subseteq outbox[b]
        /\ Completed \in past[b] <=> "WalkFinished" \in outbox[b]

\* Concurrent requests can put an older status back, but a status is never
\* reached except by an allowed transition from one the booking has had.
ReachedOrRestored ==
    [][\A b \in Bookings :
          Exists(b) => \/ rows'[b].status \in past[b]
                       \/ \E s \in past[b] : canTransition(s, rows'[b].status)]_rows

\* "Retrying POST /bookings after a dropped connection is safe": however often
\* and however concurrently an owner retries one key, there is at most one
\* booking for it and every answer names that booking.
RetriesAreSafe ==
    /\ \A b, c \in Bookings :
          Exists(b) /\ Exists(c) /\ rows[b].key = rows[c].key => b = c
    /\ \A p \in replies : Exists(p[2]) /\ rows[p[2]].key = p[1]
    /\ \A k \in Keys : idem[k] # NoBooking => <<k, idem[k]>> \in replies

\* The status of every booking, as BookingLifecycle sees it.
statusOf == [b \in Bookings |-> IF Exists(b) THEN rows[b].status ELSE NoRow]

Lifecycle == INSTANCE BookingLifecycle WITH status <- statusOf, NoStatus <- NoRow

\* With one request at a time on a booking, each booking follows its lifecycle.
FollowsLifecycle == Lifecycle!Spec

\* With one request at a time on a booking it is cancelled, and a penalty
\* recorded for it, at most once and for good.
CancelledOnce ==
    \A b \in Bookings :
        /\ cancellations[b] <= 1
        /\ cancellations[b] = 1 <=> Exists(b) /\ rows[b].status = Cancelled

\* Policy P-14 / P-17: a request goes past the double-booking check only if its
\* walk shares no instant with a confirmed or running walk of the same business.
\* (Stated by instants, not by comparing bounds as the query does.)
Instants(s) == s.at .. (s.at + s.len - 1)

OnlyFreeSlotsPass ==
    [][\A r \in Requests, c \in Bookings :
          /\ req[r].step = "create.check" /\ req'[r].step = "create.insert"
          /\ Exists(c) /\ rows[c].status \in {Confirmed, InProgress}
          /\ rows[c].slot.provider = req[r].row.slot.provider
          => Instants(rows[c].slot) \cap Instants(req[r].row.slot) = {}]_vars

Unread(b, w) ==
    rows[b].lastMessageAt > IF w = "owner" THEN rows[b].ownerLastReadAt
                                           ELSE rows[b].providerLastReadAt

Quiet(b) == \A r \in Requests : req[r].booking # b

\* sendMessage "bumps last_message_at for the unread badge on the other side":
\* once no request is at work on a booking, a message its reader has neither
\* fetched nor answered later shows as unread.
UnreadIsFlagged ==
    \A m \in messages, w \in Sides :
        /\ w # m.sender
        /\ m \notin seen[w]
        /\ Quiet(m.booking)
        /\ \A n \in messages : n.booking = m.booking /\ n.sender = w => n.sentAt < m.sentAt
        => Unread(m.booking, w)

(***************************************************************************)
(* What the code says of itself and concurrent requests can break.         *)
(***************************************************************************)

\* no-double-booking.policy.ts: a business "can't hold two overlapping active
\* Bookings".
NoDoubleBooking ==
    \A b, c \in Bookings :
        /\ b # c /\ Exists(b) /\ Exists(c)
        /\ {rows[b].status, rows[c].status} \subseteq ACTIVE_STATUSES
        => ~Overlaps(rows[b].slot, rows[c].slot)

--------------------------------------------------------------------------------
(***************************************************************************)
(* What makes them inductive: what a request in flight may hold.           *)
(***************************************************************************)

Drafting  == {"create.lookup", "create.check", "create.insert"}
Answering == {"create.reply", "create.remember"}
Copying   == Steps \ (Drafting \cup Answering \cup {"idle"})

\* A request that works on a booking holds a copy of its row; one that creates
\* a booking holds the row to insert, and then only the id it got.
HeldRow(q) ==
    /\ q.step = "idle" => q = Idle
    /\ q.step \in Drafting => q.row \in Row /\ q.booking = NoBooking
    /\ q.step \in Answering => q.row = NoRow /\ q.booking \in Bookings /\ Exists(q.booking)
    /\ q.step \in Copying => q.row \in Row /\ q.booking \in Bookings /\ Exists(q.booking)

Held == \A r \in Requests : HeldRow(req[r])

\* The status of a copy is one the booking has had, or the one its step leads to.
StatusOfCopy(q) ==
    /\ q.step \in Drafting => q.row.status = Requested
    /\ q.step \in Copying =>
        \/ /\ q.row.status \in past[q.booking]
           /\ q.step \notin {"accept.save", "cancel.save", "complete.capture", "complete.save"}
        \/ /\ q.step = "accept.save" /\ q.row.status = Confirmed
           /\ Requested \in past[q.booking] /\ q.booking \in authorized
        \/ /\ q.step = "cancel.save" /\ q.row.status = Cancelled
           /\ \E s \in past[q.booking] : canTransition(s, Cancelled)
        \/ /\ q.step \in {"complete.capture", "complete.save"}
           /\ q.row.status = Completed /\ InProgress \in past[q.booking]
        \/ /\ q.step = "save" /\ q.row.status = InProgress
           /\ Confirmed \in past[q.booking]

History ==
    /\ \A b \in Bookings : /\ Exists(b) => rows[b].status \in past[b]
                           /\ ~Exists(b) => past[b] = {}
    /\ \A r \in Requests : StatusOfCopy(req[r])

\* The statuses a booking had before it was committed to need no payment.
Consent ==
    \A b \in Bookings : past[b] \subseteq {Requested, Cancelled} \/ b \in authorized

\* What acceptBooking, cancelBooking and the rest rely on from one await to the
\* next: every copy in flight is of a booking that exists, and its status is in
\* the row's history or is where its own step takes it, whatever else ran.
SagaInvariant == Held /\ History /\ Consent
================================================================================
