--------------------------------- MODULE Walks ---------------------------------
(***************************************************************************)
(* Around a booking: the series a recurring one is part of                 *)
(* (createRecurringBooking), the log of the walk (TripsController), the    *)
(* reviews it earns and their replies (ReviewsController), and what the    *)
(* deletion of an account takes of these.                                  *)
(*                                                                         *)
(* Every await is a step, and a handler works on the rows it loaded.  The  *)
(* requests that move a booking along are in Booking; here each is one     *)
(* step.  A deleted account sends no requests (Accounts has how long a     *)
(* guard may believe otherwise).                                           *)
(***************************************************************************)
EXTENDS Rules, BookingStatus, FiniteSets

CONSTANTS
    Owners, Businesses,
    Bookings,       \* bookings that are there from the start
    OwnerOf, BusinessOf,
    Bookable,       \* the businesses that are walkers
    Rates,          \* bones an owner gives
    Reviews,        \* 1..n: the ids a review can get
    Recurrences,    \* rules clients ask for
    Requests,       \* requests that can be in flight at once
    Traffic,        \* sets of endpoints that are called together
    Crowds,         \* those among them whose requests overlap
    MaxLog,         \* bound on the points, and on the events, of a walk
    MaxAttempts,    \* bound on the attempts at a recurring booking
    Horizon,        \* bound on the days
    None            \* no row, no value

VARIABLES
    bookings,   \* booking_bookings: status, and whether their time has come
    trail,      \* booking_trip_locations, how many of each booking
    events,     \* booking_walk_events
    reviews,    \* providers_reviews, by id
    deleted,    \* accounts that were deleted
    occurrences,\* bookings of a series: [index, day, series]
    series,     \* booking_recurrence_series
    today,      \* the day and the time of it
    req,        \* what each request in flight holds
    calls,      \* the kinds of requests there are
    alone,      \* TRUE in behaviours where requests never overlap
    rule,       \* what the client of the series asks for, each time
    asked,      \* history: the days each attempt at the series came to
    answers     \* history: the days a client was answered with

log     == <<trail, events>>
booked  == <<occurrences, series>>
setup   == <<calls, alone, rule>>
history == <<asked, answers>>
vars    == <<bookings, log, reviews, deleted, booked, today, req, setup, history>>

Row        == [status : Statuses, due : BOOLEAN]
Review     == [booking : Bookings \cup {None}, owner : Owners, business : Businesses,
               rating : Rates, reply : BOOLEAN]
Occurrence == [index : 1..4, day : 0..(Horizon + Guard), series : 1..MaxAttempts]

Endpoint == {"log", "write", "reply", "recurring", "move", "delete"}

ASSUME WalkConstants ==
    /\ OwnerOf \in [Bookings -> Owners] /\ BusinessOf \in [Bookings -> Businesses]
    /\ Owners \cap Businesses = {} /\ Bookable \subseteq Businesses
    /\ \A b \in Bookings : BusinessOf[b] \in Bookable
    /\ Rates \subseteq 1..5 /\ Reviews \subseteq Nat
    /\ Recurrences \subseteq [weekdays : SUBSET (0..6), time : Nat, count : Nat, until : Nat]
    /\ Traffic \subseteq SUBSET Endpoint /\ Crowds \subseteq Traffic
    /\ MaxLog \in Nat /\ MaxAttempts \in Nat /\ Horizon \in Nat

Idle == [step |-> "idle", booking |-> None, review |-> None, id |-> None, kind |-> None,
         who |-> None, index |-> 0, days |-> <<>>, found |-> <<>>, series |-> 0]

Init ==
    /\ bookings    = [b \in Bookings |-> [status |-> Requested, due |-> FALSE]]
    /\ trail       = [b \in Bookings |-> 0]
    /\ events      = [b \in Bookings |-> 0]
    /\ reviews     = [i \in Reviews |-> None]
    /\ deleted     = {}
    /\ occurrences = {}
    /\ series      = {}
    /\ today       = [day |-> 0, time |-> 0]
    /\ req         = [r \in Requests |-> Idle]
    /\ calls       \in Traffic
    /\ alone       \in BOOLEAN
    /\ ~alone => calls \in Crowds
    /\ rule        \in Recurrences
    /\ asked       = {}
    /\ answers     = {}

--------------------------------------------------------------------------------
Arrives(r, e, who) ==
    /\ e \in calls
    /\ who \notin deleted
    /\ req[r] = Idle
    /\ alone => \A q \in Requests : req[q] = Idle

Finish(r)      == req' = [req EXCEPT ![r] = Idle]
Holds(r, held) == req' = [req EXCEPT ![r] = held]

\* The instance is killed, an awaited call rejects, or an occurrence is refused.
Abandon(r) ==
    /\ req[r] # Idle
    /\ Finish(r)
    /\ UNCHANGED <<bookings, log, reviews, deleted, booked, today, setup, history>>

\* A booking moves along, or its time comes.
Quiet == alone => \A r \in Requests : req[r] = Idle

Move(b, status) ==
    /\ "move" \in calls /\ Quiet
    /\ status # Disputed
    /\ canTransition(bookings[b].status, status)
    /\ bookings' = [bookings EXCEPT ![b].status = status]
    /\ UNCHANGED <<log, reviews, deleted, booked, today, req, setup, history>>

ComesDue(b) ==
    /\ "move" \in calls /\ Quiet
    /\ bookings' = [bookings EXCEPT ![b].due = TRUE]
    /\ UNCHANGED <<log, reviews, deleted, booked, today, req, setup, history>>

--------------------------------------------------------------------------------
(***************************************************************************)
(* The log of a walk.                                                      *)
(***************************************************************************)

\* Mutant: anything can be logged about a booking.
LogUnasserted(r, b, kind) ==
    /\ Arrives(r, "log", BusinessOf[b])
    /\ Holds(r, [Idle EXCEPT !.step = IF kind = "photo" THEN "upload" ELSE "log",
                             !.booking = b, !.kind = kind])
    /\ UNCHANGED <<bookings, log, reviews, deleted, booked, today, setup, history>>

\* logLocation and logEvent: the booking is loaded, and must be in progress.
LogLoad(r, b, kind) ==
    /\ Arrives(r, "log", BusinessOf[b])
    /\ bookings[b].status = InProgress
    /\ Holds(r, [Idle EXCEPT !.step = IF kind = "photo" THEN "upload" ELSE "log",
                             !.booking = b, !.kind = kind])
    /\ UNCHANGED <<bookings, log, reviews, deleted, booked, today, setup, history>>

\* uploadBase64Photo.
LogUpload(r) ==
    /\ req[r].step = "upload"
    /\ Holds(r, [req[r] EXCEPT !.step = "log"])
    /\ UNCHANGED <<bookings, log, reviews, deleted, booked, today, setup, history>>

\* The point or the event is stored, whatever became of the walk.
LogSave(r) ==
    LET b == req[r].booking IN
    /\ req[r].step = "log"
    /\ IF req[r].kind = "point"
       THEN trail[b] < MaxLog /\ trail' = [trail EXCEPT ![b] = @ + 1] /\ UNCHANGED events
       ELSE events[b] < MaxLog /\ events' = [events EXCEPT ![b] = @ + 1] /\ UNCHANGED trail
    /\ Finish(r)
    /\ UNCHANGED <<bookings, reviews, deleted, booked, today, setup, history>>

\* getTrip: what the map and the report card show.
report(b) == [status |-> bookings[b].status, route |-> trail[b], events |-> events[b]]

--------------------------------------------------------------------------------
(***************************************************************************)
(* Reviews.                                                                *)
(***************************************************************************)

SERVED_STATUSES == {Confirmed, InProgress, Completed}

\* write: first the business's page is looked up ...
WriteLoad(r, who, business, b) ==
    /\ Arrives(r, "write", who)
    /\ business \notin deleted
    /\ Holds(r, [Idle EXCEPT !.step = "write", !.booking = b, !.who = <<who, business>>])
    /\ UNCHANGED <<bookings, log, reviews, deleted, booked, today, setup, history>>

\* ... then the booking: a walker is reviewed for one of its own that was served, another
\* business by any owner ...
WriteCheck(r) ==
    LET q == req[r] IN
    /\ q.step = "write"
    /\ IF q.who[2] \in Bookable
       THEN /\ q.booking # None
            /\ <<OwnerOf[q.booking], BusinessOf[q.booking]>> = q.who
            /\ bookings[q.booking].status \in SERVED_STATUSES /\ bookings[q.booking].due
            /\ Holds(r, [q EXCEPT !.step = "find"])
       ELSE Holds(r, [q EXCEPT !.step = "find", !.booking = None])
    /\ UNCHANGED <<bookings, log, reviews, deleted, booked, today, setup, history>>

Same(a, b) == IF a.booking = None THEN b.booking = None /\ a.owner = b.owner /\ a.business = b.business
              ELSE a.booking = b.booking

Fresh == {i \in Reviews : reviews[i] = None /\ \A r \in Requests : req[r].id # i}

\* ... and the review: the one that is there is edited, or a new one is written.
WriteFind(r, rating) ==
    LET q     == req[r]
        new   == [booking |-> q.booking, owner |-> q.who[1], business |-> q.who[2],
                  rating |-> rating, reply |-> FALSE]
        found == {i \in Reviews : reviews[i] # None /\ Same(new, reviews[i])}
    IN
    /\ q.step = "find"
    /\ \/ \E i \in found : Holds(r, [q EXCEPT !.step = "save", !.id = i,
                                              !.review = [reviews[i] EXCEPT !.rating = rating]])
       \/ /\ found = {} /\ Fresh # {}
          /\ Holds(r, [q EXCEPT !.step = "save", !.id = Min(Fresh), !.review = new])
    /\ UNCHANGED <<bookings, log, reviews, deleted, booked, today, setup, history>>

\* Mutant: the table has no unique indexes.
NoIndexes(i, review) == FALSE

\* uq_providers_reviews_booking and uq_providers_reviews_owner.
IndexesRefuse(i, review) ==
    \E j \in Reviews \ {i} : reviews[j] # None /\ Same(review, reviews[j])

\* save: the row becomes the copy, and is inserted when it is not there.
WriteSave(r) ==
    LET q == req[r] IN
    /\ q.step = "save"
    /\ ~IndexesRefuse(q.id, q.review)
    /\ reviews' = [reviews EXCEPT ![q.id] = q.review]
    /\ Finish(r)
    /\ UNCHANGED <<bookings, log, deleted, booked, today, setup, history>>

\* reply: the business's own review is found ...
ReplyFind(r, i) ==
    /\ reviews[i] # None
    /\ Arrives(r, "reply", reviews[i].business)
    /\ Holds(r, [Idle EXCEPT !.step = "reply", !.id = i])
    /\ UNCHANGED <<bookings, log, reviews, deleted, booked, today, setup, history>>

\* ... and an UPDATE writes the reply alone, when the row is still there.
ReplyUpdate(r, reply) ==
    LET i == req[r].id IN
    /\ req[r].step = "reply"
    /\ reviews' = IF reviews[i] = None THEN reviews ELSE [reviews EXCEPT ![i].reply = reply]
    /\ Finish(r)
    /\ UNCHANGED <<bookings, log, deleted, booked, today, setup, history>>

\* deleteRows, one transaction: the trail of walks it did, its reviews and those about it.
\* Bookings and what was logged of them are the other side's too.
deleteRows(who) ==
    /\ "delete" \in calls /\ Quiet
    /\ who \notin deleted
    /\ deleted' = deleted \cup {who}
    /\ trail'   = [b \in Bookings |-> IF BusinessOf[b] = who THEN 0 ELSE trail[b]]
    /\ reviews' = [i \in Reviews |-> IF reviews[i] # None /\ who \in {reviews[i].owner, reviews[i].business}
                                     THEN None ELSE reviews[i]]
    /\ UNCHANGED <<bookings, events, booked, today, req, setup, history>>

--------------------------------------------------------------------------------
(***************************************************************************)
(* Recurring bookings: one client, who sends the same request again, with  *)
(* the same idempotency key, until it is answered.                         *)
(***************************************************************************)

\* The series is saved first, a new one at each attempt.
SeriesSave(r, who) ==
    LET new == Cardinality(series) + 1 IN
    /\ Arrives(r, "recurring", who)
    /\ new <= MaxAttempts
    /\ series' = series \cup {new}
    /\ Holds(r, [Idle EXCEPT !.step = "expand", !.series = new])
    /\ UNCHANGED <<bookings, log, reviews, deleted, occurrences, today, setup, history>>

SeriesExpand(r) ==
    LET days == expandOccurrences(rule, today, 4) IN
    /\ req[r].step = "expand"
    /\ Holds(r, [req[r] EXCEPT !.step = "next", !.index = 1, !.days = days])
    /\ asked' = asked \cup {days}
    /\ UNCHANGED <<bookings, log, reviews, deleted, booked, today, setup, answers>>

\* Mutant: the key of an occurrence starts with the series.
OccurrenceOfSeries(q) == {x \in occurrences : x.index = q.index /\ x.series = q.series}

\* The booking of this owner with the key prefix:i, as createBooking looks for it and
\* idx_bookings_owner_idempotency guards it.
OccurrenceWith(q) == {x \in occurrences : x.index = q.index}

\* createBooking: the one that is there is taken, on whichever day it is.
SeriesFind(r) ==
    LET q == req[r] IN
    /\ q.step = "next" /\ q.index <= Len(q.days)
    /\ \/ \E x \in OccurrenceWith(q) :
             Holds(r, [q EXCEPT !.index = @ + 1, !.found = Append(@, x.day)])
       \/ OccurrenceWith(q) = {} /\ Holds(r, [q EXCEPT !.step = "insert"])
    /\ UNCHANGED <<bookings, log, reviews, deleted, booked, today, setup, history>>

SeriesInsert(r) ==
    LET q == req[r] IN
    /\ q.step = "insert"
    /\ OccurrenceWith(q) = {}
    /\ occurrences' = occurrences \cup {[index |-> q.index, day |-> q.days[q.index], series |-> q.series]}
    /\ Holds(r, [q EXCEPT !.step = "next", !.index = @ + 1, !.found = Append(@, q.days[q.index])])
    /\ UNCHANGED <<bookings, log, reviews, deleted, series, today, setup, history>>

\* The event, which the first booking carries, and the answer.
SeriesAnswer(r) ==
    /\ req[r].step = "next" /\ req[r].index > Len(req[r].days)
    /\ answers' = answers \cup {req[r].found}
    /\ Finish(r)
    /\ UNCHANGED <<bookings, log, reviews, deleted, booked, today, setup, asked>>

Tick ==
    /\ "recurring" \in calls /\ Quiet
    /\ today' = IF today.time = 0 THEN [today EXCEPT !.time = 2] ELSE [day |-> today.day + 1, time |-> 0]
    /\ today'.day <= Horizon
    /\ UNCHANGED <<bookings, log, reviews, deleted, booked, req, setup, history>>

--------------------------------------------------------------------------------
Series(r)  == \/ \E who \in Owners : SeriesSave(r, who)
              \/ SeriesExpand(r) \/ SeriesFind(r) \/ SeriesInsert(r) \/ SeriesAnswer(r)

Log(r)     == \/ \E b \in Bookings, kind \in {"point", "mark", "photo"} : LogLoad(r, b, kind)
              \/ LogUpload(r) \/ LogSave(r)

Write(r)   == \/ \E who \in Owners, business \in Businesses, b \in Bookings \cup {None} :
                    WriteLoad(r, who, business, b)
              \/ WriteCheck(r) \/ (\E rating \in Rates : WriteFind(r, rating)) \/ WriteSave(r)

Reply(r)   == \/ \E i \in Reviews : ReplyFind(r, i)
              \/ \E reply \in BOOLEAN : ReplyUpdate(r, reply)

Next == \/ \E r \in Requests : Series(r) \/ Log(r) \/ Write(r) \/ Reply(r) \/ Abandon(r)
        \/ \E b \in Bookings : ComesDue(b) \/ \E status \in Statuses : Move(b, status)
        \/ \E who \in Owners \cup Businesses : deleteRows(who)
        \/ Tick

Spec == Init /\ [][Next]_vars

--------------------------------------------------------------------------------
(***************************************************************************)
(* Properties.                                                             *)
(***************************************************************************)

\* review.entity.ts: "one review per booking" and "one review per owner and business",
\* however many requests write one at the same time, and whichever row they loaded;
\* and, when requests do not overlap, an account's "words go with them" and so does
\* what was said about its business.
OneReviewEach ==
    /\ \A i, j \in Reviews : reviews[i] # None /\ reviews[j] # None /\ Same(reviews[i], reviews[j])
                            => i = j
    /\ alone => \A i \in Reviews : reviews[i] # None
                                  => deleted \cap {reviews[i].owner, reviews[i].business} = {}

\* trips.controller.ts: a walk that never started has no log, whatever overlaps; and when
\* requests do not overlap the report card of a finished walk stays as it was, but for
\* the trail, which goes with the walker's account.
LogKeepsToTheWalk ==
    [][\A b \in Bookings :
          /\ report(b)'.route > report(b).route \/ report(b)'.events > report(b).events
             => bookings[b].status \in {InProgress, Completed}
          /\ alone /\ bookings[b].status = Completed
             => \/ report(b)' = report(b)
                \/ report(b)' = [report(b) EXCEPT !.route = 0] /\ BusinessOf[b] \in deleted']_vars

\* booking-process-manager.ts: sending a recurring request again, after any failure half
\* way, books no occurrence twice and no two on one day, in the order of the rule; and
\* when no day of the rule went by meanwhile, what is answered is what the rule asks for.
SeriesAsAsked ==
    /\ \A x, y \in occurrences : x.index = y.index => x = y
    /\ alone => /\ \A x, y \in occurrences : x.index < y.index => x.day < y.day
                /\ Cardinality(asked) = 1 => answers \subseteq asked
================================================================================
