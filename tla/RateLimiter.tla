------------------------------ MODULE RateLimiter ------------------------------
(***************************************************************************)
(* The counters of rate_limits and the endpoints that use them.            *)
(*                                                                         *)
(* A counter belongs to one rule and one subject (an e-mail, an account, a *)
(* connection): its key.  Windows are fixed: one opens at the first counted *)
(* event and the next one restarts the count once it has passed.  A route  *)
(* says what an endpoint asks of the limiter: the counters it asserts, then *)
(* those it consumes, those it records when the answer is wrong or right,  *)
(* and those it clears.                                                    *)
(*                                                                         *)
(* The time a call passes to the limiter is read when the call is made, its *)
(* SQL statement runs later: a request carries that time in `at`.  The      *)
(* platform stops a request that waits for longer than Patience.           *)
(***************************************************************************)
EXTENDS Naturals, Sequences, FiniteSets

CONSTANTS
    Keys,        \* counters: a rule and a subject
    Subjects,    \* for each subject, the set of its counters
    Traffic,     \* sets of endpoints that are called together
    Requests,    \* requests that can be in flight at once
    Max,         \* how many a counter allows within one window
    Window,      \* how long its window lasts
    SweepAfter,  \* age at which a row may be swept
    Patience,    \* how long a request may wait for the limiter
    Horizon,     \* bound on the clock
    None         \* no row, no route

VARIABLES
    counters,  \* rate_limits, by key
    req,       \* what each request in flight holds
    now,       \* Date.now()
    routes,    \* what the endpoints that are called ask of the limiter
    log        \* history: when each counter's consumptions were admitted

vars == <<counters, req, now, routes, log>>

Counter == [count : Nat \ {0}, start : Nat]
Route   == [assert : Seq(Keys), consume : Seq(Keys),
            wrong : SUBSET Keys, right : SUBSET Keys, clear : SUBSET Keys]
Steps   == {"idle", "assert", "check", "consume", "act", "record", "clear"}
Request == [step : Steps, route : Route \cup {None},
            asserts : Seq(Keys), consumes : Seq(Keys), counts : SUBSET Keys,
            clears : SUBSET Keys, at : Nat]

ASSUME LimiterConstants ==
    /\ Max \in [Keys -> Nat \ {0}] /\ Window \in [Keys -> Nat \ {0}]
    /\ Subjects \subseteq SUBSET Keys /\ Traffic \subseteq SUBSET Route
    /\ IsFiniteSet(Requests) /\ Requests # {}
    /\ SweepAfter \in Nat /\ Patience \in Nat /\ Horizon \in Nat
    /\ \A k \in Keys : Patience < Window[k] /\ Window[k] <= SweepAfter
    /\ None \notin Counter \cup Route

Idle == [step |-> "idle", route |-> None, asserts |-> <<>>, consumes |-> <<>>,
         counts |-> {}, clears |-> {}, at |-> 0]

Init ==
    /\ counters = [k \in Keys |-> None]
    /\ req      = [r \in Requests |-> Idle]
    /\ now      = 0
    /\ routes   \in Traffic
    /\ log      = [k \in Keys |-> <<>>]

--------------------------------------------------------------------------------
(***************************************************************************)
(* What each endpoint asks.                                                *)
(***************************************************************************)

Asks == [assert |-> <<>>, consume |-> <<>>, wrong |-> {}, right |-> {}, clear |-> {}]

signup(ip) == [Asks EXCEPT !.assert = <<ip>>, !.right = {ip}]

\* Mutant: the account's counter is not asserted before the password is tried.
LoginUnasserted(email, ip) ==
    [Asks EXCEPT !.assert = <<ip>>, !.wrong = {email, ip}, !.clear = {email}]

login(email, ip) ==
    [Asks EXCEPT !.assert = <<email, ip>>, !.wrong = {email, ip}, !.clear = {email}]

\* verify-email, and POST /me/email/confirm on the same counter.
verifyEmail(account) ==
    [Asks EXCEPT !.assert = <<account>>, !.wrong = {account}, !.clear = {account}]

\* POST /me/password shares the budget of login.
changePassword(email) ==
    [Asks EXCEPT !.assert = <<email>>, !.wrong = {email}, !.clear = {email}]

requestEmailChange(email, account, ip) ==
    [Asks EXCEPT !.assert = <<email>>, !.consume = <<account, ip>>, !.wrong = {email}]

\* forgot-password, and send-verification-email on the account's counter.
forgotPassword(email, ip) == [Asks EXCEPT !.consume = <<email, ip>>]

resetPassword(email) == [Asks EXCEPT !.clear = {email}]

\* A visit or a tap on a page, counted once per visitor, page and kind.
pageEvent(visitor) == [Asks EXCEPT !.consume = <<visitor>>]

geoSearch(ip) == [Asks EXCEPT !.consume = <<ip>>]

\* Every call of the limiter in the code: what is counted by attempts is asserted first
\* and may be cleared, what is counted by quotas is only ever consumed.
Endpoints(attempts, quotas) ==
    {signup(ip) : ip \in attempts}
    \cup {login(email, ip) : email \in attempts, ip \in attempts}
    \cup {verifyEmail(account) : account \in attempts}
    \cup {changePassword(email) : email \in attempts}
    \cup {requestEmailChange(email, account, ip) : email \in attempts, account \in quotas, ip \in quotas}
    \cup {forgotPassword(email, ip) : email \in quotas, ip \in quotas}
    \cup {resetPassword(email) : email \in attempts}
    \cup {pageEvent(visitor) : visitor \in quotas}
    \cup {geoSearch(ip) : ip \in quotas}

\* rate-limit-rules.ts: "unique per rule".  The key of a counter has the name of its rule
\* in it, so no counter is both.
ASSUME EndpointsOnly ==
    \A T \in Traffic : \E attempts \in SUBSET Keys : T \subseteq Endpoints(attempts, Keys \ attempts)

--------------------------------------------------------------------------------
(***************************************************************************)
(* RateLimiter                                                             *)
(***************************************************************************)

\* The window of counter k is open at time t.
Open(k, t) == counters[k] # None /\ t < counters[k].start + Window[k]

\* assertAllowed refuses.
Refuses(k, t) == Open(k, t) /\ counters[k].count >= Max[k]

\* record's upsert: an expired window restarts at 1, a live one goes up by 1.
Recorded(k, t) ==
    IF Open(k, t) THEN [counters[k] EXCEPT !.count = @ + 1]
    ELSE [count |-> 1, start |-> t]

\* Mutant: every row older than the call is swept.
SweptEarly(rows, t) ==
    [k \in Keys |-> IF rows[k] # None /\ rows[k].start < t THEN None ELSE rows[k]]

\* The rows older than SweepAfter are deleted.
Swept(rows, t) ==
    [k \in Keys |-> IF rows[k] # None /\ rows[k].start + SweepAfter < t THEN None ELSE rows[k]]

\* record(k) by a call made at t.  One in a hundred also fires a sweep that nobody
\* awaits: run later it would find the same old rows or fewer.
Records(k, t) ==
    LET rows == [counters EXCEPT ![k] = Recorded(k, t)]
    IN  counters' \in {rows, Swept(rows, t)}

\* What a request does next with what is left of its route.
Resume(q) ==
    CASE q.asserts # <<>> -> [q EXCEPT !.step = "assert", !.at = now]
      [] q.asserts = <<>> /\ q.consumes # <<>> -> [q EXCEPT !.step = "check", !.at = now]
      [] OTHER -> [q EXCEPT !.step = "act", !.at = 0]

Finish(r) == req' = [req EXCEPT ![r] = Idle]

\* A request reaches one of the endpoints.
Arrive(r, route) ==
    /\ req[r] = Idle
    /\ req' = [req EXCEPT ![r] = Resume([Idle EXCEPT !.route = route,
                   !.asserts = route.assert, !.consumes = route.consume])]
    /\ UNCHANGED <<counters, now, routes, log>>

assertAllowed(r) ==
    LET q == req[r] k == Head(q.asserts) IN
    /\ q.step = "assert"
    /\ IF Refuses(k, q.at) THEN Finish(r)
       ELSE req' = [req EXCEPT ![r] = Resume([q EXCEPT !.asserts = Tail(@)])]
    /\ UNCHANGED <<counters, now, routes, log>>

\* consume asserts first ...
ConsumeCheck(r) ==
    LET q == req[r] k == Head(q.consumes) IN
    /\ q.step = "check"
    /\ IF Refuses(k, q.at) THEN Finish(r)
       ELSE req' = [req EXCEPT ![r].step = "consume"]
    /\ UNCHANGED <<counters, now, routes, log>>

\* Mutant: the count that comes back is not looked at.
ConsumeUnchecked(r) ==
    LET q == req[r] k == Head(q.consumes) IN
    /\ q.step = "consume"
    /\ Records(k, q.at)
    /\ req' = [req EXCEPT ![r] = Resume([q EXCEPT !.consumes = Tail(@)])]
    /\ log' = [log EXCEPT ![k] = Append(@, now)]
    /\ UNCHANGED <<now, routes>>

\* ... then records with the time it asserted with, and refuses if that went over.
consume(r) ==
    LET q == req[r] k == Head(q.consumes) IN
    /\ q.step = "consume"
    /\ Records(k, q.at)
    /\ IF Recorded(k, q.at).count > Max[k]
       THEN Finish(r) /\ UNCHANGED log
       ELSE /\ req' = [req EXCEPT ![r] = Resume([q EXCEPT !.consumes = Tail(@)])]
            /\ log' = [log EXCEPT ![k] = Append(@, now)]
    /\ UNCHANGED <<now, routes>>

\* The endpoint's own work: a password or a code is right or wrong.
Act(r) ==
    LET q == req[r] IN
    /\ q.step = "act"
    /\ \/ req' = [req EXCEPT ![r].step = "record", ![r].at = now,
                             ![r].counts = q.route.right, ![r].clears = q.route.clear]
       \/ req' = [req EXCEPT ![r].step = "record", ![r].at = now,
                             ![r].counts = q.route.wrong]
    /\ UNCHANGED <<counters, now, routes, log>>

\* The counters of a wrong answer are recorded in parallel.
record(r) ==
    /\ req[r].step = "record"
    /\ \E k \in req[r].counts :
          /\ Records(k, req[r].at)
          /\ req' = [req EXCEPT ![r].counts = @ \ {k}]
    /\ UNCHANGED <<now, routes, log>>

\* Everything is recorded; a right answer clears, and the client is answered.
clear(r) ==
    /\ req[r].step = "record"
    /\ req[r].counts = {}
    /\ counters' = [k \in Keys |-> IF k \in req[r].clears THEN None ELSE counters[k]]
    /\ Finish(r)
    /\ UNCHANGED <<now, routes, log>>

\* An account is deleted: the counters about it go, whatever the rule.
forgetSubject(S) ==
    /\ counters' = [k \in Keys |-> IF k \in S THEN None ELSE counters[k]]
    /\ log' = [k \in Keys |-> IF k \in S THEN <<>> ELSE log[k]]
    /\ UNCHANGED <<req, now, routes>>

\* The instance is killed or an awaited call rejects.
Abandon(r) ==
    /\ req[r] # Idle
    /\ Finish(r)
    /\ UNCHANGED <<counters, now, routes, log>>

\* A call to the limiter is over, or its request stopped, within Patience.
Tick ==
    /\ now < Horizon
    /\ \A r \in Requests : req[r].step \notin {"idle", "act"} => now < req[r].at + Patience
    /\ now' = now + 1
    /\ UNCHANGED <<counters, req, routes, log>>

Next ==
    \/ \E r \in Requests :
          \/ \E route \in routes : Arrive(r, route)
          \/ assertAllowed(r) \/ ConsumeCheck(r) \/ consume(r)
          \/ Act(r) \/ record(r) \/ clear(r) \/ Abandon(r)
    \/ \E S \in Subjects : forgetSubject(S)
    \/ Tick

Spec == Init /\ [][Next]_vars

--------------------------------------------------------------------------------
(***************************************************************************)
(* Properties.                                                             *)
(***************************************************************************)

TypeOK ==
    /\ counters \in [Keys -> Counter \cup {None}]
    /\ req \in [Requests -> Request]
    /\ now \in Nat
    /\ routes \in Traffic
    /\ log \in [Keys -> Seq(Nat)]

\* Callers that assert, act and record apart can go over a limit, but only by the
\* requests that were in flight together: a wrong password, a code or a sign-up
\* is never counted more than Max + |Requests| - 1 times in one window.
CountBounded ==
    \A k \in Keys : counters[k] # None
                    => counters[k].count < Max[k] + Cardinality(Requests)

\* "Counted per window": windows are fixed, so a burst can straddle two of them, but
\* no three: any 2 Max + 1 admissions in a row take a window, less the age a
\* request can have.
NoBurst ==
    \A k \in Keys : \A i \in DOMAIN log[k] :
        i + 2 * Max[k] \in DOMAIN log[k]
        => log[k][i + 2 * Max[k]] + Patience >= log[k][i] + Window[k]

\* rate-limit-rules.ts: "the same visitor opening the page again within this window
\* counts once".  Where one is allowed, admissions are a window apart, however
\* late the statements run.
CountsOnce ==
    \A k \in Keys : Max[k] = 1 => \A i \in DOMAIN log[k] :
        i + 1 \in DOMAIN log[k] => log[k][i + 1] + Patience >= log[k][i] + Window[k]
================================================================================
