--------------------------- MODULE RateLimiterProofs ---------------------------
(***************************************************************************)
(* Theorems about RateLimiter, for any counters, limits, windows and       *)
(* number of requests.  Two ideas carry them.                              *)
(*                                                                         *)
(* What is asserted, acted upon and recorded apart is bounded by who may   *)
(* still record it: a request is due on a counter when it has passed the   *)
(* check and the window that it would record in is the one that is open.   *)
(*                                                                         *)
(* What is consumed is bounded by its windows: of the admissions so far,   *)
(* all but the last Max were made before the window that is open.          *)
(***************************************************************************)
EXTENDS RateLimiter, FiniteSetTheorems, TLAPS

Elems(s) == {s[i] : i \in DOMAIN s}

--------------------------------------------------------------------------------
(***************************************************************************)
(* Sequences, and the routes of the endpoints.                             *)
(***************************************************************************)

LEMMA ElemsOfSmall ==
    ASSUME NEW a, NEW b
    PROVE  Elems(<<>>) = {} /\ Elems(<<a>>) = {a} /\ Elems(<<a, b>>) = {a, b}
BY DEF Elems

LEMMA ElemsOfTail ==
    ASSUME NEW S, NEW s \in Seq(S), s # <<>>
    PROVE  /\ Head(s) \in S /\ Tail(s) \in Seq(S)
           /\ Head(s) \in Elems(s)
           /\ Elems(Tail(s)) \subseteq Elems(s)
           /\ Elems(s) \subseteq {Head(s)} \cup Elems(Tail(s))
<1>1. Len(s) \in Nat /\ Len(s) >= 1 /\ DOMAIN s = 1..Len(s)
  OBVIOUS
<1>2. /\ Tail(s) \in Seq(S) /\ DOMAIN Tail(s) = 1..(Len(s) - 1)
      /\ \A i \in 1..(Len(s) - 1) : Tail(s)[i] = s[i + 1]
      /\ Head(s) = s[1]
  BY <1>1
<1>3. ASSUME NEW x \in Elems(s) PROVE x \in {Head(s)} \cup Elems(Tail(s))
  <2>1. PICK i \in 1..Len(s) : x = s[i]
    BY <1>1 DEF Elems
  <2>2. CASE i = 1
    BY <2>1, <2>2, <1>2
  <2>3. CASE i # 1
    <3>1. i - 1 \in 1..(Len(s) - 1) /\ Tail(s)[i - 1] = x
      BY <2>1, <2>3, <1>1, <1>2
    <3> QED
      BY <3>1, <1>2 DEF Elems
  <2> QED
    BY <2>2, <2>3
<1>4. ASSUME NEW x \in Elems(Tail(s)) PROVE x \in Elems(s)
  <2>1. PICK i \in 1..(Len(s) - 1) : x = Tail(s)[i]
    BY <1>2 DEF Elems
  <2>2. i + 1 \in 1..Len(s) /\ s[i + 1] = x
    BY <2>1, <1>1, <1>2
  <2> QED
    BY <2>2, <1>1 DEF Elems
<1>5. Head(s) \in Elems(s) /\ Head(s) \in S
  BY <1>1, <1>2 DEF Elems
<1> QED
  BY <1>2, <1>3, <1>4, <1>5

\* The counters a route may clear or asserts.
Attempted(route) == Elems(route.assert) \cup route.clear

\* What an endpoint records it has asserted, and what is consumed anywhere is neither
\* asserted nor cleared anywhere.
Disciplined ==
    \A route \in routes :
        /\ route \in Route
        /\ route.wrong \cup route.right \subseteq Elems(route.assert)
        /\ \A other \in routes : Elems(route.consume) \cap Attempted(other) = {}

LEMMA EndpointsDisciplined ==
    ASSUME NEW attempts \in SUBSET Keys, NEW route \in Endpoints(attempts, Keys \ attempts)
    PROVE  /\ route.wrong \cup route.right \subseteq Elems(route.assert)
           /\ Attempted(route) \subseteq attempts
           /\ Elems(route.consume) \subseteq Keys \ attempts
<1> USE DEF Attempted
<1>1. CASE \E ip \in attempts : route = signup(ip)
  BY <1>1, ElemsOfSmall DEF signup, Asks
<1>2. ASSUME NEW email \in attempts, NEW ip \in attempts, route = login(email, ip)
      PROVE  /\ route.wrong \cup route.right \subseteq Elems(route.assert)
             /\ Attempted(route) \subseteq attempts
             /\ Elems(route.consume) \subseteq Keys \ attempts
  <2>1. /\ route.assert = <<email, ip>> /\ route.wrong = {email, ip} /\ route.clear = {email}
        /\ route.right = {} /\ route.consume = <<>>
    BY <1>2 DEF login, Asks
  <2> QED
    BY <2>1, ElemsOfSmall
<1>3. ASSUME NEW account \in attempts,
             route = verifyEmail(account) \/ route = changePassword(account)
      PROVE  /\ route.wrong \cup route.right \subseteq Elems(route.assert)
             /\ Attempted(route) \subseteq attempts
             /\ Elems(route.consume) \subseteq Keys \ attempts
  <2>1. /\ route.assert = <<account>> /\ route.wrong = {account} /\ route.clear = {account}
        /\ route.right = {} /\ route.consume = <<>>
    BY <1>3 DEF verifyEmail, changePassword, Asks
  <2> QED
    BY <2>1, ElemsOfSmall
<1>4. ASSUME NEW email \in attempts, NEW account \in Keys \ attempts, NEW ip \in Keys \ attempts,
             route = requestEmailChange(email, account, ip)
      PROVE  /\ route.wrong \cup route.right \subseteq Elems(route.assert)
             /\ Attempted(route) \subseteq attempts
             /\ Elems(route.consume) \subseteq Keys \ attempts
  <2>1. /\ route.assert = <<email>> /\ route.wrong = {email} /\ route.clear = {}
        /\ route.right = {} /\ route.consume = <<account, ip>>
    BY <1>4 DEF requestEmailChange, Asks
  <2>2. Elems(<<email>>) = {email} /\ Elems(<<account, ip>>) = {account, ip}
    BY ElemsOfSmall
  <2> QED
    BY <2>1, <2>2
<1>5. ASSUME NEW email \in Keys \ attempts, NEW ip \in Keys \ attempts,
             route = forgotPassword(email, ip)
      PROVE  /\ route.wrong \cup route.right \subseteq Elems(route.assert)
             /\ Attempted(route) \subseteq attempts
             /\ Elems(route.consume) \subseteq Keys \ attempts
  <2>1. /\ route.assert = <<>> /\ route.wrong = {} /\ route.clear = {}
        /\ route.right = {} /\ route.consume = <<email, ip>>
    BY <1>5 DEF forgotPassword, Asks
  <2>2. Elems(<<>>) = {} /\ Elems(<<email, ip>>) = {email, ip}
    BY ElemsOfSmall
  <2> QED
    BY <2>1, <2>2
<1>6. CASE \E email \in attempts : route = resetPassword(email)
  BY <1>6, ElemsOfSmall DEF resetPassword, Asks
<1>7. ASSUME NEW ip \in Keys \ attempts, route = pageEvent(ip) \/ route = geoSearch(ip)
      PROVE  /\ route.wrong \cup route.right \subseteq Elems(route.assert)
             /\ Attempted(route) \subseteq attempts
             /\ Elems(route.consume) \subseteq Keys \ attempts
  <2>1. /\ route.assert = <<>> /\ route.wrong = {} /\ route.clear = {}
        /\ route.right = {} /\ route.consume = <<ip>>
    BY <1>7 DEF pageEvent, geoSearch, Asks
  <2> QED
    BY <2>1, ElemsOfSmall
<1> QED
  BY <1>1, <1>2, <1>3, <1>4, <1>5, <1>6, <1>7 DEF Endpoints

LEMMA RoutesDisciplined == routes \in Traffic => Disciplined
<1> SUFFICES ASSUME routes \in Traffic PROVE Disciplined
  OBVIOUS
<1>1. PICK attempts \in SUBSET Keys : routes \subseteq Endpoints(attempts, Keys \ attempts)
  BY EndpointsOnly
<1>2. routes \subseteq Route
  BY LimiterConstants
<1>3. \A route \in routes :
        /\ route.wrong \cup route.right \subseteq Elems(route.assert)
        /\ Attempted(route) \subseteq attempts
        /\ Elems(route.consume) \subseteq Keys \ attempts
  BY <1>1, EndpointsDisciplined
<1> QED
  BY <1>2, <1>3 DEF Disciplined
--------------------------------------------------------------------------------
(***************************************************************************)
(* Type correctness, and what a request holds at each step.                *)
(***************************************************************************)

\* On its way through the asserts and the consumes of its route, or acting.
Before == {"assert", "check", "consume", "act"}

HeldReq(q) ==
    \/ q = Idle
    \/ /\ q.step # "idle" /\ q.route \in routes
       /\ q.step \notin {"act"} => q.at <= now /\ now <= q.at + Patience
       /\ q.step \in Before =>
             /\ Elems(q.asserts) \subseteq Elems(q.route.assert)
             /\ Elems(q.consumes) \subseteq Elems(q.route.consume)
             /\ q.step = "assert" <=> q.asserts # <<>>
             /\ q.step \in {"check", "consume"} => q.consumes # <<>>
       /\ q.step = "record" => q.counts \subseteq q.route.wrong \cup q.route.right
       /\ q.clears \subseteq q.route.clear

Held == \A r \in Requests : HeldReq(req[r])

TypeInv == TypeOK /\ Held

LEMMA IdleHeld == Idle \in Request /\ HeldReq(Idle)
BY DEF Idle, Request, Steps, HeldReq

\* A request goes on to q, and all others stay where they are.
LEMMA GoesOn ==
    ASSUME TypeInv, NEW r \in Requests, NEW q \in Request, HeldReq(q),
           req' = [req EXCEPT ![r] = q], UNCHANGED <<now, routes>>
    PROVE  req' \in [Requests -> Request] /\ Held'
<1>1. req' \in [Requests -> Request]
  BY DEF TypeInv, TypeOK
<1>2. ASSUME NEW p \in Requests PROVE HeldReq(req[p])'
  BY DEF TypeInv, TypeOK, Held, HeldReq
<1> QED
  BY <1>1, <1>2 DEF Held

LEMMA FinishGoesOn ==
    ASSUME TypeInv, NEW r \in Requests, Finish(r), UNCHANGED <<now, routes>>
    PROVE  req' \in [Requests -> Request] /\ Held'
BY IdleHeld, GoesOn DEF Finish

\* What Resume makes of a request that has checked what it was to check.
LEMMA ResumeHeld ==
    ASSUME TypeInv, NEW q \in Request, q.route \in routes,
           Elems(q.asserts) \subseteq Elems(q.route.assert),
           Elems(q.consumes) \subseteq Elems(q.route.consume), q.clears \subseteq q.route.clear
    PROVE  /\ Resume(q) \in Request /\ HeldReq(Resume(q))
           /\ Resume(q).step \in {"assert", "check", "act"}
           /\ Resume(q).asserts = q.asserts /\ Resume(q).route = q.route
           /\ Resume(q).consumes = q.consumes
<1>1. now \in Nat /\ Patience \in Nat
  BY LimiterConstants DEF TypeInv, TypeOK
<1>2. ASSUME NEW s \in {"assert", "check", "act"}, NEW t \in {0, now},
             Resume(q) = [q EXCEPT !.step = s, !.at = t],
             s # "act" => t = now, s = "assert" <=> q.asserts # <<>>, s = "check" => q.consumes # <<>>
      PROVE  /\ Resume(q) \in Request /\ HeldReq(Resume(q)) /\ Resume(q).step = s
             /\ Resume(q).asserts = q.asserts /\ Resume(q).route = q.route
             /\ Resume(q).consumes = q.consumes
  <2>0. /\ t \in Nat /\ s \in Steps
    BY <1>1, <1>2 DEF Steps
  <2>1. /\ Resume(q) \in Request /\ Resume(q).step = s /\ Resume(q).at = t
        /\ Resume(q).asserts = q.asserts /\ Resume(q).route = q.route
        /\ Resume(q).consumes = q.consumes /\ Resume(q).clears = q.clears
    <3> DEFINE p == [q EXCEPT !.step = s, !.at = t]
    <3>1. /\ p \in Request /\ p.step = s /\ p.at = t /\ p.asserts = q.asserts
          /\ p.route = q.route /\ p.consumes = q.consumes /\ p.clears = q.clears
      BY <2>0 DEF Request
    <3> QED
      BY <1>2, <3>1
  <2>2. HeldReq(Resume(q))
    BY <1>1, <1>2, <2>1 DEF HeldReq, Before
  <2> QED
    BY <2>1, <2>2
<1>3. CASE q.asserts # <<>>
  <2>1. Resume(q) = [q EXCEPT !.step = "assert", !.at = now]
    BY <1>3 DEF Resume
  <2> QED
    BY <2>1, <1>2, <1>3
<1>4. CASE q.asserts = <<>> /\ q.consumes # <<>>
  <2>1. Resume(q) = [q EXCEPT !.step = "check", !.at = now]
    BY <1>4 DEF Resume
  <2> QED
    BY <2>1, <1>2, <1>4
<1>5. CASE q.asserts = <<>> /\ q.consumes = <<>>
  <2>1. Resume(q) = [q EXCEPT !.step = "act", !.at = 0]
    BY <1>5 DEF Resume
  <2> QED
    BY <2>1, <1>2, <1>5
<1> QED
  BY <1>3, <1>4, <1>5

\* The steps of a request, by what they make of it.  The proofs below are about these.
LEMMA ArriveMakes ==
    ASSUME TypeInv, NEW r \in Requests, NEW route \in routes, Arrive(r, route)
    PROVE  \E q \in Request :
              /\ req' = [req EXCEPT ![r] = q] /\ HeldReq(q)
              /\ q.step \in {"assert", "check", "act"}
              /\ q.route = route /\ q.asserts = route.assert
<1> DEFINE p == [Idle EXCEPT !.route = route, !.asserts = route.assert, !.consumes = route.consume]
<1>1. route \in Route
  BY LimiterConstants DEF TypeInv, TypeOK
<1>2. /\ p \in Request /\ p.route = route /\ p.asserts = route.assert
      /\ p.consumes = route.consume /\ p.clears = {}
  BY <1>1 DEF Idle, Request, Steps, Route
<1> HIDE DEF p
<1>3. /\ Resume(p) \in Request /\ HeldReq(Resume(p))
      /\ Resume(p).step \in {"assert", "check", "act"}
      /\ Resume(p).route = route /\ Resume(p).asserts = route.assert
  BY <1>2, ResumeHeld
<1>4. req' = [req EXCEPT ![r] = Resume(p)]
  BY DEF Arrive, p
<1> QED
  BY <1>3, <1>4

LEMMA AssertMakes ==
    ASSUME TypeInv, NEW r \in Requests, assertAllowed(r)
    PROVE  LET k == Head(req[r].asserts) IN
           /\ req[r].step = "assert" /\ req[r] \in Request /\ k \in Keys
           /\ k \in Elems(req[r].asserts) /\ req[r].at <= now /\ req[r].at \in Nat
           /\ \/ Finish(r)
              \/ ~Refuses(k, req[r].at)
                 /\ \E q \in Request :
                      /\ req' = [req EXCEPT ![r] = q] /\ HeldReq(q)
                      /\ q.step \in {"assert", "check", "act"} /\ q.route = req[r].route
                      /\ Elems(req[r].asserts) \subseteq {k} \cup Elems(q.asserts)
<1> DEFINE k == Head(req[r].asserts)
           p == [req[r] EXCEPT !.asserts = Tail(@)]
<1>1. /\ req[r].step = "assert" /\ req[r] \in Request /\ HeldReq(req[r])
      /\ UNCHANGED <<now, routes>>
  BY DEF assertAllowed, TypeInv, TypeOK, Held
<1>2. /\ req[r].route \in routes /\ req[r].at <= now
      /\ Elems(req[r].asserts) \subseteq Elems(req[r].route.assert)
      /\ Elems(req[r].consumes) \subseteq Elems(req[r].route.consume)
      /\ req[r].asserts # <<>> /\ req[r].clears \subseteq req[r].route.clear
  BY <1>1 DEF HeldReq, Before, Idle
<1>3. /\ k \in Keys /\ Tail(req[r].asserts) \in Seq(Keys) /\ k \in Elems(req[r].asserts)
      /\ Elems(Tail(req[r].asserts)) \subseteq Elems(req[r].asserts)
      /\ Elems(req[r].asserts) \subseteq {k} \cup Elems(Tail(req[r].asserts))
  BY <1>1, <1>2, ElemsOfTail DEF Request
<1>4. /\ p \in Request /\ p.route = req[r].route /\ p.asserts = Tail(req[r].asserts)
      /\ p.consumes = req[r].consumes /\ p.clears = req[r].clears
  BY <1>1, <1>3 DEF Request
<1>5. \/ Finish(r)
      \/ ~Refuses(k, req[r].at) /\ req' = [req EXCEPT ![r] = Resume(p)]
  BY DEF assertAllowed
<1> HIDE DEF k, p
<1>6. /\ Resume(p) \in Request /\ HeldReq(Resume(p))
      /\ Resume(p).step \in {"assert", "check", "act"}
      /\ Resume(p).route = req[r].route /\ Resume(p).asserts = Tail(req[r].asserts)
  BY <1>2, <1>3, <1>4, ResumeHeld
<1>7. req[r].at \in Nat
  BY <1>1 DEF Request
<1> QED
  BY <1>1, <1>2, <1>3, <1>5, <1>6, <1>7 DEF k

LEMMA ConsumeMakes ==
    ASSUME TypeInv, NEW r \in Requests, req[r].step \in {"check", "consume"}
    PROVE  LET k == Head(req[r].consumes)
               q == Resume([req[r] EXCEPT !.consumes = Tail(@)])
           IN  /\ req[r] \in Request /\ req[r].route \in routes /\ req[r].asserts = <<>>
               /\ k \in Keys /\ k \in Elems(req[r].route.consume)
               /\ req[r].at \in Nat /\ req[r].at <= now /\ now <= req[r].at + Patience
               /\ q \in Request /\ HeldReq(q)
               /\ q.step \in {"check", "act"} /\ q.route = req[r].route /\ q.asserts = <<>>
               /\ [req[r] EXCEPT !.step = "consume"] \in Request
               /\ HeldReq([req[r] EXCEPT !.step = "consume"])
<1> DEFINE k == Head(req[r].consumes)
           p == [req[r] EXCEPT !.consumes = Tail(@)]
           c == [req[r] EXCEPT !.step = "consume"]
<1>1. req[r] \in Request /\ HeldReq(req[r])
  BY DEF TypeInv, TypeOK, Held
<1>2. /\ req[r].route \in routes /\ req[r].at <= now /\ now <= req[r].at + Patience
      /\ Elems(req[r].asserts) \subseteq Elems(req[r].route.assert)
      /\ Elems(req[r].consumes) \subseteq Elems(req[r].route.consume)
      /\ req[r].asserts = <<>> /\ req[r].consumes # <<>>
      /\ req[r].clears \subseteq req[r].route.clear
  BY <1>1 DEF HeldReq, Before, Idle
<1>3. /\ k \in Keys /\ Tail(req[r].consumes) \in Seq(Keys) /\ k \in Elems(req[r].consumes)
      /\ Elems(Tail(req[r].consumes)) \subseteq Elems(req[r].consumes)
  BY <1>1, <1>2, ElemsOfTail DEF Request
<1>4. /\ p \in Request /\ p.route = req[r].route /\ p.consumes = Tail(req[r].consumes)
      /\ p.asserts = req[r].asserts /\ p.clears = req[r].clears
  BY <1>1, <1>3 DEF Request
<1>5. c \in Request /\ HeldReq(c)
  BY <1>1, <1>2 DEF Request, Steps, HeldReq, Before
<1>6. req[r].at \in Nat
  BY <1>1 DEF Request
<1> HIDE DEF k, p, c
<1>7. /\ Resume(p) \in Request /\ HeldReq(Resume(p))
      /\ Resume(p).step \in {"assert", "check", "act"}
      /\ Resume(p).route = req[r].route /\ Resume(p).asserts = <<>>
  BY <1>2, <1>3, <1>4, ResumeHeld
<1>8. Resume(p).step # "assert"
  BY <1>7 DEF HeldReq, Before, Idle
<1> QED
  BY <1>1, <1>2, <1>3, <1>5, <1>6, <1>7, <1>8 DEF k, p, c

LEMMA ActMakes ==
    ASSUME TypeInv, NEW r \in Requests, Act(r)
    PROVE  /\ req[r].asserts = <<>>
           /\ \E q \in Request :
                /\ req' = [req EXCEPT ![r] = q] /\ HeldReq(q)
                /\ q.step = "record" /\ q.at = now /\ q.route = req[r].route
                /\ q.counts \in {q.route.wrong, q.route.right}
<1>1. /\ req[r].step = "act" /\ req[r] \in Request /\ HeldReq(req[r])
      /\ now \in Nat /\ Patience \in Nat
  BY LimiterConstants DEF Act, TypeInv, TypeOK, Held
<1>2. /\ req[r].route \in routes /\ req[r].route \in Route /\ req[r].asserts = <<>>
      /\ req[r].clears \subseteq req[r].route.clear
  BY <1>1, LimiterConstants DEF HeldReq, Before, Idle, TypeInv, TypeOK
<1>3. PICK counts \in {req[r].route.wrong, req[r].route.right},
           clears \in {req[r].clears, req[r].route.clear} :
         req' = [req EXCEPT ![r] = [req[r] EXCEPT !.step = "record", !.at = now,
                                        !.counts = counts, !.clears = clears]]
  <2>1. CASE req' = [req EXCEPT ![r].step = "record", ![r].at = now,
                        ![r].counts = req[r].route.right, ![r].clears = req[r].route.clear]
    <3>1. req' = [req EXCEPT ![r] = [req[r] EXCEPT !.step = "record", !.at = now,
                     !.counts = req[r].route.right, !.clears = req[r].route.clear]]
      BY <2>1 DEF TypeInv, TypeOK
    <3> QED
      BY <3>1
  <2>2. CASE req' = [req EXCEPT ![r].step = "record", ![r].at = now,
                        ![r].counts = req[r].route.wrong]
    <3>1. req' = [req EXCEPT ![r] = [req[r] EXCEPT !.step = "record", !.at = now,
                     !.counts = req[r].route.wrong, !.clears = req[r].clears]]
      BY <1>1, <2>2 DEF TypeInv, TypeOK, Request
    <3> QED
      BY <3>1
  <2> QED
    BY <2>1, <2>2 DEF Act
<1> DEFINE q == [req[r] EXCEPT !.step = "record", !.at = now, !.counts = counts, !.clears = clears]
<1>4. /\ q \in Request /\ q.step = "record" /\ q.at = now /\ q.route = req[r].route
      /\ q.counts = counts /\ q.clears = clears
  BY <1>1, <1>2 DEF Request, Steps, Route
<1> HIDE DEF q
<1>5. HeldReq(q)
  BY <1>1, <1>2, <1>4 DEF HeldReq, Before
<1> QED
  BY <1>2, <1>3, <1>4, <1>5 DEF q

LEMMA RecordMakes ==
    ASSUME TypeInv, NEW r \in Requests, NEW k \in req[r].counts, req[r].step = "record"
    PROVE  LET q == [req[r] EXCEPT !.counts = @ \ {k}] IN
           /\ req[r] \in Request /\ req[r].route \in routes /\ k \in Keys
           /\ k \in req[r].route.wrong \cup req[r].route.right
           /\ req[r].at \in Nat /\ req[r].at <= now
           /\ q \in Request /\ HeldReq(q) /\ q.step = "record" /\ q.at = req[r].at
           /\ q.counts = req[r].counts \ {k}
<1> DEFINE q == [req[r] EXCEPT !.counts = @ \ {k}]
<1>1. req[r] \in Request /\ HeldReq(req[r])
  BY DEF TypeInv, TypeOK, Held
<1>2. /\ req[r].route \in routes /\ req[r].at <= now /\ now <= req[r].at + Patience
      /\ req[r].counts \subseteq req[r].route.wrong \cup req[r].route.right
      /\ req[r].clears \subseteq req[r].route.clear
  BY <1>1 DEF HeldReq, Idle
<1>3. /\ q \in Request /\ q.step = "record" /\ q.at = req[r].at /\ q.route = req[r].route
      /\ q.counts = req[r].counts \ {k} /\ q.clears = req[r].clears
  BY <1>1 DEF Request
<1> HIDE DEF q
<1>4. HeldReq(q)
  BY <1>2, <1>3 DEF HeldReq, Before
<1>5. k \in Keys /\ req[r].at \in Nat
  BY <1>1 DEF Request
<1> QED
  BY <1>1, <1>2, <1>3, <1>4, <1>5 DEF q

\* What record leaves: the counter counts once more or restarts, any other row is
\* untouched or swept, and only when its window is long over.
LEMMA RecordsMakes ==
    ASSUME TypeInv, NEW k \in Keys, NEW t \in Nat, Records(k, t)
    PROVE  /\ counters' \in [Keys -> Counter \cup {None}]
           /\ counters'[k] = Recorded(k, t) /\ Recorded(k, t) \in Counter
           /\ \A o \in Keys \ {k} :
                 \/ counters'[o] = counters[o]
                 \/ /\ counters'[o] = None /\ counters[o] \in Counter
                    /\ counters[o].start + Window[o] < t
<1> DEFINE rows == [counters EXCEPT ![k] = Recorded(k, t)]
<1>1. /\ counters \in [Keys -> Counter \cup {None}] /\ Window \in [Keys -> Nat \ {0}]
      /\ SweepAfter \in Nat /\ \A o \in Keys : Window[o] <= SweepAfter
  BY LimiterConstants DEF TypeInv, TypeOK
<1>2. Recorded(k, t) \in Counter /\ t <= Recorded(k, t).start + SweepAfter
  <2>1. CASE Open(k, t)
    <3>1. /\ counters[k] \in Counter /\ t < counters[k].start + Window[k]
      BY <1>1, <2>1 DEF Open
    <3>2. Recorded(k, t) = [counters[k] EXCEPT !.count = @ + 1]
      BY <2>1 DEF Recorded
    <3> QED
      BY <3>1, <3>2, <1>1 DEF Counter
  <2>2. CASE ~Open(k, t)
    <3>1. Recorded(k, t) = [count |-> 1, start |-> t]
      BY <2>2 DEF Recorded
    <3> QED
      BY <3>1, <1>1 DEF Counter
  <2> QED
    BY <2>1, <2>2
<1>3. rows \in [Keys -> Counter \cup {None}] /\ rows[k] = Recorded(k, t)
      /\ \A o \in Keys \ {k} : rows[o] = counters[o]
  BY <1>1, <1>2
<1> HIDE DEF rows
<1>4. CASE counters' = rows
  BY <1>2, <1>3, <1>4
<1>5. CASE counters' = Swept(rows, t)
  <2>1. counters' = [o \in Keys |-> IF rows[o] # None /\ rows[o].start + SweepAfter < t
                                    THEN None ELSE rows[o]]
    BY <1>5 DEF Swept
  <2>2. counters' \in [Keys -> Counter \cup {None}]
    BY <2>1, <1>3
  <2>3. counters'[k] = Recorded(k, t)
    BY <2>1, <1>1, <1>2, <1>3 DEF Counter
  <2>4. ASSUME NEW o \in Keys \ {k}
        PROVE  \/ counters'[o] = counters[o]
               \/ /\ counters'[o] = None /\ counters[o] \in Counter
                  /\ counters[o].start + Window[o] < t
    <3>1. CASE rows[o] # None /\ rows[o].start + SweepAfter < t
      <4>1. counters'[o] = None /\ counters[o] \in Counter /\ counters[o].start + SweepAfter < t
        BY <2>1, <3>1, <1>1, <1>3
      <4> QED
        BY <4>1, <1>1 DEF Counter
    <3>2. CASE ~(rows[o] # None /\ rows[o].start + SweepAfter < t)
      BY <2>1, <3>2, <1>3
    <3> QED
      BY <3>1, <3>2
  <2> QED
    BY <1>2, <2>2, <2>3, <2>4
<1> QED
  BY <1>4, <1>5 DEF Records, rows

LEMMA ClearMakes ==
    ASSUME TypeInv, NEW r \in Requests, clear(r)
    PROVE  /\ counters' \in [Keys -> Counter \cup {None}]
           /\ req[r].route \in routes
           /\ \A k \in Keys : \/ counters'[k] = counters[k]
                              \/ counters'[k] = None /\ k \in req[r].route.clear
<1>1. req[r].step = "record" /\ HeldReq(req[r]) /\ counters \in [Keys -> Counter \cup {None}]
  BY DEF clear, TypeInv, TypeOK, Held
<1>2. req[r].clears \subseteq req[r].route.clear /\ req[r].route \in routes
  BY <1>1 DEF HeldReq, Idle
<1> QED
  BY <1>1, <1>2 DEF clear


LEMMA TypeInit == Init => TypeInv
<1> SUFFICES ASSUME Init PROVE TypeInv
  OBVIOUS
<1>1. TypeOK
  BY IdleHeld DEF Init, TypeOK
<1>2. Held
  BY IdleHeld DEF Init, Held
<1> QED
  BY <1>1, <1>2 DEF TypeInv

LEMMA TypeStep == TypeInv /\ [Next]_vars => TypeInv'
<1> SUFFICES ASSUME TypeInv, [Next]_vars PROVE TypeInv'
  OBVIOUS
<1> USE DEF TypeInv, TypeOK
<1>0. ASSUME NEW r \in Requests PROVE req[r] \in Request
  OBVIOUS
<1>1. ASSUME NEW r \in Requests, NEW route \in routes, Arrive(r, route) PROVE TypeInv'
  BY <1>1, ArriveMakes, GoesOn DEF Arrive
<1>2. ASSUME NEW r \in Requests, assertAllowed(r) PROVE TypeInv'
  <2>1. UNCHANGED <<counters, now, routes, log>>
    BY <1>2 DEF assertAllowed
  <2>2. req' \in [Requests -> Request] /\ Held'
    BY <1>2, <2>1, AssertMakes, GoesOn, FinishGoesOn
  <2> QED
    BY <2>1, <2>2
<1>3. ASSUME NEW r \in Requests, ConsumeCheck(r) PROVE TypeInv'
  <2>1. /\ UNCHANGED <<counters, now, routes, log>> /\ req[r].step \in {"check", "consume"}
        /\ Finish(r) \/ req' = [req EXCEPT ![r] = [req[r] EXCEPT !.step = "consume"]]
    BY <1>3 DEF ConsumeCheck
  <2>2. req' \in [Requests -> Request] /\ Held'
    BY <2>1, ConsumeMakes, GoesOn, FinishGoesOn
  <2> QED
    BY <2>1, <2>2
<1>4. ASSUME NEW r \in Requests, consume(r) PROVE TypeInv'
  <2> DEFINE k == Head(req[r].consumes)
             q == Resume([req[r] EXCEPT !.consumes = Tail(@)])
  <2>1. /\ UNCHANGED <<now, routes>> /\ req[r].step = "consume" /\ Records(k, req[r].at)
        /\ \/ Finish(r) /\ UNCHANGED log
           \/ req' = [req EXCEPT ![r] = q] /\ log' = [log EXCEPT ![k] = Append(@, now)]
    BY <1>4 DEF consume
  <2>2. k \in Keys /\ req[r].at \in Nat /\ q \in Request /\ HeldReq(q)
    BY <2>1, ConsumeMakes
  <2> HIDE DEF k, q
  <2>3. counters' \in [Keys -> Counter \cup {None}]
    BY <2>1, <2>2, RecordsMakes
  <2>4. req' \in [Requests -> Request] /\ Held'
    BY <2>1, <2>2, GoesOn, FinishGoesOn
  <2>5. log' \in [Keys -> Seq(Nat)]
    <3>1. Append(log[k], now) \in Seq(Nat)
      BY <2>2
    <3> QED
      BY <2>1, <3>1
  <2> QED
    BY <2>1, <2>3, <2>4, <2>5
<1>5. ASSUME NEW r \in Requests, Act(r) PROVE TypeInv'
  <2>1. UNCHANGED <<counters, now, routes, log>>
    BY <1>5 DEF Act
  <2>2. req' \in [Requests -> Request] /\ Held'
    BY <1>5, <2>1, ActMakes, GoesOn
  <2> QED
    BY <2>1, <2>2
<1>6. ASSUME NEW r \in Requests, record(r) PROVE TypeInv'
  <2>1. /\ UNCHANGED <<now, routes, log>> /\ req[r].step = "record"
    BY <1>6 DEF record
  <2>2. PICK k \in req[r].counts :
          /\ Records(k, req[r].at)
          /\ req' = [req EXCEPT ![r] = [req[r] EXCEPT !.counts = @ \ {k}]]
    BY <1>6 DEF record
  <2>3. counters' \in [Keys -> Counter \cup {None}]
    BY <2>1, <2>2, RecordMakes, RecordsMakes
  <2>4. req' \in [Requests -> Request] /\ Held'
    BY <2>1, <2>2, RecordMakes, GoesOn
  <2> QED
    BY <2>1, <2>3, <2>4
<1>7. ASSUME NEW r \in Requests, clear(r) PROVE TypeInv'
  <2>1. UNCHANGED <<now, routes, log>> /\ Finish(r)
    BY <1>7 DEF clear
  <2>2. counters' \in [Keys -> Counter \cup {None}]
    BY <1>7, ClearMakes
  <2>3. req' \in [Requests -> Request] /\ Held'
    BY <2>1, FinishGoesOn
  <2> QED
    BY <2>1, <2>2, <2>3
<1>8. ASSUME NEW r \in Requests, Abandon(r) PROVE TypeInv'
  BY <1>8, FinishGoesOn DEF Abandon
<1>9. ASSUME NEW S \in Subjects, forgetSubject(S) PROVE TypeInv'
  <2>1. UNCHANGED <<req, now, routes>> /\ counters' \in [Keys -> Counter \cup {None}]
        /\ log' \in [Keys -> Seq(Nat)]
    BY <1>9 DEF forgetSubject
  <2>2. Held'
    BY <2>1 DEF Held, HeldReq
  <2> QED
    BY <2>1, <2>2
<1>10. ASSUME Tick PROVE TypeInv'
  <2>1. /\ UNCHANGED <<counters, req, routes, log>> /\ now' = now + 1
        /\ now \in Nat /\ Patience \in Nat
    BY <1>10, LimiterConstants DEF Tick
  <2>2. ASSUME NEW r \in Requests PROVE HeldReq(req[r])'
    <3>1. req[r].step \notin {"idle", "act"} => now < req[r].at + Patience
      BY <1>10 DEF Tick
    <3>2. req[r].at \in Nat
      BY <1>0 DEF Request
    <3>3. req'[r] = req[r] /\ routes' = routes /\ HeldReq(req[r])
      BY <2>1 DEF Held
    <3>4. CASE req[r] = Idle
      BY <3>3, <3>4 DEF HeldReq
    <3>5. CASE req[r] # Idle
      <4>1. req[r].step # "idle" /\ req[r].route \in routes
        BY <3>3, <3>5 DEF HeldReq
      <4>2. req[r].step # "act" => req[r].at <= now' /\ now' <= req[r].at + Patience
        <5>1. req[r].step # "act" => req[r].at <= now
          BY <3>3, <3>5 DEF HeldReq
        <5> QED
          BY <2>1, <3>1, <3>2, <4>1, <5>1
      <4> QED
        BY <3>3, <3>5, <4>1, <4>2 DEF HeldReq
    <3> QED
      BY <3>4, <3>5
  <2> QED
    BY <2>1, <2>2 DEF Held
<1>11. CASE UNCHANGED vars
  BY <1>11 DEF vars, Held, HeldReq
<1> QED
  BY <1>1, <1>2, <1>3, <1>4, <1>5, <1>6, <1>7, <1>8, <1>9, <1>10, <1>11 DEF Next

\* Type correctness, and what a request holds at each step.
THEOREM TypeCorrect == Spec => []TypeInv
<1>1. Init => TypeInv
  BY TypeInit
<1>2. TypeInv /\ [Next]_vars => TypeInv'
  BY TypeStep
<1> QED
  BY <1>1, <1>2, PTL DEF Spec

--------------------------------------------------------------------------------
(***************************************************************************)
(* CountBounded.                                                           *)
(***************************************************************************)

\* Request q has passed the check of counter k and may still count in the window that
\* is open.
Owes(q, k) ==
    \/ q.step = "record" /\ k \in q.counts /\ Open(k, q.at)
    \/ q.step = "consume" /\ k = Head(q.consumes) /\ Open(k, q.at)
    \/ /\ q.step \in Before /\ Open(k, now)
       /\ k \in (q.route.wrong \cup q.route.right) \ Elems(q.asserts)

Due(k) == {r \in Requests : Owes(req[r], k)}

\* A counter at its limit can only grow by the requests that are due on it.
CountInv ==
    \A k \in Keys :
        counters[k] # None =>
            \/ counters[k].count < Max[k]
            \/ counters[k].count + Cardinality(Due(k)) < Max[k] + Cardinality(Requests)

LEMMA DueIsFinite ==
    ASSUME NEW D \in SUBSET Requests, NEW E \in SUBSET D
    PROVE  /\ IsFiniteSet(D) /\ Cardinality(D) \in Nat /\ Cardinality(E) \in Nat
           /\ Cardinality(E) <= Cardinality(D) /\ Cardinality(D) <= Cardinality(Requests)
           /\ Cardinality(Requests) \in Nat
           /\ (E # D => Cardinality(E) < Cardinality(D))
<1>1. IsFiniteSet(Requests)
  BY LimiterConstants
<1>2. IsFiniteSet(D)
  BY <1>1, FS_Subset
<1>3. IsFiniteSet(E)
  BY <1>2, FS_Subset
<1> QED
  BY <1>1, <1>2, <1>3, FS_Subset, FS_CardinalityType

\* What a step may do to a counter and to what is due on it.
LEMMA CountKept ==
    ASSUME TypeInv, TypeInv', CountInv, NEW k \in Keys,
           \/ counters'[k] = None
           \/ counters'[k] = counters[k] /\ counters[k].count < Max[k]
           \/ counters'[k] = counters[k] /\ Due(k)' \subseteq Due(k)
           \/ counters'[k] # None /\ counters'[k].count = 1 /\ Requests \ Due(k)' # {}
           \/ /\ counters[k] # None /\ counters'[k].count = counters[k].count + 1
              /\ Due(k)' \subseteq Due(k) /\ Due(k) \ Due(k)' # {}
    PROVE  counters'[k] # None =>
              \/ counters'[k].count < Max[k]
              \/ counters'[k].count + Cardinality(Due(k)') < Max[k] + Cardinality(Requests)
<1>1. /\ Max[k] \in Nat \ {0}
      /\ counters[k] # None => counters[k].count \in Nat
      /\ counters'[k] # None => counters'[k].count \in Nat
  BY LimiterConstants DEF TypeInv, TypeOK, Counter
<1>2. /\ Due(k) \in SUBSET Requests /\ Due(k)' \in SUBSET Requests
  BY DEF Due
<1>3. /\ Cardinality(Due(k)) \in Nat /\ Cardinality(Due(k)') \in Nat
      /\ Cardinality(Requests) \in Nat
      /\ Cardinality(Due(k)) <= Cardinality(Requests)
      /\ Cardinality(Due(k)') <= Cardinality(Requests)
  BY <1>2, DueIsFinite
<1>4. CASE counters'[k] = None
  BY <1>4
<1>5. CASE counters'[k] = counters[k] /\ counters[k].count < Max[k]
  BY <1>5
<1>6. CASE counters'[k] = counters[k] /\ Due(k)' \subseteq Due(k)
  <2>1. Cardinality(Due(k)') <= Cardinality(Due(k))
    BY <1>2, <1>6, DueIsFinite
  <2> QED
    BY <2>1, <1>1, <1>3, <1>6 DEF CountInv
<1>7. CASE counters'[k] # None /\ counters'[k].count = 1 /\ Requests \ Due(k)' # {}
  <2>1. Cardinality(Due(k)') < Cardinality(Requests)
    BY <1>2, <1>7, DueIsFinite
  <2> QED
    BY <2>1, <1>1, <1>3, <1>7
<1>8. CASE /\ counters[k] # None /\ counters'[k].count = counters[k].count + 1
           /\ Due(k)' \subseteq Due(k) /\ Due(k) \ Due(k)' # {}
  <2>1. Cardinality(Due(k)') < Cardinality(Due(k))
    BY <1>2, <1>8, DueIsFinite
  <2>2. CASE counters[k].count < Max[k]
    BY <2>1, <2>2, <1>1, <1>3, <1>8
  <2>3. CASE counters[k].count + Cardinality(Due(k)) < Max[k] + Cardinality(Requests)
    BY <2>1, <2>3, <1>1, <1>3, <1>8
  <2> QED
    BY <2>2, <2>3, <1>8 DEF CountInv
<1> QED
  BY <1>4, <1>5, <1>6, <1>7, <1>8

\* One request goes on, the others owe what they owed, or less when the window is shorter.
LEMMA DueShrinks ==
    ASSUME TypeInv, NEW r \in Requests, NEW q, req' = [req EXCEPT ![r] = q],
           NEW k \in Keys, now' = now, \A t : Open(k, t)' => Open(k, t)
    PROVE  /\ (Owes(q, k)' => Owes(req[r], k)) => Due(k)' \subseteq Due(k)
           /\ ~Owes(q, k)' => Due(k)' \subseteq Due(k) \ {r}
<1>1. req'[r] = q /\ \A p \in Requests \ {r} : req'[p] = req[p]
  BY DEF TypeInv, TypeOK
<1>2. ASSUME NEW p \in Requests, Owes(req[p], k)' , p # r PROVE Owes(req[p], k)
  BY <1>1, <1>2 DEF Owes
<1>3. Owes(req[r], k)' => Owes(q, k)'
  BY <1>1 DEF Owes
<1> QED
  BY <1>2, <1>3 DEF Due

LEMMA IdleOwesNothing == \A k \in Keys : ~Owes(Idle, k)
BY DEF Owes, Idle, Before


\* A step that leaves the counters and the clock alone and brings one request to q.
LEMMA CountKeptBy ==
    ASSUME TypeInv, TypeInv', CountInv, NEW r \in Requests, NEW q,
           req' = [req EXCEPT ![r] = q], UNCHANGED <<counters, now>>,
           \A k \in Keys : counters[k] # None /\ Owes(q, k)
                           => Owes(req[r], k) \/ counters[k].count < Max[k]
    PROVE  CountInv'
<1> SUFFICES ASSUME NEW k \in Keys
             PROVE  (counters[k] # None =>
                       \/ counters[k].count < Max[k]
                       \/ counters[k].count + Cardinality(Due(k)) < Max[k] + Cardinality(Requests))'
  BY DEF CountInv
<1>1. \A t : Open(k, t)' <=> Open(k, t)
  BY DEF Open
<1>2. Owes(q, k)' <=> Owes(q, k)
  BY <1>1 DEF Owes
<1>3. counters[k] = None => ~Owes(q, k)
  BY DEF Owes, Open
<1>4. CASE Owes(q, k)' => Owes(req[r], k)
  <2>1. Due(k)' \subseteq Due(k)
    BY <1>1, <1>4, DueShrinks
  <2> QED
    BY <2>1, CountKept
<1>5. CASE counters[k] # None /\ counters[k].count < Max[k]
  BY <1>5, CountKept
<1> QED
  BY <1>2, <1>3, <1>4, <1>5

LEMMA CountAssert ==
    ASSUME TypeInv, TypeInv', CountInv, NEW r \in Requests, assertAllowed(r)
    PROVE  CountInv'
<1> DEFINE o == Head(req[r].asserts)
<1>1. /\ UNCHANGED <<counters, now>> /\ now \in Nat /\ Window \in [Keys -> Nat \ {0}]
      /\ counters \in [Keys -> Counter \cup {None}]
  BY LimiterConstants DEF assertAllowed, TypeInv, TypeOK
<1>2. /\ req[r].step = "assert" /\ o \in Keys /\ req[r].at \in Nat /\ req[r].at <= now
  BY AssertMakes
<1>3. CASE Finish(r)
  BY <1>1, <1>3, CountKeptBy, IdleOwesNothing DEF Finish
<1>4. ASSUME ~Refuses(o, req[r].at), NEW q \in Request,
             req' = [req EXCEPT ![r] = q], HeldReq(q),
             q.step \in {"assert", "check", "act"}, q.route = req[r].route,
             Elems(req[r].asserts) \subseteq {o} \cup Elems(q.asserts)
      PROVE  CountInv'
  <2>1. ASSUME NEW k \in Keys, counters[k] # None, Owes(q, k)
        PROVE  Owes(req[r], k) \/ counters[k].count < Max[k]
    <3>1. /\ Open(k, now) /\ k \in (q.route.wrong \cup q.route.right) \ Elems(q.asserts)
      BY <1>4, <2>1 DEF Owes
    <3>2. CASE k # o
      BY <1>2, <1>4, <3>1, <3>2 DEF Owes, Before
    <3>3. CASE k = o
      <4>1. counters[k] \in Counter /\ Max[k] \in Nat
        BY <1>1, <2>1, LimiterConstants
      <4>2. Open(k, req[r].at)
        BY <1>1, <1>2, <3>1, <4>1 DEF Open, Counter
      <4> QED
        BY <1>4, <3>3, <4>1, <4>2 DEF Refuses, Counter
    <3> QED
      BY <3>2, <3>3
  <2> QED
    BY <1>1, <1>4, <2>1, CountKeptBy
<1> HIDE DEF o
<1> QED
  BY <1>3, <1>4, AssertMakes DEF o

LEMMA CountCheck ==
    ASSUME TypeInv, TypeInv', CountInv, NEW r \in Requests, ConsumeCheck(r)
    PROVE  CountInv'
<1> DEFINE o == Head(req[r].consumes)
           q == [req[r] EXCEPT !.step = "consume"]
<1>1. /\ UNCHANGED <<counters, now>> /\ now \in Nat /\ Window \in [Keys -> Nat \ {0}]
      /\ counters \in [Keys -> Counter \cup {None}] /\ req[r].step = "check"
      /\ \/ Finish(r)
         \/ ~Refuses(o, req[r].at) /\ req' = [req EXCEPT ![r] = q]
  <2>1. UNCHANGED <<counters, now>> /\ req[r].step = "check"
    BY DEF ConsumeCheck
  <2>2. \/ Finish(r)
        \/ ~Refuses(o, req[r].at) /\ req' = [req EXCEPT ![r] = q]
    BY DEF ConsumeCheck
  <2> QED
    BY <2>1, <2>2, LimiterConstants DEF TypeInv, TypeOK
<1>2. /\ o \in Keys /\ req[r].at \in Nat /\ req[r].at <= now /\ req[r] \in Request
  BY <1>1, ConsumeMakes
<1>3. CASE Finish(r)
  BY <1>1, <1>3, CountKeptBy, IdleOwesNothing DEF Finish
<1>4. CASE ~Refuses(o, req[r].at) /\ req' = [req EXCEPT ![r] = q]
  <2>1. /\ q.step = "consume" /\ q.route = req[r].route /\ q.asserts = req[r].asserts
        /\ q.consumes = req[r].consumes /\ q.at = req[r].at
    BY <1>2 DEF Request
  <2> HIDE DEF q
  <2>2. ASSUME NEW k \in Keys, counters[k] # None, Owes(q, k)
        PROVE  Owes(req[r], k) \/ counters[k].count < Max[k]
    <3>1. CASE k = o /\ Open(k, q.at)
      <4>1. counters[k] \in Counter /\ Max[k] \in Nat
        BY <1>1, <2>2, LimiterConstants
      <4> QED
        BY <1>4, <2>1, <3>1, <4>1 DEF Refuses, Counter
    <3>2. CASE Open(k, now) /\ k \in (q.route.wrong \cup q.route.right) \ Elems(q.asserts)
      BY <1>1, <2>1, <3>2 DEF Owes, Before
    <3> QED
      BY <2>1, <2>2, <3>1, <3>2 DEF Owes
  <2> QED
    BY <1>1, <1>4, <2>2, CountKeptBy
<1> QED
  BY <1>1, <1>3, <1>4

\* Counter o is recorded by a request that goes on to q and no longer owes it.
LEMMA CountRecorded ==
    ASSUME TypeInv, TypeInv', CountInv, NEW r \in Requests, NEW q,
           req' = [req EXCEPT ![r] = q], now' = now,
           NEW o \in Keys, NEW t \in Nat, Records(o, t), t <= now,
           ~Owes(q, o)', Open(o, t) => Owes(req[r], o),
           \A k \in Keys \ {o} : counters'[k] = counters[k] /\ Owes(q, k)' => Owes(req[r], k)
    PROVE  CountInv'
<1>1. /\ counters' \in [Keys -> Counter \cup {None}]
      /\ counters'[o] = Recorded(o, t) /\ Recorded(o, t) \in Counter
      /\ \A k \in Keys \ {o} : counters'[k] = counters[k] \/ counters'[k] = None
  BY RecordsMakes
<1> SUFFICES ASSUME NEW k \in Keys
             PROVE  (counters[k] # None =>
                       \/ counters[k].count < Max[k]
                       \/ counters[k].count + Cardinality(Due(k)) < Max[k] + Cardinality(Requests))'
  BY DEF CountInv
<1>2. CASE k # o
  <2>1. CASE counters'[k] = None
    BY <2>1, CountKept
  <2>2. CASE counters'[k] = counters[k]
    <3>1. \A u : Open(k, u)' => Open(k, u)
      BY <2>2 DEF Open
    <3>2. Due(k)' \subseteq Due(k)
      BY <1>2, <2>2, <3>1, DueShrinks
    <3> QED
      BY <2>2, <3>2, CountKept
  <2> QED
    BY <1>1, <1>2, <2>1, <2>2
<1>3. CASE k = o /\ Open(o, t)
  <2>1. /\ counters[o] \in Counter /\ Recorded(o, t) = [counters[o] EXCEPT !.count = @ + 1]
    BY <1>3 DEF Open, Recorded, TypeInv, TypeOK
  <2>2. /\ counters'[o].count = counters[o].count + 1 /\ counters'[o].start = counters[o].start
        /\ counters[o] # None
    BY <1>1, <1>3, <2>1 DEF Counter, Open
  <2>3. \A u : Open(k, u)' => Open(k, u)
    BY <1>3, <2>2 DEF Open
  <2>4. Due(k)' \subseteq Due(k) \ {r}
    BY <1>3, <2>3, DueShrinks
  <2>5. r \in Due(k)
    BY <1>3 DEF Due
  <2> QED
    BY <1>3, <2>2, <2>4, <2>5, CountKept
<1>4. CASE k = o /\ ~Open(o, t)
  <2>1. Recorded(o, t) = [count |-> 1, start |-> t]
    BY <1>4 DEF Recorded
  <2>2. counters'[k] # None /\ counters'[k].count = 1
    BY <1>1, <1>4, <2>1, LimiterConstants
  <2>3. r \in Requests \ Due(k)'
    BY <1>4 DEF Due, TypeInv, TypeOK
  <2> QED
    BY <2>2, <2>3, CountKept
<1> QED
  BY <1>2, <1>3, <1>4


LEMMA CountConsume ==
    ASSUME TypeInv, TypeInv', CountInv, NEW r \in Requests, consume(r)
    PROVE  CountInv'
<1>0. PICK o, p : /\ o = Head(req[r].consumes)
                  /\ p = Resume([req[r] EXCEPT !.consumes = Tail(@)])
  OBVIOUS
<1>1. /\ UNCHANGED now /\ req[r].step = "consume" /\ Records(o, req[r].at)
      /\ Finish(r) \/ req' = [req EXCEPT ![r] = p]
  BY <1>0 DEF consume
<1>2. /\ req[r] \in Request /\ req[r].route \in routes /\ req[r].asserts = <<>>
      /\ o \in Keys /\ o \in Elems(req[r].route.consume)
      /\ req[r].at \in Nat /\ req[r].at <= now
      /\ p.step \in {"check", "act"} /\ p.route = req[r].route /\ p.asserts = <<>>
  BY <1>0, <1>1, ConsumeMakes
<1>3. o \notin req[r].route.wrong \cup req[r].route.right
  BY <1>2, RoutesDisciplined DEF Disciplined, Attempted, TypeInv, TypeOK
<1>4. Open(o, req[r].at) => Owes(req[r], o)
  BY <1>0, <1>1 DEF Owes
<1>5. PICK q \in {Idle, p} : req' = [req EXCEPT ![r] = q]
  BY <1>1 DEF Finish
<1>6. ~Owes(q, o)'
  BY <1>2, <1>3, <1>5 DEF Owes, Idle, Before
<1>7. ASSUME NEW k \in Keys \ {o}, counters'[k] = counters[k], Owes(q, k)'
      PROVE  Owes(req[r], k)
  <2>1. q = p /\ Open(k, now)' /\ k \in p.route.wrong \cup p.route.right
    BY <1>2, <1>5, <1>7 DEF Owes, Idle, Before
  <2>2. Open(k, now)
    BY <1>1, <1>7, <2>1 DEF Open
  <2>3. k \notin Elems(req[r].asserts)
    BY <1>2, ElemsOfSmall
  <2> QED
    BY <1>1, <1>2, <2>1, <2>2, <2>3 DEF Owes, Before
<1> QED
  BY <1>1, <1>2, <1>4, <1>5, <1>6, <1>7, CountRecorded

LEMMA CountRecord ==
    ASSUME TypeInv, TypeInv', CountInv, NEW r \in Requests, record(r)
    PROVE  CountInv'
<1>1. UNCHANGED now /\ req[r].step = "record"
  BY DEF record
<1>2. PICK o \in req[r].counts :
         /\ Records(o, req[r].at)
         /\ req' = [req EXCEPT ![r] = [req[r] EXCEPT !.counts = @ \ {o}]]
  BY DEF record
<1>0. PICK q : q = [req[r] EXCEPT !.counts = @ \ {o}]
  OBVIOUS
<1>3. /\ o \in Keys /\ req[r].at \in Nat /\ req[r].at <= now
      /\ q.step = "record" /\ q.at = req[r].at /\ q.counts = req[r].counts \ {o}
  BY <1>0, <1>1, RecordMakes
<1>4. ~Owes(q, o)'
  BY <1>3 DEF Owes, Before
<1>5. Open(o, req[r].at) => Owes(req[r], o)
  BY <1>1 DEF Owes
<1>6. ASSUME NEW k \in Keys \ {o}, counters'[k] = counters[k], Owes(q, k)'
      PROVE  Owes(req[r], k)
  BY <1>1, <1>3, <1>6 DEF Owes, Before, Open
<1> QED
  BY <1>0, <1>1, <1>2, <1>3, <1>4, <1>5, <1>6, CountRecorded

LEMMA CountStep == TypeInv /\ TypeInv' /\ CountInv /\ [Next]_vars => CountInv'
<1> SUFFICES ASSUME TypeInv, TypeInv', CountInv, [Next]_vars PROVE CountInv'
  OBVIOUS
<1>1. ASSUME NEW r \in Requests, NEW route \in routes, Arrive(r, route) PROVE CountInv'
  <2>1. UNCHANGED <<counters, now>>
    BY <1>1 DEF Arrive
  <2>2. PICK q \in Request :
          /\ req' = [req EXCEPT ![r] = q] /\ q.step \in {"assert", "check", "act"}
          /\ q.route = route /\ q.asserts = route.assert
    BY <1>1, ArriveMakes
  <2>3. route.wrong \cup route.right \subseteq Elems(route.assert)
    BY RoutesDisciplined DEF Disciplined, TypeInv, TypeOK
  <2>4. \A k \in Keys : ~Owes(q, k)
    BY <2>2, <2>3 DEF Owes
  <2> QED
    BY <2>1, <2>2, <2>4, CountKeptBy
<1>2. ASSUME NEW r \in Requests, Act(r) PROVE CountInv'
  <2>1. UNCHANGED <<counters, now>> /\ req[r].step = "act"
    BY <1>2 DEF Act
  <2>2. PICK q \in Request :
          /\ req' = [req EXCEPT ![r] = q] /\ q.step = "record" /\ q.at = now
          /\ q.route = req[r].route /\ q.counts \in {q.route.wrong, q.route.right}
    BY <1>2, ActMakes
  <2>3. req[r].asserts = <<>>
    BY <1>2, ActMakes
  <2>4. ASSUME NEW k \in Keys, Owes(q, k) PROVE Owes(req[r], k)
    BY <2>1, <2>2, <2>3, <2>4, ElemsOfSmall DEF Owes, Before
  <2> QED
    BY <2>1, <2>2, <2>4, CountKeptBy
<1>3. ASSUME NEW r \in Requests, clear(r) PROVE CountInv'
  <2>1. UNCHANGED now /\ req' = [req EXCEPT ![r] = Idle]
    BY <1>3 DEF clear, Finish
  <2>2. ASSUME NEW k \in Keys, counters'[k] = counters[k] PROVE Due(k)' \subseteq Due(k)
    <3>1. \A t : Open(k, t)' => Open(k, t)
      BY <2>2 DEF Open
    <3>2. ~Owes(Idle, k)'
      BY DEF Owes, Idle, Before
    <3> QED
      BY <2>1, <3>1, <3>2, DueShrinks
  <2> QED
    BY <1>3, <2>2, ClearMakes, CountKept DEF CountInv
<1>4. ASSUME NEW r \in Requests, Abandon(r) PROVE CountInv'
  <2>1. UNCHANGED <<counters, now>> /\ req' = [req EXCEPT ![r] = Idle]
    BY <1>4 DEF Abandon, Finish
  <2> QED
    BY <2>1, IdleOwesNothing, CountKeptBy
<1>5. ASSUME NEW S \in Subjects, forgetSubject(S) PROVE CountInv'
  <2>1. /\ UNCHANGED <<req, now>>
        /\ \A k \in Keys : counters'[k] \in {None, counters[k]}
    BY <1>5 DEF forgetSubject
  <2>2. ASSUME NEW k \in Keys, counters'[k] = counters[k] PROVE Due(k)' \subseteq Due(k)
    BY <2>1, <2>2 DEF Due, Owes, Open
  <2> QED
    BY <2>1, <2>2, CountKept DEF CountInv
<1>6. ASSUME Tick PROVE CountInv'
  <2>1. /\ UNCHANGED <<counters, req>> /\ now' = now + 1 /\ now \in Nat
    BY <1>6 DEF Tick, TypeInv, TypeOK
  <2>2. ASSUME NEW k \in Keys PROVE Due(k)' \subseteq Due(k)
    <3>1. \A t : Open(k, t)' <=> Open(k, t)
      BY <2>1 DEF Open
    <3>2. counters[k] \in Counter \cup {None} /\ Window[k] \in Nat
      BY LimiterConstants DEF TypeInv, TypeOK
    <3>3. Open(k, now)' => Open(k, now)
      BY <2>1, <3>2 DEF Open, Counter
    <3> QED
      BY <2>1, <3>1, <3>3 DEF Due, Owes
  <2> QED
    BY <2>1, <2>2, CountKept DEF CountInv
<1>7. CASE UNCHANGED vars
  BY <1>7 DEF vars, CountInv, Due, Owes, Open
<1> QED
  BY <1>1, <1>2, <1>3, <1>4, <1>5, <1>6, <1>7, CountAssert, CountCheck, CountConsume, CountRecord
     DEF Next

\* Requests that assert, act and record apart go over a limit only by as many as are in
\* flight together: no counter reaches Max + |Requests| within a window, whatever the
\* order in which checks, records, sweeps, clears, crashes and the clock interleave.
THEOREM LimitBounded == Spec => []CountBounded
<1>1. Init => TypeInv /\ CountInv
  BY TypeInit DEF Init, CountInv
<1>2. TypeInv /\ CountInv /\ [Next]_vars => (TypeInv /\ CountInv)'
  BY TypeStep, CountStep
<1>3. TypeInv /\ CountInv => CountBounded
  <2> SUFFICES ASSUME TypeInv, CountInv, NEW k \in Keys, counters[k] # None
               PROVE  counters[k].count < Max[k] + Cardinality(Requests)
    BY DEF CountBounded
  <2>1. /\ Due(k) \in SUBSET Requests /\ Requests \in SUBSET Requests
        /\ Max[k] \in Nat /\ counters[k].count \in Nat
    BY LimiterConstants DEF Due, TypeInv, TypeOK, Counter
  <2>2. /\ Cardinality(Due(k)) \in Nat /\ Cardinality(Requests) \in Nat
    BY <2>1, DueIsFinite
  <2> QED
    BY <2>1, <2>2 DEF CountInv
<1> QED
  BY <1>1, <1>2, <1>3, PTL DEF Spec

--------------------------------------------------------------------------------
(***************************************************************************)
(* NoBurst and CountsOnce: first about a sequence of times L, m of which a *)
(* window of length w admits, at the time now, when requests may be p old. *)
(***************************************************************************)

Past(L, t) == \A i \in 1..Len(L) : L[i] <= t

\* No window is open: all but the last m are over at t, and all are when m is 1.
Closed(L, m, w, t) ==
    \A i \in 1..Len(L) : i + m <= Len(L) \/ m = 1 => L[i] + w <= t

\* A window is open that n of the admissions belong to: what precedes it was admitted by
\* s, and so was the one that opened it when m is 1; all but m of those are over at t.
Opened(L, m, w, t, n, s) ==
    \A i \in 1..Len(L) :
        /\ i + n <= Len(L) \/ m = 1 => L[i] <= s
        /\ i + n + m <= Len(L) => L[i] + w <= t

Spaced(L, m, w, p) ==
    \A i, j \in 1..Len(L) :
        j = i + 2 * m \/ (m = 1 /\ j = i + 1) => L[j] + p >= L[i] + w

LEMMA Appended ==
    ASSUME NEW L \in Seq(Nat), NEW t \in Nat
    PROVE  /\ Append(L, t) \in Seq(Nat) /\ Len(Append(L, t)) = Len(L) + 1 /\ Len(L) \in Nat
           /\ \A i \in 1..Len(L) : Append(L, t)[i] = L[i] /\ L[i] \in Nat
           /\ Append(L, t)[Len(L) + 1] = t
OBVIOUS

\* A window that has passed is closed.
LEMMA WindowCloses ==
    ASSUME NEW L \in Seq(Nat), NEW m \in Nat \ {0}, NEW w \in Nat, NEW p \in Nat,
           NEW now0 \in Nat, NEW n \in 1..m, NEW s \in Nat, s + w <= now0,
           Opened(L, m, w, now0 + p, n, s + p)
    PROVE  Closed(L, m, w, now0 + p)
<1> SUFFICES ASSUME NEW i \in 1..Len(L), i + m <= Len(L) \/ m = 1
             PROVE  L[i] + w <= now0 + p
  BY DEF Closed
<1>1. i + n <= Len(L) \/ m = 1
  OBVIOUS
<1>2. L[i] <= s + p /\ L[i] \in Nat
  BY <1>1 DEF Opened
<1> QED
  BY <1>2

\* One more is admitted in the window that is open.
LEMMA AdmitsMore ==
    ASSUME NEW L \in Seq(Nat), NEW m \in Nat \ {0}, NEW w \in Nat, NEW p \in Nat,
           NEW now0 \in Nat, NEW n \in 1..(m - 1), NEW s \in Nat,
           Past(L, now0), Opened(L, m, w, now0 + p, n, s), Spaced(L, m, w, p)
    PROVE  /\ Opened(Append(L, now0), m, w, now0 + p, n + 1, s)
           /\ Spaced(Append(L, now0), m, w, p)
<1> DEFINE M == Append(L, now0)
<1>1. /\ Len(M) = Len(L) + 1 /\ Len(L) \in Nat /\ M[Len(L) + 1] = now0
      /\ \A i \in 1..Len(L) : M[i] = L[i] /\ L[i] \in Nat
  BY Appended
<1> HIDE DEF M
<1>2. ASSUME NEW i \in 1..Len(M)
      PROVE  /\ i + (n + 1) <= Len(M) \/ m = 1 => M[i] <= s
             /\ i + (n + 1) + m <= Len(M) => M[i] + w <= now0 + p
  <2>1. m # 1
    OBVIOUS
  <2>2. ASSUME i + (n + 1) <= Len(M) PROVE i \in 1..Len(L) /\ i + n <= Len(L)
    BY <1>1, <2>2
  <2>3. ASSUME i + (n + 1) + m <= Len(M) PROVE i \in 1..Len(L) /\ i + n + m <= Len(L)
    BY <1>1, <2>3
  <2> QED
    BY <1>1, <2>1, <2>2, <2>3 DEF Opened
<1>3. ASSUME NEW i \in 1..Len(M), NEW j \in 1..Len(M), j = i + 2 * m
      PROVE  M[j] + p >= M[i] + w
  <2>0. i \in 1..Len(L)
    BY <1>1, <1>3
  <2>1. CASE j \in 1..Len(L)
    <3>1. L[j] + p >= L[i] + w
      BY <1>3, <2>0, <2>1 DEF Spaced
    <3> QED
      BY <3>1, <1>1, <2>0, <2>1
  <2>2. CASE j = Len(L) + 1
    <3>1. i + n + m <= Len(L)
      BY <1>1, <1>3, <2>2
    <3>2. L[i] + w <= now0 + p
      BY <2>0, <3>1 DEF Opened
    <3> QED
      BY <3>2, <1>1, <2>0, <2>2
  <2> QED
    BY <1>1, <2>1, <2>2
<1>4. m # 1
  OBVIOUS
<1> QED
  BY <1>2, <1>3, <1>4 DEF Opened, Spaced, M

\* A window is opened at s by the one that is admitted.
LEMMA AdmitsFirst ==
    ASSUME NEW L \in Seq(Nat), NEW m \in Nat \ {0}, NEW w \in Nat, NEW p \in Nat,
           NEW now0 \in Nat, NEW s \in Nat, now0 <= s,
           Past(L, now0), Closed(L, m, w, now0 + p), Spaced(L, m, w, p)
    PROVE  /\ Opened(Append(L, now0), m, w, now0 + p, 1, s)
           /\ Spaced(Append(L, now0), m, w, p)
<1> DEFINE M == Append(L, now0)
<1>1. /\ Len(M) = Len(L) + 1 /\ Len(L) \in Nat /\ M[Len(L) + 1] = now0
      /\ \A i \in 1..Len(L) : M[i] = L[i] /\ L[i] \in Nat
  BY Appended
<1> HIDE DEF M
<1>2. ASSUME NEW i \in 1..Len(M)
      PROVE  M[i] <= s /\ (i + 1 + m <= Len(M) => M[i] + w <= now0 + p)
  <2>1. CASE i \in 1..Len(L)
    <3>1. L[i] <= now0 /\ (i + m <= Len(L) => L[i] + w <= now0 + p)
      BY <2>1 DEF Past, Closed
    <3> QED
      BY <3>1, <1>1, <2>1
  <2>2. CASE i = Len(L) + 1
    BY <1>1, <2>2
  <2> QED
    BY <1>1, <2>1, <2>2
<1>3. ASSUME NEW i \in 1..Len(M), NEW j \in 1..Len(M),
             j = i + 2 * m \/ (m = 1 /\ j = i + 1)
      PROVE  M[j] + p >= M[i] + w
  <2>0. i \in 1..Len(L)
    BY <1>1, <1>3
  <2>1. CASE j \in 1..Len(L)
    <3>1. L[j] + p >= L[i] + w
      BY <1>3, <2>0, <2>1 DEF Spaced
    <3> QED
      BY <3>1, <1>1, <2>0, <2>1
  <2>2. CASE j = Len(L) + 1
    <3>1. i + m <= Len(L) \/ m = 1
      BY <1>1, <1>3, <2>2
    <3>2. L[i] + w <= now0 + p
      BY <2>0, <3>1 DEF Closed
    <3> QED
      BY <3>2, <1>1, <2>0, <2>2
  <2> QED
    BY <1>1, <2>1, <2>2
<1> QED
  BY <1>2, <1>3 DEF Opened, Spaced, M

--------------------------------------------------------------------------------
\* How many of the admissions belong to the window that is open on counter k: none above
\* the limit is admitted.
Spent(k) == IF counters[k].count <= Max[k] THEN counters[k].count ELSE Max[k]

Windows(k) ==
    /\ Past(log[k], now)
    /\ Spaced(log[k], Max[k], Window[k], Patience)
    /\ counters[k] = None => Closed(log[k], Max[k], Window[k], now + Patience)
    /\ counters[k] # None => Opened(log[k], Max[k], Window[k], now + Patience,
                                    Spent(k), counters[k].start + Patience)

\* What is asserted or cleared is never consumed.
NeverConsumed == \A route \in routes : \A k \in Attempted(route) \cap Keys : log[k] = <<>>

LogInv == NeverConsumed /\ \A k \in Keys : Windows(k)

LEMMA LogTypes ==
    ASSUME TypeInv, NEW k \in Keys
    PROVE  /\ Max[k] \in Nat \ {0} /\ Window[k] \in Nat \ {0} /\ Patience \in Nat /\ now \in Nat
           /\ log[k] \in Seq(Nat)
           /\ counters[k] # None =>
                 /\ counters[k] \in Counter /\ counters[k].start \in Nat
                 /\ counters[k].count \in Nat \ {0}
                 /\ Spent(k) \in 1..Max[k]
<1>1. /\ Max[k] \in Nat \ {0} /\ Window[k] \in Nat \ {0} /\ Patience \in Nat /\ now \in Nat
      /\ log[k] \in Seq(Nat) /\ counters[k] \in Counter \cup {None}
  BY LimiterConstants DEF TypeInv, TypeOK
<1>2. counters[k] # None => counters[k].start \in Nat /\ counters[k].count \in Nat \ {0}
  BY <1>1 DEF Counter
<1> QED
  BY <1>1, <1>2 DEF Spent

LEMMA Later ==
    ASSUME NEW L \in Seq(Nat), NEW m \in Nat, NEW w \in Nat, NEW t \in Nat, NEW u \in Nat,
           t <= u, NEW n, NEW s
    PROVE  /\ Past(L, t) => Past(L, u)
           /\ Closed(L, m, w, t) => Closed(L, m, w, u)
           /\ Opened(L, m, w, t, n, s) => Opened(L, m, w, u, n, s)
<1>1. \A i \in 1..Len(L) : L[i] \in Nat
  OBVIOUS
<1>2. Past(L, t) => Past(L, u)
  BY <1>1 DEF Past
<1>3. \A i \in 1..Len(L) : L[i] + w <= t => L[i] + w <= u
  BY <1>1
<1>4. Closed(L, m, w, t) => Closed(L, m, w, u)
  BY <1>3 DEF Closed
<1>5. Opened(L, m, w, t, n, s) => Opened(L, m, w, u, n, s)
  BY <1>3 DEF Opened
<1> QED
  BY <1>2, <1>4, <1>5

\* A counter whose history and row are as they were, or that has been swept, or whose
\* history is empty.
LEMMA WindowsKept ==
    ASSUME TypeInv, TypeInv', now <= now', NEW k \in Keys, Windows(k),
           \/ log'[k] = <<>>
           \/ log'[k] = log[k] /\ counters'[k] = counters[k]
           \/ /\ log'[k] = log[k] /\ counters'[k] = None /\ counters[k] \in Counter
              /\ counters[k].start + Window[k] <= now
    PROVE  Windows(k)'
<1>0. now' \in Nat /\ now' + Patience \in Nat /\ now + Patience \in Nat
      /\ now + Patience <= now' + Patience
  BY LogTypes DEF TypeInv, TypeOK
<1>1. CASE log'[k] = <<>>
  BY <1>1 DEF Windows, Past, Closed, Opened, Spaced
<1>2. /\ Past(log[k], now) => Past(log[k], now')
      /\ Closed(log[k], Max[k], Window[k], now + Patience)
         => Closed(log[k], Max[k], Window[k], now' + Patience)
      /\ \A n, s : Opened(log[k], Max[k], Window[k], now + Patience, n, s)
                   => Opened(log[k], Max[k], Window[k], now' + Patience, n, s)
  BY <1>0, LogTypes, Later
<1>3. CASE log'[k] = log[k] /\ counters'[k] = counters[k]
  <2>1. Spent(k)' = Spent(k)
    BY <1>3 DEF Spent
  <2> QED
    BY <1>2, <1>3, <2>1 DEF Windows
<1>4. CASE /\ log'[k] = log[k] /\ counters'[k] = None /\ counters[k] \in Counter
           /\ counters[k].start + Window[k] <= now
  <2>1. counters[k] # None
    BY <1>4, LimiterConstants
  <2>2. Closed(log[k], Max[k], Window[k], now + Patience)
    BY <1>4, <2>1, LogTypes, WindowCloses DEF Windows
  <2> QED
    BY <1>2, <1>4, <2>2 DEF Windows
<1> QED
  BY <1>1, <1>3, <1>4

\* A counter that is recorded again: admitted, or over its limit.
LEMMA WindowsGo ==
    ASSUME TypeInv, TypeInv', now' = now, NEW k \in Keys, Windows(k), NEW t \in Nat,
           t <= now, now <= t + Patience, counters'[k] = Recorded(k, t),
           \/ Recorded(k, t).count > Max[k] /\ log'[k] = log[k]
           \/ Recorded(k, t).count <= Max[k] /\ log'[k] = Append(log[k], now)
    PROVE  Windows(k)'
<1>0. /\ Max[k] \in Nat \ {0} /\ Window[k] \in Nat \ {0} /\ Patience \in Nat /\ now \in Nat
      /\ log[k] \in Seq(Nat)
      /\ counters[k] # None => /\ counters[k] \in Counter /\ counters[k].start \in Nat
                               /\ counters[k].count \in Nat \ {0} /\ Spent(k) \in 1..Max[k]
  BY LogTypes
<1>1. Past(Append(log[k], now), now)
  BY <1>0, Appended DEF Windows, Past
<1>2. CASE Open(k, t)
  <2>1. /\ counters[k] # None /\ Recorded(k, t) = [counters[k] EXCEPT !.count = @ + 1]
    BY <1>2 DEF Open, Recorded
  <2>2. /\ counters'[k] # None /\ counters'[k].count = counters[k].count + 1
        /\ counters'[k].start = counters[k].start
    <3>1. PICK row \in Counter : row = counters[k]
      BY <1>0, <2>1
    <3> DEFINE next == [row EXCEPT !.count = @ + 1]
    <3>2. next \in Counter /\ next.count = row.count + 1 /\ next.start = row.start
      BY DEF Counter
    <3>3. next # None /\ counters'[k] = next
      BY <2>1, <3>1, <3>2, LimiterConstants
    <3> QED
      BY <3>1, <3>2, <3>3, <2>1
  <2>3. CASE counters[k].count >= Max[k]
    <3>1. Spent(k)' = Spent(k) /\ log'[k] = log[k]
      BY <1>0, <2>1, <2>2, <2>3 DEF Spent
    <3> QED
      BY <2>1, <2>2, <3>1 DEF Windows
  <2>4. CASE counters[k].count < Max[k]
    <3>1. /\ Spent(k)' = Spent(k) + 1 /\ Spent(k) \in 1..(Max[k] - 1)
          /\ log'[k] = Append(log[k], now)
      BY <1>0, <2>1, <2>2, <2>4 DEF Spent
    <3>3. counters[k].start + Patience \in Nat /\ Window[k] \in Nat
      <4>1. counters[k].start \in Nat /\ Patience \in Nat /\ Window[k] \in Nat
        BY <1>0, <2>1
      <4> QED
        BY <4>1
    <3>4. /\ Past(log[k], now) /\ Spaced(log[k], Max[k], Window[k], Patience)
          /\ Opened(log[k], Max[k], Window[k], now + Patience,
                    Spent(k), counters[k].start + Patience)
      BY <2>1 DEF Windows
    <3>2. /\ Opened(Append(log[k], now), Max[k], Window[k], now + Patience,
                    Spent(k) + 1, counters[k].start + Patience)
          /\ Spaced(Append(log[k], now), Max[k], Window[k], Patience)
      BY <1>0, <3>1, <3>3, <3>4, AdmitsMore
    <3> QED
      BY <1>1, <2>2, <3>1, <3>2 DEF Windows
  <2> QED
    BY <1>0, <2>1, <2>3, <2>4
<1>3. CASE ~Open(k, t)
  <2>1. Recorded(k, t) = [count |-> 1, start |-> t]
    BY <1>3 DEF Recorded
  <2>2. /\ counters'[k] # None /\ counters'[k].count = 1 /\ counters'[k].start = t
    BY <2>1, LimiterConstants DEF Counter
  <2>3. /\ Spent(k)' = 1 /\ log'[k] = Append(log[k], now)
    BY <1>0, <2>1, <2>2 DEF Spent
  <2>4. Closed(log[k], Max[k], Window[k], now + Patience)
    <3>1. CASE counters[k] # None
      <4>1. counters[k].start + Window[k] <= now
        BY <1>0, <1>3, <3>1 DEF Open
      <4> QED
        BY <1>0, <3>1, <4>1, WindowCloses DEF Windows
    <3>2. CASE counters[k] = None
      BY <3>2 DEF Windows
    <3> QED
      BY <3>1, <3>2
  <2>5. /\ Opened(Append(log[k], now), Max[k], Window[k], now + Patience, 1, t + Patience)
        /\ Spaced(Append(log[k], now), Max[k], Window[k], Patience)
    <3>1. t + Patience \in Nat /\ Window[k] \in Nat
      BY <1>0
    <3>2. Past(log[k], now) /\ Spaced(log[k], Max[k], Window[k], Patience)
      BY DEF Windows
    <3> QED
      BY <1>0, <2>4, <3>1, <3>2, AdmitsFirst
  <2> QED
    BY <1>1, <2>2, <2>3, <2>5 DEF Windows
<1> QED
  BY <1>2, <1>3


LEMMA LogConsume ==
    ASSUME TypeInv, TypeInv', LogInv, NEW r \in Requests, consume(r)
    PROVE  LogInv'
<1>0. PICK o : o = Head(req[r].consumes)
  OBVIOUS
<1>1. /\ UNCHANGED <<now, routes>> /\ req[r].step = "consume" /\ Records(o, req[r].at)
      /\ \/ Recorded(o, req[r].at).count > Max[o] /\ UNCHANGED log
         \/ /\ ~(Recorded(o, req[r].at).count > Max[o])
            /\ log' = [log EXCEPT ![o] = Append(@, now)]
  BY <1>0 DEF consume
<1>2. /\ req[r].route \in routes /\ o \in Keys /\ o \in Elems(req[r].route.consume)
      /\ req[r].at \in Nat /\ req[r].at <= now /\ now <= req[r].at + Patience
  BY <1>0, <1>1, ConsumeMakes
<1>3. /\ counters'[o] = Recorded(o, req[r].at) /\ Recorded(o, req[r].at) \in Counter
      /\ \A k \in Keys \ {o} :
            \/ counters'[k] = counters[k]
            \/ /\ counters'[k] = None /\ counters[k] \in Counter
               /\ counters[k].start + Window[k] < req[r].at
  BY <1>1, <1>2, RecordsMakes
<1>4. now \in Nat /\ log \in [Keys -> Seq(Nat)] /\ Max[o] \in Nat /\ routes \in Traffic
  BY <1>2, LimiterConstants DEF TypeInv, TypeOK
<1>5. NeverConsumed'
  <2>1. \A route \in routes : o \notin Attempted(route)
    BY <1>2, <1>4, RoutesDisciplined DEF Disciplined
  <2>2. \A k \in Keys \ {o} : log'[k] = log[k]
    BY <1>1, <1>4
  <2>4. routes' = routes
    BY <1>1
  <2> QED
    BY <2>1, <2>2, <2>4 DEF LogInv, NeverConsumed, Attempted
<1>6. ASSUME NEW k \in Keys PROVE Windows(k)'
  <2>1. CASE k = o
    <3>1. Recorded(o, req[r].at).count \in Nat
      BY <1>3 DEF Counter
    <3>2. \/ Recorded(o, req[r].at).count > Max[o] /\ log'[o] = log[o]
          \/ Recorded(o, req[r].at).count <= Max[o] /\ log'[o] = Append(log[o], now)
      BY <1>1, <1>2, <1>4, <3>1
    <3> QED
      BY <1>1, <1>2, <1>3, <2>1, <3>2, WindowsGo DEF LogInv
  <2>2. CASE k # o
    <3>1. log'[k] = log[k]
      BY <1>1, <1>4, <2>2
    <3>2. now <= now'
      BY <1>1, <1>4
    <3>3. \/ counters'[k] = counters[k]
          \/ /\ counters'[k] = None /\ counters[k] \in Counter
             /\ counters[k].start + Window[k] <= now
      <4>1. counters[k] \in Counter => counters[k].start + Window[k] \in Nat
        BY LimiterConstants DEF Counter
      <4> QED
        BY <1>2, <1>3, <1>4, <2>2, <4>1
    <3> QED
      BY <3>1, <3>2, <3>3, WindowsKept DEF LogInv
  <2> QED
    BY <2>1, <2>2
<1> QED
  BY <1>5, <1>6 DEF LogInv

\* A step that leaves the history and touches no counter that is consumed.
LEMMA LogKept ==
    ASSUME TypeInv, TypeInv', LogInv, UNCHANGED <<log, routes>>, now <= now',
           \A k \in Keys :
              \/ counters'[k] = counters[k]
              \/ log[k] = <<>>
              \/ /\ counters'[k] = None /\ counters[k] \in Counter
                 /\ counters[k].start + Window[k] <= now
    PROVE  LogInv'
<1>1. NeverConsumed'
  BY DEF LogInv, NeverConsumed, Attempted
<1>2. ASSUME NEW k \in Keys PROVE Windows(k)'
  BY WindowsKept DEF LogInv
<1> QED
  BY <1>1, <1>2 DEF LogInv

LEMMA LogStep == TypeInv /\ TypeInv' /\ LogInv /\ [Next]_vars => LogInv'
<1> SUFFICES ASSUME TypeInv, TypeInv', LogInv, [Next]_vars PROVE LogInv'
  OBVIOUS
<1>0. now \in Nat /\ routes \in Traffic /\ log \in [Keys -> Seq(Nat)]
  BY DEF TypeInv, TypeOK
<1>1. CASE UNCHANGED <<counters, now, routes, log>>
  BY <1>0, <1>1, LogKept
<1>2. ASSUME NEW r \in Requests, record(r) PROVE LogInv'
  <2>1. UNCHANGED <<now, routes, log>> /\ req[r].step = "record"
    BY <1>2 DEF record
  <2>2. PICK o \in req[r].counts : Records(o, req[r].at)
    BY <1>2 DEF record
  <2>3. /\ o \in Keys /\ req[r].route \in routes /\ req[r].at \in Nat /\ req[r].at <= now
        /\ o \in req[r].route.wrong \cup req[r].route.right
    BY <2>1, RecordMakes
  <2>4. log[o] = <<>>
    BY <1>0, <2>3, RoutesDisciplined DEF Disciplined, Attempted, LogInv, NeverConsumed
  <2>5. ASSUME NEW k \in Keys \ {o}
        PROVE  \/ counters'[k] = counters[k]
               \/ /\ counters'[k] = None /\ counters[k] \in Counter
                  /\ counters[k].start + Window[k] <= now
    <3>1. \/ counters'[k] = counters[k]
          \/ /\ counters'[k] = None /\ counters[k] \in Counter
             /\ counters[k].start + Window[k] < req[r].at
      BY <2>2, <2>3, RecordsMakes
    <3>2. counters[k] \in Counter => counters[k].start + Window[k] \in Nat
      BY LimiterConstants DEF Counter
    <3> QED
      BY <1>0, <2>3, <3>1, <3>2
  <2> QED
    BY <1>0, <2>1, <2>4, <2>5, LogKept
<1>3. ASSUME NEW r \in Requests, clear(r) PROVE LogInv'
  <2>1. UNCHANGED <<now, routes, log>>
    BY <1>3 DEF clear
  <2>2. \A k \in Keys : counters'[k] = counters[k] \/ log[k] = <<>>
    BY <1>3, ClearMakes DEF LogInv, NeverConsumed, Attempted
  <2> QED
    BY <1>0, <2>1, <2>2, LogKept
<1>4. ASSUME NEW S \in Subjects, forgetSubject(S) PROVE LogInv'
  <2>1. /\ UNCHANGED <<now, routes>>
        /\ \A k \in Keys : \/ log'[k] = log[k] /\ counters'[k] = counters[k]
                           \/ log'[k] = <<>>
    BY <1>4 DEF forgetSubject
  <2>2. NeverConsumed'
    BY <2>1 DEF LogInv, NeverConsumed, Attempted
  <2>3. ASSUME NEW k \in Keys PROVE Windows(k)'
    BY <1>0, <2>1, WindowsKept DEF LogInv
  <2> QED
    BY <2>2, <2>3 DEF LogInv
<1>5. ASSUME Tick PROVE LogInv'
  <2>1. UNCHANGED <<counters, routes, log>> /\ now <= now'
    BY <1>0, <1>5 DEF Tick
  <2> QED
    BY <2>1, LogKept
<1>6. ASSUME NEW r \in Requests, NEW route \in routes, Arrive(r, route) PROVE LogInv'
  BY <1>1, <1>6 DEF Arrive
<1>7. ASSUME NEW r \in Requests,
             \/ assertAllowed(r) \/ ConsumeCheck(r) \/ Act(r) \/ Abandon(r)
      PROVE  LogInv'
  BY <1>1, <1>7 DEF assertAllowed, ConsumeCheck, Act, Abandon
<1>8. CASE UNCHANGED vars
  BY <1>1, <1>8 DEF vars
<1> QED
  BY <1>2, <1>3, <1>4, <1>5, <1>6, <1>7, <1>8, LogConsume DEF Next

LEMMA LogInit == Init => LogInv
<1> SUFFICES ASSUME Init PROVE LogInv
  OBVIOUS
<1>1. \A k \in Keys : log[k] = <<>> /\ counters[k] = None
  BY DEF Init
<1>2. \A k \in Keys : Windows(k)
  BY <1>1 DEF Windows, Past, Closed, Spaced
<1> QED
  BY <1>1, <1>2 DEF LogInv, NeverConsumed

LEMMA LogCorrect == Spec => [](TypeInv /\ LogInv)
<1>1. Init => TypeInv /\ LogInv
  BY TypeInit, LogInit
<1>2. TypeInv /\ LogInv /\ [Next]_vars => (TypeInv /\ LogInv)'
  BY TypeStep, LogStep
<1> QED
  BY <1>1, <1>2, PTL DEF Spec

\* Windows are fixed and a burst may straddle two, never three: any 2 Max + 1 admissions
\* in a row take a window, less the age a request can have.
THEOREM BurstBounded == Spec => []NoBurst
<1>1. TypeInv /\ LogInv => NoBurst
  <2> SUFFICES ASSUME TypeInv, LogInv, NEW k \in Keys, NEW i \in DOMAIN log[k],
                      i + 2 * Max[k] \in DOMAIN log[k]
               PROVE  log[k][i + 2 * Max[k]] + Patience >= log[k][i] + Window[k]
    BY DEF NoBurst
  <2>1. DOMAIN log[k] = 1..Len(log[k])
    BY LogTypes
  <2> QED
    BY <2>1 DEF LogInv, Windows, Spaced
<1> QED
  BY <1>1, LogCorrect, PTL

\* Where one is allowed, two admissions in a row are a window apart, less that age:
\* a visitor that opens a page again counts once.
THEOREM CountedOnce == Spec => []CountsOnce
<1>1. TypeInv /\ LogInv => CountsOnce
  <2> SUFFICES ASSUME TypeInv, LogInv, NEW k \in Keys, Max[k] = 1, NEW i \in DOMAIN log[k],
                      i + 1 \in DOMAIN log[k]
               PROVE  log[k][i + 1] + Patience >= log[k][i] + Window[k]
    BY DEF CountsOnce
  <2>1. DOMAIN log[k] = 1..Len(log[k])
    BY LogTypes
  <2> QED
    BY <2>1 DEF LogInv, Windows, Spaced
<1> QED
  BY <1>1, LogCorrect, PTL

================================================================================
