----------------------------- MODULE AccountsProofs -----------------------------
(***************************************************************************)
(* Theorems about Accounts, for any number of accounts, addresses,          *)
(* instances and requests.  One inductive invariant carries all of them:   *)
(* what is true of every row (RowInv), of every request in flight (ReqInv) *)
(* and of every cached standing.                                           *)
(*                                                                         *)
(* It speaks of origin[p], the address p signed up with: as long as no      *)
(* admin has changed it, every copy of the row of p that is not verified,  *)
(* however old, still has that address, so that a code which proves an      *)
(* account proves the address of whatever copy is saved.                   *)
(***************************************************************************)
EXTENDS Accounts, TLAPS

\* What a request holds at each step: the copies its next step needs; a code or a link
\* in its hands is spent; it has not waited for longer than Patience.
HeldReq(q) ==
    \/ q = Idle
    \/ /\ q.step # "idle" /\ q.who \in People /\ q.at <= now /\ now <= q.at + Patience
       /\ q.step \in {"send", "verify.check", "verify.consume", "confirm.check",
                      "confirm.lookup", "confirm.save", "save", "status.save"}
             => q.account # None
       /\ q.step = "change.lookup" => q.email # None
       /\ q.step \in {"verify.consume", "confirm.lookup", "confirm.save", "confirm.consume"}
             => q.code # None
       /\ q.code # None => ~q.code.usable
       /\ q.step \in {"status.save", "standing"} => q.instance \in Instances
       /\ q.step \in {"reset.consume", "reset.load"} => q.link # None
       /\ q.link # None => /\ ~q.link.usable
                           /\ q.step \in {"reset.consume", "reset.load", "save"}

\* A standing that was read says when the account was active.
SeenReq(q) == q.step = "standing" /\ q.read => q.at <= lastActive[q.who]

\* When requests do not overlap, a link that is about to set a password has set none,
\* and once consumed its row is spent or gone.
LinkReq(q) ==
    alone /\ q.link # None =>
        /\ q.link.number <= sent[q.who].links /\ resets[q.who][q.link.number] = 0
        /\ q.step # "reset.consume" /\ links[q.who] # None /\ links[q.who].usable
           => links[q.who].number # q.link.number

LinkRow(p) ==
    alone =>
        /\ \A n \in 1..MaxLinks : /\ resets[p][n] <= 1
                                  /\ n > sent[p].links => resets[p][n] = 0
        /\ links[p] # None =>
              /\ links[p].number <= sent[p].links
              /\ links[p].usable => resets[p][links[p].number] = 0

\* A copy of the row of p: proven if verified, else the address is the first.
GoodRow(p, row, origin) ==
    row # None /\ p \notin corrected =>
        IF row.verified THEN <<p, row.email>> \in proven ELSE row.email = origin[p]

\* A code proves the address it changes to, or the first one.
GoodCode(p, c, origin) ==
    c # None =>
        IF c.newEmail # None THEN c.sentTo = c.newEmail
        ELSE p \notin corrected => c.sentTo = origin[p]

GoodReq(q, origin) ==
    q.who \in People =>
        /\ GoodRow(q.who, q.account, origin) /\ GoodCode(q.who, q.code, origin)
        /\ q.step \in {"send", "verify.check", "verify.consume"} => ~q.account.verified
        /\ q.step = "verify.consume"
           => q.who \in corrected \/ <<q.who, origin[q.who]>> \in proven
        /\ q.step = "confirm.lookup"
           => q.code.newEmail # None /\ <<q.who, q.code.newEmail>> \in proven

ReqInv(q, origin) == HeldReq(q) /\ SeenReq(q) /\ LinkReq(q) /\ GoodReq(q, origin)

RowInv(p, origin) ==
    /\ lastActive[p] <= now
    /\ Active(accounts[p]) => lastActive[p] = now
    /\ LinkRow(p)
    /\ GoodRow(p, accounts[p], origin)
    /\ GoodCode(p, codes[p], origin)

\* An active standing was read Patience before it was cached at most.
CacheInv ==
    \A i \in Instances, p \in People :
        cache[i][p] # None /\ cache[i][p].active
        => cache[i][p].at <= lastActive[p] + Patience

Busy(q) == q.step \notin {"idle", "standing"}

OneAtATime == alone => \A r, s \in Requests : Busy(req[r]) /\ Busy(req[s]) => r = s

TypeInv == TypeOK /\ \A r \in Requests : HeldReq(req[r])

IInv(origin) ==
    /\ TypeOK
    /\ \A r \in Requests : ReqInv(req[r], origin)
    /\ \A p \in People : RowInv(p, origin)
    /\ CacheInv /\ OneAtATime /\ SuspensionBites

--------------------------------------------------------------------------------
(***************************************************************************)
(* A request goes on to q; what it leaves of the tables is told apart.      *)
(***************************************************************************)

LEMMA IdleIsFine ==
    ASSUME NEW origin \in [People -> Emails]
    PROVE  /\ Idle \in Request /\ Idle.step = "idle" /\ Idle.link = None /\ ~Busy(Idle)
           /\ ReqInv(Idle, origin)
<1>1. None \notin People
  BY AccountConstants
<1> QED
  BY <1>1 DEF Idle, Request, Steps, Busy, ReqInv, HeldReq, SeenReq, LinkReq, GoodReq

LEMMA Types ==
    ASSUME TypeOK, NEW p \in People
    PROVE  /\ now \in Nat /\ Patience \in Nat /\ lastActive[p] \in Nat /\ latest \in Nat
           /\ accounts[p] # None => accounts[p] \in Account
           /\ codes[p] # None => codes[p] \in Code
           /\ links[p] # None => links[p] \in Link
           /\ sent[p].codes \in 0..MaxCodes /\ sent[p].links \in 0..MaxLinks
           /\ resets[p] \in [1..MaxLinks -> Nat]
BY AccountConstants DEF TypeOK

\* What the other requests in flight hold is no worse after a step that lets no time
\* pass, forgets nothing that was proven and leaves their links alone.
LEMMA OthersKept ==
    ASSUME NEW origin \in [People -> Emails], NEW q, ReqInv(q, origin),
           now' = now, alone' = alone, proven \subseteq proven', corrected \subseteq corrected',
           \A p \in People : lastActive[p] \in Nat /\ lastActive'[p] \in Nat
                             /\ lastActive[p] <= lastActive'[p],
           q \in Request, LinkReq(q)'
    PROVE  ReqInv(q, origin)'
<1>1. HeldReq(q)'
  BY DEF ReqInv, HeldReq
<1>2. SeenReq(q)'
  BY DEF ReqInv, HeldReq, SeenReq, Idle, Request
<1>3. GoodReq(q, origin)'
  BY DEF ReqInv, GoodReq, GoodRow, GoodCode
<1> QED
  BY <1>1, <1>2, <1>3 DEF ReqInv

LEMMA ReqsKept ==
    ASSUME NEW origin \in [People -> Emails], IInv(origin), NEW r \in Requests,
           NEW q \in Request, req' = [req EXCEPT ![r] = q], now' = now, alone' = alone,
           proven \subseteq proven', corrected \subseteq corrected',
           \A p \in People : lastActive'[p] \in Nat /\ lastActive[p] <= lastActive'[p],
           ReqInv(q, origin)', \A s \in Requests \ {r} : LinkReq(req[s])'
    PROVE  /\ req' \in [Requests -> Request]
           /\ \A s \in Requests : ReqInv(req[s], origin)'
<1>1. req \in [Requests -> Request]
  BY DEF IInv, TypeOK
<1>2. \A p \in People : lastActive[p] \in Nat
  BY DEF IInv, TypeOK
<1>3. req'[r] = q /\ \A s \in Requests \ {r} : req'[s] = req[s]
  BY <1>1
<1>4. ASSUME NEW s \in Requests \ {r} PROVE ReqInv(req[s], origin)'
  <2>1. PICK o \in Request : o = req[s] /\ o = req'[s]
    BY <1>1, <1>3
  <2>2. ReqInv(o, origin) /\ LinkReq(o)'
    BY <2>1 DEF IInv
  <2>3. ReqInv(o, origin)'
    BY <1>2, <2>2, OthersKept
  <2> QED
    BY <2>1, <2>3
<1>5. ReqInv(req[r], origin)'
  BY <1>3
<1> QED
  BY <1>1, <1>4, <1>5

\* No request that is not at work holds a link, so under OneAtATime a step of one that is
\* at work, or that starts when all are idle, is the only one to hold a link.
LEMMA OnlyHolder ==
    ASSUME NEW origin \in [People -> Emails], IInv(origin), alone, NEW r \in Requests,
           Busy(req[r]) \/ \A s \in Requests : req[s] = Idle,
           NEW s \in Requests \ {r}
    PROVE  ~Busy(req[s]) /\ req[s].link = None
<1>1. HeldReq(req[s]) /\ (req[s].link # None => Busy(req[s]))
  BY IdleIsFine DEF IInv, ReqInv, HeldReq, Busy
<1>2. ~Busy(req[s])
  BY IdleIsFine DEF IInv, OneAtATime
<1> QED
  BY <1>1, <1>2

LEMMA RowsKept ==
    ASSUME NEW origin \in [People -> Emails], IInv(origin),
           UNCHANGED <<tables, now, alone, sent, resets, lastActive>>,
           proven \subseteq proven', corrected \subseteq corrected'
    PROVE  \A p \in People : RowInv(p, origin)'
<1>1. ASSUME NEW p \in People PROVE RowInv(p, origin)'
  <2>1. RowInv(p, origin)
    BY DEF IInv
  <2>2. LinkRow(p)'
    BY <2>1 DEF RowInv, LinkRow, tables
  <2>3. GoodRow(p, accounts[p], origin)' /\ GoodCode(p, codes[p], origin)'
    BY <2>1 DEF RowInv, GoodRow, GoodCode, tables
  <2> QED
    BY <2>1, <2>2, <2>3 DEF RowInv, tables, Active
<1> QED
  BY <1>1

\* The steps that only change what a request holds, or what was proven or corrected.
LEMMA Moves ==
    ASSUME NEW origin \in [People -> Emails], IInv(origin), NEW r \in Requests,
           NEW q \in Request, req' = [req EXCEPT ![r] = q],
           UNCHANGED <<tables, cache, now, calls, alone, sent, resets, lastActive, latest>>,
           proven \subseteq proven', proven' \subseteq People \X Emails,
           corrected \subseteq corrected', corrected' \subseteq People,
           Busy(q) => Busy(req[r]) \/ (alone => \A s \in Requests : req[s] = Idle),
           HeldReq(q), SeenReq(q), LinkReq(q), GoodReq(q, origin)'
    PROVE  IInv(origin)'
<1> USE DEF tables
<1>0. req \in [Requests -> Request]
  BY DEF IInv, TypeOK
<1>1. ReqInv(q, origin)'
  BY DEF ReqInv, HeldReq, SeenReq, LinkReq
<1>2. ASSUME NEW s \in Requests \ {r} PROVE LinkReq(req[s])'
  <2>1. LinkReq(req[s]) /\ req'[s] = req[s]
    BY <1>0 DEF IInv, ReqInv
  <2> QED
    BY <2>1 DEF LinkReq
<1>3. /\ req' \in [Requests -> Request] /\ \A s \in Requests : ReqInv(req[s], origin)'
  <2>1. \A p \in People : lastActive'[p] \in Nat /\ lastActive[p] <= lastActive'[p]
    BY DEF IInv, TypeOK
  <2> QED
    BY <1>1, <1>2, <2>1, ReqsKept
<1>4. \A p \in People : RowInv(p, origin)'
  BY RowsKept
<1>5. OneAtATime'
  <2> SUFFICES ASSUME alone, NEW s \in Requests, NEW o \in Requests, s # o,
                      Busy(req'[s]), Busy(req'[o])
               PROVE  FALSE
    BY DEF OneAtATime, Busy
  <2>1. req'[r] = q /\ \A t \in Requests \ {r} : req'[t] = req[t]
    BY <1>0
  <2>2. CASE s # r /\ o # r
    BY <2>1, <2>2 DEF IInv, OneAtATime
  <2>3. CASE s = r \/ o = r
    <3>1. Busy(q) /\ \E t \in Requests \ {r} : Busy(req[t])
      BY <2>1, <2>3
    <3> QED
      BY <3>1, OnlyHolder
  <2> QED
    BY <2>2, <2>3
<1>6. TypeOK' /\ CacheInv' /\ SuspensionBites'
  BY <1>3 DEF IInv, TypeOK, CacheInv, SuspensionBites
<1> QED
  BY <1>3, <1>4, <1>5, <1>6 DEF IInv

--------------------------------------------------------------------------------
(***************************************************************************)
(* The steps that write no row.                                            *)
(***************************************************************************)

\* A handler starts with a copy of the row of p, as it is or as it is to become.
LEMMA Starts ==
    ASSUME NEW origin \in [People -> Emails], IInv(origin), NEW r \in Requests,
           NEW e, Arrives(r, e), NEW q \in Request, req' = [req EXCEPT ![r] = q],
           q.who \in People, q.at = now, q.code = None, q.link = None,
           UNCHANGED <<tables, cache, now, calls, alone, sent, proven, resets, lastActive, latest>>,
           corrected \subseteq corrected', corrected' \subseteq People,
           \/ q.step \in {"send", "verify.check"} /\ ~q.account.verified /\ q.account # None
           \/ q.step \in {"confirm.check", "save", "link"} /\ q.account # None
           \/ q.step = "status.save" /\ q.account # None /\ q.instance \in Instances
           \/ q.step = "change.lookup" /\ q.email # None,
           GoodRow(q.who, q.account, origin)'
    PROVE  IInv(origin)'
<1>0. now \in Nat /\ Patience \in Nat /\ proven \subseteq People \X Emails
  BY AccountConstants DEF IInv, TypeOK
<1>1. HeldReq(q)
  BY <1>0 DEF HeldReq
<1>2. SeenReq(q) /\ LinkReq(q)
  BY DEF SeenReq, LinkReq
<1>3. GoodReq(q, origin)'
  BY DEF GoodReq, GoodCode
<1>4. alone => \A o \in Requests : req[o] = Idle
  BY DEF Arrives
<1> QED
  BY <1>0, <1>1, <1>2, <1>3, <1>4, Moves

LEMMA LoadsKeeps ==
    ASSUME NEW origin \in [People -> Emails], IInv(origin), NEW r \in Requests, NEW e,
           NEW p \in People, NEW s \in {"send", "verify.check", "confirm.check", "link", "save"},
           Loads(r, e, p, s), UNCHANGED <<tables, cache, now, calls, alone, history>>,
           s \in {"send", "verify.check"} => ~accounts[p].verified
    PROVE  IInv(origin)'
<1>1. /\ Arrives(r, e) /\ accounts[p] \in Account /\ accounts[p] # None
      /\ GoodRow(p, accounts[p], origin) /\ now \in Nat /\ corrected \subseteq People
  BY Types DEF Loads, IInv, RowInv, TypeOK
<1>2. PICK q : q = [Idle EXCEPT !.step = s, !.who = p, !.account = accounts[p], !.at = now]
  OBVIOUS
<1>3. /\ q \in Request /\ q.step = s /\ q.who = p /\ q.account = accounts[p] /\ q.at = now
      /\ q.code = None /\ q.link = None
  BY <1>1, <1>2 DEF Idle, Request, Steps
<1>4. req' = [req EXCEPT ![r] = q]
  BY <1>2 DEF Loads, Holds
<1>5. GoodRow(q.who, q.account, origin)'
  BY <1>1, <1>3 DEF GoodRow, history, seen
<1>6. UNCHANGED <<tables, cache, now, calls, alone, sent, proven, resets, lastActive, latest,
                  corrected>>
  BY DEF history, seen
<1> QED
  BY <1>1, <1>3, <1>4, <1>5, <1>6, Starts

LEMMA ChangeStarts ==
    ASSUME NEW origin \in [People -> Emails], IInv(origin), NEW r \in Requests,
           NEW p \in People, NEW email \in Emails, ChangeLoad(r, p, email)
    PROVE  IInv(origin)'
<1>1. PICK q : q = [Idle EXCEPT !.step = "change.lookup", !.who = p, !.email = email, !.at = now]
  OBVIOUS
<1>2. now \in Nat /\ corrected \subseteq People /\ email # None
  BY AccountConstants DEF IInv, TypeOK
<1>3. /\ q \in Request /\ q.step = "change.lookup" /\ q.who = p /\ q.account = None
      /\ q.email = email /\ q.at = now /\ q.code = None /\ q.link = None
  BY <1>1, <1>2 DEF Idle, Request, Steps
<1>4. req' = [req EXCEPT ![r] = q] /\ Arrives(r, "requestChange")
  BY <1>1 DEF ChangeLoad, Holds
<1>5. GoodRow(q.who, q.account, origin)'
  BY <1>3 DEF GoodRow
<1>6. UNCHANGED <<tables, cache, now, calls, alone, sent, proven, resets, lastActive, latest,
                  corrected>>
  BY DEF ChangeLoad, history, seen
<1> QED
  BY <1>2, <1>3, <1>4, <1>5, <1>6, Starts

\* A handler that starts with the row as it is to become.
LEMMA EditStarts ==
    ASSUME NEW origin \in [People -> Emails], IInv(origin), NEW r \in Requests,
           NEW e, Arrives(r, e), NEW p \in People, NEW row \in Account, NEW q \in Request,
           q.step = "save" \/ (q.step = "status.save" /\ q.instance \in Instances),
           q.who = p, q.account = row, q.at = now, q.code = None, q.link = None,
           req' = [req EXCEPT ![r] = q],
           UNCHANGED <<tables, cache, now, calls, alone, sent, proven, resets, lastActive, latest>>,
           \/ /\ corrected' = corrected /\ accounts[p] # None
              /\ row.verified = accounts[p].verified /\ row.email = accounts[p].email
           \/ corrected' = corrected \cup {p}
    PROVE  IInv(origin)'
<1>1. /\ now \in Nat /\ corrected \subseteq People /\ GoodRow(p, accounts[p], origin)
      /\ row # None
  BY AccountConstants DEF IInv, TypeOK, RowInv
<1>2. GoodRow(q.who, q.account, origin)'
  BY <1>1 DEF GoodRow
<1> QED
  BY <1>1, <1>2, Starts

LEMMA changePasswordKeeps ==
    ASSUME NEW origin \in [People -> Emails], IInv(origin), NEW r \in Requests,
           NEW p \in People, changePassword(r, p)
    PROVE  IInv(origin)'
<1>1. /\ accounts[p] # None /\ accounts[p] \in Account /\ Arrives(r, "changePassword")
      /\ MaxLinks \in Nat
  BY Types, AccountConstants DEF changePassword, IInv
<1>2. PICK row : row = [accounts[p] EXCEPT !.password = 0]
  OBVIOUS
<1>3. row \in Account /\ row.verified = accounts[p].verified /\ row.email = accounts[p].email
  BY <1>1, <1>2 DEF Account
<1>4. PICK q : q = [Idle EXCEPT !.step = "save", !.who = p, !.at = now, !.account = row]
  OBVIOUS
<1>5. /\ q \in Request /\ q.step = "save" /\ q.who = p /\ q.account = row /\ q.at = now
      /\ q.code = None /\ q.link = None
  BY <1>3, <1>4, Types DEF IInv, Idle, Request, Steps
<1>6. req' = [req EXCEPT ![r] = q]
  BY <1>2, <1>4 DEF changePassword, Holds
<1>7. UNCHANGED <<tables, cache, now, calls, alone, sent, proven, resets, lastActive, latest,
                  corrected>>
  BY DEF changePassword, history, seen
<1> QED
  BY <1>1, <1>3, <1>5, <1>6, <1>7, EditStarts

LEMMA adminUpdateKeeps ==
    ASSUME NEW origin \in [People -> Emails], IInv(origin), NEW r \in Requests,
           NEW p \in People, NEW email \in Emails, adminUpdate(r, p, email)
    PROVE  IInv(origin)'
<1>1. /\ accounts[p] # None /\ accounts[p] \in Account /\ Arrives(r, "adminUpdate")
  BY Types DEF adminUpdate, IInv
<1>2. PICK row : row = [accounts[p] EXCEPT !.email = email, !.verified = FALSE]
  OBVIOUS
<1>3. row \in Account
  BY <1>1, <1>2 DEF Account
<1>4. PICK q : q = [Idle EXCEPT !.step = "save", !.who = p, !.at = now, !.account = row]
  OBVIOUS
<1>5. /\ q \in Request /\ q.step = "save" /\ q.who = p /\ q.account = row /\ q.at = now
      /\ q.code = None /\ q.link = None
  BY <1>3, <1>4, Types DEF IInv, Idle, Request, Steps
<1>6. req' = [req EXCEPT ![r] = q]
  BY <1>2, <1>4 DEF adminUpdate, Holds
<1>7. /\ UNCHANGED <<tables, cache, now, calls, alone, sent, proven, resets, lastActive, latest>>
      /\ corrected' = corrected \cup {p}
  BY DEF adminUpdate
<1> QED
  BY <1>1, <1>3, <1>5, <1>6, <1>7, EditStarts

LEMMA updateStatusKeeps ==
    ASSUME NEW origin \in [People -> Emails], IInv(origin), NEW r \in Requests,
           NEW p \in People, NEW i \in Instances, NEW enabled \in BOOLEAN,
           updateStatus(r, p, i, enabled)
    PROVE  IInv(origin)'
<1>1. /\ accounts[p] # None /\ accounts[p] \in Account /\ Arrives(r, "status")
  BY Types DEF updateStatus, IInv
<1>2. PICK row : row = [accounts[p] EXCEPT !.disabled = ~enabled]
  OBVIOUS
<1>3. row \in Account /\ row.verified = accounts[p].verified /\ row.email = accounts[p].email
  BY <1>1, <1>2 DEF Account
<1>4. PICK q : q = [Idle EXCEPT !.step = "status.save", !.who = p, !.instance = i, !.at = now,
                                !.account = row]
  OBVIOUS
<1>5. /\ q \in Request /\ q.step = "status.save" /\ q.who = p /\ q.account = row /\ q.at = now
      /\ q.code = None /\ q.link = None /\ q.instance = i
  BY <1>3, <1>4, Types DEF IInv, Idle, Request, Steps
<1>6. req' = [req EXCEPT ![r] = q]
  BY <1>2, <1>4 DEF updateStatus, Holds
<1>7. UNCHANGED <<tables, cache, now, calls, alone, sent, proven, resets, lastActive, latest,
                  corrected>>
  BY DEF updateStatus, history, seen
<1> QED
  BY <1>1, <1>3, <1>5, <1>6, <1>7, EditStarts

\* What is known of a request that is not idle.
LEMMA AtWork ==
    ASSUME NEW origin \in [People -> Emails], IInv(origin), NEW r \in Requests,
           req[r].step # "idle"
    PROVE  /\ req[r] \in Request /\ ReqInv(req[r], origin) /\ req[r].who \in People
           /\ req[r] # Idle /\ req[r].at \in Nat
           /\ req[r].at <= now /\ now <= req[r].at + Patience
           /\ req[r].account # None => req[r].account \in Account
           /\ req[r].code # None => req[r].code \in Code
           /\ req[r].link # None => req[r].link \in Link
           /\ RowInv(req[r].who, origin)
<1>1. req[r] \in Request /\ ReqInv(req[r], origin) /\ req[r] # Idle
  BY DEF IInv, TypeOK, Idle
<1>2. HeldReq(req[r])
  BY <1>1 DEF ReqInv
<1>3. req[r].who \in People /\ req[r].at <= now /\ now <= req[r].at + Patience
  BY <1>1, <1>2 DEF HeldReq
<1> QED
  BY <1>1, <1>3 DEF IInv, Request

\* The code that is checked is the current one of the account, and comes back from the
\* address it was sent to.
LEMMA CheckKeeps ==
    ASSUME NEW origin \in [People -> Emails], IInv(origin), NEW r \in Requests,
           VerifyCheck(r) \/ ConfirmCheck(r)
    PROVE  IInv(origin)'
<1>1. PICK w, c : w = req[r].who /\ c = codes[w]
  OBVIOUS
<1>2. PICK s \in {"verify.consume", "confirm.lookup"} :
        /\ req[r].step = IF s = "verify.consume" THEN "verify.check" ELSE "confirm.check"
        /\ c # None /\ c.usable /\ (c.newEmail = None <=> s = "verify.consume")
        /\ req' = [req EXCEPT ![r] = [req[r] EXCEPT !.step = s, !.code = [c EXCEPT !.usable = FALSE]]]
        /\ proven' = proven \cup {<<w, c.sentTo>>}
        /\ UNCHANGED <<tables, cache, now, calls, alone, sent, corrected, resets, lastActive, latest>>
  <2>1. CASE VerifyCheck(r)
    BY <1>1, <2>1 DEF VerifyCheck, Holds
  <2>2. CASE ConfirmCheck(r)
    BY <1>1, <2>2 DEF ConfirmCheck, Holds
  <2> QED
    BY <2>1, <2>2
<1>3. /\ req[r] \in Request /\ ReqInv(req[r], origin) /\ w \in People /\ req[r] # Idle
      /\ c \in Code /\ GoodCode(w, c, origin)
  BY <1>1, <1>2, AtWork, Types DEF IInv, RowInv
<1>4. PICK q : q = [req[r] EXCEPT !.step = s, !.code = [c EXCEPT !.usable = FALSE]]
  OBVIOUS
<1>5. /\ q \in Request /\ q.step = s /\ q.who = w /\ q.account = req[r].account
      /\ q.link = req[r].link /\ q.at = req[r].at
      /\ q.code # None /\ ~q.code.usable /\ q.code.sentTo = c.sentTo /\ q.code.newEmail = c.newEmail
  <2>1. PICK d : d = [c EXCEPT !.usable = FALSE]
    OBVIOUS
  <2>2. d \in Code /\ ~d.usable /\ d.sentTo = c.sentTo /\ d.newEmail = c.newEmail
    BY <1>3, <2>1 DEF Code
  <2> QED
    BY <1>1, <1>3, <1>4, <2>1, <2>2, AccountConstants DEF Request, Steps
<1>6. HeldReq(q) /\ q.link = None
  BY <1>2, <1>3, <1>5 DEF ReqInv, HeldReq
<1>7. SeenReq(q) /\ LinkReq(q)
  BY <1>5, <1>6 DEF SeenReq, LinkReq
<1>8. GoodReq(q, origin)'
  BY <1>1, <1>2, <1>3, <1>5 DEF ReqInv, GoodReq, GoodRow, GoodCode
<1>9. Busy(req[r])
  BY <1>2 DEF Busy
<1>10. /\ req' = [req EXCEPT ![r] = q] /\ corrected \subseteq People /\ corrected' = corrected
       /\ proven \subseteq proven' /\ proven' \subseteq People \X Emails
       /\ UNCHANGED <<tables, cache, now, calls, alone, sent, resets, lastActive, latest>>
  <2>1. c.sentTo \in Emails
    BY <1>3 DEF Code
  <2> QED
    BY <1>2, <1>3, <1>4, <2>1 DEF IInv, TypeOK
<1> QED
  BY <1>5, <1>6, <1>7, <1>8, <1>9, <1>10, Moves

LEMMA ConfirmLookupKeeps ==
    ASSUME NEW origin \in [People -> Emails], IInv(origin), NEW r \in Requests, ConfirmLookup(r)
    PROVE  IInv(origin)'
<1>1. /\ req[r].step = "confirm.lookup"
      /\ req' = [req EXCEPT ![r] = [req[r] EXCEPT !.step = "confirm.save",
                    !.account.verified = TRUE, !.account.email = req[r].code.newEmail]]
      /\ UNCHANGED <<tables, cache, now, calls, alone, history>>
  BY DEF ConfirmLookup, Holds
<1>2. /\ req[r] \in Request /\ ReqInv(req[r], origin) /\ req[r].who \in People /\ req[r] # Idle
  BY <1>1, AtWork
<1>3. /\ req[r].account \in Account /\ req[r].code \in Code /\ req[r].code.newEmail \in Emails
      /\ <<req[r].who, req[r].code.newEmail>> \in proven /\ req[r].link = None
      /\ GoodCode(req[r].who, req[r].code, origin)
  <2>1. /\ req[r].account # None /\ req[r].code # None
    BY <1>1, <1>2 DEF ReqInv, HeldReq
  <2>2. req[r].account \in Account /\ req[r].code \in Code
    BY <1>2, <2>1 DEF Request
  <2> QED
    BY <1>1, <1>2, <2>1, <2>2 DEF ReqInv, HeldReq, GoodReq, Code
<1>4. PICK row : row = [req[r].account EXCEPT !.verified = TRUE, !.email = req[r].code.newEmail]
  OBVIOUS
<1>5. row \in Account /\ row.verified = TRUE /\ row.email = req[r].code.newEmail /\ row # None
  BY <1>3, <1>4, AccountConstants DEF Account
<1>6. PICK q : q = [req[r] EXCEPT !.step = "confirm.save", !.account = row]
  OBVIOUS
<1>7. /\ q \in Request /\ q.step = "confirm.save" /\ q.who = req[r].who /\ q.account = row
      /\ q.link = None /\ q.at = req[r].at /\ q.code = req[r].code
  BY <1>2, <1>3, <1>5, <1>6 DEF Request, Steps
<1>8. req' = [req EXCEPT ![r] = q]
  BY <1>1, <1>2, <1>4, <1>6 DEF Request
<1>9. HeldReq(q)
  BY <1>1, <1>2, <1>5, <1>7 DEF ReqInv, HeldReq
<1>10. SeenReq(q) /\ LinkReq(q)
  BY <1>7 DEF SeenReq, LinkReq
<1>11. GoodReq(q, origin)'
  BY <1>1, <1>3, <1>5, <1>7 DEF GoodReq, GoodRow, GoodCode, history, seen
<1>12. Busy(req[r])
  BY <1>1 DEF Busy
<1>13. /\ UNCHANGED <<sent, resets, lastActive, latest, proven, corrected>>
       /\ proven \subseteq People \X Emails /\ corrected \subseteq People
  BY <1>1 DEF history, seen, IInv, TypeOK
<1> QED
  BY <1>1, <1>7, <1>8, <1>9, <1>10, <1>11, <1>12, <1>13, Moves

LEMMA ResetMoves ==
    ASSUME NEW origin \in [People -> Emails], IInv(origin), NEW r \in Requests,
           ResetLoad(r) \/ \E p \in People : ResetFind(r, p)
    PROVE  IInv(origin)'
<1>0. UNCHANGED <<tables, cache, now, calls, alone, sent, resets, lastActive, latest,
                  proven, corrected>>
  BY DEF ResetLoad, ResetFind, history, seen
<1>1. /\ proven \subseteq People \X Emails /\ corrected \subseteq People /\ now \in Nat
      /\ Patience \in Nat
  BY AccountConstants DEF IInv, TypeOK
<1>2. ASSUME NEW p \in People, ResetFind(r, p) PROVE IInv(origin)'
  <2>1. /\ links[p] # None /\ links[p].usable /\ Arrives(r, "reset") /\ links[p] \in Link
        /\ RowInv(p, origin)
    BY <1>2, Types DEF ResetFind, IInv
  <2>2. PICK l : l = [links[p] EXCEPT !.usable = FALSE]
    OBVIOUS
  <2>3. l \in Link /\ l # None /\ ~l.usable /\ l.number = links[p].number
    BY <2>1, <2>2, AccountConstants DEF Link
  <2>4. PICK q : q = [Idle EXCEPT !.step = "reset.consume", !.who = p, !.at = now, !.link = l]
    OBVIOUS
  <2>5. /\ q \in Request /\ q.step = "reset.consume" /\ q.who = p /\ q.at = now /\ q.link = l
        /\ q.account = None /\ q.code = None
    BY <1>1, <2>3, <2>4 DEF Idle, Request, Steps
  <2>6. req' = [req EXCEPT ![r] = q]
    BY <1>2, <2>2, <2>4 DEF ResetFind, Holds
  <2>7. HeldReq(q) /\ SeenReq(q)
    BY <1>1, <2>3, <2>5 DEF HeldReq, SeenReq
  <2>8. LinkReq(q)
    BY <2>1, <2>3, <2>5 DEF LinkReq, RowInv, LinkRow
  <2>9. GoodReq(q, origin)'
    BY <2>5 DEF GoodReq, GoodRow, GoodCode
  <2> QED
    BY <1>0, <1>1, <2>1, <2>5, <2>6, <2>7, <2>8, <2>9, Moves DEF Arrives
<1>3. CASE ResetLoad(r)
  <2>1. req[r].step = "reset.load" /\ accounts[req[r].who] # None
    BY <1>3 DEF ResetLoad
  <2>2. /\ req[r] \in Request /\ ReqInv(req[r], origin) /\ req[r].who \in People
        /\ req[r] # Idle /\ req[r].link \in Link /\ ~req[r].link.usable /\ req[r].link # None
    <3>1. req[r].link # None /\ ~req[r].link.usable
      BY <2>1, AtWork DEF ReqInv, HeldReq
    <3> QED
      BY <2>1, <3>1, AtWork
  <2>3. PICK row : row = [accounts[req[r].who] EXCEPT !.password = req[r].link.number]
    OBVIOUS
  <2>4. /\ row \in Account /\ row # None /\ row.verified = accounts[req[r].who].verified
        /\ row.email = accounts[req[r].who].email
    <3>1. accounts[req[r].who] \in Account /\ req[r].link.number \in 0..MaxLinks
      BY <2>1, <2>2, Types, AccountConstants DEF IInv, Link
    <3> QED
      BY <2>3, <3>1, AccountConstants DEF Account
  <2>5. PICK q : q = [req[r] EXCEPT !.step = "save", !.account = row]
    OBVIOUS
  <2>6. /\ q \in Request /\ q.step = "save" /\ q.who = req[r].who /\ q.account = row
        /\ q.link = req[r].link /\ q.at = req[r].at /\ q.code = req[r].code
    BY <2>2, <2>4, <2>5 DEF Request, Steps
  <2>7. req' = [req EXCEPT ![r] = q]
    BY <1>3, <2>3, <2>5 DEF ResetLoad, Holds
  <2>8. HeldReq(q) /\ SeenReq(q)
    BY <2>1, <2>2, <2>4, <2>6 DEF ReqInv, HeldReq, SeenReq
  <2>9. LinkReq(q)
    BY <2>1, <2>2, <2>6 DEF ReqInv, LinkReq
  <2>10. GoodReq(q, origin)'
    <3>1. GoodRow(q.who, row, origin)
      BY <2>1, <2>2, <2>4, <2>6 DEF IInv, RowInv, GoodRow
    <3> QED
      BY <1>0, <2>1, <2>2, <2>6, <3>1 DEF ReqInv, GoodReq, GoodRow, GoodCode
  <2>11. Busy(req[r])
    BY <2>1 DEF Busy
  <2> QED
    BY <1>0, <1>1, <2>6, <2>7, <2>8, <2>9, <2>10, <2>11, Moves
<1> QED
  BY <1>2, <1>3

LEMMA GuardMoves ==
    ASSUME NEW origin \in [People -> Emails], IInv(origin), NEW r \in Requests,
           Abandon(r) \/ \E i \in Instances, p \in People : CacheMiss(r, i, p)
    PROVE  IInv(origin)'
<1>0. UNCHANGED <<tables, cache, now, calls, alone, sent, resets, lastActive, latest,
                  proven, corrected>>
  BY DEF Abandon, CacheMiss, history, seen
<1>1. /\ proven \subseteq People \X Emails /\ corrected \subseteq People /\ now \in Nat
      /\ Patience \in Nat
  BY AccountConstants DEF IInv, TypeOK
<1>2. CASE Abandon(r)
  <2>1. req' = [req EXCEPT ![r] = Idle]
    BY <1>2 DEF Abandon, Finish
  <2>2. GoodReq(Idle, origin)'
    BY AccountConstants DEF GoodReq, Idle
  <2> QED
    BY <1>0, <1>1, <2>1, <2>2, IdleIsFine, Moves DEF ReqInv
<1>3. ASSUME NEW i \in Instances, NEW p \in People, CacheMiss(r, i, p) PROVE IInv(origin)'
  <2>1. PICK q : q = [Idle EXCEPT !.step = "standing", !.who = p, !.instance = i, !.at = now,
                                  !.read = Active(accounts[p])]
    OBVIOUS
  <2>2. Active(accounts[p]) \in BOOLEAN
    BY DEF Active
  <2>3. /\ q \in Request /\ q.step = "standing" /\ q.who = p /\ q.instance = i /\ q.at = now
        /\ q.account = None /\ q.code = None /\ q.link = None
        /\ q.read = Active(accounts[p])
    BY <1>1, <2>1, <2>2 DEF Idle, Request, Steps
  <2>4. req' = [req EXCEPT ![r] = q]
    BY <1>3, <2>1 DEF CacheMiss, Holds
  <2>5. HeldReq(q) /\ LinkReq(q)
    BY <1>1, <2>3 DEF HeldReq, LinkReq
  <2>6. SeenReq(q)
    BY <1>1, <2>3 DEF IInv, RowInv, SeenReq
  <2>7. GoodReq(q, origin)'
    BY <2>3 DEF GoodReq, GoodRow, GoodCode
  <2>8. ~Busy(q)
    BY <2>3 DEF Busy
  <2> QED
    BY <1>0, <1>1, <2>3, <2>4, <2>5, <2>6, <2>7, <2>8, Moves
<1> QED
  BY <1>2, <1>3

--------------------------------------------------------------------------------
(***************************************************************************)
(* The steps that write a row.                                             *)
(***************************************************************************)

LEMMA Writes ==
    ASSUME NEW origin \in [People -> Emails], IInv(origin), NEW r \in Requests, Busy(req[r]),
           NEW q \in Request, req' = [req EXCEPT ![r] = q],
           UNCHANGED <<now, calls, alone, proven, corrected, latest>>,
           accounts' \in [People -> Account \cup {None}],
           codes' \in [People -> Code \cup {None}],
           links' \in [People -> Link \cup {None}],
           cache' \in [Instances -> [People -> Standing \cup {None}]],
           \A i \in Instances, p \in People : cache'[i][p] \in {cache[i][p], None},
           sent' \in [People -> [codes : 0..MaxCodes, links : 0..MaxLinks]],
           resets' \in [People -> [1..MaxLinks -> Nat]],
           lastActive' \in [People -> Nat], \A p \in People : lastActive[p] <= lastActive'[p],
           \A p \in People : RowInv(p, origin)',
           ReqInv(q, origin)'
    PROVE  IInv(origin)'
<1>0. req \in [Requests -> Request] /\ lastActive \in [People -> Nat] /\ Patience \in Nat
  BY AccountConstants DEF IInv, TypeOK
<1>1. ASSUME NEW s \in Requests \ {r} PROVE LinkReq(req[s])'
  <2>1. req'[s] = req[s]
    BY <1>0
  <2>2. CASE alone
    BY <2>1, <2>2, OnlyHolder DEF LinkReq
  <2>3. CASE ~alone
    BY <2>3 DEF LinkReq
  <2> QED
    BY <2>2, <2>3
<1>2. /\ req' \in [Requests -> Request] /\ \A s \in Requests : ReqInv(req[s], origin)'
  BY <1>1, ReqsKept
<1>3. OneAtATime'
  <2>1. \A s \in Requests : Busy(req'[s]) => Busy(req[s])
    BY <1>0
  <2> QED
    BY <2>1 DEF IInv, OneAtATime, Busy
<1>4. CacheInv'
  <2> SUFFICES ASSUME NEW i \in Instances, NEW p \in People,
                      cache'[i][p] # None, cache'[i][p].active
               PROVE  cache'[i][p].at <= lastActive'[p] + Patience
    BY DEF CacheInv
  <2>1. PICK e \in Standing : e = cache'[i][p] /\ e = cache[i][p]
    BY <1>0
  <2>2. e.at \in Nat /\ e.at <= lastActive[p] + Patience /\ lastActive[p] <= lastActive'[p]
    BY <2>1 DEF IInv, CacheInv, Standing
  <2> QED
    BY <1>0, <2>1, <2>2
<1>5. TypeOK' /\ SuspensionBites'
  BY <1>2 DEF IInv, TypeOK, SuspensionBites
<1> QED
  BY <1>2, <1>3, <1>4, <1>5 DEF IInv

\* The code of p is replaced, by a fresh one or by a copy that is spent.
LEMMA CodeWritten ==
    ASSUME NEW origin \in [People -> Emails], IInv(origin), NEW r \in Requests, Busy(req[r]),
           NEW q \in Request, req' = [req EXCEPT ![r] = q], NEW p \in People, NEW c \in Code,
           codes' = [codes EXCEPT ![p] = c], GoodCode(p, c, origin),
           UNCHANGED <<accounts, links, cache, now, calls, alone, seen>>,
           sent' \in [People -> [codes : 0..MaxCodes, links : 0..MaxLinks]],
           \A o \in People : sent'[o].links = sent[o].links,
           HeldReq(q), q.link = None, q.step # "standing", GoodReq(q, origin)
    PROVE  IInv(origin)'
<1>1. UNCHANGED <<proven, corrected, resets, lastActive, latest>>
  BY DEF seen
<1>2. codes \in [People -> Code \cup {None}] /\ codes'[p] = c
      /\ \A o \in People \ {p} : codes'[o] = codes[o]
  BY DEF IInv, TypeOK
<1>3. ASSUME NEW o \in People PROVE RowInv(o, origin)'
  <2>1. RowInv(o, origin)
    BY DEF IInv
  <2>2. LinkRow(o)'
    BY <1>1, <2>1 DEF RowInv, LinkRow
  <2>3. GoodCode(o, codes[o], origin)'
    BY <1>1, <1>2, <2>1 DEF RowInv, GoodCode
  <2>4. GoodRow(o, accounts[o], origin)'
    BY <1>1, <2>1 DEF RowInv, GoodRow
  <2> QED
    BY <1>1, <2>1, <2>2, <2>3, <2>4 DEF RowInv, Active
<1>4. ReqInv(q, origin)'
  BY <1>1 DEF ReqInv, HeldReq, SeenReq, LinkReq, GoodReq, GoodRow, GoodCode
<1>5. /\ accounts' \in [People -> Account \cup {None}] /\ codes' \in [People -> Code \cup {None}]
      /\ links' \in [People -> Link \cup {None}]
      /\ cache' \in [Instances -> [People -> Standing \cup {None}]]
      /\ resets' \in [People -> [1..MaxLinks -> Nat]] /\ lastActive' \in [People -> Nat]
      /\ \A o \in People : lastActive[o] <= lastActive'[o]
  BY <1>1, <1>2 DEF IInv, TypeOK
<1> QED
  BY <1>1, <1>3, <1>4, <1>5, Writes

LEMMA LinkWritten ==
    ASSUME NEW origin \in [People -> Emails], IInv(origin), NEW r \in Requests, Busy(req[r]),
           NEW q \in Request, req' = [req EXCEPT ![r] = q], NEW p \in People, NEW l \in Link,
           links' = [links EXCEPT ![p] = l], LinkRow(p)',
           UNCHANGED <<accounts, codes, cache, now, calls, alone, seen>>,
           sent' \in [People -> [codes : 0..MaxCodes, links : 0..MaxLinks]],
           \A o \in People \ {p} : sent'[o] = sent[o],
           HeldReq(q), LinkReq(q)', q.step # "standing", GoodReq(q, origin)
    PROVE  IInv(origin)'
<1>1. UNCHANGED <<proven, corrected, resets, lastActive, latest>>
  BY DEF seen
<1>2. links \in [People -> Link \cup {None}] /\ \A o \in People \ {p} : links'[o] = links[o]
  BY DEF IInv, TypeOK
<1>3. ASSUME NEW o \in People PROVE RowInv(o, origin)'
  <2>1. RowInv(o, origin)
    BY DEF IInv
  <2>2. LinkRow(o)'
    <3>1. CASE o # p
      <4>1. LinkRow(o)
        BY <2>1 DEF RowInv
      <4> QED
        BY <1>1, <1>2, <3>1, <4>1 DEF LinkRow
    <3> QED
      BY <3>1
  <2>3. GoodCode(o, codes[o], origin)' /\ GoodRow(o, accounts[o], origin)'
    BY <1>1, <2>1 DEF RowInv, GoodCode, GoodRow
  <2> QED
    BY <1>1, <2>1, <2>2, <2>3 DEF RowInv, Active
<1>4. ReqInv(q, origin)'
  BY <1>1 DEF ReqInv, HeldReq, SeenReq, GoodReq, GoodRow, GoodCode
<1>5. /\ accounts' \in [People -> Account \cup {None}] /\ codes' \in [People -> Code \cup {None}]
      /\ links' \in [People -> Link \cup {None}]
      /\ cache' \in [Instances -> [People -> Standing \cup {None}]]
      /\ resets' \in [People -> [1..MaxLinks -> Nat]] /\ lastActive' \in [People -> Nat]
      /\ \A o \in People : lastActive[o] <= lastActive'[o]
  BY <1>1, <1>2 DEF IInv, TypeOK
<1> QED
  BY <1>1, <1>3, <1>4, <1>5, Writes

\* The row of p becomes a copy that is good; a request that holds a link uses it up.
LEMMA RowWritten ==
    ASSUME NEW origin \in [People -> Emails], IInv(origin), NEW r \in Requests, Busy(req[r]),
           NEW q \in Request, req' = [req EXCEPT ![r] = q],
           NEW p \in People, NEW row \in Account, SaveAccount(p, row), GoodRow(p, row, origin),
           UNCHANGED <<codes, links, now, calls, alone, sent, proven, corrected, latest>>,
           cache' \in [Instances -> [People -> Standing \cup {None}]],
           \A i \in Instances, o \in People : cache'[i][o] \in {cache[i][o], None},
           resets' \in [People -> [1..MaxLinks -> Nat]], \A o \in People : LinkRow(o)',
           HeldReq(q), q.link = None, q.step # "standing", GoodReq(q, origin)
    PROVE  IInv(origin)'
<1>1. /\ accounts' = [accounts EXCEPT ![p] = row]
      /\ lastActive' = IF Active(row) THEN [lastActive EXCEPT ![p] = now] ELSE lastActive
  BY DEF SaveAccount
<1>2. /\ accounts \in [People -> Account \cup {None}] /\ lastActive \in [People -> Nat]
      /\ now \in Nat /\ \A o \in People : lastActive[o] <= now
  BY DEF IInv, TypeOK, RowInv
<1>3. /\ accounts' \in [People -> Account \cup {None}] /\ accounts'[p] = row
      /\ \A o \in People \ {p} : accounts'[o] = accounts[o] /\ lastActive'[o] = lastActive[o]
      /\ lastActive' \in [People -> Nat] /\ \A o \in People : lastActive[o] <= lastActive'[o]
      /\ lastActive'[p] <= now /\ (Active(row) => lastActive'[p] = now)
  BY <1>1, <1>2
<1>4. ASSUME NEW o \in People PROVE RowInv(o, origin)'
  <2>1. RowInv(o, origin)
    BY DEF IInv
  <2>2. GoodCode(o, codes[o], origin)'
    BY <2>1 DEF RowInv, GoodCode
  <2>3. GoodRow(o, accounts[o], origin)'
    BY <1>3, <2>1 DEF RowInv, GoodRow
  <2>4. lastActive'[o] <= now' /\ (Active(accounts'[o]) => lastActive'[o] = now')
    <3>1. CASE o = p
      BY <1>3, <3>1
    <3>2. CASE o # p
      BY <1>3, <2>1, <3>2 DEF RowInv
    <3> QED
      BY <3>1, <3>2
  <2> QED
    BY <2>2, <2>3, <2>4 DEF RowInv, Active
<1>5. ReqInv(q, origin)'
  BY DEF ReqInv, HeldReq, SeenReq, LinkReq, GoodReq, GoodRow, GoodCode
<1>6. /\ codes' \in [People -> Code \cup {None}] /\ links' \in [People -> Link \cup {None}]
      /\ sent' \in [People -> [codes : 0..MaxCodes, links : 0..MaxLinks]]
  BY DEF IInv, TypeOK
<1> QED
  BY <1>3, <1>4, <1>5, <1>6, Writes

--------------------------------------------------------------------------------
LEMMA ReissueKeeps ==
    ASSUME NEW origin \in [People -> Emails], IInv(origin), NEW r \in Requests,
           dispatchVerificationEmail(r) \/ ChangeSave(r)
    PROVE  IInv(origin)'
<1>1. req[r].step \in {"send", "change.lookup"} /\ Busy(req[r])
  BY DEF dispatchVerificationEmail, ChangeSave, Busy
<1>2. /\ req[r] \in Request /\ ReqInv(req[r], origin) /\ req[r] # Idle /\ req[r].who \in People
  BY <1>1, AtWork
<1>3. PICK p \in People, to \in Emails, newEmail \in Emails \cup {None} :
        /\ p = req[r].who /\ reissue(p, to, newEmail)
        /\ newEmail # None => to = newEmail
        /\ newEmail = None /\ p \notin corrected => to = origin[p]
  <2>1. CASE dispatchVerificationEmail(r)
    <3>1. req[r].step = "send" /\ reissue(req[r].who, req[r].account.email, None)
      BY <2>1 DEF dispatchVerificationEmail
    <3>2. req[r].account \in Account /\ ~req[r].account.verified /\ req[r].account # None
          /\ GoodRow(req[r].who, req[r].account, origin)
      BY <1>2, <3>1, AtWork DEF ReqInv, HeldReq, GoodReq
    <3>3. req[r].account.email \in Emails
      BY <3>2 DEF Account
    <3> QED
      BY <1>2, <3>1, <3>2, <3>3 DEF GoodRow
  <2>2. CASE ChangeSave(r)
    <3>1. req[r].step = "change.lookup" /\ reissue(req[r].who, req[r].email, req[r].email)
      BY <2>2 DEF ChangeSave
    <3>2. req[r].email \in Emails /\ req[r].email # None
      BY <1>2, <3>1 DEF ReqInv, HeldReq, Request
    <3> QED
      BY <1>2, <3>1, <3>2
  <2> QED
    BY <2>1, <2>2
<1>4. /\ sent' = [sent EXCEPT ![p].codes = @ + 1] /\ sent[p].codes < MaxCodes
      /\ sent \in [People -> [codes : 0..MaxCodes, links : 0..MaxLinks]]
      /\ MaxCodes \in Nat /\ MaxLinks \in Nat
  BY <1>3, AccountConstants DEF reissue, IInv, TypeOK
<1>5. /\ sent' \in [People -> [codes : 0..MaxCodes, links : 0..MaxLinks]]
      /\ \A o \in People : sent'[o].links = sent[o].links
      /\ sent'[p].codes \in 1..MaxCodes
  <2>1. PICK n \in [codes : 0..MaxCodes, links : 0..MaxLinks] :
           n.codes = sent[p].codes + 1 /\ n.links = sent[p].links /\ sent' = [sent EXCEPT ![p] = n]
    <3>1. PICK n : n = [sent[p] EXCEPT !.codes = @ + 1]
      OBVIOUS
    <3>2. sent[p] \in [codes : 0..MaxCodes, links : 0..MaxLinks]
      BY <1>4
    <3>3. n \in [codes : 0..MaxCodes, links : 0..MaxLinks]
          /\ n.codes = sent[p].codes + 1 /\ n.links = sent[p].links
      BY <1>4, <3>1, <3>2
    <3> QED
      BY <1>4, <3>1, <3>3
  <2> QED
    BY <1>4, <2>1
<1>6. PICK c \in Code : /\ codes' = [codes EXCEPT ![p] = c]
                        /\ c.sentTo = to /\ c.newEmail = newEmail
  <2>1. PICK c : c = [number |-> sent'[p].codes, sentTo |-> to, newEmail |-> newEmail,
                      usable |-> TRUE]
    OBVIOUS
  <2>2. c \in Code /\ c.sentTo = to /\ c.newEmail = newEmail
    BY <1>5, <2>1 DEF Code
  <2>3. codes' = [codes EXCEPT ![p] = c]
    BY <1>3, <2>1 DEF reissue
  <2> QED
    BY <2>2, <2>3
<1>7. GoodCode(p, c, origin)
  BY <1>3, <1>6 DEF GoodCode
<1>8. /\ req' = [req EXCEPT ![r] = Idle]
      /\ UNCHANGED <<accounts, links, cache, now, calls, alone, seen>>
  BY DEF dispatchVerificationEmail, ChangeSave, Finish
<1>9. Idle \in Request /\ HeldReq(Idle) /\ Idle.link = None /\ Idle.step # "standing"
      /\ GoodReq(Idle, origin)
  BY IdleIsFine DEF ReqInv
<1> QED
  BY <1>1, <1>5, <1>6, <1>7, <1>8, <1>9, CodeWritten

LEMMA ConsumeKeeps ==
    ASSUME NEW origin \in [People -> Emails], IInv(origin), NEW r \in Requests,
           VerifyConsume(r) \/ ConfirmConsume(r)
    PROVE  IInv(origin)'
<1>1. /\ req[r].step \in {"verify.consume", "confirm.consume"} /\ Busy(req[r])
      /\ codes' = [codes EXCEPT ![req[r].who] = req[r].code]
      /\ UNCHANGED <<accounts, links, cache, now, calls, alone, seen, sent>>
  BY DEF VerifyConsume, ConfirmConsume, Busy, history
<1>2. /\ req[r] \in Request /\ ReqInv(req[r], origin) /\ req[r] # Idle /\ req[r].who \in People
  BY <1>1, AtWork
<1>3. req[r].code \in Code /\ GoodCode(req[r].who, req[r].code, origin) /\ req[r].link = None
  BY <1>1, <1>2, AtWork DEF ReqInv, HeldReq, GoodReq
<1>4. /\ sent' \in [People -> [codes : 0..MaxCodes, links : 0..MaxLinks]]
      /\ \A o \in People : sent'[o].links = sent[o].links
  BY <1>1 DEF IInv, TypeOK
<1>5. CASE VerifyConsume(r)
  <2>1. req[r].step = "verify.consume"
    BY <1>5 DEF VerifyConsume
  <2>2. /\ req[r].account \in Account
        /\ req[r].who \in corrected \/ <<req[r].who, origin[req[r].who]>> \in proven
        /\ req[r].who \notin corrected => req[r].account.email = origin[req[r].who]
    BY <1>2, <2>1, AtWork DEF ReqInv, HeldReq, GoodReq, GoodRow
  <2>3. PICK row : row = [req[r].account EXCEPT !.verified = TRUE]
    OBVIOUS
  <2>4. row \in Account /\ row.verified = TRUE /\ row.email = req[r].account.email /\ row # None
    BY <2>2, <2>3, AccountConstants DEF Account
  <2>5. PICK q : q = [req[r] EXCEPT !.step = "save", !.account = row, !.code = None]
    OBVIOUS
  <2>6. /\ q \in Request /\ q.step = "save" /\ q.who = req[r].who /\ q.account = row
        /\ q.link = None /\ q.at = req[r].at /\ q.code = None
    BY <1>2, <1>3, <2>4, <2>5 DEF Request, Steps
  <2>7. req' = [req EXCEPT ![r] = q]
    BY <1>2, <1>5, <2>3, <2>5 DEF VerifyConsume, Holds, Request
  <2>8. HeldReq(q) /\ q.step # "standing"
    BY <1>2, <2>1, <2>4, <2>6 DEF ReqInv, HeldReq
  <2>9. GoodReq(q, origin)
    BY <2>2, <2>4, <2>6 DEF GoodReq, GoodRow, GoodCode
  <2> QED
    BY <1>1, <1>2, <1>3, <1>4, <2>6, <2>7, <2>8, <2>9, CodeWritten
<1>6. CASE ConfirmConsume(r)
  <2>1. req' = [req EXCEPT ![r] = Idle]
    BY <1>6 DEF ConfirmConsume, Finish
  <2>2. Idle \in Request /\ HeldReq(Idle) /\ Idle.link = None /\ Idle.step # "standing"
        /\ GoodReq(Idle, origin)
    BY IdleIsFine DEF ReqInv
  <2> QED
    BY <1>1, <1>2, <1>3, <1>4, <2>1, <2>2, CodeWritten
<1> QED
  BY <1>5, <1>6

LEMMA LinkSaveKeeps ==
    ASSUME NEW origin \in [People -> Emails], IInv(origin), NEW r \in Requests, LinkSave(r)
    PROVE  IInv(origin)'
<1>0. PICK p : p = req[r].who
  OBVIOUS
<1>1. /\ req[r].step = "link" /\ Busy(req[r]) /\ sent[p].links < MaxLinks
      /\ sent' = [sent EXCEPT ![p] = [sent[p] EXCEPT !.links = @ + 1]]
      /\ links' = [links EXCEPT ![p] = [number |-> sent'[p].links, usable |-> TRUE]]
      /\ req' = [req EXCEPT ![r] = Idle]
      /\ UNCHANGED <<accounts, codes, cache, now, calls, alone, seen>>
  BY <1>0 DEF LinkSave, Busy, Finish
<1>2. p \in People /\ RowInv(p, origin)
  BY <1>0, <1>1, AtWork
<1>3. /\ sent \in [People -> [codes : 0..MaxCodes, links : 0..MaxLinks]]
      /\ links \in [People -> Link \cup {None}]
      /\ MaxCodes \in Nat /\ MaxLinks \in Nat
  BY AccountConstants DEF IInv, TypeOK
<1>4. PICK n : n = [sent[p] EXCEPT !.links = @ + 1]
  OBVIOUS
<1>5. sent[p] \in [codes : 0..MaxCodes, links : 0..MaxLinks]
  BY <1>2, <1>3
<1>6. n \in [codes : 0..MaxCodes, links : 0..MaxLinks] /\ n.links = sent[p].links + 1
  BY <1>1, <1>3, <1>4, <1>5
<1>7. /\ sent' \in [People -> [codes : 0..MaxCodes, links : 0..MaxLinks]]
      /\ sent'[p] = n /\ \A o \in People \ {p} : sent'[o] = sent[o]
  BY <1>1, <1>2, <1>3, <1>4, <1>6
<1>8. PICK l : l = [number |-> n.links, usable |-> TRUE]
  OBVIOUS
<1>9. l \in Link /\ l.number = n.links /\ links' = [links EXCEPT ![p] = l]
  BY <1>1, <1>3, <1>5, <1>6, <1>7, <1>8 DEF Link
<1>10. LinkRow(p)'
  <2>1. resets' = resets /\ links'[p] = l
    BY <1>1, <1>2, <1>3, <1>9 DEF seen
  <2>2. sent[p].links \in Nat
    BY <1>5
  <2>3. alone => /\ \A m \in 1..MaxLinks : /\ resets[p][m] <= 1
                                           /\ m > sent[p].links => resets[p][m] = 0
    BY <1>2 DEF RowInv, LinkRow
  <2>4. \A m \in 1..MaxLinks : m > n.links => m > sent[p].links
    BY <1>6, <2>2
  <2>5. n.links \in 1..MaxLinks /\ n.links > sent[p].links
    BY <1>1, <1>3, <1>6, <2>2
  <2> QED
    BY <1>1, <1>7, <1>9, <2>1, <2>3, <2>4, <2>5 DEF LinkRow
<1>11. Idle \in Request /\ HeldReq(Idle) /\ LinkReq(Idle)' /\ Idle.step # "standing"
       /\ GoodReq(Idle, origin)
  BY IdleIsFine DEF ReqInv, LinkReq
<1> QED
  BY <1>1, <1>2, <1>7, <1>9, <1>10, <1>11, LinkWritten

LEMMA ResetConsumeKeeps ==
    ASSUME NEW origin \in [People -> Emails], IInv(origin), NEW r \in Requests, ResetConsume(r)
    PROVE  IInv(origin)'
<1>0. PICK p, l : p = req[r].who /\ l = req[r].link
  OBVIOUS
<1>1. /\ req[r].step = "reset.consume" /\ Busy(req[r])
      /\ links' = [links EXCEPT ![p] = l]
      /\ req' = [req EXCEPT ![r] = [req[r] EXCEPT !.step = "reset.load"]]
      /\ UNCHANGED <<accounts, codes, cache, now, calls, alone, seen, sent>>
  BY <1>0 DEF ResetConsume, Busy, history, IInv, TypeOK
<1>2. /\ req[r] \in Request /\ ReqInv(req[r], origin) /\ req[r] # Idle /\ p \in People
      /\ RowInv(p, origin)
  BY <1>0, <1>1, AtWork
<1>3. l \in Link /\ ~l.usable /\ l # None
  BY <1>0, <1>1, <1>2, AtWork DEF ReqInv, HeldReq
<1>4. PICK q : q = [req[r] EXCEPT !.step = "reset.load"]
  OBVIOUS
<1>5. /\ q \in Request /\ q.step = "reset.load" /\ q.who = p /\ q.account = req[r].account
      /\ q.link = l /\ q.at = req[r].at /\ q.code = req[r].code
  BY <1>0, <1>2, <1>4 DEF Request, Steps
<1>6. links'[p] = l /\ resets' = resets
  BY <1>1, <1>2 DEF IInv, TypeOK, seen
<1>7. alone => l.number <= sent[p].links /\ resets[p][l.number] = 0
  BY <1>0, <1>2, <1>3 DEF ReqInv, LinkReq
<1>8. LinkRow(p)'
  BY <1>1, <1>2, <1>3, <1>6, <1>7 DEF RowInv, LinkRow
<1>9. LinkReq(q)'
  BY <1>1, <1>3, <1>5, <1>6, <1>7 DEF LinkReq
<1>10. HeldReq(q) /\ q.step # "standing"
  BY <1>1, <1>2, <1>3, <1>5 DEF ReqInv, HeldReq
<1>11. GoodReq(q, origin)
  BY <1>0, <1>1, <1>2, <1>5 DEF ReqInv, GoodReq
<1>12. /\ sent' \in [People -> [codes : 0..MaxCodes, links : 0..MaxLinks]]
       /\ \A o \in People \ {p} : sent'[o] = sent[o]
  BY <1>1 DEF IInv, TypeOK
<1> QED
  BY <1>1, <1>2, <1>3, <1>4, <1>5, <1>8, <1>9, <1>10, <1>11, <1>12, LinkWritten

LEMMA SaveKeeps ==
    ASSUME NEW origin \in [People -> Emails], IInv(origin), NEW r \in Requests,
           Save(r) \/ ConfirmSave(r) \/ StatusSave(r)
    PROVE  IInv(origin)'
<1>0. PICK p, row : p = req[r].who /\ row = req[r].account
  OBVIOUS
<1>1. /\ req[r].step \in {"save", "confirm.save", "status.save"} /\ Busy(req[r])
      /\ SaveAccount(p, row)
      /\ UNCHANGED <<codes, links, now, calls, alone, sent, proven, corrected, latest>>
  BY <1>0 DEF Save, ConfirmSave, StatusSave, Busy
<1>2. /\ req[r] \in Request /\ ReqInv(req[r], origin) /\ req[r] # Idle /\ p \in People
      /\ RowInv(p, origin)
  BY <1>0, <1>1, AtWork
<1>3. row \in Account /\ row # None /\ GoodRow(p, row, origin)
  BY <1>0, <1>1, <1>2, AtWork DEF ReqInv, HeldReq, GoodReq
<1>4. /\ resets \in [People -> [1..MaxLinks -> Nat]]
      /\ cache \in [Instances -> [People -> Standing \cup {None}]]
      /\ links \in [People -> Link \cup {None}]
      /\ sent \in [People -> [codes : 0..MaxCodes, links : 0..MaxLinks]]
      /\ \A o \in People : LinkRow(o)
  BY DEF IInv, TypeOK, RowInv
<1>5. Idle \in Request /\ HeldReq(Idle) /\ Idle.link = None /\ Idle.step # "standing"
      /\ GoodReq(Idle, origin)
  BY IdleIsFine DEF ReqInv
<1>6. CASE Save(r)
  <2>1. /\ req' = [req EXCEPT ![r] = Idle] /\ cache' = cache /\ req[r].step = "save"
        /\ resets' = IF req[r].link = None THEN resets
                     ELSE [resets EXCEPT ![p] = [resets[p] EXCEPT ![req[r].link.number] = @ + 1]]
    BY <1>0, <1>6 DEF Save, Finish
  <2>2. CASE req[r].link = None
    <3>1. \A o \in People : LinkRow(o)'
      BY <1>1, <1>4, <2>1, <2>2 DEF LinkRow
    <3> QED
      BY <1>1, <1>2, <1>3, <1>4, <1>5, <2>1, <2>2, <3>1, RowWritten
  <2>3. CASE req[r].link # None
    <3>1. PICK n \in 1..MaxLinks : n = req[r].link.number
      BY <1>1, <2>3, AtWork DEF Link
    <3>2. PICK f : f = [resets[p] EXCEPT ![n] = resets[p][n] + 1]
      OBVIOUS
    <3>3. /\ resets[p] \in [1..MaxLinks -> Nat] /\ f \in [1..MaxLinks -> Nat]
          /\ f[n] = resets[p][n] + 1 /\ \A m \in 1..MaxLinks \ {n} : f[m] = resets[p][m]
      <4>1. PICK g \in [1..MaxLinks -> Nat] : g = resets[p]
        BY <1>2, <1>4
      <4>0. g[n] \in Nat
        OBVIOUS
      <4>4. f = [g EXCEPT ![n] = g[n] + 1]
        BY <3>2, <4>1
      <4>2. f = [g EXCEPT ![n] = g[n] + 1] /\ g[n] + 1 \in Nat
        BY <4>0, <4>4
      <4>3. /\ f \in [1..MaxLinks -> Nat] /\ f[n] = g[n] + 1
            /\ \A m \in 1..MaxLinks : m # n => f[m] = g[m]
        BY <4>2
      <4> QED
        BY <4>1, <4>3
    <3>4. resets' = [resets EXCEPT ![p] = f]
      BY <2>1, <2>3, <3>1, <3>2
    <3>5. /\ resets' \in [People -> [1..MaxLinks -> Nat]] /\ resets'[p] = f
          /\ \A o \in People \ {p} : resets'[o] = resets[o]
      BY <1>2, <1>4, <3>3, <3>4
    <3>6. alone => /\ resets[p][n] = 0 /\ n <= sent[p].links
                   /\ links[p] # None /\ links[p].usable => links[p].number # n
      BY <1>0, <1>2, <2>1, <2>3, <3>1 DEF ReqInv, LinkReq
    <3>7. sent[p].links \in Nat /\ (links[p] # None => links[p].number \in 1..MaxLinks)
      BY <1>2, <1>4 DEF Link
    <3>8. LinkRow(p)'
      <4> SUFFICES ASSUME alone PROVE LinkRow(p)'
        BY <1>1 DEF LinkRow
      <4>1. ASSUME NEW m \in 1..MaxLinks PROVE f[m] <= 1 /\ (m > sent[p].links => f[m] = 0)
        <5>1. resets[p][m] <= 1 /\ (m > sent[p].links => resets[p][m] = 0)
          BY <1>2, <1>4 DEF LinkRow
        <5>2. CASE m = n
          BY <3>3, <3>6, <3>7, <5>2
        <5>3. CASE m # n
          BY <3>3, <5>1, <5>3
        <5> QED
          BY <5>2, <5>3
      <4>2. links[p] # None => /\ links[p].number <= sent[p].links
                               /\ links[p].usable => f[links[p].number] = 0
        <5>1. links[p] # None => /\ links[p].number <= sent[p].links
                                 /\ links[p].usable => resets[p][links[p].number] = 0
          BY <1>2, <1>4 DEF LinkRow
        <5> QED
          BY <3>3, <3>6, <3>7, <5>1
      <4> QED
        BY <1>1, <3>5, <4>1, <4>2 DEF LinkRow
    <3>9. ASSUME NEW o \in People PROVE LinkRow(o)'
      <4>1. CASE o # p
        <5>1. LinkRow(o) /\ resets'[o] = resets[o]
          BY <1>4, <3>5, <4>1
        <5> QED
          BY <1>1, <5>1 DEF LinkRow
      <4> QED
        BY <3>8, <4>1
    <3> QED
      BY <1>1, <1>2, <1>3, <1>4, <1>5, <2>1, <3>5, <3>9, RowWritten
  <2> QED
    BY <2>2, <2>3
<1>7. CASE ConfirmSave(r)
  <2>1. /\ req' = [req EXCEPT ![r] = [req[r] EXCEPT !.step = "confirm.consume", !.account = None]]
        /\ cache' = cache /\ resets' = resets /\ req[r].step = "confirm.save"
    BY <1>7 DEF ConfirmSave, Holds
  <2>2. PICK q : q = [req[r] EXCEPT !.step = "confirm.consume", !.account = None]
    OBVIOUS
  <2>3. /\ q \in Request /\ q.step = "confirm.consume" /\ q.who = p /\ q.account = None
        /\ q.link = req[r].link /\ q.at = req[r].at /\ q.code = req[r].code
    BY <1>0, <1>2, <2>2 DEF Request, Steps
  <2>4. HeldReq(q) /\ q.link = None
    BY <1>2, <2>1, <2>3 DEF ReqInv, HeldReq
  <2>5. GoodReq(q, origin)
    BY <1>0, <1>2, <2>3 DEF ReqInv, GoodReq, GoodRow
  <2>6. \A o \in People : LinkRow(o)'
    BY <1>1, <1>4, <2>1 DEF LinkRow
  <2> QED
    BY <1>1, <1>2, <1>3, <1>4, <2>1, <2>2, <2>3, <2>4, <2>5, <2>6, RowWritten
<1>8. CASE StatusSave(r)
  <2>1. /\ req' = [req EXCEPT ![r] = Idle] /\ resets' = resets /\ req[r].step = "status.save"
        /\ cache' = [cache EXCEPT ![req[r].instance] = [cache[req[r].instance] EXCEPT ![p] = None]]
    BY <1>0, <1>8 DEF StatusSave, Finish, forget
  <2>2. req[r].instance \in Instances
    BY <1>2, <2>1 DEF ReqInv, HeldReq
  <2>3. /\ cache' \in [Instances -> [People -> Standing \cup {None}]]
        /\ \A i \in Instances, o \in People : cache'[i][o] \in {cache[i][o], None}
    BY <1>2, <1>4, <2>1, <2>2
  <2>4. \A o \in People : LinkRow(o)'
    BY <1>1, <1>4, <2>1 DEF LinkRow
  <2> QED
    BY <1>1, <1>2, <1>3, <1>4, <1>5, <2>1, <2>3, <2>4, RowWritten
<1> QED
  BY <1>6, <1>7, <1>8

\* Codes and links expire, an account goes with all that belongs to it.
LEMMA RowsFade ==
    ASSUME NEW origin \in [People -> Emails], IInv(origin), NEW p \in People,
           Expire(p) \/ \E i \in Instances : delete(p, i)
    PROVE  IInv(origin)'
<1>1. UNCHANGED <<req, now, calls, alone, sent, proven, corrected, resets, lastActive, latest>>
  BY DEF Expire, delete, history, seen
<1>2. /\ accounts \in [People -> Account \cup {None}] /\ codes \in [People -> Code \cup {None}]
      /\ links \in [People -> Link \cup {None}]
      /\ cache \in [Instances -> [People -> Standing \cup {None}]]
  BY DEF IInv, TypeOK
<1>3. /\ accounts' \in [People -> Account \cup {None}]
      /\ codes' \in [People -> Code \cup {None}]
      /\ links' \in [People -> Link \cup {None}]
      /\ cache' \in [Instances -> [People -> Standing \cup {None}]]
      /\ \A i \in Instances, o \in People : cache'[i][o] \in {cache[i][o], None}
      /\ \A o \in People :
            /\ accounts'[o] \in {accounts[o], None}
            /\ \/ codes'[o] \in {codes[o], None}
               \/ /\ codes[o] # None /\ codes'[o] # None
                  /\ codes'[o].sentTo = codes[o].sentTo /\ codes'[o].newEmail = codes[o].newEmail
            /\ \/ links'[o] \in {links[o], None}
               \/ /\ links[o] # None /\ ~links'[o].usable
                  /\ links'[o].number = links[o].number
  <2>1. CASE Expire(p)
    <3>1. CASE /\ codes[p] # None /\ codes' = [codes EXCEPT ![p].usable = FALSE]
               /\ UNCHANGED <<accounts, links, cache>>
      <4>1. PICK c : c = [codes[p] EXCEPT !.usable = FALSE]
        OBVIOUS
      <4>2. c \in Code /\ c.sentTo = codes[p].sentTo /\ c.newEmail = codes[p].newEmail /\ c # None
        <5>1. codes[p] \in Code
          BY <1>2, <3>1
        <5> QED
          BY <4>1, <5>1, AccountConstants DEF Code
      <4>3. codes' = [codes EXCEPT ![p] = c]
        BY <3>1, <4>1
      <4> QED
        BY <1>2, <3>1, <4>2, <4>3
    <3>2. CASE /\ links[p] # None /\ links' = [links EXCEPT ![p].usable = FALSE]
               /\ UNCHANGED <<accounts, codes, cache>>
      <4>1. PICK l : l = [links[p] EXCEPT !.usable = FALSE]
        OBVIOUS
      <4>2. l \in Link /\ ~l.usable /\ l.number = links[p].number
        <5>1. links[p] \in Link
          BY <1>2, <3>2
        <5> QED
          BY <4>1, <5>1 DEF Link
      <4>3. links' = [links EXCEPT ![p] = l]
        BY <3>2, <4>1
      <4> QED
        BY <1>2, <3>2, <4>2, <4>3
    <3> QED
      BY <2>1, <3>1, <3>2 DEF Expire
  <2>2. ASSUME NEW i \in Instances, delete(p, i)
        PROVE  /\ accounts' = [accounts EXCEPT ![p] = None]
               /\ codes' = [codes EXCEPT ![p] = None] /\ links' = [links EXCEPT ![p] = None]
               /\ cache' = [cache EXCEPT ![i] = [cache[i] EXCEPT ![p] = None]]
    BY <2>2 DEF delete, forget
  <2>3. CASE \E i \in Instances : delete(p, i)
    <3>1. PICK i \in Instances :
             /\ accounts' = [accounts EXCEPT ![p] = None]
             /\ codes' = [codes EXCEPT ![p] = None] /\ links' = [links EXCEPT ![p] = None]
             /\ cache' = [cache EXCEPT ![i] = [cache[i] EXCEPT ![p] = None]]
      BY <2>2, <2>3
    <3>2. /\ cache' \in [Instances -> [People -> Standing \cup {None}]]
          /\ \A j \in Instances, o \in People : cache'[j][o] \in {cache[j][o], None}
      BY <1>2, <3>1
    <3>3. /\ accounts' \in [People -> Account \cup {None}]
          /\ codes' \in [People -> Code \cup {None}]
          /\ links' \in [People -> Link \cup {None}]
          /\ \A o \in People : /\ accounts'[o] \in {accounts[o], None}
                               /\ codes'[o] \in {codes[o], None}
                               /\ links'[o] \in {links[o], None}
      BY <1>2, <3>1
    <3> QED
      BY <3>2, <3>3
  <2> QED
    BY <2>1, <2>3
<1>4. ASSUME NEW o \in People PROVE RowInv(o, origin)'
  <2>1. RowInv(o, origin)
    BY DEF IInv
  <2>2. LinkRow(o)'
    BY <1>1, <1>3, <2>1 DEF RowInv, LinkRow
  <2>3. GoodRow(o, accounts[o], origin)' /\ GoodCode(o, codes[o], origin)'
    BY <1>1, <1>3, <2>1 DEF RowInv, GoodRow, GoodCode
  <2> QED
    BY <1>1, <1>3, <2>1, <2>2, <2>3 DEF RowInv, Active
<1>5. ASSUME NEW s \in Requests PROVE ReqInv(req[s], origin)'
  <2>1. PICK q \in Request : q = req[s] /\ q = req'[s] /\ ReqInv(q, origin)
    BY <1>1 DEF IInv, TypeOK
  <2>2. LinkReq(q)'
    <3>1. q.link # None => q.who \in People
      BY <2>1, IdleIsFine DEF ReqInv, HeldReq
    <3> QED
      BY <1>1, <1>3, <2>1, <3>1 DEF ReqInv, LinkReq
  <2>3. HeldReq(q)' /\ SeenReq(q)' /\ GoodReq(q, origin)'
    BY <1>1, <2>1 DEF ReqInv, HeldReq, SeenReq, GoodReq, GoodRow, GoodCode
  <2> QED
    BY <2>1, <2>2, <2>3 DEF ReqInv
<1>6. CacheInv'
  BY <1>1, <1>3 DEF IInv, CacheInv
<1>7. TypeOK' /\ OneAtATime' /\ SuspensionBites'
  BY <1>1, <1>3 DEF IInv, TypeOK, OneAtATime, Busy, SuspensionBites
<1> QED
  BY <1>4, <1>5, <1>6, <1>7 DEF IInv

LEMMA CacheKeeps ==
    ASSUME NEW origin \in [People -> Emails], IInv(origin),
           \/ \E r \in Requests : CacheFill(r)
           \/ \E i \in Instances, p \in People : CacheHit(i, p)
    PROVE  IInv(origin)'
<1>0. TTL \in Nat \ {0} /\ Patience \in Nat
  BY AccountConstants
<1>1. ASSUME NEW i \in Instances, NEW p \in People, CacheHit(i, p) PROVE IInv(origin)'
  <2>1. /\ UNCHANGED <<tables, cache, req, now, calls, alone, sent, proven, corrected, resets,
                       lastActive>>
        /\ cache[i][p] # None /\ now < cache[i][p].at + TTL
        /\ Admits(p, cache[i][p].active)
    BY <1>1 DEF CacheHit, Fresh
  <2>2. latest' \in Nat /\ latest' < TTL + Patience
    <3>1. PICK e \in Standing : e = cache[i][p]
      BY <2>1 DEF IInv, TypeOK
    <3>2. /\ e.at \in Nat /\ now \in Nat /\ lastActive[p] \in Nat /\ lastActive[p] <= now
          /\ latest \in Nat /\ latest < TTL + Patience
          /\ e.active => e.at <= lastActive[p] + Patience
      BY <2>1, <3>1 DEF IInv, TypeOK, RowInv, CacheInv, Standing, SuspensionBites
    <3>3. latest' = IF e.active /\ now - lastActive[p] > latest THEN now - lastActive[p] ELSE latest
      BY <2>1, <3>1 DEF Admits
    <3> QED
      BY <1>0, <2>1, <3>1, <3>2, <3>3
  <2>3. ASSUME NEW o \in People PROVE RowInv(o, origin)'
    BY <2>1, RowsKept
  <2>4. ASSUME NEW s \in Requests PROVE ReqInv(req[s], origin)'
    BY <2>1 DEF IInv, ReqInv, HeldReq, SeenReq, LinkReq, GoodReq, GoodRow, GoodCode, tables
  <2>5. TypeOK' /\ CacheInv' /\ OneAtATime'
    BY <2>1, <2>2 DEF IInv, TypeOK, CacheInv, OneAtATime, Busy, tables
  <2> QED
    BY <2>2, <2>3, <2>4, <2>5 DEF IInv, SuspensionBites
<1>2. ASSUME NEW r \in Requests, CacheFill(r) PROVE IInv(origin)'
  <2>0. PICK i, p : i = req[r].instance /\ p = req[r].who
    OBVIOUS
  <2>1. /\ UNCHANGED <<tables, now, calls, alone, sent, proven, corrected, resets, lastActive>>
        /\ cache' = [cache EXCEPT ![i] = [cache[i] EXCEPT ![p] = [active |-> req[r].read, at |-> now]]]
        /\ req' = [req EXCEPT ![r] = Idle] /\ req[r].step = "standing"
        /\ Admits(p, req[r].read)
    BY <1>2, <2>0 DEF CacheFill, Finish
  <2>2. /\ i \in Instances /\ p \in People /\ req[r].read \in BOOLEAN /\ req[r].at \in Nat
        /\ req[r].read => req[r].at <= lastActive[p]
        /\ now <= req[r].at + Patience /\ lastActive[p] \in Nat /\ now \in Nat
        /\ lastActive[p] <= now
    BY <2>0, <2>1, AtWork, Types DEF ReqInv, HeldReq, SeenReq, Request, IInv, RowInv
  <2>3. latest' \in Nat /\ latest' < TTL + Patience
    <3>1. latest \in Nat /\ latest < TTL + Patience
      BY DEF IInv, TypeOK, SuspensionBites
    <3>2. latest' = IF req[r].read /\ now - lastActive[p] > latest
                    THEN now - lastActive[p] ELSE latest
      BY <2>1 DEF Admits
    <3> QED
      BY <1>0, <2>2, <3>1, <3>2
  <2>4. PICK e \in Standing : e = [active |-> req[r].read, at |-> now]
    BY <2>2 DEF Standing
  <2>5. /\ cache' \in [Instances -> [People -> Standing \cup {None}]]
        /\ \A j \in Instances, o \in People :
              cache'[j][o] = IF j = i /\ o = p THEN e ELSE cache[j][o]
    BY <2>1, <2>2, <2>4 DEF IInv, TypeOK
  <2>6. CacheInv'
    <3>1. e.at = now /\ e.active = req[r].read
      BY <2>4
    <3>2. e.active => e.at <= lastActive[p] + Patience
      BY <1>0, <2>2, <3>1
    <3> QED
      BY <2>1, <2>5, <3>2 DEF IInv, CacheInv
  <2>7. ASSUME NEW o \in People PROVE RowInv(o, origin)'
    BY <2>1, RowsKept
  <2>8. /\ req' \in [Requests -> Request] /\ \A s \in Requests : ReqInv(req[s], origin)'
    <3>1. ReqInv(Idle, origin)' /\ Idle \in Request
      BY <2>1, IdleIsFine, AccountConstants DEF ReqInv, HeldReq, SeenReq, LinkReq, GoodReq, Idle
    <3>2. ASSUME NEW s \in Requests \ {r} PROVE LinkReq(req[s])'
      BY <2>1 DEF IInv, ReqInv, LinkReq, TypeOK, tables
    <3>3. \A o \in People : lastActive'[o] \in Nat /\ lastActive[o] <= lastActive'[o]
      BY <2>1 DEF IInv, TypeOK
    <3> QED
      BY <2>1, <3>1, <3>2, <3>3, ReqsKept
  <2>9. OneAtATime'
    <3>1. req \in [Requests -> Request]
      BY DEF IInv, TypeOK
    <3>2. \A s \in Requests : Busy(req'[s]) => Busy(req[s])
      BY <2>1, <3>1, IdleIsFine
    <3> QED
      BY <2>1, <3>2 DEF IInv, OneAtATime, Busy
  <2>10. TypeOK'
    BY <2>1, <2>3, <2>5, <2>8 DEF IInv, TypeOK, tables
  <2> QED
    BY <2>3, <2>6, <2>7, <2>8, <2>9, <2>10 DEF IInv, SuspensionBites
<1> QED
  BY <1>1, <1>2

LEMMA TickKeeps ==
    ASSUME NEW origin \in [People -> Emails], IInv(origin), Tick
    PROVE  IInv(origin)'
<1>1. /\ now' = now + 1 /\ now \in Nat /\ Patience \in Nat
      /\ lastActive' = [p \in People |-> IF Active(accounts[p]) THEN now + 1 ELSE lastActive[p]]
      /\ UNCHANGED <<tables, cache, req, calls, alone, sent, proven, corrected, resets, latest>>
      /\ \A r \in Requests : req[r] # Idle => now < req[r].at + Patience
  BY AccountConstants DEF Tick, IInv, TypeOK
<1>2. /\ lastActive' \in [People -> Nat]
      /\ \A p \in People : /\ lastActive[p] \in Nat
                           /\ lastActive[p] <= now /\ lastActive[p] <= lastActive'[p]
                           /\ lastActive'[p] <= now'
                           /\ Active(accounts'[p]) => lastActive'[p] = now'
  BY <1>1 DEF IInv, TypeOK, RowInv, tables
<1>3. ASSUME NEW p \in People PROVE RowInv(p, origin)'
  <2>1. RowInv(p, origin)
    BY DEF IInv
  <2>2. LinkRow(p)' /\ GoodRow(p, accounts[p], origin)' /\ GoodCode(p, codes[p], origin)'
    BY <1>1, <2>1 DEF RowInv, LinkRow, GoodRow, GoodCode, tables
  <2> QED
    BY <1>2, <2>2 DEF RowInv, Active
<1>4. ASSUME NEW s \in Requests PROVE ReqInv(req[s], origin)'
  <2>1. PICK q \in Request : q = req[s] /\ q = req'[s] /\ ReqInv(q, origin)
    BY <1>1 DEF IInv, TypeOK
  <2>2. HeldReq(q)'
    <3>1. CASE q = Idle
      BY <3>1 DEF HeldReq
    <3>2. CASE q # Idle
      <4>1. q.at \in Nat /\ q.at <= now /\ now < q.at + Patience
        BY <1>1, <2>1, <3>2 DEF ReqInv, HeldReq, Request
      <4>2. q.at <= now' /\ now' <= q.at + Patience
        BY <1>1, <4>1
      <4> QED
        BY <2>1, <3>2, <4>2 DEF ReqInv, HeldReq
    <3> QED
      BY <3>1, <3>2
  <2>3. SeenReq(q)'
    <3>1. q.step = "standing" => q.who \in People /\ q.at \in Nat
      BY <2>1, IdleIsFine DEF ReqInv, HeldReq, Request
    <3> QED
      BY <1>2, <2>1, <3>1 DEF ReqInv, SeenReq
  <2>4. LinkReq(q)' /\ GoodReq(q, origin)'
    BY <1>1, <2>1 DEF ReqInv, LinkReq, GoodReq, GoodRow, GoodCode, tables
  <2> QED
    BY <2>1, <2>2, <2>3, <2>4 DEF ReqInv
<1>5. CacheInv'
  <2> SUFFICES ASSUME NEW i \in Instances, NEW p \in People, cache[i][p] # None, cache[i][p].active
               PROVE  cache[i][p].at <= lastActive'[p] + Patience
    BY <1>1 DEF CacheInv
  <2>1. cache[i][p].at \in Nat /\ cache[i][p].at <= lastActive[p] + Patience
    BY DEF IInv, TypeOK, CacheInv, Standing
  <2> QED
    BY <1>1, <1>2, <2>1
<1>6. TypeOK' /\ OneAtATime' /\ SuspensionBites'
  BY <1>1, <1>2 DEF IInv, TypeOK, OneAtATime, Busy, SuspensionBites, tables
<1> QED
  BY <1>3, <1>4, <1>5, <1>6 DEF IInv

--------------------------------------------------------------------------------
Origins == [People -> Emails]

LEMMA InitOK == Init => \E origin \in Origins : IInv(origin)
<1> SUFFICES ASSUME Init PROVE \E origin \in Origins : IInv(origin)
  OBVIOUS
<1>1. PICK address \in Origins :
        accounts = [p \in People |-> [email |-> address[p], verified |-> FALSE,
                                      disabled |-> FALSE, password |-> 0]]
  BY DEF Init, Origins
<1>2. TypeOK
  <2>1. accounts \in [People -> Account \cup {None}]
    BY <1>1, AccountConstants DEF Account, Origins
  <2>2. /\ sent \in [People -> [codes : 0..MaxCodes, links : 0..MaxLinks]]
        /\ resets \in [People -> [1..MaxLinks -> Nat]]
        /\ req \in [Requests -> Request]
    BY AccountConstants, IdleIsFine, <1>1 DEF Init, Origins
  <2> QED
    BY <2>1, <2>2 DEF Init, TypeOK
<1>3. ASSUME NEW r \in Requests PROVE ReqInv(req[r], address)
  BY <1>1, IdleIsFine DEF Init, Origins
<1>4. ASSUME NEW p \in People PROVE RowInv(p, address)
  <2>1. LinkRow(p)
    BY DEF Init, LinkRow
  <2>2. /\ accounts[p].verified = FALSE /\ accounts[p].email = address[p] /\ codes[p] = None
        /\ lastActive[p] = 0 /\ now = 0
    BY <1>1 DEF Init
  <2> QED
    BY <2>1, <2>2 DEF RowInv, GoodRow, GoodCode
<1>5. CacheInv /\ OneAtATime /\ SuspensionBites
  BY AccountConstants, IdleIsFine, <1>1 DEF Init, CacheInv, OneAtATime, SuspensionBites, Origins
<1> QED
  BY <1>2, <1>3, <1>4, <1>5 DEF IInv

LEMMA StepOK ==
    ASSUME NEW origin \in Origins, IInv(origin), [Next]_vars
    PROVE  IInv(origin)'
<1>0. origin \in [People -> Emails]
  BY DEF Origins
<1>1. ASSUME NEW r \in Requests, Mail(r) PROVE IInv(origin)'
  <2>1. ASSUME NEW p \in People, SendLoad(r, p) PROVE IInv(origin)'
    BY <1>0, <2>1, LoadsKeeps DEF SendLoad
  <2>2. ASSUME NEW p \in People, VerifyLoad(r, p) PROVE IInv(origin)'
    BY <1>0, <2>2, LoadsKeeps DEF VerifyLoad
  <2>3. ASSUME NEW p \in People, ConfirmLoad(r, p) PROVE IInv(origin)'
    BY <1>0, <2>3, LoadsKeeps DEF ConfirmLoad
  <2>4. ASSUME NEW p \in People, NEW email \in Emails, ChangeLoad(r, p, email) PROVE IInv(origin)'
    BY <1>0, <2>4, ChangeStarts
  <2>5. CASE dispatchVerificationEmail(r) \/ ChangeSave(r)
    BY <1>0, <2>5, ReissueKeeps
  <2>6. CASE VerifyCheck(r) \/ ConfirmCheck(r)
    BY <1>0, <2>6, CheckKeeps
  <2>7. CASE VerifyConsume(r) \/ ConfirmConsume(r)
    BY <1>0, <2>7, ConsumeKeeps
  <2>8. CASE ConfirmLookup(r)
    BY <1>0, <2>8, ConfirmLookupKeeps
  <2>9. CASE ConfirmSave(r)
    BY <1>0, <2>9, SaveKeeps
  <2> QED
    BY <1>1, <2>1, <2>2, <2>3, <2>4, <2>5, <2>6, <2>7, <2>8, <2>9 DEF Mail
<1>2. ASSUME NEW r \in Requests, Password(r) PROVE IInv(origin)'
  <2>1. ASSUME NEW p \in People, LinkLoad(r, p) PROVE IInv(origin)'
    BY <1>0, <2>1, LoadsKeeps DEF LinkLoad
  <2>2. ASSUME NEW p \in People, changePassword(r, p) PROVE IInv(origin)'
    BY <1>0, <2>2, changePasswordKeeps
  <2>3. CASE ResetLoad(r) \/ \E p \in People : ResetFind(r, p)
    BY <1>0, <2>3, ResetMoves
  <2> QED
    BY <1>0, <1>2, <2>1, <2>2, <2>3, LinkSaveKeeps, ResetConsumeKeeps DEF Password
<1>3. ASSUME NEW r \in Requests, Edit(r) PROVE IInv(origin)'
  <2>1. ASSUME NEW p \in People, updateMe(r, p) PROVE IInv(origin)'
    BY <1>0, <2>1, LoadsKeeps DEF updateMe
  <2>2. ASSUME NEW p \in People, NEW email \in Emails, adminUpdate(r, p, email) PROVE IInv(origin)'
    BY <1>0, <2>2, adminUpdateKeeps
  <2>3. ASSUME NEW p \in People, NEW i \in Instances, NEW enabled \in BOOLEAN,
               updateStatus(r, p, i, enabled)
        PROVE  IInv(origin)'
    BY <1>0, <2>3, updateStatusKeeps
  <2>4. CASE Save(r) \/ StatusSave(r)
    BY <1>0, <2>4, SaveKeeps
  <2> QED
    BY <1>3, <2>1, <2>2, <2>3, <2>4 DEF Edit
<1>4. ASSUME NEW r \in Requests, Guard(r) PROVE IInv(origin)'
  BY <1>0, <1>4, GuardMoves, CacheKeeps DEF Guard
<1>5. ASSUME NEW r \in Requests, Abandon(r) PROVE IInv(origin)'
  BY <1>0, <1>5, GuardMoves
<1>6. ASSUME NEW p \in People, NEW i \in Instances, delete(p, i) \/ CacheHit(i, p)
      PROVE  IInv(origin)'
  BY <1>0, <1>6, RowsFade, CacheKeeps
<1>7. ASSUME NEW p \in People, Expire(p) PROVE IInv(origin)'
  BY <1>0, <1>7, RowsFade
<1>8. CASE Tick
  BY <1>0, <1>8, TickKeeps
<1>9. CASE UNCHANGED vars
  <2> USE <1>9 DEF vars, tables, history, seen
  <2>1. ASSUME NEW s \in Requests PROVE ReqInv(req[s], origin)'
    BY DEF IInv, ReqInv, HeldReq, SeenReq, LinkReq, GoodReq, GoodRow, GoodCode
  <2>2. ASSUME NEW p \in People PROVE RowInv(p, origin)'
    BY DEF IInv, RowInv, LinkRow, GoodRow, GoodCode, Active
  <2>3. TypeOK' /\ CacheInv' /\ OneAtATime' /\ SuspensionBites'
    BY DEF IInv, TypeOK, CacheInv, OneAtATime, Busy, SuspensionBites
  <2> QED
    BY <2>1, <2>2, <2>3 DEF IInv
<1> QED
  BY <1>1, <1>2, <1>3, <1>4, <1>5, <1>6, <1>7, <1>8, <1>9 DEF Next

LEMMA Inductive == Spec => [](\E origin \in Origins : IInv(origin))
<1>1. (\E origin \in Origins : IInv(origin)) /\ [Next]_vars
      => (\E origin \in Origins : IInv(origin))'
  <2> SUFFICES ASSUME NEW origin \in Origins, IInv(origin), [Next]_vars
               PROVE  \E o \in Origins : IInv(o)'
    BY DEF Origins
  <2>1. IInv(origin)'
    BY StepOK
  <2> QED
    BY <2>1
<1> QED
  BY <1>1, InitOK, PTL DEF Spec

\* Type correctness, and what a request holds at each step: the copies that its next step
\* saves, and codes and links in its hands that are spent.
THEOREM TypeCorrect == Spec => []TypeInv
<1>1. (\E origin \in Origins : IInv(origin)) => TypeInv
  BY DEF IInv, ReqInv, TypeInv
<1> QED
  BY <1>1, Inductive, PTL

\* Whatever overlaps, dies or is saved stale, an account that is verified has an address
\* that a code was sent to and came back from, unless an admin has changed it.
THEOREM Verified == Spec => []VerifiedIsProven
<1>1. (\E origin \in Origins : IInv(origin)) => VerifiedIsProven
  BY DEF IInv, RowInv, GoodRow, VerifiedIsProven
<1> QED
  BY <1>1, Inductive, PTL

\* When requests do not overlap, a link sets one password, even if some of them die
\* half way.
THEOREM OnceOnly == Spec => []LinkUsedOnce
<1>1. (\E origin \in Origins : IInv(origin)) => LinkUsedOnce
  BY DEF IInv, RowInv, LinkRow, LinkUsedOnce
<1> QED
  BY <1>1, Inductive, PTL

\* On any number of instances, whichever fill races which forget, a suspended or deleted
\* account is let in for less than the life of an entry and the wait for its query.
THEOREM SuspensionHolds == Spec => []SuspensionBites
<1>1. (\E origin \in Origins : IInv(origin)) => SuspensionBites
  BY DEF IInv
<1> QED
  BY <1>1, Inductive, PTL

--------------------------------------------------------------------------------
(***************************************************************************)
(* Codes and links that were spent.  A row is written by sending a new one, *)
(* by saving a copy that is spent, by expiring or by being deleted.         *)
(***************************************************************************)

StaysSpent(p) ==
    /\ codes'[p] # None /\ codes'[p].usable
       => codes'[p] = codes[p] \/ codes'[p].number > sent[p].codes
    /\ links'[p] # None /\ links'[p].usable
       => links'[p] = links[p] \/ links'[p].number > sent[p].links

LEMMA SendingIsNew ==
    ASSUME TypeInv, NEW r \in Requests, NEW p \in People,
           dispatchVerificationEmail(r) \/ ChangeSave(r) \/ LinkSave(r)
    PROVE  StaysSpent(p)
<1>1. /\ codes \in [People -> Code \cup {None}] /\ links \in [People -> Link \cup {None}]
      /\ sent \in [People -> [codes : 0..MaxCodes, links : 0..MaxLinks]]
  BY DEF TypeInv, TypeOK
<1>2. PICK o : o = req[r].who
  OBVIOUS
<1>3. /\ o \in People /\ sent[o].codes \in 0..MaxCodes /\ sent[o].links \in 0..MaxLinks
      /\ MaxCodes \in Nat /\ MaxLinks \in Nat
  BY <1>1, <1>2, AccountConstants DEF TypeInv, HeldReq, dispatchVerificationEmail, ChangeSave, LinkSave, Idle
<1>4. ASSUME NEW to, NEW newEmail, reissue(o, to, newEmail), UNCHANGED links
      PROVE  StaysSpent(p)
  <2>1. sent' = [sent EXCEPT ![o] = [sent[o] EXCEPT !.codes = sent[o].codes + 1]]
    BY <1>4 DEF reissue
  <2>2. sent'[o].codes = sent[o].codes + 1
    BY <1>1, <1>3, <2>1
  <2>3. codes' = [codes EXCEPT ![o] = [number |-> sent[o].codes + 1, sentTo |-> to,
                                       newEmail |-> newEmail, usable |-> TRUE]]
    BY <1>4, <2>2 DEF reissue
  <2> QED
    BY <1>1, <1>3, <1>4, <2>3 DEF StaysSpent
<1>5. CASE LinkSave(r)
  <2>1. /\ sent' = [sent EXCEPT ![o] = [sent[o] EXCEPT !.links = sent[o].links + 1]]
        /\ links' = [links EXCEPT ![o] = [number |-> sent'[o].links, usable |-> TRUE]]
        /\ UNCHANGED codes
    BY <1>2, <1>5 DEF LinkSave
  <2>2. sent'[o].links = sent[o].links + 1
    BY <1>1, <1>3, <2>1
  <2> QED
    BY <1>1, <1>3, <2>1, <2>2 DEF StaysSpent
<1> QED
  BY <1>2, <1>4, <1>5 DEF dispatchVerificationEmail, ChangeSave

LEMMA SavingIsSpent ==
    ASSUME TypeInv, NEW r \in Requests, NEW p \in People,
           VerifyConsume(r) \/ ConfirmConsume(r) \/ ResetConsume(r)
    PROVE  StaysSpent(p)
<1>1. codes \in [People -> Code \cup {None}] /\ links \in [People -> Link \cup {None}]
  BY DEF TypeInv, TypeOK
<1>2. PICK o, c, l : o = req[r].who /\ c = req[r].code /\ l = req[r].link
  OBVIOUS
<1>3. CASE VerifyConsume(r) \/ ConfirmConsume(r)
  <2>1. ~c.usable /\ o \in People
    BY <1>2, <1>3 DEF TypeInv, HeldReq, VerifyConsume, ConfirmConsume, Idle
  <2>2. codes' = [codes EXCEPT ![o] = c] /\ UNCHANGED links
    BY <1>2, <1>3 DEF VerifyConsume, ConfirmConsume
  <2> QED
    BY <1>1, <2>1, <2>2 DEF StaysSpent
<1>4. CASE ResetConsume(r)
  <2>1. ~l.usable /\ o \in People
    BY <1>2, <1>4 DEF TypeInv, HeldReq, ResetConsume, Idle
  <2>2. links' = [links EXCEPT ![o] = l] /\ UNCHANGED codes
    BY <1>2, <1>4 DEF ResetConsume
  <2> QED
    BY <1>1, <2>1, <2>2 DEF StaysSpent
<1> QED
  BY <1>3, <1>4

LEMMA FadingIsSpent ==
    ASSUME TypeInv, NEW p \in People,
           \/ \E o \in People : Expire(o)
           \/ \E o \in People, i \in Instances : delete(o, i)
    PROVE  StaysSpent(p)
<1>1. codes \in [People -> Code \cup {None}] /\ links \in [People -> Link \cup {None}]
  BY DEF TypeInv, TypeOK
<1>2. ASSUME NEW o \in People, Expire(o) PROVE StaysSpent(p)
  <2>1. CASE /\ codes[o] # None /\ codes' = [codes EXCEPT ![o] = [codes[o] EXCEPT !.usable = FALSE]]
             /\ UNCHANGED links
    <3>1. [codes[o] EXCEPT !.usable = FALSE].usable = FALSE
      BY <1>1, <2>1 DEF Code
    <3> QED
      BY <1>1, <2>1, <3>1 DEF StaysSpent
  <2>2. CASE /\ links[o] # None /\ links' = [links EXCEPT ![o] = [links[o] EXCEPT !.usable = FALSE]]
             /\ UNCHANGED codes
    <3>1. [links[o] EXCEPT !.usable = FALSE].usable = FALSE
      BY <1>1, <2>2 DEF Link
    <3> QED
      BY <1>1, <2>2, <3>1 DEF StaysSpent
  <2> QED
    BY <1>2, <2>1, <2>2 DEF Expire
<1>3. ASSUME NEW o \in People, NEW i \in Instances, delete(o, i) PROVE StaysSpent(p)
  BY <1>1, <1>3 DEF delete, StaysSpent
<1> QED
  BY <1>2, <1>3

LEMMA OthersLeaveSpent ==
    ASSUME NEW p \in People, UNCHANGED <<codes, links>>
    PROVE  StaysSpent(p)
BY DEF StaysSpent

LEMMA StepStaysSpent ==
    ASSUME TypeInv, Next, NEW p \in People
    PROVE  StaysSpent(p)
<1>1. ASSUME NEW r \in Requests, Mail(r) PROVE StaysSpent(p)
  <2>1. \/ UNCHANGED <<codes, links>>
        \/ dispatchVerificationEmail(r) \/ ChangeSave(r) \/ VerifyConsume(r) \/ ConfirmConsume(r)
    BY <1>1 DEF Mail, SendLoad, VerifyLoad, ConfirmLoad, ChangeLoad, VerifyCheck, ConfirmCheck,
                ConfirmLookup, ConfirmSave, tables
  <2> QED
    BY <2>1, SendingIsNew, SavingIsSpent, OthersLeaveSpent
<1>2. ASSUME NEW r \in Requests, Password(r) PROVE StaysSpent(p)
  <2>1. UNCHANGED <<codes, links>> \/ LinkSave(r) \/ ResetConsume(r)
    BY <1>2 DEF Password, LinkLoad, ResetFind, changePassword, ResetLoad, tables
  <2> QED
    BY <2>1, SendingIsNew, SavingIsSpent, OthersLeaveSpent
<1>3. ASSUME NEW r \in Requests, Edit(r) \/ Guard(r) \/ Abandon(r) PROVE StaysSpent(p)
  <2>1. UNCHANGED <<codes, links>>
    BY <1>3 DEF Edit, Guard, Abandon, updateMe, adminUpdate, updateStatus, Save, StatusSave,
                CacheMiss, CacheFill, tables
  <2> QED
    BY <2>1, OthersLeaveSpent
<1>4. ASSUME NEW o \in People, NEW i \in Instances, delete(o, i) \/ CacheHit(i, o)
      PROVE  StaysSpent(p)
  <2>1. delete(o, i) \/ UNCHANGED <<codes, links>>
    BY <1>4 DEF CacheHit, tables
  <2> QED
    BY <2>1, FadingIsSpent, OthersLeaveSpent
<1>5. CASE Tick
  BY <1>5, OthersLeaveSpent DEF Tick, tables
<1> QED
  BY <1>1, <1>2, <1>3, <1>4, <1>5, FadingIsSpent DEF Next

\* A code or a link that was used, replaced or has expired does not come back when an old
\* copy of its row is saved: whatever is usable after a step was so before or is new.
THEOREM SpentForGood == Spec => SpentStaysSpent
<1>1. TypeInv /\ [Next]_vars
      => [\A p \in People :
            /\ codes'[p] # None /\ codes'[p].usable
               => codes'[p] = codes[p] \/ codes'[p].number > sent[p].codes
            /\ links'[p] # None /\ links'[p].usable
               => links'[p] = links[p] \/ links'[p].number > sent[p].links]_vars
  BY StepStaysSpent DEF StaysSpent
<1> QED
  BY <1>1, TypeCorrect, PTL DEF Spec, SpentStaysSpent
================================================================================
