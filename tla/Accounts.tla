------------------------------- MODULE Accounts --------------------------------
(***************************************************************************)
(* An account after sign-up: its address and the codes that prove it, its  *)
(* password and the links that reset it, its suspension and the standing   *)
(* each instance caches.  AuthService, MeController, the admin's accounts, *)
(* AccountStatusAdapter and JwtAuthGuard.                                  *)
(*                                                                         *)
(* As in Booking, a handler works on the rows it loaded and a save makes   *)
(* the row equal to the copy; saving an account that was deleted meanwhile *)
(* inserts it again.  Right and wrong passwords are the limiter's business *)
(* (RateLimiter): here every caller knows its password.                    *)
(***************************************************************************)
EXTENDS Naturals, FiniteSets

CONSTANTS
    People,     \* accounts
    Emails,     \* addresses
    Instances,  \* serverless instances, each with its own cache
    Requests,   \* requests that can be in flight at once
    Traffic,    \* sets of endpoints that are called together
    MaxCodes,   \* bound on the codes sent to an account
    MaxLinks,   \* bound on the reset links sent to an account
    TTL,        \* TTL_MS: how long a standing is reused
    Patience,   \* how long a request may wait for the database
    Horizon,    \* bound on the clock
    None        \* no row, no address, no copy

VARIABLES
    accounts,    \* identity_accounts
    codes,       \* identity_email_verification_codes, by account
    links,       \* identity_password_reset_tokens, by account
    cache,       \* AccountStatusAdapter.cache of each instance
    req,         \* what each request in flight holds
    now,         \* Date.now()
    calls,       \* the endpoints that are called
    alone,       \* TRUE in behaviours where requests never overlap
    sent,        \* history: codes and links sent to each account
    proven,      \* history: addresses whose code came back, by account
    corrected,   \* history: accounts whose address an admin has changed
    resets,      \* history: times each link has set a password
    lastActive,  \* history: when the account was last there and not suspended
    latest       \* history: the longest an inactive account was still let in

tables  == <<accounts, codes, links>>
seen    == <<proven, corrected, resets, lastActive, latest>>
history == <<sent, seen>>
vars    == <<tables, cache, req, now, calls, alone, history>>

\* The number of a code or a link is its order among those sent to the account.
\* password is 0 when the person chose it and else the link it was reset with.
Account == [email : Emails, verified : BOOLEAN, disabled : BOOLEAN, password : 0..MaxLinks]
Code    == [number : 1..MaxCodes, sentTo : Emails, newEmail : Emails \cup {None},
            usable : BOOLEAN]
Link    == [number : 1..MaxLinks, usable : BOOLEAN]
Standing == [active : BOOLEAN, at : Nat]

Endpoint == {"sendCode", "verifyEmail", "requestChange", "confirmChange", "requestReset",
             "reset", "changePassword", "updateMe", "adminUpdate", "status", "delete",
             "standing"}
Steps == {"idle", "send", "verify.check", "verify.consume", "change.lookup",
          "confirm.check", "confirm.lookup", "confirm.save", "confirm.consume",
          "link", "reset.consume", "reset.load", "save", "status.save", "standing"}
Request == [step : Steps, who : People \cup {None}, account : Account \cup {None},
            code : Code \cup {None}, link : Link \cup {None},
            email : Emails \cup {None}, instance : Instances \cup {None},
            read : BOOLEAN, at : Nat]

ASSUME AccountConstants ==
    /\ Traffic \subseteq SUBSET Endpoint
    /\ Cardinality(People) <= Cardinality(Emails)
    /\ MaxCodes \in Nat /\ MaxLinks \in Nat
    /\ TTL \in Nat \ {0} /\ Patience \in Nat /\ Horizon \in Nat
    /\ None \notin Account \cup Code \cup Link \cup Standing \cup People \cup Emails

Idle == [step |-> "idle", who |-> None, account |-> None, code |-> None, link |-> None,
         email |-> None, instance |-> None, read |-> FALSE, at |-> 0]

\* Everybody has just signed up, each with an address of their own.
Init ==
    /\ \E address \in [People -> Emails] :
          /\ \A p, q \in People : address[p] = address[q] => p = q
          /\ accounts = [p \in People |-> [email |-> address[p], verified |-> FALSE,
                                           disabled |-> FALSE, password |-> 0]]
    /\ codes      = [p \in People |-> None]
    /\ links      = [p \in People |-> None]
    /\ cache      = [i \in Instances |-> [p \in People |-> None]]
    /\ req        = [r \in Requests |-> Idle]
    /\ now        = 0
    /\ calls      \in Traffic
    /\ alone      \in BOOLEAN
    /\ sent       = [p \in People |-> [codes |-> 0, links |-> 0]]
    /\ proven     = {}
    /\ corrected  = {}
    /\ resets     = [p \in People |-> [n \in 1..MaxLinks |-> 0]]
    /\ lastActive = [p \in People |-> 0]
    /\ latest     = 0

--------------------------------------------------------------------------------
\* A call reaches endpoint e.
Arrives(r, e) ==
    /\ e \in calls
    /\ req[r] = Idle
    /\ alone => \A q \in Requests : req[q] = Idle

Finish(r)      == req' = [req EXCEPT ![r] = Idle]
Holds(r, held) == req' = [req EXCEPT ![r] = held]

\* The handler loads account p, which must exist, and goes on to step s.
Loads(r, e, p, s) ==
    /\ Arrives(r, e)
    /\ accounts[p] # None
    /\ Holds(r, [Idle EXCEPT !.step = s, !.who = p, !.account = accounts[p], !.at = now])

Taken(email) == \E q \in People : accounts[q] # None /\ accounts[q].email = email

Active(row) == row # None /\ ~row.disabled

\* accounts.save: the row becomes the copy, unless another has its address.
SaveAccount(p, row) ==
    /\ \A q \in People \ {p} : accounts[q] # None => accounts[q].email # row.email
    /\ accounts' = [accounts EXCEPT ![p] = row]
    /\ lastActive' = IF Active(row) THEN [lastActive EXCEPT ![p] = now] ELSE lastActive

\* The instance is killed or an awaited call rejects.
Abandon(r) ==
    /\ req[r] # Idle
    /\ Finish(r)
    /\ UNCHANGED <<tables, cache, now, calls, alone, history>>

Tick ==
    /\ "standing" \in calls
    /\ now < Horizon
    /\ \A r \in Requests : req[r] # Idle => now < req[r].at + Patience
    /\ now' = now + 1
    /\ lastActive' = [p \in People |-> IF Active(accounts[p]) THEN now + 1 ELSE lastActive[p]]
    /\ UNCHANGED <<tables, cache, req, calls, alone, sent, proven, corrected, resets, latest>>

\* The last step of updateMe, changePassword, reset, verifyEmail and adminUpdate.
Save(r) ==
    LET q == req[r] IN
    /\ q.step = "save"
    /\ SaveAccount(q.who, q.account)
    /\ resets' = IF q.link = None THEN resets
                 ELSE [resets EXCEPT ![q.who][q.link.number] = @ + 1]
    /\ Finish(r)
    /\ UNCHANGED <<codes, links, cache, now, calls, alone, sent, proven, corrected, latest>>

--------------------------------------------------------------------------------
(***************************************************************************)
(* Codes sent by e-mail.                                                   *)
(***************************************************************************)

\* EmailVerificationCode.reissue: one row per account, a new code replaces the old.
reissue(p, to, newEmail) ==
    /\ sent[p].codes < MaxCodes
    /\ sent' = [sent EXCEPT ![p].codes = @ + 1]
    /\ codes' = [codes EXCEPT ![p] = [number |-> sent'[p].codes, sentTo |-> to,
                                      newEmail |-> newEmail, usable |-> TRUE]]

\* sendVerificationEmail: for an address that is not verified yet.
SendLoad(r, p) ==
    /\ Loads(r, "sendCode", p, "send")
    /\ ~accounts[p].verified
    /\ UNCHANGED <<tables, cache, now, calls, alone, history>>

\* dispatchVerificationEmail saves a fresh code and sends it to the copy's address.
dispatchVerificationEmail(r) ==
    LET q == req[r] IN
    /\ q.step = "send"
    /\ reissue(q.who, q.account.email, None)
    /\ Finish(r)
    /\ UNCHANGED <<accounts, links, cache, now, calls, alone, seen>>

VerifyLoad(r, p) ==
    /\ Loads(r, "verifyEmail", p, "verify.check")
    /\ ~accounts[p].verified
    /\ UNCHANGED <<tables, cache, now, calls, alone, history>>

\* Mutant: a code sent for a change of address is accepted too.
VerifyAnyCode(r) ==
    LET q == req[r] c == codes[q.who] IN
    /\ q.step = "verify.check"
    /\ c # None /\ c.usable
    /\ Holds(r, [q EXCEPT !.step = "verify.consume", !.code = [c EXCEPT !.usable = FALSE]])
    /\ proven' = proven \cup {<<q.who, c.sentTo>>}
    /\ UNCHANGED <<tables, cache, now, calls, alone, sent, corrected, resets, lastActive, latest>>

\* The code is the current one, was not sent to a new address, and is right.
VerifyCheck(r) ==
    LET q == req[r] c == codes[q.who] IN
    /\ q.step = "verify.check"
    /\ c # None /\ c.newEmail = None /\ c.usable
    /\ Holds(r, [q EXCEPT !.step = "verify.consume", !.code = [c EXCEPT !.usable = FALSE]])
    /\ proven' = proven \cup {<<q.who, c.sentTo>>}
    /\ UNCHANGED <<tables, cache, now, calls, alone, sent, corrected, resets, lastActive, latest>>

\* Mutant: the code is saved as it was loaded.
VerifyKeep(r) ==
    LET q == req[r] IN
    /\ q.step = "verify.consume"
    /\ codes' = [codes EXCEPT ![q.who] = [q.code EXCEPT !.usable = TRUE]]
    /\ Holds(r, [q EXCEPT !.step = "save", !.account.verified = TRUE, !.code = None])
    /\ UNCHANGED <<accounts, links, cache, now, calls, alone, history>>

VerifyConsume(r) ==
    LET q == req[r] IN
    /\ q.step = "verify.consume"
    /\ codes' = [codes EXCEPT ![q.who] = q.code]
    /\ Holds(r, [q EXCEPT !.step = "save", !.account.verified = TRUE, !.code = None])
    /\ UNCHANGED <<accounts, links, cache, now, calls, alone, history>>

\* requestEmailChange: the address must be another one and free.
ChangeLoad(r, p, email) ==
    /\ Arrives(r, "requestChange")
    /\ accounts[p] # None /\ accounts[p].email # email
    /\ Holds(r, [Idle EXCEPT !.step = "change.lookup", !.who = p, !.email = email, !.at = now])
    /\ UNCHANGED <<tables, cache, now, calls, alone, history>>

\* Free when looked up; the code is saved and sent to the new address.
ChangeSave(r) ==
    LET q == req[r] IN
    /\ q.step = "change.lookup"
    /\ ~Taken(q.email)
    /\ reissue(q.who, q.email, q.email)
    /\ Finish(r)
    /\ UNCHANGED <<accounts, links, cache, now, calls, alone, seen>>

ConfirmLoad(r, p) ==
    /\ Loads(r, "confirmChange", p, "confirm.check")
    /\ UNCHANGED <<tables, cache, now, calls, alone, history>>

ConfirmCheck(r) ==
    LET q == req[r] c == codes[q.who] IN
    /\ q.step = "confirm.check"
    /\ c # None /\ c.newEmail # None /\ c.usable
    /\ Holds(r, [q EXCEPT !.step = "confirm.lookup", !.code = [c EXCEPT !.usable = FALSE]])
    /\ proven' = proven \cup {<<q.who, c.sentTo>>}
    /\ UNCHANGED <<tables, cache, now, calls, alone, sent, corrected, resets, lastActive, latest>>

\* "Someone may have signed up with it while the code was on its way."
ConfirmLookup(r) ==
    LET q == req[r] IN
    /\ q.step = "confirm.lookup"
    /\ ~Taken(q.code.newEmail)
    /\ Holds(r, [q EXCEPT !.step = "confirm.save", !.account.verified = TRUE,
                          !.account.email = q.code.newEmail])
    /\ UNCHANGED <<tables, cache, now, calls, alone, history>>

ConfirmSave(r) ==
    LET q == req[r] IN
    /\ q.step = "confirm.save"
    /\ SaveAccount(q.who, q.account)
    /\ Holds(r, [q EXCEPT !.step = "confirm.consume", !.account = None])
    /\ UNCHANGED <<codes, links, cache, now, calls, alone, sent, proven, corrected, resets, latest>>

ConfirmConsume(r) ==
    LET q == req[r] IN
    /\ q.step = "confirm.consume"
    /\ codes' = [codes EXCEPT ![q.who] = q.code]
    /\ Finish(r)
    /\ UNCHANGED <<accounts, links, cache, now, calls, alone, history>>

--------------------------------------------------------------------------------
(***************************************************************************)
(* Passwords.                                                              *)
(***************************************************************************)

\* requestPasswordReset: silent when nobody has the address.
LinkLoad(r, p) ==
    /\ Loads(r, "requestReset", p, "link")
    /\ UNCHANGED <<tables, cache, now, calls, alone, history>>

LinkSave(r) ==
    LET p == req[r].who IN
    /\ req[r].step = "link"
    /\ sent[p].links < MaxLinks
    /\ sent' = [sent EXCEPT ![p].links = @ + 1]
    /\ links' = [links EXCEPT ![p] = [number |-> sent'[p].links, usable |-> TRUE]]
    /\ Finish(r)
    /\ UNCHANGED <<accounts, codes, cache, now, calls, alone, seen>>

\* resetPassword finds the row by its token: an older link finds nothing.
ResetFind(r, p) ==
    /\ Arrives(r, "reset")
    /\ links[p] # None /\ links[p].usable
    /\ Holds(r, [Idle EXCEPT !.step = "reset.consume", !.who = p, !.at = now,
                             !.link = [links[p] EXCEPT !.usable = FALSE]])
    /\ UNCHANGED <<tables, cache, now, calls, alone, history>>

\* Mutant: the copy is consumed and not saved.
ConsumeNothing(r) ==
    /\ req[r].step = "reset.consume"
    /\ req' = [req EXCEPT ![r].step = "reset.load"]
    /\ UNCHANGED <<tables, cache, now, calls, alone, history>>

\* The link is consumed before the password changes.
ResetConsume(r) ==
    LET q == req[r] IN
    /\ q.step = "reset.consume"
    /\ links' = [links EXCEPT ![q.who] = q.link]
    /\ req' = [req EXCEPT ![r].step = "reset.load"]
    /\ UNCHANGED <<accounts, codes, cache, now, calls, alone, history>>

ResetLoad(r) ==
    LET q == req[r] IN
    /\ q.step = "reset.load"
    /\ accounts[q.who] # None
    /\ Holds(r, [q EXCEPT !.step = "save",
                          !.account = [accounts[q.who] EXCEPT !.password = q.link.number]])
    /\ UNCHANGED <<tables, cache, now, calls, alone, history>>

changePassword(r, p) ==
    /\ Arrives(r, "changePassword")
    /\ accounts[p] # None
    /\ Holds(r, [Idle EXCEPT !.step = "save", !.who = p, !.at = now,
                             !.account = [accounts[p] EXCEPT !.password = 0]])
    /\ UNCHANGED <<tables, cache, now, calls, alone, history>>

\* 15 minutes or an hour go by.
Expire(p) ==
    /\ \/ /\ codes[p] # None /\ codes[p].usable
          /\ codes' = [codes EXCEPT ![p].usable = FALSE]
          /\ UNCHANGED links
       \/ /\ links[p] # None /\ links[p].usable
          /\ links' = [links EXCEPT ![p].usable = FALSE]
          /\ UNCHANGED codes
    /\ UNCHANGED <<accounts, cache, req, now, calls, alone, history>>

--------------------------------------------------------------------------------
(***************************************************************************)
(* PATCH /me, and the admin's corrections.                                 *)
(***************************************************************************)

\* The name changes; the whole account is saved.
updateMe(r, p) ==
    /\ Loads(r, "updateMe", p, "save")
    /\ UNCHANGED <<tables, cache, now, calls, alone, history>>

\* "A changed email is unverified again."
adminUpdate(r, p, email) ==
    /\ Arrives(r, "adminUpdate")
    /\ accounts[p] # None
    /\ email # accounts[p].email /\ ~Taken(email)
    /\ Holds(r, [Idle EXCEPT !.step = "save", !.who = p, !.at = now,
                             !.account = [accounts[p] EXCEPT !.email = email,
                                                             !.verified = FALSE]])
    /\ corrected' = corrected \cup {p}
    /\ UNCHANGED <<tables, cache, now, calls, alone, sent, proven, resets, lastActive, latest>>

updateStatus(r, p, i, enabled) ==
    /\ Arrives(r, "status")
    /\ accounts[p] # None
    /\ Holds(r, [Idle EXCEPT !.step = "status.save", !.who = p, !.instance = i, !.at = now,
                             !.account = [accounts[p] EXCEPT !.disabled = ~enabled]])
    /\ UNCHANGED <<tables, cache, now, calls, alone, history>>

forget(i, p) == cache' = [cache EXCEPT ![i][p] = None]

StatusSave(r) ==
    LET q == req[r] IN
    /\ q.step = "status.save"
    /\ SaveAccount(q.who, q.account)
    /\ forget(q.instance, q.who)
    /\ Finish(r)
    /\ UNCHANGED <<codes, links, now, calls, alone, sent, proven, corrected, resets, latest>>

\* The transaction of AccountDeletionService, then forget() on its instance.
delete(p, i) ==
    /\ "delete" \in calls
    /\ accounts[p] # None
    /\ accounts' = [accounts EXCEPT ![p] = None]
    /\ codes' = [codes EXCEPT ![p] = None]
    /\ links' = [links EXCEPT ![p] = None]
    /\ forget(i, p)
    /\ UNCHANGED <<req, now, calls, alone, history>>

--------------------------------------------------------------------------------
(***************************************************************************)
(* AccountStatusAdapter.standing, asked by JwtAuthGuard on every request.   *)
(***************************************************************************)

\* The entry of account p can be reused.
Fresh(i, p) == cache[i][p] # None /\ now < cache[i][p].at + TTL

\* The guard answers: an account that is let in although it is suspended or gone
\* has been so for now - lastActive.
Admits(p, active) ==
    latest' = IF active /\ now - lastActive[p] > latest THEN now - lastActive[p] ELSE latest

\* Mutant: an entry never expires.
CacheForever(i, p) ==
    /\ "standing" \in calls
    /\ cache[i][p] # None
    /\ Admits(p, cache[i][p].active)
    /\ UNCHANGED <<tables, cache, req, now, calls, alone, sent, proven, corrected, resets, lastActive>>

CacheHit(i, p) ==
    /\ "standing" \in calls
    /\ Fresh(i, p)
    /\ Admits(p, cache[i][p].active)
    /\ UNCHANGED <<tables, cache, req, now, calls, alone, sent, proven, corrected, resets, lastActive>>

\* A miss, or an entry that has expired: the database is asked ...
CacheMiss(r, i, p) ==
    /\ "standing" \in calls
    /\ req[r] = Idle
    /\ ~Fresh(i, p)
    /\ Holds(r, [Idle EXCEPT !.step = "standing", !.who = p, !.instance = i, !.at = now,
                             !.read = Active(accounts[p])])
    /\ UNCHANGED <<tables, cache, now, calls, alone, history>>

\* ... and what it answered is cached, dated when it arrives.
CacheFill(r) ==
    LET q == req[r] IN
    /\ q.step = "standing"
    /\ cache' = [cache EXCEPT ![q.instance][q.who] = [active |-> q.read, at |-> now]]
    /\ Admits(q.who, q.read)
    /\ Finish(r)
    /\ UNCHANGED <<tables, now, calls, alone, sent, proven, corrected, resets, lastActive>>

--------------------------------------------------------------------------------
Mail(r) ==
    \/ \E p \in People : SendLoad(r, p) \/ VerifyLoad(r, p) \/ ConfirmLoad(r, p)
    \/ \E p \in People, email \in Emails : ChangeLoad(r, p, email)
    \/ dispatchVerificationEmail(r) \/ VerifyCheck(r) \/ VerifyConsume(r) \/ ChangeSave(r)
    \/ ConfirmCheck(r) \/ ConfirmLookup(r) \/ ConfirmSave(r) \/ ConfirmConsume(r)

Password(r) ==
    \/ \E p \in People : LinkLoad(r, p) \/ ResetFind(r, p) \/ changePassword(r, p)
    \/ LinkSave(r) \/ ResetConsume(r) \/ ResetLoad(r)

Edit(r) ==
    \/ \E p \in People : updateMe(r, p)
    \/ \E p \in People, email \in Emails : adminUpdate(r, p, email)
    \/ \E p \in People, i \in Instances, enabled \in BOOLEAN : updateStatus(r, p, i, enabled)
    \/ Save(r) \/ StatusSave(r)

Guard(r) == (\E i \in Instances, p \in People : CacheMiss(r, i, p)) \/ CacheFill(r)

Next ==
    \/ \E r \in Requests : Mail(r) \/ Password(r) \/ Edit(r) \/ Guard(r) \/ Abandon(r)
    \/ \E p \in People, i \in Instances : delete(p, i) \/ CacheHit(i, p)
    \/ \E p \in People : Expire(p)
    \/ Tick

Spec == Init /\ [][Next]_vars

--------------------------------------------------------------------------------
(***************************************************************************)
(* Properties.                                                             *)
(***************************************************************************)

TypeOK ==
    /\ accounts \in [People -> Account \cup {None}]
    /\ codes \in [People -> Code \cup {None}]
    /\ links \in [People -> Link \cup {None}]
    /\ cache \in [Instances -> [People -> Standing \cup {None}]]
    /\ req \in [Requests -> Request]
    /\ now \in Nat /\ latest \in Nat /\ lastActive \in [People -> Nat]
    /\ calls \in Traffic /\ alone \in BOOLEAN
    /\ sent \in [People -> [codes : 0..MaxCodes, links : 0..MaxLinks]]
    /\ proven \subseteq People \X Emails /\ corrected \subseteq People
    /\ resets \in [People -> [1..MaxLinks -> Nat]]

\* auth.service.ts: "A code sent to a new address proves that one, not the current
\* one."  Whatever overlaps, dies or is saved stale, a verified address is one a code
\* was sent to and came back from, unless an admin has changed the address.
VerifiedIsProven ==
    \A p \in People \ corrected :
        accounts[p] # None /\ accounts[p].verified => <<p, accounts[p].email>> \in proven

\* email-verification-code.entity.ts: "only the most recent code is ever valid", and
\* the same of links.  One that was used, replaced or expired does not come back
\* when an old copy of its row is saved.
SpentStaysSpent ==
    [][\A p \in People :
          /\ codes'[p] # None /\ codes'[p].usable
             => codes'[p] = codes[p] \/ codes'[p].number > sent[p].codes
          /\ links'[p] # None /\ links'[p].usable
             => links'[p] = links[p] \/ links'[p].number > sent[p].links]_vars

\* password-reset-token.entity.ts: a link sets one password.  It is consumed before
\* the password is saved, so even a request that dies half way does not leave it
\* usable, as long as two do not use it at the same time.
LinkUsedOnce == alone => \A p \in People : \A n \in 1..MaxLinks : resets[p][n] <= 1

\* account-status.adapter.ts: "a suspension can take up to this long to bite".  On any
\* instance, whichever fill races forget(), a suspended or deleted account is let in no
\* later than the life of a cache entry and the wait for the query that filled it.
SuspensionBites == latest < TTL + Patience
================================================================================
