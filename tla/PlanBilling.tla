------------------------------ MODULE PlanBilling ------------------------------
(***************************************************************************)
(* How a business gets VIP: BillingController (checkout, the gateway's     *)
(* callback, activation codes), the admin's plan switch and codes, and     *)
(* every other endpoint that saves a ProviderProfile.                      *)
(*                                                                         *)
(* A grant touches up to three tables, one save at a time and in no        *)
(* transaction: the profile (VIP until when), the code (times used) and    *)
(* the activation (the record of why).  As in Booking, a request works on  *)
(* copies loaded at an await and a save makes the row equal to the copy.   *)
(*                                                                         *)
(* Time counts in the units of Periods; the calendar arithmetic of         *)
(* addMonths is abstracted to addition.  Codes an admin issues have no     *)
(* expiry date: no endpoint sets one.                                      *)
(***************************************************************************)
EXTENDS Naturals

CONSTANTS
    Businesses,  \* accounts with a page
    Checkouts,   \* references the gateway gives to checkouts
    Codes,       \* activation codes
    Periods,     \* how long a period lasts, in units of time
    Requests,    \* requests that can be in flight at once
    Endpoints,   \* the endpoints that are called
    MaxUses,     \* bound on the uses an admin gives a code
    MaxTime,     \* bound on the clock
    MaxGrants,   \* bound on the times one reference's period is granted
    None         \* no row, no copy, no business

VARIABLES
    profiles,     \* providers_profiles: plan and planExpiresAt
    activations,  \* providers_plan_activations, by reference
    codes,        \* providers_plan_codes
    paid,         \* checkouts the gateway has been paid for
    req,          \* what each request in flight holds
    now,          \* the time
    calm,         \* TRUE in behaviours where requests neither overlap nor die
    grants,       \* history: times a reference's period was saved in a profile
    courtesy      \* history: businesses an admin has put on VIP by hand

tables  == <<profiles, activations, codes>>
history == <<grants, courtesy>>
vars    == <<tables, history, paid, req, now, calm>>

\* The unique reference of an activation: the gateway's, or code:<code>:<account>.
References == Checkouts \cup (Codes \X Businesses)

\* planExpiresAt is 0 when null.
Profile    == [plan : {"free", "vip"}, expiresAt : Nat]
Activation == [account : Businesses, period : Periods,
               status : {"pending", "active"}, expiresAt : Nat]
Code       == [period : Periods, maxUses : 1..MaxUses, usedCount : 0..MaxUses]

Steps == {"idle", "settle.profile", "settle.save", "settle.record",
          "redeem.profile", "redeem.save", "redeem.count", "redeem.record", "save"}

Request == [step : Steps, account : Businesses \cup {None},
            ref : References \cup {None}, profile : Profile \cup {None},
            activation : Activation \cup {None}, code : Code \cup {None}]

Endpoint == {"checkout", "settle", "redeem", "plan", "edit"}

ASSUME PlanConstants ==
    /\ Periods \subseteq Nat \ {0}
    /\ MaxUses \in Nat \ {0} /\ MaxTime \in Nat /\ MaxGrants \in Nat
    /\ Endpoints \subseteq Endpoint
    /\ None \notin Profile \cup Activation \cup Code \cup Businesses \cup References
    /\ Checkouts \cap (Codes \X Businesses) = {}

Idle == [step |-> "idle", account |-> None, ref |-> None, profile |-> None,
         activation |-> None, code |-> None]

Init ==
    /\ profiles    = [b \in Businesses |-> [plan |-> "free", expiresAt |-> 0]]
    /\ activations = [x \in References |-> None]
    /\ codes       = [c \in Codes |-> None]
    /\ paid        = {}
    /\ req         = [r \in Requests |-> Idle]
    /\ now         = 1
    /\ calm        \in BOOLEAN
    /\ grants      = [x \in References |-> 0]
    /\ courtesy    = {}

--------------------------------------------------------------------------------
\* A call reaches endpoint e, on an instance of its own.
Arrives(r, e) ==
    /\ e \in Endpoints
    /\ req[r] = Idle
    /\ calm => \A q \in Requests : req[q] = Idle

Finish(r) == req' = [req EXCEPT ![r] = Idle]

\* Request r goes on to step s with what it holds.
Continue(r, s) == req' = [req EXCEPT ![r].step = s]

\* profiles.save by a request that is granting reference x.
Grant(r) ==
    /\ grants[req[r].ref] < MaxGrants
    /\ profiles' = [profiles EXCEPT ![req[r].account] = req[r].profile]
    /\ grants' = [grants EXCEPT ![req[r].ref] = @ + 1]

\* The instance is killed or an awaited call rejects.
Abandon(r) ==
    /\ ~calm
    /\ req[r] # Idle
    /\ Finish(r)
    /\ UNCHANGED <<tables, history, paid, now, calm>>

Tick ==
    /\ now < MaxTime
    /\ now' = now + 1
    /\ UNCHANGED <<tables, history, paid, req, calm>>

--------------------------------------------------------------------------------
(***************************************************************************)
(* ProviderProfile                                                         *)
(***************************************************************************)

\* Mutant: a renewal starts today, whatever is left.
ActivateFromToday(e, p) == [plan |-> "vip", expiresAt |-> now + p]

\* activateVip stacks on an expiry that is still ahead, else starts today.
activateVip(e, p) ==
    [plan |-> "vip",
     expiresAt |-> p + IF e.expiresAt > now THEN e.expiresAt ELSE now]

setPlan(plan) == [plan |-> plan, expiresAt |-> 0]

\* PATCH /v1/admin/businesses/:id/plan
PlanLoad(r, b, plan) ==
    /\ Arrives(r, "plan")
    /\ req' = [req EXCEPT ![r] = [Idle EXCEPT !.step = "save", !.account = b,
                                              !.profile = setPlan(plan)]]
    /\ courtesy' = IF plan = "vip" THEN courtesy \cup {b} ELSE courtesy
    /\ UNCHANGED <<tables, grants, paid, now, calm>>

\* saveMine, publishDesign, updateApproval: they change other columns, after
\* uploads and queries, and save the profile they loaded.
EditLoad(r, b) ==
    /\ Arrives(r, "edit")
    /\ req' = [req EXCEPT ![r] = [Idle EXCEPT !.step = "save", !.account = b,
                                              !.profile = profiles[b]]]
    /\ UNCHANGED <<tables, history, paid, now, calm>>

Save(r) ==
    /\ req[r].step = "save"
    /\ profiles' = [profiles EXCEPT ![req[r].account] = req[r].profile]
    /\ Finish(r)
    /\ UNCHANGED <<activations, codes, history, paid, now, calm>>

--------------------------------------------------------------------------------
(***************************************************************************)
(* POST /v1/billing/checkout and /callback                                 *)
(***************************************************************************)

\* ProviderPlanActivation.start
start(b, p) == [account |-> b, period |-> p, status |-> "pending", expiresAt |-> 0]

markActive(a, at) == [a EXCEPT !.status = "active", !.expiresAt = at]

\* Mutant: the plan changes as soon as the payment page opens.
CheckoutGrants(b, x, p) ==
    /\ "checkout" \in Endpoints
    /\ activations[x] = None
    /\ activations' = [activations EXCEPT ![x] = start(b, p)]
    /\ profiles' = [profiles EXCEPT ![b] = activateVip(@, p)]
    /\ UNCHANGED <<codes, history, paid, req, now, calm>>

\* The gateway's session is recorded as pending before the client gets its url.
Checkout(b, x, p) ==
    /\ "checkout" \in Endpoints
    /\ activations[x] = None
    /\ activations' = [activations EXCEPT ![x] = start(b, p)]
    /\ UNCHANGED <<profiles, codes, history, paid, req, now, calm>>

\* The business pays on the gateway's page.
Pay(x) ==
    /\ activations[x] # None
    /\ x \notin paid
    /\ paid' = paid \cup {x}
    /\ UNCHANGED <<tables, history, req, now, calm>>

\* Mutant: nobody looks whether the activation is active already.
SettleAgain(r, x) ==
    /\ Arrives(r, "settle")
    /\ x \in paid
    /\ req' = [req EXCEPT ![r] = [Idle EXCEPT !.step = "settle.profile",
                   !.account = activations[x].account, !.ref = x,
                   !.activation = activations[x]]]
    /\ UNCHANGED <<tables, history, paid, now, calm>>

\* The gateway reports a payment, as many times as it likes; an activation that
\* is active already is left alone.
SettleLoad(r, x) ==
    /\ Arrives(r, "settle")
    /\ x \in paid
    /\ activations[x].status = "pending"
    /\ req' = [req EXCEPT ![r] = [Idle EXCEPT !.step = "settle.profile",
                   !.account = activations[x].account, !.ref = x,
                   !.activation = activations[x]]]
    /\ UNCHANGED <<tables, history, paid, now, calm>>

\* The profile is loaded and both copies are changed.
SettleProfile(r) ==
    LET a == req[r].activation
        e == activateVip(profiles[req[r].account], a.period)
    IN
    /\ req[r].step = "settle.profile"
    /\ req' = [req EXCEPT ![r].step = "settle.save", ![r].profile = e,
                          ![r].activation = markActive(a, e.expiresAt)]
    /\ UNCHANGED <<tables, history, paid, now, calm>>

SettleSave(r) ==
    /\ req[r].step = "settle.save"
    /\ Grant(r)
    /\ Continue(r, "settle.record")
    /\ UNCHANGED <<activations, codes, courtesy, paid, now, calm>>

\* Mutant: the activation is marked with the expiry the profile had.
RecordOldExpiry(r) ==
    /\ req[r].step = "settle.record"
    /\ activations' = [activations EXCEPT ![req[r].ref] =
                          markActive(req[r].activation, activations[req[r].ref].expiresAt)]
    /\ Finish(r)
    /\ UNCHANGED <<profiles, codes, history, paid, now, calm>>

SettleRecord(r) ==
    /\ req[r].step = "settle.record"
    /\ activations' = [activations EXCEPT ![req[r].ref] = req[r].activation]
    /\ Finish(r)
    /\ UNCHANGED <<profiles, codes, history, paid, now, calm>>

--------------------------------------------------------------------------------
(***************************************************************************)
(* POST /v1/admin/plan-codes and POST /v1/billing/redeem                   *)
(***************************************************************************)

\* PlanActivationCode.generate
generate(c, p, n) ==
    /\ "redeem" \in Endpoints
    /\ codes[c] = None
    /\ codes' = [codes EXCEPT ![c] = [period |-> p, maxUses |-> n, usedCount |-> 0]]
    /\ UNCHANGED <<profiles, activations, history, paid, req, now, calm>>

isSpent(c) == c.usedCount >= c.maxUses

\* Mutant: a code's uses are not counted against its limit.
NeverSpent(r, b, c) ==
    /\ Arrives(r, "redeem")
    /\ codes[c] # None
    /\ req' = [req EXCEPT ![r] = [Idle EXCEPT !.step = "redeem.profile",
                   !.account = b, !.ref = <<c, b>>,
                   !.code = [codes[c] EXCEPT !.usedCount = @ + 1]]]
    /\ UNCHANGED <<tables, history, paid, now, calm>>

\* The code is loaded and its copy counts one more use.
RedeemLoad(r, b, c) ==
    /\ Arrives(r, "redeem")
    /\ codes[c] # None
    /\ ~isSpent(codes[c])
    /\ req' = [req EXCEPT ![r] = [Idle EXCEPT !.step = "redeem.profile",
                   !.account = b, !.ref = <<c, b>>,
                   !.code = [codes[c] EXCEPT !.usedCount = @ + 1]]]
    /\ UNCHANGED <<tables, history, paid, now, calm>>

RedeemProfile(r) ==
    LET b == req[r].account
        p == req[r].code.period
        e == activateVip(profiles[b], p)
    IN
    /\ req[r].step = "redeem.profile"
    /\ req' = [req EXCEPT ![r].step = "redeem.save", ![r].profile = e,
                          ![r].activation = markActive(start(b, p), e.expiresAt)]
    /\ UNCHANGED <<tables, history, paid, now, calm>>

\* Mutant: the activation is recorded before the profile is saved.
RecordFirst(r) ==
    /\ req[r].step = "redeem.save"
    /\ activations' = [activations EXCEPT ![req[r].ref] = req[r].activation]
    /\ Continue(r, "redeem.count")
    /\ UNCHANGED <<profiles, codes, history, paid, now, calm>>

RedeemSave(r) ==
    /\ req[r].step = "redeem.save"
    /\ Grant(r)
    /\ Continue(r, "redeem.count")
    /\ UNCHANGED <<activations, codes, courtesy, paid, now, calm>>

RedeemCount(r) ==
    /\ req[r].step = "redeem.count"
    /\ codes' = [codes EXCEPT ![req[r].ref[1]] = req[r].code]
    /\ Continue(r, "redeem.record")
    /\ UNCHANGED <<profiles, activations, history, paid, now, calm>>

\* An insert: the unique reference index refuses a second one.
RedeemRecord(r) ==
    LET x == req[r].ref IN
    /\ req[r].step = "redeem.record"
    /\ activations' = IF activations[x] = None
                      THEN [activations EXCEPT ![x] = req[r].activation]
                      ELSE activations
    /\ Finish(r)
    /\ UNCHANGED <<profiles, codes, history, paid, now, calm>>

--------------------------------------------------------------------------------
Settle(r) ==
    \/ \E x \in Checkouts : SettleLoad(r, x)
    \/ SettleProfile(r)
    \/ SettleSave(r)
    \/ SettleRecord(r)

Redeem(r) ==
    \/ \E b \in Businesses, c \in Codes : RedeemLoad(r, b, c)
    \/ RedeemProfile(r)
    \/ RedeemSave(r)
    \/ RedeemCount(r)
    \/ RedeemRecord(r)

Edit(r) ==
    \/ \E b \in Businesses, plan \in {"free", "vip"} : PlanLoad(r, b, plan)
    \/ \E b \in Businesses : EditLoad(r, b)
    \/ Save(r)

Next ==
    \/ \E r \in Requests : Settle(r) \/ Redeem(r) \/ Edit(r) \/ Abandon(r)
    \/ \E b \in Businesses, x \in Checkouts, p \in Periods : Checkout(b, x, p)
    \/ \E x \in Checkouts : Pay(x)
    \/ \E c \in Codes, p \in Periods, n \in 1..MaxUses : generate(c, p, n)
    \/ Tick

Spec == Init /\ [][Next]_vars

--------------------------------------------------------------------------------
(***************************************************************************)
(* Properties.                                                             *)
(***************************************************************************)

TypeOK ==
    /\ profiles \in [Businesses -> Profile]
    /\ activations \in [References -> Activation \cup {None}]
    /\ codes \in [Codes -> Code \cup {None}]
    /\ paid \subseteq Checkouts
    /\ req \in [Requests -> Request]
    /\ now \in Nat
    /\ calm \in BOOLEAN
    /\ grants \in [References -> Nat]
    /\ courtesy \subseteq Businesses

Active(x) == activations[x] # None /\ activations[x].status = "active"

\* The business reference x is for, and the period it grants.
Beneficiary(x) == IF x \in Checkouts THEN activations[x].account ELSE x[2]
PeriodOf(x)    == IF x \in Checkouts THEN activations[x].period ELSE codes[x[1]].period

\* Somebody put business b on VIP: an admin, or a grant of one of its references.
Justified(b) == b \in courtesy \/ \E x \in References : grants[x] > 0 /\ Beneficiary(x) = b

\* The activation is the last thing saved: whatever dies or interleaves, a
\* business whose history shows an activation had its page put on VIP for it.
RecordedWasGranted == \A x \in References : Active(x) => grants[x] > 0

\* "A business that abandons the payment page must not walk away with VIP": a
\* page on VIP was put there by an admin, by a code, or by a paid checkout.
VipIsPaidFor ==
    /\ \A b \in Businesses : profiles[b].plan = "vip" => Justified(b)
    /\ \A x \in Checkouts : grants[x] > 0 => x \in paid

\* redeem() counts on a copy, yet no code counts more uses than it has, and one
\* that has an activation counts at least one.
CodesWithinUses ==
    \A c \in Codes :
        /\ codes[c] # None => codes[c].usedCount <= codes[c].maxUses
        /\ \A b \in Businesses :
              Active(<<c, b>>) => codes[c] # None /\ codes[c].usedCount > 0

\* "Safe to call twice with the same reference": when calls do not overlap, a
\* gateway that reports a payment again and again buys one period.
OnePeriodPerPayment == calm => \A x \in Checkouts : grants[x] <= 1

\* "Renewing early stacks onto whatever is left": when calls do not overlap, a
\* grant adds exactly its period to an expiry that is still ahead.
PaidTimeAddsUp ==
    [][\A x \in References :
          LET b == Beneficiary(x) IN
          calm /\ grants'[x] > grants[x] /\ profiles[b].expiresAt > now
          => profiles'[b].expiresAt = profiles[b].expiresAt + PeriodOf(x)]_vars

\* The activations are "the audit trail behind planExpiresAt": when calls do not
\* overlap and nothing was granted twice, the expiry of every page is the
\* expiry of one of its activations.
AuditTrail ==
    /\ calm /\ \A r \in Requests : req[r] = Idle
    /\ \A x \in References : grants[x] <= 1
    => \A b \in Businesses : profiles[b].expiresAt # 0 =>
          \E x \in References : /\ Active(x) /\ Beneficiary(x) = b
                                /\ activations[x].expiresAt = profiles[b].expiresAt

--------------------------------------------------------------------------------
(***************************************************************************)
(* What makes them inductive: what a request in flight may hold.           *)
(***************************************************************************)

Settling  == {"settle.profile", "settle.save", "settle.record"}
Redeeming == {"redeem.profile", "redeem.save", "redeem.count", "redeem.record"}

\* A callback holds a copy of an activation that was opened and has been paid.
HeldSettle(q) ==
    /\ q.account \in Businesses /\ q.ref \in Checkouts /\ q.ref \in paid
    /\ activations[q.ref] # None /\ q.activation \in Activation
    /\ q.activation.account = q.account
    /\ activations[q.ref].account = q.account
    /\ activations[q.ref].period = q.activation.period
    /\ q.step # "settle.profile" => q.profile \in Profile /\ q.activation.status = "active"
    /\ q.step = "settle.record" => grants[q.ref] > 0

\* A redemption holds a copy of its code that counts this use within the limit.
HeldRedeem(q) ==
    /\ q.account \in Businesses
    /\ \E c \in Codes :
          /\ q.ref = <<c, q.account>>
          /\ codes[c] # None /\ q.code \in Code
          /\ q.code.maxUses = codes[c].maxUses /\ q.code.period = codes[c].period
          /\ q.code.usedCount \in 1..q.code.maxUses
          /\ q.step = "redeem.record" => codes[c].usedCount > 0
    /\ q.step # "redeem.profile" => q.profile \in Profile /\ q.activation \in Activation
    /\ q.step \in {"redeem.count", "redeem.record"} => grants[q.ref] > 0

\* A page saved for another reason holds a VIP that the page had or was given.
HeldEdit(q) ==
    /\ q.account \in Businesses /\ q.profile \in Profile
    /\ q.profile.plan = "vip" => Justified(q.account)

HeldGrant(q) ==
    /\ q.step = "idle" => q = Idle
    /\ q.step \in Settling => HeldSettle(q)
    /\ q.step \in Redeeming => HeldRedeem(q)
    /\ q.step = "save" => HeldEdit(q)

\* What settle, redeem and the profile's other writers rely on from one await to
\* the next: a payment stays paid, a use counted on a copy stays within the
\* limit, and a VIP in memory is one somebody gave, whatever else ran meanwhile.
GrantInvariant ==
    /\ \A x \in paid : activations[x] # None
    /\ \A r \in Requests : HeldGrant(req[r])

\* When calls do not overlap: one request is at work at most, and what it is
\* about to grant was not granted before.
CalmInvariant ==
    calm =>
        /\ \A q, r \in Requests : req[q] # Idle /\ req[r] # Idle => q = r
        /\ \A r \in Requests :
              req[r].step \in {"settle.profile", "settle.save"} => grants[req[r].ref] = 0
        /\ \A x \in Checkouts :
              \/ grants[x] = 0
              \/ /\ grants[x] = 1
                 /\ Active(x) \/ \E r \in Requests :
                                   req[r].step = "settle.record" /\ req[r].ref = x
================================================================================
