--------------------------- MODULE PlanBillingProofs ---------------------------
(***************************************************************************)
(* Theorems about PlanBilling, for any businesses, checkouts, codes,       *)
(* periods and requests in flight.                                         *)
(***************************************************************************)
EXTENDS PlanBilling, TLAPS

\* The invariant: the properties, and what requests in flight hold.
PlanInv ==
    TypeOK /\ GrantInvariant /\ RecordedWasGranted /\ VipIsPaidFor /\ CodesWithinUses

\* What every step of the code leaves true: nothing that a request in flight
\* relied on when it loaded its copies is ever taken back.
Grows ==
    /\ paid \subseteq paid'
    /\ courtesy \subseteq courtesy'
    /\ \A x \in References : grants[x] > 0 => grants'[x] > 0
    /\ \A x \in Checkouts : activations[x] # None =>
          /\ activations'[x] # None
          /\ activations'[x].account = activations[x].account
          /\ activations'[x].period = activations[x].period
    /\ \A c \in Codes : codes[c] # None =>
          /\ codes'[c] # None
          /\ codes'[c].maxUses = codes[c].maxUses
          /\ codes'[c].period = codes[c].period
          /\ codes[c].usedCount > 0 => codes'[c].usedCount > 0

LEMMA SameGrows ==
    ASSUME UNCHANGED <<paid, courtesy, grants, activations, codes>>
    PROVE  Grows
BY DEF Grows

\* Who has been granted a period stays granted, to the same business.
LEMMA JustifiedGrows ==
    ASSUME PlanInv, Grows, NEW b \in Businesses, Justified(b)
    PROVE  Justified(b)'
<1>1. CASE b \in courtesy
  BY <1>1 DEF Justified, Grows
<1>2. CASE \E x \in References : grants[x] > 0 /\ Beneficiary(x) = b
  <2>1. PICK x \in References : grants[x] > 0 /\ Beneficiary(x) = b
    BY <1>2
  <2>2. grants'[x] > 0
    BY <2>1 DEF Grows
  <2>3. Beneficiary(x)' = b
    <3>1. CASE x \in Checkouts
      <4>1. activations[x] # None
        BY <3>1, <2>1 DEF PlanInv, VipIsPaidFor, GrantInvariant
      <4> QED
        BY <4>1, <3>1, <2>1 DEF Grows, Beneficiary
    <3>2. CASE x \notin Checkouts
      BY <3>2, <2>1 DEF Beneficiary
    <3> QED
      BY <3>1, <3>2
  <2> QED
    BY <2>2, <2>3 DEF Justified
<1> QED
  BY <1>1, <1>2 DEF Justified

\* A request that did not move still holds what it held.
LEMMA HeldGrows ==
    ASSUME PlanInv, Grows, NEW q \in Requests, req'[q] = req[q]
    PROVE  HeldGrant(req[q])'
<1>0. HeldGrant(req[q])
  BY DEF PlanInv, GrantInvariant
<1>1. req[q].step = "idle" => req'[q] = Idle
  BY <1>0 DEF HeldGrant
<1>2. req[q].step \in Settling => HeldSettle(req[q])'
  <2> SUFFICES ASSUME req[q].step \in Settling PROVE HeldSettle(req[q])'
    OBVIOUS
  <2>1. HeldSettle(req[q])
    BY <1>0 DEF HeldGrant
  <2>2. req[q].ref \in References
    BY <2>1 DEF HeldSettle, References
  <2> QED
    BY <2>1, <2>2 DEF HeldSettle, Grows
<1>3. req[q].step \in Redeeming => HeldRedeem(req[q])'
  <2> SUFFICES ASSUME req[q].step \in Redeeming PROVE HeldRedeem(req[q])'
    OBVIOUS
  <2>1. HeldRedeem(req[q])
    BY <1>0 DEF HeldGrant
  <2>2. PICK c \in Codes :
          /\ req[q].ref = <<c, req[q].account>>
          /\ codes[c] # None /\ req[q].code \in Code
          /\ req[q].code.maxUses = codes[c].maxUses
          /\ req[q].code.period = codes[c].period
          /\ req[q].code.usedCount \in 1..req[q].code.maxUses
          /\ req[q].step = "redeem.record" => codes[c].usedCount > 0
    BY <2>1 DEF HeldRedeem
  <2>3. req[q].ref \in References
    BY <2>1, <2>2 DEF HeldRedeem, References
  <2> QED
    BY <2>1, <2>2, <2>3 DEF HeldRedeem, Grows
<1>4. req[q].step = "save" => HeldEdit(req[q])'
  <2> SUFFICES ASSUME req[q].step = "save" PROVE HeldEdit(req[q])'
    OBVIOUS
  <2>1. HeldEdit(req[q])
    BY <1>0 DEF HeldGrant
  <2>2. Justified(req[q].account) => Justified(req[q].account)'
    BY <2>1, JustifiedGrows DEF HeldEdit, Justified, Beneficiary, References
  <2> QED
    BY <2>1, <2>2 DEF HeldEdit
<1> QED
  BY <1>1, <1>2, <1>3, <1>4 DEF HeldGrant

\* A step of request r keeps the invariant if nothing is taken back, r holds what
\* its next step needs, and what it wrote is covered.
LEMMA StepKeeps ==
    ASSUME PlanInv, TypeOK', Grows,
           \A q \in Requests : req'[q] = req[q] \/ HeldGrant(req[q])',
           \A x \in paid' : x \in paid \/ activations'[x] # None,
           \A x \in References : Active(x)' => Active(x) \/ grants'[x] > 0,
           \A x \in Checkouts : grants'[x] > 0 => grants[x] > 0 \/ x \in paid',
           \A b \in Businesses : profiles'[b].plan = "vip" =>
               profiles[b].plan = "vip" \/ Justified(b)',
           \A c \in Codes : codes'[c] # None =>
               \/ codes[c] # None /\ codes'[c].usedCount = codes[c].usedCount
               \/ codes'[c].usedCount <= codes'[c].maxUses,
           \A c \in Codes, b \in Businesses : Active(<<c, b>>)' =>
               \/ Active(<<c, b>>)
               \/ codes'[c] # None /\ codes'[c].usedCount > 0
    PROVE  PlanInv'
<1>1. GrantInvariant'
  <2>1. \A x \in paid' : activations'[x] # None
    BY DEF PlanInv, GrantInvariant, Grows, TypeOK
  <2>2. \A q \in Requests : HeldGrant(req[q])'
    BY HeldGrows
  <2> QED
    BY <2>1, <2>2 DEF GrantInvariant
<1>2. RecordedWasGranted'
  BY DEF PlanInv, RecordedWasGranted, Grows
<1>3. VipIsPaidFor'
  <2>1. \A b \in Businesses : profiles'[b].plan = "vip" => Justified(b)'
    BY JustifiedGrows DEF PlanInv, VipIsPaidFor
  <2>2. \A x \in Checkouts : grants'[x] > 0 => x \in paid'
    BY DEF PlanInv, VipIsPaidFor, Grows
  <2> QED
    BY <2>1, <2>2 DEF VipIsPaidFor
<1>4. CodesWithinUses'
  <2>1. ASSUME NEW c \in Codes, codes'[c] # None
        PROVE  codes'[c].usedCount <= codes'[c].maxUses
    BY <2>1 DEF PlanInv, CodesWithinUses, Grows
  <2>2. ASSUME NEW c \in Codes, NEW b \in Businesses, Active(<<c, b>>)'
        PROVE  codes'[c] # None /\ codes'[c].usedCount > 0
    BY <2>2 DEF PlanInv, CodesWithinUses, Grows
  <2> QED
    BY <2>1, <2>2 DEF CodesWithinUses
<1> QED
  BY <1>1, <1>2, <1>3, <1>4 DEF PlanInv

\* The same for a step that only moves a request on.
LEMMA MoveKeeps ==
    ASSUME PlanInv, TypeOK',
           UNCHANGED <<profiles, activations, codes, grants, courtesy, paid>>,
           \A q \in Requests : req'[q] = req[q] \/ HeldGrant(req[q])'
    PROVE  PlanInv'
<1>1. Grows
  BY SameGrows
<1>2. \A x \in References : Active(x)' <=> Active(x)
  BY DEF Active
<1>3. \A c \in Codes, b \in Businesses : <<c, b>> \in References
  BY DEF References
<1> QED
  BY <1>1, <1>2, <1>3, StepKeeps

LEMMA IdleHolds ==
    /\ Idle \in Request
    /\ Idle.step \notin Settling \cup Redeeming \cup {"save"}
BY DEF Idle, Request, Steps, Settling, Redeeming

LEMMA FinishHolds ==
    ASSUME TypeOK, NEW r \in Requests, Finish(r)
    PROVE  /\ req' \in [Requests -> Request]
           /\ \A q \in Requests : req'[q] = req[q] \/ HeldGrant(req[q])'
<1>1. req' \in [Requests -> Request]
  BY IdleHolds DEF TypeOK, Finish
<1>2. req'[r] = Idle
  BY DEF TypeOK, Finish
<1>3. HeldGrant(req[r])'
  BY <1>2, IdleHolds DEF HeldGrant
<1>4. \A q \in Requests : q # r => req'[q] = req[q]
  BY DEF TypeOK, Finish
<1> QED
  BY <1>1, <1>3, <1>4

LEMMA InitKeeps == Init => PlanInv
<1> SUFFICES ASSUME Init PROVE PlanInv
  OBVIOUS
<1>1. TypeOK
  <2>1. profiles \in [Businesses -> Profile]
    BY DEF Init, Profile
  <2>2. req \in [Requests -> Request]
    BY IdleHolds DEF Init
  <2> QED
    BY <2>1, <2>2 DEF Init, TypeOK
<1>2. GrantInvariant
  BY IdleHolds DEF Init, GrantInvariant, HeldGrant
<1>3. RecordedWasGranted
  BY DEF Init, RecordedWasGranted, Active
<1>4. VipIsPaidFor
  BY DEF Init, VipIsPaidFor, References
<1>5. CodesWithinUses
  BY DEF Init, CodesWithinUses, Active, References
<1> QED
  BY <1>1, <1>2, <1>3, <1>4, <1>5 DEF PlanInv

LEMMA AbandonKeeps ==
    ASSUME PlanInv, NEW r \in Requests, Abandon(r) PROVE PlanInv'
<1>1. TypeOK
  BY DEF PlanInv
<1>2. /\ req' \in [Requests -> Request]
      /\ \A q \in Requests : req'[q] = req[q] \/ HeldGrant(req[q])'
  BY <1>1, FinishHolds DEF Abandon
<1>3. TypeOK'
  BY <1>1, <1>2 DEF Abandon, TypeOK, tables, history
<1> QED
  BY <1>2, <1>3, MoveKeeps DEF Abandon, tables, history

LEMMA TickKeeps ==
    ASSUME PlanInv, Tick PROVE PlanInv'
<1>1. TypeOK'
  BY DEF PlanInv, Tick, TypeOK, tables, history
<1> QED
  BY <1>1, MoveKeeps DEF Tick, tables, history

LEMMA EditLoadKeeps ==
    ASSUME PlanInv, NEW r \in Requests, NEW b \in Businesses, EditLoad(r, b)
    PROVE  PlanInv'
<1> DEFINE new == [Idle EXCEPT !.step = "save", !.account = b, !.profile = profiles[b]]
<1>1. TypeOK /\ req' = [req EXCEPT ![r] = new]
  BY DEF PlanInv, EditLoad
<1>2. new \in Request
  BY <1>1 DEF TypeOK, Idle, Request, Steps
<1>3. TypeOK'
  BY <1>1, <1>2 DEF EditLoad, TypeOK, tables, history
<1>4. /\ new.step = "save" /\ new.account = b
      /\ new.profile = profiles[b] /\ profiles[b] \in Profile
  BY <1>1 DEF TypeOK, Idle
<1>5. profiles[b].plan = "vip" => Justified(b)'
  BY JustifiedGrows, SameGrows DEF PlanInv, VipIsPaidFor, EditLoad, tables, history
<1>6. req'[r] = new /\ \A q \in Requests : q # r => req'[q] = req[q]
  BY <1>1 DEF TypeOK
<1> HIDE DEF new
<1>7. HeldGrant(req[r])'
  BY <1>4, <1>5, <1>6 DEF HeldGrant, HeldEdit, Settling, Redeeming
<1> QED
  BY <1>3, <1>6, <1>7, MoveKeeps DEF EditLoad, tables, history

LEMMA SettleLoadKeeps ==
    ASSUME PlanInv, NEW r \in Requests, NEW x \in Checkouts, SettleLoad(r, x)
    PROVE  PlanInv'
<1> DEFINE a   == activations[x]
           new == [Idle EXCEPT !.step = "settle.profile", !.account = a.account,
                               !.ref = x, !.activation = a]
<1>1. TypeOK /\ req' = [req EXCEPT ![r] = new] /\ x \in paid
  BY DEF PlanInv, SettleLoad
<1>2. a \in Activation /\ a # None /\ x \in References
  BY <1>1 DEF TypeOK, PlanInv, GrantInvariant, References
<1>3. new \in Request
  BY <1>2 DEF Idle, Request, Steps, Activation
<1>4. TypeOK'
  BY <1>1, <1>3 DEF SettleLoad, TypeOK, tables, history
<1>5. /\ new.step = "settle.profile" /\ new.account = a.account /\ new.ref = x
      /\ new.activation = a /\ a.account \in Businesses
  BY <1>2 DEF Idle, Activation
<1>6. req'[r] = new /\ \A q \in Requests : q # r => req'[q] = req[q]
  BY <1>1 DEF TypeOK
<1>7. UNCHANGED <<profiles, activations, codes, grants, courtesy, paid>>
  BY DEF SettleLoad, tables, history
<1> HIDE DEF new
<1>8. HeldGrant(req[r])'
  BY <1>1, <1>2, <1>5, <1>6, <1>7 DEF HeldGrant, HeldSettle, Settling, Redeeming
<1> QED
  BY <1>4, <1>6, <1>7, <1>8, MoveKeeps

LEMMA RedeemLoadKeeps ==
    ASSUME PlanInv, NEW r \in Requests, NEW b \in Businesses, NEW c \in Codes,
           RedeemLoad(r, b, c)
    PROVE  PlanInv'
<1> DEFINE copy == [codes[c] EXCEPT !.usedCount = @ + 1]
           new  == [Idle EXCEPT !.step = "redeem.profile", !.account = b,
                                !.ref = <<c, b>>, !.code = copy]
<1>1. TypeOK /\ req' = [req EXCEPT ![r] = new] /\ codes[c] # None
  BY DEF PlanInv, RedeemLoad
<1>2. codes[c] \in Code /\ codes[c].usedCount < codes[c].maxUses
  BY <1>1 DEF TypeOK, RedeemLoad, isSpent, Code
<1>3. /\ copy \in Code /\ copy.maxUses = codes[c].maxUses
      /\ copy.period = codes[c].period /\ copy.usedCount \in 1..copy.maxUses
  BY <1>2, PlanConstants DEF Code
<1> HIDE DEF copy
<1>4. new \in Request
  BY <1>3 DEF Idle, Request, Steps, References
<1>5. TypeOK'
  BY <1>1, <1>4 DEF RedeemLoad, TypeOK, tables, history
<1>6. /\ new.step = "redeem.profile" /\ new.account = b /\ new.ref = <<c, b>>
      /\ new.code = copy
  BY DEF Idle
<1>7. req'[r] = new /\ \A q \in Requests : q # r => req'[q] = req[q]
  BY <1>1 DEF TypeOK
<1>8. UNCHANGED <<profiles, activations, codes, grants, courtesy, paid>>
  BY DEF RedeemLoad, tables, history
<1> HIDE DEF new
<1>9. HeldGrant(req[r])'
  BY <1>1, <1>3, <1>6, <1>7, <1>8 DEF HeldGrant, HeldRedeem, Settling, Redeeming
<1> QED
  BY <1>5, <1>7, <1>8, <1>9, MoveKeeps

\* What activateVip makes of a profile is a profile on VIP.
LEMMA ActivateVipIsProfile ==
    ASSUME NEW e \in Profile, NEW p \in Periods, now \in Nat
    PROVE  activateVip(e, p) \in Profile
<1>1. p \in Nat /\ e.expiresAt \in Nat
  BY PlanConstants DEF Profile
<1> QED
  BY <1>1 DEF activateVip, Profile

\* What the record of a grant is made of.
LEMMA RecordsAreActivations ==
    ASSUME NEW b \in Businesses, NEW p \in Periods, NEW at \in Nat
    PROVE  /\ start(b, p) \in Activation
           /\ start(b, p).account = b /\ start(b, p).period = p
           /\ \A a \in Activation :
                 /\ markActive(a, at) \in Activation
                 /\ markActive(a, at).account = a.account
                 /\ markActive(a, at).period = a.period
                 /\ markActive(a, at).status = "active"
BY DEF start, markActive, Activation

LEMMA SettleProfileKeeps ==
    ASSUME PlanInv, NEW r \in Requests, SettleProfile(r)
    PROVE  PlanInv'
<1> DEFINE a   == req[r].activation
           e   == activateVip(profiles[req[r].account], a.period)
           rec == markActive(a, e.expiresAt)
           new == req'[r]
<1>1. TypeOK /\ req[r].step = "settle.profile"
  BY DEF PlanInv, SettleProfile
<1>2. HeldSettle(req[r])
  BY <1>1 DEF PlanInv, GrantInvariant, HeldGrant, Settling
<1>3. a \in Activation /\ a.period \in Periods /\ profiles[req[r].account] \in Profile
  BY <1>1, <1>2 DEF HeldSettle, Activation, TypeOK
<1>4. e \in Profile /\ e.expiresAt \in Nat
  BY <1>1, <1>3, ActivateVipIsProfile DEF TypeOK, Profile
<1>5. /\ rec \in Activation /\ rec.account = a.account /\ rec.period = a.period
      /\ rec.status = "active"
  BY <1>3, <1>4, RecordsAreActivations DEF markActive, Activation
<1> HIDE DEF e, rec
<1>6. /\ req' = [req EXCEPT ![r].step = "settle.save", ![r].profile = e,
                            ![r].activation = rec]
      /\ UNCHANGED <<profiles, activations, codes, grants, courtesy, paid, now, calm>>
  BY DEF SettleProfile, e, rec, tables, history
<1>7. req[r] \in Request
  BY <1>1 DEF TypeOK
<1>8. /\ new = [req[r] EXCEPT !.step = "settle.save", !.profile = e, !.activation = rec]
      /\ \A q \in Requests : q # r => req'[q] = req[q]
      /\ req' = [req EXCEPT ![r] = new]
  BY <1>1, <1>6 DEF TypeOK
<1>9. /\ new \in Request /\ new.step = "settle.save" /\ new.profile = e
      /\ new.activation = rec /\ new.account = req[r].account /\ new.ref = req[r].ref
  BY <1>4, <1>5, <1>7, <1>8 DEF Request, Steps
<1>10. TypeOK'
  BY <1>1, <1>6, <1>8, <1>9 DEF TypeOK
<1>11. HeldGrant(req[r])'
  BY <1>2, <1>4, <1>5, <1>6, <1>9 DEF HeldGrant, HeldSettle, Settling, Redeeming
<1> QED
  BY <1>6, <1>8, <1>10, <1>11, MoveKeeps

LEMMA RedeemProfileKeeps ==
    ASSUME PlanInv, NEW r \in Requests, RedeemProfile(r)
    PROVE  PlanInv'
<1> DEFINE b   == req[r].account
           p   == req[r].code.period
           e   == activateVip(profiles[b], p)
           rec == markActive(start(b, p), e.expiresAt)
           new == req'[r]
<1>1. TypeOK /\ req[r].step = "redeem.profile"
  BY DEF PlanInv, RedeemProfile
<1>2. HeldRedeem(req[r])
  BY <1>1 DEF PlanInv, GrantInvariant, HeldGrant, Redeeming
<1>3. b \in Businesses /\ p \in Periods /\ profiles[b] \in Profile
  BY <1>1, <1>2 DEF HeldRedeem, Code, TypeOK
<1>4. e \in Profile /\ e.expiresAt \in Nat
  BY <1>1, <1>3, ActivateVipIsProfile DEF TypeOK, Profile
<1>5. rec \in Activation
  BY <1>3, <1>4, RecordsAreActivations
<1> HIDE DEF e, rec
<1>6. /\ req' = [req EXCEPT ![r].step = "redeem.save", ![r].profile = e,
                            ![r].activation = rec]
      /\ UNCHANGED <<profiles, activations, codes, grants, courtesy, paid, now, calm>>
  BY DEF RedeemProfile, e, rec, tables, history
<1>7. req[r] \in Request
  BY <1>1 DEF TypeOK
<1>8. /\ new = [req[r] EXCEPT !.step = "redeem.save", !.profile = e, !.activation = rec]
      /\ \A q \in Requests : q # r => req'[q] = req[q]
      /\ req' = [req EXCEPT ![r] = new]
  BY <1>1, <1>6 DEF TypeOK
<1>9. /\ new \in Request /\ new.step = "redeem.save" /\ new.profile = e
      /\ new.activation = rec /\ new.account = b /\ new.ref = req[r].ref
      /\ new.code = req[r].code
  BY <1>4, <1>5, <1>7, <1>8 DEF Request, Steps
<1>10. TypeOK'
  BY <1>1, <1>6, <1>8, <1>9 DEF TypeOK
<1>11. HeldGrant(req[r])'
  BY <1>2, <1>4, <1>5, <1>6, <1>9 DEF HeldGrant, HeldRedeem, Settling, Redeeming
<1> QED
  BY <1>6, <1>8, <1>10, <1>11, MoveKeeps

LEMMA CheckoutKeeps ==
    ASSUME PlanInv, NEW b \in Businesses, NEW x \in Checkouts, NEW p \in Periods,
           Checkout(b, x, p)
    PROVE  PlanInv'
<1>1. TypeOK /\ x \in References /\ 0 \in Nat
  BY DEF PlanInv, References
<1>2. start(b, p) \in Activation /\ start(b, p).status = "pending"
  BY RecordsAreActivations DEF start
<1>3. /\ activations' = [activations EXCEPT ![x] = start(b, p)]
      /\ activations[x] = None
      /\ UNCHANGED <<profiles, codes, grants, courtesy, paid, req, now, calm>>
  BY DEF Checkout, history
<1>4. TypeOK'
  BY <1>1, <1>2, <1>3 DEF TypeOK
<1>5. activations'[x] # None /\ \A y \in References : y # x => activations'[y] = activations[y]
  BY <1>1, <1>2, <1>3, PlanConstants DEF TypeOK
<1>6. Grows
  BY <1>3, <1>5 DEF Grows, References
<1>7. \A y \in References : Active(y)' => Active(y)
  BY <1>1, <1>2, <1>3, <1>5 DEF Active, TypeOK
<1> QED
  BY <1>3, <1>4, <1>6, <1>7, StepKeeps DEF References

LEMMA PayKeeps ==
    ASSUME PlanInv, NEW x \in Checkouts, Pay(x)
    PROVE  PlanInv'
<1>1. /\ UNCHANGED <<profiles, activations, codes, grants, courtesy, req, now, calm>>
      /\ paid' = paid \cup {x} /\ activations[x] # None
  BY DEF Pay, tables, history
<1>2. TypeOK'
  BY <1>1 DEF PlanInv, TypeOK
<1>3. Grows
  BY <1>1 DEF Grows
<1>4. \A y \in References : Active(y)' <=> Active(y)
  BY <1>1 DEF Active
<1> QED
  BY <1>1, <1>2, <1>3, <1>4, StepKeeps DEF References

LEMMA GenerateKeeps ==
    ASSUME PlanInv, NEW c \in Codes, NEW p \in Periods, NEW n \in 1..MaxUses,
           generate(c, p, n)
    PROVE  PlanInv'
<1> DEFINE new == [period |-> p, maxUses |-> n, usedCount |-> 0]
<1>1. /\ UNCHANGED <<profiles, activations, grants, courtesy, paid, req, now, calm>>
      /\ codes' = [codes EXCEPT ![c] = new] /\ codes[c] = None
  BY DEF generate, history
<1>2. new \in Code
  BY PlanConstants DEF Code
<1>3. TypeOK'
  BY <1>1, <1>2 DEF PlanInv, TypeOK
<1>4. codes'[c] = new /\ \A d \in Codes : d # c => codes'[d] = codes[d]
  BY <1>1 DEF PlanInv, TypeOK
<1>5. Grows
  BY <1>1, <1>4 DEF Grows
<1>6. \A x \in References : Active(x)' <=> Active(x)
  BY <1>1 DEF Active
<1> QED
  BY <1>1, <1>3, <1>4, <1>5, <1>6, StepKeeps DEF References

LEMMA PlanLoadKeeps ==
    ASSUME PlanInv, NEW r \in Requests, NEW b \in Businesses,
           NEW plan \in {"free", "vip"}, PlanLoad(r, b, plan)
    PROVE  PlanInv'
<1> DEFINE new == [Idle EXCEPT !.step = "save", !.account = b, !.profile = setPlan(plan)]
<1>1. TypeOK /\ req' = [req EXCEPT ![r] = new]
  BY DEF PlanInv, PlanLoad
<1>2. setPlan(plan) \in Profile /\ setPlan(plan).plan = plan
  BY DEF setPlan, Profile
<1>3. new \in Request
  BY <1>2 DEF Idle, Request, Steps
<1>4. new.step = "save" /\ new.account = b /\ new.profile = setPlan(plan)
  BY DEF Idle
<1>5. req'[r] = new /\ \A q \in Requests : q # r => req'[q] = req[q]
  BY <1>1 DEF TypeOK
<1> HIDE DEF new
<1>6. /\ UNCHANGED <<profiles, activations, codes, grants, paid, now, calm>>
      /\ courtesy \subseteq courtesy' /\ courtesy' \subseteq courtesy \cup {b}
      /\ plan = "vip" => b \in courtesy'
  BY DEF PlanLoad, tables
<1>7. TypeOK'
  BY <1>1, <1>3, <1>6 DEF TypeOK
<1>8. Grows
  BY <1>6 DEF Grows
<1>9. HeldGrant(req[r])'
  BY <1>2, <1>4, <1>5, <1>6 DEF HeldGrant, HeldEdit, Justified, Settling, Redeeming
<1>10. \A x \in References : Active(x)' <=> Active(x)
  BY <1>6 DEF Active
<1> QED
  BY <1>5, <1>6, <1>7, <1>8, <1>9, <1>10, StepKeeps DEF References

LEMMA SaveKeeps ==
    ASSUME PlanInv, NEW r \in Requests, Save(r)
    PROVE  PlanInv'
<1> DEFINE b == req[r].account
<1>1. TypeOK /\ req[r].step = "save"
  BY DEF PlanInv, Save
<1>2. HeldEdit(req[r])
  BY <1>1 DEF PlanInv, GrantInvariant, HeldGrant
<1>3. /\ profiles' = [profiles EXCEPT ![b] = req[r].profile] /\ Finish(r)
      /\ UNCHANGED <<activations, codes, grants, courtesy, paid, now, calm>>
  BY DEF Save, history
<1>4. /\ req' \in [Requests -> Request]
      /\ \A q \in Requests : req'[q] = req[q] \/ HeldGrant(req[q])'
  BY <1>1, <1>3, FinishHolds
<1>5. TypeOK'
  BY <1>1, <1>2, <1>3, <1>4 DEF TypeOK, HeldEdit
<1>6. Grows
  BY <1>3, SameGrows
<1>7. ASSUME NEW d \in Businesses, profiles'[d].plan = "vip"
      PROVE  profiles[d].plan = "vip" \/ Justified(d)'
  <2>1. CASE d = b
    <3>1. profiles'[d] = req[r].profile
      BY <1>1, <1>2, <1>3, <2>1 DEF TypeOK
    <3>2. Justified(d)
      BY <1>2, <1>7, <2>1, <3>1 DEF HeldEdit
    <3> QED
      BY <3>2, <1>6, JustifiedGrows
  <2>2. CASE d # b
    BY <1>1, <1>3, <1>7, <2>2 DEF TypeOK
  <2> QED
    BY <2>1, <2>2
<1>8. \A x \in References : Active(x)' <=> Active(x)
  BY <1>3 DEF Active
<1> QED
  BY <1>3, <1>4, <1>5, <1>6, <1>7, <1>8, StepKeeps DEF References

\* A save of a profile by a grant: the page is on VIP for a reference that has
\* been granted, and the request goes on to record it.
LEMMA GrantKeeps ==
    ASSUME PlanInv, NEW r \in Requests, NEW s \in Steps, Grant(r), Continue(r, s),
           UNCHANGED <<activations, codes, courtesy, paid, now, calm>>,
           NEW b \in Businesses, NEW x \in References,
           req[r].account = b, req[r].ref = x, req[r].profile \in Profile,
           Beneficiary(x) = b, x \in Checkouts => x \in paid,
           grants'[x] > 0 => HeldGrant(req[r])'
    PROVE  PlanInv'
<1>1. TypeOK
  BY DEF PlanInv
<1>2. /\ profiles' = [profiles EXCEPT ![b] = req[r].profile]
      /\ grants' = [grants EXCEPT ![x] = @ + 1]
  BY DEF Grant
<1>3. /\ grants' \in [References -> Nat] /\ grants'[x] > 0
      /\ \A y \in References : grants[y] > 0 => grants'[y] > 0
      /\ \A y \in References : y # x => grants'[y] = grants[y]
  BY <1>1, <1>2 DEF TypeOK
<1>4. /\ req' \in [Requests -> Request]
      /\ \A q \in Requests : q # r => req'[q] = req[q]
  <2>1. [req[r] EXCEPT !.step = s] \in Request
    BY <1>1 DEF TypeOK, Request
  <2>2. req' = [req EXCEPT ![r] = [req[r] EXCEPT !.step = s]]
    BY <1>1 DEF Continue, TypeOK
  <2> QED
    BY <1>1, <2>1, <2>2 DEF TypeOK
<1>5. TypeOK'
  BY <1>1, <1>2, <1>3, <1>4 DEF TypeOK
<1>6. Grows
  BY <1>3 DEF Grows
<1>7. Justified(b)'
  <2>1. Beneficiary(x)' = b
    BY DEF Beneficiary
  <2> QED
    BY <1>3, <2>1 DEF Justified
<1>8. \A d \in Businesses : profiles'[d].plan = "vip" =>
          profiles[d].plan = "vip" \/ Justified(d)'
  BY <1>1, <1>2, <1>7 DEF TypeOK
<1>9. \A y \in References : Active(y)' <=> Active(y)
  BY DEF Active
<1>10. \A y \in Checkouts : grants'[y] > 0 => grants[y] > 0 \/ y \in paid'
  BY <1>3 DEF References
<1> QED
  BY <1>3, <1>4, <1>5, <1>6, <1>8, <1>9, <1>10, StepKeeps DEF References

LEMMA SettleSaveKeeps ==
    ASSUME PlanInv, NEW r \in Requests, SettleSave(r)
    PROVE  PlanInv'
<1>1. TypeOK /\ req[r].step = "settle.save" /\ req[r] \in Request
  BY DEF PlanInv, SettleSave, TypeOK
<1>2. HeldSettle(req[r])
  BY <1>1 DEF PlanInv, GrantInvariant, HeldGrant, Settling
<1>3. /\ Grant(r) /\ Continue(r, "settle.record")
      /\ UNCHANGED <<activations, codes, courtesy, paid, now, calm>>
  BY DEF SettleSave
<1>4. /\ req'[r].step = "settle.record" /\ req'[r].account = req[r].account
      /\ req'[r].ref = req[r].ref /\ req'[r].profile = req[r].profile
      /\ req'[r].activation = req[r].activation
  BY <1>1, <1>3 DEF Continue, TypeOK, Request
<1>5. Beneficiary(req[r].ref) = req[r].account /\ req[r].ref \in References
  BY <1>2 DEF HeldSettle, Beneficiary, References
<1>6. grants'[req[r].ref] > 0 => HeldGrant(req[r])'
  BY <1>1, <1>2, <1>3, <1>4 DEF HeldSettle, HeldGrant, Settling, Redeeming
<1> QED
  BY <1>1, <1>2, <1>3, <1>5, <1>6, GrantKeeps DEF HeldSettle, Steps

LEMMA RedeemSaveKeeps ==
    ASSUME PlanInv, NEW r \in Requests, RedeemSave(r)
    PROVE  PlanInv'
<1>1. TypeOK /\ req[r].step = "redeem.save" /\ req[r] \in Request
  BY DEF PlanInv, RedeemSave, TypeOK
<1>2. HeldRedeem(req[r])
  BY <1>1 DEF PlanInv, GrantInvariant, HeldGrant, Redeeming
<1>3. /\ Grant(r) /\ Continue(r, "redeem.count")
      /\ UNCHANGED <<activations, codes, courtesy, paid, now, calm>>
  BY DEF RedeemSave
<1>4. /\ req'[r].step = "redeem.count" /\ req'[r].account = req[r].account
      /\ req'[r].ref = req[r].ref /\ req'[r].profile = req[r].profile
      /\ req'[r].activation = req[r].activation /\ req'[r].code = req[r].code
  BY <1>1, <1>3 DEF Continue, TypeOK, Request
<1>5. /\ req[r].ref \in Codes \X Businesses /\ req[r].ref[2] = req[r].account
      /\ req[r].account \in Businesses
  BY <1>2 DEF HeldRedeem
<1>6. req[r].ref \notin Checkouts
  BY <1>5, PlanConstants
<1>7. Beneficiary(req[r].ref) = req[r].account /\ req[r].ref \in References
  BY <1>5, <1>6 DEF Beneficiary, References
<1>8. grants'[req[r].ref] > 0 => HeldGrant(req[r])'
  BY <1>1, <1>2, <1>3, <1>4 DEF HeldRedeem, HeldGrant, Settling, Redeeming
<1> QED
  BY <1>1, <1>2, <1>3, <1>6, <1>7, <1>8, GrantKeeps DEF HeldRedeem, Steps

LEMMA SettleRecordKeeps ==
    ASSUME PlanInv, NEW r \in Requests, SettleRecord(r)
    PROVE  PlanInv'
<1>1. TypeOK /\ req[r].step = "settle.record"
  BY DEF PlanInv, SettleRecord
<1>2. HeldSettle(req[r])
  BY <1>1 DEF PlanInv, GrantInvariant, HeldGrant, Settling
<1>3. PICK x \in Checkouts, a \in Activation :
          /\ req[r].ref = x /\ req[r].activation = a
          /\ activations[x] # None /\ x \in References /\ grants[x] > 0
          /\ activations[x].account = a.account /\ activations[x].period = a.period
  BY <1>1, <1>2 DEF HeldSettle, References
<1>4. /\ activations' = [activations EXCEPT ![x] = a] /\ Finish(r)
      /\ UNCHANGED <<profiles, codes, grants, courtesy, paid, now, calm>>
  BY <1>3 DEF SettleRecord, history
<1>5. /\ req' \in [Requests -> Request]
      /\ \A q \in Requests : req'[q] = req[q] \/ HeldGrant(req[q])'
  BY <1>1, <1>4, FinishHolds
<1>6. TypeOK'
  BY <1>1, <1>3, <1>4, <1>5 DEF TypeOK
<1>7. /\ activations'[x] = a /\ a # None
      /\ \A y \in References : y # x => activations'[y] = activations[y]
  BY <1>1, <1>3, <1>4, PlanConstants DEF TypeOK
<1>8. Grows
  BY <1>3, <1>4, <1>7 DEF Grows, References
<1>9. \A y \in References : Active(y)' => Active(y) \/ grants'[y] > 0
  BY <1>3, <1>4, <1>7 DEF Active
<1>10. \A c \in Codes, b \in Businesses : <<c, b>> \in References /\ <<c, b>> # x
  BY <1>3, PlanConstants DEF References
<1>11. \A c \in Codes, b \in Businesses : Active(<<c, b>>)' => Active(<<c, b>>)
  BY <1>7, <1>10 DEF Active
<1> QED
  BY <1>4, <1>5, <1>6, <1>8, <1>9, <1>11, StepKeeps

LEMMA RedeemCountKeeps ==
    ASSUME PlanInv, NEW r \in Requests, RedeemCount(r)
    PROVE  PlanInv'
<1>1. TypeOK /\ req[r].step = "redeem.count" /\ req[r] \in Request
  BY DEF PlanInv, RedeemCount, TypeOK
<1>2. HeldRedeem(req[r])
  BY <1>1 DEF PlanInv, GrantInvariant, HeldGrant, Redeeming
<1>3. PICK c \in Codes, k \in Code :
          /\ req[r].ref = <<c, req[r].account>> /\ req[r].code = k
          /\ codes[c] # None
          /\ k.maxUses = codes[c].maxUses /\ k.period = codes[c].period
          /\ k.usedCount \in 1..k.maxUses
  BY <1>2 DEF HeldRedeem
<1>4. /\ codes' = [codes EXCEPT ![c] = k] /\ Continue(r, "redeem.record")
      /\ UNCHANGED <<profiles, activations, grants, courtesy, paid, now, calm>>
  BY <1>3 DEF RedeemCount, history
<1>5. /\ req'[r] = [req[r] EXCEPT !.step = "redeem.record"]
      /\ req' = [req EXCEPT ![r] = [req[r] EXCEPT !.step = "redeem.record"]]
      /\ \A q \in Requests : q # r => req'[q] = req[q]
  BY <1>1, <1>4 DEF Continue, TypeOK
<1>6. /\ req'[r] \in Request /\ req'[r].step = "redeem.record"
      /\ req'[r].account = req[r].account /\ req'[r].ref = req[r].ref
      /\ req'[r].profile = req[r].profile /\ req'[r].code = k
      /\ req'[r].activation = req[r].activation
  BY <1>1, <1>3, <1>5 DEF Request, Steps
<1>7. TypeOK'
  BY <1>1, <1>3, <1>4, <1>5, <1>6 DEF TypeOK
<1>8. codes'[c] = k /\ k # None /\ \A d \in Codes : d # c => codes'[d] = codes[d]
  BY <1>1, <1>4, PlanConstants DEF TypeOK
<1>9. k.maxUses \in Nat /\ k.usedCount > 0 /\ k.usedCount <= k.maxUses
  BY <1>3 DEF Code
<1>10. Grows
  BY <1>3, <1>4, <1>8, <1>9 DEF Grows
<1>11. HeldGrant(req[r])'
  BY <1>1, <1>2, <1>3, <1>4, <1>6, <1>8, <1>9
  DEF HeldRedeem, HeldGrant, Settling, Redeeming
<1>12. \A x \in References : Active(x)' <=> Active(x)
  BY <1>4 DEF Active
<1> QED
  BY <1>4, <1>5, <1>7, <1>8, <1>9, <1>10, <1>11, <1>12, StepKeeps DEF References

LEMMA RedeemRecordKeeps ==
    ASSUME PlanInv, NEW r \in Requests, RedeemRecord(r)
    PROVE  PlanInv'
<1>1. TypeOK /\ req[r].step = "redeem.record"
  BY DEF PlanInv, RedeemRecord
<1>2. HeldRedeem(req[r])
  BY <1>1 DEF PlanInv, GrantInvariant, HeldGrant, Redeeming
<1>3. PICK c \in Codes, b \in Businesses, a \in Activation :
          /\ req[r].ref = <<c, b>> /\ req[r].activation = a
          /\ codes[c] # None /\ codes[c].usedCount > 0 /\ grants[<<c, b>>] > 0
  BY <1>1, <1>2 DEF HeldRedeem
<1> DEFINE x == <<c, b>>
<1>4. x \in References /\ x \notin Checkouts
  BY PlanConstants DEF References
<1>5. /\ activations' \in {activations, [activations EXCEPT ![x] = a]} /\ Finish(r)
      /\ activations[x] # None => activations' = activations
      /\ UNCHANGED <<profiles, codes, grants, courtesy, paid, now, calm>>
  BY <1>3 DEF RedeemRecord, history
<1>6. /\ req' \in [Requests -> Request]
      /\ \A q \in Requests : req'[q] = req[q] \/ HeldGrant(req[q])'
  BY <1>1, <1>5, FinishHolds
<1>7. TypeOK'
  BY <1>1, <1>3, <1>4, <1>5, <1>6 DEF TypeOK
<1>8. \A y \in References : y # x => activations'[y] = activations[y]
  BY <1>1, <1>4, <1>5 DEF TypeOK
<1>9. Grows
  BY <1>4, <1>5, <1>8 DEF Grows, References
<1>10. \A y \in References : y # x => (Active(y)' <=> Active(y))
  BY <1>8 DEF Active
<1>11. \A d \in Codes, e \in Businesses :
           <<d, e>> \in References /\ (<<d, e>> = x => d = c)
  BY DEF References
<1> HIDE DEF x
<1>12. \A y \in References : Active(y)' => Active(y) \/ grants'[y] > 0
  BY <1>3, <1>5, <1>10 DEF x
<1>13. \A d \in Codes, e \in Businesses : Active(<<d, e>>)' =>
           Active(<<d, e>>) \/ (codes'[d] # None /\ codes'[d].usedCount > 0)
  BY <1>3, <1>5, <1>10, <1>11
<1> QED
  BY <1>5, <1>6, <1>7, <1>9, <1>12, <1>13, StepKeeps

LEMMA NextKeeps == PlanInv /\ [Next]_vars => PlanInv'
<1> SUFFICES ASSUME PlanInv, [Next]_vars PROVE PlanInv'
  OBVIOUS
<1>1. ASSUME NEW r \in Requests, Settle(r) PROVE PlanInv'
  BY <1>1, SettleLoadKeeps, SettleProfileKeeps, SettleSaveKeeps, SettleRecordKeeps
  DEF Settle
<1>2. ASSUME NEW r \in Requests, Redeem(r) PROVE PlanInv'
  BY <1>2, RedeemLoadKeeps, RedeemProfileKeeps, RedeemSaveKeeps, RedeemCountKeeps,
     RedeemRecordKeeps
  DEF Redeem
<1>3. ASSUME NEW r \in Requests, Edit(r) PROVE PlanInv'
  BY <1>3, PlanLoadKeeps, EditLoadKeeps, SaveKeeps DEF Edit
<1>4. CASE UNCHANGED vars
  <2>1. TypeOK'
    BY <1>4 DEF PlanInv, TypeOK, vars, tables, history
  <2> QED
    BY <1>4, <2>1, MoveKeeps DEF vars, tables, history
<1> QED
  BY <1>1, <1>2, <1>3, <1>4, AbandonKeeps, CheckoutKeeps, PayKeeps, GenerateKeeps,
     TickKeeps
  DEF Next

(***************************************************************************)
(* What plan billing guarantees, whatever overlaps or dies.                *)
(***************************************************************************)

LEMMA PlanInvHolds == Spec => []PlanInv
BY InitKeeps, NextKeeps, PTL DEF Spec

\* Every row of the plan tables and every copy in flight keeps its type.
THEOREM PlanTypeCorrect == Spec => []TypeOK
<1>1. PlanInv => TypeOK
  BY DEF PlanInv
<1> QED
  BY <1>1, PlanInvHolds, PTL

\* redeem() and settle() save the activation after the profile: no business has an
\* activation in its history whose period its page was never given.
THEOREM RecordedWasGrantedHolds == Spec => []RecordedWasGranted
<1>1. PlanInv => RecordedWasGranted
  BY DEF PlanInv
<1> QED
  BY <1>1, PlanInvHolds, PTL

\* checkout()'s promise: no page is on VIP but by an admin, a code or a checkout
\* that was paid, although whole profiles are saved from stale copies.
THEOREM VipIsPaidForHolds == Spec => []VipIsPaidFor
<1>1. PlanInv => VipIsPaidFor
  BY DEF PlanInv
<1> QED
  BY <1>1, PlanInvHolds, PTL

\* PlanActivationCode.redeem() counts on copies that overwrite each other, and
\* still no code counts past its limit or misses the first use of it.
THEOREM CodesWithinUsesHolds == Spec => []CodesWithinUses
<1>1. PlanInv => CodesWithinUses
  BY DEF PlanInv
<1> QED
  BY <1>1, PlanInvHolds, PTL

\* What settle(), redeem() and the profile's other writers rely on between awaits.
THEOREM GrantInvariantHolds == Spec => []GrantInvariant
<1>1. PlanInv => GrantInvariant
  BY DEF PlanInv
<1> QED
  BY <1>1, PlanInvHolds, PTL

(***************************************************************************)
(* What it guarantees when calls do not overlap.                           *)
(***************************************************************************)

\* Who is at work: r, or nobody.
Alone(r) == \A q \in Requests : q # r => req[q] = Idle

\* No payment is granted without its activation being active already.
Settled == \A x \in Checkouts : grants[x] = 0 \/ (grants[x] = 1 /\ Active(x))

LEMMA WorksAlone ==
    ASSUME PlanInv, CalmInvariant, calm, NEW r \in Requests, req[r].step # "idle"
    PROVE  Alone(r) /\ (req[r].step # "settle.record" => Settled)
<1>1. req[r] # Idle
  BY DEF Idle
<1>2. Alone(r)
  BY <1>1 DEF CalmInvariant, Alone
<1>3. \A q \in Requests : q # r => req[q].step = "idle"
  BY <1>2 DEF Alone, Idle
<1> QED
  BY <1>2, <1>3 DEF CalmInvariant, Settled

LEMMA NobodyWorks ==
    ASSUME PlanInv, CalmInvariant, calm, \A q \in Requests : req[q] = Idle
    PROVE  Settled
<1>1. \A q \in Requests : req[q].step = "idle"
  BY DEF Idle
<1> QED
  BY <1>1 DEF CalmInvariant, Settled

LEMMA CalmStep ==
    ASSUME NEW r \in Requests, Alone(r)',
           req'[r].step \in {"settle.profile", "settle.save"} => grants'[req'[r].ref] = 0,
           \A x \in Checkouts :
               \/ grants'[x] = 0
               \/ /\ grants'[x] = 1
                  /\ Active(x)' \/ (req'[r].step = "settle.record" /\ req'[r].ref = x)
    PROVE  CalmInvariant'
<1>1. \A q \in Requests : q # r => req'[q] = Idle /\ req'[q].step = "idle"
  BY DEF Alone, Idle
<1> QED
  BY <1>1 DEF CalmInvariant

\* A request of a calm behaviour arrives when nobody is at work.
LEMMA ArrivalKeepsCalm ==
    ASSUME PlanInv, CalmInvariant, calm, NEW r \in Requests, NEW e, Arrives(r, e),
           NEW new, req' = [req EXCEPT ![r] = new],
           UNCHANGED <<activations, grants>>,
           new.step = "settle.profile" => new.ref \in Checkouts /\ ~Active(new.ref),
           new.step # "settle.save"
    PROVE  CalmInvariant'
<1>1. \A q \in Requests : req[q] = Idle
  BY DEF Arrives
<1>2. Settled
  BY <1>1, NobodyWorks
<1>3. req'[r] = new /\ \A q \in Requests : q # r => req'[q] = Idle
  BY <1>1 DEF PlanInv, TypeOK
<1>4. Alone(r)'
  BY <1>3 DEF Alone
<1>5. \A x \in Checkouts : Active(x)' <=> Active(x)
  BY DEF Active
<1> QED
  BY <1>2, <1>3, <1>4, <1>5, CalmStep DEF Settled

\* A request goes on, or ends, without granting or recording a payment.
LEMMA MovingKeepsCalm ==
    ASSUME PlanInv, CalmInvariant, calm, NEW r \in Requests,
           req[r].step \notin {"idle", "settle.record"},
           NEW new, req' = [req EXCEPT ![r] = new],
           \A x \in Checkouts : grants'[x] = grants[x] /\ activations'[x] = activations[x],
           new.step = "settle.save" =>
               /\ req[r].step = "settle.profile" /\ new.ref = req[r].ref
               /\ req[r].ref \in Checkouts,
           new.step # "settle.profile"
    PROVE  CalmInvariant'
<1>1. Alone(r) /\ Settled
  BY WorksAlone
<1>2. req'[r] = new /\ \A q \in Requests : q # r => req'[q] = req[q]
  BY DEF PlanInv, TypeOK
<1>3. Alone(r)'
  BY <1>1, <1>2 DEF Alone
<1>4. req[r].step = "settle.profile" => grants[req[r].ref] = 0
  BY DEF CalmInvariant
<1>5. \A x \in Checkouts : Active(x)' <=> Active(x)
  BY DEF Active
<1> QED
  BY <1>1, <1>2, <1>3, <1>4, <1>5, CalmStep DEF Settled

LEMMA SettlingKeepsCalm ==
    ASSUME PlanInv, CalmInvariant, calm, NEW r \in Requests, Settle(r)
    PROVE  CalmInvariant'
<1> USE DEF PlanInv, tables, history
<1>1. ASSUME NEW x \in Checkouts, SettleLoad(r, x) PROVE CalmInvariant'
  <2> DEFINE a   == activations[x]
             new == [Idle EXCEPT !.step = "settle.profile", !.account = a.account,
                                 !.ref = x, !.activation = a]
  <2>1. new.step = "settle.profile" /\ new.ref = x
    BY DEF Idle
  <2>2. /\ Arrives(r, "settle") /\ req' = [req EXCEPT ![r] = new]
        /\ UNCHANGED <<activations, grants>> /\ ~Active(x)
    BY <1>1 DEF SettleLoad, Active
  <2> HIDE DEF new
  <2> QED
    BY <2>1, <2>2, ArrivalKeepsCalm
<1>2. ASSUME SettleProfile(r) PROVE CalmInvariant'
  <2>1. PICK new : /\ req' = [req EXCEPT ![r] = new]
                   /\ new.step = "settle.save" /\ new.ref = req[r].ref
    <3> DEFINE new == [req[r] EXCEPT !.step = "settle.save", !.profile = req'[r].profile,
                                     !.activation = req'[r].activation]
    <3>1. req[r] \in Request
      BY DEF TypeOK
    <3>2. req' = [req EXCEPT ![r] = new]
      BY <1>2, <3>1 DEF SettleProfile, TypeOK, Request
    <3>3. new.step = "settle.save" /\ new.ref = req[r].ref
      BY <3>1 DEF Request
    <3> QED
      BY <3>2, <3>3
  <2>2. req[r].step = "settle.profile" /\ UNCHANGED <<activations, grants>>
    BY <1>2 DEF SettleProfile
  <2>3. req[r].ref \in Checkouts
    BY <2>2 DEF GrantInvariant, HeldGrant, HeldSettle, Settling
  <2> QED
    BY <2>1, <2>2, <2>3, MovingKeepsCalm
<1>3. ASSUME SettleSave(r) PROVE CalmInvariant'
  <2>1. req[r].step = "settle.save" /\ req[r] \in Request
    BY <1>3 DEF SettleSave, TypeOK
  <2>2. PICK x \in Checkouts : req[r].ref = x /\ x \in References
    BY <2>1 DEF GrantInvariant, HeldGrant, HeldSettle, Settling, References
  <2>3. Alone(r) /\ Settled /\ grants[x] = 0
    BY <2>1, <2>2, WorksAlone DEF CalmInvariant
  <2>4. /\ grants' = [grants EXCEPT ![x] = @ + 1] /\ UNCHANGED activations
        /\ req'[r].step = "settle.record" /\ req'[r].ref = x
        /\ \A q \in Requests : q # r => req'[q] = req[q]
    BY <1>3, <2>1, <2>2 DEF SettleSave, Grant, Continue, TypeOK, Request
  <2>5. grants'[x] = 1 /\ \A y \in Checkouts : y # x => grants'[y] = grants[y]
    BY <2>2, <2>3, <2>4 DEF TypeOK, References
  <2>6. \A y \in Checkouts : Active(y)' <=> Active(y)
    BY <2>4 DEF Active
  <2>7. Alone(r)'
    BY <2>3, <2>4 DEF Alone
  <2> QED
    BY <2>3, <2>4, <2>5, <2>6, <2>7, CalmStep DEF Settled
<1>4. ASSUME SettleRecord(r) PROVE CalmInvariant'
  <2>1. req[r].step = "settle.record"
    BY <1>4 DEF SettleRecord
  <2>2. PICK x \in Checkouts, a \in Activation :
            /\ req[r].ref = x /\ x \in References
            /\ req[r].activation = a /\ a.status = "active"
    BY <2>1 DEF GrantInvariant, HeldGrant, HeldSettle, Settling, References
  <2>3. Alone(r)
    BY <2>1, WorksAlone
  <2>4. /\ activations' = [activations EXCEPT ![x] = a] /\ UNCHANGED grants
        /\ req' = [req EXCEPT ![r] = Idle]
    BY <1>4, <2>2 DEF SettleRecord, Finish
  <2>5. /\ activations'[x] = a /\ a # None
        /\ \A y \in Checkouts : y # x => activations'[y] = activations[y]
    BY <2>2, <2>4, PlanConstants DEF TypeOK, References
  <2>6. Active(x)' /\ \A y \in Checkouts : y # x => (Active(y)' <=> Active(y))
    BY <2>2, <2>5 DEF Active
  <2>7. req'[r].step = "idle" /\ Alone(r)'
    BY <2>3, <2>4 DEF Alone, TypeOK, Idle
  <2>8. \A q \in Requests : q # r => req[q].step = "idle"
    BY <2>3 DEF Alone, Idle
  <2>9. \A y \in Checkouts :
            grants'[y] = 0 \/ (grants'[y] = 1 /\ (y = x \/ Active(y)))
    BY <2>2, <2>4, <2>8 DEF CalmInvariant
  <2> QED
    BY <2>6, <2>7, <2>9, CalmStep
<1> QED
  BY <1>1, <1>2, <1>3, <1>4 DEF Settle

LEMMA CodesAreNotCheckouts ==
    ASSUME PlanInv, NEW r \in Requests, req[r].step \in Redeeming
    PROVE  req[r].ref \notin Checkouts
<1>1. HeldRedeem(req[r])
  BY DEF PlanInv, GrantInvariant, HeldGrant
<1>2. req[r].ref \in Codes \X Businesses
  BY <1>1 DEF HeldRedeem
<1> QED
  BY <1>2, PlanConstants

LEMMA RedeemingKeepsCalm ==
    ASSUME PlanInv, CalmInvariant, calm, NEW r \in Requests, Redeem(r)
    PROVE  CalmInvariant'
<1> USE DEF PlanInv, tables, history
<1>1. ASSUME NEW b \in Businesses, NEW c \in Codes, RedeemLoad(r, b, c)
      PROVE  CalmInvariant'
  <2> DEFINE new == [Idle EXCEPT !.step = "redeem.profile", !.account = b,
                         !.ref = <<c, b>>, !.code = [codes[c] EXCEPT !.usedCount = @ + 1]]
  <2>1. new.step = "redeem.profile"
    BY DEF Idle
  <2>2. /\ Arrives(r, "redeem") /\ req' = [req EXCEPT ![r] = new]
        /\ UNCHANGED <<activations, grants>>
    BY <1>1 DEF RedeemLoad
  <2> HIDE DEF new
  <2> QED
    BY <2>1, <2>2, ArrivalKeepsCalm
<1>2. ASSUME NEW s \in {"redeem.save", "redeem.count", "redeem.record"},
             req'[r].step = s, req' = [req EXCEPT ![r] = req'[r]],
             req[r].step \in Redeeming,
             \A x \in Checkouts : grants'[x] = grants[x] /\ activations'[x] = activations[x]
      PROVE  CalmInvariant'
  <2>1. PICK new : new = req'[r]
    OBVIOUS
  <2> QED
    BY <1>2, <2>1, MovingKeepsCalm DEF Redeeming
<1>3. ASSUME RedeemProfile(r) PROVE CalmInvariant'
  <2>1. /\ req[r].step = "redeem.profile" /\ UNCHANGED <<activations, grants>>
        /\ req'[r].step = "redeem.save" /\ req' = [req EXCEPT ![r] = req'[r]]
    BY <1>3 DEF RedeemProfile, TypeOK, Request
  <2> QED
    BY <1>2, <2>1 DEF Redeeming
<1>4. ASSUME RedeemSave(r) PROVE CalmInvariant'
  <2>1. /\ req[r].step = "redeem.save" /\ UNCHANGED activations
        /\ grants' = [grants EXCEPT ![req[r].ref] = @ + 1]
        /\ req'[r].step = "redeem.count" /\ req' = [req EXCEPT ![r] = req'[r]]
    BY <1>4 DEF RedeemSave, Grant, Continue, TypeOK, Request
  <2>2. req[r].ref \notin Checkouts
    BY <2>1, CodesAreNotCheckouts DEF Redeeming
  <2>3. \A x \in Checkouts : grants'[x] = grants[x]
    BY <2>1, <2>2 DEF TypeOK, References
  <2> QED
    BY <1>2, <2>1, <2>3 DEF Redeeming
<1>5. ASSUME RedeemCount(r) PROVE CalmInvariant'
  <2>1. /\ req[r].step = "redeem.count" /\ UNCHANGED <<activations, grants>>
        /\ req'[r].step = "redeem.record" /\ req' = [req EXCEPT ![r] = req'[r]]
    BY <1>5 DEF RedeemCount, Continue, TypeOK, Request
  <2> QED
    BY <1>2, <2>1 DEF Redeeming
<1>6. ASSUME RedeemRecord(r) PROVE CalmInvariant'
  <2>1. /\ req[r].step = "redeem.record" /\ UNCHANGED grants
        /\ activations' \in {activations,
               [activations EXCEPT ![req[r].ref] = req[r].activation]}
        /\ req' = [req EXCEPT ![r] = Idle]
    BY <1>6 DEF RedeemRecord, Finish
  <2>2. req[r].ref \notin Checkouts
    BY <2>1, CodesAreNotCheckouts DEF Redeeming
  <2>3. \A x \in Checkouts : activations'[x] = activations[x]
    BY <2>1, <2>2 DEF TypeOK, References
  <2>4. Idle.step = "idle"
    BY DEF Idle
  <2> QED
    BY <2>1, <2>3, <2>4, MovingKeepsCalm
<1> QED
  BY <1>1, <1>3, <1>4, <1>5, <1>6 DEF Redeem

LEMMA EditingKeepsCalm ==
    ASSUME PlanInv, CalmInvariant, calm, NEW r \in Requests, Edit(r)
    PROVE  CalmInvariant'
<1> USE DEF tables, history
<1>1. ASSUME NEW b \in Businesses, NEW plan \in {"free", "vip"}, PlanLoad(r, b, plan)
      PROVE  CalmInvariant'
  <2> DEFINE new == [Idle EXCEPT !.step = "save", !.account = b,
                                 !.profile = setPlan(plan)]
  <2>1. new.step = "save"
    BY DEF Idle
  <2>2. /\ Arrives(r, "plan") /\ req' = [req EXCEPT ![r] = new]
        /\ UNCHANGED <<activations, grants>>
    BY <1>1 DEF PlanLoad
  <2> HIDE DEF new
  <2> QED
    BY <2>1, <2>2, ArrivalKeepsCalm
<1>2. ASSUME NEW b \in Businesses, EditLoad(r, b) PROVE CalmInvariant'
  <2> DEFINE new == [Idle EXCEPT !.step = "save", !.account = b,
                                 !.profile = profiles[b]]
  <2>1. new.step = "save"
    BY DEF Idle
  <2>2. /\ Arrives(r, "edit") /\ req' = [req EXCEPT ![r] = new]
        /\ UNCHANGED <<activations, grants>>
    BY <1>2 DEF EditLoad
  <2> HIDE DEF new
  <2> QED
    BY <2>1, <2>2, ArrivalKeepsCalm
<1>3. ASSUME Save(r) PROVE CalmInvariant'
  <2>1. /\ req[r].step = "save" /\ req' = [req EXCEPT ![r] = Idle]
        /\ UNCHANGED <<activations, grants>> /\ Idle.step = "idle"
    BY <1>3 DEF Save, Finish, Idle
  <2> QED
    BY <2>1, MovingKeepsCalm
<1> QED
  BY <1>1, <1>2, <1>3 DEF Edit

LEMMA NextKeepsCalm == PlanInv /\ CalmInvariant /\ [Next]_vars => CalmInvariant'
<1> SUFFICES ASSUME PlanInv, CalmInvariant, [Next]_vars PROVE CalmInvariant'
  OBVIOUS
<1> USE DEF tables, history
<1>1. calm' = calm
  BY DEF Next, vars, Settle, SettleLoad, SettleProfile, SettleSave, SettleRecord,
         Redeem, RedeemLoad, RedeemProfile, RedeemSave, RedeemCount, RedeemRecord,
         Edit, PlanLoad, EditLoad, Save, Abandon, Checkout, Pay, generate, Tick
<1>2. CASE ~calm
  BY <1>1, <1>2 DEF CalmInvariant
<1>3. CASE calm
  <2>1. ASSUME UNCHANGED <<req, grants>>,
               \A x \in Checkouts : grants[x] > 0 => activations'[x] = activations[x]
        PROVE  CalmInvariant'
    <3>1. \A x \in Checkouts : grants[x] = 1 => (Active(x)' <=> Active(x))
      BY <2>1 DEF Active
    <3> QED
      BY <1>3, <2>1, <3>1 DEF CalmInvariant
  <2>2. ASSUME NEW b \in Businesses, NEW x \in Checkouts, NEW p \in Periods,
               Checkout(b, x, p)
        PROVE  CalmInvariant'
    <3>1. /\ UNCHANGED <<req, grants>> /\ activations[x] = None
          /\ activations' = [activations EXCEPT ![x] = start(b, p)]
      BY <2>2 DEF Checkout
    <3>2. ~(grants[x] > 0)
      BY <3>1 DEF PlanInv, VipIsPaidFor, GrantInvariant
    <3> QED
      BY <2>1, <3>1, <3>2 DEF PlanInv, TypeOK, References
  <2>3. ASSUME NEW x \in Checkouts, Pay(x) PROVE CalmInvariant'
    BY <2>1, <2>3 DEF Pay
  <2>4. ASSUME NEW c \in Codes, NEW p \in Periods, NEW n \in 1..MaxUses, generate(c, p, n)
        PROVE  CalmInvariant'
    BY <2>1, <2>4 DEF generate
  <2>5. CASE Tick
    BY <2>1, <2>5 DEF Tick
  <2>6. CASE UNCHANGED vars
    BY <2>1, <2>6 DEF vars
  <2>7. ASSUME NEW r \in Requests, Abandon(r) PROVE CalmInvariant'
    BY <1>3, <2>7 DEF Abandon
  <2> QED
    BY <1>3, <2>2, <2>3, <2>4, <2>5, <2>6, <2>7,
       SettlingKeepsCalm, RedeemingKeepsCalm, EditingKeepsCalm
    DEF Next
<1> QED
  BY <1>2, <1>3

\* What settle() relies on when no two calls overlap: the payment it is about to
\* grant has not been granted.
THEOREM CalmInvariantHolds == Spec => []CalmInvariant
<1>1. Init => CalmInvariant
  BY DEF Init, CalmInvariant, Idle, References
<1>2. PlanInv /\ CalmInvariant /\ [Next]_vars => CalmInvariant'
  BY NextKeepsCalm
<1> QED
  BY <1>1, <1>2, PlanInvHolds, PTL DEF Spec

\* callback()'s promise, kept when calls do not overlap: however often the gateway
\* reports a payment, among whatever other calls, it buys one period.
THEOREM OnePeriodPerPaymentHolds == Spec => []OnePeriodPerPayment
<1>1. CalmInvariant => OnePeriodPerPayment
  BY DEF CalmInvariant, OnePeriodPerPayment
<1> QED
  BY <1>1, CalmInvariantHolds, PTL

(***************************************************************************)
(* The audit trail, when calls do not overlap.                             *)
(***************************************************************************)

\* A request that has computed a new expiry, and one that has saved it.
Granted  == {"settle.record", "redeem.count", "redeem.record"}
Computed == Granted \cup {"settle.save", "redeem.save"}

\* The profile a request is about to save adds its period to what is left.
Stacked(q) ==
    profiles[q.account].expiresAt > now =>
        q.profile.expiresAt = profiles[q.account].expiresAt + PeriodOf(q.ref)

\* Its copies tell one story: the activation it will record is of the profile it
\* saves, nothing has touched that page since, and no record is there yet.
Trail(q) ==
    /\ q.step \in Settling => ~Active(q.ref)
    /\ q.step \in Computed =>
          q.activation.status = "active" /\ q.activation.expiresAt = q.profile.expiresAt
    /\ q.step \in {"settle.save", "redeem.save"} => Stacked(q)
    /\ q.step \in Granted => profiles[q.account] = q.profile
    /\ q.step \in {"redeem.count", "redeem.record"} =>
          grants[q.ref] > 1 \/ activations[q.ref] = None
    /\ q.step = "save" =>
          q.profile.expiresAt = 0 \/ q.profile.expiresAt = profiles[q.account].expiresAt

\* The expiry of b's page is the expiry of one of its activations.
Recorded(b) ==
    \E x \in References : /\ Active(x) /\ Beneficiary(x) = b
                          /\ activations[x].expiresAt = profiles[b].expiresAt

\* A redemption is never recorded as pending.
CodesRecorded == \A x \in References \ Checkouts : activations[x] # None => Active(x)

\* An expiry is recorded, or a request in flight is about to record it.
Trailed ==
    (\A x \in References : grants[x] <= 1) =>
        \A b \in Businesses : profiles[b].expiresAt # 0 =>
            Recorded(b) \/ \E r \in Requests : req[r].step \in Granted /\ req[r].account = b

TrailInv == calm => CodesRecorded /\ Trailed /\ \A r \in Requests : Trail(req[r])

LEMMA IdleTrails == Trail(Idle) /\ Trail(Idle)'
BY DEF Trail, Idle, Settling, Granted, Computed

\* A record stays one while its row and its page do.
LEMMA RecordedKept ==
    ASSUME NEW b, Recorded(b), profiles'[b].expiresAt = profiles[b].expiresAt,
           \A x \in References : Active(x) => activations'[x] = activations[x]
    PROVE  Recorded(b)'
<1>1. PICK x \in References : /\ Active(x) /\ Beneficiary(x) = b
                              /\ activations[x].expiresAt = profiles[b].expiresAt
  BY DEF Recorded
<1>2. activations'[x] = activations[x]
  BY <1>1
<1>3. Active(x)'
  BY <1>1, <1>2 DEF Active
<1>4. Beneficiary(x)' = b
  BY <1>1, <1>2 DEF Beneficiary
<1> QED
  BY <1>1, <1>2, <1>3, <1>4 DEF Recorded

\* The period a request in flight grants is the one it loaded.
LEMMA PeriodHeld ==
    ASSUME PlanInv, NEW r \in Requests, req[r].step \in Settling \cup Redeeming
    PROVE  /\ req[r].step \in Settling => PeriodOf(req[r].ref) = req[r].activation.period
           /\ req[r].step \in Redeeming => PeriodOf(req[r].ref) = req[r].code.period
           /\ Beneficiary(req[r].ref) = req[r].account
           /\ req[r].ref \in References /\ req[r].account \in Businesses
<1>1. CASE req[r].step \in Settling
  <2>1. HeldSettle(req[r]) /\ req[r].step \notin Redeeming
    BY <1>1 DEF PlanInv, GrantInvariant, HeldGrant, Settling, Redeeming
  <2> QED
    BY <2>1 DEF HeldSettle, PeriodOf, Beneficiary, References
<1>2. CASE req[r].step \in Redeeming
  <2>1. HeldRedeem(req[r]) /\ req[r].step \notin Settling
    BY <1>2 DEF PlanInv, GrantInvariant, HeldGrant, Settling, Redeeming
  <2>2. PICK c \in Codes : /\ req[r].ref = <<c, req[r].account>>
                           /\ req[r].code.period = codes[c].period
    BY <2>1 DEF HeldRedeem
  <2>3. req[r].ref \notin Checkouts
    BY <1>2, CodesAreNotCheckouts
  <2> QED
    BY <2>1, <2>2, <2>3 DEF HeldRedeem, PeriodOf, Beneficiary, References
<1> QED
  BY <1>1, <1>2

\* A step of r among requests that are idle.
LEMMA TrailStep ==
    ASSUME CodesRecorded', Trailed', NEW r \in Requests, Alone(r)', Trail(req[r])'
    PROVE  TrailInv'
<1>1. \A q \in Requests : q # r => req'[q] = Idle
  BY DEF Alone
<1>2. \A q \in Requests : q # r => Trail(req[q])'
  BY <1>1, IdleTrails
<1> QED
  BY <1>2 DEF TrailInv

\* A request arrives or moves on without writing what the trail is made of.
LEMMA MoveTrails ==
    ASSUME PlanInv, TrailInv, calm, NEW r \in Requests, Alone(r), NEW new,
           req' = [req EXCEPT ![r] = new], Trail(new)',
           UNCHANGED <<profiles, activations, grants>>,
           req[r].step \in Granted => new.step \in Granted /\ new.account = req[r].account
    PROVE  TrailInv'
<1>1. req'[r] = new /\ \A q \in Requests : q # r => req'[q] = req[q]
  BY DEF PlanInv, TypeOK
<1>2. Alone(r)'
  BY <1>1 DEF Alone
<1>3. CodesRecorded'
  BY DEF TrailInv, CodesRecorded, Active
<1>4. Trailed'
  <2> SUFFICES ASSUME \A x \in References : grants[x] <= 1,
                      NEW b \in Businesses, profiles[b].expiresAt # 0, ~Recorded(b)'
               PROVE  \E q \in Requests : req'[q].step \in Granted /\ req'[q].account = b
    BY DEF Trailed
  <2>1. ~Recorded(b)
    BY RecordedKept
  <2>2. PICK q \in Requests : req[q].step \in Granted /\ req[q].account = b
    BY <2>1 DEF TrailInv, Trailed
  <2> QED
    BY <1>1, <2>2
<1>5. Trail(req[r])'
  BY <1>1
<1> QED
  BY <1>2, <1>3, <1>4, <1>5, TrailStep

\* Nobody's request moves: time passes, a checkout opens or is paid, a code is issued.
LEMMA QuietTrails ==
    ASSUME PlanInv, TrailInv, calm, UNCHANGED <<req, profiles, grants>>,
           now' \in Nat, now' >= now,
           \A x \in References : activations[x] # None => activations'[x] = activations[x],
           \A x \in References \ Checkouts : activations'[x] = activations[x],
           \A c \in Codes : codes[c] # None => codes'[c] = codes[c]
    PROVE  TrailInv'
<1>1. \A x \in References : Active(x) => activations'[x] = activations[x]
  BY DEF Active
<1>2. CodesRecorded'
  BY DEF TrailInv, CodesRecorded, Active
<1>3. Trailed'
  <2> SUFFICES ASSUME \A x \in References : grants[x] <= 1,
                      NEW b \in Businesses, profiles[b].expiresAt # 0, ~Recorded(b)'
               PROVE  \E q \in Requests : req[q].step \in Granted /\ req[q].account = b
    BY DEF Trailed
  <2> QED
    BY <1>1, RecordedKept DEF TrailInv, Trailed
<1>4. ASSUME NEW r \in Requests PROVE Trail(req[r])'
  <2> DEFINE q == req[r]
  <2>1. Trail(q)
    BY DEF TrailInv
  <2>2. ASSUME q.step \in Settling PROVE ~Active(q.ref)' /\ PeriodOf(q.ref)' = PeriodOf(q.ref)
    <3>1. /\ q.ref \in Checkouts /\ activations'[q.ref] = activations[q.ref] /\ ~Active(q.ref)
      BY <2>1, <2>2 DEF PlanInv, GrantInvariant, HeldGrant, HeldSettle, Trail, References
    <3> QED
      BY <3>1 DEF Active, PeriodOf
  <2>3. ASSUME q.step \in Redeeming
        PROVE  PeriodOf(q.ref)' = PeriodOf(q.ref) /\ activations'[q.ref] = activations[q.ref]
    <3>1. q.ref \notin Checkouts
      BY <2>3, CodesAreNotCheckouts
    <3>2. PICK c \in Codes : q.ref = <<c, q.account>> /\ codes[c] # None
      BY <2>3 DEF PlanInv, GrantInvariant, HeldGrant, HeldRedeem
    <3>3. q.account \in Businesses
      BY <2>3 DEF PlanInv, GrantInvariant, HeldGrant, HeldRedeem
    <3> QED
      BY <3>1, <3>2, <3>3 DEF PeriodOf, References
  <2>4. ASSUME q.step \in {"settle.save", "redeem.save"} PROVE Stacked(q)'
    <3>1. Stacked(q) /\ PeriodOf(q.ref)' = PeriodOf(q.ref)
      BY <2>1, <2>2, <2>3, <2>4 DEF Trail, Settling, Redeeming
    <3>2. q.account \in Businesses
      BY <2>4, PeriodHeld DEF Settling, Redeeming
    <3>3. profiles[q.account].expiresAt \in Nat /\ now \in Nat
      BY <3>2 DEF PlanInv, TypeOK, Profile
    <3>4. profiles[q.account].expiresAt > now' => profiles[q.account].expiresAt > now
      BY <3>3
    <3> QED
      BY <3>1, <3>4 DEF Stacked
  <2>5. /\ q.step \in {"redeem.count", "redeem.record"} => q.step \in Redeeming
        /\ q.step \in Settling <=> q'.step \in Settling
    BY DEF Redeeming
  <2> QED
    BY <2>1, <2>2, <2>3, <2>4, <2>5 DEF Trail
<1> QED
  BY <1>2, <1>3, <1>4 DEF TrailInv

LEMMA ArrivalTrails ==
    ASSUME PlanInv, TrailInv, calm, NEW r \in Requests, NEW e, Arrives(r, e), NEW new,
           req' = [req EXCEPT ![r] = new], UNCHANGED <<tables, grants>>,
           new.step \in {"settle.profile", "redeem.profile", "save"},
           new.step = "settle.profile" => ~Active(new.ref),
           new.step = "save" => \/ new.profile.expiresAt = 0
                                \/ new.profile.expiresAt = profiles[new.account].expiresAt
    PROVE  TrailInv'
<1>1. Alone(r) /\ req[r].step \notin Granted
  BY DEF Arrives, Alone, Idle, Granted
<1>2. Active(new.ref)' <=> Active(new.ref)
  BY DEF Active, tables
<1>3. Trail(new)'
  BY <1>2 DEF Trail, Settling, Computed, Granted, tables
<1> QED
  BY <1>1, <1>3, MoveTrails DEF tables

\* The expiry that activateVip computes.
LEMMA ActivateVipStacks ==
    ASSUME NEW e \in Profile, NEW p \in Nat, now \in Nat, e.expiresAt > now
    PROVE  activateVip(e, p).expiresAt = e.expiresAt + p
<1>1. e.expiresAt \in Nat
  BY DEF Profile
<1>2. activateVip(e, p).expiresAt = p + e.expiresAt
  BY DEF activateVip
<1> QED
  BY <1>1, <1>2

\* The copies are computed from the profile as it is now.
LEMMA ComputingTrails ==
    ASSUME PlanInv, CalmInvariant, TrailInv, calm, NEW r \in Requests,
           SettleProfile(r) \/ RedeemProfile(r)
    PROVE  TrailInv'
<1> DEFINE p == PeriodOf(req[r].ref)
           e == activateVip(profiles[req[r].account], p)
<1>1. /\ req[r].step \in {"settle.profile", "redeem.profile"} /\ req[r] \in Request
      /\ UNCHANGED <<profiles, activations, grants, codes, now>>
  BY DEF SettleProfile, RedeemProfile, PlanInv, TypeOK, tables, history
<1>2. /\ req[r].account \in Businesses /\ req[r].ref \in References
      /\ req[r].step = "settle.profile" => p = req[r].activation.period
      /\ req[r].step = "redeem.profile" => p = req[r].code.period
  BY <1>1, PeriodHeld DEF Settling, Redeeming
<1>3. p \in Nat
  <2>1. /\ req[r].step = "settle.profile" => req[r].activation \in Activation
        /\ req[r].step = "redeem.profile" => req[r].code \in Code
    BY DEF PlanInv, GrantInvariant, HeldGrant, HeldSettle, HeldRedeem, Settling, Redeeming
  <2> QED
    BY <1>1, <1>2, <2>1, PlanConstants DEF Activation, Code
<1>4. profiles[req[r].account] \in Profile /\ now \in Nat
  BY <1>2 DEF PlanInv, TypeOK
<1>5. profiles[req[r].account].expiresAt > now
          => e.expiresAt = profiles[req[r].account].expiresAt + p
  BY <1>3, <1>4, ActivateVipStacks
<1>6. PICK new : /\ req' = [req EXCEPT ![r] = new]
                 /\ new.step \in {"settle.save", "redeem.save"}
                 /\ new.step = "settle.save" => req[r].step = "settle.profile"
                 /\ new.account = req[r].account /\ new.ref = req[r].ref
                 /\ new.profile = e
                 /\ new.activation.status = "active"
                 /\ new.activation.expiresAt = e.expiresAt
  <2>1. CASE SettleProfile(r)
    <3> DEFINE a   == req[r].activation
               new == [req[r] EXCEPT !.step = "settle.save", !.profile = e,
                                     !.activation = markActive(a, e.expiresAt)]
    <3>1. req[r].step = "settle.profile" /\ a \in Activation
      BY <2>1 DEF SettleProfile, PlanInv, GrantInvariant, HeldGrant, HeldSettle, Settling
    <3>2. req' = [req EXCEPT ![r] = new]
      BY <2>1, <1>1, <1>2, <3>1 DEF SettleProfile, PlanInv, TypeOK, Request
    <3>3. /\ new.step = "settle.save" /\ new.account = req[r].account /\ new.ref = req[r].ref
          /\ new.profile = e /\ new.activation = markActive(a, e.expiresAt)
      BY <1>1 DEF Request
    <3>4. markActive(a, e.expiresAt).status = "active"
          /\ markActive(a, e.expiresAt).expiresAt = e.expiresAt
      BY <3>1 DEF markActive, Activation
    <3> HIDE DEF e, new
    <3> QED
      BY <3>1, <3>2, <3>3, <3>4
  <2>2. CASE RedeemProfile(r)
    <3> DEFINE a   == markActive(start(req[r].account, p), e.expiresAt)
               new == [req[r] EXCEPT !.step = "redeem.save", !.profile = e,
                                     !.activation = a]
    <3>1. req[r].step = "redeem.profile"
      BY <2>2 DEF RedeemProfile
    <3>2. req' = [req EXCEPT ![r] = new]
      BY <2>2, <1>1, <1>2, <3>1 DEF RedeemProfile, PlanInv, TypeOK, Request
    <3>3. /\ new.step = "redeem.save" /\ new.account = req[r].account /\ new.ref = req[r].ref
          /\ new.profile = e /\ new.activation = a
      BY <1>1 DEF Request
    <3>4. a.status = "active" /\ a.expiresAt = e.expiresAt
      BY DEF markActive, start
    <3> HIDE DEF e, a, new
    <3> QED
      BY <3>2, <3>3, <3>4
  <2> QED
    BY <2>1, <2>2
<1>7. Stacked(new)'
  <2>1. PeriodOf(new.ref)' = p
    BY <1>1, <1>6 DEF PeriodOf
  <2> HIDE DEF p, e
  <2> QED
    BY <1>1, <1>5, <1>6, <2>1 DEF Stacked
<1>8. new.step \in Settling => ~Active(new.ref)'
  <2>1. Trail(req[r])
    BY DEF TrailInv
  <2>2. new.step \in Settling => req[r].step = "settle.profile"
    BY <1>6 DEF Settling
  <2> QED
    BY <1>1, <1>6, <2>1, <2>2 DEF Trail, Active, Settling
<1>9. Trail(new)'
  <2> HIDE DEF e
  <2> QED
    BY <1>6, <1>7, <1>8 DEF Trail, Computed, Granted
<1>10. Alone(r)
  BY <1>1, WorksAlone
<1> QED
  BY <1>1, <1>6, <1>9, <1>10, MoveTrails DEF Granted

\* The code counts one use more.
LEMMA CountingTrails ==
    ASSUME PlanInv, CalmInvariant, TrailInv, calm, NEW r \in Requests, RedeemCount(r)
    PROVE  TrailInv'
<1>1. /\ req[r].step = "redeem.count" /\ req[r] \in Request
      /\ req' = [req EXCEPT ![r] = [req[r] EXCEPT !.step = "redeem.record"]]
      /\ UNCHANGED <<profiles, activations, grants>>
  BY DEF RedeemCount, Continue, PlanInv, TypeOK, history
<1>2. PICK new : new = [req[r] EXCEPT !.step = "redeem.record"]
  OBVIOUS
<1>3. /\ new.step = "redeem.record" /\ new.account = req[r].account
      /\ new.ref = req[r].ref /\ new.profile = req[r].profile
      /\ new.activation = req[r].activation
  BY <1>1, <1>2 DEF Request
<1>4. Trail(req[r])
  BY DEF TrailInv
<1>5. Alone(r)
  BY <1>1, WorksAlone
<1>6. Trail(new)'
  BY <1>1, <1>3, <1>4 DEF Trail, Settling, Computed, Granted
<1> QED
  BY <1>1, <1>2, <1>3, <1>5, <1>6, MoveTrails DEF Granted

\* The page is saved with the period added.
LEMMA GrantTrails ==
    ASSUME PlanInv, CalmInvariant, TrailInv, calm, NEW r \in Requests,
           SettleSave(r) \/ RedeemSave(r)
    PROVE  TrailInv'
<1>1. /\ req[r].step \in {"settle.save", "redeem.save"} /\ req[r] \in Request
      /\ Grant(r) /\ UNCHANGED activations
      /\ Continue(r, IF req[r].step = "settle.save" THEN "settle.record" ELSE "redeem.count")
  BY DEF SettleSave, RedeemSave, PlanInv, TypeOK
<1>2. PICK new : \E x \in References, b \in Businesses :
          /\ req[r].ref = x /\ req[r].account = b
          /\ req' = [req EXCEPT ![r] = new]
          /\ new.step = IF req[r].step = "settle.save" THEN "settle.record" ELSE "redeem.count"
          /\ new.account = b /\ new.ref = x /\ new.profile = req[r].profile
          /\ new.activation = req[r].activation
  <2> DEFINE s   == IF req[r].step = "settle.save" THEN "settle.record" ELSE "redeem.count"
             new == [req[r] EXCEPT !.step = s]
  <2>1. req[r].ref \in References /\ req[r].account \in Businesses
    BY <1>1, PeriodHeld DEF Settling, Redeeming
  <2>2. req' = [req EXCEPT ![r] = new]
    BY <1>1 DEF Continue, PlanInv, TypeOK
  <2>3. /\ new.step = s /\ new.account = req[r].account /\ new.ref = req[r].ref
        /\ new.profile = req[r].profile /\ new.activation = req[r].activation
    BY <1>1 DEF Request
  <2> HIDE DEF new
  <2> QED
    BY <2>1, <2>2, <2>3
<1>2a. PICK x \in References, b \in Businesses :
          /\ req[r].ref = x /\ req[r].account = b
          /\ req' = [req EXCEPT ![r] = new]
          /\ new.step = IF req[r].step = "settle.save" THEN "settle.record" ELSE "redeem.count"
          /\ new.account = b /\ new.ref = x /\ new.profile = req[r].profile
          /\ new.activation = req[r].activation
  BY <1>2
<1>3. Trail(req[r]) /\ CodesRecorded /\ Trailed
  BY DEF TrailInv
<1>4. Alone(r)
  BY <1>1, WorksAlone
<1>5. req'[r] = new /\ \A q \in Requests : q # r => req'[q] = req[q]
  BY <1>2a DEF PlanInv, TypeOK
<1>6. Alone(r)'
  BY <1>4, <1>5 DEF Alone
<1>7. /\ profiles'[b] = req[r].profile
      /\ \A d \in Businesses : d # b => profiles'[d] = profiles[d]
  BY <1>1, <1>2a DEF Grant, PlanInv, TypeOK
<1>8. /\ grants[x] \in Nat /\ grants'[x] = grants[x] + 1
      /\ \A y \in References : y # x => grants'[y] = grants[y]
  BY <1>1, <1>2a DEF Grant, PlanInv, TypeOK
<1>9. \A y : Active(y)' <=> Active(y)
  BY <1>1 DEF Active
<1>10. CodesRecorded'
  BY <1>1, <1>3, <1>9 DEF CodesRecorded
<1>11. Trail(new)'
  <2>1. new.step \in Settling => ~Active(x)'
    BY <1>1, <1>2a, <1>3, <1>9 DEF Trail, Settling
  <2>2. /\ new.step \in Granted /\ new.step \notin {"settle.save", "redeem.save", "save"}
        /\ new.activation.status = "active" /\ new.activation.expiresAt = new.profile.expiresAt
    BY <1>1, <1>2a, <1>3 DEF Trail, Granted, Computed
  <2>3. new.step \in {"redeem.count", "redeem.record"} =>
            grants'[x] > 1 \/ activations[x] = None
    <3> SUFFICES ASSUME new.step \in {"redeem.count", "redeem.record"}, activations[x] # None
                 PROVE  grants'[x] > 1
      OBVIOUS
    <3>1. x \notin Checkouts
      BY <1>1, <1>2a, CodesAreNotCheckouts DEF Redeeming
    <3>2. grants[x] > 0
      BY <1>3, <3>1 DEF CodesRecorded, PlanInv, RecordedWasGranted
    <3> QED
      BY <3>2, <1>8
  <2> QED
    BY <2>1, <2>2, <2>3, <1>1, <1>2a, <1>7 DEF Trail
<1>12. Trailed'
  <2> SUFFICES ASSUME \A y \in References : grants'[y] <= 1,
                      NEW d \in Businesses, profiles'[d].expiresAt # 0, d # b
               PROVE  Recorded(d)'
    BY <1>1, <1>2a, <1>5 DEF Trailed, Granted
  <2>1. \A y \in References : grants[y] <= 1
    BY <1>8
  <2>2. \A q \in Requests : req[q].step \notin Granted
    BY <1>1, <1>4 DEF Alone, Idle, Granted
  <2>3. Recorded(d)
    BY <1>3, <1>7, <2>1, <2>2 DEF Trailed
  <2> QED
    BY <1>1, <1>7, <2>3, RecordedKept
<1>13. Trail(req[r])'
  BY <1>5, <1>11
<1> QED
  BY <1>6, <1>10, <1>12, <1>13, TrailStep

\* A page is saved for another reason, with the expiry it had or with none.
LEMMA SaveTrails ==
    ASSUME PlanInv, CalmInvariant, TrailInv, calm, NEW r \in Requests, Save(r)
    PROVE  TrailInv'
<1>1. /\ req[r].step = "save" /\ UNCHANGED <<activations, grants>>
      /\ profiles' = [profiles EXCEPT ![req[r].account] = req[r].profile]
      /\ req' = [req EXCEPT ![r] = Idle]
  BY DEF Save, Finish, history
<1>2. PICK b \in Businesses : req[r].account = b
  BY <1>1 DEF PlanInv, GrantInvariant, HeldGrant, HeldEdit
<1>3. Trail(req[r]) /\ CodesRecorded /\ Trailed /\ Alone(r)
  BY <1>1, WorksAlone DEF TrailInv
<1>4. req'[r] = Idle /\ \A q \in Requests : q # r => req'[q] = req[q]
  BY <1>1 DEF PlanInv, TypeOK
<1>5. \A d \in Businesses : profiles'[d].expiresAt \in {0, profiles[d].expiresAt}
  BY <1>1, <1>2, <1>3 DEF Trail, PlanInv, TypeOK
<1>6. CodesRecorded'
  BY <1>1, <1>3 DEF CodesRecorded, Active
<1>7. Trailed'
  <2> SUFFICES ASSUME \A y \in References : grants[y] <= 1,
                      NEW d \in Businesses, profiles'[d].expiresAt # 0
               PROVE  Recorded(d)'
    BY <1>1 DEF Trailed
  <2>1. \A q \in Requests : req[q].step \notin Granted
    BY <1>1, <1>3 DEF Alone, Idle, Granted
  <2>2. profiles'[d].expiresAt = profiles[d].expiresAt
    BY <1>5
  <2>3. Recorded(d)
    BY <1>3, <2>1, <2>2 DEF Trailed
  <2> QED
    BY <1>1, <2>2, <2>3, RecordedKept
<1>8. Alone(r)' /\ Trail(req[r])'
  BY <1>3, <1>4, IdleTrails DEF Alone
<1> QED
  BY <1>6, <1>7, <1>8, TrailStep

\* The activation of reference x is stored, and tells of its page as it is.
LEMMA RecordTrails ==
    ASSUME PlanInv, CalmInvariant, TrailInv, calm, NEW r \in Requests,
           req[r].step \in {"settle.record", "redeem.record"},
           NEW x \in References, NEW a \in Activation,
           req[r].ref = x, req[r].activation = a,
           activations' = [activations EXCEPT ![x] = a], ~Active(x),
           x \in Checkouts => activations[x].account = a.account /\ a.account = req[r].account,
           req' = [req EXCEPT ![r] = Idle], UNCHANGED <<profiles, grants>>
    PROVE  TrailInv'
<1>1. Trail(req[r]) /\ CodesRecorded /\ Trailed /\ Alone(r)
  BY WorksAlone DEF TrailInv
<1>2. req'[r] = Idle /\ \A q \in Requests : q # r => req'[q] = req[q]
  BY DEF PlanInv, TypeOK
<1>3. Alone(r)' /\ Trail(req[r])'
  BY <1>1, <1>2, IdleTrails DEF Alone
<1>4. /\ activations'[x] = a /\ a # None
      /\ \A y \in References : y # x => activations'[y] = activations[y]
  BY PlanConstants DEF PlanInv, TypeOK
<1>5. a.status = "active" /\ a.expiresAt = profiles[req[r].account].expiresAt
  BY <1>1 DEF Trail, Computed, Granted
<1>6. Active(x)'
  BY <1>4, <1>5 DEF Active
<1>7. CodesRecorded'
  BY <1>1, <1>4, <1>6 DEF CodesRecorded, Active
<1>8. Beneficiary(x)' = req[r].account
  <2>1. Beneficiary(x) = req[r].account
    BY PeriodHeld DEF Settling, Redeeming
  <2> QED
    BY <2>1, <1>4 DEF Beneficiary
<1>9. Trailed'
  <2> SUFFICES ASSUME \A y \in References : grants[y] <= 1,
                      NEW d \in Businesses, profiles[d].expiresAt # 0
               PROVE  Recorded(d)'
    BY DEF Trailed
  <2>1. CASE d = req[r].account
    BY <2>1, <1>4, <1>5, <1>6, <1>8 DEF Recorded
  <2>2. CASE d # req[r].account
    <3>1. \A q \in Requests : req[q].step \in Granted => q = r
      BY <1>1 DEF Alone, Idle, Granted
    <3>2. Recorded(d)
      BY <1>1, <2>2, <3>1 DEF Trailed
    <3>3. \A y \in References : Active(y) => activations'[y] = activations[y]
      BY <1>4
    <3> QED
      BY <3>2, <3>3, RecordedKept
  <2> QED
    BY <2>1, <2>2
<1> QED
  BY <1>3, <1>7, <1>9, TrailStep

LEMMA SettleRecordTrails ==
    ASSUME PlanInv, CalmInvariant, TrailInv, calm, NEW r \in Requests, SettleRecord(r)
    PROVE  TrailInv'
<1>1. req[r].step = "settle.record"
  BY DEF SettleRecord
<1>2. HeldSettle(req[r]) /\ ~Active(req[r].ref)
  BY <1>1 DEF PlanInv, GrantInvariant, HeldGrant, TrailInv, Trail, Settling
<1>3. PICK x \in References, a \in Activation :
          /\ req[r].ref = x /\ req[r].activation = a /\ ~Active(x)
          /\ activations[x].account = a.account /\ a.account = req[r].account
  BY <1>2 DEF HeldSettle, References
<1>4. /\ activations' = [activations EXCEPT ![x] = a] /\ req' = [req EXCEPT ![r] = Idle]
      /\ UNCHANGED <<profiles, grants>>
  BY <1>3 DEF SettleRecord, Finish, history
<1> QED
  BY <1>1, <1>3, <1>4, RecordTrails

LEMMA RedeemRecordTrails ==
    ASSUME PlanInv, CalmInvariant, TrailInv, calm, NEW r \in Requests, RedeemRecord(r)
    PROVE  TrailInv'
<1>1. req[r].step = "redeem.record" /\ req[r].ref \notin Checkouts
  BY CodesAreNotCheckouts DEF RedeemRecord, Redeeming
<1>2. HeldRedeem(req[r])
  BY <1>1 DEF PlanInv, GrantInvariant, HeldGrant, Redeeming
<1>3. PICK x \in References, a \in Activation : req[r].ref = x /\ req[r].activation = a
  BY <1>1, <1>2 DEF HeldRedeem, References
<1>4. /\ activations' = IF activations[x] = None THEN [activations EXCEPT ![x] = a]
                        ELSE activations
      /\ req' = [req EXCEPT ![r] = Idle] /\ UNCHANGED <<profiles, grants>>
  BY <1>3 DEF RedeemRecord, Finish, history
<1>5. CASE activations[x] = None
  <2>1. ~Active(x)
    BY <1>5 DEF Active
  <2> QED
    BY <1>1, <1>3, <1>4, <1>5, <2>1, RecordTrails
<1>6. CASE activations[x] # None
  <2>1. Trail(req[r]) /\ CodesRecorded /\ Alone(r)
    BY <1>1, WorksAlone DEF TrailInv
  <2>2. grants[x] > 1
    BY <1>1, <1>3, <1>6, <2>1 DEF Trail
  <2>3. Trailed'
    <3>1. grants[x] \in Nat
      BY DEF PlanInv, TypeOK
    <3>2. ~(grants'[x] <= 1)
      BY <1>4, <2>2, <3>1
    <3> QED
      BY <3>2 DEF Trailed
  <2>4. CodesRecorded'
    BY <1>4, <1>6, <2>1 DEF CodesRecorded, Active
  <2>5. req'[r] = Idle /\ \A q \in Requests : q # r => req'[q] = req[q]
    BY <1>4 DEF PlanInv, TypeOK
  <2>6. Alone(r)' /\ Trail(req[r])'
    BY <2>1, <2>5, IdleTrails DEF Alone
  <2> QED
    BY <2>3, <2>4, <2>6, TrailStep
<1> QED
  BY <1>5, <1>6

LEMMA LoadTrails ==
    ASSUME PlanInv, TrailInv, calm, NEW r \in Requests,
           \/ \E x \in Checkouts : SettleLoad(r, x)
           \/ \E b \in Businesses, c \in Codes : RedeemLoad(r, b, c)
           \/ \E b \in Businesses, plan \in {"free", "vip"} : PlanLoad(r, b, plan)
           \/ \E b \in Businesses : EditLoad(r, b)
    PROVE  TrailInv'
<1> USE DEF tables, history
<1>1. ASSUME NEW x \in Checkouts, SettleLoad(r, x) PROVE TrailInv'
  <2>1. PICK new : new = [Idle EXCEPT !.step = "settle.profile",
                             !.account = activations[x].account, !.ref = x,
                             !.activation = activations[x]]
    OBVIOUS
  <2>2. new.step = "settle.profile" /\ new.ref = x
    BY <2>1 DEF Idle
  <2>3. /\ Arrives(r, "settle") /\ req' = [req EXCEPT ![r] = new]
        /\ UNCHANGED <<tables, grants>> /\ ~Active(x)
    BY <1>1, <2>1 DEF SettleLoad, Active
  <2> QED
    BY <2>2, <2>3, ArrivalTrails
<1>2. ASSUME NEW b \in Businesses, NEW c \in Codes, RedeemLoad(r, b, c) PROVE TrailInv'
  <2>1. PICK new : new = [Idle EXCEPT !.step = "redeem.profile", !.account = b,
                             !.ref = <<c, b>>, !.code = [codes[c] EXCEPT !.usedCount = @ + 1]]
    OBVIOUS
  <2>2. new.step = "redeem.profile"
    BY <2>1 DEF Idle
  <2>3. /\ Arrives(r, "redeem") /\ req' = [req EXCEPT ![r] = new]
        /\ UNCHANGED <<tables, grants>>
    BY <1>2, <2>1 DEF RedeemLoad
  <2> QED
    BY <2>2, <2>3, ArrivalTrails
<1>3. ASSUME NEW b \in Businesses, NEW plan \in {"free", "vip"}, PlanLoad(r, b, plan)
      PROVE  TrailInv'
  <2>1. PICK new : new = [Idle EXCEPT !.step = "save", !.account = b,
                                      !.profile = setPlan(plan)]
    OBVIOUS
  <2>2. new.step = "save" /\ new.profile.expiresAt = 0
    BY <2>1 DEF Idle, setPlan
  <2>3. /\ Arrives(r, "plan") /\ req' = [req EXCEPT ![r] = new]
        /\ UNCHANGED <<tables, grants>>
    BY <1>3, <2>1 DEF PlanLoad
  <2> QED
    BY <2>2, <2>3, ArrivalTrails
<1>4. ASSUME NEW b \in Businesses, EditLoad(r, b) PROVE TrailInv'
  <2>1. PICK new : new = [Idle EXCEPT !.step = "save", !.account = b,
                                      !.profile = profiles[b]]
    OBVIOUS
  <2>2. new.step = "save" /\ new.account = b /\ new.profile = profiles[b]
    BY <2>1 DEF Idle
  <2>3. /\ Arrives(r, "edit") /\ req' = [req EXCEPT ![r] = new]
        /\ UNCHANGED <<tables, grants>>
    BY <1>4, <2>1 DEF EditLoad
  <2> QED
    BY <2>2, <2>3, ArrivalTrails
<1> QED
  BY <1>1, <1>2, <1>3, <1>4

LEMMA NextTrails ==
    PlanInv /\ CalmInvariant /\ TrailInv /\ [Next]_vars => TrailInv'
<1> SUFFICES ASSUME PlanInv, CalmInvariant, TrailInv, [Next]_vars PROVE TrailInv'
  OBVIOUS
<1> USE DEF tables, history
<1>1. calm' = calm
  BY DEF Next, vars, Settle, SettleLoad, SettleProfile, SettleSave, SettleRecord,
         Redeem, RedeemLoad, RedeemProfile, RedeemSave, RedeemCount, RedeemRecord,
         Edit, PlanLoad, EditLoad, Save, Abandon, Checkout, Pay, generate, Tick
<1>2. CASE ~calm
  BY <1>1, <1>2 DEF TrailInv
<1>3. CASE calm
  <2>0. now \in Nat
    BY DEF PlanInv, TypeOK
  <2>1. ASSUME NEW b \in Businesses, NEW x \in Checkouts, NEW p \in Periods,
               Checkout(b, x, p)
        PROVE  TrailInv'
    <3>1. /\ UNCHANGED <<req, profiles, grants, now, codes>> /\ activations[x] = None
          /\ \A y \in References : y # x => activations'[y] = activations[y]
      BY <2>1 DEF Checkout, PlanInv, TypeOK
    <3> QED
      BY <1>3, <2>0, <3>1, QuietTrails
  <2>2. ASSUME NEW x \in Checkouts, Pay(x) PROVE TrailInv'
    BY <1>3, <2>0, <2>2, QuietTrails DEF Pay
  <2>3. ASSUME NEW c \in Codes, NEW p \in Periods, NEW n \in 1..MaxUses, generate(c, p, n)
        PROVE  TrailInv'
    <3>1. /\ UNCHANGED <<req, profiles, grants, now, activations>> /\ codes[c] = None
          /\ \A d \in Codes : d # c => codes'[d] = codes[d]
      BY <2>3 DEF generate, PlanInv, TypeOK
    <3> QED
      BY <1>3, <2>0, <3>1, QuietTrails
  <2>4. CASE Tick
    BY <1>3, <2>0, <2>4, QuietTrails DEF Tick
  <2>5. CASE UNCHANGED vars
    BY <1>3, <2>0, <2>5, QuietTrails DEF vars
  <2>6. ASSUME NEW r \in Requests, Abandon(r) PROVE TrailInv'
    BY <1>3, <2>6 DEF Abandon
  <2>7. ASSUME NEW r \in Requests, Settle(r) PROVE TrailInv'
    BY <1>3, <2>7, LoadTrails, ComputingTrails, GrantTrails, SettleRecordTrails DEF Settle
  <2>8. ASSUME NEW r \in Requests, Redeem(r) PROVE TrailInv'
    BY <1>3, <2>8, LoadTrails, ComputingTrails, GrantTrails, CountingTrails,
       RedeemRecordTrails DEF Redeem
  <2>9. ASSUME NEW r \in Requests, Edit(r) PROVE TrailInv'
    BY <1>3, <2>9, LoadTrails, SaveTrails DEF Edit
  <2> QED
    BY <2>1, <2>2, <2>3, <2>4, <2>5, <2>6, <2>7, <2>8, <2>9 DEF Next
<1> QED
  BY <1>2, <1>3

LEMMA AlwaysTrailed == Spec => [](PlanInv /\ CalmInvariant /\ TrailInv)
<1>1. Init => TrailInv
  <2> SUFFICES ASSUME Init PROVE CodesRecorded /\ Trailed /\ \A r \in Requests : Trail(req[r])
    BY DEF TrailInv
  <2>1. CodesRecorded
    BY DEF Init, CodesRecorded
  <2>2. Trailed
    BY DEF Init, Trailed
  <2> QED
    BY <2>1, <2>2, IdleTrails DEF Init
<1> QED
  BY <1>1, NextTrails, CalmInvariantHolds, PlanInvHolds, PTL DEF Spec

\* plan-activation.entity.ts: the activations are "the audit trail behind planExpiresAt";
\* when no calls overlap and nothing was granted twice, every expiry has its record.
THEOREM AuditTrailHolds == Spec => []AuditTrail
<1>1. TrailInv => AuditTrail
  <2> SUFFICES ASSUME TrailInv, calm, \A r \in Requests : req[r] = Idle,
                      \A x \in References : grants[x] <= 1,
                      NEW b \in Businesses, profiles[b].expiresAt # 0
               PROVE  Recorded(b)
    BY DEF AuditTrail, Recorded
  <2>1. \A r \in Requests : req[r].step \notin Granted
    BY DEF Idle, Granted
  <2> QED
    BY <2>1 DEF TrailInv, Trailed
<1> QED
  BY <1>1, AlwaysTrailed, PTL

\* activateVip: "renewing early stacks onto whatever is left", from the load of the
\* profile to its save, whatever the clock did in between; when no calls overlap.
THEOREM PaidTimeAddsUpHolds == Spec => PaidTimeAddsUp
<1>1. PlanInv /\ TrailInv /\ [Next]_vars =>
          [\A x \in References :
              LET b == Beneficiary(x) IN
              calm /\ grants'[x] > grants[x] /\ profiles[b].expiresAt > now
              => profiles'[b].expiresAt = profiles[b].expiresAt + PeriodOf(x)]_vars
  <2> SUFFICES ASSUME PlanInv, TrailInv, Next, NEW x \in References, calm,
                      grants'[x] > grants[x], profiles[Beneficiary(x)].expiresAt > now
               PROVE  profiles'[Beneficiary(x)].expiresAt
                          = profiles[Beneficiary(x)].expiresAt + PeriodOf(x)
    OBVIOUS
  <2>1. grants[x] \in Nat
    BY DEF PlanInv, TypeOK
  <2>2. grants' # grants
    BY <2>1
  <2>3. PICK r \in Requests : SettleSave(r) \/ RedeemSave(r)
    BY <2>2 DEF Next, Settle, SettleLoad, SettleProfile, SettleRecord,
           Redeem, RedeemLoad, RedeemProfile, RedeemCount, RedeemRecord, Edit,
           PlanLoad, EditLoad, Save, Abandon, Checkout, Pay, generate, Tick, history
  <2>4. /\ req[r].step \in {"settle.save", "redeem.save"}
        /\ profiles' = [profiles EXCEPT ![req[r].account] = req[r].profile]
        /\ grants' = [grants EXCEPT ![req[r].ref] = @ + 1]
    BY <2>3 DEF SettleSave, RedeemSave, Grant
  <2>5. req[r].ref = x
    BY <2>1, <2>4 DEF PlanInv, TypeOK
  <2>6. Beneficiary(x) = req[r].account /\ req[r].account \in Businesses
    BY <2>4, <2>5, PeriodHeld DEF Settling, Redeeming
  <2>7. Stacked(req[r])
    BY <2>4 DEF TrailInv, Trail
  <2> QED
    BY <2>4, <2>5, <2>6, <2>7 DEF Stacked, PlanInv, TypeOK
<1> QED
  BY <1>1, AlwaysTrailed, PTL DEF Spec, PaidTimeAddsUp
================================================================================
