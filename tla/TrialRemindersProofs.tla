-------------------------- MODULE TrialRemindersProofs --------------------------
(***************************************************************************)
(* Theorems about TrialReminders, for any businesses, batch and days.      *)
(***************************************************************************)
EXTENDS TrialReminders, FiniteSetTheorems, TLAPS

\* The e-mail of b went out and its row is not saved yet.
Sending(b) == run.step = "record" /\ \E d \in run.due : ComesNext(d) /\ d.who = b

\* Businesses whose row is behind the last e-mail, because the run was killed in between or an
\* edit put the row back: each of them may be told the same again.
Owed == {b \in Businesses : told[b] > stage[b] /\ ~Sending(b)}

\* What a run holds: one notice for each business, the one its days call for and later
\* than the one its row has.
HeldRun ==
    /\ run = [step |-> run.step, settled |-> run.settled, due |-> run.due]
    /\ \A d, e \in run.due : d.who = e.who => d = e
    /\ \A d \in run.due : /\ d.notice = Latest(left[d.who])
                          /\ d.notice > stage[d.who]
                          /\ d.who \notin run.settled
    /\ run.step = "record" => \E d \in run.due : ComesNext(d) /\ told[d.who] = d.notice

\* No notice goes out before its time.
InTime == \A b \in Businesses : told[b] <= Latest(left[b])

\* An edit in flight has the notice of its row, or an earlier one.
Copies ==
    /\ \A e, f \in edits : e.who = f.who => e = f
    /\ \A e \in edits : e.stage <= stage[e.who]

\* Every notice that was or may be repeated has a run that was killed or an edit that put
\* the row back.
Accounted == repeats + Cardinality(Owed) <= deaths + reverted

RunInv == TypeOK /\ HeldRun /\ Copies /\ InTime /\ Accounted

LEMMA LatestIsStage ==
    /\ \A n \in Nat : Latest(n) \in Stage
    /\ \A m, n \in Nat : m <= n => Latest(n) <= Latest(m)
BY ReminderConstants DEF Latest, Stage, Ended

LEMMA Counted ==
    ASSUME NEW S \in SUBSET Businesses PROVE IsFiniteSet(S) /\ Cardinality(S) \in Nat
<1>1. IsFiniteSet(1..N)
  BY ReminderConstants, FS_Interval
<1>2. IsFiniteSet(S)
  BY <1>1, FS_Subset DEF Businesses
<1> QED
  BY <1>2, FS_CardinalityType

LEMMA Fewer ==
    ASSUME NEW S \in SUBSET Businesses, NEW T \in SUBSET S
    PROVE  Cardinality(T) <= Cardinality(S)
BY Counted, FS_Subset

LEMMA OneMore ==
    ASSUME NEW S \in SUBSET Businesses, NEW b \in Businesses, NEW T \in SUBSET (S \cup {b})
    PROVE  Cardinality(T) <= Cardinality(S) + 1
<1>1. Cardinality(S \cup {b}) <= Cardinality(S) + 1
  BY Counted, FS_AddElement
<1>2. Cardinality(T) <= Cardinality(S \cup {b})
  BY Fewer
<1> QED
  BY <1>1, <1>2, Counted

LEMMA OneLess ==
    ASSUME NEW S \in SUBSET Businesses, NEW b \in S, NEW T \in SUBSET (S \ {b})
    PROVE  Cardinality(T) + 1 <= Cardinality(S)
<1>1. Cardinality(S \ {b}) = Cardinality(S) - 1
  BY Counted, FS_RemoveElement
<1>2. Cardinality(T) <= Cardinality(S \ {b})
  BY Fewer
<1> QED
  BY <1>1, <1>2, Counted

\* Rows that go forward stay ahead of the copies.
LEMMA CopiesKept ==
    ASSUME Copies, TypeOK, edits' = edits, stage' \in [Businesses -> Stage],
           \A b \in Businesses : stage[b] <= stage'[b]
    PROVE  Copies'
<1>1. ASSUME NEW e \in edits PROVE e.stage <= stage'[e.who]
  <2>1. e.stage \in Nat /\ stage[e.who] \in Nat /\ stage'[e.who] \in Nat /\ e.who \in Businesses
    BY DEF TypeOK, Edit, Stage
  <2> QED
    BY <2>1 DEF Copies
<1> QED
  BY <1>1 DEF Copies

LEMMA RunInit == Init => RunInv
<1> SUFFICES ASSUME Init PROVE RunInv
  OBVIOUS
<1>1. TypeOK
  <2>1. run = Idle /\ Idle.step = "idle" /\ Idle.settled = {} /\ Idle.due = {}
    BY DEF Init, Idle
  <2>2. 0 \in Stage /\ 0 \in 0..MaxDeaths
    BY ReminderConstants DEF Stage
  <2> QED
    BY <2>1, <2>2 DEF Init, TypeOK
<1>2. HeldRun
  BY DEF Init, HeldRun, Idle
<1>3. InTime /\ Copies
  BY LatestIsStage, ReminderConstants DEF Init, InTime, Copies, Stage
<1>4. Owed = {}
  BY DEF Init, Owed
<1>5. Accounted
  BY <1>4, FS_EmptySet DEF Init, Accounted
<1> QED
  BY <1>1, <1>2, <1>3, <1>5 DEF RunInv

(***************************************************************************)
(* The steps of a run.                                                     *)
(***************************************************************************)

LEMMA StartKeeps == ASSUME RunInv, Start PROVE RunInv'
<1>1. PICK found : found = {c \in Candidates : trialNoticeDue(c) # 0}
  OBVIOUS
<1>2. found \subseteq Businesses
  BY <1>1 DEF Candidates
<1>3. PICK due : due = {[who |-> b, notice |-> trialNoticeDue(b)] : b \in found}
  OBVIOUS
<1>4. PICK settled : settled = {b \in Candidates \cap vip : left[b] = 0}
  OBVIOUS
<1>5. /\ run' = [step |-> "settle", settled |-> settled, due |-> due]
      /\ UNCHANGED <<calls, left, stage, vip, suspended, told, repeats, deaths, reverted, edits>>
  BY <1>1, <1>3, <1>4 DEF Start, profile, history
<1>6. ASSUME NEW b \in found
      PROVE  /\ trialNoticeDue(b) = Latest(left[b]) /\ Latest(left[b]) > stage[b] /\ b \notin vip
             /\ trialNoticeDue(b) \in Stage
  <2>1. left[b] \in Nat /\ trialNoticeDue(b) # 0
    BY <1>1, <1>2, ReminderConstants DEF RunInv, TypeOK
  <2> QED
    BY <2>1, LatestIsStage DEF trialNoticeDue
<1>7. ASSUME NEW d \in due
      PROVE  /\ d.who \in found /\ d = [who |-> d.who, notice |-> trialNoticeDue(d.who)]
             /\ d \in Due /\ d.notice = Latest(left[d.who]) /\ d.notice > stage[d.who]
             /\ d.who \notin settled
  <2>1. PICK b \in found : d = [who |-> b, notice |-> trialNoticeDue(b)]
    BY <1>3
  <2> QED
    BY <1>2, <1>4, <1>6, <2>1 DEF Due
<1>8. TypeOK'
  <2>1. due \subseteq Due /\ settled \subseteq Businesses
    BY <1>4, <1>7 DEF Candidates
  <2> QED
    BY <1>5, <2>1 DEF RunInv, TypeOK, Start
<1>9. HeldRun'
  <2>1. \A d, e \in due : d.who = e.who => d = e
    BY <1>7
  <2> QED
    BY <1>5, <1>7, <2>1 DEF HeldRun
<1>10. InTime' /\ Copies'
  BY <1>5, CopiesKept DEF RunInv, InTime, Copies
<1>11. Owed' = Owed
  BY <1>5 DEF Start, Idle, Owed, Sending
<1>12. Accounted'
  BY <1>5, <1>11 DEF RunInv, Accounted
<1> QED
  BY <1>8, <1>9, <1>10, <1>12 DEF RunInv

LEMMA SettleKeeps == ASSUME RunInv, Settle PROVE RunInv'
<1>1. /\ run' = [run EXCEPT !.step = "accounts", !.settled = {}]
      /\ run = [step |-> run.step, settled |-> run.settled, due |-> run.due]
      /\ UNCHANGED <<calls, left, vip, suspended, ran, told, repeats, deaths, reverted, edits>>
  BY DEF Settle, history, RunInv, HeldRun
<1>2. run'.step = "accounts" /\ run'.settled = {} /\ run'.due = run.due
      /\ run' = [step |-> "accounts", settled |-> {}, due |-> run.due]
  BY <1>1
<1>3. \A b \in Businesses : stage'[b] = IF b \in run.settled THEN Ended ELSE stage[b]
  BY DEF Settle
<1>4. TypeOK'
  BY <1>1, <1>2 DEF Settle, RunInv, TypeOK, Stage, Ended
<1>5. HeldRun'
  <2>1. ASSUME NEW d \in run.due
        PROVE  d.notice = Latest(left'[d.who]) /\ d.notice > stage'[d.who]
    <3>1. d.who \in Businesses
      BY DEF RunInv, TypeOK, Due
    <3> QED
      BY <1>1, <1>3, <3>1 DEF RunInv, HeldRun
  <2> QED
    BY <1>2, <2>1 DEF RunInv, HeldRun
<1>6. InTime' /\ Copies'
  <2>1. \A b \in Businesses : stage[b] <= stage'[b] /\ stage'[b] \in Stage
    BY <1>3 DEF RunInv, TypeOK, Stage, Ended
  <2>2. stage' \in [Businesses -> Stage]
    BY <1>4 DEF TypeOK
  <2> QED
    BY <1>1, <2>1, <2>2, CopiesKept DEF RunInv, InTime
<1>7. Owed' \subseteq Owed
  BY <1>1, <1>2, <1>3 DEF Owed, Sending, Settle, RunInv, TypeOK, Stage, Ended
<1>8. Accounted'
  <2>1. Cardinality(Owed') <= Cardinality(Owed)
    BY <1>7, Fewer DEF Owed
  <2>2. Owed \in SUBSET Businesses /\ Owed' \in SUBSET Businesses
    BY DEF Owed
  <2> QED
    BY <1>1, <2>1, <2>2, Counted DEF RunInv, Accounted, TypeOK
<1> QED
  BY <1>4, <1>5, <1>6, <1>8 DEF RunInv

\* The run goes on with fewer notices, and no row is written.
LEMMA DropKeeps ==
    ASSUME RunInv, NEW step \in {"idle", "send"}, NEW due \in SUBSET run.due,
           run' = [step |-> step, settled |-> run.settled, due |-> due],
           run.step # "record",
           UNCHANGED <<calls, left, stage, vip, suspended, ran, told, repeats, deaths, reverted, edits>>
    PROVE  RunInv'
<1>1. TypeOK'
  BY DEF RunInv, TypeOK
<1>2. HeldRun'
  BY DEF RunInv, HeldRun
<1>3. InTime' /\ Copies'
  BY DEF RunInv, InTime, Copies
<1>4. Owed' = Owed
  BY DEF Owed, Sending
<1> QED
  BY <1>1, <1>2, <1>3, <1>4 DEF RunInv, Accounted

LEMMA LoadKeeps == ASSUME RunInv, LoadAccounts PROVE RunInv'
<1>1. PICK due : due = {d \in run.due : d.who \notin suspended}
  OBVIOUS
<1>2. due \in SUBSET run.due /\ run.step # "record"
  BY <1>1 DEF LoadAccounts
<1>3. run' = [step |-> "send", settled |-> run.settled, due |-> due]
  BY <1>1 DEF LoadAccounts, RunInv, HeldRun
<1> QED
  BY <1>2, <1>3, DropKeeps DEF LoadAccounts, profile, history

LEMMA SendFailsKeeps == ASSUME RunInv, SendFails PROVE RunInv'
<1>1. PICK d \in run.due : run' = [run EXCEPT !.due = @ \ {d}]
  BY DEF SendFails
<1>2. run' = [step |-> "send", settled |-> run.settled, due |-> run.due \ {d}]
  BY <1>1 DEF SendFails, RunInv, HeldRun
<1> QED
  BY <1>2, DropKeeps DEF SendFails, profile, history

LEMMA SendOkKeeps == ASSUME RunInv, NEW b \in Businesses, SendOk(b) PROVE RunInv'
<1>1. PICK d \in run.due :
         /\ ComesNext(d) /\ d.who = b
         /\ repeats' = IF d.notice <= told[b] THEN repeats + 1 ELSE repeats
         /\ told'    = IF d.notice > told[b] THEN [told EXCEPT ![b] = d.notice] ELSE told
  BY DEF SendOk
<1>2. /\ d \in Due /\ d.notice \in Stage /\ told[b] \in Stage /\ stage[b] \in Stage
      /\ d.notice = Latest(left[b]) /\ d.notice > stage[b] /\ told[b] <= d.notice
  BY <1>1 DEF RunInv, TypeOK, HeldRun, InTime, Due
<1>3. /\ told'[b] = d.notice /\ \A c \in Businesses \ {b} : told'[c] = told[c]
      /\ told' \in [Businesses -> Stage]
  BY <1>1, <1>2 DEF RunInv, TypeOK, Stage
<1>4. /\ run.step = "send"
      /\ run' = [step |-> "record", settled |-> run.settled, due |-> run.due]
      /\ UNCHANGED <<calls, left, stage, vip, suspended, ran, deaths, reverted, edits>>
  BY DEF SendOk, profile, RunInv, HeldRun
<1>5. ComesNext(d)' /\ Sending(b)'
  BY <1>1, <1>4 DEF ComesNext, Sending
<1>6. TypeOK'
  BY <1>1, <1>3, <1>4 DEF RunInv, TypeOK
<1>7. HeldRun'
  BY <1>1, <1>3, <1>4, <1>5 DEF RunInv, HeldRun
<1>8. InTime'
  <2>1. Latest(left[b]) <= Latest(left[b])
    BY <1>2 DEF Stage
  <2>2. \A c \in Businesses : told'[c] <= Latest(left[c])
    BY <1>2, <1>3, <2>1 DEF RunInv, InTime
  <2> QED
    BY <1>4, <2>2 DEF InTime
<1>11. Copies'
  BY <1>4 DEF RunInv, Copies
<1>9. Owed' \subseteq Owed \ {b}
  BY <1>3, <1>4, <1>5 DEF Owed, Sending
<1>10. Accounted'
  <2>1. Owed \in SUBSET Businesses /\ Owed' \in SUBSET Businesses
    BY DEF Owed
  <2>2. CASE d.notice <= told[b]
    <3>1. b \in Owed
      BY <1>2, <1>4, <2>2 DEF Owed, Sending, Stage
    <3>2. Cardinality(Owed') + 1 <= Cardinality(Owed)
      BY <1>9, <2>1, <3>1, OneLess
    <3> QED
      BY <1>1, <1>4, <2>1, <2>2, <3>2, Counted DEF RunInv, Accounted, TypeOK
  <2>3. CASE ~(d.notice <= told[b])
    <3>1. Cardinality(Owed') <= Cardinality(Owed)
      BY <1>9, <2>1, Fewer
    <3> QED
      BY <1>1, <1>4, <2>1, <2>3, <3>1, Counted DEF RunInv, Accounted, TypeOK
  <2> QED
    BY <2>2, <2>3
<1> QED
  BY <1>6, <1>7, <1>8, <1>10, <1>11 DEF RunInv

\* The row catches up with what was told.
LEMMA RecordKeeps == ASSUME RunInv, Record PROVE RunInv'
<1>1. PICK d \in run.due : /\ ComesNext(d)
                           /\ stage' = [stage EXCEPT ![d.who] = d.notice]
                           /\ run' = [run EXCEPT !.step = "send", !.due = @ \ {d}]
  BY DEF Record
<1>2. /\ run.step = "record"
      /\ run' = [step |-> "send", settled |-> run.settled, due |-> run.due \ {d}]
      /\ UNCHANGED <<calls, left, vip, suspended, ran, told, repeats, deaths, reverted, edits>>
  BY <1>1 DEF Record, history, RunInv, HeldRun
<1>3. \A e \in run.due : ComesNext(e) => e = d
  <2>1. \A e \in run.due : e.who \in Nat
    BY DEF RunInv, TypeOK, Due, Businesses
  <2> QED
    BY <1>1, <2>1 DEF ComesNext, RunInv, HeldRun
<1>4. d \in Due /\ told[d.who] = d.notice /\ d.notice \in Stage /\ d.who \in Businesses
  BY <1>2, <1>3 DEF RunInv, TypeOK, HeldRun, Due
<1>5. /\ stage'[d.who] = d.notice /\ \A c \in Businesses \ {d.who} : stage'[c] = stage[c]
      /\ stage' \in [Businesses -> Stage]
  BY <1>1, <1>4 DEF RunInv, TypeOK
<1>6. TypeOK'
  BY <1>2, <1>5 DEF RunInv, TypeOK
<1>7. HeldRun'
  <2>1. ASSUME NEW e \in run.due \ {d} PROVE e.notice > stage'[e.who]
    <3>1. e.who \in Businesses /\ e.who # d.who
      BY DEF RunInv, TypeOK, HeldRun, Due
    <3> QED
      BY <1>5, <3>1 DEF RunInv, HeldRun
  <2> QED
    BY <1>2, <2>1 DEF RunInv, HeldRun
<1>8. InTime' /\ Copies'
  <2>1. d.notice > stage[d.who]
    BY DEF RunInv, HeldRun
  <2>2. \A b \in Businesses : stage[b] <= stage'[b]
    BY <1>4, <1>5, <2>1 DEF RunInv, TypeOK, Stage
  <2> QED
    BY <1>2, <1>5, <2>2, CopiesKept DEF RunInv, InTime
<1>9. Owed' \subseteq Owed
  <2> SUFFICES ASSUME NEW c \in Owed' PROVE c \in Owed
    OBVIOUS
  <2>1. c \in Businesses /\ told[c] > stage'[c]
    BY <1>2 DEF Owed
  <2>2. c # d.who
    BY <1>4, <1>5, <2>1 DEF Stage
  <2>3. ~Sending(c)
    BY <1>3, <2>2 DEF Sending
  <2> QED
    BY <1>5, <2>1, <2>2, <2>3 DEF Owed
<1>10. Accounted'
  <2>1. Owed \in SUBSET Businesses /\ Owed' \in SUBSET Businesses
    BY DEF Owed
  <2>2. Cardinality(Owed') <= Cardinality(Owed)
    BY <1>9, <2>1, Fewer
  <2> QED
    BY <1>2, <2>1, <2>2, Counted DEF RunInv, Accounted, TypeOK
<1> QED
  BY <1>6, <1>7, <1>8, <1>10 DEF RunInv

LEMMA DoneKeeps == ASSUME RunInv, Done PROVE RunInv'
<1>1. run' = Idle /\ UNCHANGED <<calls, left, stage, vip, suspended, ran, told, repeats, deaths, reverted, edits>>
  BY DEF Done, profile, history
<1>2. TypeOK'
  BY <1>1 DEF RunInv, TypeOK, Idle
<1>3. HeldRun'
  BY <1>1 DEF HeldRun, Idle
<1>4. InTime' /\ Copies'
  BY <1>1 DEF RunInv, InTime, Copies
<1>5. Owed' = Owed
  BY <1>1 DEF Done, Owed, Sending, Idle
<1> QED
  BY <1>1, <1>2, <1>3, <1>4, <1>5 DEF RunInv, Accounted

\* A run that is killed owes at most the business it was telling.
LEMMA DieKeeps == ASSUME RunInv, Die PROVE RunInv'
<1>1. /\ run' = Idle /\ deaths' = deaths + 1 /\ deaths < MaxDeaths
      /\ UNCHANGED <<calls, left, stage, vip, suspended, ran, told, repeats, reverted, edits>>
  BY DEF Die, profile
<1>2. TypeOK'
  BY <1>1, ReminderConstants DEF RunInv, TypeOK, Idle
<1>3. HeldRun'
  BY <1>1 DEF HeldRun, Idle
<1>4. InTime' /\ Copies'
  BY <1>1 DEF RunInv, InTime, Copies
<1>5. \E b : Owed' \subseteq Owed \cup {b} /\ (b \in Businesses \/ Owed' \subseteq Owed)
  <2>1. \A c \in Owed' : c \in Businesses /\ told[c] > stage[c]
    BY <1>1 DEF Owed
  <2>2. CASE \E d \in run.due : run.step = "record" /\ ComesNext(d)
    <3>1. PICK d \in run.due : run.step = "record" /\ ComesNext(d)
      BY <2>2
    <3>2. \A e \in run.due : ComesNext(e) => e = d
      <4>1. \A e \in run.due : e.who \in Nat
        BY DEF RunInv, TypeOK, Due, Businesses
      <4> QED
        BY <3>1, <4>1 DEF ComesNext, RunInv, HeldRun
    <3>3. d.who \in Businesses
      BY DEF RunInv, TypeOK, Due
    <3>4. Owed' \subseteq Owed \cup {d.who}
      BY <2>1, <3>2 DEF Owed, Sending
    <3> QED
      BY <3>3, <3>4
  <2>3. CASE ~\E d \in run.due : run.step = "record" /\ ComesNext(d)
    BY <2>1, <2>3 DEF Owed, Sending
  <2> QED
    BY <2>2, <2>3
<1>6. Accounted'
  <2>1. Owed \in SUBSET Businesses /\ Owed' \in SUBSET Businesses
    BY DEF Owed
  <2>2. Cardinality(Owed') <= Cardinality(Owed) + 1
    <3>1. PICK b : Owed' \subseteq Owed \cup {b} /\ (b \in Businesses \/ Owed' \subseteq Owed)
      BY <1>5
    <3>2. CASE b \in Businesses
      BY <2>1, <3>1, <3>2, OneMore
    <3>3. CASE Owed' \subseteq Owed
      BY <2>1, <3>3, Fewer, Counted
    <3> QED
      BY <3>1, <3>2, <3>3
  <2> QED
    BY <1>1, <2>1, <2>2, Counted DEF RunInv, Accounted, TypeOK
<1> QED
  BY <1>2, <1>3, <1>4, <1>6 DEF RunInv

\* A day goes by between runs: the notice that is due can only be a later one.
LEMMA TomorrowKeeps == ASSUME RunInv, Tomorrow PROVE RunInv'
<1>1. /\ run = Idle /\ run' = run /\ ran' = FALSE
      /\ UNCHANGED <<calls, stage, vip, suspended, told, repeats, deaths, reverted, edits>>
      /\ \A b \in Businesses : left'[b] = IF left[b] = 0 THEN 0 ELSE left[b] - 1
      /\ left' = [b \in Businesses |-> IF left[b] = 0 THEN 0 ELSE left[b] - 1]
  BY DEF Tomorrow, history
<1>2. \A b \in Businesses : left[b] \in 0..Trial /\ left'[b] \in 0..Trial /\ left'[b] <= left[b]
  BY <1>1, ReminderConstants DEF RunInv, TypeOK
<1>3. TypeOK'
  BY <1>1, <1>2 DEF RunInv, TypeOK
<1>4. HeldRun'
  BY <1>1 DEF HeldRun, Idle
<1>5. InTime'
  <2> SUFFICES ASSUME NEW b \in Businesses PROVE told'[b] <= Latest(left'[b])
    BY DEF InTime
  <2>1. left[b] \in Nat /\ left'[b] \in Nat /\ left'[b] <= left[b]
    BY <1>2, ReminderConstants
  <2>2. Latest(left[b]) <= Latest(left'[b]) /\ Latest(left[b]) \in Stage /\ Latest(left'[b]) \in Stage
    BY <2>1, LatestIsStage
  <2> QED
    BY <1>1, <2>2 DEF RunInv, TypeOK, InTime, Stage
<1>6. Owed' = Owed
  BY <1>1 DEF Owed, Sending, ComesNext
<1>7. Copies'
  BY <1>1 DEF RunInv, Copies
<1> QED
  BY <1>1, <1>3, <1>4, <1>5, <1>6, <1>7 DEF RunInv, Accounted

\* What happens to accounts and plans does not concern a run half way.
LEMMA AsideKeeps ==
    ASSUME RunInv, vip' \subseteq Businesses, suspended' \subseteq Businesses,
           UNCHANGED <<calls, left, stage, edits, run, ran, history>>
    PROVE  RunInv'
<1>1. TypeOK'
  BY DEF RunInv, TypeOK, history
<1>2. HeldRun'
  BY DEF RunInv, HeldRun, ComesNext, history
<1>3. InTime' /\ Copies' /\ Owed' = Owed
  BY DEF RunInv, InTime, Copies, Owed, Sending, ComesNext, history
<1> QED
  BY <1>1, <1>2, <1>3 DEF RunInv, Accounted, history

(***************************************************************************)
(* Edits of a page.                                                        *)
(***************************************************************************)

LEMMA EditLoadKeeps == ASSUME RunInv, NEW b \in Businesses, EditLoad(b) PROVE RunInv'
<1>1. PICK e : e = [who |-> b, stage |-> stage[b], vip |-> b \in vip]
  OBVIOUS
<1>2. /\ edits' = edits \cup {e} /\ \A f \in edits : f.who # b
      /\ UNCHANGED <<calls, left, stage, vip, suspended, run, ran, told, repeats, deaths, reverted>>
  BY <1>1 DEF EditLoad, profile, history
<1>3. e.who = b /\ e.stage = stage[b] /\ stage[b] \in Stage /\ e \in Edit
  BY <1>1 DEF RunInv, TypeOK, Edit
<1>4. TypeOK'
  BY <1>2, <1>3 DEF RunInv, TypeOK
<1>5. Copies'
  <2>1. e.stage <= stage[e.who]
    BY <1>3 DEF Stage
  <2> QED
    BY <1>2, <1>3, <2>1 DEF RunInv, Copies
<1>6. HeldRun' /\ InTime' /\ Owed' = Owed
  BY <1>2 DEF RunInv, HeldRun, InTime, Owed, Sending, ComesNext
<1> QED
  BY <1>2, <1>4, <1>5, <1>6 DEF RunInv, Accounted

LEMMA EditEndsKeeps == ASSUME RunInv, NEW b \in Businesses, EditEnds(b) PROVE RunInv'
<1>1. /\ edits' \subseteq edits
      /\ UNCHANGED <<calls, left, stage, vip, suspended, run, ran, told, repeats, deaths, reverted>>
  BY DEF EditEnds, profile, history
<1>2. TypeOK'
  BY <1>1 DEF RunInv, TypeOK
<1>3. HeldRun' /\ Copies' /\ InTime' /\ Owed' = Owed
  BY <1>1 DEF RunInv, HeldRun, Copies, InTime, Owed, Sending, ComesNext
<1> QED
  BY <1>1, <1>2, <1>3 DEF RunInv, Accounted

\* A page that is put back is told again at most once for it.
LEMMA EditSaveKeeps == ASSUME RunInv, NEW b \in Businesses, EditSave(b) PROVE RunInv'
<1>1. PICK e \in edits :
         /\ e.who = b /\ edits' = edits \ {e}
         /\ stage' = [stage EXCEPT ![b] = e.stage]
         /\ vip' = IF e.vip THEN vip \cup {b} ELSE vip \ {b}
         /\ reverted' = IF e.stage < stage[b] THEN reverted + 1 ELSE reverted
  BY DEF EditSave
<1>2. UNCHANGED <<calls, left, suspended, run, ran, told, repeats, deaths>>
  BY DEF EditSave
<1>3. e.stage \in Stage /\ stage[b] \in Stage /\ e.stage <= stage[b]
  BY <1>1 DEF RunInv, TypeOK, Edit, Copies
<1>4. /\ stage' \in [Businesses -> Stage] /\ stage'[b] = e.stage
      /\ \A c \in Businesses \ {b} : stage'[c] = stage[c]
      /\ \A c \in Businesses : stage'[c] <= stage[c]
  BY <1>1, <1>3 DEF RunInv, TypeOK, Stage
<1>5. TypeOK'
  <2>1. vip' \subseteq Businesses /\ edits' \subseteq Edit /\ reverted' \in Nat
    BY <1>1 DEF RunInv, TypeOK
  <2> QED
    BY <1>2, <1>4, <2>1 DEF RunInv, TypeOK
<1>6. HeldRun'
  <2>1. ASSUME NEW d \in run.due PROVE d.notice > stage'[d.who]
    <3>1. d.who \in Businesses /\ d.notice \in Nat /\ d.notice > stage[d.who]
      BY DEF RunInv, TypeOK, HeldRun, Due, Stage
    <3>2. stage[d.who] \in Nat /\ stage'[d.who] \in Nat /\ stage'[d.who] <= stage[d.who]
      BY <1>4, <3>1 DEF RunInv, TypeOK, Stage
    <3> QED
      BY <3>1, <3>2
  <2> QED
    BY <1>2, <2>1 DEF RunInv, HeldRun, ComesNext
<1>7. Copies'
  <2>1. ASSUME NEW f \in edits \ {e} PROVE f.stage <= stage'[f.who]
    <3>1. f.who \in Businesses \ {b}
      BY <1>1 DEF RunInv, TypeOK, Edit, Copies
    <3> QED
      BY <1>4, <3>1 DEF RunInv, Copies
  <2> QED
    BY <1>1, <2>1 DEF RunInv, Copies
<1>8. InTime'
  BY <1>2 DEF RunInv, InTime
<1>9. Accounted'
  <2>1. Owed \in SUBSET Businesses /\ Owed' \in SUBSET Businesses
    BY DEF Owed
  <2>2. CASE e.stage < stage[b]
    <3>1. Owed' \subseteq Owed \cup {b}
      BY <1>2, <1>4 DEF Owed, Sending, ComesNext
    <3>2. Cardinality(Owed') <= Cardinality(Owed) + 1
      BY <2>1, <3>1, OneMore
    <3> QED
      BY <1>1, <1>2, <2>1, <2>2, <3>2, Counted DEF RunInv, Accounted, TypeOK
  <2>3. CASE e.stage = stage[b]
    <3>1. \A c \in Businesses : stage'[c] = stage[c]
      BY <1>4, <2>3
    <3>2. Owed' = Owed
      BY <1>2, <3>1 DEF Owed, Sending, ComesNext
    <3>3. reverted' = reverted
      BY <1>1, <1>3, <2>3 DEF Stage
    <3> QED
      BY <1>2, <3>2, <3>3 DEF RunInv, Accounted
  <2> QED
    BY <1>3, <2>2, <2>3 DEF Stage
<1> QED
  BY <1>5, <1>6, <1>7, <1>8, <1>9 DEF RunInv

LEMMA RunNext == RunInv /\ [Next]_vars => RunInv'
<1> SUFFICES ASSUME RunInv, [Next]_vars PROVE RunInv'
  OBVIOUS
<1>1. vip \subseteq Businesses /\ suspended \subseteq Businesses
  BY DEF RunInv, TypeOK
<1>2. ASSUME NEW b \in Businesses, setPlan(b) PROVE RunInv'
  BY <1>1, <1>2, AsideKeeps DEF setPlan
<1>3. ASSUME NEW b \in Businesses, updateStatus(b) PROVE RunInv'
  BY <1>1, <1>3, AsideKeeps DEF updateStatus, profile
<1>4. CASE UNCHANGED vars
  BY <1>1, <1>4, AsideKeeps DEF vars, profile
<1> QED
  BY <1>2, <1>3, <1>4, EditLoadKeeps, EditSaveKeeps, EditEndsKeeps, StartKeeps, SettleKeeps, LoadKeeps, SendOkKeeps, SendFailsKeeps,
     RecordKeeps, DoneKeeps, DieKeeps, TomorrowKeeps DEF Next, Run

LEMMA RunAlways == Spec => []RunInv
BY RunInit, RunNext, PTL DEF Spec

\* The counters and the rows of the notices keep their ranges, and a run holds notices.
THEOREM TypeCorrect == Spec => []TypeOK
BY RunAlways, PTL DEF RunInv

\* A notice goes out again only for a run that was killed after it went out or an edit that put
\* the row back: there are never more repeats than those, for any number of businesses, days,
\* deaths and edits.
THEOREM EachOnce == Spec => []EachGoesOutOnce
<1>1. RunInv => EachGoesOutOnce
  <2>1. Owed \in SUBSET Businesses
    BY DEF Owed
  <2> QED
    BY <2>1, Counted DEF RunInv, Accounted, TypeOK, EachGoesOutOnce
<1> QED
  BY <1>1, RunAlways, PTL
================================================================================
