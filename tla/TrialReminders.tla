----------------------------- MODULE TrialReminders ----------------------------
(***************************************************************************)
(* The e-mails about the free trial: TrialRemindersService.run, called     *)
(* once a day by CronController, and what of a ProviderProfile it reads    *)
(* and writes: the trial, VIP and the last notice sent.                    *)
(*                                                                         *)
(* There is no clock: left counts the days of each trial down to 0, where  *)
(* it stays.  Businesses are numbered in the order in which their trials   *)
(* end; one whose trial has not started is one that has many days left.    *)
(* What a run has yet to send is a set, of which the first to end is next. *)
(* An edit of a page saves the whole row it loaded, notice and plan too,   *)
(* however long ago it loaded it; each page has one edit in flight.        *)
(***************************************************************************)
EXTENDS Naturals, FiniteSets

CONSTANTS
    N,             \* businesses
    Trial,         \* TRIAL_DAYS
    Week,          \* how long before the end the first notice goes out, in days
    Batch,         \* BATCH: businesses one run looks at
    Traffic,       \* sets of endpoints that are called together
    MaxSuspended,  \* bound on the accounts suspended at once
    MaxVip,        \* bound on the businesses on VIP at once
    MaxDeaths,     \* bound on the runs that are killed
    MaxReverts     \* bound on the edits that save an older notice

VARIABLES
    left,       \* days left of each trial
    stage,      \* trialNoticeStage
    vip,        \* businesses on a VIP that does not run out
    suspended,  \* accounts with disabledAt
    calls,      \* endpoints called
    edits,      \* edits of pages in flight: the rows they loaded
    run,        \* what the daily run holds
    ran,        \* whether today's run has started
    told,       \* history: the furthest notice sent to each business
    repeats,    \* history: notices sent that were not further than the last
    deaths,     \* history: runs that were killed
    reverted    \* history: edits that saved an older notice than the row had

profile == <<left, stage, vip>>
history == <<told, repeats, deaths, reverted>>
vars    == <<profile, suspended, calls, edits, run, ran, history>>

\* trialEndsAt, ascending.
Businesses == 1..N

\* TRIAL_NOTICES: 0 for none, then "7d", "1d", "ended".
Stage == 0..3
Ended == 3

Endpoint == {"setPlan", "updateStatus", "saveMine"}

Due  == [who : Businesses, notice : Stage]
Edit == [who : Businesses, stage : Stage, vip : BOOLEAN]
Idle == [step |-> "idle", settled |-> {}, due |-> {}]

ASSUME ReminderConstants ==
    /\ N \in Nat /\ Week \in Nat \ {0} /\ Trial \in Nat /\ Trial >= Week
    /\ Batch \in Nat \ {0} /\ Traffic \subseteq SUBSET Endpoint
    /\ MaxSuspended \in Nat /\ MaxVip \in Nat
    /\ MaxDeaths \in Nat /\ MaxReverts \in Nat

Init ==
    /\ left      \in [Businesses -> 0..Trial]
    /\ \A b, c \in Businesses : b < c => left[b] <= left[c]
    /\ stage     = [b \in Businesses |-> 0]
    /\ vip       = {}
    /\ suspended = {}
    /\ calls     \in Traffic
    /\ edits     = {}
    /\ run       = Idle
    /\ ran       = FALSE
    /\ told      = [b \in Businesses |-> 0]
    /\ repeats   = 0
    /\ deaths    = 0
    /\ reverted  = 0

--------------------------------------------------------------------------------
(***************************************************************************)
(* What happens to businesses.                                             *)
(***************************************************************************)

setPlan(b) ==
    /\ "setPlan" \in calls
    /\ \/ b \in vip /\ vip' = vip \ {b}
       \/ b \notin vip /\ Cardinality(vip) < MaxVip /\ vip' = vip \cup {b}
    /\ UNCHANGED <<left, stage, suspended, calls, edits, run, ran, history>>

updateStatus(b) ==
    /\ "updateStatus" \in calls
    /\ \/ b \in suspended /\ suspended' = suspended \ {b}
       \/ b \notin suspended /\ Cardinality(suspended) < MaxSuspended
          /\ suspended' = suspended \cup {b}
    /\ UNCHANGED <<profile, calls, edits, run, ran, history>>

\* A run takes at most 30 seconds.
Tomorrow ==
    /\ run = Idle
    /\ left' = [b \in Businesses |-> IF left[b] = 0 THEN 0 ELSE left[b] - 1]
    /\ ran' = FALSE
    /\ UNCHANGED <<stage, vip, suspended, calls, edits, run, history>>

\* saveMine: the page is loaded.
EditLoad(b) ==
    /\ "saveMine" \in calls
    /\ \A e \in edits : e.who # b
    /\ Cardinality(edits) + reverted < MaxReverts
    /\ edits' = edits \cup {[who |-> b, stage |-> stage[b], vip |-> b \in vip]}
    /\ UNCHANGED <<profile, suspended, calls, run, ran, history>>

\* Saved, with the notice and the plan it had then.
EditSave(b) ==
    /\ \E e \in edits :
          /\ e.who = b
          /\ edits'    = edits \ {e}
          /\ stage'    = [stage EXCEPT ![b] = e.stage]
          /\ vip'      = IF e.vip THEN vip \cup {b} ELSE vip \ {b}
          /\ reverted' = IF e.stage < stage[b] THEN reverted + 1 ELSE reverted
    /\ UNCHANGED <<left, suspended, calls, run, ran, told, repeats, deaths>>

\* Refused, or its instance is stopped.
EditEnds(b) ==
    /\ \E e \in edits : e.who = b /\ edits' = edits \ {e}
    /\ UNCHANGED <<profile, suspended, calls, run, ran, history>>

--------------------------------------------------------------------------------
(***************************************************************************)
(* TrialRemindersService.run.                                              *)
(***************************************************************************)

\* trialNoticeDue: the latest notice that applies, unless one as late was sent.
Latest(days) == IF days = 0 THEN Ended
                ELSE IF days <= 1 THEN 2
                ELSE IF days <= Week THEN 1
                ELSE 0

trialNoticeDue(b) == IF b \notin vip /\ Latest(left[b]) > stage[b] THEN Latest(left[b]) ELSE 0

\* Trials that end within a week and are not settled, the first BATCH to end.
InWindow(b) == left[b] <= Week /\ stage[b] # Ended

Candidates ==
    {b \in Businesses : /\ InWindow(b)
                        /\ Cardinality({c \in Businesses : InWindow(c) /\ c < b}) < Batch}

Start ==
    /\ run = Idle /\ ~ran
    /\ ran' = TRUE
    /\ run' = [step    |-> "settle",
               settled |-> {b \in Candidates \cap vip : left[b] = 0},
               due     |-> {[who |-> b, notice |-> trialNoticeDue(b)] :
                              b \in {c \in Candidates : trialNoticeDue(c) # 0}}]
    /\ UNCHANGED <<profile, suspended, calls, edits, history>>

\* Mutant: those on VIP keep their place.
SettleNothing ==
    /\ run.step = "settle"
    /\ run' = [run EXCEPT !.step = "accounts", !.settled = {}]
    /\ UNCHANGED <<profile, suspended, calls, edits, ran, history>>

\* "Trial over and on VIP: no email will ever be due."
Settle ==
    /\ run.step = "settle"
    /\ stage' = [b \in Businesses |-> IF b \in run.settled THEN Ended ELSE stage[b]]
    /\ run' = [run EXCEPT !.step = "accounts", !.settled = {}]
    /\ UNCHANGED <<left, vip, suspended, calls, edits, ran, history>>

\* "A suspended or deleted account gets nothing."
LoadAccounts ==
    /\ run.step = "accounts"
    /\ run' = [run EXCEPT !.step = "send", !.due = {d \in @ : d.who \notin suspended}]
    /\ UNCHANGED <<profile, suspended, calls, edits, ran, history>>

\* The notice that is next.
ComesNext(d) == d \in run.due /\ \A e \in run.due : d.who <= e.who

SendOk(b) ==
    /\ run.step = "send"
    /\ \E d \in run.due :
          /\ ComesNext(d) /\ d.who = b
          /\ repeats' = IF d.notice <= told[b] THEN repeats + 1 ELSE repeats
          /\ told'    = IF d.notice > told[b] THEN [told EXCEPT ![b] = d.notice] ELSE told
    /\ run' = [run EXCEPT !.step = "record"]
    /\ UNCHANGED <<profile, suspended, calls, edits, ran, deaths, reverted>>

\* Not sent: tried again the next day.
SendFails ==
    /\ run.step = "send"
    /\ \E d \in run.due : ComesNext(d) /\ run' = [run EXCEPT !.due = @ \ {d}]
    /\ UNCHANGED <<profile, suspended, calls, edits, ran, history>>

\* Mutant: the copy remembers the notice and the row does not.
RecordInCopy ==
    /\ run.step = "record"
    /\ \E d \in run.due : ComesNext(d) /\ run' = [run EXCEPT !.step = "send", !.due = @ \ {d}]
    /\ UNCHANGED <<profile, suspended, calls, edits, ran, history>>

\* "A notice is recorded only once its email actually went out."
Record ==
    /\ run.step = "record"
    /\ \E d \in run.due :
          /\ ComesNext(d)
          /\ stage' = [stage EXCEPT ![d.who] = d.notice]
          /\ run'   = [run EXCEPT !.step = "send", !.due = @ \ {d}]
    /\ UNCHANGED <<left, vip, suspended, calls, edits, ran, history>>

Done ==
    /\ run.step = "send" /\ run.due = {}
    /\ run' = Idle
    /\ UNCHANGED <<profile, suspended, calls, edits, ran, history>>

\* The 30 seconds are over, or an awaited call rejects.
Die ==
    /\ run # Idle /\ deaths < MaxDeaths
    /\ deaths' = deaths + 1
    /\ run' = Idle
    /\ UNCHANGED <<profile, suspended, calls, edits, ran, told, repeats, reverted>>

--------------------------------------------------------------------------------
Run == Start \/ Settle \/ LoadAccounts \/ Record \/ Done
       \/ SendFails \/ \E b \in Businesses : SendOk(b)

Next ==
    \/ \E b \in Businesses : setPlan(b) \/ updateStatus(b)
    \/ \E b \in Businesses : EditLoad(b) \/ EditSave(b) \/ EditEnds(b)
    \/ Tomorrow \/ Run \/ Die

\* Days go by, the cron job is called, a run that is not killed goes on, and an
\* e-mail that is tried day after day goes out in the end.
Fairness ==
    /\ WF_vars(Tomorrow) /\ WF_vars(Run)
    /\ \A b \in Businesses : SF_vars(SendOk(b))

Spec == Init /\ [][Next]_vars /\ Fairness

--------------------------------------------------------------------------------
(***************************************************************************)
(* Properties.                                                             *)
(***************************************************************************)

TypeOK ==
    /\ left \in [Businesses -> 0..Trial]
    /\ stage \in [Businesses -> Stage]
    /\ vip \subseteq Businesses /\ suspended \subseteq Businesses
    /\ run.step \in {"idle", "settle", "accounts", "send", "record"}
    /\ run.settled \subseteq Businesses /\ run.due \subseteq Due
    /\ ran \in BOOLEAN
    /\ calls \in Traffic /\ edits \subseteq Edit
    /\ told \in [Businesses -> Stage] /\ repeats \in Nat
    /\ deaths \in 0..MaxDeaths /\ reverted \in Nat

\* provider-profile.entity.ts: "each goes out once even though the daily job looks at the
\* business every day", and never an earlier one after a later one.  A notice is repeated
\* only for a run that was killed after sending it, or for an edit of the page that overlapped
\* the run and saved the notice it had loaded.
EachGoesOutOnce == repeats <= deaths + reverted

\* trial-reminders.service.ts: "Whoever doesn't fit is picked up by the next day's run."
\* Every business whose trial is over is told in the end, if it is not on VIP or
\* suspended.
EveryoneIsTold ==
    \A b \in Businesses :
        left[b] = 0 ~> (stage[b] = Ended \/ b \in vip \/ b \in suspended)
================================================================================
