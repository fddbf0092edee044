----------------------------- MODULE SlaTracking -----------------------------
(***************************************************************************)
(* The service-level clock of one onboarding case: the timer coroutine the *)
(* workflow runs beside each stage handler, the activities it starts, and  *)
(* the case_sla_tracking rows they read and write                          *)
(* (src/backend/app/workflows/onboarding_workflow.py, "SLA timer helpers", *)
(* src/backend/app/services/sla/sla_monitor_service.py).                   *)
(*                                                                         *)
(* A visit of a stage goes start -> work (-> wait) -> persist; the wait is *)
(* the one for a human, with the clock paused.  Time passes in work and in *)
(* wait.  Activities take less than a tick, but in that time the handler   *)
(* may leave the stage: what is in flight then may still run.              *)
(***************************************************************************)
EXTENDS Integers, Sequences

CONSTANTS
  Stages,      \* stages a case may be in
  Tracked,     \* stages with an enabled domain_stage_slas row
  PauseStages, \* stages whose human wait pauses the clock: pause_on_human_review
  WarnAt,      \* window_hours * warning_pct of each stage, in ticks
  BreachAt,    \* window_hours * escalation_pct of each stage, in ticks
  MaxTime,     \* bound: ticks
  MaxVisits,   \* bound: stages entered
  MaxFaults    \* bound: activities and writes that fail

\* domain_stage_slas_pct_chk: warning_pct < escalation_pct.
ASSUME SlaAssumption ==
  /\ PauseStages \subseteq Tracked
  /\ Tracked \subseteq Stages
  /\ "ESCALATED" \in Stages
  /\ WarnAt \in [Stages -> Nat]
  /\ BreachAt \in [Stages -> Nat]
  /\ \A s \in Stages : WarnAt[s] < BreachAt[s]
  /\ MaxTime \in Nat
  /\ MaxVisits \in Nat \ {0}
  /\ MaxFaults \in Nat

VARIABLES
  now,      \* time
  stage,    \* the stage whose handler runs
  step,     \* where the handler is
  watched,  \* the handler has an sla_config
  timer,    \* the _watch_sla coroutine
  tracking, \* case_sla_tracking, one row per stage at most
  acts,     \* warning and breach activities in flight
  row,      \* onboarding_cases.current_stage
  logged,   \* the times of the SLA_BREACH entries of each stage in the decision log
  used,     \* ticks of watched work in each stage, human waits left out
  visits,   \* stages entered
  faults    \* failures so far

clockVars == <<now, used>>
caseVars == <<stage, step, watched, visits>>
vars == <<clockVars, caseVars, timer, tracking, acts, row, logged, faults>>

NULL == -1

Row == [started : Int, pausedAt : Int, pausedFor : Int, warned : BOOLEAN, breached : BOOLEAN]

NoRow == [started |-> NULL, pausedAt |-> NULL, pausedFor |-> 0,
          warned |-> FALSE, breached |-> FALSE]

Exists(s) == tracking[s].started # NULL

\* at is where the coroutine sleeps or waits; due and gap are its two sleeps.
Timer == [at : {"none", "toWarn", "warning", "toBreach", "breaching"}, due : Int, gap : Nat]

NoTimer == [at |-> "none", due |-> 0, gap |-> 0]

\* resumed: started by the coroutine after the human wait; checked: the breach
\* activity has read breach_triggered_at and found it empty.
Activity == [kind : {"warning", "breach"}, stage : Tracked, resumed : BOOLEAN,
             awaited : BOOLEAN, checked : BOOLEAN]

NewActivity(kind) ==
  [kind |-> kind, stage |-> stage, resumed |-> step = "persist", awaited |-> TRUE,
   checked |-> FALSE]

LogOK == logged \in [Stages -> Seq(Nat)]

SlaTypeOK ==
  /\ now \in 0 .. MaxTime
  /\ stage \in Stages
  /\ step \in {"start", "work", "wait", "persist", "closed"}
  /\ watched \in BOOLEAN
  /\ timer \in Timer
  /\ tracking \in [Stages -> Row]
  /\ acts \subseteq Activity
  /\ row \in Stages
  /\ LogOK
  /\ used \in [Stages -> Nat]
  /\ visits \in 0 .. MaxVisits
  /\ faults \in 0 .. MaxFaults

Max0(x) == IF x > 0 THEN x ELSE 0

\* get_net_elapsed_seconds: time since the start, pauses left out.
NetElapsed(s) ==
  LET t == tracking[s]
  IN Max0((IF t.pausedAt = NULL THEN now ELSE t.pausedAt) - t.started - t.pausedFor)

Fail(n) == faults + n <= MaxFaults /\ faults' = faults + n

\* Mutant of WatchSla: the second sleep is the whole time to the breach.
WatchSlaWholeGap(s, elapsed) ==
  LET toWarn == Max0(WarnAt[s] - elapsed)
      toBreach == Max0(BreachAt[s] - elapsed)
  IN [at |-> "toWarn", due |-> now + toWarn, gap |-> toBreach]

\* _watch_sla is started for stage s with elapsed ticks used up.
WatchSla(s, elapsed) ==
  LET toWarn == Max0(WarnAt[s] - elapsed)
      toBreach == Max0(BreachAt[s] - elapsed)
  IN [at |-> "toWarn", due |-> now + toWarn, gap |-> toBreach - toWarn]

\* sla_task.cancel(): the coroutine is gone; nobody waits for its activity.
Cancel ==
  /\ timer' = NoTimer
  /\ acts' = {[a EXCEPT !.awaited = FALSE] : a \in acts}

Init ==
  /\ now = 0
  /\ stage \in Stages
  /\ step = "start"
  /\ watched = FALSE
  /\ timer = NoTimer
  /\ tracking = [s \in Stages |-> NoRow]
  /\ acts = {}
  /\ row = stage
  /\ logged = [s \in Stages |-> <<>>]
  /\ used = [s \in Stages |-> 0]
  /\ visits = 1
  /\ faults = 0

-----------------------------------------------------------------------------
(* The stage handler *)

\* _start_sla_timer finds no SLA for the stage, or start_sla_tracking_activity
\* fails: the unique (case_id, stage_code) refuses a second row for a stage that
\* is visited again, or every attempt fails, the last one perhaps after its commit.
StartUntimed ==
  /\ step = "start"
  /\ \/ /\ stage \notin Tracked \/ Exists(stage)
        /\ UNCHANGED <<tracking, faults>>
     \/ /\ stage \in Tracked /\ ~Exists(stage)
        /\ Fail(1)
        /\ UNCHANGED tracking \/ tracking' = [tracking EXCEPT ![stage].started = now]
  /\ step' = "work"
  /\ watched' = FALSE
  /\ UNCHANGED <<clockVars, stage, visits, timer, acts, row, logged>>

\* _start_sla_timer writes the row and starts the coroutine.
StartTimed ==
  /\ step = "start"
  /\ stage \in Tracked /\ ~Exists(stage)
  /\ tracking' = [tracking EXCEPT ![stage].started = now]
  /\ timer' = WatchSla(stage, 0)
  /\ step' = "work"
  /\ watched' = TRUE
  /\ UNCHANGED <<clockVars, stage, visits, acts, row, logged, faults>>

\* The kickoff is done, _pause_sla cancels the coroutine and records paused_at,
\* or its activity fails and the error is swallowed.
PauseClock ==
  /\ step = "work"
  /\ stage \in PauseStages
  /\ IF watched
     THEN /\ Cancel
          /\ \/ /\ tracking' = [tracking EXCEPT ![stage].pausedAt =
                                  IF @ = NULL THEN now ELSE @]
                /\ UNCHANGED faults
             \/ Fail(1) /\ UNCHANGED tracking
     ELSE UNCHANGED <<timer, acts, tracking, faults>>
  /\ step' = "wait"
  /\ UNCHANGED <<clockVars, stage, watched, visits, row, logged>>

\* Mutant of Resumed: paused_at is cleared and the pause is not added up.
ResumedForgetful(t) == [t EXCEPT !.pausedAt = NULL]

\* resume_tracking on the row of the stage.
Resumed(t) ==
  [t EXCEPT !.pausedAt = NULL,
            !.pausedFor = @ + (IF t.pausedAt = NULL THEN 0 ELSE now - t.pausedAt)]

\* A human answered: _resume_sla starts a new coroutine with the time used up to
\* the pause, or from zero when its activity fails, perhaps after its commit.
ResumeClock ==
  /\ step = "wait"
  /\ IF watched
     THEN LET t == Resumed(tracking[stage])
          IN \/ /\ tracking' = [tracking EXCEPT ![stage] = t]
                /\ timer' = WatchSla(stage, Max0(now - t.started - t.pausedFor))
                /\ UNCHANGED faults
             \/ /\ Fail(1)
                /\ UNCHANGED tracking \/ tracking' = [tracking EXCEPT ![stage] = t]
                /\ timer' = WatchSla(stage, 0)
     ELSE UNCHANGED <<timer, tracking, faults>>
  /\ step' = "persist"
  /\ UNCHANGED <<clockVars, stage, watched, visits, acts, row, logged>>

\* A stage whose handler does not pause the clock is done.
FinishWork ==
  /\ step = "work"
  /\ stage \notin PauseStages
  /\ step' = "persist"
  /\ UNCHANGED <<clockVars, stage, watched, visits, timer, tracking, acts, row, logged,
                 faults>>

\* persist_stage_activity writes the row, or swallows the error (_handle_escalated
\* does not call it); the finally block cancels the coroutine and the next
\* handler begins.
LeaveStage ==
  /\ step = "persist"
  /\ visits < MaxVisits
  /\ visits' = visits + 1
  /\ \E s \in Stages :
       /\ stage' = s
       /\ \/ stage # "ESCALATED" /\ row' = s /\ UNCHANGED faults
          \/ stage = "ESCALATED" /\ UNCHANGED <<row, faults>>
          \/ stage # "ESCALATED" /\ Fail(1) /\ UNCHANGED row
  /\ Cancel
  /\ step' = "start"
  /\ watched' = FALSE
  /\ UNCHANGED <<clockVars, tracking, logged>>

\* The workflow ends or fails in this stage.
CloseWorkflow ==
  /\ step \in {"work", "wait", "persist"}
  /\ Cancel
  /\ step' = "closed"
  /\ watched' = FALSE
  /\ UNCHANGED <<clockVars, stage, visits, tracking, row, logged, faults>>

-----------------------------------------------------------------------------
(* The coroutine _watch_sla and its activities *)

\* The first sleep ends: send_sla_warning_activity is started.
WarningDue ==
  /\ timer.at = "toWarn"
  /\ now >= timer.due
  /\ timer' = [timer EXCEPT !.at = "warning"]
  /\ acts' = acts \cup {NewActivity("warning")}
  /\ UNCHANGED <<clockVars, caseVars, tracking, row, logged, faults>>

\* The activity ends.  It is not retried: when it fails, before or after its
\* commit, the coroutine dies of the error and there will be no breach.
WarningReturns(a) ==
  /\ a \in acts /\ a.kind = "warning"
  /\ acts' = acts \ {a}
  /\ \/ /\ tracking' = [tracking EXCEPT ![a.stage].warned = TRUE]
        /\ timer' = IF a.awaited
                    THEN [timer EXCEPT !.at = "toBreach", !.due = now + timer.gap]
                    ELSE timer
        /\ UNCHANGED faults
     \/ /\ Fail(1)
        /\ UNCHANGED tracking \/ tracking' = [tracking EXCEPT ![a.stage].warned = TRUE]
        /\ timer' = IF a.awaited THEN NoTimer ELSE timer
  /\ UNCHANGED <<clockVars, caseVars, row, logged>>

\* The second sleep ends: trigger_sla_breach_activity is started.
BreachDue ==
  /\ timer.at = "toBreach"
  /\ now >= timer.due
  /\ timer' = [timer EXCEPT !.at = "breaching"]
  /\ acts' = acts \cup {NewActivity("breach")}
  /\ UNCHANGED <<clockVars, caseVars, tracking, row, logged, faults>>

\* Mutant of AlreadyTriggered: record_breach_triggered does not look at the row.
NeverTriggered(s) == FALSE

\* record_breach_triggered finds breach_triggered_at set.
AlreadyTriggered(s) == tracking[s].breached

\* The activity reads the row, without a lock: it has nothing to do when the
\* breach is recorded.
BreachChecks(a) ==
  /\ a \in acts /\ a.kind = "breach" /\ ~a.checked
  /\ IF AlreadyTriggered(a.stage)
     THEN /\ acts' = acts \ {a}
          /\ timer' = IF a.awaited THEN NoTimer ELSE timer
     ELSE /\ acts' = (acts \ {a}) \cup {[a EXCEPT !.checked = TRUE]}
          /\ UNCHANGED timer
  /\ UNCHANGED <<clockVars, caseVars, tracking, row, logged, faults>>

\* The activity ends: the breach is recorded and, when no write is lost, the
\* case row becomes ESCALATED and the log has an entry.  A failure after the
\* first commit leaves the rest undone for good.
BreachReturns(a) ==
  /\ a \in acts /\ a.kind = "breach" /\ a.checked
  /\ acts' = acts \ {a}
  /\ timer' = IF a.awaited THEN NoTimer ELSE timer
  /\ \E recorded, escalated, inLog \in BOOLEAN :
       /\ escalated \/ inLog => recorded
       /\ IF recorded /\ escalated /\ inLog THEN UNCHANGED faults ELSE Fail(1)
       /\ tracking' = IF recorded THEN [tracking EXCEPT ![a.stage].breached = TRUE]
                      ELSE tracking
       /\ row' = IF escalated THEN "ESCALATED" ELSE row
       /\ logged' = IF inLog THEN [logged EXCEPT ![a.stage] = Append(@, now)] ELSE logged
  /\ UNCHANGED <<clockVars, caseVars>>

\* The cancellation of an activity reaches it before a worker has taken it.
ActivityCancelled(a) ==
  /\ a \in acts /\ ~a.awaited /\ ~a.checked
  /\ acts' = acts \ {a}
  /\ UNCHANGED <<clockVars, caseVars, timer, tracking, row, logged, faults>>

-----------------------------------------------------------------------------
(* Time.  A timer that is due fires, and an activity ends, before the next   *)
(* tick, unless the worker is down.                                          *)

Due == timer.at \in {"toWarn", "toBreach"} /\ now >= timer.due

Tick ==
  /\ now < MaxTime
  /\ step \in {"work", "wait"}
  /\ IF acts = {} /\ ~Due THEN UNCHANGED faults ELSE Fail(1)
  /\ now' = now + 1
  /\ used' = IF watched /\ step = "work" THEN [used EXCEPT ![stage] = @ + 1] ELSE used
  /\ UNCHANGED <<caseVars, timer, tracking, acts, row, logged>>

Handler ==
  \/ StartUntimed \/ StartTimed \/ PauseClock \/ ResumeClock \/ FinishWork
  \/ LeaveStage \/ CloseWorkflow

Watcher ==
  \/ WarningDue \/ BreachDue
  \/ \E a \in acts :
       WarningReturns(a) \/ BreachChecks(a) \/ BreachReturns(a) \/ ActivityCancelled(a)

Next == Handler \/ Watcher \/ Tick

Spec == Init /\ [][Next]_vars

-----------------------------------------------------------------------------
(* Properties *)

\* The stopwatch in the database tells the time really spent: over pauses and
\* resumptions, net elapsed time is the time of watched work, as long as no
\* write of a pause was lost (pause_tracking, resume_tracking).
ClockIsTrue ==
  watched /\ faults = 0 => NetElapsed(stage) = used[stage]

\* A breach is never early: when its activity runs, the stage has used up its
\* window in work, human waits left out (_watch_sla, _pause_sla, _resume_sla).
NeverEarly ==
  faults = 0 => \A a \in acts : a.kind = "breach" => used[a.stage] >= BreachAt[a.stage]

\* A breach is never missed: a stage that has worked beyond its window while it
\* was watched has been reported, and after its warning.
NeverMissed ==
  faults = 0 => \A s \in Stages :
     /\ used[s] > BreachAt[s] => tracking[s].breached
     /\ tracking[s].breached => logged[s] # <<>> /\ tracking[s].warned

\* trigger_sla_breach_activity: "Idempotent: if breach_triggered_at is already
\* set, does nothing."  The breach of a stage is logged once.
BreachLoggedOnce == \A s \in Stages : Len(logged[s]) <= 1

\* It is logged again only by an activity that overlaps the first one: never at
\* another time (record_breach_triggered).
RepeatsOverlap ==
  faults = 0 => \A s \in Stages : \A i, j \in 1 .. Len(logged[s]) : logged[s][i] = logged[s][j]

\* The coroutine lives for its own visit only: none runs for a stage that was
\* left, beside a human wait, or after the workflow closed.
TimerOfVisit ==
  timer.at # "none" => watched /\ step \in {"work", "persist"}

-----------------------------------------------------------------------------
(* What makes them inductive *)

\* Where the coroutine, the handler and the activities may be at the same time.
CoroutineInv ==
  /\ TimerOfVisit
  /\ watched => stage \in Tracked /\ Exists(stage) /\ step \in {"work", "wait", "persist"}
  /\ step = "wait" => stage \in PauseStages
  /\ \A a \in acts :
        /\ Exists(a.stage)
        /\ a.awaited => /\ a.stage = stage
                        /\ timer.at = IF a.kind = "warning" THEN "warning" ELSE "breaching"
  /\ \A a, b \in acts : a.awaited /\ b.awaited => a = b

\* Without losses, the row of the visit is paused exactly in the wait, and adds up.
RowInv ==
  /\ \A s \in Stages : ~Exists(s) => used[s] = 0 /\ tracking[s] = NoRow
  /\ watched /\ faults = 0 =>
       LET t == tracking[stage]
       IN IF step = "wait"
          THEN /\ t.pausedAt \in 0 .. now
               /\ t.pausedAt - t.started - t.pausedFor = used[stage]
          ELSE /\ t.pausedAt = NULL
               /\ now - t.started - t.pausedFor = used[stage]

\* Without losses, what the coroutine still sleeps covers what is left of the window.
SleepInv ==
  faults = 0 =>
    /\ timer.at = "toWarn" => used[stage] + (timer.due - now) + timer.gap >= BreachAt[stage]
    /\ timer.at = "warning" => used[stage] + timer.gap >= BreachAt[stage]
    /\ timer.at = "toBreach" => used[stage] + (timer.due - now) >= BreachAt[stage]
    /\ \A a \in acts : a.kind = "breach" => used[a.stage] >= BreachAt[a.stage]

\* Without losses, the watched stage has reported its breach, or its coroutine
\* is on its way there: what it still sleeps is no more than is left of the
\* window, or an activity it waits for has yet to end.
OnTheWay ==
  /\ timer.at # "none"
  /\ used[stage] <= BreachAt[stage]
  /\ timer.at \in {"toWarn", "toBreach"} => now <= timer.due
  /\ timer.at = "toWarn" => used[stage] + (timer.due - now) + timer.gap <= BreachAt[stage]
  /\ timer.at = "warning" => used[stage] + timer.gap <= BreachAt[stage]
  /\ timer.at = "toBreach" => used[stage] + (timer.due - now) <= BreachAt[stage]
  /\ timer.at \in {"warning", "breaching"} => \E a \in acts : a.awaited

ReportInv ==
  faults = 0 =>
    /\ NeverMissed
    /\ watched /\ step # "wait" /\ ~tracking[stage].breached => OnTheWay
    /\ timer.at \in {"toBreach", "breaching"} => tracking[stage].warned
    /\ \A a \in acts : a.kind = "breach" => tracking[a.stage].warned

\* Without losses, an activity that is about to log a breach logs it at the time
\* of the entries there are.
EntriesInv ==
  faults = 0 =>
    /\ RepeatsOverlap
    /\ \A s \in Stages : logged[s] # <<>> => tracking[s].breached
    /\ \A a \in acts : a.kind = "breach" /\ a.checked =>
         \A i \in 1 .. Len(logged[a.stage]) : logged[a.stage][i] = now

SlaInv == SlaTypeOK /\ CoroutineInv /\ RowInv /\ SleepInv /\ ReportInv /\ EntriesInv

=============================================================================
