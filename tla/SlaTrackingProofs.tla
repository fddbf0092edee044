-------------------------- MODULE SlaTrackingProofs --------------------------
(***************************************************************************)
(* Theorems about SlaTracking, for any stages, windows and bounds.          *)
(***************************************************************************)
EXTENDS SlaTracking, TLAPS

-----------------------------------------------------------------------------
(* Lemmas about the helpers *)

\* A failure is counted, and is only possible within the bound.
LEMMA FailCounts ==
  ASSUME faults \in 0 .. MaxFaults, Fail(1)
  PROVE  faults' \in 0 .. MaxFaults /\ faults' # 0
  BY SlaAssumption DEF Fail

\* The two sleeps of a new coroutine end no earlier than the window does.
LEMMA WatchCovers ==
  ASSUME NEW s \in Stages, NEW elapsed \in Nat, now \in Nat
  PROVE  /\ WatchSla(s, elapsed) \in Timer
         /\ WatchSla(s, elapsed).at = "toWarn"
         /\ elapsed + (WatchSla(s, elapsed).due - now) + WatchSla(s, elapsed).gap >= BreachAt[s]
  BY SlaAssumption DEF WatchSla, Max0, Timer

\* And no later, as long as the window is not yet used up.
LEMMA WatchFits ==
  ASSUME NEW s \in Stages, NEW elapsed \in Nat, now \in Nat, elapsed <= BreachAt[s]
  PROVE  /\ elapsed + (WatchSla(s, elapsed).due - now) + WatchSla(s, elapsed).gap <= BreachAt[s]
         /\ now <= WatchSla(s, elapsed).due
  BY SlaAssumption DEF WatchSla, Max0

\* Cancelling leaves no coroutine, and no activity that anyone waits for.
LEMMA CancelTyped ==
  ASSUME acts \subseteq Activity, Cancel
  PROVE  /\ timer' = NoTimer
         /\ acts' \subseteq Activity
         /\ \A a \in acts' : ~a.awaited /\ \E b \in acts : b.kind = a.kind /\ b.stage = a.stage
  BY DEF Cancel, Activity

\* Types of the values the actions write.
LEMMA Written ==
  NoTimer \in Timer /\ NoRow \in Row /\ NoTimer.at = "none"
  BY DEF NoTimer, Timer, NoRow, Row, NULL

\* A coroutine goes on to its second sleep.
LEMMA SecondSleep ==
  ASSUME NEW t \in Timer, NEW d \in Int
  PROVE  [t EXCEPT !.at = "toBreach", !.due = d] \in Timer
  BY DEF Timer

\* An activity is started for a stage that has an SLA.
LEMMA ActivityTyped ==
  ASSUME NEW kind \in {"warning", "breach"}, stage \in Tracked
  PROVE  /\ NewActivity(kind) \in Activity
         /\ NewActivity(kind).kind = kind
         /\ NewActivity(kind).stage = stage
  BY DEF NewActivity, Activity

\* An activity that has read the row is the same one.
LEMMA CheckedTyped ==
  ASSUME NEW a \in Activity
  PROVE  LET c == [a EXCEPT !.checked = TRUE]
         IN c \in Activity /\ c.kind = a.kind /\ c.stage = a.stage /\ c.awaited = a.awaited
  BY DEF Activity

\* A resumed row has no pause open, and the pause it had is added up.
LEMMA ResumedRow ==
  ASSUME NEW t \in Row, now \in Int
  PROVE  /\ Resumed(t) \in Row
         /\ Resumed(t).started = t.started
         /\ Resumed(t).pausedAt = NULL
         /\ t.pausedAt # NULL => Resumed(t).pausedFor = t.pausedFor + (now - t.pausedAt)
PROOF
  <1> DEFINE u == [t EXCEPT !.pausedAt = NULL]
             v == t.pausedFor + (IF t.pausedAt = NULL THEN 0 ELSE now - t.pausedAt)
  <1>1. u \in Row /\ u.started = t.started /\ u.pausedAt = NULL
    BY DEF Row, NULL
  <1>2. v \in Int /\ (t.pausedAt # NULL => v = t.pausedFor + (now - t.pausedAt))
    BY DEF Row
  <1>3. /\ [u EXCEPT !.pausedFor = v] \in Row
        /\ [u EXCEPT !.pausedFor = v].started = u.started
        /\ [u EXCEPT !.pausedFor = v].pausedAt = u.pausedAt
        /\ [u EXCEPT !.pausedFor = v].pausedFor = v
    <2> HIDE DEF u, v
    <2> QED BY <1>1, <1>2 DEF Row
  <1> QED BY <1>1, <1>2, <1>3 DEF Resumed

-----------------------------------------------------------------------------
(* The inductive invariant, one lemma for each of its parts *)

\* No clock runs at the start.
LEMMA SlaInit == Init => SlaInv
PROOF
  <1> SUFFICES ASSUME Init PROVE SlaInv
    OBVIOUS
  <1> USE SlaAssumption, Written DEF Init
  <1>1. SlaTypeOK
    <2>1. tracking \in [Stages -> Row] /\ timer \in Timer
      BY Written
    <2>2. now \in 0 .. MaxTime /\ visits \in 0 .. MaxVisits /\ faults \in 0 .. MaxFaults
      OBVIOUS
    <2>3. LogOK
      BY DEF LogOK
    <2> QED BY <2>1, <2>2, <2>3 DEF SlaTypeOK
  <1>2. CoroutineInv
    BY DEF CoroutineInv, TimerOfVisit
  <1>3. RowInv
    BY DEF RowInv, Exists
  <1>4. SleepInv
    BY DEF SleepInv
  <1>5. ReportInv
    BY DEF ReportInv, NeverMissed, NoRow
  <1>6. EntriesInv
    BY DEF EntriesInv, RepeatsOverlap
  <1> QED BY <1>1, <1>2, <1>3, <1>4, <1>5, <1>6 DEF SlaInv

\* Only the end of a breach activity writes the log.
LEMMA LogKept == ASSUME SlaInv, [Next]_vars PROVE LogOK'
PROOF
  <1>1. CASE UNCHANGED logged
    BY <1>1 DEF SlaInv, SlaTypeOK, LogOK
  <1>2. ASSUME NEW a \in acts, BreachReturns(a) PROVE LogOK'
    <2>1. now \in Nat /\ logged \in [Stages -> Seq(Nat)]
      BY SlaAssumption DEF SlaInv, SlaTypeOK, LogOK
    <2>2. CASE logged' = [logged EXCEPT ![a.stage] = Append(@, now)]
      <3>1. \A s \in Stages : Append(logged[s], now) \in Seq(Nat)
        BY <2>1
      <3> QED BY <2>1, <2>2, <3>1 DEF LogOK
    <2> QED BY <1>1, <1>2, <2>2 DEF BreachReturns
  <1> QED
    BY <1>1, <1>2
    DEF Next, Handler, Watcher, StartUntimed, StartTimed, PauseClock, ResumeClock, FinishWork,
        LeaveStage, CloseWorkflow, WarningDue, BreachDue, WarningReturns, BreachChecks,
        ActivityCancelled, Tick, vars

\* Every action keeps the types.
LEMMA TypeKept == ASSUME SlaInv, [Next]_vars PROVE SlaTypeOK'
PROOF
  <1> USE SlaAssumption, Written, FailCounts, LogKept DEF SlaInv, SlaTypeOK, clockVars, caseVars
  <1>1. CASE StartUntimed
    <2>1. tracking' \in [Stages -> Row]
      <3>1. CASE tracking' = tracking
        BY <3>1
      <3>2. CASE tracking' = [tracking EXCEPT ![stage].started = now]
        BY <3>2 DEF Row
      <3> QED BY <1>1, <3>1, <3>2 DEF StartUntimed
    <2> QED BY <1>1, <2>1 DEF StartUntimed
  <1>2. CASE StartTimed
    <2>1. tracking' \in [Stages -> Row]
      <3>1. tracking' = [tracking EXCEPT ![stage].started = now]
        BY <1>2 DEF StartTimed
      <3> QED BY <3>1 DEF Row
    <2>2. timer' \in Timer
      <3>1. now \in Nat
        OBVIOUS
      <3> QED BY <1>2, <3>1, WatchCovers DEF StartTimed
    <2> QED BY <1>2, <2>1, <2>2 DEF StartTimed
  <1>3. CASE PauseClock
    <2>1. tracking' \in [Stages -> Row]
      <3>1. CASE tracking' = tracking
        BY <3>1
      <3>2. CASE tracking' = [tracking EXCEPT ![stage].pausedAt = IF @ = NULL THEN now ELSE @]
        BY <3>2 DEF Row
      <3> QED BY <1>3, <3>1, <3>2 DEF PauseClock
    <2>2. timer' \in Timer /\ acts' \subseteq Activity
      BY <1>3, CancelTyped DEF PauseClock
    <2>3. faults' \in 0 .. MaxFaults
      BY <1>3 DEF PauseClock
    <2> QED BY <1>3, <2>1, <2>2, <2>3 DEF PauseClock
  <1>4. CASE ResumeClock
    <2>1. Resumed(tracking[stage]) \in Row
      BY ResumedRow
    <2>2. tracking' \in [Stages -> Row]
      BY <1>4, <2>1 DEF ResumeClock
    <2>3. timer' \in Timer
      <3>1. Max0(now - Resumed(tracking[stage]).started - Resumed(tracking[stage]).pausedFor) \in Nat
        BY <2>1 DEF Row, Max0
      <3>2. now \in Nat /\ 0 \in Nat
        OBVIOUS
      <3> QED BY <1>4, <3>1, <3>2, WatchCovers DEF ResumeClock
    <2>4. faults' \in 0 .. MaxFaults
      BY <1>4 DEF ResumeClock
    <2> QED BY <1>4, <2>2, <2>3, <2>4 DEF ResumeClock
  <1>5. CASE FinishWork
    BY <1>5 DEF FinishWork
  <1>6. CASE LeaveStage
    <2>1. timer' \in Timer /\ acts' \subseteq Activity
      BY <1>6, CancelTyped DEF LeaveStage
    <2>2. faults' \in 0 .. MaxFaults /\ row' \in Stages /\ stage' \in Stages
      BY <1>6 DEF LeaveStage
    <2>3. visits' \in 0 .. MaxVisits
      BY <1>6 DEF LeaveStage
    <2> QED BY <1>6, <2>1, <2>2, <2>3 DEF LeaveStage
  <1>7. CASE CloseWorkflow
    <2>1. timer' \in Timer /\ acts' \subseteq Activity
      BY <1>7, CancelTyped DEF CloseWorkflow
    <2> QED BY <1>7, <2>1 DEF CloseWorkflow
  <1>8. CASE WarningDue \/ BreachDue
    <2>1. timer' \in Timer
      BY <1>8 DEF WarningDue, BreachDue, Timer
    <2>2. stage \in Tracked
      BY <1>8 DEF WarningDue, BreachDue, CoroutineInv, TimerOfVisit
    <2>3. PICK k \in {"warning", "breach"} :
            acts' = acts \cup {NewActivity(k)}
      BY <1>8 DEF WarningDue, BreachDue
    <2>4. acts' \subseteq Activity
      BY <2>2, <2>3, ActivityTyped
    <2> QED BY <1>8, <2>1, <2>4 DEF WarningDue, BreachDue
  <1>9. ASSUME NEW a \in acts, WarningReturns(a) PROVE SlaTypeOK'
    <2>1. tracking' \in [Stages -> Row]
      <3>1. CASE tracking' = tracking
        BY <3>1
      <3>2. CASE tracking' = [tracking EXCEPT ![a.stage].warned = TRUE]
        BY <3>2 DEF Row
      <3> QED BY <1>9, <3>1, <3>2 DEF WarningReturns
    <2>2. timer' \in Timer
      <3>1. now + timer.gap \in Int
        BY DEF Timer
      <3>2. CASE timer' = [timer EXCEPT !.at = "toBreach", !.due = now + timer.gap]
        BY <3>1, <3>2, SecondSleep
      <3>3. CASE timer' = timer \/ timer' = NoTimer
        BY <3>3
      <3> QED BY <1>9, <3>2, <3>3 DEF WarningReturns
    <2>3. faults' \in 0 .. MaxFaults
      BY <1>9 DEF WarningReturns
    <2> QED BY <1>9, <2>1, <2>2, <2>3 DEF WarningReturns
  <1>10. ASSUME NEW a \in acts, BreachReturns(a) PROVE SlaTypeOK'
    <2>1. tracking' \in [Stages -> Row]
      <3>1. CASE tracking' = tracking
        BY <3>1
      <3>2. CASE tracking' = [tracking EXCEPT ![a.stage].breached = TRUE]
        BY <3>2 DEF Row
      <3> QED BY <1>10, <3>1, <3>2 DEF BreachReturns
    <2>2. timer' \in Timer /\ acts' \subseteq Activity
      BY <1>10 DEF BreachReturns
    <2>3. row' \in Stages
      BY <1>10 DEF BreachReturns
    <2>4. faults' \in 0 .. MaxFaults
      BY <1>10 DEF BreachReturns
    <2> QED BY <1>10, <2>1, <2>2, <2>3, <2>4 DEF BreachReturns
  <1>11. ASSUME NEW a \in acts, ActivityCancelled(a) PROVE SlaTypeOK'
    BY <1>11 DEF ActivityCancelled
  <1>12. CASE Tick
    BY <1>12 DEF Tick
  <1>13. ASSUME NEW a \in acts, BreachChecks(a) PROVE SlaTypeOK'
    <2>1. timer' \in Timer
      BY <1>13 DEF BreachChecks
    <2>2. acts' \subseteq Activity
      BY <1>13, CheckedTyped DEF BreachChecks
    <2> QED BY <1>13, <2>1, <2>2 DEF BreachChecks
  <1>14. CASE UNCHANGED vars
    BY <1>14 DEF vars
  <1> QED
    BY <1>1, <1>2, <1>3, <1>4, <1>5, <1>6, <1>7, <1>8, <1>9, <1>10, <1>11, <1>12, <1>13, <1>14
    DEF Next, Handler, Watcher

\* A row is never deleted, and only the activity that opens it sets its start.
LEMMA RowsStay ==
  ASSUME SlaInv, [Next]_vars
  PROVE  \A s \in Stages :
           tracking[s].started # NULL => tracking'[s].started = tracking[s].started
PROOF
  <1> USE DEF SlaInv, SlaTypeOK
  <1>1. CASE UNCHANGED tracking
    BY <1>1
  <1>2. CASE StartUntimed \/ StartTimed
    BY <1>2 DEF StartUntimed, StartTimed, Exists
  <1>3. CASE PauseClock
    BY <1>3 DEF PauseClock, Row
  <1>4. CASE ResumeClock
    <2>1. Resumed(tracking[stage]).started = tracking[stage].started
      BY ResumedRow
    <2>2. CASE tracking' = [tracking EXCEPT ![stage] = Resumed(tracking[stage])]
      BY <2>1, <2>2
    <2> QED BY <1>1, <1>4, <2>2 DEF ResumeClock
  <1>5. ASSUME NEW a \in acts, WarningReturns(a) \/ BreachReturns(a)
        PROVE  \A s \in Stages : tracking'[s].started = tracking[s].started
    <2>1. CASE tracking' = [tracking EXCEPT ![a.stage].warned = TRUE]
      BY <2>1 DEF Row
    <2>2. CASE tracking' = [tracking EXCEPT ![a.stage].breached = TRUE]
      BY <2>2 DEF Row
    <2> QED BY <1>1, <1>5, <2>1, <2>2 DEF WarningReturns, BreachReturns
  <1> QED
    BY <1>1, <1>2, <1>3, <1>4, <1>5
    DEF Next, Handler, Watcher, FinishWork, LeaveStage, CloseWorkflow, WarningDue, BreachDue,
        BreachChecks, ActivityCancelled, Tick, vars

\* No action separates the coroutine from its visit.
LEMMA CoroutineKept == ASSUME SlaInv, [Next]_vars PROVE CoroutineInv'
PROOF
  <1> USE RowsStay DEF SlaInv, SlaTypeOK, CoroutineInv, TimerOfVisit, Exists, clockVars, caseVars
  <1>0. \A a \in acts : a.stage \in Stages /\ a.kind \in {"warning", "breach"}
    BY SlaAssumption DEF Activity
  <1>1. CASE StartUntimed
    BY <1>0, <1>1 DEF StartUntimed
  <1>2. CASE StartTimed
    <2>1. timer.at = "none" /\ \A a \in acts : ~a.awaited
      BY <1>2 DEF StartTimed
    <2>2. tracking'[stage].started # NULL
      BY <1>2 DEF StartTimed, Row, NULL
    <2> QED BY <1>0, <1>2, <2>1, <2>2 DEF StartTimed
  <1>3. CASE PauseClock
    <2>1. CASE watched
      <3>1. /\ timer'.at = "none"
            /\ \A a \in acts' : ~a.awaited /\ \E b \in acts : b.stage = a.stage
        BY <1>3, <2>1, CancelTyped, Written DEF PauseClock
      <3> QED BY <1>0, <1>3, <2>1, <3>1, SlaAssumption DEF PauseClock
    <2>2. CASE ~watched
      BY <1>0, <1>3, <2>2 DEF PauseClock
    <2> QED BY <2>1, <2>2
  <1>4. CASE ResumeClock
    <2>1. timer.at = "none" /\ \A a \in acts : ~a.awaited
      BY <1>4 DEF ResumeClock
    <2>2. ~watched => timer' = timer
      BY <1>4 DEF ResumeClock
    <2> QED BY <1>0, <1>4, <2>1, <2>2 DEF ResumeClock
  <1>5. CASE FinishWork
    BY <1>5 DEF FinishWork
  <1>6. CASE LeaveStage \/ CloseWorkflow
    <2>1. /\ timer'.at = "none"
          /\ \A a \in acts' : ~a.awaited /\ \E b \in acts : b.stage = a.stage
      BY <1>6, CancelTyped, Written DEF LeaveStage, CloseWorkflow
    <2>2. ~watched' /\ step' \in {"start", "closed"} /\ UNCHANGED tracking
      BY <1>6 DEF LeaveStage, CloseWorkflow
    <2> QED BY <2>1, <2>2
  <1>7. CASE WarningDue
    <2>1. timer'.at = "warning" /\ \A a \in acts : ~a.awaited
      BY <1>7 DEF WarningDue, Timer
    <2>2. /\ NewActivity("warning").stage = stage /\ NewActivity("warning").kind = "warning"
          /\ stage \in Tracked
      BY <1>7, ActivityTyped DEF WarningDue
    <2> QED BY <1>7, <2>1, <2>2 DEF WarningDue
  <1>8. CASE BreachDue
    <2>1. timer'.at = "breaching" /\ \A a \in acts : ~a.awaited
      BY <1>8 DEF BreachDue, Timer
    <2>2. /\ NewActivity("breach").stage = stage /\ NewActivity("breach").kind = "breach"
          /\ stage \in Tracked
      BY <1>8, ActivityTyped DEF BreachDue
    <2> QED BY <1>8, <2>1, <2>2 DEF BreachDue
  <1>9. ASSUME NEW a \in acts, WarningReturns(a) \/ BreachReturns(a) PROVE CoroutineInv'
    <2>1. \A b \in acts : tracking'[b.stage].started # NULL
      BY <1>0
    <2>2. acts' = acts \ {a} /\ UNCHANGED <<stage, step, watched>>
      BY <1>9 DEF WarningReturns, BreachReturns
    <2>3. watched => stage \in Tracked /\ tracking'[stage].started # NULL
      OBVIOUS
    <2>4. CASE a.awaited
      <3>1. \A b \in acts' : ~b.awaited
        BY <2>2, <2>4
      <3>2. timer'.at # "none" => timer.at # "none"
        BY <1>9, <2>4 DEF WarningReturns, BreachReturns, Activity
      <3> QED BY <2>1, <2>2, <2>3, <3>1, <3>2
    <2>5. CASE ~a.awaited
      <3>1. timer' = timer
        BY <1>9, <2>5 DEF WarningReturns, BreachReturns
      <3> QED BY <2>1, <2>2, <2>3, <3>1
    <2> QED BY <2>4, <2>5
  <1>10. ASSUME NEW a \in acts, ActivityCancelled(a) PROVE CoroutineInv'
    BY <1>10 DEF ActivityCancelled
  <1>11. CASE Tick
    BY <1>11 DEF Tick
  <1>12. ASSUME NEW a \in acts, BreachChecks(a) PROVE CoroutineInv'
    <2>1. CASE AlreadyTriggered(a.stage)
      <3>1. /\ acts' = acts \ {a}
            /\ timer' = IF a.awaited THEN NoTimer ELSE timer
            /\ UNCHANGED <<stage, step, watched, tracking>>
        BY <1>12, <2>1 DEF BreachChecks
      <3>2. CASE a.awaited
        <4>1. \A b \in acts' : ~b.awaited
          BY <3>1, <3>2
        <4> QED BY <3>1, <3>2, <4>1, Written
      <3> QED BY <3>1, <3>2
    <2>2. CASE ~AlreadyTriggered(a.stage)
      <3>1. /\ acts' = (acts \ {a}) \cup {[a EXCEPT !.checked = TRUE]}
            /\ UNCHANGED <<timer, stage, step, watched, tracking>>
        BY <1>12, <2>2 DEF BreachChecks
      <3> DEFINE c == [a EXCEPT !.checked = TRUE]
      <3>2. c.stage = a.stage /\ c.awaited = a.awaited /\ c.kind = a.kind
        BY CheckedTyped
      <3>3. acts' = (acts \ {a}) \cup {c}
        BY <3>1
      <3> HIDE DEF c
      <3>4. \A b \in acts' : tracking'[b.stage].started # NULL
        BY <3>1, <3>2, <3>3
      <3>5. \A b \in acts' : b.awaited =>
               /\ b.stage = stage
               /\ timer'.at = IF b.kind = "warning" THEN "warning" ELSE "breaching"
        BY <3>1, <3>2, <3>3
      <3>6. \A b, d \in acts' : b.awaited /\ d.awaited => b = d
        BY <3>2, <3>3
      <3> QED BY <3>1, <3>4, <3>5, <3>6
    <2> QED BY <2>1, <2>2
  <1>13. CASE UNCHANGED vars
    BY <1>13 DEF vars
  <1> QED
    BY <1>1, <1>2, <1>3, <1>4, <1>5, <1>6, <1>7, <1>8, <1>9, <1>10, <1>11, <1>12, <1>13
    DEF Next, Handler, Watcher

\* Only an action that fails can make the row of the visit untrue.
LEMMA RowKept == ASSUME SlaInv, [Next]_vars PROVE RowInv'
PROOF
  <1> USE FailCounts DEF SlaInv, SlaTypeOK, CoroutineInv, RowInv, Exists, clockVars, caseVars
  <1>1. CASE StartUntimed
    BY <1>1 DEF StartUntimed, Row, NULL
  <1>2. CASE StartTimed
    <2>1. used[stage] = 0 /\ tracking[stage] = NoRow
      BY <1>2 DEF StartTimed
    <2>2. /\ tracking'[stage] = [NoRow EXCEPT !.started = now]
          /\ \A s \in Stages \ {stage} : tracking'[s] = tracking[s]
      BY <1>2, <2>1 DEF StartTimed
    <2>3. /\ tracking'[stage].started = now /\ tracking'[stage].pausedAt = NULL
          /\ tracking'[stage].pausedFor = 0
      BY <2>2 DEF NoRow
    <2>4. now # NULL
      BY DEF NULL
    <2> QED BY <1>2, <2>1, <2>2, <2>3, <2>4 DEF StartTimed
  <1>3. CASE PauseClock
    <2>1. CASE tracking' = tracking
      BY <1>3, <2>1 DEF PauseClock, Row, NULL
    <2>2. CASE tracking' # tracking
      <3>1. /\ watched /\ faults' = faults
            /\ tracking' = [tracking EXCEPT ![stage].pausedAt = IF @ = NULL THEN now ELSE @]
        BY <1>3, <2>2 DEF PauseClock
      <3>2. /\ tracking'[stage].started = tracking[stage].started
            /\ tracking'[stage].pausedFor = tracking[stage].pausedFor
            /\ tracking[stage].pausedAt = NULL => tracking'[stage].pausedAt = now
            /\ \A s \in Stages \ {stage} : tracking'[s] = tracking[s]
        BY <3>1 DEF Row
      <3> QED BY <1>3, <3>1, <3>2 DEF PauseClock, Row
    <2> QED BY <2>1, <2>2
  <1>4. CASE ResumeClock
    <2>1. \A s \in Stages \ {stage} : tracking'[s] = tracking[s]
      BY <1>4 DEF ResumeClock
    <2>2. CASE watched /\ faults' = 0
      <3>1. faults = 0 /\ tracking'[stage] = Resumed(tracking[stage])
        BY <1>4, <2>2 DEF ResumeClock
      <3>2. /\ tracking'[stage].started = tracking[stage].started
            /\ tracking'[stage].pausedAt = NULL
            /\ tracking[stage].pausedAt \in 0 .. now =>
                 tracking'[stage].pausedFor =
                    tracking[stage].pausedFor + (now - tracking[stage].pausedAt)
        BY <3>1 DEF Resumed, Row, NULL
      <3> QED BY <1>4, <2>1, <2>2, <3>1, <3>2 DEF ResumeClock, Row
    <2>3. CASE watched /\ faults' # 0
      <3>1. tracking'[stage].started = tracking[stage].started
        BY <1>4, <2>3 DEF ResumeClock, Resumed, Row
      <3> QED BY <1>4, <2>1, <2>3, <3>1 DEF ResumeClock
    <2>4. CASE ~watched
      BY <1>4, <2>4 DEF ResumeClock
    <2> QED BY <2>2, <2>3, <2>4
  <1>5. CASE FinishWork \/ LeaveStage \/ CloseWorkflow
    BY <1>5 DEF FinishWork, LeaveStage, CloseWorkflow
  <1>6. CASE WarningDue \/ BreachDue
    BY <1>6 DEF WarningDue, BreachDue
  <1>7. ASSUME NEW a \in acts, WarningReturns(a) \/ BreachReturns(a) PROVE RowInv'
    <2>1. \A s \in Stages :
            /\ tracking'[s].started = tracking[s].started
            /\ tracking'[s].pausedAt = tracking[s].pausedAt
            /\ tracking'[s].pausedFor = tracking[s].pausedFor
      <3>1. CASE tracking' = tracking
        BY <3>1
      <3>2. CASE tracking' = [tracking EXCEPT ![a.stage].warned = TRUE]
        BY <3>2 DEF Row
      <3>3. CASE tracking' = [tracking EXCEPT ![a.stage].breached = TRUE]
        BY <3>3 DEF Row
      <3> QED BY <1>7, <3>1, <3>2, <3>3 DEF WarningReturns, BreachReturns
    <2>2. \A s \in Stages : s # a.stage => tracking'[s] = tracking[s]
      BY <1>7 DEF WarningReturns, BreachReturns
    <2> QED BY <1>7, <2>1, <2>2 DEF WarningReturns, BreachReturns
  <1>8. ASSUME NEW a \in acts, BreachChecks(a) \/ ActivityCancelled(a) PROVE RowInv'
    BY <1>8 DEF BreachChecks, ActivityCancelled
  <1>9. CASE Tick
    BY <1>9 DEF Tick, Row, NULL
  <1>10. CASE UNCHANGED vars
    BY <1>10 DEF vars
  <1> QED
    BY <1>1, <1>2, <1>3, <1>4, <1>5, <1>6, <1>7, <1>8, <1>9, <1>10 DEF Next, Handler, Watcher

\* Without losses every new sleep covers the rest of the window, and time spent
\* asleep is time used.
LEMMA SleepKept == ASSUME SlaInv, [Next]_vars PROVE SleepInv'
PROOF
  <1> USE FailCounts DEF SlaInv, SlaTypeOK, CoroutineInv, TimerOfVisit, SleepInv, clockVars,
                         caseVars
  <1>1. CASE StartUntimed \/ FinishWork
    BY <1>1 DEF StartUntimed, FinishWork
  <1>2. CASE StartTimed
    <2>1. used[stage] = 0
      BY <1>2 DEF StartTimed, RowInv
    <2>2. /\ timer'.at = "toWarn"
          /\ used[stage] + (timer'.due - now) + timer'.gap >= BreachAt[stage]
      BY <1>2, <2>1, WatchCovers DEF StartTimed
    <2> QED BY <1>2, <2>2 DEF StartTimed
  <1>3. CASE PauseClock
    <2>1. CASE watched
      <3>1. /\ timer'.at = "none"
            /\ \A a \in acts' : \E b \in acts : b.kind = a.kind /\ b.stage = a.stage
        BY <1>3, <2>1, CancelTyped, Written DEF PauseClock
      <3> QED BY <1>3, <3>1 DEF PauseClock
    <2>2. CASE ~watched
      BY <1>3, <2>2 DEF PauseClock
    <2> QED BY <2>1, <2>2
  <1>4. CASE ResumeClock
    <2> DEFINE t == Resumed(tracking[stage])
    <2>1. CASE watched /\ faults' = 0
      <3>1. faults = 0 /\ timer' = WatchSla(stage, Max0(now - t.started - t.pausedFor))
        BY <1>4, <2>1 DEF ResumeClock
      <3>2. now - t.started - t.pausedFor = used[stage]
        BY <1>4, <2>1, <3>1 DEF ResumeClock, RowInv, Resumed, Row, NULL
      <3>3. timer' = WatchSla(stage, used[stage])
        BY <3>1, <3>2 DEF Max0
      <3>4. /\ timer'.at = "toWarn"
            /\ used[stage] + (timer'.due - now) + timer'.gap >= BreachAt[stage]
        BY <3>3, WatchCovers
      <3> QED BY <1>4, <3>1, <3>4 DEF ResumeClock
    <2>2. CASE ~watched \/ faults' # 0
      BY <1>4, <2>2 DEF ResumeClock
    <2> QED BY <2>1, <2>2
  <1>5. CASE LeaveStage \/ CloseWorkflow
    <2>1. /\ timer'.at = "none"
          /\ \A a \in acts' : \E b \in acts : b.kind = a.kind /\ b.stage = a.stage
      BY <1>5, CancelTyped, Written DEF LeaveStage, CloseWorkflow
    <2> QED BY <1>5, <2>1 DEF LeaveStage, CloseWorkflow
  <1>6. CASE WarningDue
    <2>1. timer'.at = "warning" /\ timer'.gap = timer.gap
      BY <1>6 DEF WarningDue, Timer
    <2>2. faults = 0 => used[stage] + timer.gap >= BreachAt[stage]
      BY <1>6, SlaAssumption DEF WarningDue, Timer
    <2>3. NewActivity("warning").kind = "warning"
      BY <1>6, ActivityTyped DEF WarningDue
    <2> QED BY <1>6, <2>1, <2>2, <2>3 DEF WarningDue
  <1>7. CASE BreachDue
    <2>1. timer'.at = "breaching"
      BY <1>7 DEF BreachDue, Timer
    <2>2. faults = 0 => used[stage] >= BreachAt[stage]
      BY <1>7, SlaAssumption DEF BreachDue, Timer
    <2>3. NewActivity("breach").stage = stage
      BY <1>7, ActivityTyped DEF BreachDue
    <2> QED BY <1>7, <2>1, <2>2, <2>3 DEF BreachDue
  <1>8. ASSUME NEW a \in acts, WarningReturns(a) PROVE SleepInv'
    <2>1. CASE a.awaited /\ faults' = 0
      <3>1. /\ faults = 0 /\ timer.at = "warning"
            /\ timer'.at = "toBreach" /\ timer'.due = now + timer.gap
        BY <1>8, <2>1 DEF WarningReturns, Timer
      <3>2. used[stage] + (timer'.due - now) >= BreachAt[stage]
        BY <3>1 DEF Timer
      <3> QED BY <1>8, <3>1, <3>2 DEF WarningReturns
    <2>2. CASE ~a.awaited \/ faults' # 0
      BY <1>8, <2>2 DEF WarningReturns
    <2> QED BY <2>1, <2>2
  <1>9. ASSUME NEW a \in acts, BreachReturns(a) PROVE SleepInv'
    <2>1. timer' = timer \/ timer'.at = "none"
      BY <1>9, Written DEF BreachReturns
    <2>2. faults' = 0 => faults = 0
      BY <1>9 DEF BreachReturns
    <2> QED BY <1>9, <2>1, <2>2 DEF BreachReturns
  <1>10. ASSUME NEW a \in acts, ActivityCancelled(a) PROVE SleepInv'
    BY <1>10 DEF ActivityCancelled
  <1>11. CASE Tick
    <2>1. \A s \in Stages : used'[s] >= used[s]
      BY <1>11 DEF Tick
    <2>2. timer.at # "none" => used'[stage] = used[stage] + 1
      BY <1>11 DEF Tick
    <2>3. faults' = 0 => faults = 0
      BY <1>11 DEF Tick
    <2>4. \A a \in acts : a.stage \in Stages
      BY SlaAssumption DEF Activity
    <2> QED BY <1>11, <2>1, <2>2, <2>3, <2>4, SlaAssumption DEF Tick, Timer
  <1>12. ASSUME NEW a \in acts, BreachChecks(a) PROVE SleepInv'
    <2>1. timer' = timer \/ timer'.at = "none"
      BY <1>12, Written DEF BreachChecks
    <2>2. \A b \in acts' : \E c \in acts : b.stage = c.stage /\ b.kind = c.kind
      BY <1>12, CheckedTyped DEF BreachChecks
    <2> QED BY <1>12, <2>1, <2>2 DEF BreachChecks
  <1>13. CASE UNCHANGED vars
    BY <1>13 DEF vars
  <1> QED
    BY <1>1, <1>2, <1>3, <1>4, <1>5, <1>6, <1>7, <1>8, <1>9, <1>10, <1>11, <1>12, <1>13
    DEF Next, Handler, Watcher

\* Without losses a failure has not happened before either.
LEMMA NoFaultBefore ==
  ASSUME SlaInv, [Next]_vars, faults' = 0
  PROVE  faults = 0
PROOF
  <1>1. CASE UNCHANGED faults
    BY <1>1
  <1>2. CASE Fail(1)
    BY <1>2, FailCounts DEF SlaInv, SlaTypeOK
  <1> QED
    BY <1>1, <1>2
    DEF Next, Handler, Watcher, StartUntimed, StartTimed, PauseClock, ResumeClock, FinishWork,
        LeaveStage, CloseWorkflow, WarningDue, BreachDue, WarningReturns, BreachChecks,
        BreachReturns, ActivityCancelled, Tick, vars

\* A log with an entry is not empty.
LEMMA AppendNotEmpty ==
  ASSUME NEW S, NEW q \in Seq(S), NEW e \in S
  PROVE  Append(q, e) # <<>>
PROOF
  <1>1. Len(Append(q, e)) = Len(q) + 1 /\ Len(q) \in Nat
    OBVIOUS
  <1> QED BY <1>1

\* Without losses a row forgets nothing it has recorded, and a breach is recorded
\* together with its entry.
LEMMA RecordsKept ==
  ASSUME SlaInv, [Next]_vars, faults' = 0
  PROVE  \A s \in Stages :
           /\ tracking[s].warned => tracking'[s].warned
           /\ tracking[s].breached => tracking'[s].breached
           /\ logged[s] # <<>> => logged'[s] # <<>>
           /\ logged'[s] # logged[s] => tracking'[s].breached
           /\ tracking'[s].breached /\ ~tracking[s].breached =>
                logged'[s] # <<>> /\ \E a \in acts : a.kind = "breach" /\ a.stage = s
PROOF
  <1> USE FailCounts DEF SlaInv, SlaTypeOK, LogOK
  <1>1. CASE /\ UNCHANGED logged
             /\ \A s \in Stages : tracking'[s].warned = tracking[s].warned
                                /\ tracking'[s].breached = tracking[s].breached
    BY <1>1
  <1>2. CASE StartUntimed \/ StartTimed
    <2>1. /\ UNCHANGED logged
          /\ tracking' = tracking \/ tracking' = [tracking EXCEPT ![stage].started = now]
      BY <1>2 DEF StartUntimed, StartTimed
    <2> QED BY <1>1, <2>1 DEF Row
  <1>3. CASE PauseClock
    <2>1. /\ UNCHANGED logged
          /\ \/ tracking' = tracking
             \/ tracking' = [tracking EXCEPT ![stage].pausedAt = IF @ = NULL THEN now ELSE @]
      BY <1>3 DEF PauseClock
    <2> QED BY <1>1, <2>1 DEF Row
  <1>4. CASE ResumeClock
    <2>1. /\ Resumed(tracking[stage]).warned = tracking[stage].warned
          /\ Resumed(tracking[stage]).breached = tracking[stage].breached
      BY DEF Resumed, Row
    <2> QED BY <1>1, <1>4, <2>1 DEF ResumeClock
  <1>5. CASE UNCHANGED <<tracking, logged>>
    BY <1>1, <1>5
  <1>6. ASSUME NEW a \in acts, WarningReturns(a)
        PROVE  \A s \in Stages : /\ tracking[s].warned => tracking'[s].warned
                                /\ tracking'[s].breached = tracking[s].breached
                                /\ logged'[s] = logged[s]
    <2>1. /\ UNCHANGED logged /\ a.stage \in Stages
          /\ tracking' = [tracking EXCEPT ![a.stage].warned = TRUE]
      BY <1>6, SlaAssumption DEF WarningReturns, Activity
    <2> QED BY <2>1 DEF Row
  <1>7. ASSUME NEW a \in acts, BreachReturns(a)
        PROVE  /\ \A s \in Stages :
                    /\ tracking'[s].warned = tracking[s].warned
                    /\ s # a.stage => tracking'[s] = tracking[s] /\ logged'[s] = logged[s]
               /\ a.stage \in Stages => tracking'[a.stage].breached /\ logged'[a.stage] # <<>>
    <2>1. /\ tracking' = [tracking EXCEPT ![a.stage].breached = TRUE]
          /\ logged' = [logged EXCEPT ![a.stage] = Append(@, now)]
      BY <1>7 DEF BreachReturns
    <2>2. now \in Nat /\ \A s \in Stages : logged[s] \in Seq(Nat)
      BY SlaAssumption
    <2>3. \A s \in Stages : Append(logged[s], now) # <<>>
      BY <2>2, AppendNotEmpty
    <2> QED BY <2>1, <2>3 DEF Row
  <1>8. \A a \in acts : BreachReturns(a) => a.kind = "breach"
    BY DEF BreachReturns
  <1>9. \A a \in acts : a.stage \in Stages
    BY SlaAssumption DEF Activity
  <1>10. ASSUME NEW a \in acts, BreachReturns(a)
         PROVE  \A s \in Stages :
                  /\ tracking[s].warned => tracking'[s].warned
                  /\ tracking[s].breached => tracking'[s].breached
                  /\ logged[s] # <<>> => logged'[s] # <<>>
                  /\ logged'[s] # logged[s] => tracking'[s].breached
                  /\ tracking'[s].breached /\ ~tracking[s].breached =>
                       logged'[s] # <<>> /\ \E b \in acts : b.kind = "breach" /\ b.stage = s
    <2> HIDE DEF SlaInv
    <2>1. /\ \A s \in Stages :
               /\ tracking'[s].warned = tracking[s].warned
               /\ s # a.stage => tracking'[s] = tracking[s] /\ logged'[s] = logged[s]
          /\ tracking'[a.stage].breached /\ logged'[a.stage] # <<>>
          /\ a.kind = "breach"
      BY <1>7, <1>8, <1>9, <1>10
    <2> QED BY <2>1
  <1> QED
    BY <1>2, <1>3, <1>4, <1>5, <1>6, <1>10
    DEF Next, Handler, Watcher, FinishWork, LeaveStage, CloseWorkflow, WarningDue, BreachDue,
        BreachChecks, ActivityCancelled, Tick, vars

\* Without losses the watched stage stays on its way to its breach.
LEMMA OnTheWayKept ==
  ASSUME SlaInv, [Next]_vars, faults' = 0, watched', step' # "wait", ~tracking'[stage'].breached
  PROVE  OnTheWay'
PROOF
  <1>0. faults = 0 /\ (stage' = stage => ~tracking[stage].breached)
    BY NoFaultBefore, RecordsKept DEF SlaInv, SlaTypeOK
  <1> USE <1>0, SlaAssumption, FailCounts
      DEF SlaInv, SlaTypeOK, CoroutineInv, TimerOfVisit, ReportInv, OnTheWay, clockVars, caseVars
  <1>1. CASE StartUntimed \/ LeaveStage \/ CloseWorkflow \/ PauseClock
    BY <1>1 DEF StartUntimed, LeaveStage, CloseWorkflow, PauseClock
  <1>2. CASE StartTimed
    <2>1. used[stage] = 0 /\ 0 <= BreachAt[stage]
      BY <1>2 DEF StartTimed, RowInv
    <2>2. /\ timer'.at = "toWarn"
          /\ used[stage] + (timer'.due - now) + timer'.gap <= BreachAt[stage]
          /\ now <= timer'.due
      BY <1>2, <2>1, WatchCovers, WatchFits DEF StartTimed
    <2> QED BY <1>2, <2>1, <2>2 DEF StartTimed
  <1>3. CASE ResumeClock
    <2> DEFINE t == Resumed(tracking[stage])
    <2>1. watched /\ timer' = WatchSla(stage, Max0(now - t.started - t.pausedFor))
      BY <1>3 DEF ResumeClock
    <2>2. now - t.started - t.pausedFor = used[stage]
      BY <1>3, <2>1 DEF ResumeClock, RowInv, Resumed, Row, NULL
    <2>3. timer' = WatchSla(stage, used[stage])
      BY <2>1, <2>2 DEF Max0
    <2>4. used[stage] <= BreachAt[stage]
      <3>1. NeverMissed /\ ~tracking[stage].breached /\ stage \in Stages
        BY <1>3 DEF ResumeClock
      <3>2. used[stage] \in Nat /\ BreachAt[stage] \in Nat
        OBVIOUS
      <3> QED BY <3>1, <3>2 DEF NeverMissed
    <2>5. /\ timer'.at = "toWarn"
          /\ used[stage] + (timer'.due - now) + timer'.gap <= BreachAt[stage]
          /\ now <= timer'.due
      BY <2>3, <2>4, WatchCovers, WatchFits
    <2> QED BY <1>3, <2>4, <2>5 DEF ResumeClock
  <1>4. CASE FinishWork
    BY <1>4 DEF FinishWork
  <1>5. CASE WarningDue
    <2>1. timer'.at = "warning" /\ timer'.gap = timer.gap
      BY <1>5 DEF WarningDue, Timer
    <2>2. used[stage] + timer.gap <= BreachAt[stage]
      BY <1>5 DEF WarningDue, Timer
    <2>3. \E a \in acts' : a.awaited
      <3>1. NewActivity("warning").awaited
        BY DEF NewActivity
      <3>2. NewActivity("warning") \in acts'
        BY <1>5 DEF WarningDue
      <3> QED BY <3>1, <3>2
    <2> QED BY <1>5, <2>1, <2>2, <2>3 DEF WarningDue
  <1>6. CASE BreachDue
    <2>1. timer'.at = "breaching"
      BY <1>6 DEF BreachDue, Timer
    <2>2. \E a \in acts' : a.awaited
      <3>1. NewActivity("breach").awaited
        BY DEF NewActivity
      <3>2. NewActivity("breach") \in acts'
        BY <1>6 DEF BreachDue
      <3> QED BY <3>1, <3>2
    <2> QED BY <1>6, <2>1, <2>2 DEF BreachDue
  <1>7. ASSUME NEW a \in acts, WarningReturns(a) PROVE OnTheWay'
    <2>1. CASE a.awaited
      <3>1. timer.at = "warning" /\ timer' = [timer EXCEPT !.at = "toBreach", !.due = now + timer.gap]
        BY <1>7, <2>1 DEF WarningReturns
      <3>2. timer'.at = "toBreach" /\ timer'.due = now + timer.gap /\ timer.gap \in Nat
        BY <3>1 DEF Timer
      <3> QED BY <1>7, <3>1, <3>2 DEF WarningReturns
    <2>2. CASE ~a.awaited
      BY <1>7, <2>2 DEF WarningReturns
    <2> QED BY <2>1, <2>2
  <1>8. ASSUME NEW a \in acts, BreachReturns(a) PROVE OnTheWay'
    <2>1. a.stage \in Stages /\ tracking' = [tracking EXCEPT ![a.stage].breached = TRUE]
      BY <1>8 DEF BreachReturns, Activity
    <2>2. a.stage # stage
      BY <1>8, <2>1 DEF BreachReturns, Row
    <2> QED BY <1>8, <2>2 DEF BreachReturns
  <1>9. ASSUME NEW a \in acts, BreachChecks(a) PROVE OnTheWay'
    <2>1. CASE tracking[a.stage].breached
      <3>1. a.stage # stage
        BY <1>9, <2>1 DEF BreachChecks
      <3> QED BY <1>9, <2>1, <3>1 DEF BreachChecks, AlreadyTriggered
    <2>2. CASE ~tracking[a.stage].breached
      <3> DEFINE c == [a EXCEPT !.checked = TRUE]
      <3>1. acts' = (acts \ {a}) \cup {c} /\ timer' = timer
        BY <1>9, <2>2 DEF BreachChecks, AlreadyTriggered
      <3>2. c.awaited = a.awaited
        BY CheckedTyped
      <3>3. (\E b \in acts : b.awaited) => \E b \in acts' : b.awaited
        BY <3>1, <3>2
      <3> QED BY <1>9, <3>1, <3>3 DEF BreachChecks
    <2> QED BY <2>1, <2>2
  <1>10. ASSUME NEW a \in acts, ActivityCancelled(a) PROVE OnTheWay'
    BY <1>10 DEF ActivityCancelled
  <1>11. CASE Tick
    <2>1. acts = {} /\ ~Due /\ now' = now + 1
      BY <1>11 DEF Tick
    <2>2. timer.at \in {"toWarn", "toBreach"} /\ now < timer.due
      BY <1>11, <2>1 DEF Tick, Due, Timer
    <2>3. used'[stage] = used[stage] + 1
      BY <1>11 DEF Tick
    <2> QED BY <1>11, <2>1, <2>2, <2>3 DEF Tick, Timer
  <1>12. CASE UNCHANGED vars
    BY <1>12 DEF vars
  <1> QED
    BY <1>1, <1>2, <1>3, <1>4, <1>5, <1>6, <1>7, <1>8, <1>9, <1>10, <1>11, <1>12
    DEF Next, Handler, Watcher

\* Without losses no stage passes its window unreported, and a breach is reported
\* after its warning.
LEMMA ReportKept == ASSUME SlaInv, [Next]_vars PROVE ReportInv'
PROOF
  <1> SUFFICES ASSUME faults' = 0
               PROVE  /\ NeverMissed'
                      /\ timer'.at \in {"toBreach", "breaching"} => tracking'[stage'].warned
                      /\ \A a \in acts' : a.kind = "breach" => tracking'[a.stage].warned
    BY OnTheWayKept DEF ReportInv
  <1>0. faults = 0 /\ \A a \in acts : a.stage \in Stages
    BY NoFaultBefore, SlaAssumption DEF SlaInv, SlaTypeOK, Activity
  <1>1. NeverMissed'
    <2>1. ASSUME NEW s \in Stages, used'[s] > BreachAt[s] PROVE tracking'[s].breached
      <3>1. CASE used[s] > BreachAt[s]
        BY <1>0, <3>1, RecordsKept DEF SlaInv, ReportInv, NeverMissed
      <3>2. CASE ~(used[s] > BreachAt[s])
        <4>1. /\ Tick /\ s = stage /\ watched /\ step = "work"
              /\ used'[s] = used[s] + 1 /\ acts = {} /\ ~Due
          BY <1>0, <2>1, <3>2, FailCounts
          DEF SlaInv, SlaTypeOK, Next, Handler, Watcher, StartUntimed, StartTimed, PauseClock,
              ResumeClock, FinishWork, LeaveStage, CloseWorkflow, WarningDue, BreachDue,
              WarningReturns, BreachChecks, BreachReturns, ActivityCancelled, Tick, vars, clockVars
        <4>2. CASE tracking[s].breached
          BY <4>2, RecordsKept
        <4>3. CASE ~tracking[s].breached
          <5>1. OnTheWay /\ now \in Nat /\ used[s] \in Nat /\ timer \in Timer /\ BreachAt[s] \in Nat
            BY <1>0, <4>1, <4>3, SlaAssumption DEF SlaInv, SlaTypeOK, ReportInv
          <5>2. timer.at \in {"toWarn", "toBreach"}
            BY <4>1, <5>1 DEF OnTheWay, Timer
          <5>3. used[s] + 1 <= BreachAt[s]
            BY <4>1, <5>1, <5>2 DEF OnTheWay, Due, Timer
          <5> QED BY <2>1, <4>1, <5>1, <5>3
        <4> QED BY <4>2, <4>3
      <3> QED BY <3>1, <3>2
    <2>2. ASSUME NEW s \in Stages, tracking'[s].breached
          PROVE  logged'[s] # <<>> /\ tracking'[s].warned
      BY <1>0, <2>2, RecordsKept DEF SlaInv, ReportInv, NeverMissed
    <2> QED BY <2>1, <2>2 DEF NeverMissed
  <1>2. timer'.at \in {"toBreach", "breaching"} => tracking'[stage'].warned
    <2>1. CASE timer'.at \notin {"toBreach", "breaching"}
      BY <2>1
    <2>2. CASE stage' = stage /\ timer.at \in {"toBreach", "breaching"}
      BY <1>0, <2>2, RecordsKept DEF SlaInv, SlaTypeOK, ReportInv
    <2>3. ASSUME NEW a \in acts, WarningReturns(a), a.awaited
          PROVE  tracking'[stage'].warned
      BY <1>0, <2>3, FailCounts DEF SlaInv, SlaTypeOK, CoroutineInv, WarningReturns, Row, caseVars
    <2>4. WatchSla(stage, 0).at = "toWarn" /\ \A n : WatchSla(stage, n).at = "toWarn"
      BY DEF WatchSla
    <2> QED
      BY <2>1, <2>2, <2>3, <2>4, Written
      DEF SlaInv, SlaTypeOK, Timer, Next, Handler, Watcher, StartUntimed, StartTimed, PauseClock,
          ResumeClock, FinishWork, LeaveStage, CloseWorkflow, WarningDue, BreachDue, Cancel,
          WarningReturns, BreachChecks, BreachReturns, ActivityCancelled, Tick, vars, caseVars
  <1>3. \A a \in acts' : a.kind = "breach" => tracking'[a.stage].warned
    <2>1. ASSUME NEW a \in acts', a.kind = "breach",
                 \E b \in acts : b.kind = a.kind /\ b.stage = a.stage
          PROVE  tracking'[a.stage].warned
      BY <1>0, <2>1, RecordsKept DEF SlaInv, ReportInv
    <2>2. CASE \A a \in acts' : \E b \in acts : b.kind = a.kind /\ b.stage = a.stage
      BY <2>1, <2>2
    <2>3. CASE BreachDue
      <3>1. tracking'[stage].warned
        BY <1>0, <2>3, RecordsKept DEF BreachDue, SlaInv, SlaTypeOK, ReportInv
      <3>2. NewActivity("breach").stage = stage /\ acts' = acts \cup {NewActivity("breach")}
        BY <2>3 DEF BreachDue, NewActivity
      <3> QED BY <2>1, <3>1, <3>2
    <2>4. CASE WarningDue
      <3>1. NewActivity("warning").kind = "warning" /\ acts' = acts \cup {NewActivity("warning")}
        BY <2>4 DEF WarningDue, NewActivity
      <3> QED BY <2>1, <3>1
    <2>5. Cancel => \A a \in acts' : \E b \in acts : b.kind = a.kind /\ b.stage = a.stage
      BY CancelTyped DEF SlaInv, SlaTypeOK
    <2>6. \A a \in acts : LET c == [a EXCEPT !.checked = TRUE] IN c.kind = a.kind /\ c.stage = a.stage
      BY CheckedTyped DEF SlaInv, SlaTypeOK
    <2> QED
      BY <2>2, <2>3, <2>4, <2>5, <2>6
      DEF Next, Handler, Watcher, StartUntimed, StartTimed, PauseClock, ResumeClock, FinishWork,
          LeaveStage, CloseWorkflow, WarningReturns, BreachChecks, BreachReturns,
          ActivityCancelled, Tick, vars
  <1> QED BY <1>1, <1>2, <1>3

\* Without losses the entries of a breach are all of one time.
LEMMA EntriesKept == ASSUME SlaInv, [Next]_vars PROVE EntriesInv'
PROOF
  <1> SUFFICES ASSUME faults' = 0
               PROVE  /\ RepeatsOverlap'
                      /\ \A s \in Stages : logged'[s] # <<>> => tracking'[s].breached
                      /\ \A a \in acts' : a.kind = "breach" /\ a.checked =>
                           \A i \in 1 .. Len(logged'[a.stage]) : logged'[a.stage][i] = now'
    BY DEF EntriesInv, RepeatsOverlap
  <1>0. faults = 0 /\ \A a \in acts : a.stage \in Stages
    BY NoFaultBefore, SlaAssumption DEF SlaInv, SlaTypeOK, Activity
  <1>1. \A s \in Stages : logged'[s] # <<>> => tracking'[s].breached
    BY <1>0, RecordsKept DEF SlaInv, EntriesInv
  <1>2. ASSUME UNCHANGED <<logged, now>>,
               \A a \in acts' : a.kind = "breach" /\ a.checked =>
                  \E b \in acts : b.kind = a.kind /\ b.stage = a.stage /\ b.checked
        PROVE  /\ RepeatsOverlap'
               /\ \A a \in acts' : a.kind = "breach" /\ a.checked =>
                    \A i \in 1 .. Len(logged'[a.stage]) : logged'[a.stage][i] = now'
    BY <1>0, <1>2 DEF SlaInv, EntriesInv, RepeatsOverlap
  <1>3. CASE Tick
    <2>1. acts' = {} /\ UNCHANGED logged
      BY <1>3, FailCounts DEF Tick, SlaInv, SlaTypeOK
    <2> QED BY <1>0, <1>1, <2>1 DEF SlaInv, EntriesInv, RepeatsOverlap
  <1>4. ASSUME NEW a \in acts, BreachChecks(a)
        PROVE  /\ RepeatsOverlap'
               /\ \A b \in acts' : b.kind = "breach" /\ b.checked =>
                    \A i \in 1 .. Len(logged'[b.stage]) : logged'[b.stage][i] = now'
    <2>1. UNCHANGED <<logged, now>>
      BY <1>4 DEF BreachChecks, clockVars
    <2>2. CASE tracking[a.stage].breached
      BY <1>2, <1>4, <2>1, <2>2 DEF BreachChecks, AlreadyTriggered
    <2>3. CASE ~tracking[a.stage].breached
      <3> DEFINE c == [a EXCEPT !.checked = TRUE]
      <3>1. acts' = (acts \ {a}) \cup {c} /\ c.stage = a.stage
        BY <1>4, <2>3, CheckedTyped DEF BreachChecks, AlreadyTriggered, SlaInv, SlaTypeOK
      <3>2. logged[a.stage] = <<>>
        BY <1>0, <2>3 DEF SlaInv, EntriesInv
      <3>3. RepeatsOverlap'
        BY <1>0, <2>1 DEF SlaInv, EntriesInv, RepeatsOverlap
      <3>4. \A i \in 1 .. Len(logged'[c.stage]) : logged'[c.stage][i] = now'
        BY <2>1, <3>1, <3>2
      <3>5. \A b \in acts : b.kind = "breach" /\ b.checked =>
              \A i \in 1 .. Len(logged'[b.stage]) : logged'[b.stage][i] = now'
        BY <1>0, <2>1 DEF SlaInv, EntriesInv
      <3> HIDE DEF c
      <3> QED BY <3>1, <3>3, <3>4, <3>5
    <2> QED BY <2>2, <2>3
  <1>5. ASSUME NEW a \in acts, BreachReturns(a)
        PROVE  /\ RepeatsOverlap'
               /\ \A b \in acts' : b.kind = "breach" /\ b.checked =>
                    \A i \in 1 .. Len(logged'[b.stage]) : logged'[b.stage][i] = now'
    <2>1. /\ a.kind = "breach" /\ a.checked /\ a.stage \in Stages /\ now' = now /\ acts' \subseteq acts
          /\ logged' = [logged EXCEPT ![a.stage] = Append(@, now)]
      BY <1>0, <1>5, FailCounts DEF BreachReturns, SlaInv, SlaTypeOK, clockVars
    <2>2. now \in Nat /\ logged \in [Stages -> Seq(Nat)]
      BY SlaAssumption DEF SlaInv, SlaTypeOK, LogOK
    <2>3. \A i \in 1 .. Len(logged[a.stage]) : logged[a.stage][i] = now
      BY <1>0, <2>1 DEF SlaInv, EntriesInv
    <2>4. \A i \in 1 .. Len(logged'[a.stage]) : logged'[a.stage][i] = now
      <3>1. logged[a.stage] \in Seq(Nat) /\ logged'[a.stage] = Append(logged[a.stage], now)
        BY <2>1, <2>2
      <3> QED BY <2>2, <2>3, <3>1
    <2>5. \A s \in Stages : s # a.stage => logged'[s] = logged[s]
      BY <2>1, <2>2
    <2>6. RepeatsOverlap'
      BY <1>0, <2>4, <2>5 DEF SlaInv, EntriesInv, RepeatsOverlap
    <2>7. \A b \in acts' : b.kind = "breach" /\ b.checked =>
            \A i \in 1 .. Len(logged'[b.stage]) : logged'[b.stage][i] = now'
      BY <1>0, <2>1, <2>4, <2>5 DEF SlaInv, EntriesInv
    <2> QED BY <2>6, <2>7
  <1>6. CASE WarningDue \/ BreachDue
    <2>1. PICK k \in {"warning", "breach"} : acts' = acts \cup {NewActivity(k)}
      BY <1>6 DEF WarningDue, BreachDue
    <2>2. ~NewActivity(k).checked
      BY DEF NewActivity
    <2> QED BY <1>1, <1>2, <1>6, <2>1, <2>2 DEF WarningDue, BreachDue, clockVars
  <1>7. CASE Cancel /\ UNCHANGED <<logged, now>>
    <2>1. \A a \in acts' : \E b \in acts : b.kind = a.kind /\ b.stage = a.stage /\ b.checked = a.checked
      BY <1>7 DEF Cancel, Activity, SlaInv, SlaTypeOK
    <2> QED BY <1>1, <1>2, <1>7, <2>1
  <1>8. CASE acts' \subseteq acts /\ UNCHANGED <<logged, now>>
    BY <1>1, <1>2, <1>8
  <1> QED
    BY <1>1, <1>3, <1>4, <1>5, <1>6, <1>7, <1>8
    DEF Next, Handler, Watcher, StartUntimed, StartTimed, PauseClock, ResumeClock, FinishWork,
        LeaveStage, CloseWorkflow, WarningReturns, ActivityCancelled, vars, clockVars

\* Every step keeps the invariant.
LEMMA SlaNext == SlaInv /\ [Next]_vars => SlaInv'
  BY TypeKept, CoroutineKept, RowKept, SleepKept, ReportKept, EntriesKept DEF SlaInv

-----------------------------------------------------------------------------
(* Theorems *)

\* The clock, the rows and the activities have their types, in every state.
THEOREM SlaTypeCorrect == Spec => []SlaTypeOK
PROOF
  <1>1. SlaInv => SlaTypeOK
    BY DEF SlaInv
  <1> QED BY SlaInit, SlaNext, <1>1, PTL DEF Spec

\* No coroutine outlives its visit, whatever fails.
THEOREM TimerEndsWithVisit == Spec => []TimerOfVisit
PROOF
  <1>1. SlaInv => TimerOfVisit
    BY DEF SlaInv, CoroutineInv
  <1> QED BY SlaInit, SlaNext, <1>1, PTL DEF Spec

\* Without losses the row of a visit tells the time really spent in it.
THEOREM StopwatchIsTrue == Spec => []ClockIsTrue
PROOF
  <1>1. SlaInv => ClockIsTrue
    BY SlaAssumption DEF SlaInv, SlaTypeOK, CoroutineInv, RowInv, ClockIsTrue, NetElapsed, Max0,
                         NULL
  <1> QED BY SlaInit, SlaNext, <1>1, PTL DEF Spec

\* Without losses no breach is reported before the window is used up.
THEOREM BreachIsNeverEarly == Spec => []NeverEarly
PROOF
  <1>1. SlaInv => NeverEarly
    BY DEF SlaInv, SleepInv, NeverEarly
  <1> QED BY SlaInit, SlaNext, <1>1, PTL DEF Spec

\* Without losses no stage works beyond its window unreported, and every report
\* has its warning and its entry.
THEOREM BreachIsNeverMissed == Spec => []NeverMissed
PROOF
  <1>1. SlaInv /\ faults = 0 => NeverMissed
    BY DEF SlaInv, ReportInv
  <1>2. SlaInv => NeverMissed
    BY <1>1 DEF NeverMissed
  <1> QED BY SlaInit, SlaNext, <1>2, PTL DEF Spec

\* Without losses a breach that is logged twice is logged at one time.
THEOREM RepeatedBreachesOverlap == Spec => []RepeatsOverlap
PROOF
  <1>1. SlaInv /\ faults = 0 => RepeatsOverlap
    BY DEF SlaInv, EntriesInv
  <1>2. SlaInv => RepeatsOverlap
    BY <1>1 DEF RepeatsOverlap
  <1> QED BY SlaInit, SlaNext, <1>2, PTL DEF Spec

=============================================================================
