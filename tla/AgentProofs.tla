----------------------------- MODULE AgentProofs -----------------------------
(***************************************************************************)
(* The agents' work for any pipeline, criteria, client and number of       *)
(* passes, any processes, tasks and settings.                              *)
(***************************************************************************)
EXTENDS ScreenedOnboarding, ProductTrack, OnboardingWorkflowProofs, FiniteSetTheorems, TLAPS

-----------------------------------------------------------------------------
(* One product's track. *)

\* The steps an attempt loads are those of a pipeline.
LEMMA StepsLoaded ==
    ASSUME pipeline \in Pipelines, NEW s \in loaded_steps
    PROVE  s \in Seq(StepNames)
<1>1. s \in Pipelines \cup {FallbackSteps}
  BY DEF loaded_steps
<1>2. s \in Seq({s[i] : i \in DOMAIN s})
  BY <1>1, TrackAssumption
<1>3. {s[i] : i \in DOMAIN s} \subseteq StepNames
  BY <1>1 DEF StepNames
<1>4. Seq({s[i] : i \in DOMAIN s}) \subseteq Seq(StepNames)
  BY <1>3
<1> QED BY <1>2, <1>4

\* A track begins with no row, no decision and no attempt.
LEMMA TrackStarts == TrackInit => TrackInv
<1> SUFFICES ASSUME TrackInit PROVE TrackInv
  OBVIOUS
<1> USE DEF TrackInit, Waiting, NoDecision
<1>1. (CHOOSE c \in Clients : TRUE) \in Clients
  BY TrackAssumption
<1>2. <<>> \in Seq(StepNames)
  OBVIOUS
<1>3. pass \in Pass
  BY <1>1, <1>2 DEF Pass
<1>4. TrackTypeOK
  BY <1>3 DEF TrackTypeOK
<1>5. RowsInOrder
  BY DEF RowsInOrder
<1> QED BY <1>4, <1>5 DEF TrackInv

\* While no pipeline differs, more that has run leaves the rows in order.
LEMMA RowsStay ==
    ASSUME TrackInv, UNCHANGED <<stepRows, mixed>>, ran \subseteq ran',
           pass'.count = pass.count, pass'.steps = pass.steps
    PROVE  ~mixed' => RowsInOrder'
BY DEF TrackInv, RowsInOrder

\* What excuses a failed attempt goes on doing so.
LEMMA ExcuseStays ==
    ASSUME Excused, mixed => mixed', pass.failed => pass'.failed, pass'.steps = pass.steps,
           pass'.client = pass.client, pass'.judged_by = pass.judged_by
    PROVE  Excused'
BY DEF Excused

\* The record of an attempt that begins.
LEMMA Begun ==
    ASSUME pass \in Pass, NEW c \in Clients, NEW s \in Seq(StepNames), StartPass(c, s)
    PROVE  /\ pass' \in Pass /\ pass'.count = pass.count + 1 /\ pass'.at = "starting"
           /\ pass'.track = "none" /\ pass'.steps = s /\ pass'.step = 1
<1>1. pass' = [at |-> "starting", count |-> pass.count + 1, steps |-> s, step |-> 1, client |-> c,
               judged_by |-> {}, failed |-> FALSE, track |-> "none"]
  BY DEF StartPass, Pass
<1>2. {} \in SUBSET (Criterias \cup {hardcoded_criteria}) /\ 1 \in Nat \ {0} /\ FALSE \in BOOLEAN
  OBVIOUS
<1>3. pass.count + 1 \in Nat
  BY DEF Pass
<1> HIDE DEF StartPass
<1> QED BY <1>1, <1>2, <1>3 DEF Pass

\* An attempt starts afresh; if it loads other steps than those of the rows, the
\* pipelines are mixed.
LEMMA PassStarts ==
    ASSUME TrackInv, NEW client_now \in Clients, NEW s \in loaded_steps, StartPass(client_now, s)
    PROVE  TrackInv'
<1>1. s \in Seq(StepNames) /\ pass \in Pass /\ pass.count \in Nat
  BY StepsLoaded DEF TrackInv, TrackTypeOK, Pass
<1>2. /\ mixed' = (mixed \/ (stepRows # {} /\ s # pass.steps))
      /\ UNCHANGED <<pipeline, criteria, product, stepRows, gate, ran>>
  BY DEF StartPass
<1>4. /\ pass'.count = pass.count + 1 /\ pass'.at = "starting" /\ pass'.track = "none"
      /\ pass'.steps = s /\ pass'.step = 1 /\ pass' \in Pass
  BY <1>1, Begun
<1>5. TrackTypeOK'
  BY <1>2, <1>4 DEF TrackInv, TrackTypeOK
<1>6. ASSUME ~mixed' PROVE RowsInOrder'
  <2>1. CASE stepRows = {}
    BY <1>2, <2>1 DEF RowsInOrder
  <2>2. CASE stepRows # {}
    <3>1. RowsInOrder /\ pass'.steps = pass.steps
      BY <1>2, <1>4, <1>6, <2>2 DEF TrackInv
    <3>2. \A n \in 1..pass.count : n \in 1..pass'.count
      BY <1>1, <1>4
    <3> QED BY <1>2, <3>1, <3>2 DEF RowsInOrder
  <2> QED BY <2>1, <2>2
<1>7. gate.account <= pass.count /\ gate.account \in Nat
  BY DEF TrackInv, TrackTypeOK
<1> QED BY <1>1, <1>2, <1>4, <1>5, <1>6, <1>7 DEF TrackInv

\* The rows an attempt adds while no pipeline differs are its steps', each once.
LEMMA RowsAreMade ==
    ASSUME TrackInv, PersistProductStart
    PROVE  TrackInv'
<1> USE DEF PersistProductStart, Go
<1>1. pass \in Pass /\ pass' \in Pass /\ pass' = [pass EXCEPT !.at = "assessing"]
  BY DEF TrackInv, TrackTypeOK, Pass
<1>2. missing_rows \subseteq StepRow
  <2> SUFFICES ASSUME NEW i \in DOMAIN pass.steps
               PROVE  [name |-> pass.steps[i], index |-> i, status |-> "PENDING"] \in StepRow
    BY DEF missing_rows
  <2>1. pass.steps \in Seq(StepNames)
    BY <1>1 DEF Pass
  <2>2. pass.steps[i] \in StepNames /\ i \in Nat
    BY <2>1
  <2> QED BY <2>2 DEF StepRow
<1>3. TrackTypeOK'
  BY <1>1, <1>2 DEF TrackInv, TrackTypeOK
<1>4. pass'.at = "assessing" /\ pass'.track = pass.track /\ pass'.count = pass.count
      /\ pass'.steps = pass.steps /\ pass'.step = pass.step
  BY <1>1 DEF Pass
<1>5. ASSUME ~mixed PROVE RowsInOrder'
  <2>2. RowsInOrder
    BY <1>5 DEF TrackInv
  <2>3. \A r \in missing_rows :
           /\ r.index \in DOMAIN pass.steps /\ r.name = pass.steps[r.index] /\ r.status = "PENDING"
           /\ \A q \in stepRows : q.name # r.name
    BY DEF missing_rows
  <2>4. \A r, q \in missing_rows : r.index = q.index => r = q
    BY DEF missing_rows
  <2>5. \A r \in missing_rows : \A q \in stepRows : r.index # q.index
    BY <2>2, <2>3 DEF RowsInOrder
  <2>6. stepRows' = stepRows \cup missing_rows \/ stepRows' = stepRows
    OBVIOUS
  <2>7. \A r \in stepRows' : /\ r.index \in DOMAIN pass.steps /\ r.name = pass.steps[r.index]
                             /\ r.status = "COMPLETE" => \E n \in 1..pass.count : <<n, r.name>> \in ran
    BY <2>2, <2>3, <2>6 DEF RowsInOrder
  <2>8. \A r, q \in stepRows' : r.index = q.index => r = q
    BY <2>2, <2>4, <2>5, <2>6 DEF RowsInOrder
  <2>9. ran' = ran
    OBVIOUS
  <2> QED BY <1>4, <2>7, <2>8, <2>9 DEF RowsInOrder
<1>6. gate' = gate /\ mixed' = mixed /\ pass.at = "starting" /\ pass.track = "none" /\ pass.count # 0
  BY DEF TrackInv
<1> QED BY <1>3, <1>4, <1>5, <1>6 DEF TrackInv

\* Only a suitable client gets the steps; what cannot be scored is an excuse.
LEMMA ClientIsAssessed ==
    ASSUME TrackInv, Assess
    PROVE  TrackInv'
<1>1. pass \in Pass /\ criteria \in Criterias /\ pass.at = "assessing" /\ pass.track = "none"
  BY DEF TrackInv, TrackTypeOK, Assess
<1>2. UNCHANGED <<pipeline, criteria, product, stepRows, gate, ran, mixed>>
  BY DEF Assess
<1>3. PICK k \in {criteria, hardcoded_criteria} :
         pass' = IF unscorable(pass.client, k) THEN Raised([pass EXCEPT !.judged_by = {k}])
                 ELSE IF is_suitable(pass.client, k) THEN [[pass EXCEPT !.judged_by = {k}] EXCEPT !.at = "executing"]
                 ELSE [[pass EXCEPT !.judged_by = {k}] EXCEPT !.at = "finishing", !.track = "UNSUITABLE"]
  BY DEF Assess
<1>4. k \in Criterias \cup {hardcoded_criteria}
  BY <1>1
<1>5. pass' \in Pass
  BY <1>1, <1>3, <1>4 DEF Pass, Raised
<1>6. /\ pass'.count = pass.count /\ pass'.steps = pass.steps /\ pass'.client = pass.client
      /\ pass'.step = 1 /\ pass'.judged_by = {k}
  BY <1>1, <1>3 DEF Pass, Raised, TrackInv
<1>7. TrackTypeOK'
  BY <1>2, <1>5 DEF TrackInv, TrackTypeOK
<1>8. ~mixed' => RowsInOrder'
  BY <1>2, <1>6, RowsStay
<1>9. pass.count # 0 /\ ~(gate.state = "ACTIVATED" /\ gate.account = pass.count)
  BY <1>1 DEF TrackInv
<1>10. CASE unscorable(pass.client, k)
  <2>1. pass'.at = "gate" /\ pass'.track = "FAILED"
    BY <1>1, <1>3, <1>10 DEF Pass, Raised
  <2>2. Excused'
    BY <1>6, <1>10 DEF Excused, unscorable
  <2> QED BY <1>2, <1>6, <1>7, <1>8, <1>9, <2>1, <2>2 DEF TrackInv
<1>11. CASE ~unscorable(pass.client, k) /\ is_suitable(pass.client, k)
  <2>1. pass'.at = "executing" /\ pass'.track = "none"
    BY <1>1, <1>3, <1>11 DEF Pass
  <2>2. Suited'
    BY <1>6, <1>11 DEF Suited, is_suitable
  <2>3. pass'.steps \in Seq(StepNames)
    BY <1>5 DEF Pass
  <2>4. RanUpTo(pass.step - 1)'
    <3>1. \A i \in DOMAIN pass'.steps : ~(i <= pass'.step - 1)
      BY <1>6, <2>3
    <3> QED BY <3>1 DEF RanUpTo
  <2> QED BY <1>1, <1>2, <1>6, <1>7, <1>8, <1>9, <2>1, <2>2, <2>4 DEF TrackInv
<1>12. CASE ~unscorable(pass.client, k) /\ ~is_suitable(pass.client, k)
  <2>1. pass'.at = "finishing" /\ pass'.track = "UNSUITABLE"
    BY <1>1, <1>3, <1>12 DEF Pass
  <2> QED BY <1>2, <1>6, <1>7, <1>8, <1>9, <2>1 DEF TrackInv
<1> QED BY <1>10, <1>11, <1>12

\* A step runs after those before it, and the track is complete after the last.
LEMMA StepRuns ==
    ASSUME TrackInv, ExecuteStep
    PROVE  TrackInv'
<1> USE DEF ExecuteStep, Raised, Go
<1>1. pass \in Pass /\ pass' \in Pass
  <2>1. pass \in Pass
    BY DEF TrackInv, TrackTypeOK
  <2>2. ASSUME NEW q \in Pass
        PROVE  /\ [q EXCEPT !.at = "finishing", !.track = "COMPLETE"] \in Pass
               /\ [q EXCEPT !.at = "gate", !.track = "FAILED"] \in Pass
               /\ [q EXCEPT !.at = "executed"] \in Pass
    BY DEF Pass
  <2> QED BY <2>1, <2>2
<1>2. TrackTypeOK'
  BY <1>1 DEF TrackInv, TrackTypeOK
<1>3. /\ pass'.count = pass.count /\ pass'.steps = pass.steps /\ pass'.client = pass.client
      /\ pass'.step = pass.step /\ pass'.judged_by = pass.judged_by /\ ran \subseteq ran'
  BY <1>1 DEF Pass
<1>4. ~mixed' => RowsInOrder'
  BY <1>3, RowsStay
<1>5. /\ Suited /\ Suited' /\ RanUpTo(pass.step - 1) /\ pass.at = "executing" /\ pass.track = "none"
      /\ ~(gate.state = "ACTIVATED" /\ gate.account = pass.count) /\ pass.count # 0
  BY <1>3 DEF TrackInv, Suited
<1>6. pass.steps \in Seq(StepNames) /\ pass.step \in Nat \ {0}
  BY <1>1 DEF Pass
<1>7. CASE pass.step > Len(pass.steps)
  <2>1. pass'.at = "finishing" /\ pass'.track = "COMPLETE"
    BY <1>1, <1>7 DEF Pass
  <2>2. RanUpTo(Len(pass.steps))'
    <3>1. \A i \in DOMAIN pass.steps : i <= pass.step - 1
      BY <1>6, <1>7
    <3> QED BY <1>3, <1>5, <3>1 DEF RanUpTo
  <2> QED BY <1>2, <1>3, <1>4, <1>5, <2>1, <2>2 DEF TrackInv
<1>8. CASE pass.step <= Len(pass.steps) /\ pass.steps[pass.step] \in BadSteps
  <2> DEFINE raised == [pass EXCEPT !.at = "gate", !.track = "FAILED"]
  <2>0. raised \in Pass /\ raised.at = "gate" /\ raised.track = "FAILED"
    BY <1>1 DEF Pass
  <2>1. pass'.at = "gate" /\ pass'.track = "FAILED"
    <3>1. ~(pass.step > Len(pass.steps))
      BY <1>6, <1>8
    <3>2. pass' = raised
      BY <3>1, <1>8
    <3> QED BY <2>0, <3>2
  <2>2. Excused'
    BY <1>3, <1>6, <1>8 DEF Excused
  <2> QED BY <1>2, <1>3, <1>4, <1>5, <2>1, <2>2 DEF TrackInv
<1>9. CASE pass.step <= Len(pass.steps) /\ pass.steps[pass.step] \notin BadSteps
  <2>1. pass'.at = "executed" /\ pass'.track = "none" /\ ran' = ran \cup {<<pass.count, pass.steps[pass.step]>>}
    BY <1>1, <1>5, <1>6, <1>9 DEF Pass
  <2>2. RanUpTo(pass.step - 1)'
    BY <1>3, <1>5, <1>6 DEF RanUpTo
  <2>3. pass'.step \in DOMAIN pass'.steps /\ <<pass'.count, pass'.steps[pass'.step]>> \in ran'
    BY <1>3, <1>6, <1>9, <2>1
  <2> QED BY <1>2, <1>3, <1>4, <1>5, <2>1, <2>2, <2>3 DEF TrackInv
<1> QED BY <1>6, <1>7, <1>8, <1>9

\* While no pipeline differs, the row completed is the step's.
LEMMA StepIsRecorded ==
    ASSUME TrackInv, PersistStepDone
    PROVE  TrackInv'
<1> USE DEF PersistStepDone, Raised
<1> DEFINE found == {r \in stepRows : r.index = pass.step}
           done == {[r EXCEPT !.status = "COMPLETE"] : r \in found}
<1>1. pass \in Pass /\ pass' \in Pass /\ stepRows \subseteq StepRow
  <2>1. pass \in Pass /\ stepRows \subseteq StepRow
    BY DEF TrackInv, TrackTypeOK
  <2>2. ASSUME NEW q \in Pass, NEW i \in Nat \ {0}
        PROVE  /\ [q EXCEPT !.at = "executing", !.step = i] \in Pass
               /\ [q EXCEPT !.at = "gate", !.track = "FAILED"] \in Pass
    BY DEF Pass
  <2>3. pass.step + 1 \in Nat \ {0}
    BY <2>1 DEF Pass
  <2> QED BY <2>1, <2>2, <2>3
<1>2. /\ pass.steps \in Seq(StepNames) /\ pass.step \in DOMAIN pass.steps /\ pass.count \in Nat \ {0}
      /\ <<pass.count, pass.steps[pass.step]>> \in ran
  BY <1>1 DEF TrackInv, Pass
<1>3. done \subseteq StepRow
  BY <1>1 DEF StepRow
<1>4. TrackTypeOK'
  BY <1>1, <1>3 DEF TrackInv, TrackTypeOK, row_index
<1>5. /\ pass'.count = pass.count /\ pass'.steps = pass.steps /\ pass'.client = pass.client
      /\ pass'.judged_by = pass.judged_by
  BY <1>1 DEF Pass
<1>6. /\ Suited /\ Suited' /\ RanUpTo(pass.step - 1) /\ pass.at = "executed" /\ pass.track = "none"
      /\ ~(gate.state = "ACTIVATED" /\ gate.account = pass.count) /\ pass.count # 0
  BY <1>5 DEF TrackInv, Suited
<1>7. mixed' = mixed /\ ran' = ran /\ gate' = gate /\ product' = product
  OBVIOUS
<1>8. CASE Cardinality(found) > 1
  <2>1. pass'.at = "gate" /\ pass'.track = "FAILED" /\ UNCHANGED stepRows
    BY <1>1, <1>8 DEF Pass, row_index
  <2>2. mixed
    <3> SUFFICES ASSUME ~mixed PROVE FALSE
      OBVIOUS
    <3>1. \A r, q \in found : r = q
      BY DEF TrackInv, RowsInOrder
    <3>2. found = {} \/ \E r \in found : found = {r}
      BY <3>1
    <3>3. Cardinality(found) \in {0, 1}
      BY <3>2, FS_EmptySet, FS_Singleton
    <3> QED BY <3>3, <1>8
  <2>3. Excused'
    BY <1>7, <2>2 DEF Excused
  <2> QED BY <1>4, <1>5, <1>6, <1>7, <2>1, <2>2, <2>3 DEF TrackInv
<1>9. CASE ~(Cardinality(found) > 1)
  <2>1. /\ stepRows' = (stepRows \ found) \cup done
        /\ pass' = [pass EXCEPT !.at = "executing", !.step = @ + 1]
    BY <1>9 DEF row_index
  <2>2. pass'.at = "executing" /\ pass'.track = "none" /\ pass'.step = pass.step + 1
    BY <2>1, <1>1, <1>6 DEF Pass
  <2>3. RanUpTo(pass.step - 1)'
    <3>1. \A i \in DOMAIN pass.steps : i <= (pass.step + 1) - 1 => i <= pass.step - 1 \/ i = pass.step
      BY <1>1, <1>2 DEF Pass
    <3>2. \A i \in DOMAIN pass.steps : i <= (pass.step + 1) - 1 => <<pass.count, pass.steps[i]>> \in ran
      BY <1>2, <1>6, <3>1 DEF RanUpTo
    <3> QED BY <1>5, <1>7, <2>2, <3>2 DEF RanUpTo
  <2>4. ASSUME ~mixed PROVE RowsInOrder'
    <3>1. RowsInOrder
      BY <2>4 DEF TrackInv
    <3>2. ASSUME NEW r \in done PROVE r.index = pass.step /\ r.name = pass.steps[pass.step] /\ r \in StepRow
      <4>1. PICK q \in found : r = [q EXCEPT !.status = "COMPLETE"]
        OBVIOUS
      <4>2. q \in StepRow /\ q.index = pass.step /\ q.name = pass.steps[q.index]
        BY <1>1, <3>1 DEF RowsInOrder
      <4> QED BY <4>1, <4>2, <1>3 DEF StepRow
    <3>3. ASSUME NEW r \in stepRows'
          PROVE  /\ r.index \in DOMAIN pass.steps /\ r.name = pass.steps[r.index]
                 /\ r.status = "COMPLETE" => \E n \in 1..pass.count : <<n, r.name>> \in ran
      <4>1. CASE r \in done
        <5>1. pass.count \in 1..pass.count
          BY <1>2
        <5> QED BY <1>2, <3>2, <4>1, <5>1
      <4>2. CASE r \in stepRows
        BY <3>1, <4>2 DEF RowsInOrder
      <4> QED BY <2>1, <4>1, <4>2
    <3>4. ASSUME NEW r \in stepRows', NEW q \in stepRows', r.index = q.index PROVE r = q
      <4>1. CASE r \in done /\ q \in done
        <5>1. PICK a \in found : r = [a EXCEPT !.status = "COMPLETE"]
          BY <4>1
        <5>2. PICK b \in found : q = [b EXCEPT !.status = "COMPLETE"]
          BY <4>1
        <5> QED BY <3>1, <5>1, <5>2 DEF RowsInOrder
      <4>2. CASE r \in stepRows \ found /\ q \in stepRows \ found
        BY <3>1, <4>2, <3>4 DEF RowsInOrder
      <4>3. CASE r \in done /\ q \in stepRows \ found
        BY <3>2, <4>3, <3>4
      <4>4. CASE r \in stepRows \ found /\ q \in done
        BY <3>2, <4>4, <3>4
      <4> QED BY <2>1, <4>1, <4>2, <4>3, <4>4
    <3> QED BY <1>5, <1>7, <3>3, <3>4 DEF RowsInOrder
  <2> QED BY <1>4, <1>5, <1>6, <1>7, <2>2, <2>3, <2>4 DEF TrackInv
<1> QED BY <1>8, <1>9

\* The product's row is brought up to date, unless the track failed.
LEMMA ProductFinishes ==
    ASSUME TrackInv, PersistProductFinish
    PROVE  TrackInv'
<1> USE DEF PersistProductFinish, Go
<1>1. pass \in Pass /\ pass' \in Pass
  <2>1. pass \in Pass
    BY DEF TrackInv, TrackTypeOK
  <2> QED BY <2>1 DEF Pass
<1>2. TrackTypeOK'
  BY <1>1 DEF TrackInv, TrackTypeOK
<1>3. /\ pass'.count = pass.count /\ pass'.steps = pass.steps /\ pass'.client = pass.client
      /\ pass'.step = pass.step /\ pass'.judged_by = pass.judged_by /\ pass'.track = pass.track
      /\ pass'.failed = pass.failed /\ pass'.at = "gate"
  BY <1>1 DEF Pass
<1>4. ~mixed' => RowsInOrder'
  BY <1>3, RowsStay
<1>5. (Suited <=> Suited') /\ (RanUpTo(Len(pass.steps)) <=> RanUpTo(Len(pass.steps))')
      /\ (Excused <=> Excused')
  BY <1>3 DEF Suited, RanUpTo, Excused
<1>6. product' # "IN_PROGRESS"
  BY <1>1 DEF Pass
<1>7. ~(gate.state = "ACTIVATED" /\ gate.account = pass.count) /\ pass.count # 0
  BY DEF TrackInv
<1> QED BY <1>2, <1>3, <1>4, <1>5, <1>6, <1>7 DEF TrackInv

\* A write that fails is an excuse.
LEMMA WriteIsLost ==
    ASSUME TrackInv, RowWriteFails
    PROVE  TrackInv'
<1> USE DEF RowWriteFails, Raised
<1>1. pass \in Pass /\ pass' \in Pass
  <2>1. pass \in Pass
    BY DEF TrackInv, TrackTypeOK
  <2> QED BY <2>1 DEF Pass
<1>2. TrackTypeOK'
  BY <1>1 DEF TrackInv, TrackTypeOK
<1>3. /\ pass'.count = pass.count /\ pass'.steps = pass.steps /\ pass'.at = "gate"
      /\ pass'.track = "FAILED" /\ pass'.failed
  BY <1>1 DEF Pass
<1>4. ~mixed' => RowsInOrder'
  BY <1>3, RowsStay
<1>5. Excused'
  BY <1>3 DEF Excused
<1>6. ~(gate.state = "ACTIVATED" /\ gate.account = pass.count) /\ pass.count # 0
  BY DEF TrackInv
<1> QED BY <1>2, <1>3, <1>4, <1>5, <1>6 DEF TrackInv

\* Whatever ends the attempt otherwise leaves what it has found.
LEMMA PassEnds ==
    ASSUME TrackInv, EvaluateGate \/ GateFails \/ AuditFails \/ Lose
    PROVE  TrackInv'
<1> USE DEF EvaluateGate, GateFails, AuditFails, Lose, Go
<1>1. pass \in Pass /\ pass' \in Pass
  <2>1. pass \in Pass
    BY DEF TrackInv, TrackTypeOK
  <2> QED BY <2>1 DEF Pass
<1>2. gate' \in [state : {"none", "ACTIVATED", "DECLINED"}, account : Nat, decline : BOOLEAN]
  <2>1. /\ gate \in [state : {"none", "ACTIVATED", "DECLINED"}, account : Nat, decline : BOOLEAN]
        /\ pass.count \in Nat
    BY <1>1 DEF TrackInv, TrackTypeOK, Pass
  <2> QED BY <2>1
<1>3. TrackTypeOK'
  BY <1>1, <1>2 DEF TrackInv, TrackTypeOK
<1>4. /\ pass'.count = pass.count /\ pass'.steps = pass.steps /\ pass'.client = pass.client
      /\ pass'.step = pass.step /\ pass'.judged_by = pass.judged_by /\ pass'.track = pass.track
      /\ pass'.failed = pass.failed /\ pass'.at \in {"ended", "raised", "lost"}
      /\ (pass'.at \in {"ended", "raised"} => pass.at = "gate") /\ pass.at \notin {"idle", "ended"}
  BY <1>1 DEF Pass
<1>5. ~mixed' => RowsInOrder'
  BY <1>4, RowsStay
<1>6. (Suited => Suited') /\ (RanUpTo(Len(pass.steps)) => RanUpTo(Len(pass.steps))')
      /\ (Excused => Excused')
  <2>1. ran' = ran /\ mixed' = mixed
    OBVIOUS
  <2>2. Suited => Suited'
    BY <1>4 DEF Suited
  <2>3. RanUpTo(Len(pass.steps)) => RanUpTo(Len(pass.steps))'
    BY <1>4, <2>1 DEF RanUpTo
  <2>4. Excused => Excused'
    BY <1>4, <2>1, ExcuseStays
  <2> QED BY <2>2, <2>3, <2>4
<1>7. gate'.account <= pass.count
      /\ (gate'.state = "ACTIVATED" /\ gate'.account = pass.count => pass'.at = "ended" /\ pass.track = "COMPLETE")
  <2>1. pass.count \in Nat /\ gate \in [state : {"none", "ACTIVATED", "DECLINED"}, account : Nat, decline : BOOLEAN]
    BY <1>1 DEF TrackInv, TrackTypeOK, Pass
  <2>2. gate.account <= pass.count /\ ~(gate.state = "ACTIVATED" /\ gate.account = pass.count)
    BY <1>4 DEF TrackInv
  <2>3. CASE EvaluateGate /\ evaluate_policy
    <3>1. gate' = [gate EXCEPT !.state = "ACTIVATED", !.account = pass.count] /\ pass'.at = "ended"
      BY <1>1, <2>3 DEF Pass
    <3> QED BY <2>1, <2>3, <3>1 DEF evaluate_policy, TrackStatus
  <2>4. CASE EvaluateGate /\ ~evaluate_policy
    BY <2>1, <2>2, <2>4
  <2>5. CASE GateFails \/ AuditFails \/ Lose
    BY <2>2, <2>5
  <2> QED BY <2>3, <2>4, <2>5
<1> QED BY <1>3, <1>4, <1>5, <1>6, <1>7 DEF TrackInv

\* A change of pipeline or criteria is not noticed before it is loaded.
LEMMA SettingsChange ==
    ASSUME TrackInv,
           (\E s \in Pipelines : EditPipeline(s)) \/ (\E k \in Criterias : EditCriteria(k))
    PROVE  TrackInv'
<1> USE DEF EditPipeline, EditCriteria
<1>1. TrackTypeOK'
  BY DEF TrackInv, TrackTypeOK
<1>2. UNCHANGED <<pass, stepRows, gate, product, ran, mixed>>
  OBVIOUS
<1>3. ~mixed' => RowsInOrder'
  BY <1>2, RowsStay
<1>4. (Suited <=> Suited') /\ (RanUpTo(Len(pass.steps)) <=> RanUpTo(Len(pass.steps))')
      /\ (RanUpTo(pass.step - 1) <=> RanUpTo(pass.step - 1)') /\ (Excused <=> Excused')
  BY <1>2 DEF Suited, RanUpTo, Excused
<1> QED BY <1>1, <1>2, <1>3, <1>4 DEF TrackInv

\* Every step of a track keeps what makes its properties inductive.
LEMMA TrackNext == TrackInv /\ [TrackStep]_trackVars => TrackInv'
<1> SUFFICES ASSUME TrackInv, [TrackStep]_trackVars PROVE TrackInv'
  OBVIOUS
<1>1. CASE \E c \in Clients, s \in loaded_steps : StartPass(c, s)
  BY <1>1, PassStarts
<1>2. CASE PersistProductStart
  BY <1>2, RowsAreMade
<1>3. CASE Assess
  BY <1>3, ClientIsAssessed
<1>4. CASE ExecuteStep
  BY <1>4, StepRuns
<1>5. CASE PersistStepDone
  BY <1>5, StepIsRecorded
<1>6. CASE PersistProductFinish
  BY <1>6, ProductFinishes
<1>7. CASE RowWriteFails
  BY <1>7, WriteIsLost
<1>8. CASE EvaluateGate \/ GateFails \/ AuditFails \/ Lose
  BY <1>8, PassEnds
<1>9. CASE (\E s \in Pipelines : EditPipeline(s)) \/ (\E k \in Criterias : EditCriteria(k))
  BY <1>9, SettingsChange
<1>10. CASE UNCHANGED trackVars
  BY <1>10 DEF trackVars, TrackInv, TrackTypeOK, RowsInOrder, Suited, RanUpTo, Excused
<1> QED BY <1>1, <1>2, <1>3, <1>4, <1>5, <1>6, <1>7, <1>8, <1>9, <1>10 DEF TrackStep

\* In every reachable state of a track its rows, its attempt and its decision agree.
LEMMA TrackHolds == TrackSpec => []TrackInv
<1>1. TrackInv /\ [TrackStep]_trackVars => TrackInv'
  BY TrackNext
<1> QED BY <1>1, TrackStarts, PTL DEF TrackSpec

\* For every pipeline, and with any statement failing, a row marked COMPLETE is
\* that of a step that ran, unless two attempts have worked on the rows with
\* different pipelines (_persist_step_done finds the row by the step's place).
THEOREM StepRowsTrue == TrackSpec => []StepRowsAreTrue
<1>1. TrackInv => StepRowsAreTrue
  BY DEF TrackInv, StepRowsAreTrue, RowsInOrder
<1> QED BY <1>1, TrackHolds, PTL

\* For every pipeline and any number of attempts, a product left IN_PROGRESS has
\* a cause in the last of them: the loss of the process, a write that failed,
\* answers or criteria that cannot be scored, a step whose configuration raises,
\* or mixed pipelines.
THEOREM StuckProductsHaveCause == TrackSpec => []StuckHasCause
<1>1. TrackInv => StuckHasCause
  BY DEF TrackInv, StuckHasCause, Excused, Over
<1> QED BY <1>1, TrackHolds, PTL

\* For every pipeline, client and criteria, an activation follows an assessment
\* of its own attempt and the run in it of every step it had loaded.
THEOREM ActivationsAreEarned == TrackSpec => []ActivationIsEarned
<1>1. TrackInv => ActivationIsEarned
  <2> SUFFICES ASSUME TrackInv, gate.state = "ACTIVATED", gate.account = pass.count PROVE ActivationIsEarned
    BY DEF ActivationIsEarned
  <2>1. Suited /\ RanUpTo(Len(pass.steps)) /\ pass.steps \in Seq(StepNames)
    BY DEF TrackInv, TrackTypeOK, Pass
  <2> QED BY <2>1 DEF ActivationIsEarned, Suited, RanUpTo
<1> QED BY <1>1, TrackHolds, PTL

-----------------------------------------------------------------------------
(* Settings and their stores. *)

\* The built-in rules are settings with the given keys and values, and no key
\* is the one that tells a missing row from a row.
Within(keys, values) == Builtin \in SettingsOf(keys, values) /\ "none" \notin keys

\* A setting is a function on some of the keys.
LEMMA SettingIs ==
    ASSUME NEW keys, NEW values, NEW f \in SettingsOf(keys, values)
    PROVE  DOMAIN f \subseteq keys /\ f \in [DOMAIN f -> values]
<1>1. PICK K \in SUBSET keys : f \in [K -> values]
  BY DEF SettingsOf
<1> QED BY <1>1

\* Every function on some of the keys is a setting.
LEMMA IsSetting ==
    ASSUME NEW keys, NEW values, NEW K \in SUBSET keys, NEW f \in [K -> values]
    PROVE  f \in SettingsOf(keys, values) /\ DOMAIN f = K
BY DEF SettingsOf

\* A missing row is no setting.
LEMMA NoRowApart ==
    ASSUME NEW keys, NEW values, Within(keys, values)
    PROVE  NoRow \notin SettingsOf(keys, values)
<1>1. DOMAIN NoRow = {"none"}
  BY DEF NoRow
<1> QED BY <1>1, SettingIs DEF Within

\* There is one setting without keys.
LEMMA OneEmpty ==
    ASSUME NEW keys, NEW values
    PROVE  /\ Empty \in SettingsOf(keys, values)
           /\ DOMAIN Empty = {}
           /\ \A f \in SettingsOf(keys, values) : DOMAIN f = {} => f = Empty
<1>1. Empty \in [{} -> values] /\ DOMAIN Empty = {}
  BY DEF Empty
<1>2. Empty \in SettingsOf(keys, values)
  BY <1>1, IsSetting, {} \in SUBSET keys
<1>3. ASSUME NEW f \in SettingsOf(keys, values), DOMAIN f = {} PROVE f = Empty
  <2>1. f \in [{} -> values]
    BY <1>3, SettingIs
  <2> QED BY <2>1, <1>1
<1> QED BY <1>1, <1>2, <1>3

\* Merging two settings gives the keys of both.
LEMMA Merged ==
    ASSUME NEW keys, NEW values, NEW f \in SettingsOf(keys, values), NEW g \in SettingsOf(keys, values)
    PROVE  merge(f, g) \in SettingsOf(keys, values) /\ DOMAIN merge(f, g) = DOMAIN f \cup DOMAIN g
<1>1. /\ DOMAIN f \subseteq keys /\ f \in [DOMAIN f -> values]
      /\ DOMAIN g \subseteq keys /\ g \in [DOMAIN g -> values]
  BY SettingIs
<1>2. merge(f, g) \in [DOMAIN f \cup DOMAIN g -> values]
  BY <1>1 DEF merge
<1>3. DOMAIN f \cup DOMAIN g \in SUBSET keys
  BY <1>1
<1> QED BY <1>2, <1>3, IsSetting

\* Leaving out a key leaves the others.
LEMMA LeftOut ==
    ASSUME NEW keys, NEW values, NEW f \in SettingsOf(keys, values), NEW k
    PROVE  without(f, k) \in SettingsOf(keys, values) /\ DOMAIN without(f, k) = DOMAIN f \ {k}
<1>1. DOMAIN f \subseteq keys /\ f \in [DOMAIN f -> values]
  BY SettingIs
<1>2. without(f, k) \in [DOMAIN f \ {k} -> values]
  BY <1>1 DEF without, Restrict
<1>3. DOMAIN f \ {k} \in SUBSET keys
  BY <1>1
<1> QED BY <1>2, <1>3, IsSetting

\* Setting a key gives a setting.
LEMMA Put ==
    ASSUME NEW keys, NEW values, NEW f \in SettingsOf(keys, values), NEW k \in keys, NEW v \in values
    PROVE  put(f, k, v) \in SettingsOf(keys, values)
<1>1. DOMAIN f \subseteq keys /\ f \in [DOMAIN f -> values]
  BY SettingIs
<1>2. put(f, k, v) \in [DOMAIN f \cup {k} -> values]
  BY <1>1 DEF put
<1>3. DOMAIN f \cup {k} \in SUBSET keys
  BY <1>1
<1> QED BY <1>2, <1>3, IsSetting

\* What a start loads: the row, or nothing for no row; the rules never nothing.
LEMMA Loads ==
    ASSUME NEW keys, NEW values, Within(keys, values),
           NEW s \in Stores, NEW r \in SettingsOf(keys, values) \cup {NoRow}
    PROVE  /\ blob(r) \in SettingsOf(keys, values)
           /\ load_from_db(s, r) \in SettingsOf(keys, values)
           /\ r \in SettingsOf(keys, values) => blob(r) = r
           /\ s # "rules" => load_from_db(s, r) = blob(r)
           /\ r \in {NoRow, Empty} => load_from_db("rules", r) = Builtin
           /\ DOMAIN Builtin \subseteq DOMAIN r /\ r # NoRow => load_from_db("rules", r) = r
<1>1. r \in SettingsOf(keys, values) => blob(r) = r
  BY NoRowApart DEF blob
<1>2. blob(r) \in SettingsOf(keys, values)
  BY <1>1, OneEmpty DEF blob
<1>3. load_from_db(s, r) \in SettingsOf(keys, values)
  BY <1>2 DEF load_from_db, Within
<1>4. r \in {NoRow, Empty} => load_from_db("rules", r) = Builtin
  BY <1>1, OneEmpty DEF load_from_db, blob
<1>5. ASSUME DOMAIN Builtin \subseteq DOMAIN r, r # NoRow PROVE load_from_db("rules", r) = r
  <2>1. r # Empty
    BY <1>5, StoreAssumption, OneEmpty
  <2> QED BY <1>1, <1>5, <2>1 DEF load_from_db, blob
<1> QED BY <1>1, <1>2, <1>3, <1>4, <1>5 DEF load_from_db

\* A write under way is none that is free.
LEMMA Busy ==
    ASSUME NEW keys, NEW values, NEW w \in WriteOf(keys, values)
    PROVE  w # Free
BY DEF WriteOf, Free

\* What a write leaves, by what it asks.
LEMMA Leaves ==
    ASSUME NEW keys, NEW values, NEW w \in WriteOf(keys, values), NEW copy,
           NEW r \in SettingsOf(keys, values) \cup {NoRow}
    PROVE  leaves(w, copy, r) = CASE w.op = "save"   -> copy
                                  [] w.op = "patch"  -> merge(blob(r), w.arg)
                                  [] w.op = "delete" -> without(blob(r), w.arg)
                                  [] w.op = "clear"  -> Empty
<1> DEFINE v == [w EXCEPT !.read = r]
<1>1. v \in WriteOf(keys, values) /\ v.op = w.op /\ v.arg = w.arg /\ v.read = r
  BY DEF WriteOf
<1>2. w.op \in {"save", "patch", "delete", "clear"}
  BY DEF WriteOf
<1> QED BY <1>1, <1>2 DEF leaves, written

\* A store that a step leaves alone agrees as before.
LEMMA Untouched ==
    ASSUME NEW s \in Stores, Agrees(s),
           admin_config'[s] = admin_config[s], cache'[s] = cache[s], behind'[s] = behind[s],
           \A u \in Tasks : /\ u \in Pending(s)' <=> u \in Pending(s)
                            /\ u \in Pending(s) => task'[u] = task[u]
    PROVE  Agrees(s)'
<1>1. Pending(s) \subseteq Tasks /\ Pending(s)' \subseteq Tasks
  BY DEF Pending
<1> QED BY <1>1 DEF Agrees

\* A change leaves its process's copy with what its write will bring the row to,
\* unless another write of the store is under way, which spoils it.
LEMMA ChangeKept ==
    ASSUME NEW keys, NEW values, Within(keys, values), StoreInv(keys, values),
           NEW p \in Processes, NEW s \in Stores, NEW value \in SettingsOf(keys, values),
           NEW op \in Ops[s], NEW arg \in SettingsOf(keys, values) \cup keys,
           op = "delete" => arg \in keys,
           op # "delete" => arg \in SettingsOf(keys, values),
           s = "rules" => DOMAIN Builtin \subseteq DOMAIN value,
           op = "clear" => value = load_from_db(s, Empty),
           op = "patch" => value = merge(cache[s][p], arg),
           op = "delete" => value = without(cache[s][p], arg),
           Change(p, s, value, op, arg)
    PROVE  StoreInv(keys, values)'
<1> DEFINE w == [at |-> "queued", store |-> s, proc |-> p, op |-> op, arg |-> arg, read |-> NoRow]
<1>1. PICK t \in Tasks : task[t] = Free /\ task' = [task EXCEPT ![t] = w]
  BY DEF Change
<1>2. cache' = [cache EXCEPT ![s][p] = value] /\ admin_config' = admin_config /\ behind' = behind
      /\ spoilt' = IF Pending(s) = {} THEN spoilt ELSE spoilt \cup {s}
  BY DEF Change
<1>3. op \in {"save", "patch", "delete", "clear"}
  BY DEF Ops, Stores
<1>4. w \in WriteOf(keys, values) /\ w # Free
  <2>1. w \in WriteOf(keys, values)
    BY <1>3 DEF WriteOf
  <2> QED BY <2>1, Busy
<1>5. StoreTypeOK(keys, values)
  BY DEF StoreInv
<1>6. StoreTypeOK(keys, values)'
  BY <1>1, <1>2, <1>4, <1>5 DEF StoreTypeOK
<1>7. \A u \in Tasks : task'[u] = IF u = t THEN w ELSE task[u]
  BY <1>1, <1>5 DEF StoreTypeOK
<1>8. \A a \in Stores : \A q \in Processes : cache'[a][q] = IF a = s /\ q = p THEN value ELSE cache[a][q]
  BY <1>2, <1>5 DEF StoreTypeOK
<1>9. OpsFit(keys, values)'
  BY <1>7 DEF StoreInv, OpsFit
<1>10. BuiltinKept'
  <2>1. \A q \in Processes : DOMAIN Builtin \subseteq DOMAIN cache'["rules"][q]
    BY <1>8 DEF StoreInv, BuiltinKept, Stores
  <2>2. \A u \in Tasks :
          task'[u] # Free /\ task'[u].store = "rules" /\ task'[u].op = "save" /\ task'[u].at # "queued" =>
             DOMAIN Builtin \subseteq DOMAIN task'[u].arg
    BY <1>7 DEF StoreInv, BuiltinKept
  <2> QED BY <2>1, <2>2, <1>2 DEF StoreInv, BuiltinKept
<1>11. ASSUME NEW a \in Stores \ spoilt' PROVE Agrees(a)'
  <2>1. a \notin spoilt /\ Agrees(a)
    BY <1>2 DEF StoreInv
  <2>2. CASE a # s
    <3>1. \A u \in Tasks : /\ u \in Pending(a)' <=> u \in Pending(a)
                           /\ u \in Pending(a) => task'[u] = task[u]
      BY <2>2, <1>1, <1>4, <1>7 DEF Pending
    <3>2. cache'[a] = cache[a]
      BY <2>2, <1>2, <1>5 DEF StoreTypeOK
    <3> QED BY <2>1, <3>1, <3>2, <1>2, Untouched
  <2>3. CASE a = s
    <3>1. Pending(s) = {}
      BY <2>3, <1>2
    <3>2. Pending(s)' = {t} /\ task'[t] = w
      BY <3>1, <1>4, <1>7 DEF Pending
    <3>3. \A q \in Processes : q \in behind[s] \/ cache[s][q] = load_from_db(s, admin_config[s])
      BY <2>1, <2>3, <3>1 DEF Agrees
    <3>4. ASSUME p \notin behind[s] PROVE value = load_from_db(s, leaves(w, value, admin_config[s]))
      <4>1. admin_config[s] \in SettingsOf(keys, values) \cup {NoRow} /\ cache[s][p] \in SettingsOf(keys, values)
        BY <1>5 DEF StoreTypeOK
      <4>2. value # NoRow /\ blob(value) = value
        BY NoRowApart, Loads
      <4>3. s = "rules" => load_from_db(s, value) = value
        BY <4>2, Loads
      <4>4. s # "rules" => load_from_db(s, value) = value /\ blob(admin_config[s]) = cache[s][p]
        BY <4>1, <4>2, <3>3, <3>4, Loads
      <4>5. w.op = op /\ w.arg = arg
        OBVIOUS
      <4>6. CASE op = "save"
        BY <4>3, <4>4, <4>5, <4>6, <4>1, <1>4, Leaves
      <4>7. CASE op = "clear"
        BY <4>5, <4>7, <4>1, <1>4, Leaves
      <4>8. CASE op \in {"patch", "delete"}
        <5>1. s # "rules"
          BY <4>8 DEF Ops
        <5> QED BY <5>1, <4>4, <4>5, <4>8, <4>1, <1>4, Leaves
      <4> QED BY <4>6, <4>7, <4>8, <1>3
    <3>5. \A q \in Processes : \/ q \in behind'[s] \/ \E u \in Pending(s)' : task'[u].proc = q
                               \/ cache'[s][q] = load_from_db(s, admin_config'[s])
      BY <3>2, <3>3, <1>2, <1>8
    <3>6. cache'[s][p] = value /\ w.proc = p /\ w.op = op /\ w.at = "queued"
      BY <1>8
    <3> QED BY <2>3, <3>2, <3>4, <3>5, <3>6, <1>2 DEF Agrees
  <2> QED BY <2>2, <2>3
<1> QED BY <1>6, <1>9, <1>10, <1>11 DEF StoreInv

\* Each change of the administrator's is such a change.
LEMMA ChangesKept ==
    ASSUME NEW keys, NEW values, Within(keys, values), StoreInv(keys, values), StoreChange(keys, values)
    PROVE  StoreInv(keys, values)'
<1>1. \A s \in Stores : \A p \in Processes : cache[s][p] \in SettingsOf(keys, values)
  BY DEF StoreInv, StoreTypeOK
<1>2. \A p \in Processes : DOMAIN Builtin \subseteq DOMAIN cache["rules"][p]
  BY DEF StoreInv, BuiltinKept
<1>3. Stores = {"rules", "prompts", "llm"}
  BY DEF Stores
<1>4. Empty \in SettingsOf(keys, values) \cup {NoRow} /\ Empty \in SettingsOf(keys, values)
  BY OneEmpty
<1>5. /\ load_from_db("rules", Empty) = Builtin
      /\ \A s \in Stores \ {"rules"} : load_from_db(s, Empty) = Empty
  BY <1>3, <1>4, Loads
<1>6. ASSUME NEW p \in Processes, NEW k \in keys, NEW v \in values,
             add_rule(p, k, v) \/ update_rule(p, k, v)
      PROVE  StoreInv(keys, values)'
  <2> DEFINE value == put(cache["rules"][p], k, v)
  <2>1. Change(p, "rules", value, "save", Empty)
    BY <1>6 DEF add_rule, update_rule
  <2>2. value \in SettingsOf(keys, values) /\ DOMAIN Builtin \subseteq DOMAIN value
    <3>1. cache["rules"][p] \in SettingsOf(keys, values) /\ DOMAIN Builtin \subseteq DOMAIN cache["rules"][p]
      BY <1>1, <1>2, <1>3
    <3>2. value \in SettingsOf(keys, values)
      BY <3>1, Put
    <3>3. DOMAIN value = DOMAIN cache["rules"][p] \cup {k}
      BY DEF put
    <3> QED BY <3>1, <3>2, <3>3
  <2>3. "save" \in Ops["rules"]
    BY DEF Ops
  <2> HIDE DEF value
  <2> QED BY <2>1, <2>2, <2>3, <1>3, <1>4, ChangeKept
<1>7. ASSUME NEW p \in Processes, NEW k \in keys, remove_rule(p, k)
      PROVE  StoreInv(keys, values)'
  <2> DEFINE value == without(cache["rules"][p], k)
  <2>1. Change(p, "rules", value, "save", Empty) /\ k \notin DOMAIN Builtin
    BY <1>7 DEF remove_rule
  <2>2. value \in SettingsOf(keys, values) /\ DOMAIN Builtin \subseteq DOMAIN value
    <3>1. cache["rules"][p] \in SettingsOf(keys, values) /\ DOMAIN Builtin \subseteq DOMAIN cache["rules"][p]
      BY <1>1, <1>2, <1>3
    <3>2. value \in SettingsOf(keys, values) /\ DOMAIN value = DOMAIN cache["rules"][p] \ {k}
      BY <3>1, LeftOut
    <3> QED BY <3>1, <3>2, <2>1
  <2>3. "save" \in Ops["rules"]
    BY DEF Ops
  <2> HIDE DEF value
  <2> QED BY <2>1, <2>2, <2>3, <1>3, <1>4, ChangeKept
<1>8. ASSUME NEW p \in Processes, reset_rules(p) PROVE StoreInv(keys, values)'
  <2>1. Change(p, "rules", Builtin, "clear", Empty)
    BY <1>8 DEF reset_rules
  <2>2. "clear" \in Ops["rules"] /\ Builtin \in SettingsOf(keys, values)
    BY DEF Ops, Within
  <2> QED BY <2>1, <2>2, <1>3, <1>4, <1>5, ChangeKept
<1>9. ASSUME NEW p \in Processes, NEW k \in keys, NEW v \in values, set_prompt_override(p, k, v)
      PROVE  StoreInv(keys, values)'
  <2> DEFINE value == put(cache["prompts"][p], k, v)
  <2>1. Change(p, "prompts", value, "save", Empty)
    BY <1>9 DEF set_prompt_override
  <2>2. value \in SettingsOf(keys, values)
    BY <1>1, <1>3, Put
  <2>3. "save" \in Ops["prompts"]
    BY DEF Ops
  <2> HIDE DEF value
  <2> QED BY <2>1, <2>2, <2>3, <1>3, <1>4, ChangeKept
<1>10. ASSUME NEW p \in Processes, NEW k \in keys, reset_prompt_override(p, k)
       PROVE  StoreInv(keys, values)'
  <2> DEFINE value == without(cache["prompts"][p], k)
  <2>1. Change(p, "prompts", value, "delete", k)
    BY <1>10 DEF reset_prompt_override
  <2>2. value \in SettingsOf(keys, values)
    BY <1>1, <1>3, LeftOut
  <2>3. "delete" \in Ops["prompts"]
    BY DEF Ops
  <2> QED BY <2>1, <2>2, <2>3, <1>3, ChangeKept
<1>11. ASSUME NEW p \in Processes, NEW u \in SettingsOf(keys, values), set_overrides(p, u)
       PROVE  StoreInv(keys, values)'
  <2> DEFINE value == merge(cache["llm"][p], u)
  <2>1. Change(p, "llm", value, "patch", u)
    BY <1>11 DEF set_overrides
  <2>2. value \in SettingsOf(keys, values)
    BY <1>1, <1>3, Merged
  <2>3. "patch" \in Ops["llm"]
    BY DEF Ops
  <2> QED BY <2>1, <2>2, <2>3, <1>3, ChangeKept
<1>12. ASSUME NEW p \in Processes, clear_overrides(p) PROVE StoreInv(keys, values)'
  <2>1. Change(p, "llm", Empty, "clear", Empty)
    BY <1>12 DEF clear_overrides
  <2>2. "clear" \in Ops["llm"]
    BY DEF Ops
  <2> QED BY <2>1, <2>2, <1>3, <1>4, <1>5, ChangeKept
<1> QED BY <1>6, <1>7, <1>8, <1>9, <1>10, <1>11, <1>12 DEF StoreChange

\* A task on its way takes what is current.
LEMMA TaskMoves ==
    ASSUME NEW keys, NEW values, Within(keys, values), StoreInv(keys, values),
           NEW t \in Tasks, Start(t) \/ Read(t)
    PROVE  StoreInv(keys, values)'
<1> DEFINE w == task[t]
           s == w.store
           copy == cache[s][w.proc]
           begun == [w EXCEPT !.at = "started", !.arg = IF w.op = "save" THEN copy ELSE w.arg]
           seen == [w EXCEPT !.at = "read", !.read = admin_config[s]]
<1>1. StoreTypeOK(keys, values)
  BY DEF StoreInv
<1>2. w \in WriteOf(keys, values) /\ UNCHANGED <<cache, admin_config, behind, spoilt>>
  BY <1>1 DEF Start, Read, StoreTypeOK
<1>3. s \in Stores /\ w.proc \in Processes
  BY <1>2 DEF WriteOf
<1>4. copy \in SettingsOf(keys, values) /\ admin_config[s] \in SettingsOf(keys, values) \cup {NoRow}
  BY <1>1, <1>3 DEF StoreTypeOK
<1>5. \/ w.at = "queued" /\ task'[t] = begun
      \/ w.at = "started" /\ task'[t] = seen
  BY <1>1 DEF Start, Read, StoreTypeOK
<1>6. \A u \in Tasks : u # t => task'[u] = task[u]
  BY <1>1 DEF Start, Read, StoreTypeOK
<1>7. /\ begun \in WriteOf(keys, values) /\ begun.store = s /\ begun.proc = w.proc /\ begun.op = w.op
      /\ begun.arg = (IF w.op = "save" THEN copy ELSE w.arg) /\ begun.at = "started"
  <2>1. ASSUME NEW x \in WriteOf(keys, values), NEW a \in SettingsOf(keys, values) \cup keys
        PROVE  /\ [x EXCEPT !.at = "started", !.arg = a] \in WriteOf(keys, values)
               /\ [x EXCEPT !.at = "started", !.arg = a].store = x.store
               /\ [x EXCEPT !.at = "started", !.arg = a].proc = x.proc
               /\ [x EXCEPT !.at = "started", !.arg = a].op = x.op
               /\ [x EXCEPT !.at = "started", !.arg = a].arg = a
               /\ [x EXCEPT !.at = "started", !.arg = a].at = "started"
    BY DEF WriteOf
  <2>2. (IF w.op = "save" THEN copy ELSE w.arg) \in SettingsOf(keys, values) \cup keys
    BY <1>2, <1>4 DEF WriteOf
  <2> DEFINE asked == IF w.op = "save" THEN copy ELSE w.arg
  <2>3. begun = [w EXCEPT !.at = "started", !.arg = asked]
    OBVIOUS
  <2>4. /\ begun \in WriteOf(keys, values) /\ begun.store = w.store /\ begun.proc = w.proc
        /\ begun.op = w.op /\ begun.arg = asked /\ begun.at = "started"
    <3>1. asked \in SettingsOf(keys, values) \cup keys
      BY <2>2
    <3> HIDE DEF w, begun, asked
    <3> QED BY <2>1, <2>3, <3>1, <1>2
  <2> HIDE DEF begun
  <2> QED BY <2>4
<1>8. /\ seen \in WriteOf(keys, values) /\ seen.store = s /\ seen.proc = w.proc /\ seen.op = w.op
      /\ seen.arg = w.arg /\ seen.at = "read" /\ seen.read = admin_config[s]
  BY <1>2, <1>4 DEF WriteOf
<1> DEFINE v == task'[t]
<1>9. /\ v \in WriteOf(keys, values) /\ v # Free /\ w # Free
      /\ v.store = s /\ v.proc = w.proc /\ v.op = w.op
      /\ v.op # "save" => v.arg = w.arg
      /\ v.op = "save" => v.arg = copy \/ (v.arg = w.arg /\ w.at # "queued")
      /\ v.at = "read" => v.read = admin_config[s]
      /\ v.at # "queued"
  <2>1. w # Free
    BY <1>2, Busy
  <2>2. CASE w.at = "queued" /\ v = begun
    <3> HIDE DEF w, begun, copy
    <3>1. v # Free
      BY <2>2, <1>7, Busy
    <3> QED BY <2>1, <2>2, <3>1, <1>7
  <2>3. CASE w.at = "started" /\ v = seen
    <3> HIDE DEF w, seen, copy
    <3>1. v # Free
      BY <2>3, <1>8, Busy
    <3> QED BY <2>1, <2>3, <3>1, <1>8
  <2> QED BY <2>2, <2>3, <1>5
<1> HIDE DEF w, v, begun, seen
<1>10. StoreTypeOK(keys, values)'
  <2>1. task' \in [Tasks -> WriteOf(keys, values) \cup {Free}]
    <3>1. task' = [task EXCEPT ![t] = v]
      BY <1>1 DEF Start, Read, StoreTypeOK, v
    <3> QED BY <3>1, <1>1, <1>9 DEF StoreTypeOK
  <2> QED BY <2>1, <1>1, <1>2 DEF StoreTypeOK
<1>11. OpsFit(keys, values)'
  <2>1. OpsFit(keys, values)
    BY DEF StoreInv
  <2>2. /\ w.op \in Ops[w.store]
        /\ w.op = "delete" => w.arg \in keys
        /\ w.op # "delete" => w.arg \in SettingsOf(keys, values)
    BY <2>1, <1>9 DEF OpsFit, w
  <2>3. /\ v.op \in Ops[v.store]
        /\ v.op = "delete" => v.arg \in keys
        /\ v.op # "delete" => v.arg \in SettingsOf(keys, values)
    BY <2>2, <1>4, <1>9
  <2> QED BY <2>1, <2>3, <1>6 DEF OpsFit, v
<1>12. BuiltinKept'
  <2>1. BuiltinKept
    BY DEF StoreInv
  <2>2. s = "rules" /\ v.op = "save" => DOMAIN Builtin \subseteq DOMAIN v.arg
    BY <2>1, <1>3, <1>9 DEF BuiltinKept, w
  <2>3. ASSUME NEW u \in Tasks, task'[u] # Free, task'[u].store = "rules", task'[u].op = "save",
               task'[u].at # "queued"
        PROVE  DOMAIN Builtin \subseteq DOMAIN task'[u].arg
    BY <2>1, <2>2, <2>3, <1>6, <1>9 DEF BuiltinKept, v
  <2> QED BY <2>1, <2>3, <1>2 DEF BuiltinKept
<1>13. ASSUME NEW a \in Stores \ spoilt' PROVE Agrees(a)'
  <2>1. a \notin spoilt /\ Agrees(a)
    BY <1>2 DEF StoreInv
  <2>2. \A u \in Tasks : (u \in Pending(a)' <=> u \in Pending(a))
    BY <1>6, <1>9 DEF Pending, v, w
  <2>3. CASE a # s
    <3>1. \A u \in Tasks : u \in Pending(a) => task'[u] = task[u]
      BY <2>3, <1>6 DEF Pending, w
    <3> QED BY <2>1, <2>2, <3>1, <1>2, Untouched
  <2>4. CASE a = s
    <3>1. Pending(s) = {t} /\ Pending(s)' = {t}
      BY <2>1, <2>2, <2>4, <1>9 DEF Pending, Agrees, w, v
    <3>2. /\ w.op = "save" /\ w.at # "queued" => w.arg = copy
          /\ w.proc \notin behind[s] => copy = load_from_db(s, leaves(w, copy, admin_config[s]))
          /\ \A p \in Processes : p \in behind[s] \/ w.proc = p \/ cache[s][p] = load_from_db(s, admin_config[s])
      BY <2>1, <2>4, <3>1 DEF Agrees, w
    <3>3. leaves(v, copy, admin_config[s]) = leaves(w, copy, admin_config[s])
      BY <1>2, <1>4, <1>9, Leaves
    <3>4. /\ v.op = "save" => v.arg = copy
          /\ v.proc \notin behind[s] => copy = load_from_db(s, leaves(v, copy, admin_config[s]))
      BY <3>2, <3>3, <1>9
    <3>5. Pending(a)' = {t}
      BY <2>4, <3>1, <2>2, <1>1 DEF Pending
    <3>6. cache'[a][v.proc] = copy /\ admin_config'[a] = admin_config[s] /\ behind'[a] = behind[s]
      BY <1>2, <1>9, <2>4
    <3>7. \A p \in Processes : \/ p \in behind'[a] \/ \E u \in Pending(a)' : task'[u].proc = p
                               \/ cache'[a][p] = load_from_db(a, admin_config'[a])
      BY <3>5, <3>2, <1>2, <1>9, <2>4 DEF v
    <3>8. /\ v.at = "read" => v.read = admin_config'[a]
          /\ v.op = "save" /\ v.at # "queued" => v.arg = cache'[a][v.proc]
          /\ v.proc \notin behind'[a] => cache'[a][v.proc] = load_from_db(a, leaves(v, cache'[a][v.proc], admin_config'[a]))
      BY <3>4, <3>6, <1>9, <2>4
    <3>9. \A u \in Pending(a)' :
             /\ task'[u].at = "read" => task'[u].read = admin_config'[a]
             /\ task'[u].op = "save" /\ task'[u].at # "queued" => task'[u].arg = cache'[a][task'[u].proc]
             /\ task'[u].proc \notin behind'[a] =>
                   cache'[a][task'[u].proc] = load_from_db(a, leaves(task'[u], cache'[a][task'[u].proc], admin_config'[a]))
      BY <3>5, <3>8 DEF v
    <3>10. \A u, x \in Pending(a)' : u = x
      BY <3>5
    <3> QED BY <3>7, <3>9, <3>10 DEF Agrees
  <2> QED BY <2>3, <2>4
<1> QED BY <1>10, <1>11, <1>12, <1>13 DEF StoreInv

\* A write that ends leaves the row as its process's copy says, or spoils the store.
LEMMA TaskEnds ==
    ASSUME NEW keys, NEW values, Within(keys, values), StoreInv(keys, values),
           NEW t \in Tasks, task[t] # Free, NEW s \in Stores, s = task[t].store,
           NEW value \in SettingsOf(keys, values) \cup {NoRow}, NEW failed \in BOOLEAN,
           s = "rules" => value \in {NoRow, Empty} \/ DOMAIN Builtin \subseteq DOMAIN value,
           ~failed /\ s \notin spoilt /\ task[t].proc \notin behind[s] =>
              cache[s][task[t].proc] = load_from_db(s, value),
           Done(t, s, value, failed)
    PROVE  StoreInv(keys, values)'
<1> USE DEF Done
<1>1. StoreTypeOK(keys, values)
  BY DEF StoreInv
<1>2. StoreTypeOK(keys, values)'
  BY <1>1 DEF StoreTypeOK
<1>3. /\ \A u \in Tasks : task'[u] = IF u = t THEN Free ELSE task[u]
      /\ \A a \in Stores : admin_config'[a] = IF a = s THEN value ELSE admin_config[a]
      /\ \A a \in Stores : behind[a] \subseteq behind'[a] /\ (a # s => behind'[a] = behind[a])
      /\ value # admin_config[s] => behind'[s] = behind[s] \cup (Processes \ {task[t].proc})
      /\ spoilt \subseteq spoilt' /\ (failed => s \in spoilt')
  BY <1>1 DEF StoreTypeOK
<1>4. OpsFit(keys, values)'
  BY <1>3 DEF StoreInv, OpsFit
<1>5. BuiltinKept'
  <2>1. \A u \in Tasks :
          task'[u] # Free /\ task'[u].store = "rules" /\ task'[u].op = "save" /\ task'[u].at # "queued" =>
             DOMAIN Builtin \subseteq DOMAIN task'[u].arg
    BY <1>3 DEF StoreInv, BuiltinKept
  <2>2. admin_config'["rules"] \in {NoRow, Empty} \/ DOMAIN Builtin \subseteq DOMAIN admin_config'["rules"]
    BY <1>3 DEF StoreInv, BuiltinKept, Stores
  <2> QED BY <2>1, <2>2 DEF StoreInv, BuiltinKept
<1>6. ASSUME NEW a \in Stores \ spoilt' PROVE Agrees(a)'
  <2>1. a \notin spoilt /\ Agrees(a)
    BY <1>3 DEF StoreInv
  <2>2. CASE a # s
    <3>1. \A u \in Tasks : /\ u \in Pending(a)' <=> u \in Pending(a)
                           /\ u \in Pending(a) => task'[u] = task[u]
      BY <2>2, <1>3 DEF Pending
    <3> QED BY <2>1, <2>2, <3>1, <1>3, Untouched
  <2>3. CASE a = s
    <3>1. Pending(a) = {t}
      BY <2>1, <2>3 DEF Pending, Agrees
    <3>2. Pending(a)' = {}
      BY <3>1, <1>3 DEF Pending
    <3>3. ASSUME NEW q \in Processes, q \notin behind'[a] PROVE cache'[a][q] = load_from_db(a, admin_config'[a])
      <4>1. q \notin behind[a] /\ ~failed
        BY <3>3, <2>3, <1>3
      <4>2. CASE q = task[t].proc
        BY <4>1, <4>2, <2>1, <2>3, <1>3
      <4>3. CASE q # task[t].proc
        <5>1. value = admin_config[s]
          BY <4>3, <3>3, <2>3, <1>3
        <5>2. cache[a][q] = load_from_db(a, admin_config[a])
          BY <4>1, <4>3, <2>1, <3>1 DEF Agrees
        <5> QED BY <5>1, <5>2, <2>3, <1>3
      <4> QED BY <4>2, <4>3
    <3> QED BY <3>2, <3>3 DEF Agrees
  <2> QED BY <2>2, <2>3
<1> QED BY <1>2, <1>4, <1>5, <1>6 DEF StoreInv

\* Both ways a write can end are such ends.
LEMMA WritesKept ==
    ASSUME NEW keys, NEW values, Within(keys, values), StoreInv(keys, values),
           NEW t \in Tasks, Write(t) \/ WriteFails(t)
    PROVE  StoreInv(keys, values)'
<1>1. task[t] # Free /\ task[t] \in WriteOf(keys, values)
  BY DEF Write, WriteFails, StoreInv, StoreTypeOK
<1>2. PICK s \in Stores : s = task[t].store
  BY <1>1 DEF WriteOf
<1>3. admin_config[s] \in SettingsOf(keys, values) \cup {NoRow}
      /\ (s = "rules" => admin_config[s] \in {NoRow, Empty} \/ DOMAIN Builtin \subseteq DOMAIN admin_config[s])
  BY DEF StoreInv, StoreTypeOK, BuiltinKept
<1>4. CASE WriteFails(t)
  <2>1. Done(t, s, admin_config[s], TRUE)
    BY <1>2, <1>4 DEF WriteFails
  <2>2. PICK value : value = admin_config[s]
    OBVIOUS
  <2> QED BY <2>1, <2>2, <1>1, <1>2, <1>3, TaskEnds
<1>5. CASE Write(t)
  <2> DEFINE w == task[t]
             copy == cache[s][w.proc]
  <2>1. w.at = "read"
    BY <1>5 DEF Write
  <2>2. /\ w.op \in Ops[s] /\ w.op \in {"save", "patch", "delete", "clear"}
        /\ w.op # "delete" => w.arg \in SettingsOf(keys, values)
        /\ s = "rules" /\ w.op = "save" => DOMAIN Builtin \subseteq DOMAIN w.arg
        /\ w.proc \in Processes /\ w.read \in SettingsOf(keys, values) \cup {NoRow}
    BY <1>1, <1>2, <2>1 DEF WriteOf, StoreInv, OpsFit, BuiltinKept
  <2>3. copy \in SettingsOf(keys, values)
    BY <2>2 DEF StoreInv, StoreTypeOK
  <2>4. ASSUME s \notin spoilt
        PROVE  /\ w.read = admin_config[s]
               /\ w.op = "save" => w.arg = copy
               /\ w.proc \notin behind[s] => copy = load_from_db(s, leaves(w, copy, admin_config[s]))
    BY <2>4, <2>1, <1>1, <1>2 DEF StoreInv, Agrees, Pending
  <2>5. /\ w.op = "save" => written(w) = w.arg
        /\ w.op = "patch" => written(w) = merge(blob(w.read), w.arg)
        /\ w.op = "delete" => written(w) = without(blob(w.read), w.arg)
        /\ w.op = "clear" => written(w) = Empty
    BY <2>2 DEF written
  <2>6. blob(w.read) \in SettingsOf(keys, values)
    BY <2>2, Loads
  <2>7. written(w) \in SettingsOf(keys, values)
    <3>1. CASE w.op = "save"
      BY <3>1, <2>2, <2>5
    <3>2. CASE w.op = "patch"
      <4>1. PICK f \in SettingsOf(keys, values), g \in SettingsOf(keys, values) : f = blob(w.read) /\ g = w.arg
        BY <3>2, <2>2, <2>6
      <4>2. merge(f, g) \in SettingsOf(keys, values)
        BY Merged
      <4> QED BY <3>2, <4>1, <4>2, <2>5
    <3>3. CASE w.op = "delete"
      <4>1. PICK f \in SettingsOf(keys, values) : f = blob(w.read)
        BY <2>6
      <4>0. PICK k : k = w.arg
        OBVIOUS
      <4>2. without(f, k) \in SettingsOf(keys, values)
        BY LeftOut
      <4> QED BY <3>3, <4>0, <4>1, <4>2, <2>5
    <3>4. CASE w.op = "clear"
      BY <3>4, <2>5, OneEmpty
    <3> QED BY <3>1, <3>2, <3>3, <3>4, <2>2
  <2>8. s = "rules" => written(w) = Empty \/ DOMAIN Builtin \subseteq DOMAIN written(w)
    BY <2>2, <2>5 DEF Ops
  <2>9. ASSUME s \notin spoilt, w.proc \notin behind[s]
        PROVE  copy = load_from_db(s, written(w))
    <3>1. leaves(w, copy, admin_config[s]) = written(w)
      BY <2>2, <2>4, <2>5, <2>9, <1>1, <1>3, Leaves
    <3> QED BY <3>1, <2>4, <2>9
  <2>10. CASE Sent(w) /\ ~(w.read = NoRow /\ admin_config[s] # NoRow)
    <3>1. Done(t, s, written(w), FALSE)
      BY <1>2, <1>5, <2>10 DEF Write
    <3>2. PICK value : value = written(w)
      OBVIOUS
    <3> QED BY <3>1, <3>2, <2>7, <2>8, <2>9, <1>1, <1>2, TaskEnds
  <2>11. CASE ~(Sent(w) /\ ~(w.read = NoRow /\ admin_config[s] # NoRow))
    <3>1. Done(t, s, admin_config[s], Sent(w))
      BY <1>2, <1>5, <2>11 DEF Write
    <3>2. PICK value : value = admin_config[s]
      OBVIOUS
    <3>3. PICK failed \in BOOLEAN : failed <=> Sent(w)
      BY TRUE \in BOOLEAN, FALSE \in BOOLEAN
    <3>4. Done(t, s, value, failed)
      BY <3>1, <3>2, <3>3 DEF Done
    <3>5. ASSUME ~failed, s \notin spoilt, w.proc \notin behind[s]
          PROVE  copy = load_from_db(s, value)
      <4>1. copy = load_from_db(s, written(w)) /\ w.read = value
        BY <2>4, <2>9, <3>2, <3>5, <3>3
      <4>2. CASE w.read = NoRow
        <5>1. w.op \in {"delete", "clear"}
          BY <4>2, <3>2, <3>5, <3>3, <2>2 DEF Sent
        <5>2. written(w) = Empty
          <6>1. ASSUME w.op = "delete" PROVE written(w) = Empty
            <7>1. blob(w.read) = Empty
              BY <4>2 DEF blob
            <7>2. DOMAIN without(Empty, w.arg) = {} /\ without(Empty, w.arg) \in SettingsOf(keys, values)
              BY OneEmpty, LeftOut
            <7> QED BY <6>1, <7>1, <7>2, <2>5, OneEmpty
          <6> QED BY <5>1, <6>1, <2>5
        <5>3. load_from_db(s, Empty) = load_from_db(s, NoRow)
          BY OneEmpty, NoRowApart DEF load_from_db, blob
        <5> QED BY <4>1, <4>2, <5>2, <5>3
      <4>3. CASE w.read # NoRow
        BY <4>1, <4>3, <3>2, <3>5, <3>3 DEF Sent
      <4> QED BY <4>2, <4>3
    <3> QED BY <3>2, <3>5, <3>4, <1>1, <1>2, <1>3, TaskEnds
  <2> QED BY <2>10, <2>11
<1> QED BY <1>4, <1>5

\* A process that starts again has what the rows say, except where it could not
\* read one, and its writes that are lost spoil their stores.
LEMMA RestartKept ==
    ASSUME NEW keys, NEW values, Within(keys, values), StoreInv(keys, values),
           NEW p \in Processes, NEW unread \in SUBSET Stores, Restart(p, unread)
    PROVE  StoreInv(keys, values)'
<1> DEFINE lost == {t \in Tasks : task[t] # Free /\ task[t].proc = p}
           seen(s) == IF s \in unread THEN NoRow ELSE admin_config[s]
<1>1. StoreTypeOK(keys, values)
  BY DEF StoreInv
<1>2. /\ cache' = [s \in Stores |-> [cache[s] EXCEPT ![p] = load_from_db(s, seen(s))]]
      /\ behind' = [s \in Stores |-> IF s \in unread THEN behind[s] \cup {p} ELSE behind[s] \ {p}]
      /\ spoilt' = spoilt \cup {task[t].store : t \in lost}
      /\ task' = [t \in Tasks |-> IF t \in lost THEN Free ELSE task[t]]
      /\ admin_config' = admin_config
  BY DEF Restart
<1>3. \A s \in Stores : /\ admin_config[s] \in SettingsOf(keys, values) \cup {NoRow}
                        /\ seen(s) \in SettingsOf(keys, values) \cup {NoRow}
                        /\ load_from_db(s, seen(s)) \in SettingsOf(keys, values)
  BY <1>1, Loads DEF StoreTypeOK
<1> HIDE DEF seen
<1>4. \A s \in Stores : \A q \in Processes :
         cache'[s][q] = IF q = p THEN load_from_db(s, seen(s)) ELSE cache[s][q]
  BY <1>1, <1>2 DEF StoreTypeOK
<1>5. StoreTypeOK(keys, values)'
  <2>1. cache' \in [Stores -> [Processes -> SettingsOf(keys, values)]]
    BY <1>1, <1>2, <1>3 DEF StoreTypeOK
  <2>2. behind' \in [Stores -> SUBSET Processes]
    BY <1>1, <1>2 DEF StoreTypeOK
  <2>3. task' \in [Tasks -> WriteOf(keys, values) \cup {Free}]
    BY <1>1, <1>2 DEF StoreTypeOK
  <2>4. spoilt' \subseteq Stores
    BY <1>1, <1>2 DEF StoreTypeOK, WriteOf
  <2> QED BY <2>1, <2>2, <2>3, <2>4, <1>1, <1>2 DEF StoreTypeOK
<1>6. \A t \in Tasks : task'[t] = IF t \in lost THEN Free ELSE task[t]
  BY <1>2
<1>7. OpsFit(keys, values)'
  BY <1>6 DEF StoreInv, OpsFit
<1>8. BuiltinKept'
  <2>1. BuiltinKept /\ "rules" \in Stores
    BY DEF StoreInv, Stores
  <2>2. DOMAIN Builtin \subseteq DOMAIN load_from_db("rules", seen("rules"))
    <3>1. seen("rules") \in {NoRow, Empty} \/ (DOMAIN Builtin \subseteq DOMAIN seen("rules") /\ seen("rules") # NoRow)
      BY <2>1 DEF seen, BuiltinKept
    <3> QED BY <2>1, <3>1, <1>3, Loads
  <2>3. \A q \in Processes : DOMAIN Builtin \subseteq DOMAIN cache'["rules"][q]
    BY <2>1, <2>2, <1>4 DEF BuiltinKept
  <2>4. \A t \in Tasks :
          task'[t] # Free /\ task'[t].store = "rules" /\ task'[t].op = "save" /\ task'[t].at # "queued" =>
             DOMAIN Builtin \subseteq DOMAIN task'[t].arg
    BY <2>1, <1>6 DEF BuiltinKept
  <2> QED BY <2>1, <2>3, <2>4, <1>2 DEF BuiltinKept
<1>9. ASSUME NEW s \in Stores \ spoilt' PROVE Agrees(s)'
  <2>1. s \notin spoilt /\ Agrees(s) /\ \A t \in lost : task[t].store # s
    BY <1>2 DEF StoreInv
  <2>2. Pending(s)' = Pending(s) /\ \A t \in Pending(s) : t \in Tasks /\ task'[t] = task[t] /\ task[t].proc # p
    BY <2>1, <1>6 DEF Pending
  <2>3. admin_config'[s] = admin_config[s] /\ \A q \in Processes \ {p} : (q \in behind'[s] <=> q \in behind[s]) /\ cache'[s][q] = cache[s][q]
    BY <1>2, <1>4
  <2>4. \A t \in Pending(s) : task[t].proc \in Processes \ {p}
    BY <2>2, <1>1 DEF StoreTypeOK, WriteOf, Pending
  <2>5. p \in behind'[s] \/ cache'[s][p] = load_from_db(s, admin_config'[s])
    BY <1>2, <1>4 DEF seen
  <2>6. \A q \in Processes : \/ q \in behind'[s] \/ \E t \in Pending(s)' : task'[t].proc = q
                             \/ cache'[s][q] = load_from_db(s, admin_config'[s])
    BY <2>1, <2>2, <2>3, <2>5 DEF Agrees
  <2>7. \A t \in Pending(s)' :
          /\ task'[t].at = "read" => task'[t].read = admin_config'[s]
          /\ task'[t].op = "save" /\ task'[t].at # "queued" => task'[t].arg = cache'[s][task'[t].proc]
          /\ task'[t].proc \notin behind'[s] =>
                cache'[s][task'[t].proc] = load_from_db(s, leaves(task'[t], cache'[s][task'[t].proc], admin_config'[s]))
    BY <2>1, <2>2, <2>3, <2>4 DEF Agrees
  <2> QED BY <2>1, <2>2, <2>6, <2>7 DEF Agrees
<1> QED BY <1>5, <1>7, <1>8, <1>9 DEF StoreInv

\* Every step of the stores keeps what makes their property inductive.
LEMMA StoresKept ==
    ASSUME NEW keys, NEW values, Within(keys, values), StoreInv(keys, values), StoreNext(keys, values)
    PROVE  StoreInv(keys, values)'
<1>1. CASE StoreChange(keys, values)
  BY <1>1, ChangesKept
<1>2. ASSUME NEW t \in Tasks, Start(t) \/ Read(t) PROVE StoreInv(keys, values)'
  BY <1>2, TaskMoves
<1>3. ASSUME NEW t \in Tasks, Write(t) \/ WriteFails(t) PROVE StoreInv(keys, values)'
  BY <1>3, WritesKept
<1>4. ASSUME NEW p \in Processes, NEW unread \in SUBSET Stores, Restart(p, unread) PROVE StoreInv(keys, values)'
  BY <1>4, RestartKept
<1> QED BY <1>1, <1>2, <1>3, <1>4 DEF StoreNext, TaskStep

\* A step that leaves the stores alone.
LEMMA StoresStay ==
    ASSUME NEW keys, NEW values, StoreInv(keys, values), UNCHANGED storeVars
    PROVE  StoreInv(keys, values)'
<1>1. UNCHANGED <<cache, admin_config, task, behind, spoilt>>
  BY DEF storeVars
<1>2. StoreTypeOK(keys, values)' /\ OpsFit(keys, values)' /\ BuiltinKept'
  BY <1>1 DEF StoreInv, StoreTypeOK, OpsFit, BuiltinKept
<1>3. ASSUME NEW s \in Stores \ spoilt' PROVE Agrees(s)'
  BY <1>1 DEF StoreInv, Agrees, Pending
<1> QED BY <1>2, <1>3 DEF StoreInv

\* At first every copy is what a missing row gives.
LEMMA StoresStart ==
    ASSUME NEW keys, NEW values, Within(keys, values), StoreInit
    PROVE  StoreInv(keys, values)
<1> USE DEF StoreInit
<1>1. \A s \in Stores : load_from_db(s, NoRow) \in SettingsOf(keys, values)
  BY Loads
<1>2. StoreTypeOK(keys, values)
  BY <1>1 DEF StoreTypeOK
<1>3. OpsFit(keys, values)
  BY DEF OpsFit
<1>4. BuiltinKept
  <2>1. load_from_db("rules", NoRow) = Builtin
    BY Loads DEF Stores
  <2> QED BY <2>1 DEF BuiltinKept, Stores
<1>5. ASSUME NEW s \in Stores PROVE Agrees(s)
  <2>1. Pending(s) = {}
    BY DEF Pending
  <2> QED BY <2>1 DEF Agrees
<1> QED BY <1>2, <1>3, <1>4, <1>5 DEF StoreInv

\* For any processes, tasks, keys and values, and every order of changes, writes,
\* failures and restarts: a copy that differs from what a restart would load has
\* one of the four causes (what prompt_override_store.py promises in the other cases).
THEOREM DivergencesHaveCause ==
    ASSUME NEW keys, NEW values, Within(keys, values)
    PROVE  StoreSpec(keys, values) => []DivergenceHasCause
<1>1. StoreInit => StoreInv(keys, values)
  BY StoresStart
<1>2. StoreInv(keys, values) /\ [StoreNext(keys, values)]_storeVars => StoreInv(keys, values)'
  BY StoresKept, StoresStay
<1>3. StoreInv(keys, values) => DivergenceHasCause
  <2> SUFFICES ASSUME StoreInv(keys, values), NEW s \in Stores, NEW p \in Processes,
                      Pending(s) = {}, s \notin spoilt, p \notin behind[s]
               PROVE  cache[s][p] = load_from_db(s, admin_config[s])
    BY DEF DivergenceHasCause
  <2> QED BY DEF StoreInv, Agrees
<1> QED BY <1>1, <1>2, <1>3, PTL DEF StoreSpec

-----------------------------------------------------------------------------
(* The KYC activity. *)

\* There are three tools.
LEMMA ThreeTools ==
    /\ DOMAIN Tools = 1..3 /\ Len(Tools) = 3
    /\ \A i \in 1..3 : Tools[i] \in ToolSet
<1>1. DOMAIN Tools = 1..3 /\ Len(Tools) = 3
  BY DEF Tools
<1> QED BY <1>1 DEF ToolSet

\* At first no tool has been asked for.
LEMMA KycStarts ==
    ASSUME NEW clients, KycInit(clients)
    PROVE  GrantInv
<1> USE DEF KycInit
<1>1. (CHOOSE p \in Processes : TRUE) \in Processes
  BY StoreAssumption
<1>2. check \in Check
  BY <1>1 DEF Check, Unstarted
<1>3. "check_sanctions" \in ToolSet
  BY ThreeTools DEF Tools
<1>4. NoAsk \in Ask /\ NoAsk.at = "idle"
  BY <1>1, <1>3 DEF NoAsk, Ask
<1>5. KycTypeOK
  BY <1>2, <1>4 DEF KycTypeOK, Nobody, Unasked, Zero
<1>6. \A p \in Processes : \A t \in ToolSet : Bounded(p, t)
  BY <1>4 DEF Bounded, Looking, Idle, Nobody, Unasked, Zero
<1> QED BY <1>5, <1>6 DEF GrantInv, Unstarted

\* The places of the activity.
Places == {"idle", "tool", "asking", "invoke", "score", "done", "fatal", "timed_out",
           "refused", "raised", "unformatted"}

\* The record of the activity at another place.
LEMMA CheckGoes ==
    ASSUME NEW c \in Check, NEW at \in Places
    PROVE  /\ [c EXCEPT !.at = at] \in Check
           /\ [c EXCEPT !.at = at].at = at /\ [c EXCEPT !.at = at].step = c.step
           /\ [c EXCEPT !.at = at].proc = c.proc /\ [c EXCEPT !.at = at].status = c.status
BY DEF Check, Places, Failed

\* The same at another tool.
LEMMA CheckProceeds ==
    ASSUME NEW c \in Check, NEW at \in Places, NEW step \in Nat
    PROVE  /\ [c EXCEPT !.step = step, !.at = at] \in Check
           /\ [c EXCEPT !.step = step, !.at = at].at = at /\ [c EXCEPT !.step = step, !.at = at].step = step
BY DEF Check, Places, Failed

\* Steps that ask no grant and leave the answers leave what is known of them.
LEMMA BoundsStay ==
    ASSUME GrantInv, UNCHANGED askVars, check' \in Check,
           check'.at \in {"tool", "asking", "invoke"} => check'.step \in 1..3
    PROVE  GrantInv'
<1>1. UNCHANGED <<grant_cache, asks, let_through, under_way>>
  BY DEF askVars
<1>2. KycTypeOK'
  BY <1>1 DEF GrantInv, KycTypeOK
<1>3. \A p \in Processes : \A t \in ToolSet : Bounded(p, t)'
  BY <1>1 DEF GrantInv, Bounded, Looking, Idle
<1> QED BY <1>2, <1>3 DEF GrantInv

\* An attempt begins with the first tool, in any process.
LEMMA AttemptKept ==
    ASSUME GrantInv, NEW p \in Processes, BeginAttempt(p)
    PROVE  GrantInv'
<1> USE DEF BeginAttempt
<1>1. check \in Check /\ check.attempt + 1 \in Nat
  BY DEF GrantInv, KycTypeOK, Check
<1>2. check' \in Check /\ check'.at = "tool" /\ check'.step = 1
  <2>1. PICK n \in Nat : n = check.attempt + 1
    BY <1>1
  <2>2. check' = [check EXCEPT !.attempt = n, !.proc = p, !.step = 1, !.at = "tool"]
    BY <2>1
  <2>3. PICK c \in Check : c = check
    BY <1>1
  <2> DEFINE d == [c EXCEPT !.attempt = n, !.proc = p, !.step = 1, !.at = "tool"]
  <2>4. d \in Check /\ d.at = "tool" /\ d.step = 1
    BY DEF Check
  <2>5. check' = d
    BY <2>2, <2>3
  <2> HIDE DEF d
  <2> QED BY <2>4, <2>5
<1> QED BY <1>2, BoundsStay

\* The look-ups of a tool that are under way are finitely many.
LEMMA FewLook ==
    ASSUME NEW p, NEW t
    PROVE  IsFiniteSet(Looking(p, t)) /\ Cardinality(Looking(p, t)) \in Nat
<1>1. IsFiniteSet(Askers)
  BY KycAssumption, FS_AddElement DEF Askers
<1> QED BY <1>1, FS_Subset, FS_CardinalityType DEF Looking

\* What the activity learns of a look-up leaves it at the same tool.
LEMMA Learned ==
    ASSUME GrantInv, NEW a, NEW answer \in {"invoke", "refused", "asking"}, Learns(a, answer),
           a = ThisCase /\ Idle(a) => check.at = "tool"
    PROVE  /\ check' \in Check /\ check'.status = check.status
           /\ check'.at \in {"tool", "asking", "invoke"} => check'.step \in 1..3
<1>1. check \in Check /\ answer \in Places
  BY DEF GrantInv, KycTypeOK, Places
<1>2. CASE check' = check
  BY <1>1, <1>2 DEF GrantInv
<1>3. CASE check' = [check EXCEPT !.at = answer] /\ check.at \in {"tool", "asking"}
  <2>1. check.step \in 1..3
    BY <1>3 DEF GrantInv
  <2> QED BY <1>1, <1>3, <2>1, CheckGoes
<1> QED BY <1>2, <1>3 DEF Learns

\* A look-up that goes on or ends is another's of no tool, and no one else's.
LEMMA LookUpMoves ==
    ASSUME KycTypeOK, NEW a \in Askers, NEW r \in Ask, asks' = [asks EXCEPT ![a] = r],
           r.at = "idle" \/ (~Idle(a) /\ r.proc = asks[a].proc /\ r.tool = asks[a].tool)
    PROVE  /\ asks' \in [Askers -> Ask]
           /\ \A b \in Askers : asks'[b] = IF b = a THEN r ELSE asks[b]
           /\ \A p \in Processes : \A t \in ToolSet :
                 /\ Looking(p, t)' \subseteq Looking(p, t)
                 /\ r.at = "idle" => Looking(p, t)' \subseteq Looking(p, t) \ {a}
<1>1. asks \in [Askers -> Ask]
  BY DEF KycTypeOK
<1>2. asks' \in [Askers -> Ask] /\ \A b \in Askers : asks'[b] = IF b = a THEN r ELSE asks[b]
  BY <1>1
<1> QED BY <1>2 DEF Looking, Idle

\* No longer look-ups, no looser bound.
LEMMA StillBounded ==
    ASSUME KycTypeOK, NEW p \in Processes, NEW t \in ToolSet, Bounded(p, t),
           grant_cache'[p][t] = "unasked" <=> grant_cache[p][t] = "unasked",
           let_through'[p][t] = let_through[p][t], under_way'[p][t] = under_way[p][t],
           Looking(p, t)' \subseteq Looking(p, t),
           grant_cache[p][t] = "unasked" => \A b \in Looking(p, t)' : asks'[b].at # "domain"
    PROVE  Bounded(p, t)'
<1>1. Cardinality(Looking(p, t)') <= Cardinality(Looking(p, t)) /\ Cardinality(Looking(p, t)') \in Nat
  BY FewLook, FS_Subset, FS_CardinalityType
<1>2. let_through[p][t] \in Nat /\ under_way[p][t] \in Nat /\ Cardinality(Looking(p, t)) \in Nat
  BY FewLook DEF KycTypeOK
<1>3. CASE grant_cache[p][t] = "unasked"
  BY <1>3 DEF Bounded
<1>4. CASE grant_cache[p][t] # "unasked"
  <2>1. let_through[p][t] + Cardinality(Looking(p, t)) <= under_way[p][t]
    BY <1>4 DEF Bounded
  <2>2. let_through'[p][t] + Cardinality(Looking(p, t)') <= under_way'[p][t]
    BY <1>1, <1>2, <2>1
  <2> QED BY <1>4, <2>2 DEF Bounded
<1> QED BY <1>3, <1>4

\* A look-up that ends, or goes on with the row, lets nothing through and caches
\* nothing.
LEMMA LookUpKept ==
    ASSUME GrantInv, NEW a \in Askers, NEW r \in Ask, asks' = [asks EXCEPT ![a] = r],
           r.at = "idle" \/ (~Idle(a) /\ r.proc = asks[a].proc /\ r.tool = asks[a].tool /\ r.at # "domain"),
           UNCHANGED <<grant_cache, let_through, under_way>>,
           check' \in Check, check'.at \in {"tool", "asking", "invoke"} => check'.step \in 1..3
    PROVE  GrantInv'
<1>1. KycTypeOK /\ \A p \in Processes : \A t \in ToolSet : Bounded(p, t)
  BY DEF GrantInv
<1>2. /\ asks' \in [Askers -> Ask]
      /\ \A b \in Askers : asks'[b] = IF b = a THEN r ELSE asks[b]
      /\ \A p \in Processes : \A t \in ToolSet : Looking(p, t)' \subseteq Looking(p, t)
  BY <1>1, LookUpMoves
<1>3. KycTypeOK'
  BY <1>1, <1>2 DEF KycTypeOK
<1>4. ASSUME NEW p \in Processes, NEW t \in ToolSet PROVE Bounded(p, t)'
  <2>1. ASSUME grant_cache[p][t] = "unasked", NEW b \in Looking(p, t)' PROVE asks'[b].at # "domain"
    <3>1. b \in Looking(p, t) /\ b \in Askers
      BY <1>2 DEF Looking
    <3>2. asks[b].at # "domain"
      BY <1>1, <2>1, <3>1 DEF Bounded
    <3> QED BY <1>2, <3>1, <3>2
  <2> QED BY <1>1, <1>2, <2>1, StillBounded
<1> QED BY <1>3, <1>4 DEF GrantInv

\* The answer NoAsk is one.
LEMMA NoAskIsOne == NoAsk \in Ask /\ NoAsk.at = "idle"
<1>1. (CHOOSE p \in Processes : TRUE) \in Processes /\ "check_sanctions" \in ToolSet
  BY StoreAssumption, ThreeTools DEF Tools
<1> QED BY <1>1 DEF NoAsk, Ask

\* An answer from the cache ends the call; a look-up begins only while there is none.
LEMMA GrantAsked ==
    ASSUME GrantInv, NEW a \in Askers, NEW p \in Processes, NEW t \in ToolSet,
           CheckToolGrant(a, p, t), a = ThisCase => check.at = "tool"
    PROVE  GrantInv' /\ check'.status = check.status
<1> USE DEF CheckToolGrant
<1>1. KycTypeOK /\ \A q \in Processes : \A u \in ToolSet : Bounded(q, u)
  BY DEF GrantInv
<1>2. CASE Concludes(a, "invoke") \/ Concludes(a, "refused")
  BY <1>2, NoAskIsOne, Learned, LookUpKept DEF Concludes
<1>3. ASSUME grant_cache[p][t] = "unasked", Learns(a, "asking"),
             asks' = [asks EXCEPT ![a] = [at |-> "query", proc |-> p, tool |-> t]]
      PROVE  GrantInv' /\ check'.status = check.status
  <2>1. /\ check' \in Check /\ check'.status = check.status
        /\ check'.at \in {"tool", "asking", "invoke"} => check'.step \in 1..3
    BY <1>3, Learned
  <2>2. [at |-> "query", proc |-> p, tool |-> t] \in Ask
    BY DEF Ask
  <2>3. /\ asks' \in [Askers -> Ask]
        /\ \A b \in Askers : b # a => asks'[b] = asks[b]
        /\ asks'[a].at = "query" /\ asks'[a].proc = p /\ asks'[a].tool = t
    BY <1>1, <1>3, <2>2 DEF KycTypeOK
  <2>4. KycTypeOK'
    BY <1>1, <2>1, <2>3 DEF KycTypeOK
  <2>5. ASSUME NEW q \in Processes, NEW u \in ToolSet, q # p \/ u # t PROVE Bounded(q, u)'
    <3>1. \A b \in Looking(q, u)' : b # a /\ b \in Looking(q, u) /\ asks'[b] = asks[b]
      BY <2>3, <2>5 DEF Looking, Idle
    <3>2. grant_cache[q][u] = "unasked" => \A b \in Looking(q, u)' : asks'[b].at # "domain"
      BY <1>1, <3>1 DEF Bounded
    <3> QED BY <1>1, <3>1, <3>2, StillBounded
  <2>6. Bounded(p, t)'
    <3>1. \A b \in Looking(p, t)' : b = a \/ (b \in Looking(p, t) /\ asks'[b] = asks[b])
      BY <2>3 DEF Looking, Idle
    <3>2. \A b \in Looking(p, t)' : asks'[b].at # "domain"
      BY <1>1, <1>3, <2>3, <3>1 DEF Bounded
    <3> QED BY <1>1, <1>3, <3>2 DEF Bounded
  <2> QED BY <2>1, <2>4, <2>5, <2>6 DEF GrantInv
<1> QED BY <1>2, <1>3

\* The row is read.
LEMMA GrantRead ==
    ASSUME GrantInv, NEW a \in Askers, ReadGrant(a)
    PROVE  GrantInv' /\ check' = check
<1> USE DEF ReadGrant
<1>1. asks[a] \in Ask /\ check' = check /\ ~Idle(a)
  BY DEF GrantInv, KycTypeOK, Idle
<1>2. PICK v \in {"yes", "no"} : asks' = [asks EXCEPT ![a].at = v]
  OBVIOUS
<1>3. PICK r \in Ask : r = [asks[a] EXCEPT !.at = v]
  BY <1>1 DEF Ask
<1>4. asks' = [asks EXCEPT ![a] = r] /\ r.at = v /\ r.proc = asks[a].proc /\ r.tool = asks[a].tool
  BY <1>1, <1>2, <1>3 DEF Ask
<1>5. check \in Check /\ (check.at \in {"tool", "asking", "invoke"} => check.step \in 1..3)
  BY DEF GrantInv, KycTypeOK
<1>6. r.at # "domain" /\ UNCHANGED <<grant_cache, let_through, under_way>>
  BY <1>4
<1> HIDE DEF ReadGrant
<1> QED BY <1>1, <1>4, <1>5, <1>6, LookUpKept

\* One entry of the caches, and of the counts, is set.
LEMMA CacheSet ==
    ASSUME grant_cache \in [Processes -> [ToolSet -> {"unasked", "yes", "no"}]],
           NEW p \in Processes, NEW t \in ToolSet, NEW v \in {"yes", "no"},
           grant_cache' = [grant_cache EXCEPT ![p][t] = v]
    PROVE  /\ grant_cache' \in [Processes -> [ToolSet -> {"unasked", "yes", "no"}]]
           /\ \A q \in Processes : \A u \in ToolSet :
                 (q # p \/ u # t) => grant_cache'[q][u] = grant_cache[q][u]
           /\ grant_cache'[p][t] = v
OBVIOUS

LEMMA CountSet ==
    ASSUME under_way \in [Processes -> [ToolSet -> Nat]],
           NEW p \in Processes, NEW t \in ToolSet, NEW n \in Nat, under_way' = [under_way EXCEPT ![p][t] = n]
    PROVE  /\ under_way' \in [Processes -> [ToolSet -> Nat]]
           /\ \A q \in Processes : \A u \in ToolSet : (q # p \/ u # t) => under_way'[q][u] = under_way[q][u]
           /\ under_way'[p][t] = n
OBVIOUS

\* The first answer that is cached counts the look-ups under way; a later one
\* takes its place and counts nothing.
LEMMA AnswerIsCached ==
    ASSUME GrantInv, NEW a \in Askers, CacheAnswer(a)
    PROVE  GrantInv' /\ check'.status = check.status
<1> USE DEF CacheAnswer
<1>1. KycTypeOK /\ (\A q \in Processes : \A u \in ToolSet : Bounded(q, u)) /\ asks[a] \in Ask /\ ~Idle(a)
  BY DEF GrantInv, KycTypeOK, Idle
<1>2. PICK p \in Processes : p = asks[a].proc
  BY <1>1 DEF Ask
<1>3. PICK t \in ToolSet : t = asks[a].tool
  BY <1>1 DEF Ask
<1>4. /\ grant_cache' = [grant_cache EXCEPT ![p][t] = asks[a].at]
      /\ under_way' = IF grant_cache[p][t] = "unasked"
                      THEN [under_way EXCEPT ![p][t] = Cardinality(Looking(p, t))] ELSE under_way
      /\ let_through' = let_through /\ asks[a].at \in {"yes", "no"}
  BY <1>2, <1>3
<1>5. /\ check' \in Check /\ check'.status = check.status
      /\ check'.at \in {"tool", "asking", "invoke"} => check'.step \in 1..3
  <2>1. CASE Learns(a, "invoke")
    BY <1>1, <2>1, Learned
  <2>2. CASE UNCHANGED check
    BY <2>2 DEF GrantInv, KycTypeOK
  <2> QED BY <2>1, <2>2 DEF Granted, Concludes
<1>6. PICK r \in Ask : /\ asks' = [asks EXCEPT ![a] = r]
                       /\ r.at = "idle" \/ (r.proc = asks[a].proc /\ r.tool = asks[a].tool)
  <2>1. CASE asks' = [asks EXCEPT ![a] = NoAsk]
    BY <2>1, NoAskIsOne
  <2>2. CASE asks' = [asks EXCEPT ![a].at = "domain"]
    <3>1. PICK r \in Ask : r = [asks[a] EXCEPT !.at = "domain"]
      BY <1>1 DEF Ask
    <3>2. r.proc = asks[a].proc /\ r.tool = asks[a].tool
      BY <1>1, <3>1 DEF Ask
    <3>3. asks' = [asks EXCEPT ![a] = r]
      BY <2>2, <3>1
    <3> QED BY <3>2, <3>3
  <2> QED BY <2>1, <2>2 DEF Granted, Concludes
<1>7. /\ asks' \in [Askers -> Ask]
      /\ \A b \in Askers : asks'[b] = IF b = a THEN r ELSE asks[b]
      /\ \A q \in Processes : \A u \in ToolSet : Looking(q, u)' \subseteq Looking(q, u)
  BY <1>1, <1>6, LookUpMoves
<1>8. Cardinality(Looking(p, t)) \in Nat
  BY FewLook
<1>9. /\ grant_cache' \in [Processes -> [ToolSet -> {"unasked", "yes", "no"}]]
      /\ \A q \in Processes : \A u \in ToolSet :
            (q # p \/ u # t) => grant_cache'[q][u] = grant_cache[q][u]
      /\ grant_cache'[p][t] # "unasked"
  <2> HIDE DEF CacheAnswer
  <2>1. grant_cache \in [Processes -> [ToolSet -> {"unasked", "yes", "no"}]]
    BY <1>1 DEF KycTypeOK
  <2>2. ASSUME NEW v \in {"yes", "no"}, grant_cache' = [grant_cache EXCEPT ![p][t] = v]
        PROVE  /\ grant_cache' \in [Processes -> [ToolSet -> {"unasked", "yes", "no"}]]
               /\ \A q \in Processes : \A u \in ToolSet :
                     (q # p \/ u # t) => grant_cache'[q][u] = grant_cache[q][u]
               /\ grant_cache'[p][t] = v
    BY ONLY <2>1, <2>2, CacheSet
  <2> QED BY <1>4, <2>2
<1>10. /\ under_way' \in [Processes -> [ToolSet -> Nat]]
       /\ \A q \in Processes : \A u \in ToolSet : (q # p \/ u # t) => under_way'[q][u] = under_way[q][u]
       /\ under_way'[p][t] = IF grant_cache[p][t] = "unasked" THEN Cardinality(Looking(p, t))
                                                              ELSE under_way[p][t]
  <2>1. PICK n \in Nat : n = Cardinality(Looking(p, t))
    BY <1>8
  <2>2. under_way \in [Processes -> [ToolSet -> Nat]]
    BY <1>1 DEF KycTypeOK
  <2> HIDE DEF CacheAnswer
  <2>3. ASSUME NEW m \in Nat, under_way' = [under_way EXCEPT ![p][t] = m]
        PROVE  /\ under_way' \in [Processes -> [ToolSet -> Nat]]
               /\ \A q \in Processes : \A u \in ToolSet : (q # p \/ u # t) => under_way'[q][u] = under_way[q][u]
               /\ under_way'[p][t] = m
    BY ONLY <2>2, <2>3, CountSet
  <2>4. CASE under_way' = under_way /\ grant_cache[p][t] # "unasked"
    BY <2>2, <2>4
  <2> QED BY <1>4, <2>1, <2>3, <2>4
<1>11. KycTypeOK'
  BY <1>1, <1>4, <1>5, <1>7, <1>9, <1>10 DEF KycTypeOK
<1>12. ASSUME NEW q \in Processes, NEW u \in ToolSet, q # p \/ u # t PROVE Bounded(q, u)'
  <2>1. ASSUME NEW b \in Looking(q, u)' PROVE b \in Looking(q, u) /\ asks'[b] = asks[b]
    <3>1. b \in Looking(q, u) /\ b \in Askers
      BY <1>7, <2>1 DEF Looking
    <3>2. b # a
      BY <1>2, <1>3, <1>12, <3>1 DEF Looking
    <3> QED BY <1>7, <3>1, <3>2
  <2>2. grant_cache[q][u] = "unasked" => \A b \in Looking(q, u)' : asks'[b].at # "domain"
    BY <1>1, <2>1 DEF Bounded
  <2>3. KycTypeOK /\ Bounded(q, u) /\ Looking(q, u)' \subseteq Looking(q, u)
    BY <1>1, <2>1
  <2>4. grant_cache'[q][u] = grant_cache[q][u]
    BY <1>9, <1>12
  <2>5. let_through'[q][u] = let_through[q][u] /\ under_way'[q][u] = under_way[q][u]
    BY <1>4, <1>7, <1>10, <1>12
  <2> QED BY <2>2, <2>3, <2>4, <2>5, StillBounded
<1>13. Bounded(p, t)'
  <2>1. CASE grant_cache[p][t] # "unasked"
    BY <1>1, <1>4, <1>7, <1>9, <1>10, <2>1, StillBounded
  <2>2. CASE grant_cache[p][t] = "unasked"
    <3>1. let_through'[p][t] = 0 /\ under_way'[p][t] = Cardinality(Looking(p, t))
      BY <1>1, <1>4, <1>10, <2>2 DEF Bounded
    <3>2. Cardinality(Looking(p, t)') <= Cardinality(Looking(p, t)) /\ Cardinality(Looking(p, t)') \in Nat
      BY <1>7, FewLook, FS_Subset, FS_CardinalityType
    <3>3. let_through'[p][t] + Cardinality(Looking(p, t)') <= under_way'[p][t]
      BY <1>8, <3>1, <3>2
    <3> QED BY <1>9, <3>3 DEF Bounded
  <2> QED BY <2>1, <2>2
<1> QED BY <1>5, <1>11, <1>12, <1>13 DEF GrantInv

\* Who is let through is no longer under way.
LEMMA LetThroughKept ==
    ASSUME GrantInv, NEW a \in Askers, asks[a].at = "domain", LetThrough(a),
           UNCHANGED <<grant_cache, under_way>>
    PROVE  GrantInv' /\ check'.status = check.status
<1> USE DEF LetThrough
<1>1. KycTypeOK /\ (\A q \in Processes : \A u \in ToolSet : Bounded(q, u)) /\ asks[a] \in Ask /\ ~Idle(a)
  BY DEF GrantInv, KycTypeOK, Idle
<1>2. PICK p \in Processes : p = asks[a].proc
  BY <1>1 DEF Ask
<1>3. PICK t \in ToolSet : t = asks[a].tool
  BY <1>1 DEF Ask
<1>4. /\ check' \in Check /\ check'.status = check.status
      /\ check'.at \in {"tool", "asking", "invoke"} => check'.step \in 1..3
  BY <1>1, Learned DEF Concludes
<1>5. /\ asks' \in [Askers -> Ask]
      /\ \A b \in Askers : asks'[b] = IF b = a THEN NoAsk ELSE asks[b]
      /\ \A q \in Processes : \A u \in ToolSet : Looking(q, u)' \subseteq Looking(q, u) \ {a}
  BY <1>1, NoAskIsOne, LookUpMoves DEF Concludes
<1>6. let_through' = [let_through EXCEPT ![p][t] = @ + 1]
  BY <1>2, <1>3
<1>7. /\ let_through' \in [Processes -> [ToolSet -> Nat]]
      /\ \A q \in Processes : \A u \in ToolSet : (q # p \/ u # t) => let_through'[q][u] = let_through[q][u]
      /\ let_through'[p][t] = let_through[p][t] + 1
  BY <1>1, <1>6 DEF KycTypeOK
<1>8. KycTypeOK'
  BY <1>1, <1>4, <1>5, <1>7 DEF KycTypeOK
<1>9. ASSUME NEW q \in Processes, NEW u \in ToolSet, q # p \/ u # t PROVE Bounded(q, u)'
  <2>1. \A b \in Looking(q, u)' : b \in Looking(q, u) /\ asks'[b] = asks[b]
    BY <1>5 DEF Looking
  <2>2. grant_cache[q][u] = "unasked" => \A b \in Looking(q, u)' : asks'[b].at # "domain"
    BY <1>1, <2>1 DEF Bounded
  <2>3. /\ KycTypeOK /\ Bounded(q, u) /\ Looking(q, u)' \subseteq Looking(q, u)
        /\ grant_cache'[q][u] = "unasked" <=> grant_cache[q][u] = "unasked"
        /\ let_through'[q][u] = let_through[q][u] /\ under_way'[q][u] = under_way[q][u]
    BY <1>1, <1>5, <1>7, <1>9, <2>1
  <2> QED BY <2>2, <2>3, StillBounded
<1>10. Bounded(p, t)'
  <2>1. a \in Looking(p, t)
    BY <1>1, <1>2, <1>3 DEF Looking
  <2>2. grant_cache[p][t] # "unasked"
    BY <1>1, <2>1 DEF Bounded
  <2>3. let_through[p][t] + Cardinality(Looking(p, t)) <= under_way[p][t]
    BY <1>1, <2>2 DEF Bounded
  <2>4. /\ IsFiniteSet(Looking(p, t) \ {a})
        /\ Cardinality(Looking(p, t) \ {a}) = Cardinality(Looking(p, t)) - 1
    BY <2>1, FewLook, FS_RemoveElement
  <2>5. /\ Cardinality(Looking(p, t)') <= Cardinality(Looking(p, t) \ {a})
        /\ Cardinality(Looking(p, t)') \in Nat
    BY <1>5, <2>4, FS_Subset, FS_CardinalityType
  <2>6. let_through[p][t] \in Nat /\ under_way[p][t] \in Nat /\ Cardinality(Looking(p, t)) \in Nat
    BY <1>1, FewLook DEF KycTypeOK
  <2>7. let_through'[p][t] + Cardinality(Looking(p, t)') <= under_way'[p][t]
    BY <1>7, <2>3, <2>4, <2>5, <2>6
  <2> QED BY <2>2, <2>7 DEF Bounded
<1> QED BY <1>4, <1>8, <1>9, <1>10 DEF GrantInv

\* Every step of a look-up.
LEMMA LooksUp ==
    ASSUME GrantInv, NEW a \in Askers, LookUp(a)
    PROVE  GrantInv' /\ check'.status = check.status
<1>1. CASE ReadGrant(a)
  BY <1>1, GrantRead
<1>2. CASE CacheAnswer(a)
  BY <1>2, AnswerIsCached
<1>3. ASSUME asks[a].at = "domain", LetThrough(a), UNCHANGED <<grant_cache, under_way>>
      PROVE  GrantInv' /\ check'.status = check.status
  BY <1>3, LetThroughKept
<1>4. ASSUME ~Idle(a), Concludes(a, "refused") \/ Concludes(a, "invoke"),
             UNCHANGED <<grant_cache, let_through, under_way>>
      PROVE  GrantInv' /\ check'.status = check.status
  BY <1>4, NoAskIsOne, Learned, LookUpKept DEF Concludes
<1>5. CASE DomainExists(a)
  BY <1>3, <1>4, <1>5 DEF DomainExists, Idle
<1>6. CASE QueryFails(a)
  BY <1>3, <1>4, <1>6 DEF QueryFails
<1> QED BY <1>1, <1>2, <1>5, <1>6 DEF LookUp

\* The calls of this case's activity, and of the others'.
LEMMA GrantsAreAsked ==
    ASSUME GrantInv, AskGrant \/ OthersAsk
    PROVE  GrantInv' /\ check'.status = check.status
<1>1. CASE AskGrant
  <2>1. check.at = "tool" /\ check.proc \in Processes /\ check.step \in 1..3
    BY <1>1 DEF AskGrant, GrantInv, KycTypeOK, Check
  <2>2. Tool \in ToolSet /\ ThisCase \in Askers
    BY <2>1, ThreeTools DEF Tool, Askers
  <2> QED BY <1>1, <2>1, <2>2, GrantAsked DEF AskGrant
<1>2. CASE OthersAsk
  <2>1. \A a \in Others : a \in Askers /\ a # ThisCase
    BY KycAssumption DEF Askers
  <2> QED BY <1>2, <2>1, GrantAsked DEF OthersAsk
<1> QED BY <1>1, <1>2

\* The rest of an attempt asks no grant.
LEMMA AttemptGoesOn ==
    ASSUME GrantInv, InvokeTool \/ Evaluate \/ GiveUp
    PROVE  GrantInv'
<1>1. check \in Check /\ UNCHANGED askVars
  BY DEF GrantInv, KycTypeOK, InvokeTool, Evaluate, GiveUp
<1>2. check' \in Check /\ (check'.at \in {"tool", "asking", "invoke"} => check'.step \in 1..3 /\ check'.at = "tool")
  <2>1. CASE InvokeTool
    <3>1. check.step \in 1..3
      BY <2>1 DEF GrantInv, InvokeTool
    <3>2. \/ check' = [check EXCEPT !.at = "raised"]
          \/ check.step = 3 /\ check' = [check EXCEPT !.step = @ + 1, !.at = "score"]
          \/ check.step # 3 /\ check' = [check EXCEPT !.step = @ + 1, !.at = "tool"]
      BY <2>1, ThreeTools DEF InvokeTool, Goto
    <3>3. PICK n \in Nat : n = check.step + 1
      BY <3>1
    <3>4. \/ check' = [check EXCEPT !.at = "raised"]
          \/ check' = [check EXCEPT !.step = n, !.at = "score"]
          \/ n \in 1..3 /\ check' = [check EXCEPT !.step = n, !.at = "tool"]
      BY <3>1, <3>2, <3>3
    <3>5. CASE check' = [check EXCEPT !.at = "raised"]
      BY <1>1, <3>5, CheckGoes DEF Places
    <3>6. CASE check' = [check EXCEPT !.step = n, !.at = "score"]
      BY <1>1, <3>6, CheckProceeds DEF Places
    <3>7. ASSUME check' = [check EXCEPT !.step = n, !.at = "tool"]
          PROVE  check' \in Check /\ check'.at = "tool" /\ check'.step = n
      <4>1. PICK c \in Check : c = check
        BY <1>1
      <4> DEFINE d == [c EXCEPT !.step = n, !.at = "tool"]
      <4>2. d \in Check /\ d.at = "tool" /\ d.step = n
        BY DEF Check
      <4>3. check' = d
        BY <3>7, <4>1
      <4> HIDE DEF d
      <4> QED BY <4>2, <4>3
    <3> QED BY <3>4, <3>5, <3>6, <3>7
  <2>2. CASE Evaluate
    <3> DEFINE v == build_verification_dict(client)
               rules == cache["rules"][check.proc]
               checked == outcome(client, v, evaluate(rules, client, v))
    <3>1. \/ check' = [check EXCEPT !.at = "unformatted"]
          \/ check' = [check EXCEPT !.at = "done", !.status = checked,
                            !.next_stage = IF checked = "PASSED" THEN "PARALLEL_PRODUCTS" ELSE "ESCALATED",
                            !.evidence = risk_relevant(client, v), !.advice = advice(client, v, Threshold)]
      BY <2>2 DEF Evaluate, Goto
    <3>2. /\ checked \in {"PASSED", "FAILED", "ESCALATED"} /\ advice(client, v, Threshold) \in {"ESCALATE", "APPROVE"}
          /\ risk_relevant(client, v) \subseteq {"identity", "screening", "score", "source_of_funds"}
      BY DEF outcome, advice, risk_relevant
    <3> HIDE DEF v, checked
    <3>4. CASE check' = [check EXCEPT !.at = "unformatted"]
      BY <1>1, <3>4, CheckGoes DEF Places
    <3>5. PICK s \in {"PASSED", "FAILED", "ESCALATED"}, n \in {"PARALLEL_PRODUCTS", "ESCALATED"},
               e \in SUBSET {"identity", "screening", "score", "source_of_funds"}, a \in {"ESCALATE", "APPROVE"} :
               /\ s = checked /\ n = (IF checked = "PASSED" THEN "PARALLEL_PRODUCTS" ELSE "ESCALATED")
               /\ e = risk_relevant(client, v) /\ a = advice(client, v, Threshold)
      BY <3>2
    <3> DEFINE d == [check EXCEPT !.at = "done", !.status = s, !.next_stage = n, !.evidence = e, !.advice = a]
    <3>6. d \in Check /\ d.at = "done"
      BY <1>1 DEF Check
    <3>7. check' = [check EXCEPT !.at = "unformatted"] \/ check' = d
      BY <3>1, <3>5
    <3> HIDE DEF d
    <3> QED BY <3>4, <3>6, <3>7
  <2>3. CASE GiveUp
    <3>1. check' = [check EXCEPT !.at = "fatal"]
      BY <2>3 DEF GiveUp, Goto
    <3> QED BY <1>1, <3>1, CheckGoes DEF Places
  <2> QED BY <2>1, <2>2, <2>3
<1> QED BY <1>1, <1>2, BoundsStay

\* A start forgets what was cached, the look-ups and the attempt.
LEMMA ServerStarts ==
    ASSUME GrantInv, NEW p \in Processes, NEW unread \in SUBSET Stores, RestartServer(p, unread)
    PROVE  GrantInv'
<1> USE DEF RestartServer
<1>1. KycTypeOK /\ (\A q \in Processes : \A t \in ToolSet : Bounded(q, t)) /\ check \in Check
  BY DEF GrantInv, KycTypeOK
<1>2. check' \in Check /\ (check' = check \/ check'.at = "timed_out")
  <2>1. [check EXCEPT !.at = "timed_out"] \in Check /\ [check EXCEPT !.at = "timed_out"].at = "timed_out"
    BY <1>1, CheckGoes DEF Places
  <2> QED BY <1>1, <2>1
<1>3. \A q \in Processes : \A t \in ToolSet :
         /\ grant_cache'[q][t] = IF q = p THEN "unasked" ELSE grant_cache[q][t]
         /\ let_through'[q][t] = IF q = p THEN 0 ELSE let_through[q][t]
         /\ under_way'[q][t] = IF q = p THEN 0 ELSE under_way[q][t]
  BY <1>1 DEF KycTypeOK, Unasked, Zero
<1>4. /\ asks' \in [Askers -> Ask]
      /\ \A a \in Askers : asks'[a] = IF asks[a].proc = p THEN NoAsk ELSE asks[a]
  BY <1>1, NoAskIsOne DEF KycTypeOK
<1>5. KycTypeOK'
  BY <1>1, <1>2, <1>4 DEF KycTypeOK, Unasked, Zero
<1>6. ASSUME NEW t \in ToolSet PROVE Bounded(p, t)'
  <2>1. Looking(p, t)' = {}
    BY <1>4, NoAskIsOne DEF Looking, Idle
  <2> QED BY <1>3, <2>1 DEF Bounded
<1>7. ASSUME NEW q \in Processes, NEW t \in ToolSet, q # p PROVE Bounded(q, t)'
  <2>1. \A a \in Looking(q, t)' : a \in Looking(q, t) /\ asks'[a] = asks[a]
    BY <1>4, NoAskIsOne DEF Looking, Idle
  <2>2. grant_cache[q][t] = "unasked" => \A a \in Looking(q, t)' : asks'[a].at # "domain"
    BY <1>1, <2>1 DEF Bounded
  <2>3. /\ grant_cache'[q][t] = grant_cache[q][t] /\ let_through'[q][t] = let_through[q][t]
        /\ under_way'[q][t] = under_way[q][t]
    BY <1>3, <1>7
  <2> HIDE DEF RestartServer
  <2> QED BY <1>1, <2>1, <2>2, <2>3, StillBounded
<1>8. check'.at \in {"tool", "asking", "invoke"} => check'.step \in 1..3
  BY <1>2 DEF GrantInv
<1> QED BY <1>5, <1>6, <1>7, <1>8 DEF GrantInv

\* Steps that leave the activity, the look-ups and the grants that are cached.
LEMMA GrantsStay ==
    ASSUME GrantInv, UNCHANGED <<check, askVars>>
    PROVE  GrantInv'
BY BoundsStay DEF GrantInv, KycTypeOK

\* Every step of the activity, the administrator and the servers.
LEMMA GrantNext ==
    ASSUME NEW keys, NEW values, GrantInv, [KycNext(keys, values)]_kycVars
    PROVE  GrantInv'
<1>1. CASE CheckStep \/ OthersAsk \/ \E a \in Askers : LookUp(a)
  BY <1>1, GrantsAreAsked, LooksUp, AttemptGoesOn DEF CheckStep
<1>2. CASE \E p \in Processes : BeginAttempt(p)
  BY <1>2, AttemptKept
<1>3. CASE \E tools \in SUBSET ToolSet : ChangeGrants(tools)
  BY <1>3, GrantsStay DEF ChangeGrants
<1>4. CASE \E p \in Processes, unread \in SUBSET Stores : RestartServer(p, unread)
  BY <1>4, ServerStarts
<1>5. CASE Still
  BY <1>5, GrantsStay DEF Still
<1>6. CASE UNCHANGED kycVars
  BY <1>6, GrantsStay DEF kycVars
<1> QED BY <1>1, <1>2, <1>3, <1>4, <1>5, <1>6 DEF KycNext

\* For any number of processes, of cases whose activities overlap, of attempts and
\* of changes of the grants: a process that has cached a refusal lets the tool
\* through for no more look-ups than were under way when it first cached an answer
\* (_check_tool_grant caches the refusal before it looks for the domain, and two
\* of its calls may both find no entry).
THEOREM LetThroughBounded ==
    ASSUME NEW clients, NEW keys, NEW values
    PROVE  KycSpec(clients, keys, values) => []LetThroughWhileAsked
<1>1. KycInit(clients) => GrantInv
  BY KycStarts
<1>2. GrantInv /\ [KycNext(keys, values)]_kycVars => GrantInv'
  BY GrantNext
<1>3. GrantInv => LetThroughWhileAsked
  <2> SUFFICES ASSUME GrantInv, NEW p \in Processes, NEW t \in ToolSet
               PROVE  let_through[p][t] <= under_way[p][t]
    BY DEF LetThroughWhileAsked
  <2>1. let_through[p][t] \in Nat /\ under_way[p][t] \in Nat /\ Cardinality(Looking(p, t)) \in Nat
    BY FewLook DEF GrantInv, KycTypeOK
  <2>2. Bounded(p, t)
    BY DEF GrantInv
  <2> QED BY <2>1, <2>2 DEF Bounded
<1> QED BY <1>1, <1>2, <1>3, PTL DEF KycSpec

\* A match on a list gives at least a high band, whatever else the client answers.
LEMMA MatchIsHigh ==
    ASSUME NEW c, NEW v, v.sanctions_match
    PROVE  band(composite(c, v)) \in {"HIGH", "VERY_HIGH"}
<1>1. identity_score(v) = 10000 /\ aml_score(v) = 10000
  BY DEF identity_score, aml_score
<1>2. PICK n \in Nat : n = profile_score(c)
  <2>1. profile_score(c) \in Nat
    BY DEF profile_score
  <2> QED BY <2>1
<1>3. composite(c, v) = Min({80000 + 2 * n, 100000})
  <2>1. 4 * 10000 + 4 * 10000 + 2 * n = 80000 + 2 * n
    BY <1>2
  <2> QED BY <1>1, <1>2, <2>1 DEF composite
<1>4. PICK m \in {80000 + 2 * n, 100000} : m = composite(c, v)
  <2>1. PICK m \in {80000 + 2 * n, 100000} : \A y \in {80000 + 2 * n, 100000} : m <= y
    BY <1>2
  <2>2. (CHOOSE x \in {80000 + 2 * n, 100000} : \A y \in {80000 + 2 * n, 100000} : x <= y)
           \in {80000 + 2 * n, 100000}
    BY <2>1
  <2> QED BY <1>3, <2>2 DEF Min
<1>5. m >= 80000 /\ m \in Nat
  BY <1>2, <1>4
<1>6. band(m) \in {"HIGH", "VERY_HIGH"}
  BY <1>5 DEF band
<1> QED BY <1>4, <1>6

\* A client on a sanctions list passes only past two rules that no longer escalate.
LEMMA PassNeedsTwo ==
    ASSUME NEW keys, NEW values, StoreInv(keys, values), GrantInv, Evaluate,
           check'.status = "PASSED", check.status # "PASSED", client.sanctioned,
           NEW id \in {"HIGH_RISK_SCORE", "SANCTIONS_MATCH"}
    PROVE  cache["rules"][check.proc][id].action # "ESCALATE"
<1> DEFINE v == build_verification_dict(client)
           rules == cache["rules"][check.proc]
           checked == outcome(client, v, evaluate(rules, client, v))
<1>1. check \in Check /\ check.proc \in Processes
  BY DEF GrantInv, KycTypeOK, Check
<1>2. id \in DOMAIN rules
  BY <1>1, KycAssumption DEF StoreInv, BuiltinKept
<1>3. v.sanctions_match
  BY DEF build_verification_dict
<1>4. triggered(id, rules[id], client, v)
  <2> HIDE DEF v, rules
  <2>1. band(composite(client, v)) \in {"HIGH", "VERY_HIGH"}
    BY <1>3, MatchIsHigh
  <2> QED BY <1>3, <2>1 DEF triggered
<1>5. checked = "PASSED"
  <2>1. \/ check' = [check EXCEPT !.at = "unformatted"]
        \/ check' = [check EXCEPT !.at = "done", !.status = checked,
                          !.next_stage = IF checked = "PASSED" THEN "PARALLEL_PRODUCTS" ELSE "ESCALATED",
                          !.evidence = risk_relevant(client, v), !.advice = advice(client, v, Threshold)]
    BY DEF Evaluate, Goto
  <2> HIDE DEF v, checked
  <2>2. [check EXCEPT !.at = "unformatted"].status = check.status
    BY <1>1 DEF Check
  <2> DEFINE d == [check EXCEPT !.at = "done", !.status = checked,
                           !.next_stage = IF checked = "PASSED" THEN "PARALLEL_PRODUCTS" ELSE "ESCALATED",
                           !.evidence = risk_relevant(client, v), !.advice = advice(client, v, Threshold)]
  <2>3. d.status = checked
    BY <1>1 DEF Check
  <2>4. check' = [check EXCEPT !.at = "unformatted"] \/ check' = d
    BY <2>1
  <2> HIDE DEF d
  <2> QED BY <2>2, <2>3, <2>4
<1>6. ~evaluate(rules, client, v).should_escalate
  BY <1>5 DEF outcome
<1>7. id \in {i \in DOMAIN rules : triggered(i, rules[i], client, v)}
  BY <1>2, <1>4
<1> QED BY <1>6, <1>7 DEF evaluate

\* Only the evaluation decides.
LEMMA OnlyEvaluateDecides ==
    ASSUME NEW keys, NEW values, GrantInv, [KycNext(keys, values)]_kycVars,
           check'.status = "PASSED", check.status # "PASSED"
    PROVE  Evaluate
<1>1. check \in Check
  BY DEF GrantInv, KycTypeOK
<1>2. ASSUME NEW at \in Places, Goto(at) PROVE check'.status = check.status
  BY <1>1, <1>2, CheckGoes DEF Goto
<1>3. \A at \in {"raised", "fatal"} : at \in Places
  BY DEF Places
<1>4. CASE AskGrant \/ OthersAsk
  BY <1>4, GrantsAreAsked
<1>5. ASSUME NEW a \in Askers, LookUp(a) PROVE FALSE
  BY <1>5, LooksUp
<1>6. CASE GiveUp
  BY <1>2, <1>3, <1>6 DEF GiveUp
<1>7. CASE InvokeTool
  <2>1. CASE Goto("raised")
    BY <1>2, <1>3, <2>1
  <2>2. CASE check' = [check EXCEPT !.step = @ + 1, !.at = IF check.step = Len(Tools) THEN "score" ELSE "tool"]
    BY <2>2, <1>1 DEF Check
  <2> QED BY <1>7, <2>1, <2>2 DEF InvokeTool
<1>8. ASSUME NEW p \in Processes, BeginAttempt(p) PROVE FALSE
  BY <1>1, <1>8 DEF BeginAttempt, Check
<1>9. ASSUME NEW p \in Processes, NEW unread \in SUBSET Stores, RestartServer(p, unread) PROVE FALSE
  BY <1>1, <1>9 DEF RestartServer, Check
<1>10. CASE UNCHANGED check
  BY <1>10
<1>11. CASE \E tools \in SUBSET ToolSet : ChangeGrants(tools)
  BY <1>10, <1>11 DEF ChangeGrants
<1>12. CASE Still \/ UNCHANGED kycVars
  BY <1>10, <1>12 DEF Still, kycVars
<1> QED BY <1>4, <1>5, <1>6, <1>7, <1>8, <1>9, <1>11, <1>12 DEF KycNext, CheckStep

\* The stores change by their own steps, whatever the activity does.
LEMMA StoresOfKyc ==
    ASSUME NEW keys, NEW values, Within(keys, values), StoreInv(keys, values),
           [KycNext(keys, values)]_kycVars
    PROVE  StoreInv(keys, values)'
<1>1. CASE CheckStep \/ OthersAsk \/ \E a \in Askers : LookUp(a)
  BY <1>1, StoresStay DEF CheckStep, AskGrant, OthersAsk, CheckToolGrant, LookUp, ReadGrant, CacheAnswer,
                          DomainExists, QueryFails, InvokeTool, Evaluate, GiveUp
<1>2. CASE \E p \in Processes : BeginAttempt(p)
  BY <1>2, StoresStay DEF BeginAttempt
<1>3. CASE \E tools \in SUBSET ToolSet : ChangeGrants(tools)
  BY <1>3, StoresStay DEF ChangeGrants
<1>4. CASE \E p \in Processes, unread \in SUBSET Stores : RestartServer(p, unread)
  BY <1>4, StoresKept DEF RestartServer, StoreNext
<1>5. CASE StoreChange(keys, values) \/ TaskStep
  BY <1>5, StoresKept DEF StoreNext
<1>6. CASE UNCHANGED kycVars
  BY <1>6, StoresStay DEF kycVars
<1> QED BY <1>1, <1>2, <1>3, <1>4, <1>5, <1>6 DEF KycNext

\* For every client, all figures the tools can draw, every set of custom rules and
\* every order of changes: one who is on a sanctions list passes only past two
\* built-in rules that no longer escalate (checkpoint_rule_engine.evaluate).
THEOREM SanctionedPassNeedsTwoRules ==
    ASSUME NEW clients, NEW keys, NEW values, Within(keys, values)
    PROVE  KycSpec(clients, keys, values) => SanctionedNeedsTwoRules
<1> DEFINE Inv == StoreInv(keys, values) /\ GrantInv
<1>1. KycInit(clients) => Inv
  BY KycStarts, StoresStart DEF KycInit
<1>2. Inv /\ [KycNext(keys, values)]_kycVars => Inv'
  BY GrantNext, StoresOfKyc
<1>3. Inv /\ [KycNext(keys, values)]_kycVars =>
        [check'.status = "PASSED" /\ check.status # "PASSED" /\ client.sanctioned =>
          \A id \in {"HIGH_RISK_SCORE", "SANCTIONS_MATCH"} :
             cache["rules"][check.proc][id].action # "ESCALATE"]_kycVars
  BY OnlyEvaluateDecides, PassNeedsTwo
<1> QED BY <1>1, <1>2, <1>3, PTL DEF KycSpec, SanctionedNeedsTwoRules

-----------------------------------------------------------------------------
(* The case around the check. *)

\* The steps of the workflow, its other activities and its senders start the KYC
\* activity on coming to KYC, and otherwise leave it alone.
LEMMA KycIsScheduled ==
    ASSUME stage \in Stages,
           WorkflowStep \/ FraudScreened \/ Senders \/ ApiWritesRow \/ \E p \in Products : ChildStep(p)
    PROVE  \/ kycRun' = kycRun /\ (pc' = "screening" => pc = "screening")
           \/ /\ kycRun' = "RUNNING" /\ stage = "KYC" /\ stage' = stage
              /\ pc # "screening" /\ pc' = "screening"
<1> USE DEF local, queues, runs, db
<1>1. CASE IntakeKickoff \/ PersistStage \/ KycNotify
  <2>1. Dispatch(stage) /\ stage' = stage /\ pc # "screening"
    BY <1>1 DEF IntakeKickoff, PersistStage, KycNotify
  <2> QED BY <2>1 DEF Dispatch, EntryPc, Stages
<1>2. CASE FraudScreened \/ Senders \/ ApiWritesRow
  BY <1>2 DEF FraudScreened, Senders, SendAdvance, SendHumanDecision, advance_stage,
              human_review_completed, ApiWritesRow
<1>3. CASE \E p \in Products : ChildStep(p)
  BY <1>3 DEF ChildStep, ChildAttempt, ChildFails, Close
<1>4. CASE Boot \/ IntakeAdvance \/ SalesKickoff \/ ReviewKickoff \/ SalesAdvance \/ SalesDecision
             \/ ReviewAdvance \/ ReviewDecision
  BY <1>4 DEF Boot, IntakeAdvance, SalesKickoff, ReviewKickoff, SalesAdvance, SalesDecision,
              ReviewAdvance, ReviewDecision
<1>5. CASE WaitTimesOut \/ MergeScreening \/ ScreeningFails \/ KycPersist
  BY <1>5 DEF WaitTimesOut, MergeScreening, ScreeningFails, KycPersist, Close
<1>6. CASE StartChildren \/ GatherProducts \/ Completion \/ CompleteNotify
  BY <1>6 DEF StartChildren, GatherProducts, Completion, CompleteNotify, Close
<1>7. CASE EscalationAlert \/ EscalationSummary \/ EscalationResolved \/ ActivityFails
  BY <1>7 DEF EscalationAlert, EscalationSummary, EscalationResolved, ActivityFails, Close
<1> QED BY <1>1, <1>2, <1>3, <1>4, <1>5, <1>6, <1>7 DEF WorkflowStep

\* Seen from the workflow, a step of the whole is one of its own, or none.
LEMMA CaseMoves ==
    ASSUME NEW clients, NEW keys, NEW values, [ScreenedNext(clients, keys, values)]_screenedVars
    PROVE  [Next]_vars
<1>1. CASE CaseGoesOn(clients)
  BY <1>1 DEF CaseGoesOn, Next
<1>2. CASE KycGoesOn
  BY <1>2 DEF KycGoesOn, CheckGoesOn, Answer, CheckFails, KycStep, Next
<1>3. CASE ServersGoOn(keys, values)
  BY <1>3 DEF ServersGoOn
<1>4. CASE UNCHANGED screenedVars
  BY <1>4 DEF screenedVars
<1> QED BY <1>1, <1>2, <1>3, <1>4 DEF ScreenedNext

\* Seen from the check, it is one of its own, the time-out, or the start of the
\* next pass.
LEMMA CheckMoves ==
    ASSUME NEW clients, NEW keys, NEW values, [ScreenedNext(clients, keys, values)]_screenedVars
    PROVE  \/ [KycNext(keys, values)]_kycVars
           \/ /\ check' = [check EXCEPT !.at = "timed_out"] \/ check' = Unstarted
              /\ UNCHANGED settingsVars
<1>1. CASE CaseGoesOn(clients)
  BY <1>1 DEF CaseGoesOn, ScheduleCheck, kycVars, settingsVars
<1>2. CASE KycGoesOn
  BY <1>2 DEF KycGoesOn, CheckGoesOn, Answer, CheckFails, CheckStep, KycNext
<1>3. CASE ServersGoOn(keys, values)
  BY <1>3 DEF ServersGoOn, KycNext
<1>4. CASE UNCHANGED screenedVars
  BY <1>4 DEF screenedVars
<1> QED BY <1>1, <1>2, <1>3, <1>4 DEF ScreenedNext

\* What is known of the activity and of the stores goes on through the passes.
LEMMA CheckIsKept ==
    ASSUME NEW clients, NEW keys, NEW values, Within(keys, values),
           GrantInv, StoreInv(keys, values), [ScreenedNext(clients, keys, values)]_screenedVars
    PROVE  GrantInv' /\ StoreInv(keys, values)'
<1>1. CASE [KycNext(keys, values)]_kycVars
  BY <1>1, GrantNext, StoresOfKyc
<1>2. ASSUME check' = [check EXCEPT !.at = "timed_out"] \/ check' = Unstarted, UNCHANGED settingsVars
      PROVE  GrantInv' /\ StoreInv(keys, values)'
  <2>1. StoreInv(keys, values)'
    BY <1>2, StoresStay DEF settingsVars
  <2>2. check' \in Check /\ check'.at \in {"idle", "timed_out"}
    <3>1. (CHOOSE p \in Processes : TRUE) \in Processes
      BY StoreAssumption
    <3>2. Unstarted \in Check /\ Unstarted.at = "idle"
      BY <3>1 DEF Unstarted, Check
    <3>3. check \in Check /\ "timed_out" \in Places
      BY DEF GrantInv, KycTypeOK, Places
    <3>4. [check EXCEPT !.at = "timed_out"] \in Check /\ [check EXCEPT !.at = "timed_out"].at = "timed_out"
      BY <3>3, CheckGoes
    <3> QED BY <1>2, <3>2, <3>4
  <2>3. UNCHANGED askVars
    BY <1>2 DEF settingsVars
  <2>4. GrantInv'
    BY <2>2, <2>3, BoundsStay
  <2> QED BY <2>1, <2>4
<1> QED BY <1>1, <1>2, CheckMoves

\* The client's data change with a new pass alone, and the verdict of a check
\* with its evaluation alone.
LEMMA ClientOfCheck ==
    ASSUME NEW clients, NEW keys, NEW values, GrantInv,
           [ScreenedNext(clients, keys, values)]_screenedVars, check'.status = "PASSED"
    PROVE  /\ client' = client
           /\ check.status # "PASSED" => Evaluate
<1>1. check \in Check /\ Unstarted.status = "none"
  BY DEF GrantInv, KycTypeOK, Unstarted
<1>2. [check EXCEPT !.at = "timed_out"].status = check.status
  BY <1>1, CheckGoes DEF Places
<1>3. check' # Unstarted
  BY <1>1
<1>4. client' = client
  <2>1. CASE CaseGoesOn(clients)
    BY <1>3, <2>1 DEF CaseGoesOn, ScheduleCheck
  <2>2. CASE KycGoesOn
    BY <2>2 DEF KycGoesOn, CheckGoesOn, Answer, CheckFails, AskGrant, CheckToolGrant, InvokeTool, Evaluate,
                BeginAttempt, GiveUp
  <2>3. CASE ServersGoOn(keys, values)
    BY <2>3 DEF ServersGoOn, ChangeGrants, RestartServer, Still, OthersAsk, CheckToolGrant, LookUp,
                ReadGrant, CacheAnswer, DomainExists, QueryFails
  <2>4. CASE UNCHANGED screenedVars
    BY <2>4 DEF screenedVars, kycVars
  <2> QED BY <2>1, <2>2, <2>3, <2>4 DEF ScreenedNext
<1>5. check.status # "PASSED" => Evaluate
  BY <1>2, <1>3, CheckMoves, OnlyEvaluateDecides
<1> QED BY <1>4, <1>5

\* The answers of the check are the workflow's.
LEMMA AnswersReach ==
    ASSUME NEW clients, NEW keys, NEW values, DeployedSenders, ClearanceInv, GrantInv, AnswerIsTheChecks,
           [ScreenedNext(clients, keys, values)]_screenedVars
    PROVE  AnswerIsTheChecks'
<1>1. [Next]_vars /\ WellFormed /\ stage \in Stages
  BY CaseMoves DEF ClearanceInv, WellFormed, TypeOK
<1>2. check \in Check
  BY DEF GrantInv, KycTypeOK
<1>3. /\ kycRun' \in KycOutcomes => kycRun' = check'.status
      /\ \/ kycRun' = kycRun
         \/ stage = "KYC" /\ stage' = stage
  <2>1. CASE CaseGoesOn(clients)
    <3>1. CASE kycRun' = kycRun /\ (pc' = "screening" => pc = "screening")
      BY <2>1, <3>1 DEF CaseGoesOn, ScheduleCheck, AnswerIsTheChecks
    <3>2. CASE kycRun' = "RUNNING" /\ stage = "KYC" /\ stage' = stage
      BY <3>2 DEF KycOutcomes
    <3> QED BY <1>1, <2>1, <3>1, <3>2, KycIsScheduled DEF CaseGoesOn
  <2>2. CASE KycGoesOn
    <3>1. CASE CheckGoesOn
      BY <2>2, <3>1 DEF KycGoesOn, CheckGoesOn, KycOutcomes, vars, runs
    <3>2. CASE Answer
      BY <1>1, <3>2 DEF Answer, KycAttempt, local, KycOutcomes, WellFormed, PcMatchesStage
    <3>3. CASE CheckFails
      BY <1>1, <3>3 DEF CheckFails, KycError, local, KycOutcomes, WellFormed, PcMatchesStage
    <3> QED BY <2>2, <3>1, <3>2, <3>3 DEF KycGoesOn
  <2>3. CASE ServersGoOn(keys, values)
    <3>1. kycRun' = kycRun
      BY <2>3 DEF ServersGoOn, vars, runs
    <3>2. check'.status = check.status
      <4>1. [check EXCEPT !.at = "timed_out"].status = check.status
        BY <1>2, CheckGoes DEF Places
      <4>2. OthersAsk \/ (\E a \in Askers : LookUp(a)) => check'.status = check.status
        BY GrantsAreAsked, LooksUp
      <4> QED BY <2>3, <4>1, <4>2 DEF ServersGoOn, ChangeGrants, RestartServer, Still
    <3> QED BY <3>1, <3>2 DEF AnswerIsTheChecks
  <2>4. CASE UNCHANGED screenedVars
    BY <2>4 DEF screenedVars, vars, runs, kycVars, AnswerIsTheChecks
  <2> QED BY <2>1, <2>2, <2>3, <2>4 DEF ScreenedNext
<1>4. ASSUME stage' \in {"PARALLEL_PRODUCTS", "COMPLETE"} PROVE kycRun' = "PASSED"
  <2>1. CASE MergeScreening
    BY <1>4, <2>1 DEF MergeScreening, ScreenedStage, runs
  <2>2. CASE GatherProducts
    BY <1>1, <2>2 DEF GatherProducts, runs, WellFormed, PcMatchesStage, AnswerIsTheChecks
  <2>3. CASE ~ StageSteps
    BY <1>1, <1>3, <1>4, <2>3, Frame DEF AnswerIsTheChecks
  <2> QED BY <1>4, <2>1, <2>2, <2>3, StageChoice
<1> QED BY <1>3, <1>4 DEF AnswerIsTheChecks

\* A check that passes a client on a list has found two rules without ESCALATE.
LEMMA PassesAreNoted ==
    ASSUME NEW clients, NEW keys, NEW values, Within(keys, values),
           ScreenedInv(keys, values), [ScreenedNext(clients, keys, values)]_screenedVars
    PROVE  (Disarmed(cache["rules"]) => disarmed)' /\ PassIsDisarmed'
<1> USE DEF ScreenedInv
<1>1. disarmed => disarmed'
  BY DEF ScreenedNext, Noted, screenedVars
<1>2. (Disarmed(cache["rules"]) => disarmed)'
  BY DEF ScreenedNext, Noted, screenedVars, kycVars, storeVars, Disarmed
<1>3. ASSUME client'.sanctioned, check'.status = "PASSED" PROVE disarmed'
  <2>1. client' = client /\ (check.status # "PASSED" => Evaluate)
    BY <1>3, ClientOfCheck
  <2>2. CASE check.status = "PASSED"
    BY <1>1, <1>3, <2>1, <2>2 DEF PassIsDisarmed
  <2>3. CASE check.status # "PASSED"
    <3>1. \A id \in MatchRules : cache["rules"][check.proc][id].action # "ESCALATE"
      BY <1>3, <2>1, <2>3, PassNeedsTwo DEF MatchRules
    <3>2. check.proc \in Processes
      BY DEF GrantInv, KycTypeOK, Check
    <3> QED BY <1>1, <3>1, <3>2 DEF Disarmed
  <2> QED BY <2>2, <2>3
<1> QED BY <1>2, <1>3 DEF PassIsDisarmed

\* For every client, any changes of the settings and grants, any restarts and
\* retries, any products and bounds, and the senders the code has: a client on a
\* sanctions list never reaches the products nor gets an account, unless one
\* process held both rules of a match without ESCALATE at one moment
\* (_run_kyc_node's verdict, carried through _run_kyc and the handlers).
THEOREM SanctionedNeverOnboarded ==
    ASSUME NEW clients, NEW keys, NEW values, Within(keys, values), DeployedSenders
    PROVE  ScreenedSpec(clients, keys, values) => []SanctionedStaysOut
<1> DEFINE Inv == ScreenedInv(keys, values)
<1>1. ScreenedInit(clients) => Inv
  <2> SUFFICES ASSUME ScreenedInit(clients) PROVE Inv
    OBVIOUS
  <2>1. ClearanceInv /\ GrantInv /\ StoreInv(keys, values)
    BY ClearanceInit, KycStarts, StoresStart DEF ScreenedInit, KycInit
  <2>2. check.status = "none"
    BY DEF ScreenedInit, KycInit, Unstarted
  <2> QED BY <2>1, <2>2 DEF ScreenedInv, ScreenedInit, Init, AnswerIsTheChecks, PassIsDisarmed, KycOutcomes
<1>2. Inv /\ [ScreenedNext(clients, keys, values)]_screenedVars => Inv'
  <2> SUFFICES ASSUME Inv, [ScreenedNext(clients, keys, values)]_screenedVars PROVE Inv'
    OBVIOUS
  <2>1. ClearanceInv'
    BY CaseMoves, ClearanceNext DEF ScreenedInv
  <2>2. GrantInv' /\ StoreInv(keys, values)'
    BY CheckIsKept DEF ScreenedInv
  <2>3. AnswerIsTheChecks'
    BY AnswersReach DEF ScreenedInv
  <2> QED BY <2>1, <2>2, <2>3, PassesAreNoted DEF ScreenedInv
<1>3. Inv => SanctionedStaysOut
  BY DEF ScreenedInv, ClearanceInv, AccountsOnlyInComplete, AnswerIsTheChecks, PassIsDisarmed, KycOutcomes,
         SanctionedStaysOut
<1> QED BY <1>1, <1>2, <1>3, PTL DEF ScreenedSpec

=============================================================================
