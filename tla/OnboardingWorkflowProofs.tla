---------------------- MODULE OnboardingWorkflowProofs ----------------------
(***************************************************************************)
(* Theorems about OnboardingWorkflow, for any products, selections, bounds  *)
(* and fraud verdicts.                                                     *)
(***************************************************************************)
EXTENDS OnboardingWorkflow, SequenceTheorems, FiniteSetTheorems, TLAPS

-----------------------------------------------------------------------------
(* Lemmas about the helpers *)

\* extra stays a record of the type after the two results are merged, whatever
\* the two activities returned (_run_kyc).
LEMMA MergedExtraType ==
  ASSUME extra \in Extra, kycRun \in KycOutcomes
  PROVE  /\ MergedExtra \in Extra
         /\ MergedExtra.kyc_status = kycRun
         /\ MergedExtra.fraud_screened \in {"CLEARED", "FLAGGED"}
PROOF
  <1> USE DEF Extra, KycOutcomes, Absent, None
  <1>1. FraudExtra(fraudRun) \in Extra
    BY DEF FraudExtra
  <1>2. FraudExtra(fraudRun).fraud_screened \in {"CLEARED", "FLAGGED"}
    BY DEF FraudExtra
  <1>3. KycExtra(kycRun) \in Extra /\ KycExtra(kycRun).kyc_status = kycRun
    BY DEF KycExtra
  <1> QED BY <1>1, <1>2, <1>3 DEF MergedExtra, Spread

\* A screening leads to PARALLEL_PRODUCTS if, and only if, what it leaves in extra
\* is a clearance: the flag, fresh or from an earlier pass, and KYC both veto it.
LEMMA ScreenedStageCleared ==
  ASSUME extra \in Extra, kycRun \in KycOutcomes
  PROVE  /\ ScreenedStage \in {"PARALLEL_PRODUCTS", "ESCALATED"}
         /\ MergedExtra.fraud_screened = "FLAGGED" => ScreenedStage = "ESCALATED"
         /\ ScreenedStage = "PARALLEL_PRODUCTS" <=>
              /\ MergedExtra.kyc_status = "PASSED"
              /\ MergedExtra.fraud_screened = "CLEARED"
  BY MergedExtraType DEF ScreenedStage

\* The merged tracks of a finished pass are tracks.
LEMMA MergedTracksType ==
  ASSUME tracks \in [Products -> TrackOutcomes \cup {Absent}],
         childRun \in [Products -> {"IDLE", "RUNNING"} \cup TrackOutcomes],
         \A p \in Range1(selected) : childRun[p] \in TrackOutcomes
  PROVE  MergedTracks \in [Products -> TrackOutcomes \cup {Absent}]
  BY DEF MergedTracks, MergedTrack

\* Taking a signal off a list, or appending one, leaves a list of signals.
LEMMA QueueType ==
  ASSUME NEW S, NEW q \in Seq(S)
  PROVE  /\ q # <<>> => Head(q) \in S /\ Tail(q) \in Seq(S)
         /\ \A x \in S : Append(q, x) \in Seq(S) /\ Append(q, x) # <<>>
PROOF
  <1>1. q # <<>> => Head(q) \in S /\ Tail(q) \in Seq(S)
    BY HeadTailProperties
  <1>2. \A x \in S : Append(q, x) \in Seq(S) /\ Append(q, x) # <<>>
    BY AppendProperties
  <1> QED BY <1>1, <1>2

\* The counters of sent signals stay within their bounds.
LEMMA SentType ==
  ASSUME NEW a \in Nat, NEW h \in Nat, NEW s \in [adv : 0 .. a, hum : 0 .. h]
  PROVE  /\ s.adv < a => [s EXCEPT !.adv = s.adv + 1] \in [adv : 0 .. a, hum : 0 .. h]
         /\ s.hum < h => [s EXCEPT !.hum = s.hum + 1] \in [adv : 0 .. a, hum : 0 .. h]
  OBVIOUS

\* Every selected product is a product.
LEMMA SelectedProducts ==
  ASSUME NEW s \in Selections
  PROVE  Range1(s) \subseteq Products
PROOF
  <1>1. s \in Seq(Products)
    BY SelectionsAssumption
  <1>2. \A i \in DOMAIN s : s[i] \in Products
    BY <1>1, LenProperties, ElementOfSeq
  <1> QED BY <1>2 DEF Range1

\* The handler of a stage starts at one of its own awaits.
LEMMA EntryPcType ==
  ASSUME NEW s \in Stages
  PROVE  /\ EntryPc(s) \in Pcs \ (PersistPcs \cup {"closed", "kycNotify", "gather", "boot"})
         /\ EntryPc(s) = "screening" <=> s = "KYC"
         /\ EntryPc(s) \in {"intakeKickoff", "intakeWait"} <=> s = "INTAKE"
         /\ EntryPc(s) \in {"salesKickoff", "salesWait"} <=> s = "SALES_REVIEW"
         /\ EntryPc(s) = "start" <=> s = "PARALLEL_PRODUCTS"
         /\ EntryPc(s) \in {"reviewKickoff", "reviewWait"} <=> s = "REVIEW"
         /\ EntryPc(s) \in {"completion", "completeNotify"} <=> s = "COMPLETE"
         /\ EntryPc(s) \in {"escAlert", "escSummary", "escWait"} <=> s = "ESCALATED"
  BY DEF EntryPc, Stages, Pcs, ActivityPcs, KickoffPcs, PersistPcs, WaitPcs

-----------------------------------------------------------------------------
(* Type correctness *)

\* Dispatch(s) enters the handler of s and resets only what that handler uses.
LEMMA DispatchTyped ==
  ASSUME TypeOK, Dispatch(stage), UNCHANGED stage
  PROVE  /\ pc' \in Pcs
         /\ kycRun' \in {"IDLE", "RUNNING", "ERROR"} \cup KycOutcomes
         /\ fraudRun' \in {"IDLE", "RUNNING", "ERROR", "CLEARED", "FLAGGED"}
         /\ childRun' = childRun
         /\ tries' \in [Products \cup {"kyc"} -> 0 .. MaxAttempts]
         /\ PcMatchesStage'
         /\ pc' # "gather"
  BY EntryPcType, BoundAssumption DEF Dispatch, TypeOK, PcMatchesStage, PersistPcs

\* A write of the row that may be swallowed leaves a stage in it.
LEMMA RowTyped ==
  ASSUME row \in Stages, faults \in 0 .. MaxFaults, NEW value \in Stages, WriteRow(value)
  PROVE  row' \in Stages /\ faults' \in 0 .. MaxFaults
  BY BoundAssumption DEF WriteRow, Swallowed, Lost

\* A signal taken off the list gives the next stage and a selection.
LEMMA AdvanceTyped ==
  ASSUME selected \in Selections, NEW signal \in AdvanceSignal, Advance(signal)
  PROVE  stage' \in Stages /\ selected' \in Selections
  BY SenderAssumption DEF Advance, AdvanceSignal

\* A new workflow is well formed (initialize_case_activity).
LEMMA WellFormedInit == Init => WellFormed
  BY SelectionsAssumption, SenderAssumption, BoundAssumption
  DEF Init, WellFormed, TypeOK, PcMatchesStage, ChildrenStarted, InitialExtra, Extra,
      Stages, Pcs, ActivityPcs, KickoffPcs, PersistPcs, WaitPcs, Absent, None,
      KycOutcomes, TrackOutcomes

\* Every activation, signal, activity and child keeps the types, the place of
\* the coroutine in the handler of its stage, and one child per selected product.
LEMMA WellFormedNext == WellFormed /\ [Next]_vars => WellFormed'
PROOF
  <1> SUFFICES ASSUME WellFormed, [Next]_vars PROVE WellFormed'
    OBVIOUS
  <1> USE SelectionsAssumption, SenderAssumption, BoundAssumption
  <1> USE DEF WellFormed, TypeOK, PcMatchesStage, ChildrenStarted, local, queues, runs, db
  <1> USE DEF Pcs, ActivityPcs, KickoffPcs, PersistPcs, WaitPcs
  <1>1. CASE UNCHANGED vars
    BY <1>1 DEF vars
  <1>2. CASE SendAdvance
    <2>1. PICK to \in AdvanceTargets, products \in Selections \cup {Keep} :
            advance_stage(to, products)
      BY <1>2 DEF SendAdvance
    <2>2. advQ' \in Seq(AdvanceSignal)
      BY <2>1, QueueType DEF advance_stage, AdvanceSignal
    <2>3. sent.adv < MaxAdvance /\ sent' = [sent EXCEPT !.adv = sent.adv + 1]
      BY <1>2 DEF SendAdvance
    <2>4. sent' \in [adv : 0 .. MaxAdvance, hum : 0 .. MaxHuman]
      BY <2>3, SentType
    <2> QED BY <2>1, <2>2, <2>4 DEF advance_stage
  <1>3. CASE SendHumanDecision
    <2>1. PICK decision \in HumanDecisions : human_review_completed(decision)
      BY <1>3 DEF SendHumanDecision
    <2>2. humQ' \in Seq(HumanDecisions)
      BY <2>1, QueueType DEF human_review_completed
    <2>3. sent.hum < MaxHuman /\ sent' = [sent EXCEPT !.hum = sent.hum + 1]
      BY <1>3 DEF SendHumanDecision
    <2>4. sent' \in [adv : 0 .. MaxAdvance, hum : 0 .. MaxHuman]
      BY <2>3, SentType
    <2> QED BY <2>1, <2>2, <2>4 DEF human_review_completed
  <1>4. CASE Boot
    BY <1>4 DEF Boot
  <1>5. CASE IntakeKickoff
    BY <1>5, DispatchTyped DEF IntakeKickoff
  <1>6. CASE IntakeAdvance \/ ReviewAdvance
    <2>1. advQ # <<>> /\ advQ' = Tail(advQ)
      BY <1>6 DEF IntakeAdvance, ReviewAdvance
    <2>2. Head(advQ) \in AdvanceSignal /\ advQ' \in Seq(AdvanceSignal)
      BY <2>1, QueueType
    <2>3. stage' \in Stages /\ selected' \in Selections
      BY <1>6, <2>2, AdvanceTyped DEF IntakeAdvance, ReviewAdvance
    <2>4. /\ pc' = "persist"
          /\ UNCHANGED <<status, extra, tracks, humQ, runs, verdict, db, sent, faults>>
      BY <1>6 DEF IntakeAdvance, ReviewAdvance
    <2> QED BY <2>2, <2>3, <2>4
  <1>7. CASE ReviewKickoff \/ ApiWritesRow
    BY <1>7 DEF ReviewKickoff, ApiWritesRow
  <1>28. CASE SalesKickoff
    BY <1>28 DEF SalesKickoff, WriteRow, Swallowed, Lost, Stages
  <1>8. CASE SalesAdvance
    <2>1. Head(advQ) \in AdvanceSignal /\ advQ' \in Seq(AdvanceSignal)
      BY <1>8, QueueType DEF SalesAdvance
    <2> QED BY <1>8, <2>1 DEF SalesAdvance, AdvanceSignal, Extra
  <1>9. CASE SalesDecision
    <2>1. Head(humQ) \in HumanDecisions /\ humQ' \in Seq(HumanDecisions)
      BY <1>9, QueueType DEF SalesDecision
    <2>2. extra' \in Extra
      BY <1>9, <2>1 DEF SalesDecision, Extra
    <2> QED BY <1>9, <2>1, <2>2 DEF SalesDecision, Stages
  <1>10. CASE ReviewDecision
    <2>1. humQ' \in Seq(HumanDecisions)
      BY <1>10, QueueType DEF ReviewDecision
    <2> QED BY <1>10, <2>1 DEF ReviewDecision, Stages
  <1>11. CASE WaitTimesOut
    BY <1>11 DEF WaitTimesOut, Close
  <1>12. CASE PersistStage
    BY <1>12, DispatchTyped DEF PersistStage, WriteRow, Swallowed, Lost
  <1>13. CASE MergeScreening
    BY <1>13, MergedExtraType, ScreenedStageCleared DEF MergeScreening, Stages
  <1>14. CASE ScreeningFails
    BY <1>14 DEF ScreeningFails, Close
  <1>15. CASE KycPersist
    BY <1>15 DEF KycPersist, WriteRow, Swallowed, Lost
  <1>16. CASE KycNotify
    BY <1>16, DispatchTyped DEF KycNotify
  <1>17. CASE StartChildren
    <2>1. Range1(selected) \subseteq Products
      BY SelectedProducts
    <2>2. childRun' \in [Products -> {"IDLE", "RUNNING"} \cup TrackOutcomes]
      BY <1>17 DEF StartChildren
    <2>3. tries' \in [Products \cup {"kyc"} -> 0 .. MaxAttempts]
      BY <1>17 DEF StartChildren
    <2>4. \A p \in Range1(selected)' : childRun'[p] # "IDLE"
      BY <1>17, <2>1 DEF StartChildren
    <2> QED BY <1>17, <2>2, <2>3, <2>4 DEF StartChildren
  <1>18. CASE GatherProducts
    <2>1. \A p \in Range1(selected) : childRun[p] \in TrackOutcomes
      BY <1>18, SelectedProducts DEF GatherProducts
    <2>2. tracks' \in [Products -> TrackOutcomes \cup {Absent}]
      BY <1>18, <2>1, MergedTracksType DEF GatherProducts
    <2> QED BY <1>18, <2>2 DEF GatherProducts, Stages
  <1>19. CASE Completion
    BY <1>19 DEF Completion, Swallowed, Lost, Stages, Range1
  <1>20. CASE CompleteNotify
    BY <1>20 DEF CompleteNotify, Close
  <1>21. CASE EscalationAlert
    BY <1>21 DEF EscalationAlert, Stages
  <1>22. CASE EscalationSummary
    BY <1>22 DEF EscalationSummary
  <1>23. CASE EscalationResolved
    BY <1>23 DEF EscalationResolved, Close
  <1>24. CASE ActivityFails
    BY <1>24 DEF ActivityFails, LostWrites, Close, Stages, Range1
  <1>25. CASE KycStep
    <2>1. CASE KycAttempt
      <3>1. PICK outcome \in KycOutcomes :
              WriteRow(KycRow(outcome)) /\ kycRun' \in {outcome, "RUNNING"}
        BY <2>1 DEF KycAttempt
      <3>2. row' \in Stages /\ faults' \in 0 .. MaxFaults
        BY <3>1, RowTyped DEF KycRow, Stages
      <3>3. tries' \in [Products \cup {"kyc"} -> 0 .. MaxAttempts]
        BY <2>1 DEF KycAttempt
      <3>4. kycRun' \in {"IDLE", "RUNNING", "ERROR"} \cup KycOutcomes
        BY <3>1
      <3> QED BY <2>1, <3>2, <3>3, <3>4 DEF KycAttempt
    <2>2. CASE KycError
      BY <2>2 DEF KycError
    <2> QED BY <1>25, <2>1, <2>2 DEF KycStep
  <1>26. CASE FraudScreened
    BY <1>26 DEF FraudScreened
  <1>27. ASSUME NEW p \in Products, ChildStep(p) PROVE WellFormed'
    <2>1. CASE ChildFails(p)
      BY <2>1 DEF ChildFails, Close
    <2>2. CASE ChildAttempt(p)
      <3>1. tries' \in [Products \cup {"kyc"} -> 0 .. MaxAttempts]
        BY <2>2 DEF ChildAttempt
      <3>2. activation' \in [Products -> {"NONE", "ACTIVATED", "DECLINED"}]
        BY <2>2 DEF ChildAttempt, GateState
      <3>3. faults' \in 0 .. MaxFaults
        BY <2>2 DEF ChildAttempt, Swallowed, Lost
      <3>4. PICK r \in {"RUNNING"} \cup TrackOutcomes : childRun' = [childRun EXCEPT ![p] = r]
        BY <2>2 DEF ChildAttempt
      <3>5. r # "IDLE"
        BY DEF TrackOutcomes
      <3>6. childRun' \in [Products -> {"IDLE", "RUNNING"} \cup TrackOutcomes]
        BY <3>4
      <3>7. \A q \in Range1(selected) : childRun'[q] # "IDLE"
        BY <2>2, <3>4, <3>5, SelectedProducts DEF ChildAttempt
      <3> QED BY <2>2, <3>1, <3>2, <3>3, <3>6, <3>7 DEF ChildAttempt
    <2> QED BY <1>27, <2>1, <2>2 DEF ChildStep
  <1> QED
    BY <1>1, <1>2, <1>3, <1>4, <1>5, <1>6, <1>7, <1>8, <1>9, <1>10, <1>11, <1>12, <1>13,
       <1>14, <1>15, <1>16, <1>17, <1>18, <1>19, <1>20, <1>21, <1>22, <1>23, <1>24, <1>25,
       <1>26, <1>27, <1>28
    DEF Next, WorkflowStep, Senders

\* Every variable of the workflow stays in its type, for any senders.
THEOREM TypeCorrect == Spec => []TypeOK
PROOF
  <1>1. WellFormed => TypeOK
    BY DEF WellFormed
  <1> QED BY WellFormedInit, WellFormedNext, <1>1, PTL DEF Spec

-----------------------------------------------------------------------------
(* Which steps touch what the safety properties talk about *)

StageSteps ==
  \/ IntakeAdvance \/ SalesAdvance \/ SalesDecision \/ ReviewAdvance \/ ReviewDecision
  \/ MergeScreening \/ GatherProducts

\* Only these steps change the stage or extra, only the completion activity
\* opens accounts, and a decision is queued only in the stages it is sent in.
LEMMA Frame ==
  ASSUME [Next]_vars
  PROVE  /\ StageSteps \/ UNCHANGED <<stage, extra>>
         /\ \/ UNCHANGED accounts
            \/ /\ pc = "completion"
               /\ accounts' = accounts \cup Range1(selected)
         /\ \/ UNCHANGED humQ
            \/ SalesDecision
            \/ ReviewDecision
            \/ stage \in HumanStages /\ UNCHANGED stage
PROOF
  <1> USE DEF local, queues, runs, db
  <1>1. CASE UNCHANGED vars
    BY <1>1 DEF vars
  <1>2. CASE StageSteps
    BY <1>2 DEF StageSteps, IntakeAdvance, SalesAdvance, SalesDecision, ReviewAdvance,
                ReviewDecision, MergeScreening, GatherProducts
  <1>3. CASE Senders
    BY <1>3 DEF Senders, SendAdvance, SendHumanDecision, advance_stage,
                human_review_completed
  <1>4. CASE Boot \/ IntakeKickoff \/ ReviewKickoff \/ SalesKickoff
    BY <1>4 DEF Boot, IntakeKickoff, ReviewKickoff, SalesKickoff
  <1>10. CASE WaitTimesOut \/ PersistStage \/ ApiWritesRow
    BY <1>10 DEF WaitTimesOut, PersistStage, ApiWritesRow
  <1>5. CASE ScreeningFails \/ KycPersist \/ KycNotify \/ KycStep \/ FraudScreened
    BY <1>5 DEF ScreeningFails, KycPersist, KycNotify, KycStep, KycAttempt, KycError,
                FraudScreened
  <1>6. CASE StartChildren \/ \E p \in Products : ChildStep(p)
    BY <1>6 DEF StartChildren, ChildStep, ChildAttempt, ChildFails
  <1>7. CASE Completion \/ CompleteNotify
    BY <1>7 DEF Completion, CompleteNotify
  <1>8. CASE EscalationAlert \/ EscalationSummary \/ EscalationResolved
    BY <1>8 DEF EscalationAlert, EscalationSummary, EscalationResolved
  <1>9. CASE ActivityFails
    BY <1>9 DEF ActivityFails, LostWrites
  <1> QED
    BY <1>1, <1>2, <1>3, <1>4, <1>5, <1>6, <1>7, <1>8, <1>9, <1>10
    DEF Next, WorkflowStep, StageSteps

\* An escalated case stays escalated, with what is known about it.
LEMMA EscalatedIsFinal ==
  ASSUME WellFormed, [Next]_vars, stage = "ESCALATED"
  PROVE  UNCHANGED <<stage, extra>>
PROOF
  <1>1. ~ StageSteps
    BY DEF StageSteps, IntakeAdvance, SalesAdvance, SalesDecision, ReviewAdvance,
           ReviewDecision, MergeScreening, GatherProducts, WellFormed, PcMatchesStage
  <1> QED BY <1>1, Frame

-----------------------------------------------------------------------------
(* A flag is final, for any senders *)

\* No signal, decision, retry or second screening takes a case out of ESCALATED
\* once its fraud flag is in extra: the theorem needs no assumption on senders.
THEOREM FlagIsFinal == Spec => []FlaggedIsEscalated
PROOF
  <1>1. Init => FlaggedIsEscalated
    BY DEF Init, InitialExtra, FlaggedIsEscalated, Absent
  <1>2. WellFormed /\ FlaggedIsEscalated /\ [Next]_vars => FlaggedIsEscalated'
    <2> SUFFICES ASSUME WellFormed, FlaggedIsEscalated, [Next]_vars
                 PROVE  FlaggedIsEscalated'
      OBVIOUS
    <2>1. CASE stage = "ESCALATED"
      BY <2>1, EscalatedIsFinal DEF FlaggedIsEscalated
    <2>2. CASE MergeScreening
      BY <2>2, ScreenedStageCleared DEF MergeScreening, FlaggedIsEscalated, WellFormed, TypeOK
    <2>3. CASE stage # "ESCALATED" /\ ~ MergeScreening
      <3>1. extra.fraud_screened # "FLAGGED"
        BY <2>3 DEF FlaggedIsEscalated
      <3>2. extra'.fraud_screened = extra.fraud_screened
        BY <2>3, Frame DEF StageSteps, IntakeAdvance, SalesAdvance, SalesDecision,
           ReviewAdvance, ReviewDecision, GatherProducts, WellFormed, TypeOK, Extra
      <3> QED BY <3>1, <3>2 DEF FlaggedIsEscalated
    <2> QED BY <2>1, <2>2, <2>3
  <1> QED BY <1>1, <1>2, WellFormedInit, WellFormedNext, PTL DEF Spec

-----------------------------------------------------------------------------
(* Products, completion and accounts only after clearance *)

\* A new case has no product, no account and no decision waiting.
LEMMA ClearanceInit == Init => ClearanceInv
  BY WellFormedInit
  DEF Init, ClearanceInv, DecisionsOnlyEscalated, AccountsOnlyInComplete, OnboardingIsCleared

\* The stages a handler can choose with the senders the code has: only a
\* screening leads to PARALLEL_PRODUCTS and only the products to COMPLETE.
LEMMA StageChoice ==
  ASSUME DeployedSenders, ClearanceInv, StageSteps
  PROVE  \/ stage' \notin {"PARALLEL_PRODUCTS", "COMPLETE"}
         \/ MergeScreening
         \/ GatherProducts
PROOF
  <1> USE DEF ClearanceInv, WellFormed, PcMatchesStage
  <1>1. CASE IntakeAdvance \/ ReviewAdvance \/ SalesAdvance
    <2>1. advQ # <<>> /\ stage' = Head(advQ).to
      BY <1>1 DEF IntakeAdvance, ReviewAdvance, SalesAdvance, Advance
    <2>2. Head(advQ) \in AdvanceSignal
      BY <2>1, QueueType DEF TypeOK
    <2> QED BY <2>1, <2>2 DEF AdvanceSignal, DeployedSenders
  <1>2. CASE SalesDecision \/ ReviewDecision
    BY <1>2 DEF SalesDecision, ReviewDecision, DecisionsOnlyEscalated
  <1> QED BY <1>1, <1>2 DEF StageSteps

\* With the senders of the code no step lets a case through uncleared.
LEMMA ClearanceNext ==
  ASSUME DeployedSenders, ClearanceInv, [Next]_vars
  PROVE  ClearanceInv'
PROOF
  <1>1. WellFormed'
    BY WellFormedNext DEF ClearanceInv
  <1>2. DecisionsOnlyEscalated'
    <2>1. CASE stage = "ESCALATED"
      BY <2>1, EscalatedIsFinal DEF ClearanceInv, DecisionsOnlyEscalated
    <2>2. CASE stage # "ESCALATED"
      <3>1. humQ = <<>>
        BY <2>2 DEF ClearanceInv, DecisionsOnlyEscalated
      <3>2. humQ' = humQ
        BY <2>2, <3>1, Frame DEF SalesDecision, ReviewDecision, DeployedSenders
      <3> QED BY <3>1, <3>2 DEF DecisionsOnlyEscalated
    <2> QED BY <2>1, <2>2
  <1>3. AccountsOnlyInComplete'
    <2>1. CASE StageSteps
      <3>1. stage # "COMPLETE"
        BY <2>1 DEF StageSteps, IntakeAdvance, SalesAdvance, SalesDecision, ReviewAdvance,
           ReviewDecision, MergeScreening, GatherProducts, ClearanceInv, WellFormed,
           PcMatchesStage
      <3>2. accounts = {} /\ accounts' = accounts
        BY <2>1, <3>1 DEF StageSteps, IntakeAdvance, SalesAdvance, SalesDecision,
           ReviewAdvance, ReviewDecision, MergeScreening, GatherProducts, db, ClearanceInv,
           AccountsOnlyInComplete
      <3> QED BY <3>2 DEF AccountsOnlyInComplete
    <2>2. CASE ~ StageSteps
      BY <2>2, Frame DEF AccountsOnlyInComplete, ClearanceInv, WellFormed, PcMatchesStage
    <2> QED BY <2>1, <2>2
  <1>4. OnboardingIsCleared'
    <2>1. CASE ~ StageSteps
      BY <2>1, Frame DEF ClearanceInv, OnboardingIsCleared, Cleared
    <2>2. CASE MergeScreening
      BY <2>2, ScreenedStageCleared
      DEF MergeScreening, ClearanceInv, WellFormed, TypeOK, OnboardingIsCleared, Cleared
    <2>3. CASE GatherProducts
      BY <2>3 DEF GatherProducts, ClearanceInv, WellFormed, PcMatchesStage,
                  OnboardingIsCleared, Cleared
    <2>4. CASE StageSteps /\ ~ MergeScreening /\ ~ GatherProducts
      BY <2>4, StageChoice DEF OnboardingIsCleared
    <2> QED BY <2>1, <2>2, <2>3, <2>4
  <1> QED BY <1>1, <1>2, <1>3, <1>4 DEF ClearanceInv

\* A case whose client is not cleared by KYC and by fraud screening has no
\* product track, is not complete and has no account, for the senders of the code.
THEOREM OnboardingNeedsClearance ==
  ASSUME DeployedSenders
  PROVE  Spec => []ProductsOnlyAfterClearance
PROOF
  <1>1. ClearanceInv => ProductsOnlyAfterClearance
    BY DEF ClearanceInv, ProductsOnlyAfterClearance, AccountsOnlyInComplete,
           OnboardingIsCleared
  <1>2. ClearanceInv /\ [Next]_vars => ClearanceInv'
    BY ClearanceNext
  <1> QED BY ClearanceInit, <1>1, <1>2, PTL DEF Spec

-----------------------------------------------------------------------------
(* The row the API reads, and the accounts *)

\* Where the coroutine goes after a handler has chosen a stage.
LEMMA DispatchPc ==
  ASSUME NEW s \in Stages, Dispatch(s)
  PROVE  /\ pc' = EntryPc(s)
         /\ pc' \notin {"persist", "kycPersist", "closed", "completeNotify"}
  BY DEF Dispatch, EntryPc, Stages

\* When nobody else writes the row, it names the stage wherever the workflow
\* rests and when it has completed, as long as no write was swallowed.
LEMMA RowInvNext ==
  ASSUME ApiRows = {}, WellFormed, RowInv, [Next]_vars
  PROVE  RowInv'
PROOF
  <1> USE BoundAssumption DEF RowInv, ClosedIsEnded, local, queues, runs, db
  <1>0. /\ stage \in Stages /\ faults \in Nat /\ PcMatchesStage
        /\ status \in {"RUNNING", "COMPLETED", "FAILED"}
    BY DEF WellFormed, TypeOK
  <1>1. CASE UNCHANGED vars
    BY <1>1 DEF vars
  <1>2. CASE Senders
    BY <1>2 DEF Senders, SendAdvance, SendHumanDecision, advance_stage, human_review_completed
  <1>3. CASE ApiWritesRow
    BY <1>3 DEF ApiWritesRow
  <1>4. CASE Boot \/ ReviewKickoff \/ EscalationSummary
    BY <1>4 DEF Boot, ReviewKickoff, EscalationSummary
  <1>5. CASE IntakeKickoff \/ KycNotify
    BY <1>0, <1>5, DispatchPc DEF IntakeKickoff, KycNotify
  <1>6. CASE StageSteps
    <2>1. pc' \in {"persist", "kycPersist"} /\ status' = status /\ pc # "closed"
      BY <1>6 DEF StageSteps, IntakeAdvance, SalesAdvance, SalesDecision, ReviewAdvance,
                  ReviewDecision, MergeScreening, GatherProducts
    <2> QED BY <2>1
  <1>7. CASE SalesKickoff
    BY <1>0, <1>7 DEF SalesKickoff, WriteRow, Swallowed, Lost, PcMatchesStage
  <1>8. CASE WaitTimesOut \/ ScreeningFails \/ ActivityFails \/ \E p \in Products : ChildFails(p)
    <2>1. pc' = "closed" /\ status' = "FAILED"
      BY <1>8 DEF WaitTimesOut, ScreeningFails, ActivityFails, ChildFails, Close
    <2> QED BY <2>1
  <1>9. CASE PersistStage
    <2>1. faults' = 0 => faults = 0 /\ row' = stage
      BY <1>0, <1>9 DEF PersistStage, WriteRow, Swallowed, Lost
    <2>2. stage' = stage /\ status' = status /\ pc # "closed" /\ Dispatch(stage)
      BY <1>9 DEF PersistStage
    <2> QED BY <1>0, <2>1, <2>2, DispatchPc
  <1>10. CASE KycPersist
    BY <1>0, <1>10 DEF KycPersist, WriteRow, Swallowed, Lost
  <1>11. CASE KycStep \/ FraudScreened
    BY <1>11 DEF KycStep, KycAttempt, KycError, FraudScreened
  <1>12. CASE StartChildren
    BY <1>12 DEF StartChildren
  <1>13. CASE \E p \in Products : ChildAttempt(p)
    BY <1>0, <1>13 DEF ChildAttempt, Swallowed, Lost
  <1>14. CASE Completion
    BY <1>0, <1>14 DEF Completion, Swallowed, Lost, PcMatchesStage
  <1>15. CASE CompleteNotify \/ EscalationResolved
    BY <1>15 DEF CompleteNotify, EscalationResolved, Close
  <1>16. CASE EscalationAlert
    BY <1>0, <1>16 DEF EscalationAlert, PcMatchesStage
  <1> QED
    BY <1>1, <1>2, <1>3, <1>4, <1>5, <1>6, <1>7, <1>8, <1>9, <1>10, <1>11, <1>12, <1>13, <1>14,
       <1>15, <1>16
    DEF Next, WorkflowStep, StageSteps, ChildStep

\* Wherever the workflow rests, and when it has completed, the row that the API
\* and the frontend read is its stage, unless a write was swallowed or somebody
\* else writes the row (onboarding_workflow.py, persist_stage_activity).
THEOREM RowNamesStage ==
  ASSUME ApiRows = {}
  PROVE  Spec => []RowMatchesStage
PROOF
  <1>1. Init => RowInv
    BY DEF Init, RowInv, ClosedIsEnded
  <1>2. RowInv => RowMatchesStage
    BY DEF RowInv, RowMatchesStage, WaitPcs
  <1>3. WellFormed /\ RowInv /\ [Next]_vars => RowInv'
    BY RowInvNext
  <1> QED BY WellFormedInit, WellFormedNext, <1>1, <1>2, <1>3, PTL DEF Spec

\* The products are chosen before COMPLETE is entered, and nothing but the
\* completion activity opens an account.
LEMMA ProvisionNext ==
  ASSUME WellFormed, ProvisionInv, [Next]_vars
  PROVE  ProvisionInv'
PROOF
  <1> USE BoundAssumption DEF ProvisionInv, ClosedIsEnded, local, queues, runs, db
  <1>0. /\ stage \in Stages /\ faults \in Nat /\ PcMatchesStage
        /\ status \in {"RUNNING", "COMPLETED", "FAILED"}
    BY DEF WellFormed, TypeOK
  <1>1. CASE UNCHANGED <<pc, status, stage, selected, accounts>> /\ (faults' = 0 => faults = 0)
    BY <1>1
  <1>2. CASE StageSteps
    <2>1. /\ pc' \in {"persist", "kycPersist"} /\ status' = status /\ accounts' = accounts
          /\ pc \notin {"completeNotify", "closed"}
      BY <1>2 DEF StageSteps, IntakeAdvance, SalesAdvance, SalesDecision, ReviewAdvance,
                  ReviewDecision, MergeScreening, GatherProducts
    <2> QED BY <2>1
  <1>3. CASE \/ Boot \/ ReviewKickoff \/ EscalationSummary \/ SalesKickoff \/ KycPersist
             \/ StartChildren \/ EscalationAlert
    <2>1. /\ UNCHANGED <<status, accounts>>
          /\ pc' \notin {"completeNotify", "closed"} /\ pc \notin {"completeNotify", "closed"}
      BY <1>3 DEF Boot, ReviewKickoff, EscalationSummary, SalesKickoff, KycPersist, StartChildren,
                  EscalationAlert
    <2> QED BY <2>1
  <1>4. CASE IntakeKickoff \/ KycNotify \/ PersistStage
    <2>1. /\ UNCHANGED <<status, accounts>> /\ pc \notin {"completeNotify", "closed"} /\ Dispatch(stage)
      BY <1>4 DEF IntakeKickoff, KycNotify, PersistStage
    <2> QED BY <1>0, <2>1, DispatchPc
  <1>5. CASE Completion
    <2>1. /\ accounts = {} /\ stage = "COMPLETE"
          /\ accounts' \in {{}, Range1(selected)}
          /\ faults' = 0 => accounts' = Range1(selected)
          /\ pc' = "completeNotify" /\ UNCHANGED <<stage, selected, status>> /\ pc # "closed"
      BY <1>0, <1>5 DEF Completion, Swallowed, Lost, PcMatchesStage
    <2>2. Range1(selected)' = Range1(selected)
      BY <2>1 DEF Range1
    <2> QED BY <2>1, <2>2
  <1>6. CASE CompleteNotify \/ EscalationResolved
    <2>1. /\ UNCHANGED <<stage, selected, accounts, faults>> /\ pc' = "closed" /\ status' = "COMPLETED"
          /\ pc = "completeNotify" \/ stage = "ESCALATED"
      BY <1>0, <1>6 DEF CompleteNotify, EscalationResolved, Close, PcMatchesStage
    <2>2. Range1(selected)' = Range1(selected)
      BY <2>1 DEF Range1
    <2> QED BY <2>1, <2>2
  <1>7. CASE WaitTimesOut \/ ScreeningFails \/ ActivityFails \/ \E p \in Products : ChildFails(p)
    <2>1. /\ pc' = "closed" /\ status' = "FAILED" /\ UNCHANGED <<stage, selected>>
          /\ accounts' = accounts \/ (pc = "completion" /\ accounts' = accounts \cup Range1(selected))
      BY <1>7 DEF WaitTimesOut, ScreeningFails, ActivityFails, ChildFails, Close, LostWrites
    <2>2. Range1(selected)' = Range1(selected)
      BY <2>1 DEF Range1
    <2>3. pc = "completion" => accounts = {} /\ stage = "COMPLETE"
      BY <1>0 DEF PcMatchesStage
    <2> QED BY <2>1, <2>2, <2>3
  <1>8. CASE Senders \/ ApiWritesRow \/ KycStep \/ FraudScreened \/ \E p \in Products : ChildAttempt(p)
    <2>1. UNCHANGED <<pc, status, stage, selected, accounts>>
      BY <1>8 DEF Senders, SendAdvance, SendHumanDecision, advance_stage, human_review_completed,
                  ApiWritesRow, KycStep, KycAttempt, KycError, FraudScreened, ChildAttempt
    <2>2. CASE Senders \/ ApiWritesRow \/ KycError \/ FraudScreened
      BY <1>1, <2>1, <2>2 DEF Senders, SendAdvance, SendHumanDecision, advance_stage,
                              human_review_completed, ApiWritesRow, KycError, FraudScreened
    <2>3. CASE KycAttempt
      <3>1. \E n \in {0, 1} : Swallowed(n)
        BY <2>3 DEF KycAttempt, WriteRow, Lost
      <3> QED BY <1>0, <1>1, <2>1, <3>1 DEF Swallowed
    <2>4. CASE \E p \in Products : ChildAttempt(p)
      <3>1. \E n \in {0, 1} : Swallowed(n)
        BY <2>4 DEF ChildAttempt, Lost
      <3> QED BY <1>0, <1>1, <2>1, <3>1 DEF Swallowed
    <2> QED BY <1>8, <2>2, <2>3, <2>4 DEF KycStep
  <1>9. CASE UNCHANGED vars
    BY <1>1, <1>9 DEF vars
  <1> QED
    BY <1>2, <1>3, <1>4, <1>5, <1>6, <1>7, <1>8, <1>9 DEF Next, WorkflowStep, StageSteps, ChildStep

\* A completed case has an account for each product selected at that moment and
\* for no other, unless a write was swallowed, for any senders
\* (completion_activity).
THEOREM CompletionProvisions == Spec => []CompletedIsProvisioned
PROOF
  <1>1. Init => ProvisionInv
    BY DEF Init, ProvisionInv, ClosedIsEnded
  <1>2. ProvisionInv => CompletedIsProvisioned
    BY DEF ProvisionInv, CompletedIsProvisioned
  <1>3. WellFormed /\ ProvisionInv /\ [Next]_vars => ProvisionInv'
    BY ProvisionNext
  <1> QED BY WellFormedInit, WellFormedNext, <1>1, <1>2, <1>3, PTL DEF Spec

-----------------------------------------------------------------------------
(* Refinement *)

\* The phase of ClientClearance that each stage stands for.
LEMMA PhaseOf ==
  ASSUME NEW s \in Stages, stage = s
  PROVE  /\ phaseBar = "collecting" <=> s \in {"INTAKE", "SALES_REVIEW", "REVIEW"}
         /\ phaseBar = "screening" <=> s = "KYC"
         /\ phaseBar = "onboarding" <=> s = "PARALLEL_PRODUCTS"
         /\ phaseBar = "complete" <=> s = "COMPLETE"
         /\ phaseBar = "escalated" <=> s = "ESCALATED"
  BY DEF phaseBar, Stages

\* The same after a step.
LEMMA PhaseOfNext ==
  ASSUME NEW s \in Stages, stage' = s
  PROVE  /\ phaseBar' = "collecting" <=> s \in {"INTAKE", "SALES_REVIEW", "REVIEW"}
         /\ phaseBar' = "screening" <=> s = "KYC"
         /\ phaseBar' = "onboarding" <=> s = "PARALLEL_PRODUCTS"
         /\ phaseBar' = "complete" <=> s = "COMPLETE"
         /\ phaseBar' = "escalated" <=> s = "ESCALATED"
  BY DEF phaseBar, Stages

\* Every step of the workflow is a step of ClientClearance or leaves it alone.
THEOREM WorkflowImplementsClearance ==
  ASSUME DeployedSenders
  PROVE  Spec => ImplementsClearance
PROOF
  <1>1. Init => Clearance!Init
    BY PhaseOf DEF Init, InitialExtra, Cleared, Clearance!Init, Stages
  <1>2. ClearanceInv /\ [Next]_vars => [Clearance!Next]_<<phaseBar, Cleared, accounts>>
    <2> SUFFICES ASSUME ClearanceInv, [Next]_vars
                 PROVE  [Clearance!Next]_<<phaseBar, Cleared, accounts>>
      OBVIOUS
    <2>1. stage \in Stages /\ stage' \in Stages /\ accounts' \subseteq Products
      BY WellFormedNext DEF ClearanceInv, WellFormed, TypeOK
    <2>2. stage' = stage => phaseBar' = phaseBar
      BY DEF phaseBar
    <2>3. CASE StageSteps
      <3> USE DEF ClearanceInv, WellFormed, PcMatchesStage
      <3>1. accounts' = accounts
        BY <2>3 DEF StageSteps, IntakeAdvance, SalesAdvance, SalesDecision, ReviewAdvance,
           ReviewDecision, MergeScreening, GatherProducts, db
      <3>2. CASE MergeScreening
        <4>1. /\ stage = "KYC" /\ stage' \in {"PARALLEL_PRODUCTS", "ESCALATED"}
              /\ Cleared' = (stage' = "PARALLEL_PRODUCTS")
          BY <3>2, ScreenedStageCleared DEF MergeScreening, TypeOK, Cleared
        <4> QED BY <2>1, <3>1, <4>1, PhaseOf, PhaseOfNext
                DEF Clearance!Next, Clearance!Clear, Clearance!Refuse
      <3>3. CASE GatherProducts
        <4>1. /\ stage = "PARALLEL_PRODUCTS" /\ stage' \in {"REVIEW", "COMPLETE"}
              /\ Cleared' = Cleared
          BY <3>3 DEF GatherProducts, Cleared
        <4> QED BY <2>1, <3>1, <4>1, PhaseOf, PhaseOfNext
                DEF Clearance!Next, Clearance!Onboarded
      <3>4. CASE ~ MergeScreening /\ ~ GatherProducts
        <4>0. Cleared' = Cleared
          BY <2>3, <3>4 DEF StageSteps, IntakeAdvance, SalesAdvance, SalesDecision,
             ReviewAdvance, ReviewDecision, TypeOK, Extra, Cleared
        <4>1. stage \in {"INTAKE", "SALES_REVIEW", "REVIEW"}
          BY <2>3, <3>4 DEF StageSteps, IntakeAdvance, SalesAdvance, SalesDecision,
             ReviewAdvance, ReviewDecision
        <4>2. stage' \in {"INTAKE", "SALES_REVIEW", "REVIEW", "KYC", "ESCALATED"}
          BY <2>1, <2>3, <3>4, StageChoice DEF Stages
        <4>3. CASE stage' \in {"INTAKE", "SALES_REVIEW", "REVIEW"}
          <5>1. phaseBar = "collecting" /\ phaseBar' = "collecting"
            BY <2>1, <4>1, <4>3, PhaseOf, PhaseOfNext
          <5> QED BY <3>1, <4>0, <5>1
        <4>4. CASE stage' \in {"KYC", "ESCALATED"}
          BY <2>1, <3>1, <4>0, <4>1, <4>4, PhaseOf, PhaseOfNext
          DEF Clearance!Next, Clearance!Screen, Clearance!Escalate
        <4> QED BY <4>2, <4>3, <4>4
      <3> QED BY <3>2, <3>3, <3>4
    <2>4. CASE ~ StageSteps
      <3>1. stage' = stage /\ Cleared' = Cleared
        BY <2>4, Frame DEF Cleared
      <3>2. CASE accounts' = accounts
        BY <2>2, <3>1, <3>2
      <3>3. CASE accounts' # accounts
        <4>1. stage = "COMPLETE" /\ accounts' # {}
          BY <3>3, Frame DEF ClearanceInv, WellFormed, PcMatchesStage
        <4> QED BY <2>1, <2>2, <3>1, <4>1, PhaseOf DEF Clearance!Next, Clearance!Provision
      <3> QED BY <3>2, <3>3
    <2> QED BY <2>3, <2>4
  <1>3. ClearanceInv /\ [Next]_vars => ClearanceInv'
    BY ClearanceNext
  <1> QED BY ClearanceInit, <1>1, <1>2, <1>3, PTL DEF Spec, Clearance!Spec, ImplementsClearance

-----------------------------------------------------------------------------
(* Every step uses something up *)

\* A screening chooses the products or the way out, and the two awaits behind it
\* leave the choice alone.
LEMMA ScreenedGoesOnNext ==
  ASSUME WellFormed, ScreenedGoesOn, [Next]_vars
  PROVE  ScreenedGoesOn'
PROOF
  <1> USE DEF ScreenedGoesOn
  <1>1. CASE MergeScreening
    <2>1. stage' \in {"PARALLEL_PRODUCTS", "ESCALATED"}
      BY <1>1, ScreenedStageCleared DEF MergeScreening, WellFormed, TypeOK
    <2> QED BY <2>1
  <1>2. CASE KycPersist
    BY <1>2 DEF KycPersist
  <1>3. ASSUME pc' = pc, stage' = stage PROVE ScreenedGoesOn'
    BY <1>3
  <1>4. ASSUME pc' \notin {"kycPersist", "kycNotify"} PROVE ScreenedGoesOn'
    BY <1>4
  <1>5. CASE UNCHANGED vars \/ Senders \/ ApiWritesRow \/ KycStep \/ FraudScreened
    BY <1>3, <1>5 DEF vars, local, Senders, SendAdvance, SendHumanDecision, advance_stage,
                      human_review_completed, ApiWritesRow, KycStep, KycAttempt, KycError, FraudScreened
  <1>6. CASE \E p \in Products : ChildStep(p)
    BY <1>3, <1>4, <1>6 DEF local, ChildStep, ChildAttempt, ChildFails, Close
  <1>7. CASE IntakeKickoff \/ PersistStage \/ KycNotify
    <2>1. pc' = EntryPc(stage) /\ stage \in Stages
      BY <1>7 DEF IntakeKickoff, PersistStage, KycNotify, Dispatch, WellFormed, TypeOK
    <2> QED BY <1>4, <2>1, EntryPcType DEF PersistPcs
  <1>8. CASE WorkflowStep /\ ~MergeScreening /\ ~KycPersist /\ ~IntakeKickoff /\ ~PersistStage /\ ~KycNotify
    <2>1. pc' \in {"intakeKickoff", "persist", "salesWait", "reviewWait", "closed", "gather",
                   "completeNotify", "escSummary", "escWait"}
      BY <1>8 DEF WorkflowStep, Boot, IntakeAdvance, SalesKickoff, ReviewKickoff, SalesAdvance,
                  SalesDecision, ReviewAdvance, ReviewDecision, WaitTimesOut, ScreeningFails,
                  StartChildren, GatherProducts, Completion, CompleteNotify, EscalationAlert,
                  EscalationSummary, EscalationResolved, ActivityFails, Close
    <2> QED BY <1>4, <2>1
  <1> QED BY <1>1, <1>2, <1>5, <1>6, <1>7, <1>8 DEF Next

\* A signal sent is one less to send, and one taken is one less to take.
LEMMA SignalsUsed ==
  ASSUME TypeOK,
         Senders \/ IntakeAdvance \/ SalesAdvance \/ SalesDecision \/ ReviewAdvance \/ ReviewDecision
  PROVE  Unheard' < Unheard
PROOF
  <1> DEFINE a == sent.adv   h == sent.hum   i == Len(advQ)   j == Len(humQ)
             b == sent'.adv  g == sent'.hum  k == Len(advQ')  l == Len(humQ')
  <1>1. /\ advQ \in Seq(AdvanceSignal) /\ humQ \in Seq(HumanDecisions)
        /\ sent \in [adv : 0 .. MaxAdvance, hum : 0 .. MaxHuman]
    BY DEF TypeOK
  <1>2. a \in Int /\ h \in Int /\ i \in Int /\ j \in Int
    BY <1>1, LenProperties, BoundAssumption
  <1>3. \/ b = a + 1 /\ g = h /\ k = i + 1 /\ l = j
        \/ b = a /\ g = h + 1 /\ k = i /\ l = j + 1
        \/ b = a /\ g = h /\ k = i - 1 /\ l = j
        \/ b = a /\ g = h /\ k = i /\ l = j - 1
    <2>1. CASE SendAdvance
      <3>1. PICK x : advQ' = Append(advQ, x) /\ x \in AdvanceSignal
        BY <2>1 DEF SendAdvance, advance_stage, AdvanceSignal
      <3>2. Len(advQ') = Len(advQ) + 1 /\ humQ' = humQ
        BY <1>1, <2>1, <3>1, AppendProperties DEF SendAdvance, advance_stage
      <3>3. sent'.adv = sent.adv + 1 /\ sent'.hum = sent.hum
        BY <1>1, <2>1, BoundAssumption DEF SendAdvance
      <3> QED BY <3>2, <3>3
    <2>2. CASE SendHumanDecision
      <3>1. PICK x \in HumanDecisions : humQ' = Append(humQ, x)
        BY <2>2 DEF SendHumanDecision, human_review_completed
      <3>2. Len(humQ') = Len(humQ) + 1 /\ advQ' = advQ
        BY <1>1, <2>2, <3>1, AppendProperties DEF SendHumanDecision, human_review_completed
      <3>3. sent'.hum = sent.hum + 1 /\ sent'.adv = sent.adv
        BY <1>1, <2>2, BoundAssumption DEF SendHumanDecision
      <3> QED BY <3>2, <3>3
    <2>3. CASE IntakeAdvance \/ SalesAdvance \/ ReviewAdvance
      <3>1. advQ # <<>> /\ advQ' = Tail(advQ) /\ humQ' = humQ /\ sent' = sent
        BY <2>3 DEF IntakeAdvance, SalesAdvance, ReviewAdvance
      <3>2. Len(advQ') = Len(advQ) - 1
        BY <1>1, <3>1, HeadTailProperties
      <3> QED BY <3>1, <3>2
    <2>4. CASE SalesDecision \/ ReviewDecision
      <3>1. humQ # <<>> /\ humQ' = Tail(humQ) /\ advQ' = advQ /\ sent' = sent
        BY <2>4 DEF SalesDecision, ReviewDecision
      <3>2. Len(humQ') = Len(humQ) - 1
        BY <1>1, <3>1, HeadTailProperties
      <3> QED BY <3>1, <3>2
    <2> QED BY <2>1, <2>2, <2>3, <2>4 DEF Senders
  <1>4. /\ Unheard = 2 * ((MaxAdvance - a) + (MaxHuman - h)) + i + j
        /\ Unheard' = 2 * ((MaxAdvance - b) + (MaxHuman - g)) + k + l
    BY DEF Unheard
  <1> HIDE DEF a, b, g, h, i, j, k, l
  <1> QED BY <1>2, <1>3, <1>4, BoundAssumption

\* An await of a handler is behind the workflow once it is over.
LEMMA AwaitUsed ==
  ASSUME WellFormed, ScreenedGoesOn,
         \/ WorkflowStep /\ ~(\/ IntakeAdvance \/ SalesAdvance \/ SalesDecision
                              \/ ReviewAdvance \/ ReviewDecision)
         \/ \E p \in Products : ChildFails(p)
  PROVE  Unheard' = Unheard /\ AwaitsLeft' < AwaitsLeft
PROOF
  <1> USE DEF WellFormed, WaitPcs
  <1>1. /\ pc \in Pcs /\ stage \in Stages /\ PcMatchesStage
    BY DEF TypeOK
  <1>2. UNCHANGED <<advQ, humQ, sent>>
    BY DEF WorkflowStep, ChildFails, Boot, IntakeKickoff, SalesKickoff, ReviewKickoff, WaitTimesOut,
           PersistStage, MergeScreening, ScreeningFails, KycPersist, KycNotify, StartChildren,
           GatherProducts, Completion, CompleteNotify, EscalationAlert, EscalationSummary,
           EscalationResolved, ActivityFails, queues
  <1>3. Unheard' = Unheard
    BY <1>2 DEF Unheard
  <1>4. ASSUME pc # "closed", pc' = "closed" PROVE AwaitsLeft' < AwaitsLeft
    BY <1>1, <1>4 DEF AwaitsLeft, Pcs, ActivityPcs, KickoffPcs, PersistPcs, Stages
  <1>5. CASE \/ WaitTimesOut \/ ScreeningFails \/ CompleteNotify \/ EscalationResolved \/ ActivityFails
             \/ \E p \in Products : ChildFails(p)
    <2>1. pc # "closed" /\ pc' = "closed"
      BY <1>5 DEF WaitTimesOut, ScreeningFails, CompleteNotify, EscalationResolved, ActivityFails,
                  ChildFails, Close, ActivityPcs, KickoffPcs, PersistPcs
    <2> QED BY <1>3, <1>4, <2>1
  <1>6. CASE Boot \/ SalesKickoff \/ ReviewKickoff \/ KycPersist \/ StartChildren \/ Completion
             \/ EscalationAlert \/ EscalationSummary
    <2>1. \/ pc = "boot" /\ pc' = "intakeKickoff"
          \/ pc = "salesKickoff" /\ pc' = "salesWait"
          \/ pc = "reviewKickoff" /\ pc' = "reviewWait"
          \/ pc = "kycPersist" /\ pc' = "kycNotify"
          \/ pc = "start" /\ pc' = "gather"
          \/ pc = "completion" /\ pc' = "completeNotify"
          \/ pc = "escAlert" /\ pc' = "escSummary"
          \/ pc = "escSummary" /\ pc' = "escWait"
      BY <1>6 DEF Boot, SalesKickoff, ReviewKickoff, KycPersist, StartChildren, Completion,
                  EscalationAlert, EscalationSummary
    <2> QED BY <1>3, <2>1 DEF AwaitsLeft
  <1>7. CASE MergeScreening
    <2>1. pc = "screening" /\ pc' = "kycPersist"
      BY <1>7 DEF MergeScreening
    <2> QED BY <1>3, <2>1 DEF AwaitsLeft
  <1>8. CASE GatherProducts
    <2>1. pc = "gather" /\ pc' = "persist" /\ stage' \notin {"KYC", "PARALLEL_PRODUCTS"}
      BY <1>8 DEF GatherProducts
    <2> QED BY <1>3, <2>1 DEF AwaitsLeft
  <1>9. CASE IntakeKickoff \/ PersistStage \/ KycNotify
    <2>1. /\ pc' = EntryPc(stage) /\ stage' = stage
          /\ \/ pc = "intakeKickoff" /\ stage = "INTAKE"
             \/ pc = "persist"
             \/ pc = "kycNotify" /\ stage \in {"PARALLEL_PRODUCTS", "ESCALATED"}
      BY <1>1, <1>9 DEF IntakeKickoff, PersistStage, KycNotify, Dispatch, ScreenedGoesOn, PcMatchesStage
    <2> QED BY <1>1, <1>3, <2>1 DEF AwaitsLeft, EntryPc, Stages
  <1> QED BY <1>5, <1>6, <1>7, <1>8, <1>9 DEF WorkflowStep

\* An answer of an activity is one less to wait for, and an attempt that is lost
\* one less to make.
LEMMA TaskIsUsed ==
  ASSUME TypeOK, KycStep \/ FraudScreened \/ \E p \in Products : ChildAttempt(p)
  PROVE  /\ Unheard' = Unheard /\ AwaitsLeft' = AwaitsLeft
         /\ TasksLeft' \subseteq TasksLeft /\ TasksLeft' # TasksLeft
PROOF
  <1> USE BoundAssumption DEF local, queues, TypeOK
  <1>1. Unheard' = Unheard /\ AwaitsLeft' = AwaitsLeft
    BY DEF Unheard, AwaitsLeft, KycStep, KycAttempt, KycError, FraudScreened, ChildAttempt
  <1> DEFINE Left(f) == {a \in (Products \cup {"kyc"}) \X (1 .. MaxAttempts) : f[a[1]] < a[2]}
             Due(k, f) == {a \in {<<"kyc", 0>>, <<"fraud", 0>>} :
                             IF a[1] = "kyc" THEN k = "RUNNING" ELSE f = "RUNNING"}
  <1>2. TasksLeft = Left(tries) \cup Due(kycRun, fraudRun)
    BY DEF TasksLeft
  <1>3. TasksLeft' = Left(tries') \cup Due(kycRun', fraudRun')
    BY DEF TasksLeft
  <1>4. \A k, f, k2, f2 : (k2 = "RUNNING" => k = "RUNNING") /\ (f2 = "RUNNING" => f = "RUNNING")
          => Due(k2, f2) \subseteq Due(k, f)
    OBVIOUS
  <1>5. ASSUME NEW t \in Products \cup {"kyc"}, tries[t] < MaxAttempts,
               tries' = [tries EXCEPT ![t] = @ + 1]
        PROVE  /\ Left(tries') \subseteq Left(tries)
               /\ <<t, tries[t] + 1>> \in Left(tries) /\ <<t, tries[t] + 1>> \notin Left(tries')
    <2>1. \A u \in Products \cup {"kyc"} : tries[u] \in Nat /\ tries'[u] \in Nat /\ tries[u] <= tries'[u]
      BY <1>5
    <2>2. tries'[t] = tries[t] + 1 /\ tries[t] + 1 \in 1 .. MaxAttempts
      BY <1>5
    <2> QED BY <2>1, <2>2
  <1>6. \A k, f, n, t : n # 0 => <<t, n>> \notin Due(k, f)
    OBVIOUS
  <1>7. CASE KycAttempt \/ \E p \in Products : ChildAttempt(p)
    <2>1. PICK t \in Products \cup {"kyc"} : tries[t] < MaxAttempts /\ tries' = [tries EXCEPT ![t] = @ + 1]
      BY <1>7 DEF KycAttempt, ChildAttempt
    <2>2. fraudRun' = fraudRun /\ (kycRun' = "RUNNING" => kycRun = "RUNNING")
      BY <1>7 DEF KycAttempt, ChildAttempt
    <2>3. tries[t] + 1 # 0
      BY <2>1
    <2> HIDE DEF Left, Due
    <2>4. Due(kycRun', fraudRun') \subseteq Due(kycRun, fraudRun)
      BY <1>4, <2>2
    <2> QED BY <1>1, <1>2, <1>3, <1>5, <1>6, <2>1, <2>3, <2>4
  <1>8. CASE KycError \/ FraudScreened
    <2>1. tries' = tries
      BY <1>8 DEF KycError, FraudScreened
    <2>2. \/ kycRun = "RUNNING" /\ kycRun' # "RUNNING" /\ fraudRun' = fraudRun
          \/ fraudRun = "RUNNING" /\ fraudRun' # "RUNNING" /\ kycRun' = kycRun
      BY <1>8 DEF KycError, FraudScreened
    <2>3. Due(kycRun', fraudRun') \subseteq Due(kycRun, fraudRun)
      BY <2>2
    <2>4. \/ <<"kyc", 0>> \in Due(kycRun, fraudRun) \ Due(kycRun', fraudRun')
          \/ <<"fraud", 0>> \in Due(kycRun, fraudRun) \ Due(kycRun', fraudRun')
      BY <2>2
    <2>5. \A t : <<t, 0>> \notin Left(tries)
      OBVIOUS
    <2> HIDE DEF Left, Due
    <2> QED BY <1>1, <1>2, <1>3, <2>1, <2>3, <2>4, <2>5
  <1> QED BY <1>7, <1>8 DEF KycStep

\* Whatever signals arrive, and in whatever stage, each step of a case uses up
\* a signal, an await or an attempt: a handler that looks at a signal without
\* taking it, or a screening that leads back to a screening, would be a step that
\* does not (onboarding_workflow.py, run).
THEOREM EveryStepUsesUp == Spec => EveryStepCounts
PROOF
  <1>1. Init => ScreenedGoesOn
    BY DEF Init, ScreenedGoesOn
  <1>2. WellFormed /\ ScreenedGoesOn /\ [Next]_vars => ScreenedGoesOn'
    BY ScreenedGoesOnNext
  <1>3. WellFormed /\ ScreenedGoesOn /\ [Next]_vars => [UsesUp \/ ApiWritesRow]_vars
    <2> SUFFICES ASSUME WellFormed, ScreenedGoesOn, Next, ~ApiWritesRow PROVE UsesUp
      OBVIOUS
    <2>1. \/ Senders \/ WorkflowStep \/ KycStep \/ FraudScreened
          \/ \E p \in Products : ChildAttempt(p) \/ ChildFails(p)
      BY DEF Next, ChildStep
    <2> QED BY <2>1, SignalsUsed, AwaitUsed, TaskIsUsed DEF UsesUp, WellFormed
  <1> QED BY WellFormedInit, WellFormedNext, <1>1, <1>2, <1>3, PTL DEF Spec, EveryStepCounts

\* The order of that: signals first, awaits next, tasks last.
AllTasks == (Products \cup {"kyc", "fraud"}) \X (0 .. MaxAttempts)
TaskRanks == FiniteSubsetsOf(AllTasks)
Ranks == Nat \X (Nat \X TaskRanks)
Lower ==
  LexPairOrdering(OpToRel(<, Nat),
                  LexPairOrdering(OpToRel(<, Nat), StrictSubsetOrdering(AllTasks), Nat, TaskRanks),
                  Nat, Nat \X TaskRanks)
Rank == <<Unheard, <<AwaitsLeft, TasksLeft>>>>

\* What is left of a case is a rank.
LEMMA RankType ==
  ASSUME IsFiniteSet(Products), TypeOK
  PROVE  Rank \in Ranks
PROOF
  <1>1. Unheard \in Nat
    <2>1. /\ advQ \in Seq(AdvanceSignal) /\ humQ \in Seq(HumanDecisions)
          /\ sent.adv \in 0 .. MaxAdvance /\ sent.hum \in 0 .. MaxHuman
      BY DEF TypeOK
    <2>2. Len(advQ) \in Nat /\ Len(humQ) \in Nat
      BY <2>1, LenProperties
    <2> DEFINE a == sent.adv  h == sent.hum  i == Len(advQ)  j == Len(humQ)
    <2>3. a \in 0 .. MaxAdvance /\ h \in 0 .. MaxHuman /\ i \in Nat /\ j \in Nat
      BY <2>1, <2>2
    <2>4. Unheard = 2 * ((MaxAdvance - a) + (MaxHuman - h)) + i + j
      BY DEF Unheard
    <2> HIDE DEF a, h, i, j
    <2> QED BY <2>3, <2>4, BoundAssumption
  <1>2. AwaitsLeft \in Nat
    BY DEF AwaitsLeft, TypeOK, Pcs, ActivityPcs, KickoffPcs, PersistPcs, WaitPcs, Stages
  <1>3. TasksLeft \in TaskRanks
    <2>1. IsFiniteSet(Products \cup {"kyc", "fraud"})
      <3>1. IsFiniteSet(Products \cup {"kyc"})
        BY FS_AddElement
      <3>2. IsFiniteSet((Products \cup {"kyc"}) \cup {"fraud"})
        BY <3>1, FS_AddElement
      <3>3. (Products \cup {"kyc"}) \cup {"fraud"} = Products \cup {"kyc", "fraud"}
        OBVIOUS
      <3> QED BY <3>2, <3>3
    <2>2. IsFiniteSet(AllTasks)
      <3>1. IsFiniteSet(0 .. MaxAttempts)
        BY FS_Interval, BoundAssumption
      <3> QED BY <2>1, <3>1, FS_Product DEF AllTasks
    <2>3. TasksLeft \subseteq AllTasks
      BY BoundAssumption DEF TasksLeft, AllTasks
    <2> QED BY <2>2, <2>3, FS_Subset DEF TaskRanks, FiniteSubsetsOf
  <1> QED BY <1>1, <1>2, <1>3 DEF Rank, Ranks

\* Ranks cannot fall for ever.
LEMMA RanksEnd == IsWellFoundedOn(Lower, Ranks)
PROOF
  <1>1. IsWellFoundedOn(OpToRel(<, Nat), Nat)
    BY NatLessThanWellFounded
  <1>2. IsWellFoundedOn(StrictSubsetOrdering(AllTasks), TaskRanks)
    BY FS_StrictSubsetOrderingWellFounded DEF TaskRanks
  <1>3. IsWellFoundedOn(
          LexPairOrdering(OpToRel(<, Nat), StrictSubsetOrdering(AllTasks), Nat, TaskRanks),
          Nat \X TaskRanks)
    BY <1>1, <1>2, WFLexPairOrdering
  <1> QED BY <1>1, <1>3, WFLexPairOrdering DEF Lower, Ranks

\* With finitely many products no case runs for ever: every step but the writes
\* of the row by others lowers its rank, in an order in which nothing falls for
\* ever.  What EventuallyCloses adds is that a case that is not closed has a step
\* to take, and takes it.
THEOREM CasesRunOut ==
  ASSUME IsFiniteSet(Products)
  PROVE  /\ IsWellFoundedOn(Lower, Ranks)
         /\ Spec => [][ApiWritesRow \/ <<Rank', Rank>> \in Lower]_vars
PROOF
  <1>1. TypeOK => Rank \in Ranks
    BY RankType
  <1>2. TypeOK' => (Rank \in Ranks)'
    BY <1>1, PTL
  <1>3. WellFormed /\ WellFormed' /\ UsesUp => <<Rank', Rank>> \in Lower
    <2> SUFFICES ASSUME WellFormed, WellFormed', UsesUp PROVE <<Rank', Rank>> \in Lower
      OBVIOUS
    <2>1. Rank \in Ranks
      BY RankType DEF WellFormed
    <2>2. Rank' \in Ranks
      BY <1>2 DEF WellFormed
    <2> DEFINE u == Unheard   v == AwaitsLeft   w == TasksLeft
               x == Unheard'  y == AwaitsLeft'  z == TasksLeft'
    <2>3. /\ u \in Nat /\ v \in Nat /\ w \in TaskRanks /\ w \in SUBSET AllTasks
          /\ x \in Nat /\ y \in Nat /\ z \in TaskRanks /\ z \in SUBSET AllTasks
      BY <2>1, <2>2 DEF Rank, Ranks, TaskRanks, FiniteSubsetsOf
    <2>4. \/ x < u
          \/ x = u /\ y < v
          \/ x = u /\ y = v /\ z \subseteq w /\ z # w
      BY DEF UsesUp
    <2> HIDE DEF u, v, w, x, y, z
    <2>5. y < v \/ (y = v /\ z \subseteq w /\ z # w)
            => <<<<y, z>>, <<v, w>>>> \in
                 LexPairOrdering(OpToRel(<, Nat), StrictSubsetOrdering(AllTasks), Nat, TaskRanks)
      BY <2>3 DEF LexPairOrdering, OpToRel, StrictSubsetOrdering
    <2>6. <<<<x, <<y, z>>>>, <<u, <<v, w>>>>>> \in Lower
      <3> DEFINE R == LexPairOrdering(OpToRel(<, Nat), StrictSubsetOrdering(AllTasks), Nat, TaskRanks)
                 P == Nat \X TaskRanks
      <3>1. x < u \/ (x = u /\ <<<<y, z>>, <<v, w>>>> \in R)
        BY <2>4, <2>5
      <3>2. <<y, z>> \in P /\ <<v, w>> \in P
        BY <2>3
      <3>3. Lower = LexPairOrdering(OpToRel(<, Nat), R, Nat, P)
        BY DEF Lower
      <3> HIDE DEF R, P
      <3> QED BY <2>3, <3>1, <3>2, <3>3 DEF LexPairOrdering, OpToRel
    <2> QED BY <2>6 DEF Rank, u, v, w, x, y, z
  <1>4. WellFormed /\ WellFormed' /\ [UsesUp \/ ApiWritesRow]_vars
          => [ApiWritesRow \/ <<Rank', Rank>> \in Lower]_vars
    BY <1>3
  <1>5. Spec => []WellFormed
    BY WellFormedInit, WellFormedNext, PTL DEF Spec
  <1> QED BY <1>4, <1>5, RanksEnd, EveryStepUsesUp, PTL DEF EveryStepCounts

=============================================================================
