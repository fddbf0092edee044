------------------------- MODULE OnboardingWorkflow -------------------------
(***************************************************************************)
(* The Temporal workflow OnboardingWorkflow for one onboarding case        *)
(* (src/backend/app/workflows/onboarding_workflow.py) with its activities, *)
(* its product child workflows and the database rows they write.           *)
(*                                                                         *)
(* Between two awaits the workflow coroutine runs alone, so one action is  *)
(* one activation: from the result of one await to the next await.  What   *)
(* runs outside the coroutine interleaves with it: signals arriving, the   *)
(* KYC and fraud activities, and one child workflow per product.           *)
(*                                                                         *)
(* Senders of signals are open here: any target in AdvanceTargets and, in  *)
(* the stages of HumanStages, any decision in HumanDecisions may arrive at *)
(* any moment.  The instances say which senders the code has.              *)
(***************************************************************************)
EXTENDS Integers, Sequences, FiniteSets

CONSTANTS
  Products,        \* product codes
  Selections,      \* the values selected_products may take
  Keep,            \* a signal payload without selected_products
  EligibleProducts,\* products whose activation_criteria the client meets
  AdvanceTargets,  \* to_stage values the senders of advance_stage use
  HumanStages,     \* stages in which human_review_completed may be sent
  HumanDecisions,  \* decisions human_review_completed may carry
  ApiRows,         \* current_stage values written by others than the workflow
  Verdicts,        \* fraud verdicts a case may have: one per case
  MaxAdvance,      \* bound: advance_stage signals sent to one case
  MaxHuman,        \* bound: human_review_completed signals sent
  MaxFaults,       \* bound: database writes that fail and are swallowed
  MaxAttempts      \* maximum_attempts of _STANDARD_RETRY (3 in the code)

Stages == {"INTAKE", "SALES_REVIEW", "KYC", "PARALLEL_PRODUCTS", "REVIEW",
           "COMPLETE", "ESCALATED"}

Range1(s) == {s[i] : i \in DOMAIN s}

\* `selected_products` names each product once.
ASSUME SelectionsAssumption ==
  /\ Selections \subseteq Seq(Products)
  /\ \A s \in Selections : \A i, j \in DOMAIN s : s[i] = s[j] => i = j
  /\ Keep \notin Selections
  /\ EligibleProducts \subseteq Products
  /\ "kyc" \notin Products

ASSUME SenderAssumption ==
  /\ AdvanceTargets \subseteq Stages
  /\ HumanStages \subseteq Stages
  /\ ApiRows \subseteq Stages
  /\ HumanDecisions \subseteq {"APPROVED", "REJECTED", "MORE_INFO_REQUESTED"}
  /\ Verdicts \subseteq {"CLEARED", "FLAGGED"}

ASSUME BoundAssumption ==
  /\ MaxAdvance \in Nat
  /\ MaxHuman \in Nat
  /\ MaxFaults \in Nat
  /\ MaxAttempts \in Nat \ {0}

VARIABLES
  pc,          \* the await at which the coroutine is suspended
  status,      \* Temporal's status of the workflow execution
  stage,       \* state["stage"]
  extra,       \* state["extra"]
  selected,    \* state["selected_products"]
  tracks,      \* stage of each entry of state["product_tracks"]
  advQ,        \* self._advance_signals
  humQ,        \* self._human_signals
  kycRun,      \* the KYC activity of the current pass
  fraudRun,    \* the fraud activity of the current pass
  childRun,    \* the latest child workflow of each product
  tries,       \* attempts used by the retried activities
  verdict,     \* what fraud screening answers for this case_id
  row,         \* onboarding_cases.current_stage
  accounts,    \* products with a client_accounts row
  activation,  \* product_activation.state
  humanReview, \* the HumanReview row of the case
  sent,        \* signals sent so far (bounds the environment)
  faults       \* writes swallowed so far (bounds the environment)

local == <<pc, status, stage, extra, selected, tracks>>
queues == <<advQ, humQ>>
runs == <<kycRun, fraudRun, childRun, tries>>
db == <<row, accounts, activation, humanReview>>
vars == <<local, queues, runs, verdict, db, sent, faults>>

-----------------------------------------------------------------------------
(* Values *)

Absent == "absent"   \* the key is not in the dict
None == "None"

KycOutcomes == {"PASSED", "FAILED", "ESCALATED"}
TrackOutcomes == {"COMPLETE", "FAILED"}

Extra == [kyc_status : {"PENDING"} \cup KycOutcomes,
          fraud_screened : {Absent, "CLEARED", "FLAGGED"},
          escalation_reason : {None, "Fraud screening flagged"},
          sales_review_decision :
             {"PENDING", "APPROVED", "REJECTED", "MORE_INFO_REQUESTED"}]

AdvanceSignal == [to : AdvanceTargets, products : Selections \cup {Keep}]

KickoffPcs == {"boot", "intakeKickoff", "salesKickoff", "reviewKickoff"}
PersistPcs == {"persist", "kycPersist"}
WaitPcs == {"intakeWait", "salesWait", "reviewWait", "escWait"}
ActivityPcs == KickoffPcs \cup PersistPcs
                 \cup {"kycNotify", "completion", "completeNotify",
                       "escAlert", "escSummary"}
Pcs == ActivityPcs \cup WaitPcs \cup {"screening", "start", "gather", "closed"}

TypeOK ==
  /\ pc \in Pcs
  /\ status \in {"RUNNING", "COMPLETED", "FAILED"}
  /\ stage \in Stages
  /\ extra \in Extra
  /\ selected \in Selections
  /\ tracks \in [Products -> TrackOutcomes \cup {Absent}]
  /\ advQ \in Seq(AdvanceSignal)
  /\ humQ \in Seq(HumanDecisions)
  /\ kycRun \in {"IDLE", "RUNNING", "ERROR"} \cup KycOutcomes
  /\ fraudRun \in {"IDLE", "RUNNING", "ERROR", "CLEARED", "FLAGGED"}
  /\ childRun \in [Products -> {"IDLE", "RUNNING"} \cup TrackOutcomes]
  /\ tries \in [Products \cup {"kyc"} -> 0 .. MaxAttempts]
  /\ verdict \in {"CLEARED", "FLAGGED"}
  /\ row \in Stages
  /\ accounts \subseteq Products
  /\ activation \in [Products -> {"NONE", "ACTIVATED", "DECLINED"}]
  /\ humanReview \in {"NONE", "PENDING"}
  /\ sent \in [adv : 0 .. MaxAdvance, hum : 0 .. MaxHuman]
  /\ faults \in 0 .. MaxFaults

-----------------------------------------------------------------------------
(* Helpers *)

\* initialize_case_activity's extra: no fraud_screened key.
InitialExtra == [kyc_status |-> "PENDING", fraud_screened |-> Absent,
                 escalation_reason |-> None, sales_review_decision |-> "PENDING"]

\* {**base, **over}
Spread(base, over) ==
  LET Pick(b, o) == IF o = Absent THEN b ELSE o
  IN [kyc_status |-> Pick(base.kyc_status, over.kyc_status),
      fraud_screened |-> Pick(base.fraud_screened, over.fraud_screened),
      escalation_reason |-> Pick(base.escalation_reason, over.escalation_reason),
      sales_review_decision |->
         Pick(base.sales_review_decision, over.sales_review_decision)]

\* Mutant of FraudExtra: the activity's error is not turned into CLEARED.
FraudExtraErrorKept(r) ==
  IF r = "FLAGGED"
  THEN [extra EXCEPT !.fraud_screened = "FLAGGED",
                     !.escalation_reason = "Fraud screening flagged"]
  ELSE [extra EXCEPT !.fraud_screened = r]

\* extra as the fraud activity returns it for result r; an activity error is
\* turned into CLEARED by the workflow.
FraudExtra(r) ==
  IF r = "FLAGGED"
  THEN [extra EXCEPT !.fraud_screened = "FLAGGED",
                     !.escalation_reason = "Fraud screening flagged"]
  ELSE [extra EXCEPT !.fraud_screened = "CLEARED"]

\* extra as the KYC activity returns it: the whole extra it was given, with its own keys.
KycExtra(r) == [extra EXCEPT !.kyc_status = r]

\* Mutant of MergedExtra: the fraud result is spread last.
MergedExtraFraudLast == Spread(KycExtra(kycRun), FraudExtra(fraudRun))

MergedExtra == Spread(FraudExtra(fraudRun), KycExtra(kycRun))

\* Mutant of ScreenedStage: the fraud override is missing.
ScreenedStageByKyc == IF kycRun # "PASSED" THEN "ESCALATED" ELSE "PARALLEL_PRODUCTS"

\* The stage after screening: KYC's next_stage unless fraud was flagged.
ScreenedStage ==
  IF MergedExtra.fraud_screened = "FLAGGED" \/ kycRun # "PASSED"
  THEN "ESCALATED" ELSE "PARALLEL_PRODUCTS"

\* current_stage as _log_kyc_decision writes it, before fraud is looked at.
KycRow(r) == IF r = "PASSED" THEN "PARALLEL_PRODUCTS" ELSE "ESCALATED"

\* Every child returns a copy of all the tracks its parent had, with its own
\* one set, and the copies are laid over each other in the order of
\* selected_products: what a product had before wins over its new outcome
\* unless its child is the last one.
MergedTrack(p) ==
  IF p \notin Range1(selected) THEN tracks[p]
  ELSE IF tracks[p] # Absent /\ selected[Len(selected)] # p
       THEN tracks[p] ELSE childRun[p]

MergedTracks == [p \in Products |-> MergedTrack(p)]

\* The activation policy applied to a finished track (ActivationGateService).
GateState(p, outcome) ==
  IF /\ outcome = "COMPLETE"
     /\ extra.kyc_status = "PASSED"
     /\ extra.fraud_screened # "FLAGGED"
     /\ p \in EligibleProducts
  THEN "ACTIVATED" ELSE "DECLINED"

\* Mutant of EntryPc: COMPLETE only notifies.
EntryPcNoCompletion(s) ==
  CASE s = "INTAKE" -> "intakeWait"
    [] s = "SALES_REVIEW" -> "salesKickoff"
    [] s = "KYC" -> "screening"
    [] s = "PARALLEL_PRODUCTS" -> "start"
    [] s = "REVIEW" -> "reviewKickoff"
    [] s = "COMPLETE" -> "completeNotify"
    [] s = "ESCALATED" -> "escAlert"

\* The first await of the handler of stage s.
EntryPc(s) ==
  CASE s = "INTAKE" -> "intakeWait"
    [] s = "SALES_REVIEW" -> "salesKickoff"
    [] s = "KYC" -> "screening"
    [] s = "PARALLEL_PRODUCTS" -> "start"
    [] s = "REVIEW" -> "reviewKickoff"
    [] s = "COMPLETE" -> "completion"
    [] s = "ESCALATED" -> "escAlert"

\* The loop of run(): hand over to the handler of stage s.
Dispatch(s) ==
  /\ pc' = EntryPc(s)
  /\ IF s = "KYC"
     THEN /\ kycRun' = "RUNNING"
          /\ fraudRun' = "RUNNING"
          /\ tries' = [tries EXCEPT !["kyc"] = 0]
     ELSE UNCHANGED <<kycRun, fraudRun, tries>>
  /\ UNCHANGED childRun

Close(how) == pc' = "closed" /\ status' = how

\* n database writes of the step raised; the error was logged and swallowed.
Swallowed(n) == faults + n <= MaxFaults /\ faults' = faults + n

Lost(ok) == IF ok THEN 0 ELSE 1

WriteRow(value) ==
  \E ok \in BOOLEAN : /\ row' = IF ok THEN value ELSE row
                      /\ Swallowed(Lost(ok))

Init ==
  /\ pc = "boot"
  /\ status = "RUNNING"
  /\ stage = "INTAKE"
  /\ extra = InitialExtra
  /\ selected \in Selections
  /\ tracks = [p \in Products |-> Absent]
  /\ advQ = <<>>
  /\ humQ = <<>>
  /\ kycRun = "IDLE"
  /\ fraudRun = "IDLE"
  /\ childRun = [p \in Products |-> "IDLE"]
  /\ tries = [t \in Products \cup {"kyc"} |-> 0]
  /\ verdict \in Verdicts
  /\ row = "INTAKE"
  /\ accounts = {}
  /\ activation = [p \in Products |-> "NONE"]
  /\ humanReview = "NONE"
  /\ sent = [adv |-> 0, hum |-> 0]
  /\ faults = 0

-----------------------------------------------------------------------------
(* Signals: the handlers append to the workflow's lists; a workflow that    *)
(* is closed refuses them.                                                  *)

advance_stage(to, products) ==
  /\ status = "RUNNING"
  /\ advQ' = Append(advQ, [to |-> to, products |-> products])
  /\ UNCHANGED <<local, humQ, runs, verdict, db, faults>>

human_review_completed(decision) ==
  /\ status = "RUNNING"
  /\ humQ' = Append(humQ, decision)
  /\ UNCHANGED <<local, advQ, runs, verdict, db, faults>>

SendAdvance ==
  /\ sent.adv < MaxAdvance
  /\ sent' = [sent EXCEPT !.adv = @ + 1]
  /\ \E to \in AdvanceTargets, products \in Selections \cup {Keep} :
        advance_stage(to, products)

SendHumanDecision ==
  /\ stage \in HumanStages
  /\ sent.hum < MaxHuman
  /\ sent' = [sent EXCEPT !.hum = @ + 1]
  /\ \E decision \in HumanDecisions : human_review_completed(decision)

\* The API, its services and the activity of an SLA breach write the row on their
\* own, whatever the workflow does.
ApiWritesRow ==
  /\ row' \in ApiRows
  /\ UNCHANGED <<local, queues, runs, verdict, accounts, activation, humanReview,
                 sent, faults>>

-----------------------------------------------------------------------------
(* Start of the workflow *)

\* load_domain_definition_activity and initialize_case_activity return.
Boot ==
  /\ pc = "boot"
  /\ pc' = "intakeKickoff"
  /\ UNCHANGED <<status, stage, extra, selected, tracks, queues, runs, verdict,
                 db, sent, faults>>

\* The conversation is started; the loop of run() begins with INTAKE.
IntakeKickoff ==
  /\ pc = "intakeKickoff"
  /\ Dispatch(stage)
  /\ UNCHANGED <<status, stage, extra, selected, tracks, queues, verdict, db,
                 sent, faults>>

-----------------------------------------------------------------------------
(* Stages that wait for a signal *)

\* state = {**state, "stage": next_stage, **signal.payload}
Advance(signal) ==
  /\ stage' = signal.to
  /\ selected' = IF signal.products = Keep THEN selected ELSE signal.products

\* INTAKE looks at advance signals only.
IntakeAdvance ==
  /\ pc = "intakeWait"
  /\ advQ # <<>>
  /\ Advance(Head(advQ))
  /\ advQ' = Tail(advQ)
  /\ pc' = "persist"
  /\ UNCHANGED <<status, extra, tracks, humQ, runs, verdict, db, sent, faults>>

\* The kickoff activity of SALES_REVIEW: create_review inserts the manager's
\* review and writes the row, or its error is swallowed by the agent.
SalesKickoff ==
  /\ pc = "salesKickoff"
  /\ WriteRow("SALES_REVIEW")
  /\ pc' = "salesWait"
  /\ UNCHANGED <<status, stage, extra, selected, tracks, queues, runs, verdict,
                 accounts, activation, humanReview, sent>>

\* The kickoff activity of REVIEW opens the collaboration room.
ReviewKickoff ==
  /\ pc = "reviewKickoff"
  /\ pc' = "reviewWait"
  /\ UNCHANGED <<status, stage, extra, selected, tracks, queues, runs, verdict,
                 db, sent, faults>>

\* SALES_REVIEW: an advance signal wins over a human decision, is recorded as
\* an approval whoever sent it, and its payload is not merged.
SalesAdvance ==
  /\ pc = "salesWait"
  /\ advQ # <<>>
  /\ stage' = Head(advQ).to
  /\ extra' = [extra EXCEPT !.sales_review_decision = "APPROVED"]
  /\ advQ' = Tail(advQ)
  /\ pc' = "persist"
  /\ UNCHANGED <<status, selected, tracks, humQ, runs, verdict, db, sent, faults>>

SalesDecision ==
  /\ pc = "salesWait"
  /\ advQ = <<>>
  /\ humQ # <<>>
  /\ stage' = IF Head(humQ) \in {"APPROVED", "MORE_INFO_REQUESTED"}
              THEN "KYC" ELSE "ESCALATED"
  /\ extra' = [extra EXCEPT !.sales_review_decision = Head(humQ)]
  /\ humQ' = Tail(humQ)
  /\ pc' = "persist"
  /\ UNCHANGED <<status, selected, tracks, advQ, runs, verdict, db, sent, faults>>

\* Mutant of ReviewAdvance: the signal is read and not taken off the list.
ReviewAdvancePeek ==
  /\ pc = "reviewWait"
  /\ advQ # <<>>
  /\ Advance(Head(advQ))
  /\ pc' = "persist"
  /\ UNCHANGED <<status, extra, tracks, queues, runs, verdict, db, sent, faults>>

\* REVIEW, before KYC (documents) or after the products (issues).
ReviewAdvance ==
  /\ pc = "reviewWait"
  /\ advQ # <<>>
  /\ Advance(Head(advQ))
  /\ advQ' = Tail(advQ)
  /\ pc' = "persist"
  /\ UNCHANGED <<status, extra, tracks, humQ, runs, verdict, db, sent, faults>>

ReviewDecision ==
  /\ pc = "reviewWait"
  /\ advQ = <<>>
  /\ humQ # <<>>
  /\ stage' = IF Head(humQ) = "APPROVED" THEN "COMPLETE" ELSE "ESCALATED"
  /\ humQ' = Tail(humQ)
  /\ pc' = "persist"
  /\ UNCHANGED <<status, extra, selected, tracks, advQ, runs, verdict, db, sent,
                 faults>>

\* wait_condition's timeout raises asyncio.TimeoutError out of the handler.
WaitTimesOut ==
  /\ pc \in WaitPcs
  /\ advQ = <<>>
  /\ pc = "intakeWait" \/ humQ = <<>>
  /\ Close("FAILED")
  /\ UNCHANGED <<stage, extra, selected, tracks, queues, runs, verdict, db, sent,
                 faults>>

\* persist_stage_activity returns, having written the row or swallowed the
\* error; the handler returns and the loop dispatches on the new stage.
PersistStage ==
  /\ pc = "persist"
  /\ WriteRow(stage)
  /\ Dispatch(stage)
  /\ UNCHANGED <<status, stage, extra, selected, tracks, queues, verdict,
                 accounts, activation, humanReview, sent>>

-----------------------------------------------------------------------------
(* KYC: two activities run concurrently and are gathered *)

\* The KYC activity finishes an attempt and writes the row; its result
\* reaches the workflow, or the attempt is lost after the write and retried.
KycAttempt ==
  /\ pc = "screening"
  /\ kycRun = "RUNNING"
  /\ tries["kyc"] < MaxAttempts
  /\ tries' = [tries EXCEPT !["kyc"] = @ + 1]
  /\ \E outcome \in KycOutcomes :
       /\ WriteRow(KycRow(outcome))
       /\ kycRun' \in {outcome, "RUNNING"}
  /\ UNCHANGED <<local, queues, fraudRun, childRun, verdict, accounts, activation,
                 humanReview, sent>>

\* Every attempt of the KYC activity failed.
KycError ==
  /\ pc = "screening"
  /\ kycRun = "RUNNING"
  /\ kycRun' = "ERROR"
  /\ UNCHANGED <<local, queues, fraudRun, childRun, tries, verdict, db, sent, faults>>

\* The fraud activity returns the verdict of this case, or fails: one attempt.
FraudScreened ==
  /\ pc = "screening"
  /\ fraudRun = "RUNNING"
  /\ fraudRun' \in {verdict, "ERROR"}
  /\ UNCHANGED <<local, queues, kycRun, childRun, tries, verdict, db, sent, faults>>

\* gather() returns: the results are merged and the stage is chosen.
MergeScreening ==
  /\ pc = "screening"
  /\ kycRun \in KycOutcomes
  /\ fraudRun # "RUNNING"
  /\ extra' = MergedExtra
  /\ stage' = ScreenedStage
  /\ pc' = "kycPersist"
  /\ UNCHANGED <<status, selected, tracks, queues, runs, verdict, db, sent, faults>>

\* gather() returns an exception of the KYC activity, which is raised.
ScreeningFails ==
  /\ pc = "screening"
  /\ kycRun = "ERROR"
  /\ fraudRun # "RUNNING"
  /\ Close("FAILED")
  /\ UNCHANGED <<stage, extra, selected, tracks, queues, runs, verdict, db, sent,
                 faults>>

\* Mutant of KycPersist: it trusts the row the KYC activity wrote.
KycPersistSkipped ==
  /\ pc = "kycPersist"
  /\ pc' = "kycNotify"
  /\ UNCHANGED <<status, stage, extra, selected, tracks, queues, runs, verdict, db,
                 sent, faults>>

KycPersist ==
  /\ pc = "kycPersist"
  /\ WriteRow(stage)
  /\ pc' = "kycNotify"
  /\ UNCHANGED <<status, stage, extra, selected, tracks, queues, runs, verdict,
                 accounts, activation, humanReview, sent>>

\* The outcome is notified (PASSED or FAILED only) and the loop goes on.
KycNotify ==
  /\ pc = "kycNotify"
  /\ Dispatch(stage)
  /\ UNCHANGED <<status, stage, extra, selected, tracks, queues, verdict, db, sent,
                 faults>>

-----------------------------------------------------------------------------
(* PARALLEL_PRODUCTS: one child workflow per product *)

StartChildren ==
  /\ pc = "start"
  /\ childRun' = [p \in Products |->
                    IF p \in Range1(selected) THEN "RUNNING" ELSE childRun[p]]
  /\ tries' = [t \in DOMAIN tries |-> IF t \in Range1(selected) THEN 0 ELSE tries[t]]
  /\ pc' = "gather"
  /\ UNCHANGED <<status, stage, extra, selected, tracks, queues, kycRun, fraudRun,
                 verdict, db, sent, faults>>

\* A child's pipeline ends and the activation gate writes its decision (or
\* swallows an error); the child returns, or the attempt is lost and retried.
ChildAttempt(p) ==
  /\ pc = "gather"
  /\ childRun[p] = "RUNNING"
  /\ tries[p] < MaxAttempts
  /\ tries' = [tries EXCEPT ![p] = @ + 1]
  /\ \E outcome \in TrackOutcomes, ok \in BOOLEAN :
       /\ activation' = IF ok THEN [activation EXCEPT ![p] = GateState(p, outcome)]
                        ELSE activation
       /\ Swallowed(Lost(ok))
       /\ \E result \in {outcome, "RUNNING"} : childRun' = [childRun EXCEPT ![p] = result]
  /\ UNCHANGED <<local, queues, kycRun, fraudRun, verdict, row, accounts, humanReview,
                 sent>>

\* Every attempt of a child failed: gather() raises and the workflow fails.
ChildFails(p) ==
  /\ pc = "gather"
  /\ childRun[p] = "RUNNING"
  /\ Close("FAILED")
  /\ UNCHANGED <<stage, extra, selected, tracks, queues, runs, verdict, db, sent,
                 faults>>

\* All children returned: merge their tracks, look for products with issues.
GatherProducts ==
  /\ pc = "gather"
  /\ \A p \in Range1(selected) : childRun[p] # "RUNNING"
  /\ tracks' = MergedTracks
  /\ stage' = IF \E p \in Range1(selected) : MergedTrack(p) = "FAILED"
              THEN "REVIEW" ELSE "COMPLETE"
  /\ pc' = "persist"
  /\ UNCHANGED <<status, extra, selected, queues, runs, verdict, db, sent, faults>>

-----------------------------------------------------------------------------
(* COMPLETE *)

\* completion_activity: one account per selected product that has none, then
\* the row; each write on its own may fail and be swallowed.
Completion ==
  /\ pc = "completion"
  /\ \E accountsOk, rowOk \in BOOLEAN :
       /\ accounts' = IF accountsOk THEN accounts \cup Range1(selected) ELSE accounts
       /\ row' = IF rowOk THEN "COMPLETE" ELSE row
       /\ Swallowed(Lost(accountsOk) + Lost(rowOk))
  /\ pc' = "completeNotify"
  /\ UNCHANGED <<status, stage, extra, selected, tracks, queues, runs, verdict,
                 activation, humanReview, sent>>

CompleteNotify ==
  /\ pc = "completeNotify"
  /\ Close("COMPLETED")
  /\ UNCHANGED <<stage, extra, selected, tracks, queues, runs, verdict, db, sent,
                 faults>>

-----------------------------------------------------------------------------
(* ESCALATED *)

\* The alert is dispatched; create_review inserts the HumanReview row and
\* stamps the case ESCALATED, or its error is swallowed.
EscalationAlert ==
  /\ pc = "escAlert"
  /\ \/ humanReview' = "PENDING" /\ row' = "ESCALATED"
     \/ UNCHANGED <<humanReview, row>>
  /\ pc' = "escSummary"
  /\ UNCHANGED <<status, stage, extra, selected, tracks, queues, runs, verdict,
                 accounts, activation, sent, faults>>

EscalationSummary ==
  /\ pc = "escSummary"
  /\ pc' = "escWait"
  /\ UNCHANGED <<status, stage, extra, selected, tracks, queues, runs, verdict, db,
                 sent, faults>>

\* wait_condition returns None, which the handler takes for a timeout: the
\* signal stays in its list, the stage stays ESCALATED and the loop ends.
EscalationResolved ==
  /\ pc = "escWait"
  /\ advQ # <<>> \/ humQ # <<>>
  /\ Close("COMPLETED")
  /\ UNCHANGED <<stage, extra, selected, tracks, queues, runs, verdict, db, sent,
                 faults>>

-----------------------------------------------------------------------------
(* An activity whose error is not handled fails the workflow; its last      *)
(* attempt may have made its writes before it was lost.                     *)

LostWrites ==
  \/ /\ pc \in PersistPcs
     /\ row' = stage
     /\ UNCHANGED <<accounts, activation, humanReview>>
  \/ /\ pc = "completion"
     /\ accounts' \in {accounts, accounts \cup Range1(selected)}
     /\ row' \in {row, "COMPLETE"}
     /\ UNCHANGED <<activation, humanReview>>
  \/ /\ pc = "escAlert"
     /\ humanReview' = "PENDING"
     /\ row' = "ESCALATED"
     /\ UNCHANGED <<accounts, activation>>
  \/ /\ pc = "salesKickoff"
     /\ row' = "SALES_REVIEW"
     /\ UNCHANGED <<accounts, activation, humanReview>>

ActivityFails ==
  /\ pc \in ActivityPcs
  /\ pc = "kycNotify" => extra.kyc_status \in {"PASSED", "FAILED"}
  /\ \/ UNCHANGED db
     \/ LostWrites
  /\ Close("FAILED")
  /\ UNCHANGED <<stage, extra, selected, tracks, queues, runs, verdict, sent, faults>>

-----------------------------------------------------------------------------
WorkflowStep ==
  \/ Boot \/ IntakeKickoff \/ IntakeAdvance
  \/ SalesKickoff \/ ReviewKickoff \/ SalesAdvance \/ SalesDecision \/ ReviewAdvance \/ ReviewDecision
  \/ WaitTimesOut \/ PersistStage
  \/ MergeScreening \/ ScreeningFails \/ KycPersist \/ KycNotify
  \/ StartChildren \/ GatherProducts
  \/ Completion \/ CompleteNotify
  \/ EscalationAlert \/ EscalationSummary \/ EscalationResolved
  \/ ActivityFails

KycStep == KycAttempt \/ KycError

ChildStep(p) == ChildAttempt(p) \/ ChildFails(p)

Senders == SendAdvance \/ SendHumanDecision

Next ==
  \/ WorkflowStep
  \/ KycStep \/ FraudScreened
  \/ \E p \in Products : ChildStep(p)
  \/ Senders
  \/ ApiWritesRow

\* Temporal drives a workflow that can run, and every activity ends: it has a
\* schedule_to_close timeout.  Nobody is obliged to send a signal.
Fairness ==
  /\ WF_vars(WorkflowStep)
  /\ WF_vars(KycStep)
  /\ WF_vars(FraudScreened)
  /\ \A p \in Products : WF_vars(ChildStep(p))

Spec == Init /\ [][Next]_vars

FairSpec == Spec /\ Fairness

-----------------------------------------------------------------------------
(* Properties *)

\* The senders of signals that the code under src/ has, as far as safety needs:
\* nobody asks for PARALLEL_PRODUCTS or COMPLETE, and a human decision is made
\* on a HumanReview, which is created when the case is ESCALATED.
DeployedSenders ==
  /\ AdvanceTargets \cap {"PARALLEL_PRODUCTS", "COMPLETE"} = {}
  /\ HumanStages \subseteq {"ESCALATED"}

Cleared == extra.kyc_status = "PASSED" /\ extra.fraud_screened = "CLEARED"

\* A case is in PARALLEL_PRODUCTS or COMPLETE, and has accounts, only with the
\* last screening's KYC passed and fraud cleared, whatever order the signals,
\* the two screening activities and the children came in (_run_kyc).  It
\* needs DeployedSenders.
ProductsOnlyAfterClearance ==
  stage \in {"PARALLEL_PRODUCTS", "COMPLETE"} \/ accounts # {} => Cleared

\* Once fraud screening has flagged the case and the flag reached extra, the
\* case is ESCALATED and stays so: no signal and no decision takes it back.
FlaggedIsEscalated ==
  extra.fraud_screened = "FLAGGED" => stage = "ESCALATED"

\* Where the workflow rests, the row the API and the frontend read names the
\* workflow's stage, although the KYC activity writes a stage of its own choice
\* before fraud is looked at; only a swallowed write, or the writes of others
\* (none when ApiRows is empty), can make them differ.
RowMatchesStage ==
  /\ faults = 0
  /\ pc \in WaitPcs \cup {"start", "gather"} \/ status = "COMPLETED"
  => row = stage

\* A workflow that ends in COMPLETE has opened an account for each product
\* selected at that moment and for no other, unless a write was swallowed; no
\* account exists before.
CompletedIsProvisioned ==
  /\ status = "COMPLETED" /\ stage = "COMPLETE" /\ faults = 0
        => accounts = Range1(selected)
  /\ accounts # {} => stage = "COMPLETE" /\ accounts = Range1(selected)

\* Every wait has a timeout and every signal is consumed by at most one stage,
\* so a case that is sent finitely many signals always ends.
EventuallyCloses == <>(pc = "closed")

\* What is left of a case: signals not yet sent or not yet taken, awaits until it
\* rests or closes, attempts and answers of the activities now running.
Unheard == 2 * ((MaxAdvance - sent.adv) + (MaxHuman - sent.hum)) + Len(advQ) + Len(humQ)

AwaitsLeft ==
  CASE pc = "closed" -> 0
    [] pc \in WaitPcs \cup {"completeNotify"} -> 1
    [] pc \in {"intakeKickoff", "salesKickoff", "reviewKickoff", "completion", "escSummary"} -> 2
    [] pc \in {"boot", "escAlert"} -> 3
    [] pc = "persist" /\ stage \notin {"KYC", "PARALLEL_PRODUCTS"} -> 4
    [] pc = "gather" -> 5
    [] pc = "start" -> 6
    [] pc = "kycNotify" \/ (pc = "persist" /\ stage = "PARALLEL_PRODUCTS") -> 7
    [] pc = "kycPersist" -> 8
    [] pc = "screening" -> 9
    [] pc = "persist" /\ stage = "KYC" -> 10

TasksLeft ==
  {a \in (Products \cup {"kyc"}) \X (1 .. MaxAttempts) : tries[a[1]] < a[2]}
    \cup {a \in {<<"kyc", 0>>, <<"fraud", 0>>} :
            IF a[1] = "kyc" THEN kycRun = "RUNNING" ELSE fraudRun = "RUNNING"}

UsesUp ==
  \/ Unheard' < Unheard
  \/ Unheard' = Unheard /\ AwaitsLeft' < AwaitsLeft
  \/ /\ Unheard' = Unheard /\ AwaitsLeft' = AwaitsLeft
     /\ TasksLeft' \subseteq TasksLeft /\ TasksLeft' # TasksLeft

\* Every step of the workflow, its activities, its children and the senders uses
\* up something of that: there is no way round to the same stage, no retry and no
\* fan-out of products that does not cost a signal or an attempt (the loop of
\* run, the lists of signals).
EveryStepCounts == [][UsesUp \/ ApiWritesRow]_vars

\* Refinement: the workflow keeps the promise of ClientClearance.
phaseBar ==
  CASE stage \in {"INTAKE", "SALES_REVIEW", "REVIEW"} -> "collecting"
    [] stage = "KYC" -> "screening"
    [] stage = "PARALLEL_PRODUCTS" -> "onboarding"
    [] stage = "COMPLETE" -> "complete"
    [] stage = "ESCALATED" -> "escalated"

Clearance == INSTANCE ClientClearance
               WITH phase <- phaseBar, cleared <- Cleared, provisioned <- accounts

ImplementsClearance == Clearance!Spec

-----------------------------------------------------------------------------
(* What makes the safety properties inductive *)

\* The coroutine is inside the handler of the current stage, or on its way to it.
PcMatchesStage ==
  /\ pc \in {"boot", "intakeKickoff", "intakeWait"} => stage = "INTAKE"
  /\ pc \in {"salesKickoff", "salesWait"} => stage = "SALES_REVIEW"
  /\ pc = "screening" => stage = "KYC"
  /\ pc \in {"start", "gather"} => stage = "PARALLEL_PRODUCTS"
  /\ pc \in {"reviewKickoff", "reviewWait"} => stage = "REVIEW"
  /\ pc \in {"completion", "completeNotify"} => stage = "COMPLETE"
  /\ pc \in {"escAlert", "escSummary", "escWait"} => stage = "ESCALATED"

\* While the products are gathered, each selected one has a child of this pass.
ChildrenStarted ==
  pc = "gather" => \A p \in Range1(selected) : childRun[p] # "IDLE"

\* With DeployedSenders a human decision waits only in an escalated case.
DecisionsOnlyEscalated == humQ # <<>> => stage = "ESCALATED"

AccountsOnlyInComplete == accounts # {} => stage = "COMPLETE"

OnboardingIsCleared == stage \in {"PARALLEL_PRODUCTS", "COMPLETE"} => Cleared

\* Inductive for any senders.
WellFormed == TypeOK /\ PcMatchesStage /\ ChildrenStarted

\* Inductive with DeployedSenders.
ClearanceInv ==
  /\ WellFormed
  /\ DecisionsOnlyEscalated
  /\ AccountsOnlyInComplete
  /\ OnboardingIsCleared

\* The screening leads to the products or out.
ScreenedGoesOn ==
  pc \in {"kycPersist", "kycNotify"} => stage \in {"PARALLEL_PRODUCTS", "ESCALATED"}

\* An execution is over when the coroutine is.
ClosedIsEnded == pc = "closed" <=> status # "RUNNING"

\* From the persist activity to the next choice of a stage the row is the
\* stage, but for the screening, whose KYC activity writes ahead of it.
RowInv ==
  /\ ClosedIsEnded
  /\ faults = 0 /\ pc \notin {"persist", "kycPersist", "screening", "closed"} => row = stage
  /\ faults = 0 /\ status = "COMPLETED" => row = stage

\* The completion activity is behind the last choice of products.
ProvisionInv ==
  /\ ClosedIsEnded
  /\ accounts # {} => /\ pc \in {"completeNotify", "closed"}
                      /\ stage = "COMPLETE" /\ accounts = Range1(selected)
  /\ faults = 0 /\ (pc = "completeNotify" \/ (status = "COMPLETED" /\ stage = "COMPLETE"))
       => accounts = Range1(selected)

-----------------------------------------------------------------------------
(* What the source says and the code does not do *)

\* "If fraud was flagged, override next_stage to ESCALATED regardless of KYC
\* outcome": a screening pass whose fraud activity answers FLAGGED escalates.
FlaggedEscalates ==
  [][MergeScreening /\ fraudRun = "FLAGGED" => stage' = "ESCALATED"]_vars

\* "Merge product track state from child results": when the products are gathered,
\* each selected one has the track its own child of this pass ended with.
TracksOfThisPass ==
  [][GatherProducts => \A p \in Range1(selected) : tracks'[p] = childRun[p]]_vars

\* "Wait for a resolution signal (approved -> PARALLEL_PRODUCTS ...)": an
\* approval that reaches an escalated case resumes it.
EscalationApprovalResumes ==
  [][EscalationResolved /\ humQ # <<>> /\ Head(humQ) = "APPROVED"
       => stage' = "PARALLEL_PRODUCTS"]_vars

=============================================================================
