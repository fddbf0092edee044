-------------------------- MODULE CaseJourneyProofs --------------------------
(***************************************************************************)
(* Proofs about CaseJourney: every step of the API, of its services and of  *)
(* their tasks is one that OnboardingWorkflow allows its environment, so    *)
(* the theorems of OnboardingWorkflowProofs hold of the composed system.    *)
(***************************************************************************)
EXTENDS CaseJourney, OnboardingWorkflowProofs

\* The jobs a finished or spawned job leaves are counts again.
LEMMA JobCount ==
  ASSUME jobs \in [Job -> Nat], NEW k \in Job, NEW J, Finish(k, J)
  PROVE  /\ jobs' \in [Job -> Nat]
         /\ jobs[k] > 0
         /\ \A j \in Job : jobs'[j] > 0 => jobs[j] > 0 \/ j \in J
PROOF
  <1>1. jobs[k] > 0 /\ jobs' = [j \in Job |-> jobs[j] + One(j, J) - One(j, {k})]
    BY DEF Finish
  <1>2. ASSUME NEW j \in Job
        PROVE  /\ jobs[j] + One(j, J) - One(j, {k}) \in Nat
               /\ jobs[j] + One(j, J) - One(j, {k}) > 0 => jobs[j] > 0 \/ j \in J
    BY <1>1 DEF One
  <1> QED BY <1>1, <1>2

\* Creating tasks adds to the counts only.
LEMMA SpawnCount ==
  ASSUME jobs \in [Job -> Nat], NEW J, Spawn(J)
  PROVE  /\ jobs' \in [Job -> Nat]
         /\ \A j \in Job : jobs'[j] > 0 => jobs[j] > 0 \/ j \in J
PROOF
  <1>1. ASSUME NEW j \in Job
        PROVE  /\ jobs[j] + One(j, J) \in Nat
               /\ jobs[j] + One(j, J) > 0 => jobs[j] > 0 \/ j \in J
    BY DEF One
  <1> QED BY <1>1 DEF Spawn

\* The tasks of the API process are jobs.
LEMMA JobKinds ==
  /\ \A to \in SignalTargets, products \in Selections \cup {Keep} : Signal(to, products) \in Job
  /\ \A d \in Docs : [kind |-> "createTask", doc |-> d] \in Job
  /\ \A k \in {"checkDocs", "checkTasks", "createReview", "humanSignal"} : [kind |-> k] \in Job
  /\ \A products \in Selections : [kind |-> "advisorCommit", products |-> products] \in Job
  /\ \A i \in 1 .. MaxReviews, decision \in Decisions :
        [kind |-> "salesCommit", review |-> i, decision |-> decision] \in Job
  /\ \A k \in {"officerCommit", "postSales", "postHuman"}, decision \in Decisions :
        [kind |-> k, decision |-> decision] \in Job
  /\ OfficerJobs \subseteq Job
  BY DEF Job, OfficerJobs, Signal

\* Neither a signal nor any other task but an officer's is an officer's task.
LEMMA OtherJobs ==
  /\ \A to, products : Signal(to, products) \notin OfficerJobs
  /\ \A d : [kind |-> "createTask", doc |-> d] \notin OfficerJobs
  /\ \A k \in {"checkDocs", "checkTasks", "createReview"} : [kind |-> k] \notin OfficerJobs
  /\ \A products : [kind |-> "advisorCommit", products |-> products] \notin OfficerJobs
  /\ \A i, decision :
        [kind |-> "salesCommit", review |-> i, decision |-> decision] \notin OfficerJobs
  /\ \A decision : [kind |-> "postSales", decision |-> decision] \notin OfficerJobs
  BY DEF OfficerJobs, Signal

-----------------------------------------------------------------------------
(* Every step of the journey is a step of the workflow's environment *)

\* A commit of the case row is one that ApiRows admits.
LEMMA RowWrite ==
  ASSUME NEW s \in {"REVIEW", "SALES_REVIEW", "KYC", "PARALLEL_PRODUCTS", "COMPLETE"},
         RowBecomes(s)
  PROVE  Next
  BY JourneyAssumption DEF RowBecomes, ApiWritesRow, Next

\* Where a case goes from REVIEW is a stage the row may be given.
LEMMA RouteTargets ==
  \A products : Route(products) \in {"SALES_REVIEW", "KYC"}
  BY DEF Route

\* A request writes the row or leaves the workflow alone.
LEMMA RequestStep == Requests => [Next]_vars
PROOF
  <1> SUFFICES ASSUME Requests PROVE [Next]_vars
    OBVIOUS
  <1>1. CASE submit_intake
    BY <1>1, RowWrite DEF submit_intake
  <1>2. CASE ~ submit_intake
    BY <1>2 DEF Requests, handle_message, upload, update_document_status, decide_task,
       advisor_approve_case, decide_sales_review, decide_review, patch_case_products,
       resume_case
  <1> QED BY <1>1, <1>2

\* A task writes the row, signals the workflow or leaves it alone; a decision is
\* signalled only while the case is ESCALATED.
LEMMA TaskStep ==
  ASSUME OfficerInv, Tasks
  PROVE  [Next]_vars
PROOF
  <1>1. CASE \E to \in SignalTargets, products \in Selections \cup {Keep} :
               signal_stage_advance(to, products)
    <2> PICK to \in SignalTargets, products \in Selections \cup {Keep} :
               signal_stage_advance(to, products)
      BY <1>1
    <2> QED BY JourneyAssumption DEF signal_stage_advance, SendAdvance, Senders, Next
  <1>2. CASE start_product_onboarding
    <2>1. jobs[[kind |-> "humanSignal"]] > 0
      BY <1>2 DEF start_product_onboarding, Finish
    <2>2. stage \in HumanStages
      BY <2>1, JourneyAssumption DEF OfficerInv, OfficerJobs
    <2> QED BY <1>2, <2>2, JourneyAssumption
            DEF start_product_onboarding, SendHumanDecision, Senders, Next
  <1>3. CASE \/ \E products \in Selections : AdvisorCommit(products)
             \/ _create_sales_review_background
             \/ \E decision \in Decisions : PostSales(decision)
    <2>1. \E s \in {"REVIEW", "SALES_REVIEW", "KYC"} : RowBecomes(s)
      BY <1>3, RouteTargets DEF AdvisorCommit, _create_sales_review_background, PostSales
    <2> QED BY <2>1, RowWrite
  <1>4. CASE \E decision \in Decisions : PostHuman(decision)
    BY <1>4, RowWrite DEF PostHuman, Decisions
  <1>5. CASE \/ \E d \in Docs : _create_document_task(d)
             \/ _trigger_next_stage_if_all_docs_approved
             \/ _maybe_advance_from_review
             \/ \E i \in 1 .. MaxReviews, decision \in Decisions : SalesCommit(i, decision)
             \/ \E decision \in Decisions : OfficerCommit(decision)
    BY <1>5 DEF _create_document_task, _trigger_next_stage_if_all_docs_approved,
       _maybe_advance_from_review, SalesCommit, OfficerCommit
  <1> QED BY <1>1, <1>2, <1>3, <1>4, <1>5 DEF Tasks

\* The composition adds senders to the workflow and takes nothing from it.
LEMMA JourneyStep ==
  ASSUME OfficerInv, [JourneyNext]_allVars
  PROVE  [Next]_vars
PROOF
  <1>1. CASE KickoffReview
    BY <1>1 DEF KickoffReview, Next, WorkflowStep
  <1>2. CASE WorkflowRuns
    BY <1>2 DEF WorkflowRuns, Next
  <1>3. CASE Requests
    BY <1>3, RequestStep
  <1>4. CASE Tasks
    BY <1>4, TaskStep
  <1>5. CASE Losses \/ UNCHANGED allVars
    BY <1>5 DEF Losses, allVars
  <1> QED BY <1>1, <1>2, <1>3, <1>4, <1>5 DEF JourneyNext

-----------------------------------------------------------------------------
(* A human decision is on its way only when the case is escalated *)

\* Only the escalation alert creates the HumanReview row, and nothing deletes it.
LEMMA HumanReviewFrame ==
  ASSUME [Next]_vars
  PROVE  \/ UNCHANGED humanReview
         \/ pc = "escAlert" /\ humanReview' = "PENDING"
PROOF
  <1> USE DEF local, queues, runs, db
  <1>1. CASE UNCHANGED vars
    BY <1>1 DEF vars
  <1>2. CASE StageSteps
    BY <1>2 DEF StageSteps, IntakeAdvance, SalesAdvance, SalesDecision, ReviewAdvance,
                ReviewDecision, MergeScreening, GatherProducts
  <1>3. CASE Senders
    BY <1>3 DEF Senders, SendAdvance, SendHumanDecision, advance_stage,
                human_review_completed
  <1>4. CASE Boot \/ IntakeKickoff \/ ReviewKickoff \/ SalesKickoff
    BY <1>4 DEF Boot, IntakeKickoff, ReviewKickoff, SalesKickoff
  <1>5. CASE WaitTimesOut \/ PersistStage \/ ApiWritesRow
    BY <1>5 DEF WaitTimesOut, PersistStage, ApiWritesRow
  <1>6. CASE ScreeningFails \/ KycPersist \/ KycNotify \/ KycStep \/ FraudScreened
    BY <1>6 DEF ScreeningFails, KycPersist, KycNotify, KycStep, KycAttempt, KycError,
                FraudScreened
  <1>7. CASE StartChildren \/ \E p \in Products : ChildStep(p)
    BY <1>7 DEF StartChildren, ChildStep, ChildAttempt, ChildFails
  <1>8. CASE Completion \/ CompleteNotify
    BY <1>8 DEF Completion, CompleteNotify
  <1>9. CASE EscalationAlert \/ EscalationSummary \/ EscalationResolved
    BY <1>9 DEF EscalationAlert, EscalationSummary, EscalationResolved
  <1>10. CASE ActivityFails
    BY <1>10 DEF ActivityFails, LostWrites
  <1> QED
    BY <1>1, <1>2, <1>3, <1>4, <1>5, <1>6, <1>7, <1>8, <1>9, <1>10
    DEF Next, WorkflowStep, StageSteps

\* A task of an officer's decision exists only after the HumanReview row does.
LEMMA OfficerJobsNext ==
  ASSUME OfficerInv, [JourneyNext]_allVars
  PROVE  /\ jobs' \in [Job -> Nat]
         /\ \A j \in OfficerJobs : jobs'[j] > 0 => humanReview = "PENDING"
PROOF
  <1> USE JobKinds, OtherJobs
  <1>0. jobs \in [Job -> Nat] /\ \A j \in OfficerJobs : jobs[j] > 0 => humanReview = "PENDING"
    BY DEF OfficerInv
  <1>1. CASE \E J : Spawn(J) /\ (J \cap OfficerJobs = {} \/ humanReview = "PENDING")
    BY <1>0, <1>1, SpawnCount
  <1>2. CASE \E k \in Job : \E J :
               /\ Finish(k, J)
               /\ J \cap OfficerJobs = {} \/ k \in OfficerJobs
    BY <1>0, <1>2, JobCount
  <1>3. CASE UNCHANGED jobs
    BY <1>0, <1>3
  <1>4. CASE Requests
    <2>1. CASE submit_intake
      BY <1>1, <2>1 DEF submit_intake
    <2>2. CASE handle_message
      BY <1>1, <2>2 DEF handle_message
    <2>3. CASE \E d \in Docs : upload(d)
      BY <1>1, <2>3 DEF upload
    <2>4. CASE \E d \in Docs : update_document_status(d) \/ decide_task(d)
      BY <1>1, <2>4 DEF update_document_status, decide_task
    <2>5. CASE advisor_approve_case
      BY <1>1, <2>5 DEF advisor_approve_case
    <2>6. ASSUME NEW i \in 1 .. MaxReviews, decide_sales_review(i)
          PROVE  \E J : Spawn(J) /\ (J \cap OfficerJobs = {} \/ humanReview = "PENDING")
      <3>1. PICK decision \in Decisions :
              Spawn({[kind |-> "salesCommit", review |-> i, decision |-> decision]})
        BY <2>6 DEF decide_sales_review
      <3>2. {[kind |-> "salesCommit", review |-> i, decision |-> decision]}
              \cap OfficerJobs = {}
        BY DEF OfficerJobs
      <3> QED BY <3>1, <3>2
    <2>7. CASE decide_review
      BY <1>1, <2>7 DEF decide_review
    <2>8. CASE patch_case_products \/ resume_case
      BY <1>1, <2>8 DEF patch_case_products, resume_case
    <2> QED BY <1>1, <1>4, <2>1, <2>2, <2>3, <2>4, <2>5, <2>6, <2>7, <2>8 DEF Requests
  <1>5. CASE Tasks
    <2>1. CASE \E to \in SignalTargets, products \in Selections \cup {Keep} :
                 signal_stage_advance(to, products)
      BY <1>2, <2>1 DEF signal_stage_advance
    <2>2. CASE start_product_onboarding
      <3>1. [kind |-> "humanSignal"] \in Job \cap OfficerJobs
        BY DEF Job, OfficerJobs
      <3>2. Finish([kind |-> "humanSignal"], {})
        BY <2>2 DEF start_product_onboarding
      <3> QED BY <1>2, <3>1, <3>2
    <2>3. CASE \E d \in Docs : _create_document_task(d)
      <3>1. PICK d \in Docs : Finish([kind |-> "createTask", doc |-> d], {})
        BY <2>3 DEF _create_document_task
      <3>2. [kind |-> "createTask", doc |-> d] \in Job
        BY DEF Job
      <3> QED BY <1>2, <3>1, <3>2
    <2>4. CASE _trigger_next_stage_if_all_docs_approved \/ _maybe_advance_from_review
      BY <1>2, <2>4 DEF _trigger_next_stage_if_all_docs_approved, _maybe_advance_from_review
    <2>5. CASE \E products \in Selections : AdvisorCommit(products)
      BY <1>2, <2>5 DEF AdvisorCommit
    <2>6. CASE _create_sales_review_background
      BY <1>2, <2>6 DEF _create_sales_review_background
    <2>7. CASE \E i \in 1 .. MaxReviews, decision \in Decisions : SalesCommit(i, decision)
      BY <1>2, <2>7 DEF SalesCommit
    <2>8. CASE \E decision \in Decisions : PostSales(decision)
      BY <1>2, <2>8 DEF PostSales
    <2>9. CASE \E decision \in Decisions : OfficerCommit(decision) \/ PostHuman(decision)
      BY <1>2, <2>9 DEF OfficerCommit, PostHuman, OfficerJobs
    <2> QED BY <1>5, <2>1, <2>2, <2>3, <2>4, <2>5, <2>6, <2>7, <2>8, <2>9 DEF Tasks
  <1>6. CASE Losses
    <2>1. CASE \E j \in Job : Finish(j, {})
      BY <1>2, <2>1
    <2>2. CASE jobs' = [j \in Job |-> 0]
      BY <2>2
    <2> QED BY <1>6, <2>1, <2>2 DEF Losses
  <1> QED
    BY <1>3, <1>4, <1>5, <1>6 DEF JourneyNext, KickoffReview, WorkflowRuns, journey, allVars

\* The officer's side of a new case is empty.
LEMMA OfficerInit == JourneyInit => OfficerInv
  BY JobKinds DEF JourneyInit, Init, OfficerInv

\* An escalated case never leaves ESCALATED, so a decision on its review cannot
\* reach the workflow in another stage.
LEMMA OfficerNext ==
  ASSUME WellFormed, OfficerInv, [JourneyNext]_allVars
  PROVE  OfficerInv'
PROOF
  <1>1. [Next]_vars
    BY JourneyStep
  <1>2. humanReview = "PENDING" => humanReview' = "PENDING"
    BY <1>1, HumanReviewFrame
  <1>3. jobs' \in [Job -> Nat] /\ \A j \in OfficerJobs : jobs'[j] > 0 => humanReview' = "PENDING"
    BY <1>2, OfficerJobsNext
  <1>4. humanReview' = "PENDING" => stage = "ESCALATED"
    BY <1>1, HumanReviewFrame DEF OfficerInv, WellFormed, PcMatchesStage
  <1>5. humanReview' = "PENDING" => stage' = "ESCALATED"
    BY <1>1, <1>4, EscalatedIsFinal
  <1> QED BY <1>3, <1>5 DEF OfficerInv, OfficerJobs, Decisions

-----------------------------------------------------------------------------
(* An approval is needed, and arrives *)

\* A finished job leaves the others as they were and adds those of J.
LEMMA JobsKept ==
  ASSUME jobs \in [Job -> Nat], NEW k \in Job, NEW J, Finish(k, J)
  PROVE  /\ \A j \in Job : jobs[j] > 0 /\ j # k => jobs'[j] > 0
         /\ \A j \in Job : j \in J /\ j # k => jobs'[j] > 0
PROOF
  <1>1. jobs' = [j \in Job |-> jobs[j] + One(j, J) - One(j, {k})]
    BY DEF Finish
  <1>2. \A j \in Job : jobs'[j] = jobs[j] + One(j, J) - One(j, {k})
    BY <1>1
  <1>3. ASSUME NEW j \in Job, j # k
        PROVE  /\ jobs[j] > 0 => jobs'[j] > 0
               /\ j \in J => jobs'[j] > 0
    BY <1>2, <1>3 DEF One
  <1> QED BY <1>3

\* A created job leaves the others as they were.
LEMMA JobsSpawned ==
  ASSUME jobs \in [Job -> Nat], NEW J, Spawn(J)
  PROVE  \A j \in Job : jobs[j] > 0 => jobs'[j] > 0
PROOF
  <1>1. ASSUME NEW j \in Job
        PROVE  jobs[j] + One(j, J) >= jobs[j]
    BY DEF One
  <1>2. \A j \in Job : jobs'[j] = jobs[j] + One(j, J)
    BY DEF Spawn
  <1> QED BY <1>1, <1>2 DEF One

\* What the workflow and its activities do by themselves.
Runs == WorkflowStep \/ KycStep \/ FraudScreened \/ \E p \in Products : ChildStep(p)

\* A wait takes the oldest request to advance or none; nothing else chooses KYC
\* but a human decision, and a case leaves KYC only after its KYC activity ran.
LEMMA RunFrame ==
  ASSUME WellFormed, Runs
  PROVE  /\ \/ /\ advQ' = advQ /\ selected' = selected
               /\ stage' = "KYC" => stage = "KYC" \/ (stage = "SALES_REVIEW" /\ humQ # <<>>)
            \/ /\ advQ # <<>> /\ advQ' = Tail(advQ)
               /\ stage' = Head(advQ).to
               /\ \/ selected' = selected
                  \/ Head(advQ).products # Keep /\ selected' = Head(advQ).products
         /\ status' = "RUNNING" => status = "RUNNING"
         /\ kycRun # "IDLE" => kycRun' # "IDLE"
         /\ stage = "KYC" => stage' = "KYC" \/ kycRun' # "IDLE"
PROOF
  <1> USE DEF local, queues, runs, db
  <1>0. PcMatchesStage /\ stage \in Stages
    BY DEF WellFormed, TypeOK
  <1>1. CASE IntakeAdvance \/ ReviewAdvance
    BY <1>0, <1>1 DEF IntakeAdvance, ReviewAdvance, Advance, PcMatchesStage
  <1>2. CASE SalesAdvance \/ SalesDecision \/ ReviewDecision
    BY <1>0, <1>2 DEF SalesAdvance, SalesDecision, ReviewDecision, PcMatchesStage
  <1>3. CASE MergeScreening \/ GatherProducts
    BY <1>0, <1>3 DEF MergeScreening, GatherProducts, ScreenedStage, KycOutcomes, PcMatchesStage
  <1>4. CASE PersistStage \/ KycNotify \/ IntakeKickoff
    BY <1>4 DEF PersistStage, KycNotify, IntakeKickoff, Dispatch
  <1>5. CASE Boot \/ SalesKickoff \/ ReviewKickoff \/ KycPersist \/ StartChildren
    BY <1>5 DEF Boot, SalesKickoff, ReviewKickoff, KycPersist, StartChildren
  <1>6. CASE Completion \/ EscalationAlert \/ EscalationSummary
    BY <1>6 DEF Completion, EscalationAlert, EscalationSummary
  <1>7. CASE WaitTimesOut \/ ScreeningFails \/ CompleteNotify \/ EscalationResolved \/ ActivityFails
    BY <1>7 DEF WaitTimesOut, ScreeningFails, CompleteNotify, EscalationResolved, ActivityFails,
                LostWrites, Close
  <1>8. CASE KycStep \/ FraudScreened
    BY <1>8 DEF KycStep, KycAttempt, KycError, FraudScreened, KycOutcomes
  <1>9. CASE \E p \in Products : ChildStep(p)
    BY <1>9 DEF ChildStep, ChildAttempt, ChildFails, Close
  <1> QED
    BY <1>1, <1>2, <1>3, <1>4, <1>5, <1>6, <1>7, <1>8, <1>9 DEF Runs, WorkflowStep

\* What each step of the journey does to the workflow's list of requests.
LEMMA JourneyFrame ==
  ASSUME [JourneyNext]_allVars
  PROVE  \/ Runs /\ UNCHANGED <<caseProducts, salesAudit, jobs, lost>>
         \/ \E to \in SignalTargets, products \in Selections \cup {Keep} :
               signal_stage_advance(to, products)
         \/ UNCHANGED <<advQ, stage, selected, status, kycRun>>
PROOF
  <1> USE DEF journey, productState, saleState
  <1>1. CASE KickoffReview
    BY <1>1 DEF KickoffReview, Runs, WorkflowStep
  <1>2. CASE WorkflowRuns
    BY <1>2 DEF WorkflowRuns, Runs
  <1> USE DEF vars, local, queues, runs, RowBecomes
  <1>3. CASE Requests
    BY <1>3 DEF Requests, submit_intake, handle_message, upload, update_document_status,
       decide_task, advisor_approve_case, decide_sales_review, decide_review,
       patch_case_products, resume_case
  <1>4. CASE start_product_onboarding
    BY <1>4 DEF start_product_onboarding, human_review_completed
  <1>5. CASE \E d \in Docs : _create_document_task(d)
    BY <1>5 DEF _create_document_task
  <1>6. CASE _trigger_next_stage_if_all_docs_approved \/ _maybe_advance_from_review
    BY <1>6 DEF _trigger_next_stage_if_all_docs_approved, _maybe_advance_from_review
  <1>7. CASE \/ \E products \in Selections : AdvisorCommit(products)
             \/ _create_sales_review_background
             \/ \E i \in 1 .. MaxReviews, decision \in Decisions : SalesCommit(i, decision)
    BY <1>7 DEF AdvisorCommit, _create_sales_review_background, SalesCommit
  <1>8. CASE \E decision \in Decisions :
               PostSales(decision) \/ OfficerCommit(decision) \/ PostHuman(decision)
    BY <1>8 DEF PostSales, OfficerCommit, PostHuman
  <1>9. CASE Losses \/ UNCHANGED allVars
    BY <1>9 DEF Losses, allVars
  <1> QED BY <1>1, <1>2, <1>3, <1>4, <1>5, <1>6, <1>7, <1>8, <1>9 DEF JourneyNext, Tasks

\* What was honest stays so: the products are kept, an approval is not undone.
LEMMA HonestKept ==
  ASSUME caseProducts' = caseProducts, salesAudit \subseteq salesAudit'
  PROVE  /\ MayBeScreened => MayBeScreened'
         /\ \A to, products : Honest(to, products) => Honest(to, products)'
         /\ \A j : HonestJob(j) => HonestJob(j)'
  BY DEF MayBeScreened, Honest, HonestJob, InstitutionalIn, Range1

\* A list of requests stays honest when its requests come from it or are honest.
LEMMA HonestQueue ==
  ASSUME caseProducts' = caseProducts, salesAudit \subseteq salesAudit',
         \A i \in DOMAIN advQ : Honest(advQ[i].to, advQ[i].products),
         \A i \in DOMAIN advQ' : \/ \E k \in DOMAIN advQ : advQ'[i] = advQ[k]
                                \/ Honest(advQ'[i].to, advQ'[i].products)
  PROVE  (\A i \in DOMAIN advQ : Honest(advQ[i].to, advQ[i].products))'
PROOF
  <1>1. ASSUME NEW i \in DOMAIN advQ'
        PROVE  Honest(advQ'[i].to, advQ'[i].products)
    BY <1>1
  <1> QED BY <1>1 DEF Honest, MayBeScreened

\* The calls that would change the products, or ask for KYC on their own.
RouteKept == {"handle_message", "patch_case_products"} \cap Calls = {}

\* The case's products and a decision that was logged are not taken back.
LEMMA RouteFrame ==
  ASSUME RouteKept, [JourneyNext]_allVars
  PROVE  caseProducts' = caseProducts /\ salesAudit \subseteq salesAudit'
PROOF
  <1> USE DEF journey, productState, saleState
  <1>1. CASE KickoffReview \/ WorkflowRuns
    BY <1>1 DEF KickoffReview, WorkflowRuns
  <1>2. CASE Requests
    BY <1>2 DEF RouteKept, Called, Requests, submit_intake, handle_message, upload,
       update_document_status, decide_task, advisor_approve_case, decide_sales_review,
       decide_review, patch_case_products, resume_case
  <1>3. CASE Tasks
    BY <1>3 DEF Tasks, signal_stage_advance, start_product_onboarding, _create_document_task,
       _trigger_next_stage_if_all_docs_approved, _maybe_advance_from_review, AdvisorCommit,
       _create_sales_review_background, SalesCommit, PostSales, OfficerCommit, PostHuman
  <1>4. CASE Losses \/ UNCHANGED allVars
    BY <1>4 DEF Losses, allVars
  <1> QED BY <1>1, <1>2, <1>3, <1>4 DEF JourneyNext

\* Every task that a step creates is honest.
LEMMA HonestJobsNext ==
  ASSUME RouteKept, RouteInv, jobs \in [Job -> Nat], [JourneyNext]_allVars
  PROVE  \A j \in Job : jobs'[j] > 0 => HonestJob(j)'
PROOF
  <1> USE JobKinds
  <1>0. /\ caseProducts' = caseProducts /\ salesAudit \subseteq salesAudit'
        /\ \A j \in Job : jobs[j] > 0 => HonestJob(j)
        /\ \A j : HonestJob(j) => HonestJob(j)'
    BY RouteFrame, HonestKept DEF RouteInv
  <1>c. PICK mine : caseProducts = mine
    OBVIOUS
  <1>1. CASE \E J : Spawn(J) /\ \A j \in J : HonestJob(j)'
    BY <1>0, <1>1, SpawnCount
  <1>2. CASE \E k \in Job : \E J : Finish(k, J) /\ \A j \in J : HonestJob(j)'
    BY <1>0, <1>2, JobCount
  <1>3. CASE UNCHANGED jobs
    BY <1>0, <1>3
  <1>4. CASE Requests
    <2>1. CASE submit_intake
      <3>1. HonestJob(Signal("REVIEW", Keep))'
        BY DEF HonestJob, Honest, Signal
      <3> QED BY <1>1, <2>1, <3>1 DEF submit_intake
    <2>2. CASE handle_message \/ patch_case_products
      BY <2>2 DEF handle_message, patch_case_products, RouteKept, Called
    <2>3. CASE \E d \in Docs : upload(d) \/ update_document_status(d) \/ decide_task(d)
      <3>1. \E J : /\ Spawn(J)
                   /\ \A j \in J : j.kind \in {"createTask", "checkDocs", "checkTasks"}
        BY <2>3 DEF upload, update_document_status, decide_task
      <3> QED BY <1>1, <3>1 DEF HonestJob
    <2>4. CASE advisor_approve_case
      <3>1. HonestJob([kind |-> "advisorCommit", products |-> mine])'
        BY <1>0, <1>c DEF HonestJob
      <3> QED BY <1>1, <1>c, <2>4, <3>1 DEF advisor_approve_case
    <2>5. CASE \/ \E i \in 1 .. MaxReviews : decide_sales_review(i)
               \/ decide_review \/ resume_case
      <3>1. CASE resume_case
        BY <1>1, <3>1 DEF resume_case
      <3>2. CASE \E i \in 1 .. MaxReviews : decide_sales_review(i)
        <4>1. PICK i \in 1 .. MaxReviews, decision \in Decisions :
                Spawn({[kind |-> "salesCommit", review |-> i, decision |-> decision]})
          BY <3>2 DEF decide_sales_review
        <4>2. HonestJob([kind |-> "salesCommit", review |-> i, decision |-> decision])'
          BY DEF HonestJob
        <4> QED BY <1>1, <4>1, <4>2
      <3>3. CASE decide_review
        <4>1. PICK decision \in Decisions :
                Spawn({[kind |-> "officerCommit", decision |-> decision]})
          BY <3>3 DEF decide_review
        <4>2. HonestJob([kind |-> "officerCommit", decision |-> decision])'
          BY DEF HonestJob
        <4> QED BY <1>1, <4>1, <4>2
      <3> QED BY <2>5, <3>1, <3>2, <3>3
    <2> QED BY <1>4, <2>1, <2>2, <2>3, <2>4, <2>5 DEF Requests
  <1>5. CASE Tasks
    <2>1. CASE \/ \E to \in SignalTargets, products \in Selections \cup {Keep} :
                    signal_stage_advance(to, products)
               \/ start_product_onboarding
               \/ \E d \in Docs : _create_document_task(d)
               \/ _create_sales_review_background
      <3>1. \E k \in Job : Finish(k, {})
        BY <2>1 DEF signal_stage_advance, start_product_onboarding, _create_document_task,
                    _create_sales_review_background
      <3> QED BY <1>2, <3>1
    <2>2. CASE _trigger_next_stage_if_all_docs_approved \/ _maybe_advance_from_review
      <3>1. HonestJob(Signal(Route(mine), mine))'
        BY <1>0, <1>c DEF HonestJob, Honest, Signal, Route, MayBeScreened, InstitutionalIn, Range1
      <3>2. \E k \in Job : \E J : Finish(k, J) /\ J \subseteq {Signal(Route(mine), mine)}
        BY <1>c, <2>2 DEF _trigger_next_stage_if_all_docs_approved, _maybe_advance_from_review
      <3> QED BY <1>2, <3>1, <3>2
    <2>3. CASE \E products \in Selections : AdvisorCommit(products)
      <3>1. PICK products \in Selections : AdvisorCommit(products)
        BY <2>3
      <3>2. jobs[[kind |-> "advisorCommit", products |-> products]] > 0
        BY <3>1 DEF AdvisorCommit, Finish
      <3>3. products = caseProducts
        BY <1>0, <3>2 DEF HonestJob
      <3>4. /\ HonestJob([kind |-> "createReview"])' /\ HonestJob(Signal("SALES_REVIEW", Keep))'
            /\ Route(products) # "SALES_REVIEW" => HonestJob(Signal("KYC", products))'
        BY <1>0, <3>3 DEF HonestJob, Honest, Signal, Route, MayBeScreened, InstitutionalIn, Range1
      <3> QED BY <1>2, <3>1, <3>4 DEF AdvisorCommit
    <2>4. CASE \E i \in 1 .. MaxReviews, decision \in Decisions : SalesCommit(i, decision)
      <3>1. PICK i \in 1 .. MaxReviews, decision \in Decisions : SalesCommit(i, decision)
        BY <2>4
      <3>2. HonestJob([kind |-> "postSales", decision |-> decision])'
        BY <3>1 DEF SalesCommit, HonestJob
      <3> QED BY <1>2, <3>1, <3>2 DEF SalesCommit
    <2>5. CASE \E decision \in Decisions : PostSales(decision)
      <3>1. PICK decision \in Decisions : PostSales(decision)
        BY <2>5
      <3>2. decision = "APPROVED" => HonestJob(Signal("KYC", mine))'
        <4>1. jobs[[kind |-> "postSales", decision |-> decision]] > 0
          BY <3>1 DEF PostSales, Finish
        <4>2. decision = "APPROVED" => "APPROVED" \in salesAudit
          BY <1>0, <4>1 DEF HonestJob
        <4> QED BY <1>0, <1>c, <4>2 DEF HonestJob, Honest, Signal, MayBeScreened
      <3> QED BY <1>2, <1>c, <3>1, <3>2 DEF PostSales
    <2>6. CASE \E decision \in Decisions : OfficerCommit(decision) \/ PostHuman(decision)
      <3>1. \E k \in Job : \E J :
              Finish(k, J) /\ \A j \in J : j.kind \in {"postHuman", "humanSignal"}
        BY <2>6 DEF OfficerCommit, PostHuman
      <3> QED BY <1>2, <3>1 DEF HonestJob
    <2> QED BY <1>5, <2>1, <2>2, <2>3, <2>4, <2>5, <2>6 DEF Tasks
  <1>6. CASE Losses
    <2>1. CASE \E j \in Job : Finish(j, {})
      BY <1>2, <2>1
    <2>2. CASE jobs' = [j \in Job |-> 0]
      BY <2>2
    <2> QED BY <1>6, <2>1, <2>2 DEF Losses
  <1> QED
    BY <1>3, <1>4, <1>5, <1>6 DEF JourneyNext, KickoffReview, WorkflowRuns, journey, allVars

\* The route invariant is inductive when nobody changes the products nor asks for
\* KYC on their own.
LEMMA RouteNext ==
  ASSUME RouteKept, WellFormed, DecisionsOnlyEscalated, jobs \in [Job -> Nat],
         RouteInv, [JourneyNext]_allVars
  PROVE  RouteInv'
PROOF
  <1>0. /\ caseProducts' = caseProducts
        /\ salesAudit \subseteq salesAudit'
        /\ MayBeScreened => MayBeScreened'
        /\ advQ \in Seq(AdvanceSignal)
        /\ \A i \in DOMAIN advQ : Honest(advQ[i].to, advQ[i].products)
    BY RouteFrame, HonestKept DEF RouteInv, WellFormed, TypeOK
  <1>t. advQ # <<>> => Tail(advQ) # advQ
    BY <1>0
  <1>1. \A j \in Job : jobs'[j] > 0 => HonestJob(j)'
    BY HonestJobsNext
  <1>2. CASE Runs
    <2>2. CASE advQ' = advQ
      <3>1. /\ selected' = selected
            /\ stage' = "KYC" => stage = "KYC" \/ (stage = "SALES_REVIEW" /\ humQ # <<>>)
        BY <1>0, <1>2, <2>2, <1>t, RunFrame
      <3> QED BY <1>0, <1>1, <2>2, <3>1, HonestQueue DEF RouteInv, DecisionsOnlyEscalated
    <2>3. CASE advQ # <<>> /\ advQ' = Tail(advQ)
      <3>1. /\ stage' = Head(advQ).to
            /\ selected' = selected
                 \/ (Head(advQ).products # Keep /\ selected' = Head(advQ).products)
        BY <1>0, <1>2, <2>3, <1>t, RunFrame
      <3>2. Honest(Head(advQ).to, Head(advQ).products)
        BY <1>0, <2>3 DEF RouteInv
      <3>3. selected' = caseProducts' /\ (stage' = "KYC" => MayBeScreened')
        BY <1>0, <3>1, <3>2 DEF RouteInv, Honest
      <3>4. \A i \in DOMAIN advQ' : i + 1 \in DOMAIN advQ /\ advQ'[i] = advQ[i + 1]
        BY <1>0, <2>3
      <3>5. (\A i \in DOMAIN advQ : Honest(advQ[i].to, advQ[i].products))'
        BY <1>0, <3>4, HonestQueue
      <3> QED BY <1>1, <3>3, <3>5 DEF RouteInv
    <2> QED BY <1>2, <2>2, <2>3, RunFrame
  <1>3. CASE \E to \in SignalTargets, products \in Selections \cup {Keep} :
               signal_stage_advance(to, products)
    <2>1. PICK to \in SignalTargets, products \in Selections \cup {Keep} :
                 signal_stage_advance(to, products)
      BY <1>3
    <2>2. Honest(to, products)
      <3>1. jobs[Signal(to, products)] > 0 /\ Signal(to, products) \in Job
        BY <2>1, JobKinds DEF signal_stage_advance, Finish
      <3> QED BY <3>1 DEF RouteInv, HonestJob, Signal
    <2>3. /\ selected' = selected /\ stage' = stage
          /\ advQ' = advQ \/ advQ' = Append(advQ, [to |-> to, products |-> products])
      BY <2>1 DEF signal_stage_advance, advance_stage, vars, local, queues
    <2>4. ASSUME NEW i \in DOMAIN advQ'
          PROVE  \/ \E k \in DOMAIN advQ : advQ'[i] = advQ[k]
                 \/ Honest(advQ'[i].to, advQ'[i].products)
      <3>1. CASE advQ' = advQ
        BY <2>4, <3>1
      <3>2. CASE advQ' = Append(advQ, [to |-> to, products |-> products])
        <4>1. \/ i \in DOMAIN advQ /\ advQ'[i] = advQ[i]
              \/ advQ'[i] = [to |-> to, products |-> products]
          BY <1>0, <2>4, <3>2
        <4> QED BY <2>2, <4>1
      <3> QED BY <2>3, <3>1, <3>2
    <2> QED BY <1>0, <1>1, <2>3, <2>4, HonestQueue DEF RouteInv
  <1>4. CASE UNCHANGED <<advQ, stage, selected, status, kycRun>>
    BY <1>0, <1>1, <1>4, HonestQueue DEF RouteInv
  <1> QED BY <1>2, <1>3, <1>4, JourneyFrame

\* An approval that was committed is kept by every step but a loss.
LEMMA ApprovalNext ==
  ASSUME WellFormed, jobs \in [Job -> Nat], ApprovalInv, [JourneyNext]_allVars
  PROVE  ApprovalInv'
PROOF
  <1> USE JobKinds
  <1> DEFINE mail == [kind |-> "postSales", decision |-> "APPROVED"]
             Kept(j) == jobs[j] > 0 => jobs'[j] > 0
  <1>0. /\ advQ \in Seq(AdvanceSignal) /\ mail \in Job
        /\ \A products \in Selections : Signal("KYC", products) \in Job
    BY DEF WellFormed, TypeOK, Decisions, SignalTargets
  <1>1. CASE Runs /\ UNCHANGED <<caseProducts, salesAudit, jobs, lost>>
    <2>1. CASE advQ' = advQ
      <3>1. /\ status' = "RUNNING" => status = "RUNNING"
            /\ kycRun # "IDLE" => kycRun' # "IDLE"
            /\ stage = "KYC" => stage' = "KYC" \/ kycRun' # "IDLE"
        BY <1>1, RunFrame
      <3> QED BY <1>1, <2>1, <3>1 DEF ApprovalInv, ApprovalUnderWay
    <2>2. CASE advQ # <<>> /\ advQ' = Tail(advQ) /\ stage' = Head(advQ).to
      <3>1. /\ status' = "RUNNING" => status = "RUNNING"
            /\ kycRun # "IDLE" => kycRun' # "IDLE"
            /\ stage = "KYC" => stage' = "KYC" \/ kycRun' # "IDLE"
        BY <1>1, RunFrame
      <3>2. ASSUME NEW i \in DOMAIN advQ, advQ[i].to = "KYC"
            PROVE  stage' = "KYC" \/ \E k \in DOMAIN advQ' : advQ'[k].to = "KYC"
        <4>1. CASE i = 1
          BY <1>0, <2>2, <3>2, <4>1
        <4>2. CASE i # 1
          <5>1. i - 1 \in DOMAIN advQ' /\ advQ'[i - 1] = advQ[i]
            BY <1>0, <2>2, <3>2, <4>2
          <5> QED BY <3>2, <5>1
        <4> QED BY <4>1, <4>2
      <3> QED BY <1>1, <3>1, <3>2 DEF ApprovalInv, ApprovalUnderWay
    <2> QED BY <1>1, <2>1, <2>2, RunFrame
  <1>2. ASSUME NEW to \in SignalTargets, NEW products \in Selections \cup {Keep},
               signal_stage_advance(to, products)
        PROVE  ApprovalInv'
    <2>1. /\ Finish(Signal(to, products), {}) /\ Signal(to, products) \in Job
          /\ UNCHANGED <<stage, status, kycRun, lost, caseProducts, salesAudit>>
      BY <1>2 DEF signal_stage_advance, advance_stage, vars, local, runs, productState, saleState
    <2>2. \A j \in Job : j # Signal(to, products) => Kept(j)
      BY <2>1, JobsKept
    <2>3. status = "RUNNING" => advQ' = Append(advQ, [to |-> to, products |-> products])
      BY <1>2 DEF signal_stage_advance, advance_stage
    <2>4. Kept(mail)
      BY <1>0, <2>2 DEF Signal
    <2>5. ASSUME NEW p \in Selections, status = "RUNNING", jobs[Signal("KYC", p)] > 0
          PROVE  \/ jobs'[Signal("KYC", p)] > 0
                 \/ \E i \in DOMAIN advQ' : advQ'[i].to = "KYC"
      <3>1. CASE Signal("KYC", p) = Signal(to, products)
        <4>1. to = "KYC"
          BY <3>1 DEF Signal
        <4>2. /\ Len(advQ) + 1 \in DOMAIN advQ'
              /\ advQ'[Len(advQ) + 1] = [to |-> to, products |-> products]
          BY <1>0, <2>3, <2>5
        <4> QED BY <4>1, <4>2
      <3>2. CASE Signal("KYC", p) # Signal(to, products)
        BY <1>0, <2>2, <2>5, <3>2
      <3> QED BY <3>1, <3>2
    <2>6. ASSUME NEW i \in DOMAIN advQ, status = "RUNNING", advQ[i].to = "KYC"
          PROVE  \E k \in DOMAIN advQ' : advQ'[k].to = "KYC"
      <3>0. advQ' = Append(advQ, [to |-> to, products |-> products])
        BY <2>3, <2>6
      <3>1. i \in DOMAIN advQ' /\ advQ'[i] = advQ[i]
        BY <1>0, <2>6, <3>0
      <3> QED BY <2>6, <3>1
    <2> QED BY <2>1, <2>4, <2>5, <2>6 DEF ApprovalInv, ApprovalUnderWay
  <1>3. CASE UNCHANGED <<advQ, stage, selected, status, kycRun>>
    <2>1. CASE /\ UNCHANGED <<salesAudit, lost>> /\ caseProducts' \in Selections
               /\ \A j \in Job : j.kind \in {"signal", "postSales"} => Kept(j)
      <3>1. Kept(mail) /\ \A p \in Selections : Kept(Signal("KYC", p))
        BY <1>0, <2>1 DEF Signal
      <3> QED BY <1>3, <2>1, <3>1 DEF ApprovalInv, ApprovalUnderWay
    <2> USE DEF productState, saleState
    <2>2. CASE UNCHANGED <<caseProducts, salesAudit, jobs, lost>>
      BY <2>1, <2>2 DEF ApprovalInv
    <2>3. CASE Requests
      <3>1. /\ UNCHANGED <<salesAudit, lost>> /\ caseProducts' \in Selections
            /\ \E J : Spawn(J)
        BY <2>3 DEF ApprovalInv, Requests, submit_intake, handle_message, upload,
           update_document_status, decide_task, advisor_approve_case, decide_sales_review,
           decide_review, patch_case_products, resume_case
      <3> QED BY <2>1, <3>1, JobsSpawned
    <2>4. CASE \/ start_product_onboarding
               \/ \E d \in Docs : _create_document_task(d)
               \/ _trigger_next_stage_if_all_docs_approved \/ _maybe_advance_from_review
               \/ \E products \in Selections : AdvisorCommit(products)
               \/ _create_sales_review_background
               \/ \E decision \in Decisions : OfficerCommit(decision) \/ PostHuman(decision)
      <3>1. UNCHANGED <<salesAudit, lost>> /\ caseProducts' \in Selections
        BY <2>4 DEF ApprovalInv, start_product_onboarding, _create_document_task,
           _trigger_next_stage_if_all_docs_approved, _maybe_advance_from_review, AdvisorCommit,
           _create_sales_review_background, OfficerCommit, PostHuman
      <3>2. \E k \in Job : k.kind \notin {"signal", "postSales"} /\ \E J : Finish(k, J)
        BY <2>4 DEF start_product_onboarding, _create_document_task,
           _trigger_next_stage_if_all_docs_approved, _maybe_advance_from_review, AdvisorCommit,
           _create_sales_review_background, OfficerCommit, PostHuman
      <3> QED BY <2>1, <3>1, <3>2, JobsKept
    <2>5. ASSUME NEW i \in 1 .. MaxReviews, NEW decision \in Decisions, SalesCommit(i, decision)
          PROVE  ApprovalInv'
      <3>1. PICK k \in Job : /\ k.kind = "salesCommit"
                             /\ Finish(k, {[kind |-> "postSales", decision |-> decision]})
        BY <2>5 DEF SalesCommit
      <3>2. CASE decision = "APPROVED"
        <4>1. jobs'[mail] > 0
          BY <1>0, <3>1, <3>2, JobsKept
        <4> QED BY <2>5, <4>1 DEF ApprovalInv, ApprovalUnderWay, SalesCommit
      <3>3. CASE decision # "APPROVED"
        <4>1. /\ "APPROVED" \in salesAudit' => "APPROVED" \in salesAudit
              /\ UNCHANGED <<lost, caseProducts>>
          BY <2>5, <3>3 DEF SalesCommit
        <4>2. Kept(mail) /\ \A p \in Selections : Kept(Signal("KYC", p))
          BY <1>0, <3>1, JobsKept DEF Signal
        <4> QED BY <1>3, <4>1, <4>2 DEF ApprovalInv, ApprovalUnderWay
      <3> QED BY <3>2, <3>3
    <2>6. ASSUME NEW decision \in Decisions, PostSales(decision)
          PROVE  ApprovalInv'
      <3>0. UNCHANGED <<salesAudit, lost, caseProducts>>
        BY <2>6 DEF PostSales
      <3>1. CASE decision = "APPROVED"
        <4>1. Finish(mail, {Signal("KYC", caseProducts)})
          BY <2>6, <3>1 DEF PostSales
        <4>2. Signal("KYC", caseProducts) \in Job /\ Signal("KYC", caseProducts) # mail
          BY <1>0 DEF ApprovalInv, Signal
        <4>3. jobs'[Signal("KYC", caseProducts)] > 0
          BY <1>0, <4>1, <4>2, JobsKept
        <4>4. jobs'[Signal("KYC", caseProducts')] > 0
          BY <3>0, <4>3
        <4> QED BY <3>0, <4>4 DEF ApprovalInv, ApprovalUnderWay
      <3>2. CASE decision # "APPROVED"
        <4>1. PICK k \in Job : /\ k = [kind |-> "postSales", decision |-> decision]
                               /\ \E J : Finish(k, J)
          BY <2>6 DEF PostSales
        <4>2. Kept(mail) /\ \A p \in Selections : Kept(Signal("KYC", p))
          BY <1>0, <3>2, <4>1, JobsKept DEF Signal
        <4> QED BY <1>3, <3>0, <4>2 DEF ApprovalInv, ApprovalUnderWay
      <3> QED BY <3>1, <3>2
    <2>7. CASE Losses
      BY <2>7 DEF Losses, ApprovalInv
    <2> QED
      BY <1>2, <2>2, <2>3, <2>4, <2>5, <2>6, <2>7
      DEF JourneyNext, Tasks, KickoffReview, WorkflowRuns, journey, allVars
  <1> QED BY <1>1, <1>2, <1>3, JourneyFrame

-----------------------------------------------------------------------------
(* Theorems *)

\* The API, its services and their tasks, in any order and with any loss, are
\* senders that OnboardingWorkflow allows.
THEOREM JourneyImplementsWorkflow == JourneySpec => ImplementsWorkflow
PROOF
  <1>1. JourneyInit => Init /\ WellFormed /\ OfficerInv
    BY WellFormedInit, OfficerInit DEF JourneyInit
  <1>2. WellFormed /\ OfficerInv /\ [JourneyNext]_allVars
          => [Next]_vars /\ WellFormed' /\ OfficerInv'
    BY JourneyStep, OfficerNext, WellFormedNext
  <1> QED BY <1>1, <1>2, PTL DEF JourneySpec, ImplementsWorkflow, Spec

\* The case is onboarded only after its clearance with the senders of the code,
\* provided the instance's constants name no others.
THEOREM JourneyNeedsClearance ==
  ASSUME DeployedSenders
  PROVE  JourneySpec => []ProductsOnlyAfterClearance
PROOF
  <1>1. Spec => []ProductsOnlyAfterClearance
    BY OnboardingNeedsClearance
  <1> QED BY <1>1, JourneyImplementsWorkflow DEF ImplementsWorkflow

\* A human decision waits in the workflow's list only in an escalated case.
THEOREM JourneyDecisionsOnlyEscalated ==
  ASSUME DeployedSenders
  PROVE  JourneySpec => []DecisionsOnlyEscalated
PROOF
  <1>1. ClearanceInv => DecisionsOnlyEscalated
    BY DEF ClearanceInv
  <1>2. ClearanceInv /\ [Next]_vars => ClearanceInv'
    BY ClearanceNext
  <1>3. Spec => []DecisionsOnlyEscalated
    BY ClearanceInit, <1>1, <1>2, PTL DEF Spec
  <1> QED BY <1>3, JourneyImplementsWorkflow DEF ImplementsWorkflow

\* With the senders of the code, and while the products are not changed and the
\* questionnaire does not ask for KYC on its own, a case with an institutional
\* product is screened only after a sales manager's approval, for any documents,
\* reviews and losses (cases.py advisor_approve_case, SalesReviewService).
THEOREM InstitutionalIsApproved ==
  ASSUME DeployedSenders, RouteKept
  PROVE  JourneySpec => []InstitutionalNeedsApproval
PROOF
  <1>1. JourneyInit => WellFormed /\ OfficerInv /\ RouteInv /\ Init
    <2>1. JourneyInit => RouteInv
      BY DEF JourneyInit, Init, RouteInv
    <2> QED BY <2>1, WellFormedInit, OfficerInit DEF JourneyInit
  <1>2. WellFormed /\ OfficerInv /\ [JourneyNext]_allVars => WellFormed' /\ OfficerInv'
    BY JourneyStep, OfficerNext, WellFormedNext
  <1>3. OfficerInv /\ WellFormed /\ DecisionsOnlyEscalated /\ RouteInv /\ [JourneyNext]_allVars
          => RouteInv'
    BY RouteNext DEF OfficerInv
  <1>4. RouteInv => InstitutionalNeedsApproval
    BY DEF RouteInv, MayBeScreened, InstitutionalNeedsApproval
  <1> QED BY <1>1, <1>2, <1>3, <1>4, JourneyDecisionsOnlyEscalated, PTL DEF JourneySpec

\* A sales manager's approval is not forgotten by the tasks between its commit and
\* the screening, with every entry point in play (SalesReviewService,
\* _handle_sales_review).
THEOREM ApprovalArrives == JourneySpec => []ApprovalReachesWorkflow
PROOF
  <1>1. JourneyInit => WellFormed /\ OfficerInv /\ ApprovalInv
    <2>1. JourneyInit => ApprovalInv
      BY DEF JourneyInit, Init, ApprovalInv
    <2> QED BY <2>1, WellFormedInit, OfficerInit DEF JourneyInit
  <1>2. WellFormed /\ OfficerInv /\ [JourneyNext]_allVars => WellFormed' /\ OfficerInv'
    BY JourneyStep, OfficerNext, WellFormedNext
  <1>3. WellFormed /\ OfficerInv /\ ApprovalInv /\ [JourneyNext]_allVars => ApprovalInv'
    BY ApprovalNext DEF OfficerInv
  <1>4. ApprovalInv => ApprovalReachesWorkflow
    BY DEF ApprovalInv, ApprovalUnderWay, ApprovalReachesWorkflow, Idle
  <1> QED BY <1>1, <1>2, <1>3, <1>4, PTL DEF JourneySpec

=============================================================================
