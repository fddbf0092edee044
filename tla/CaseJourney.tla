----------------------------- MODULE CaseJourney -----------------------------
(***************************************************************************)
(* One onboarding case with the senders the code has: the API routes and   *)
(* services that write the case row and signal its OnboardingWorkflow      *)
(* (src/backend/app/api/routers, src/backend/app/services), composed with  *)
(* the workflow itself.                                                    *)
(*                                                                         *)
(* A request commits, then leaves its further work to asyncio tasks of the *)
(* API process, which run in any order and die with the process.  jobs[j]  *)
(* counts the tasks j in flight; a request whose check and write are       *)
(* separated by awaits is a job between the two.                           *)
(***************************************************************************)
EXTENDS OnboardingWorkflow

CONSTANTS
  Institutional, \* products of product_type "institutional"
  Docs,          \* documents that may be uploaded
  Calls,         \* entry points in play
  MaxCalls,      \* bound: requests made
  MaxReviews,    \* bound: sales reviews that are decided
  MaxLost        \* bound: signals that fail and restarts of the API process

Decisions == {"APPROVED", "REJECTED", "MORE_INFO_REQUESTED"}
SignalTargets == {"REVIEW", "SALES_REVIEW", "KYC"}

ASSUME JourneyAssumption ==
  /\ Institutional \subseteq Products
  /\ <<>> \in Selections
  /\ SignalTargets \subseteq AdvanceTargets
  /\ "ESCALATED" \in HumanStages
  /\ "APPROVED" \in HumanDecisions
  /\ {"REVIEW", "SALES_REVIEW", "KYC", "PARALLEL_PRODUCTS", "COMPLETE"} \subseteq ApiRows
  /\ MaxCalls \in Nat
  /\ MaxReviews \in Nat
  /\ MaxLost \in Nat

VARIABLES
  caseProducts, \* onboarding_cases.selected_products
  ctxProducts,  \* selected_products a conversation session may have been opened with
  docs,         \* status of each document: OPEN stands for every status of an uploaded, unapproved one
  docTask,      \* status of the DOCUMENT_REVIEW task of each document
  reviews,      \* status of each SalesManagerReview of the case, oldest first
  salesAudit,   \* decisions logged as SALES_REVIEW_DECIDED
  officer,      \* status of the HumanReview, once the row exists
  advanceSent,  \* the conversation session's _advance_sent
  jobs,         \* background tasks and requests in flight in the API process
  calls,        \* requests so far
  lost          \* losses so far

docState == <<docs, docTask>>
saleState == <<reviews, salesAudit>>
productState == <<caseProducts, ctxProducts>>
journey == <<productState, docState, saleState, officer, advanceSent, jobs, calls, lost>>
allVars == <<vars, journey>>

Signal(to, products) == [kind |-> "signal", to |-> to, products |-> products]

Job ==
  [kind : {"signal"}, to : SignalTargets, products : Selections \cup {Keep}]
    \cup [kind : {"checkDocs", "checkTasks", "createReview", "humanSignal"}]
    \cup [kind : {"createTask"}, doc : Docs]
    \cup [kind : {"advisorCommit"}, products : Selections]
    \cup [kind : {"salesCommit"}, review : 1 .. MaxReviews, decision : Decisions]
    \cup [kind : {"officerCommit", "postSales", "postHuman"}, decision : Decisions]

One(j, J) == IF j \in J THEN 1 ELSE 0

\* asyncio.create_task for each job of J.
Spawn(J) == jobs' = [j \in Job |-> jobs[j] + One(j, J)]

\* Job k ends and leaves the jobs of J behind.
Finish(k, J) ==
  /\ jobs[k] > 0
  /\ jobs' = [j \in Job |-> jobs[j] + One(j, J) - One(j, {k})]

Called(name) == name \in Calls /\ calls < MaxCalls /\ calls' = calls + 1

\* The request or task commits current_stage.
RowBecomes(s) ==
  /\ row' = s
  /\ UNCHANGED <<local, queues, runs, verdict, accounts, activation, humanReview,
                 sent, faults>>

InstitutionalIn(products) == Range1(products) \cap Institutional

\* The routing query uses scalar_one_or_none: it raises when two products match.
Routable(products) == Cardinality(InstitutionalIn(products)) <= 1

\* Mutant of Route: the institutional products are not looked at.
RouteRetail(products) == "KYC"

\* Where a case goes from REVIEW.
Route(products) == IF InstitutionalIn(products) # {} THEN "SALES_REVIEW" ELSE "KYC"

JourneyInit ==
  /\ Init
  /\ caseProducts = selected
  /\ ctxProducts = {selected, <<>>}
  /\ docs = [d \in Docs |-> "absent"]
  /\ docTask = [d \in Docs |-> "NONE"]
  /\ reviews = <<>>
  /\ salesAudit = {}
  /\ officer = "PENDING"
  /\ advanceSent = FALSE
  /\ jobs = [j \in Job |-> 0]
  /\ calls = 0
  /\ lost = 0

-----------------------------------------------------------------------------
(* Requests *)

\* POST /cases/{id}/submit-intake: no guard on the stage.
submit_intake ==
  /\ Called("submit_intake")
  /\ RowBecomes("REVIEW")
  /\ Spawn({Signal("REVIEW", Keep)})
  /\ UNCHANGED <<productState, docState, saleState, officer, advanceSent, lost>>

\* The last answer of the questionnaire: the coordinator asks for KYC, with the
\* products its session was opened with: those of the context of that moment,
\* none if it did not load.
handle_message ==
  /\ Called("handle_message")
  /\ ~advanceSent
  /\ advanceSent' = TRUE
  /\ \E products \in ctxProducts : Spawn({Signal("KYC", products)})
  /\ UNCHANGED <<vars, productState, docState, saleState, officer, lost>>

\* POST /cases/{id}/documents
upload(d) ==
  /\ Called("upload")
  /\ docs[d] = "absent"
  /\ docs' = [docs EXCEPT ![d] = "OPEN"]
  /\ Spawn({[kind |-> "createTask", doc |-> d]})
  /\ UNCHANGED <<vars, productState, docTask, saleState, officer, advanceSent, lost>>

\* PATCH /documents/{id}
update_document_status(d) ==
  /\ Called("update_document_status")
  /\ docs[d] # "absent"
  /\ \E s \in {"REQUESTED", "OPEN", "APPROVED"} :
       /\ docs' = [docs EXCEPT ![d] = s]
       /\ Spawn(IF s = "APPROVED" THEN {[kind |-> "checkDocs"]} ELSE {})
  /\ UNCHANGED <<vars, productState, docTask, saleState, officer, advanceSent, lost>>

\* PATCH /tasks/{id}/decide on a DOCUMENT_REVIEW task: the document follows.
decide_task(d) ==
  /\ Called("decide_task")
  /\ docTask[d] = "PENDING"
  /\ \E decision \in Decisions :
       /\ docTask' = [docTask EXCEPT ![d] = decision]
       /\ docs' = CASE decision = "APPROVED" -> [docs EXCEPT ![d] = "APPROVED"]
                    [] decision = "REJECTED" -> [docs EXCEPT ![d] = "OPEN"]
                    [] OTHER -> docs
       /\ Spawn(IF decision = "APPROVED" THEN {[kind |-> "checkTasks"]} ELSE {})
  /\ UNCHANGED <<vars, productState, saleState, officer, advanceSent, lost>>

Uploaded == {d \in Docs : docs[d] # "absent"}

\* POST /cases/{id}/advisor-approve: the checks.
advisor_approve_case ==
  /\ Called("advisor_approve_case")
  /\ row = "REVIEW"
  /\ Uploaded # {} /\ \A d \in Uploaded : docs[d] = "APPROVED"
  /\ Routable(caseProducts)
  /\ Spawn({[kind |-> "advisorCommit", products |-> caseProducts]})
  /\ UNCHANGED <<vars, productState, docState, saleState, officer, advanceSent, lost>>

\* POST /sales-reviews/{id}/decide: the check.
decide_sales_review(i) ==
  /\ Called("decide_sales_review")
  /\ reviews[i] = "PENDING"
  /\ \E decision \in Decisions :
       Spawn({[kind |-> "salesCommit", review |-> i, decision |-> decision]})
  /\ UNCHANGED <<vars, productState, docState, saleState, officer, advanceSent, lost>>

\* Mutant of decide_review: it does not look for the HumanReview row.
decide_review_unchecked ==
  /\ Called("decide_review")
  /\ officer = "PENDING"
  /\ \E decision \in Decisions : Spawn({[kind |-> "officerCommit", decision |-> decision]})
  /\ UNCHANGED <<vars, productState, docState, saleState, officer, advanceSent, lost>>

\* POST /reviews/{id}/decide: the check.
decide_review ==
  /\ Called("decide_review")
  /\ humanReview = "PENDING" /\ officer = "PENDING"
  /\ \E decision \in Decisions : Spawn({[kind |-> "officerCommit", decision |-> decision]})
  /\ UNCHANGED <<vars, productState, docState, saleState, officer, advanceSent, lost>>

\* PATCH /cases/{id}/products: the row changes, the workflow is not told.
patch_case_products ==
  /\ Called("patch_case_products")
  /\ caseProducts' \in Selections \ {<<>>}
  /\ Spawn({})
  /\ UNCHANGED <<vars, ctxProducts, docState, saleState, officer, advanceSent, lost>>

\* POST /cases/{id}/resume, by JourneyResumptionService.resume_case: before it
\* re-spawns anything it restores the context, and there it ends.  No
\* shared_context of a case is a valid state, because StateRepository.persist
\* asks a plain str for its .value; so the restoration raises, after an
\* initialise that has put the row's products in the cache or an eviction.
resume_case ==
  /\ Called("resume_case")
  /\ ctxProducts' \in {ctxProducts, ctxProducts \cup {caseProducts}}
  /\ Spawn({})
  /\ UNCHANGED <<vars, caseProducts, docState, saleState, officer, advanceSent, lost>>

-----------------------------------------------------------------------------
(* Tasks of the API process *)

\* handle.signal("advance_stage"): a closed workflow refuses, the error is logged.
signal_stage_advance(to, products) ==
  /\ Finish(Signal(to, products), {})
  /\ \/ /\ sent.adv < MaxAdvance
        /\ sent' = [sent EXCEPT !.adv = @ + 1]
        /\ advance_stage(to, products)
     \/ status # "RUNNING" /\ UNCHANGED vars
  /\ UNCHANGED <<productState, docState, saleState, officer, advanceSent, calls, lost>>

\* handle.signal("human_review_completed", APPROVED)
start_product_onboarding ==
  /\ Finish([kind |-> "humanSignal"], {})
  /\ \/ /\ sent.hum < MaxHuman
        /\ sent' = [sent EXCEPT !.hum = @ + 1]
        /\ human_review_completed("APPROVED")
     \/ status # "RUNNING" /\ UNCHANGED vars
  /\ UNCHANGED <<productState, docState, saleState, officer, advanceSent, calls, lost>>

_create_document_task(d) ==
  /\ Finish([kind |-> "createTask", doc |-> d], {})
  /\ docTask' = [docTask EXCEPT ![d] = "PENDING"]
  /\ UNCHANGED <<vars, productState, docs, saleState, officer, advanceSent, calls, lost>>

\* Documents that count for the automatic advance.
Received == {d \in Docs : docs[d] \in {"OPEN", "APPROVED"}}

_trigger_next_stage_if_all_docs_approved ==
  /\ Finish([kind |-> "checkDocs"],
            IF /\ row = "REVIEW"
               /\ Received # {} /\ \A d \in Received : docs[d] = "APPROVED"
               /\ Routable(caseProducts)
            THEN {Signal(Route(caseProducts), caseProducts)} ELSE {})
  /\ UNCHANGED <<vars, productState, docState, saleState, officer, advanceSent, calls, lost>>

Tasked == {d \in Docs : docTask[d] # "NONE"}

\* The same advance again, by the tasks instead of the documents.
_maybe_advance_from_review ==
  /\ Finish([kind |-> "checkTasks"],
            IF /\ row = "REVIEW"
               /\ Tasked # {} /\ \A d \in Tasked : docTask[d] = "APPROVED"
               /\ Routable(caseProducts)
            THEN {Signal(Route(caseProducts), caseProducts)} ELSE {})
  /\ UNCHANGED <<vars, productState, docState, saleState, officer, advanceSent, calls, lost>>

\* advisor-approve after its checks: commit the row, then create the tasks.
AdvisorCommit(products) ==
  /\ Finish([kind |-> "advisorCommit", products |-> products],
            IF Route(products) = "SALES_REVIEW"
            THEN {[kind |-> "createReview"], Signal("SALES_REVIEW", Keep)}
            ELSE {Signal("KYC", products)})
  /\ RowBecomes(Route(products))
  /\ UNCHANGED <<productState, docState, saleState, officer, advanceSent, calls, lost>>

_create_sales_review_background ==
  /\ Finish([kind |-> "createReview"], {})
  /\ RowBecomes("SALES_REVIEW")
  /\ reviews' = Append(reviews, "PENDING")
  /\ UNCHANGED <<productState, docState, salesAudit, officer, advanceSent, calls, lost>>

\* SalesReviewService.decide after its check.
SalesCommit(i, decision) ==
  /\ Finish([kind |-> "salesCommit", review |-> i, decision |-> decision],
            {[kind |-> "postSales", decision |-> decision]})
  /\ reviews' = [reviews EXCEPT ![i] = decision]
  /\ salesAudit' = salesAudit \cup {decision}
  /\ UNCHANGED <<vars, productState, docState, officer, advanceSent, calls, lost>>

\* Mutant of PostSales: the row says KYC, the workflow is not told.
PostSalesSilent(decision) ==
  /\ Finish([kind |-> "postSales", decision |-> decision], {})
  /\ RowBecomes(IF decision = "APPROVED" THEN "KYC" ELSE "REVIEW")
  /\ UNCHANGED <<productState, docState, saleState, officer, advanceSent, calls, lost>>

\* SalesReviewService._post_decision_workflow: an approval writes KYC and
\* signals it; anything else writes REVIEW and does not signal.
PostSales(decision) ==
  /\ Finish([kind |-> "postSales", decision |-> decision],
            IF decision = "APPROVED" THEN {Signal("KYC", caseProducts)} ELSE {})
  /\ RowBecomes(IF decision = "APPROVED" THEN "KYC" ELSE "REVIEW")
  /\ UNCHANGED <<productState, docState, saleState, officer, advanceSent, calls, lost>>

\* HumanReviewService.decide after its check.
OfficerCommit(decision) ==
  /\ Finish([kind |-> "officerCommit", decision |-> decision],
            {[kind |-> "postHuman", decision |-> decision]})
  /\ officer' = decision
  /\ UNCHANGED <<vars, productState, docState, saleState, advanceSent, calls, lost>>

\* HumanReviewService._post_decision_workflow
PostHuman(decision) ==
  /\ Finish([kind |-> "postHuman", decision |-> decision],
            IF decision = "APPROVED" THEN {[kind |-> "humanSignal"]} ELSE {})
  /\ CASE decision = "APPROVED" -> RowBecomes("PARALLEL_PRODUCTS")
       [] decision = "REJECTED" -> RowBecomes("COMPLETE")
       [] OTHER -> UNCHANGED vars
  /\ UNCHANGED <<productState, docState, saleState, officer, advanceSent, calls, lost>>

\* A signal fails, or the API process restarts: its tasks, its conversation
\* sessions and its cached contexts are gone, and what was committed stays.
Losses ==
  /\ lost < MaxLost
  /\ lost' = lost + 1
  /\ \/ /\ \E j \in Job : j.kind \in {"signal", "humanSignal"} /\ Finish(j, {})
        /\ UNCHANGED <<advanceSent, ctxProducts>>
     \/ /\ jobs' = [j \in Job |-> 0]
        /\ advanceSent' = FALSE
        /\ ctxProducts' = IF pc = "boot" THEN ctxProducts ELSE {<<>>}
  /\ UNCHANGED <<vars, caseProducts, docState, saleState, officer, calls>>

-----------------------------------------------------------------------------
(* The workflow *)

\* The kickoff of SALES_REVIEW inserts a review when its write is not lost.
KickoffReview ==
  /\ \/ SalesKickoff /\ reviews' = IF faults' = faults THEN Append(reviews, "PENDING") ELSE reviews
     \/ /\ ActivityFails /\ pc = "salesKickoff"
        /\ \/ UNCHANGED reviews
           \/ row' = "SALES_REVIEW" /\ reviews' = Append(reviews, "PENDING")
  /\ UNCHANGED <<productState, docState, salesAudit, officer, advanceSent, jobs, calls, lost>>

WorkflowRuns ==
  /\ pc # "salesKickoff"
  /\ WorkflowStep \/ KycStep \/ FraudScreened \/ \E p \in Products : ChildStep(p)
  /\ UNCHANGED journey

Requests ==
  \/ submit_intake \/ handle_message
  \/ \E d \in Docs : upload(d) \/ update_document_status(d) \/ decide_task(d)
  \/ advisor_approve_case
  \/ \E i \in 1 .. MaxReviews : i \in DOMAIN reviews /\ decide_sales_review(i)
  \/ decide_review \/ patch_case_products \/ resume_case

Tasks ==
  \/ \E to \in SignalTargets, products \in Selections \cup {Keep} :
        signal_stage_advance(to, products)
  \/ start_product_onboarding
  \/ \E d \in Docs : _create_document_task(d)
  \/ _trigger_next_stage_if_all_docs_approved
  \/ _maybe_advance_from_review
  \/ \E products \in Selections : AdvisorCommit(products)
  \/ _create_sales_review_background
  \/ \E i \in 1 .. MaxReviews, decision \in Decisions : SalesCommit(i, decision)
  \/ \E decision \in Decisions :
        PostSales(decision) \/ OfficerCommit(decision) \/ PostHuman(decision)

JourneyNext == KickoffReview \/ WorkflowRuns \/ Requests \/ Tasks \/ Losses

JourneySpec == JourneyInit /\ [][JourneyNext]_allVars

-----------------------------------------------------------------------------
(* Properties *)

\* Composition: with the senders of the code the workflow still behaves as
\* OnboardingWorkflow says, with its decisions sent in ESCALATED only, so that
\* what is proved of it for those senders holds of the deployed system.
ImplementsWorkflow == Spec

\* An institutional case is screened only after a sales manager's approval was
\* committed, whatever the order in which documents, tasks, the advisor and
\* the manager act and their signals arrive.
InstitutionalNeedsApproval ==
  stage = "KYC" /\ InstitutionalIn(selected) # {} => "APPROVED" \in salesAudit

Idle(j) == jobs[j] = 0

\* A manager's approval is not forgotten between the commit, the background task
\* and the signal: unless something was lost, it is in flight, waits in the
\* workflow's list, or was taken (SalesReviewService, _handle_sales_review).
ApprovalReachesWorkflow ==
  /\ "APPROVED" \in salesAudit
  /\ lost = 0
  /\ status = "RUNNING"
  /\ Idle([kind |-> "postSales", decision |-> "APPROVED"])
  /\ \A products \in Selections : Idle(Signal("KYC", products))
  => \/ \E i \in DOMAIN advQ : advQ[i].to = "KYC"
     \/ stage = "KYC" \/ kycRun # "IDLE"
     \/ stage = "ESCALATED"

\* Nothing is in flight and the workflow waits for somebody to act.
Quiet ==
  /\ \A j \in Job : Idle(j)
  /\ pc \in WaitPcs
  /\ advQ = <<>> /\ humQ = <<>>

-----------------------------------------------------------------------------
(* Why a human decision reaches an escalated case only *)

\* The tasks a compliance officer's decision goes through.
OfficerJobs == [kind : {"officerCommit", "postHuman"}, decision : Decisions]
                 \cup [kind : {"humanSignal"}]

\* Inductive together with WellFormed.
OfficerInv ==
  /\ jobs \in [Job -> Nat]
  /\ \A j \in OfficerJobs : jobs[j] > 0 => humanReview = "PENDING"
  /\ humanReview = "PENDING" => stage = "ESCALATED"

-----------------------------------------------------------------------------
(* Why a manager's approval is needed, and why it arrives *)

\* The case may be screened: no institutional product, or a manager approved.
MayBeScreened == InstitutionalIn(caseProducts) = {} \/ "APPROVED" \in salesAudit

\* A request to advance that asks for no other products than the row's and for
\* KYC only when the case may be screened.
Honest(to, products) ==
  products \in {Keep, caseProducts} /\ (to = "KYC" => MayBeScreened)

\* A task that will neither skip the approval nor carry products of the past.
HonestJob(j) ==
  /\ j.kind = "signal" => Honest(j.to, j.products)
  /\ j.kind = "advisorCommit" => j.products = caseProducts
  /\ j.kind = "postSales" /\ j.decision = "APPROVED" => "APPROVED" \in salesAudit

\* While nobody changes the products nor sends the questionnaire's signal, the
\* advisor's route is the route the case still has when it is taken.
RouteInv ==
  /\ caseProducts = selected
  /\ \A j \in Job : jobs[j] > 0 => HonestJob(j)
  /\ \A i \in DOMAIN advQ : Honest(advQ[i].to, advQ[i].products)
  /\ stage = "KYC" => MayBeScreened

\* Where an approval may be between its commit and the screening.
ApprovalUnderWay ==
  \/ jobs[[kind |-> "postSales", decision |-> "APPROVED"]] > 0
  \/ \E products \in Selections : jobs[Signal("KYC", products)] > 0
  \/ \E i \in DOMAIN advQ : advQ[i].to = "KYC"
  \/ stage = "KYC" \/ kycRun # "IDLE"

ApprovalInv ==
  /\ lost \in Nat
  /\ caseProducts \in Selections
  /\ "APPROVED" \in salesAudit /\ lost = 0 /\ status = "RUNNING" => ApprovalUnderWay

-----------------------------------------------------------------------------
(* What the source says and the code does not do *)

\* "The sales review service sends an advance_stage signal on approval": the
\* sales decision the workflow records as APPROVED is a manager's approval.
ApprovalIsManagers ==
  extra.sales_review_decision = "APPROVED" => "APPROVED" \in salesAudit

\* "PENDING -> REJECTED -> case moved back to REVIEW": when all is quiet after
\* a manager's rejection, the case waits in REVIEW.
RejectionMovesCaseBack ==
  Quiet /\ salesAudit = {"REJECTED"} /\ lost = 0 /\ faults = 0 => stage = "REVIEW"

\* "Review already decided": a decided review is not decided again.
DecisionIsFinal ==
  [][\A i \in DOMAIN reviews : reviews[i] # "PENDING" => reviews'[i] = reviews[i]]_allVars

=============================================================================
