--------------------------- MODULE DocumentReview ---------------------------
(***************************************************************************)
(* The documents of one case from upload to approval: the upload request,  *)
(* the asyncio tasks it leaves behind before its own commit, the AI        *)
(* validation that reads a document and writes it back after a model call, *)
(* the advisor's decisions, and the check that moves the case on           *)
(* (src/backend/app/api/routers/documents.py, services/document,           *)
(* services/validation, services/task).                                    *)
(***************************************************************************)
EXTENDS Integers, FiniteSets, Bags

CONSTANTS
  MaxDocs,       \* bound: uploads; ids are drawn in the order 1, 2, ...
  Institutional, \* how many of the selected products are institutional: the cases in play
  Patched,       \* statuses PATCH is called with: REQUESTED stands for NOT_REQUESTED,
                 \* NEEDS_REVISION for UNDER_REVIEW, which nothing tells apart
  Calls,         \* entry points in play
  MaxCalls,      \* bound: requests made
  MaxJobs,       \* bound: tasks in flight when a request arrives
  MaxRestarts    \* bound: restarts of the API process

Docs == 1 .. MaxDocs
NoDoc == 0 \* no parent

Statuses == {"NOT_REQUESTED", "REQUESTED", "RECEIVED", "UNDER_REVIEW",
             "NEEDS_REVISION", "APPROVED"}

ASSUME DocumentAssumption ==
  /\ MaxDocs \in Nat \ {0}
  /\ Institutional \subseteq Nat
  /\ Patched \subseteq Statuses
  /\ MaxCalls \in Nat
  /\ MaxJobs \in Nat
  /\ MaxRestarts \in Nat

TaskDecisions == {"APPROVED", "REJECTED", "MORE_INFO_REQUESTED"}

\* The text of a document, told apart only by whether extraction left one.
Texts == {"none", "extracted"}

VARIABLES
  stage,         \* onboarding_cases.current_stage
  institutional, \* institutional products among the selected ones
  files,         \* documents whose bytes are in the storage backend
  saved,         \* absent, flushed (inserted, not committed), saved, or failed
  status,        \* documents.status
  parent,        \* documents.parent_doc_id
  version,       \* documents.version
  text,          \* documents.ocr_result
  judged,        \* documents with a validation_result
  diff,          \* documents.diff_result: the texts compared
  task,          \* the DOCUMENT_REVIEW task of each document
  jobs,          \* asyncio tasks in flight
  sent,          \* stages asked for by an advance_stage signal
  causes,        \* history: why a document may be unapproved when the case moves on
  requests, restarts

rows == <<status, parent, version, text, judged, diff>>
bounds == <<requests, restarts>>
docVars == <<stage, institutional, files, saved, rows, task, jobs, sent, causes, bounds>>

Job ==
  [kind : {"validate", "diff", "createTask"}, doc : Docs]
    \cup [kind : {"judge"}, doc : Docs, seen : Statuses, text : Texts]
    \cup [kind : {"enterReview", "checkDocs", "checkTasks"}]

ValidateJob(d) == [kind |-> "validate", doc |-> d]
DiffJob(d) == [kind |-> "diff", doc |-> d]
TaskJob(d) == [kind |-> "createTask", doc |-> d]

DocumentInit ==
  /\ stage = "INTAKE"
  /\ institutional \in Institutional
  /\ files = {}
  /\ saved = [d \in Docs |-> "absent"]
  /\ status = [d \in Docs |-> "NOT_REQUESTED"]
  /\ parent = [d \in Docs |-> NoDoc]
  /\ version = [d \in Docs |-> 0]
  /\ text = [d \in Docs |-> "none"]
  /\ judged = {}
  /\ diff = [d \in Docs |-> <<>>]
  /\ task = [d \in Docs |-> "none"]
  /\ jobs = EmptyBag
  /\ sent = {}
  /\ causes = [d \in Docs |-> {}]
  /\ requests = 0
  /\ restarts = 0

Requested(name) ==
  /\ name \in Calls
  /\ BagCardinality(jobs) <= MaxJobs
  /\ requests < MaxCalls
  /\ requests' = requests + 1

Leave(J) == jobs' = jobs (+) SetToBag(J)

\* Job k ends and leaves the jobs of J behind.
End(k, J) ==
  /\ BagIn(k, jobs)
  /\ jobs' = (jobs (-) SetToBag({k})) (+) SetToBag(J)

\* The id the next upload draws.
Fresh(d) == saved[d] = "absent" /\ \A e \in Docs : e < d => saved[e] # "absent"

Rows == {d \in Docs : saved[d] = "saved"}

-----------------------------------------------------------------------------
(* Upload *)

\* DocumentVersionManager.next_version
next_version(p) == IF p = NoDoc THEN 1 ELSE version[p] + 1

\* StorageAdapter.store, before the insert.
store(d) == files' = files \cup {d}

\* POST /cases/{id}/documents up to the flush: the bytes are stored first, and
\* the background tasks are started while the insert is not committed.
upload(d) ==
  /\ Requested("upload")
  /\ Fresh(d)
  /\ store(d)
  /\ saved' = [saved EXCEPT ![d] = "flushed"]
  /\ status' = [status EXCEPT ![d] = "RECEIVED"]
  /\ \E p \in Rows \cup {NoDoc} :
       /\ parent' = [parent EXCEPT ![d] = p]
       /\ version' = [version EXCEPT ![d] = next_version(p)]
       /\ Leave({TaskJob(d)}
                  \cup (IF stage = "REVIEW" THEN {ValidateJob(d)} ELSE {})
                  \cup (IF p = NoDoc THEN {} ELSE {DiffJob(d)}))
  /\ UNCHANGED <<stage, institutional, text, judged, diff, task, sent, causes, restarts>>

\* The store raises, or the insert is refused (category check, unknown parent)
\* and the file stays.
upload_refused(d) ==
  /\ Requested("upload")
  /\ Fresh(d)
  /\ store(d) \/ UNCHANGED files
  /\ saved' = [saved EXCEPT ![d] = "failed"]
  /\ UNCHANGED <<stage, institutional, rows, task, jobs, sent, causes, restarts>>

commit_upload(d) ==
  /\ saved[d] = "flushed"
  /\ saved' = [saved EXCEPT ![d] = "saved"]
  /\ UNCHANGED <<stage, institutional, files, rows, task, jobs, sent, causes, bounds>>

\* TaskService.create_task: the foreign key does not see an uncommitted document.
create_task(d) == task' = IF d \in Rows THEN [task EXCEPT ![d] = "PENDING"] ELSE task

\* _create_document_task: the failure is logged, and the task is lost.
create_document_task(d) ==
  /\ End(TaskJob(d), {})
  /\ create_task(d)
  /\ causes' = IF d \in Rows THEN causes ELSE [causes EXCEPT ![d] = @ \cup {"task lost"}]
  /\ UNCHANGED <<stage, institutional, files, saved, rows, sent, bounds>>

-----------------------------------------------------------------------------
(* Validation and version diff *)

\* POST /documents/{id}/validate
trigger_validation(d) ==
  /\ Requested("validate")
  /\ d \in Rows
  /\ status' = IF status[d] = "RECEIVED" THEN [status EXCEPT ![d] = "UNDER_REVIEW"] ELSE status
  /\ Leave({ValidateJob(d)})
  /\ UNCHANGED <<stage, institutional, files, saved, parent, version, text, judged, diff,
                 task, sent, causes, restarts>>

\* validate_document loads the row: not found before the upload's commit.
load_for_validation(d) ==
  /\ End(ValidateJob(d),
         IF d \in Rows
         THEN {[kind |-> "judge", doc |-> d, seen |-> status[d], text |-> text[d]]}
         ELSE {})
  /\ UNCHANGED <<stage, institutional, files, saved, rows, task, sent, causes, bounds>>

\* ... and after the model calls commits the columns it changed, going by the
\* status it had loaded.  Text is extracted only when none was loaded.
judge(j) ==
  /\ j.kind = "judge"
  /\ End(j, {})
  /\ \E t \in Texts :
       text' = IF j.text = "none" /\ t # "none" THEN [text EXCEPT ![j.doc] = t] ELSE text
  /\ judged' = judged \cup {j.doc}
  /\ status' = IF j.seen = "RECEIVED" THEN [status EXCEPT ![j.doc] = "UNDER_REVIEW"] ELSE status
  /\ causes' = IF j.seen = "RECEIVED" /\ status[j.doc] = "APPROVED"
               THEN [causes EXCEPT ![j.doc] = @ \cup {"validated late"}] ELSE causes
  /\ UNCHANGED <<stage, institutional, files, saved, parent, version, diff, task, sent, bounds>>

\* compute_diff: a text that was not extracted is made up from the row.
compute_diff(d) ==
  /\ End(DiffJob(d), {})
  /\ diff' = IF d \in Rows THEN [diff EXCEPT ![d] = <<text[parent[d]], text[d]>>] ELSE diff
  /\ UNCHANGED <<stage, institutional, files, saved, status, parent, version, text, judged,
                 task, sent, causes, bounds>>

-----------------------------------------------------------------------------
(* Decisions and the move out of REVIEW *)

\* An approval settles what went before it; a task that is lost stays lost.
Approved(d) == causes[d] \cap {"task lost"}

\* PATCH /documents/{id}: any status, whatever the present one.
update_document_status(d) ==
  /\ Requested("patch")
  /\ d \in Rows
  /\ \E s \in Patched :
       /\ status' = [status EXCEPT ![d] = s]
       /\ causes' = [causes EXCEPT ![d] = IF s = "APPROVED" THEN Approved(d) ELSE @ \cup {"decided otherwise"}]
       /\ Leave(IF s = "APPROVED" THEN {[kind |-> "checkDocs"]} ELSE {})
  /\ UNCHANGED <<stage, institutional, files, saved, parent, version, text, judged, diff,
                 task, sent, restarts>>

\* PATCH /tasks/{id}/decide
decide_task(d) ==
  /\ Requested("decide")
  /\ task[d] = "PENDING"
  /\ \E decision \in TaskDecisions :
       /\ task' = [task EXCEPT ![d] = decision]
       /\ status' = CASE decision = "APPROVED" -> [status EXCEPT ![d] = "APPROVED"]
                      [] decision = "REJECTED" -> [status EXCEPT ![d] = "NEEDS_REVISION"]
                      [] OTHER -> status
       /\ causes' = [causes EXCEPT ![d] = IF decision = "APPROVED" THEN Approved(d) ELSE @]
       /\ Leave(IF decision = "APPROVED" THEN {[kind |-> "checkTasks"]} ELSE {})
  /\ UNCHANGED <<stage, institutional, files, saved, parent, version, text, judged, diff,
                 sent, restarts>>

Uploaded == {d \in Rows : status[d] \notin {"NOT_REQUESTED", "REQUESTED"}}
AllApproved == Uploaded # {} /\ \A d \in Uploaded : status[d] = "APPROVED"
Tasked == {d \in Docs : task[d] # "none"}

\* The product query takes scalar_one_or_none: two matches raise, which is logged.
Routable == institutional <= 1

\* publish_task with the stage the selected products ask for.
AskForNextStage ==
  sent' = IF Routable THEN sent \cup {IF institutional = 1 THEN "SALES_REVIEW" ELSE "KYC"}
          ELSE sent

\* Mutant of _trigger_next_stage: documents asked for and not uploaded count.
trigger_next_stage_all ==
  /\ End([kind |-> "checkDocs"], {})
  /\ IF stage = "REVIEW" /\ Rows # {} /\ \A d \in Docs : status[d] = "APPROVED"
     THEN AskForNextStage ELSE UNCHANGED sent
  /\ UNCHANGED <<stage, institutional, files, saved, rows, task, causes, bounds>>

\* _trigger_next_stage_if_all_docs_approved
trigger_next_stage ==
  /\ End([kind |-> "checkDocs"], {})
  /\ IF stage = "REVIEW" /\ AllApproved THEN AskForNextStage ELSE UNCHANGED sent
  /\ UNCHANGED <<stage, institutional, files, saved, rows, task, causes, bounds>>

\* Mutant of maybe_advance_from_review: one approved task is enough.
maybe_advance_if_any ==
  /\ End([kind |-> "checkTasks"], {})
  /\ IF stage = "REVIEW" /\ \E d \in Tasked : task[d] = "APPROVED"
     THEN AskForNextStage ELSE UNCHANGED sent
  /\ UNCHANGED <<stage, institutional, files, saved, rows, task, causes, bounds>>

\* TaskService._maybe_advance_from_review: looks at the tasks, not the documents.
maybe_advance_from_review ==
  /\ End([kind |-> "checkTasks"], {})
  /\ IF stage = "REVIEW" /\ Tasked # {} /\ \A d \in Tasked : task[d] = "APPROVED"
     THEN AskForNextStage ELSE UNCHANGED sent
  /\ UNCHANGED <<stage, institutional, files, saved, rows, task, causes, bounds>>

\* The client submits the intake: the row says REVIEW, and a task is left that
\* signals the workflow.
submit_intake ==
  /\ stage = "INTAKE"
  /\ stage' = "REVIEW"
  /\ Leave({[kind |-> "enterReview"]})
  /\ UNCHANGED <<institutional, files, saved, rows, task, sent, causes, bounds>>

\* The workflow enters REVIEW: its activity starts a validation of every document
\* of the case, those under validation included, unless its query fails.
persist_stage_activity ==
  /\ \E J \in {{}, {ValidateJob(d) : d \in Rows}} : End([kind |-> "enterReview"], J)
  /\ UNCHANGED <<stage, institutional, files, saved, rows, task, sent, causes, bounds>>

\* Then it takes an advance_stage signal.
workflow_advances ==
  /\ stage = "REVIEW" /\ ~BagIn([kind |-> "enterReview"], jobs)
  /\ stage' \in sent
  /\ UNCHANGED <<institutional, files, saved, rows, task, jobs, sent, causes, bounds>>

\* The process dies: its tasks and its open transactions with it, but not an
\* activity of a workflow that has had its signal.
restart ==
  /\ restarts < MaxRestarts
  /\ restarts' = restarts + 1
  /\ saved' = [d \in Docs |-> IF saved[d] = "flushed" THEN "failed" ELSE saved[d]]
  /\ \E J \in SUBSET {k \in BagToSet(jobs) : k.kind = "enterReview"} : jobs' = SetToBag(J)
  /\ causes' = [d \in Docs |-> IF BagIn(TaskJob(d), jobs) THEN causes[d] \cup {"task lost"} ELSE causes[d]]
  /\ UNCHANGED <<stage, institutional, files, rows, task, sent, requests>>

-----------------------------------------------------------------------------
Background ==
  \/ \E d \in Docs : commit_upload(d) \/ create_document_task(d)
                       \/ load_for_validation(d) \/ compute_diff(d)
  \/ \E j \in BagToSet(jobs) : judge(j)
  \/ persist_stage_activity
  \/ trigger_next_stage
  \/ maybe_advance_from_review

DocumentNext ==
  \/ Background
  \/ \E d \in Docs : upload(d) \/ upload_refused(d) \/ trigger_validation(d)
                       \/ update_document_status(d) \/ decide_task(d)
  \/ submit_intake
  \/ workflow_advances
  \/ restart

\* asyncio runs every task that is ready.
DocumentFairness ==
  /\ \A d \in Docs : WF_docVars(commit_upload(d)) /\ WF_docVars(create_document_task(d))
                       /\ WF_docVars(load_for_validation(d)) /\ WF_docVars(compute_diff(d))
  /\ WF_docVars(\E j \in BagToSet(jobs) : judge(j))
  /\ WF_docVars(persist_stage_activity)
  /\ WF_docVars(trigger_next_stage)
  /\ WF_docVars(maybe_advance_from_review)

DocumentSpec == DocumentInit /\ [][DocumentNext]_docVars /\ DocumentFairness

-----------------------------------------------------------------------------
(* Properties *)

\* When the case is asked to move on, every document uploaded is approved, unless
\* its review task is lost or not made yet, somebody decided otherwise after its
\* approval, or a validation overtook that: the task route looks at the tasks and
\* not at the documents (task_service.py:161-171).
MovesOnReviewed ==
  [][sent' # sent =>
       \A d \in Uploaded : status[d] = "APPROVED" \/ BagIn(TaskJob(d), jobs) \/ causes[d] # {}]_docVars

\* A document approved by its review task stays approved unless somebody decides
\* otherwise: a validation that finishes late does not take it back.
ApprovalStands ==
  [][\A d \in Docs : task[d] = "APPROVED" /\ status[d] = "APPROVED" => status'[d] = "APPROVED"]_docVars

\* A check that is due ends with the case asked to move on, unless a document
\* lost its approval, the products cannot be routed or the process died.
DueCheckMovesOn ==
  (BagIn([kind |-> "checkDocs"], jobs) /\ stage = "REVIEW" /\ AllApproved /\ Routable)
    ~> (sent # {} \/ ~AllApproved \/ restarts > 0)

-----------------------------------------------------------------------------
(* What makes them inductive *)

DocumentTypeOK ==
  /\ saved \in [Docs -> {"absent", "flushed", "saved", "failed"}]
  /\ status \in [Docs -> Statuses]
  /\ parent \in [Docs -> Docs \cup {NoDoc}]
  /\ version \in [Docs -> Nat]
  /\ task \in [Docs -> {"none", "PENDING"} \cup TaskDecisions]
  /\ causes \in [Docs -> SUBSET {"task lost", "decided otherwise", "validated late"}]
  /\ IsABag(jobs)

\* A document has no review task before it is uploaded; one without is about to
\* get it or has lost it; one whose task is approved is approved, or there is a cause.
ReviewInv ==
  /\ DocumentTypeOK
  /\ \A d \in Docs :
       /\ saved[d] = "absent" => task[d] = "none"
       /\ saved[d] \in {"flushed", "saved"} /\ task[d] = "none"
            => BagIn(TaskJob(d), jobs) \/ "task lost" \in causes[d]
       /\ task[d] = "APPROVED" => status[d] = "APPROVED" \/ causes[d] # {}

=============================================================================
