# Glide Gate: a verification project for the onboarding journey

Glide Gate onboards wealth-management clients. A case is opened over an HTTP
API, a Temporal workflow drives it through stages (intake, advisor review,
sales-manager review, KYC and fraud screening, one onboarding pipeline per
product, completion, or escalation to a compliance officer), and agents,
people and background tasks act on it at the same time. This directory holds
TLA+ models of the parts of that system whose correctness depends on order,
concurrency and failure, the TLC instances that check them, and TLAPS proofs of
what matters most. Paths below are relative to the repository; `workflow` is
`backend/app/workflows/onboarding_workflow.py`.

## 1. The system

### Components, their state and operations

| Component | State it keeps | Operations | Correct when |
| --- | --- | --- | --- |
| Onboarding workflow (`workflow`, `OnboardingWorkflow`) | `state` (stage, extra, selected products, product tracks), the two signal lists, one position in the coroutine | a handler per stage, the signals `advance_stage` and `human_review_completed`, activities, timeouts | nobody is onboarded without a clearance; a flag is final; every case ends; the database row follows |
| KYC and fraud activities (`workflow`, `agents/kyc_compliance`, `agents/fraud_screening`) | none; KYC writes `current_stage` and the decision log | run concurrently, gathered, merged | the merge never loses a bad verdict |
| Product child workflows and activation gate (`workflow`, `agents/product_onboarding`, `services/activation`) | a track per product, `product_activation` | pipeline, gate, retry | a product is activated only for a cleared, eligible client |
| Account creation (`services/accounts`) | `client_accounts` | `ensure_created` | one account per selected product, only at completion |
| Case, document, task and review routes (`api/routers`) | `onboarding_cases`, documents, tasks | submit-intake, upload, status changes, decisions, advisor-approve, products, resume | a case advances once, on the documented route |
| Sales review (`services/sales_review`) | `sales_manager_reviews` | create, decide, post-decision task | an institutional case needs an approval; an approval takes effect; a decision is final |
| Human review (`services/compliance/human_review_service.py`) | `human_reviews` | create, decide, post-decision task | a decision is made on escalated cases only |
| Orchestration service (`services/orchestration`) | none | starts and signals workflows | a signal is sent to the case's workflow or refused by it |
| Journey resumption (`services/orchestration`) | none | restore context, re-spawn agents | a resumed journey continues where it was |
| Conversation coordinator (`services/conversation`) | sessions in memory, `_advance_sent` | answers, one advance at the end | the advance is sent once and for the case's products |
| Context store (`services/context_store`) | cached state, version and lock per case, `shared_context` column | initialise, load, merge, snapshot, restore, evict | merges are not lost, versions grow, the store survives a restart |
| SLA tracking (`services/sla`, SLA activities of `workflow`) | a clock per case and stage | start, pause, resume, warn, breach, complete | a breach is signalled once and only when time was used |
| Decision log (`services/audit`) | a hash chain of rows | append, verify | the log is one chain, in order |
| KYC rules and risk score (`agents/kyc_compliance`, `services/compliance`) | the rules, a copy per process | three tools, score, checkpoints, outcome | a sanctioned client does not pass; settings survive a restart |
| MCP connectors (`mcp`) | a cache of tool grants per process | grant check, call | a tool not granted is refused |
| Product pipeline, suitability, activation gate (`agents/product_onboarding`, `services/activation`) | `case_product_steps`, `product_activation` | assess, run the steps, evaluate the gate | an activation follows a pass that ran |
| Documents, validation and comparison (`services/document`, `services/validation`, `agents/document_intelligence`) | rows, files, verdicts, diffs | upload, resubmit, read, judge, compare, decide | versions grow; approved documents stay approved; a verdict is about the file |
| The client's form (`frontend`, `api/routers/cases.py`) | the page, its cached copies, the answers and products of the row | prefill, save answers, change products, submit | KYC screens what the client entered |
| Domain definition and dispatcher (`domain`, `services/orchestration/stage_dispatcher.py`) | the `domain_*` rows | load, validate, resolve a stage to an activity | the loader walks what is there |
| Administration (`api/routers/admin`, `api/dependencies`) | the same rows, the permission cache | a route per table, activation | one active domain; permissions are those of the rows |
| Settings (`services/admin`, `services/llm`, prompts) | a copy per process and one row per namespace | set, reset, load | copies agree with the row or there is a cause |
| Direct tasks, notification, comments, sockets, push | `agent_tasks`, notifications, e-mails, connections per process, rooms | publish, attempt, dispatch, show or push, comment | a letter is sent once, a client hears of his case |
| Legacy orchestrator, log-in, demo, most migrations | see `PROJECT.json` | | |

### How they interact

* The API signals the workflow with fire-and-forget `asyncio` tasks created
  after the request's commit. A signal carries a target stage and perhaps the
  products; it does not say which stage it was sent for. The workflow appends
  it to a list and each waiting stage pops one.
* Both sides write `onboarding_cases.current_stage`: the workflow through
  `persist_stage_activity`, the KYC activity, the completion activity and the
  escalation alert; the API through submit-intake, advisor-approve, the two
  post-decision tasks and an SLA breach. The API's checks read this row and not
  the workflow.
* The workflow creates the `HumanReview` (escalation alert) and a
  `SalesManagerReview` (kickoff of SALES_REVIEW); advisor-approve creates
  another `SalesManagerReview`. People decide them over the API.
* KYC and fraud screening run concurrently, each on a copy of the same state;
  children each return a copy of all the tracks.
* A production container runs four server processes (`backend/Dockerfile:42`,
  gunicorn), each with its own caches, sockets and Temporal worker; a
  developer's runs one. `ConfigStore`, `KycCheck` and `DirectTasks` take two;
  a session or a permission cache is modelled within one.
* The administrator's changes reach the database and one process's copies
  through detached tasks; activities read the copies of the process they run in.
* The conversation coordinator keeps a session per case in the memory of an
  API process, with the products of the context of the moment it was opened.

### Senders

What the code under `backend/app` can send to a case's workflow, found by
following every caller of `publish_task`, `start_product_onboarding` and
`signal_*`:

| Signal | Sent by |
| --- | --- |
| `advance_stage(REVIEW)` | submit-intake |
| `advance_stage(SALES_REVIEW)` or `(KYC, products)` | automatic advance by documents, by tasks; advisor-approve (its SALES_REVIEW carries no products) |
| `advance_stage(KYC, products)` | a manager's approval; the end of the questionnaire |
| `human_review_completed(APPROVED)` | a compliance officer's approval |

Nobody sends PARALLEL_PRODUCTS or COMPLETE, and nobody sends a human decision to
a case that is not ESCALATED. That is `DeployedSenders`, on which the clearance
theorem rests, and the composition with the senders proves it.

### What is hard

Late, duplicate and reordered signals; two activities merged by the order of a
dictionary spread; writes that fail and are swallowed after the step they
belong to went on; checks separated from their writes by awaits; a clock that is paused, resumed
and cancelled beside activities that cannot be stopped; background
tasks that die with the process; stale copies (products, tracks, extra, context)
written back; waits that must end. `PROJECT.json` lists each of these hazards at
its line, with the properties that would catch it.

## 2. The modules

| Module | Models |
| --- | --- |
| `ClientClearance` | the abstract promise: collect, screen, remember whether the last screening cleared the client, onboard only who is cleared, open accounts only at the end, escalation is final |
| `OnboardingWorkflow` | the workflow of one case with its activities, children and database rows, for any senders |
| `OnboardingWorkflowProofs` | its theorems |
| `CaseJourney` | the API routes, services and background tasks of one case, composed with `OnboardingWorkflow` |
| `CaseJourneyProofs` | the composition implements `OnboardingWorkflow`; the sales manager's approval |
| `SlaTracking` | the service-level clock of one case: the timer coroutine, its activities, the tracking rows |
| `SlaTrackingProofs` | its theorems |
| `DocumentReview` | the documents of a case from upload to approval, with the background tasks an upload leaves behind |
| `DocumentReading` | what is read from a document, the verdict on it, the comparison with the version it replaces |
| `Interview` | the conversational questionnaire: streams, the session, background writes, the one signal |
| `IntakeForm` | the client's form and the two routes behind it |
| `DecisionLog` | the hash chain under concurrent appends |
| `DomainDefinition` | a domain's rows, the loader, its validation, the dispatcher |
| `SeededDomains` | the rows of the two domains the repository configures |
| `AdminPortal` | the administration routes over them, with the guard and its cache; extends `DecisionLog` and `DomainDefinition` |
| `ConfigStore` | rules, prompts and model overrides: a copy per process over one row per namespace |
| `KycCheck` | the KYC activity in numbers, over `ConfigStore` |
| `ScreenedOnboarding` | `OnboardingWorkflow` with the KYC activity of `KycCheck` in the place of the outcome it chooses |
| `ProductTrack` | one product's pipeline, suitability and gate |
| `DirectTasks` | agent tasks outside the workflow: letters, notes, pushes, comments |
| `AdminPortalProofs`, `DocumentProofs`, `AgentProofs`, `AnswersProofs`, `DirectTasksProofs` | the theorems about the log and the portal; both document modules; `ProductTrack`, `ConfigStore`, `KycCheck` and `ScreenedOnboarding`; `Interview` and `IntakeForm`; `DirectTasks` |
| `MCOnboardingWorkflow`, `MCCaseJourney`, `MCSlaTracking`, `MCDocumentReview`, `MCInterview`, `MCPlatform`, `MCAgents` | small instances |

The last three MC modules put independent components side by side. They have a
variable `theme`, chosen at the start: a behaviour moves only the components of
its theme, so that the state space is the sum and not the product of theirs.

### OnboardingWorkflow

Temporal runs one coroutine per case and hands it one event at a time, so **one
action is one activation**: from the result of one await to the next await.
`pc` names the await. What runs outside the coroutine are actions of their own
and interleave with it: arriving signals (`SendAdvance`, `SendHumanDecision`,
the handlers being `advance_stage` and `human_review_completed`), the KYC
activity (`KycAttempt`, `KycError`), the fraud activity (`FraudScreened`), one
child per product (`ChildAttempt`, `ChildFails`) and other writers of the row
(`ApiWritesRow`).

* `stage`, `extra`, `selected`, `tracks` are the fields of `state`; `advQ` and
  `humQ` the two signal lists; `row`, `accounts`, `activation`, `humanReview`
  the database.
* Each stage handler is an action per way it can go on: `IntakeAdvance`,
  `SalesKickoff` / `SalesAdvance` / `SalesDecision`, `MergeScreening` /
  `ScreeningFails` / `KycPersist` / `KycNotify`, `StartChildren` /
  `GatherProducts`, `ReviewKickoff` / `ReviewAdvance` / `ReviewDecision`,
  `Completion` / `CompleteNotify`, `EscalationAlert` / `EscalationSummary` /
  `EscalationResolved`. `WaitTimesOut` is the timeout of a wait and
  `ActivityFails` the failure of an activity nobody catches, which closes the
  workflow as FAILED, whether or not the last attempt had made its writes.
* A write inside a `try` that logs and goes on is `WriteRow` (or the `ok`
  choice of `ChildAttempt` and `Completion`): it happens, or is swallowed at
  the price of one `faults`. A retried activity may have made its writes before
  the attempt was lost (`KycAttempt`, `ChildAttempt`).
* `MergedExtra`, `ScreenedStage` and `MergedTracks` translate the dictionary
  merges by what they do: KYC returns the *whole* extra it was given, so its
  spread wins over fraud's keys too once they are in extra; each child returns
  *all* the tracks, so what was there before wins unless the child is last.

Library behaviour taken from the installed versions: temporalio's
`wait_condition` returns `None` when its condition holds and raises
`asyncio.TimeoutError` on timeout, an unhandled `ActivityError` or
`TimeoutError` fails the workflow, a closed workflow refuses signals; pydantic
stores a `StrEnum` given to a `str` field as plain `str`.

### CaseJourney

Extends `OnboardingWorkflow` with the case row's products, documents, document
review tasks, sales reviews, the officer's review, the conversation session and
`jobs`: how many of each kind of background task are in flight. A request is one
action when everything up to its commit happens under row values it has read in
the same step; advisor-approve and both `decide` functions read, await and then
write without a lock, so each is **two** actions with a job (`advisorCommit`,
`salesCommit`, `officerCommit`) between them. The post-decision tasks and the
signals are jobs too; they run in any order. `Losses` drops a signal or restarts
the API process, which forgets every job and session.

Choices worth knowing:

* Document statuses RECEIVED, UNDER_REVIEW, NEEDS_REVISION and REJECTED are
  one value `OPEN`: every check in the code tells only approved, requested and
  other apart.
* The automatic advances read the row and the documents in one step; the
  staleness that matters, between the check and the arrival of the signal, is
  kept by the signal job.
* `resume_case` ends in `_restore_context`: `StateRepository.persist` asks a
  plain `str` for `.value`, so no context is ever stored and the restoration
  of a case the API created raises. What it can change is the cached context a
  later session is opened with (`ctxProducts`).
* The routes that change a status or percentage by hand (`PATCH
  /cases/{id}/status` and the like) are left out of `CaseJourney`; they signal
  nothing.

### SlaTracking

Stands beside the other two: it keeps of a stage handler only what the clock
sees of it (`step`: start, work, wait for a human, persist) and lets any stage
follow any other. `timer` is the coroutine `_watch_sla` and where it sleeps or
waits, `tracking` the `case_sla_tracking` rows (one per stage, as the unique
constraint has it), `acts` the warning and breach activities in flight. Time is
the variable `now`; `Tick` advances it while a stage works or waits.

* `StartTimed` / `StartUntimed` are `_start_sla_timer` with and without a
  clock; a stage visited again has none, because its row exists.
* `PauseClock` and `ResumeClock` are `_pause_sla` and `_resume_sla` with the
  activities they await, either of which may fail and be ignored.
* `Cancel` is `task.cancel()`: the coroutine is gone, and an activity that a
  worker has taken runs on without it (`awaited` is FALSE).
* `WarningReturns`, `BreachChecks` and `BreachReturns` are the activities. The
  breach reads `breach_triggered_at` and writes it in two steps, since
  `record_breach_triggered` takes no lock; the escalation of the row and the log
  entry follow, each of which may be lost.
* `Tick` waits for a due timer and for activities in flight, because both take
  seconds where windows are hours; at the price of one `faults` it does not,
  which is a worker that is down.
* `used` is a history variable: ticks of watched work in a stage. The window a
  stage resolves to (`resolve_sla`'s order of tier and product) is a constant.

### DocumentReview and DocumentReading

`upload` is the request up to its flush, with the bytes stored before it;
`commit_upload` is the commit. The tasks of the upload (`create_document_task`,
validation, diff) are in the bag `jobs` from the flush on, because the code
starts them before its commit: run early, the task finds no row to refer to and
is lost. A validation is two steps, `load_for_validation` and `judge`, with OCR
and model calls between them, and `judge` writes by the status it had loaded.
`submit_intake` queues a validation of every document, as the workflow's
`persist_stage_activity` does on coming to REVIEW. `trigger_next_stage` and
`maybe_advance_from_review` are the two automatic advances; the second looks at
the tasks alone, and `causes` records for each document why it may be unapproved
although its task is not pending. `restart` drops every job.

In `DocumentReading` a text is a sequence of lines, each a label and a value,
which is what the comparison splits a text into. `up` is the set of models that
answer; without the vision model the text is a template of the client's own
answers (`template_text`), without the language model the verdict is a match of
labels (`heuristic_validate`) with the factors of the category's prompt, the
default ones or any list an administrator has stored (`ChangePrompt`). What the
vision model returns for a file is taken to be the file's own text: what it reads
wrongly is not modelled, and `ComparedTexts` is about exact transcriptions.

### Interview and IntakeForm

A message passes `resolve_session`, `questions_loaded`, one
`extract_and_update` per question it answers, and `reply_ends`; two streams do
so at once. What the code leaves to `asyncio.create_task` (the answer's row, the
field's update, the signal) is in the bag `tasks`. Question texts, options and
rules are constants given by the MC module; which are to be asked is computed
(`visible`, `unanswered`, `next_field`, `is_complete`).

In `IntakeForm` the page has a schema, a saved copy and local values, each as old
as its last fetch; every PATCH reads the whole row and writes it whole in two
steps. Continue (`handleSectionContinue`) sends the changed answers and waits for
them, then for `/percentage`, and nothing on the page is disabled meanwhile:
`page.pending` holds the Continues that wait, each knows the requests it waits for
(`GoOn`), and until then the client may change answers, go back or press Continue
again. A Continue and a submission also know whether something was `changed` after
they were pressed that they have not seen. Only visible questions (`Shown`: the
answers its `show_if` names) are looked at and sent, and only required ones are
demanded (`canProceed`). `causes` collects what may lose an answer: requests that
overlapped, failed or were answered late, a comparison with an old copy, questions
of other products, an answer changed, emptied or newly asked for after the client
had gone on, an edit on the way to KYC. `ScreenedIsEntered` says that no other step of the
model loses one. It is a list for what is modelled: one section stands for all
(conditions on answers of a later section are left out), and so are the rules of
what an answer must look like, `Values` being answers that pass them; the edit in
REVIEW (`saveEdit`) checks nothing, and may empty a required answer.

### DecisionLog, DomainDefinition, SeededDomains and AdminPortal

A hash is the sequence of payloads hashed into it, so that equality of hashes is
equality of what they are computed from. `SelectLast`, `LockGranted`,
`InsertRow`, `CommitRow` are the statements of an append under READ COMMITTED: a
waiter for the lock of the last row gets *that* row when the lock is released,
although another one has been inserted by then.

A domain is a set of rows `[table, key, val]`; `load` assembles and `validate`
refuses; `bfs_reachable` is compared with `Reachable`, the least set closed under
the transitions. `AdminPortal` has one action per writing route, between
`require_permission` (with the cache entry it may take or leave) and `LogChange`
and `Answer`, which clears the cache where the route does. `SeededDomains` is one
operator per migration that touches `wealth_management`, applied in their order,
and the setup script of `retail_deposit`; `MCPlatform` starts from both.

### ConfigStore, KycCheck and ProductTrack

`Change` sets the copy of one process and starts a task; `Start`, `Read`,
`Write` and `WriteFails` are that task's statements for the three ways the
stores write (all rules, one key of a document, one key removed). `spoilt` and
`behind` are history: a store in which a write failed or met another one, and
the copies no task has told of a change.

`KycCheck` computes what `OnboardingWorkflow` leaves open: the tools' figures
(fixed per client, as their generator is seeded with the name), translation,
scores, band, rules, outcome, in integers (thousandths of a point), with the
grant check and its cache in front of every tool. The check is the steps the
code awaits between: `CheckToolGrant` looks into the cache, `ReadGrant` runs the
query, `CacheAnswer` stores its answer, `DomainExists` runs the second query, and
`QueryFails` is an error of either; `asks` holds each activity's look-up. `Others`
are the activities of other cases, of which only the look-ups matter here
(`OthersAsk`): they share the cache of the process. A look-up whose activity has
been given up goes on, and may still store its answer. `let_through` and
`under_way` are history, and count per process and tool.

`ProductTrack` runs an attempt step by step: it loads the pipeline, or the
built-in one when the table is empty or cannot be read (`loaded_steps`); rows are
made by name (`PersistProductStart`) and completed by index (`PersistStepDone`);
the score is the assessor's formula over the criteria of the moment or, when they
cannot be loaded, over those in the code (`Assess`, `hardcoded_criteria`); and
`EvaluateGate` reads what is in the rows. Each of the three row writes may fail
(`RowWriteFails`), the assessor raises on an objective that is no text or on
criteria it cannot compute with (`unscorable`), a step on a malformed
configuration; such an exception is caught (`Raised`), the track is FAILED and the
gate is evaluated all the same. `AuditFails` is the audit entry after the answer,
whose error Temporal retries: another attempt of the same pass. `GateFails` and
`Lose` end the activity. A product may have no row at all, and is onboarded
without one. `mixed` is history: an attempt found rows and loaded other steps
than the attempt before it.

### ScreenedOnboarding

`OnboardingWorkflow` lets the KYC activity answer anything; here it answers what
`KycCheck` comes to. `ScheduleCheck` starts a check when the coroutine comes to
KYC, with the data the case has by then. `Answer` is the step of both at once:
the evaluation and the writes and result of the activity; an answer that is lost
with its process leaves the time-out only. `CheckFails` is the last failed
attempt or the time-out. `CaseGoesOn` is everything else of the workflow and
`ServersGoOn` everything else of the servers: changes of settings and grants,
their background writes, look-ups of other cases' activities, restarts. `disarmed` is history: a process has held
both rules a match triggers without ESCALATE, which `Noted` looks for after every
step. An attempt that still runs in its server after the time-out is left out:
its answer reaches nobody, and its write of the row is not followed here.

### DirectTasks

`send_task` hands a packet over and `publish_task` makes of it what its type asks
for: a type with an activity becomes a workflow of its own, any other is
refused (`Reject`). `StartAttempt` is one attempt in one of the processes; the notification
agent's e-mail, socket, push and database writes are one step each, and the
audit entry after them may fail and be retried with the whole attempt
(`Repeated`). A page is connected to at most one process; a connection may be
dead and still counted. Push keys are taken as configured.

## 3. Properties and runs

`Spec` is `Init /\ [][Next]_vars`; `FairSpec` adds weak fairness of
`WorkflowStep`, `KycStep`, `FraudScreened` and each `ChildStep`. Temporal drives
any workflow that can run, and every activity ends because it has a
`schedule_to_close` timeout and a bounded retry. Nothing obliges a person, the
API or a background task to send a signal, so senders have no fairness.
`DocumentFairness` and `InterviewFairness` are weak fairness of the background
tasks of one process and of the end of a reply: asyncio runs every task that is
ready. A restart drops them, and both liveness properties say so. Requests,
edits and hang-ups have no fairness; neither have `MCPlatform` and `MCAgents`,
which check safety only.

| Run | Shows | Bounds |
| --- | --- | --- |
| `MCDeployed` | types; `ProductsOnlyAfterClearance`: onboarding, completion and accounts only after the last screening passed KYC and cleared fraud; `ImplementsClearance`: the workflow refines `ClientClearance` | the code's senders, 2 products, 3 advances, 1 decision, 1 swallowed write, 1 attempt |
| `MCOpen` | with *any* signal in any stage: `FlaggedIsEscalated` (a flag in extra is final), `RowMatchesStage`, `CompletedIsProvisioned`, and `EveryStepCounts` (every step of the workflow or of a sender uses up a signal still to come, a wait, an activity or a task); under `FairSpec`, `EventuallyCloses` | 2 advances to any stage, 1 decision of any kind, 1 swallowed write, selection shrinks and grows |
| `MCRoute` | on the documented route `InstitutionalNeedsApproval` and `ApprovalReachesWorkflow` | 1 institutional product, 1 document, 5 requests, 2 reviews |
| `MCAllCalls` | `ImplementsWorkflow`: requests, tasks, losses and workflow together behave as `OnboardingWorkflow` says; `DecisionsOnlyEscalated` | an institutional and a retail product, all entry points, 3 requests, 1 loss |
| `MCSla` | `ClockIsTrue` (the stopwatch in the database tells the watched work, human waits left out), `NeverEarly`, `NeverMissed`, `RepeatsOverlap` (a breach is logged again only by an activity that overlaps the first) | windows of 2 and 3 ticks, 8 ticks, 3 visits, 1 failure |
| `MCDocuments` | `MovesOnReviewed` (a case is asked to move on only with approved documents, or for a named cause); `DueCheckMovesOn` (a check that is due moves the case on, unless an approval was withdrawn or the products cannot be routed); `UnreadVerdict` (what no model has read or judged is decided by its category and the prompt's factors alone); `ComparedTexts` (when "no changes detected" is about the files, and when about the client's answers) | 2 uploads, 3 requests, 1 job of a kind, 1 restart; or 2 documents of 2 formats, 3 contents, the default prompt and others, 2 changes of answers, models or prompt |
| `MCInterview` | `SignalOncePerSession`, `SignalIsEarned`, `AnswersAgree` (an answer's row holds what the session holds), `CompleteIsSignalled` (under fairness); `ScreenedIsEntered`, `RowsFollowSelection` (one row per selected product) | 2 streams, 3 messages, 1 restart, 4 stored questions with a condition; or 2 answer requests and 1 Continue waiting; or 2 changes of products |
| `MCPlatform` | `SingleActive`, `StaleGrantHasCause` (a permission answered from the cache is that of the rows, or one of four things happened), `LoadWalksAll` (the loader's walk is the reachable set, over every table state the routes leave, dangling codes and cycles included); `SoloAppendsVerify`, `BreakIsPermanent` (the chain verifies until two appends overlap in a bad order, and never again after) | 2 concurrent calls on the 2 seeded domains, 6 appends |
| `MCAgents` | `DivergenceHasCause`, `LetThroughWhileAsked` (a process that has cached a refusal lets the tool through for no more look-ups than were under way when it first cached an answer), `SanctionedStaysOut` (in the workflow, over two passes, lost answers, retries, restarts and changes of rules, a sanctioned client never reaches the products unless one server held two rules disarmed at one moment); `ActivationIsEarned`, `StepRowsAreTrue`, `StuckHasCause`; `SentTwiceHasCause`, `ToldUnlessAway`, `OneRoomUnlessOverlap` | 2 processes, 2 setting tasks, 2 attempts, a case of one product with 2 advances and a client on a list or not, 4,600 client profiles, one other activity asking in one process, 2 attempts of 5 pipelines with failing statements and malformed criteria, 1 followed letter among 4, 4 moves of the page, 2 comments |

Why the bounds suffice: a second pass through screening or through the products
(where stale extra and stale tracks show) takes three advances; a duplicate
advance takes three requests on one document; a decided approval on the
documented route takes submit, upload, task decision, advisor and manager, five.
Two products distinguish "last of the selection" from the others in the merge of
tracks. One attempt is enough for safety, because an attempt that is lost
leaves its writes and the outcome of the next one is arbitrary; the violation
runs use two. `MaxFaults`, `MaxLost`, `MaxAdvance`, `MaxHuman`, `MaxCalls` and
`MaxReviews` bound the environment only; the theorems hold for every value. In
`MCSla` eight ticks let a stage of three be paused, resumed and overrun, three
visits bring the case back to a stage that has its row already, and
`faults = 0` in a property says which promises do not survive a lost write.
The two uploads of `MCDocuments` are two documents, or one and its resubmission;
its contents differ in a value, a line and a repeated label for the comparison,
and its prompts are the empty override and two lists of other factors beside the
default. In `MCInterview`
two streams are what the session's half-made state needs. Its form takes one
Continue waiting and two answer requests: the answer sent and the one that
overtakes it or is changed under it; in the theme `both` one change of the products
falls among two answers. `Borne` is empty: as `ScreenedIsEntered` promises nothing
after a cause, a behaviour is followed up to its first (`MCAnswersSaved` follows it
further). `MCAgents`
takes one change of one store per behaviour with two tasks under way, which is
where the two processes and the row can differ; of its screened case the rules
are changed only while a check runs, since an earlier change is as good as one
made when the check is scheduled, and two advances allow a second pass, for
other data than the first; one activity of another case, asking for one tool in
one process, is enough for two look-ups that overlap the loss of a grant; its
client profiles put every score on both sides of its thresholds; its pipelines,
the built-in one among them, share, reorder and lack steps, and one has a
configuration that raises; its criteria include a set that cannot be computed
with; pipeline and criteria are edited just before they are next read, as good as
any earlier moment (`EditsTell`), and two attempts, in one pass or in two, are what
rows of two pipelines need. In `MCPlatform` a domain
that is deleted takes the only `admin:config` permission with it, so that the
portal is then closed to everyone: the retail domain grants none.
`CHECK_DEADLOCK FALSE` is set everywhere because a closed workflow, or a case
whose bounded senders have spoken, really stops.

### Where the source says one thing and the code does another

Each of these runs checks one sentence of the source and TLC shows how the code
breaks it (`PROJECT.json`, "findings", quotes the lines).

| Run | What the trace shows |
| --- | --- |
| `MCEscalationApprovalResumes` | the officer's approval ends the workflow: `None` is taken for a timeout |
| `MCTracksOfThisPass` | of the first pass one product ends COMPLETE and one fails, so that the case comes back; in the second the first product's child fails, but the copy of the tracks the other child returns still has its COMPLETE, and is merged last: the case completes |
| `MCApprovalStands` | a validation loads a received document; the reviewer approves it while the model is asked; the validation writes UNDER_REVIEW over the approval |

Nine more configurations stand beside the runs and are violated in the same
way; `tlc -config X.cfg M` shows the trace. They are kept out of the list of
runs, which keeps to one disagreement per kind of race.

| Configuration, module | What the source says, and the trace shows |
| --- | --- |
| `MCFlaggedEscalates`, `MCOnboardingWorkflow` | `workflow:1099` "If fraud was flagged, override next_stage to ESCALATED": fraud screening fails once and counts as CLEARED; the case comes back to KYC; fraud now answers FLAGGED, KYC's copy of extra still says CLEARED and is spread last |
| `MCDecisionIsFinal`, `MCCaseJourney` | `sales_review_service.py:120` raises "already decided" and checks without a lock: two decisions of one review both pass |
| `MCInstitutionalScreening`, `MCCaseJourney` | `cases.py:1022` "All cases advance to REVIEW": the questionnaire's signal sends an institutional case from INTAKE to KYC |
| `MCApprovalIsManagers`, `MCCaseJourney` | `workflow:982`: the second copy of the advance, popped in SALES_REVIEW, is recorded as the manager's approval |
| `MCRejectionMovesCaseBack`, `MCCaseJourney` | `sales_reviews.py:19` (models): a rejection writes REVIEW and leaves the workflow in SALES_REVIEW |
| `MCBreachLoggedOnce`, `MCSlaTracking` | `workflow:548` "Idempotent": the breach activity of a coroutine cancelled at the pause and the one after the resumption both find no breach |
| `MCChainVerifies`, `MCPlatform` | `decision_log_service.py:16` "concurrent writers serialize their chain-link reads": two writers link to the same row |
| `MCAnswersAreScreened`, `MCAgents` | the seeded question on the source of wealth is a multi-select, the connector's schema declares a string: a list raises in the tool and the screening fails |
| `MCAnswersSaved`, `MCInterview` | `OnboardingWizard.tsx:1052` "Case data is saved regardless": two answers sent together read the same row, and one is lost |

`InstitutionalNeedsApproval` passes on the documented route, duplicates included
(`MCRoute`: the second copy of the advance leads to SALES_REVIEW again, not to
KYC), and fails as soon as the questionnaire may answer
(`MCInstitutionalScreening`).

Seen while modelling, and without a property of their own:

* the `None` reason of the initial extra overwrites fraud's reason in
  `MergedExtra`;
* `sales_manager_agent.py:72` says "Notify the Sales Manager in-app", and the
  note goes to the client's page; PRODUCT_TRACK_COMPLETE is sent to the
  orchestrator, which no direct activity answers for, so its workflow fails; an
  e-mail the provider refuses is reported as SUCCESS; the second `agent_tasks`
  row of a retried task violates its key and is swallowed;
* a pipeline is always read from `wealth_management`, and the workflow handles
  its own stages only: the products, pipelines, criteria and three of the
  stages of `retail_deposit` are configured and never used;
* a DEPRECATED agent is not skipped: the dispatcher returns nothing for it and
  the handler falls back to the activity it has in its code;
* `domain_definition.py:8` asks for one reachable terminal stage and the code
  (492) for all; `sla.py`'s guard of regulated stages is in update only, and
  creating or deleting a window goes round it;
* PEP_MATCH never fires, and the list of high-risk countries is in ISO codes
  for the tools and in names for the scorer.

A timeout of an escalated case fails the workflow (`WaitTimesOut` after
`escWait`) although the handler has a branch for it; the branch is reached only
by a signal, as above.

## 4. Proofs

TLAPS proves the theorems below for every value of the constants that meets
their assumptions: every safety invariant, every action property and both
refinements the passing runs check, and a few that no run repeats. Each
inductive invariant was first checked by TLC as an invariant of the run of its
module. An invariant is stated beside its component, under "What makes it
inductive", and proved with one lemma per action or per part; a theorem that two
steps share says so by a lemma.

### The specifications the theorems are about

`OnboardingWorkflow`, `CaseJourney`, `SlaTracking`, `DocumentReview` and
`Interview` are checked as they are proved. The other components share a run, and
their theorems are about specifications of their own that allow at least what the
run does: `PortalSpec` (any request of `StageRequest` to `DomainRequest`, and the
appends of the workers), `StoreSpec(keys, values)` and
`KycSpec(clients, keys, values)` (any change of the settings to any value, any
restart, whatever could not be read), `ScreenedSpec(clients, keys, values)` (the
same beside a case of any products), `TrackSpec`, `FormSpec`, `ReadSpec` and
`DirectSpec` (any packet, page and process).

### What is assumed of the constants

| Assumption | Says | Because |
| --- | --- | --- |
| `SeedAssumption` | one of the domains is active at first and the tables hold finitely many rows | the seed's one active domain |
| `TrackAssumption` | the pipelines and the built-in one are sequences, there is a client, attempts are bounded by a number | rows ordered by their index; Temporal's retries |
| `StoreAssumption`, `KycAssumption` | there is a process; the built-in rules have the two about sanctions; the other cases' activities are finitely many, and this one is none of them | `checkpoint_rule_repository.py`; a worker runs so many at a time |
| `Within(keys, values)` | the built-in rules are among the settings of these keys and values; the key "none", which marks a missing row, is no setting's key | the three stores' defaults |
| `FormAssumption` | products and questions are finitely many, no answer is the absent one | |
| `InterviewAssumption`, `FallbackAssumption` | messages are records; a hard-coded condition asks for the products or for a required question that is always shown | `_FIELDS` |
| `DeployedSenders` | nobody asks for PARALLEL_PRODUCTS or COMPLETE, a human decision goes to an escalated case | section 1 |
| `IsFiniteSet(Products)`, of `CasesRunOut` alone | there are finitely many products | the rows of a table |

`SlaTracking`, `DocumentReview` and `DocumentReading` name theirs in the module:
bounds are numbers, windows are positive.

### The workflow and its senders

* `TypeCorrect` -- `Spec => []TypeOK`. The inductive invariant is `WellFormed`:
  `TypeOK`, `PcMatchesStage` (the coroutine is inside the handler of the
  current stage; without it `Dispatch` and the activities' results could not
  be typed to their stage) and `ChildrenStarted` (while products are gathered,
  each selected one has a child of this pass; without it `GatherProducts`
  could put a run that never started into the tracks).
* `FlagIsFinal` -- `Spec => []FlaggedIsEscalated`, for **any** senders: from
  ESCALATED no activation changes `stage`, and the only place that makes
  `fraud_screened` FLAGGED also chooses ESCALATED.
* `OnboardingNeedsClearance` -- with `DeployedSenders`,
  `Spec => []ProductsOnlyAfterClearance`. The inductive invariant
  `ClearanceInv` adds `DecisionsOnlyEscalated` (or a queued decision could
  approve a case in REVIEW straight to COMPLETE), `AccountsOnlyInComplete` and
  `OnboardingIsCleared`.
* `RowNamesStage` -- with `ApiRows = {}`, `RowMatchesStage`: `RowInv` says where
  the row may differ, which is from the choice of a stage to its persist
  activity, and in the screening, whose KYC activity writes ahead. With other
  writers the row is what the last of them wrote, and there is nothing to prove:
  the run allows none either.
* `EveryStepUsesUp` -- `EveryStepCounts`, for any senders: of the signals not yet
  heard (one still to be sent counts double, since sending it leaves it in a
  list), the awaits until the case next waits for a signal or closes, and the
  tasks left in the present await, the first that changes falls. Only the writes
  of the row by others use up nothing. It needs that the screening leads to the
  products or out, never to an earlier stage (`ScreenedGoesOn`).
* `CasesRunOut` -- hence, with finitely many products, each of these steps lowers
  `Rank` in `Lower`, which is well founded: no case goes round for ever. That is
  the half of `EventuallyCloses` a safety argument can give; the other half, that
  an open case has a step to take and takes it, is ENABLED and fairness.
* `CompletionProvisions` -- `CompletedIsProvisioned`, for any senders:
  `ProvisionInv` places the accounts behind the last choice of products.
* `WorkflowImplementsClearance` -- with `DeployedSenders`,
  `Spec => ImplementsClearance`: initial states map to initial states and every
  step, one case per action, to a step or a stutter of `ClientClearance`.
* `JourneyImplementsWorkflow` -- `JourneySpec => ImplementsWorkflow`: every
  request, background task and loss is a step of `OnboardingWorkflow` or a
  stutter. `OfficerInv` says why a human decision reaches an escalated case
  only: each job that can lead to the signal exists only after the
  `HumanReview` row, which exists only in ESCALATED, where the stage stays.
* `JourneyNeedsClearance`, `JourneyDecisionsOnlyEscalated` -- hence, for the
  composed system, the clearance and the guard on decisions.
* `InstitutionalIsApproved` -- `InstitutionalNeedsApproval` with
  `DeployedSenders` and `RouteKept`: nobody changes the products
  (`patch_case_products`) and no conversation asks for KYC (`handle_message`).
  Both are needed: the first takes the institutional product in after the route
  was chosen, the second goes round the manager, and TLC shows either when it is
  called. `RouteInv` says that every task and signal is `Honest`: it carries the
  products of the row or none, and asks for KYC only when the case may be
  screened.
* `ApprovalArrives` -- `ApprovalReachesWorkflow` for any calls. `ApprovalInv`
  follows the approval from the commit through the task and the signal into the
  list, and through the screening.

### The clock

* `SlaTypeCorrect` and `TimerEndsWithVisit` (the types, and `TimerOfVisit`: no
  coroutine outlives its visit or runs in a paused wait; no run checks them
  apart), `StopwatchIsTrue`, `BreachIsNeverEarly` -- for any stages, windows and
  bounds. The inductive invariant `SlaInv` has a lemma for each part: the types;
  `CoroutineInv` (one activity at most is awaited, and by the coroutine of the
  present visit); `RowInv` (without losses the row is paused exactly in the
  wait, and its sums give the time used); `SleepInv` (what the coroutine still
  sleeps covers what is left of the window, which is what makes a breach late
  enough).
* `BreachIsNeverMissed` -- the other side: `OnTheWay` says that what is still to
  be slept, the gap after the warning included, is at most what is left of the
  window, and `ReportInv` that a watched stage at work whose breach is not
  recorded has a coroutine for which this holds.
* `RepeatedBreachesOverlap` -- `EntriesInv`: an activity that has checked and is
  about to log logs at the time of the entries there are.

### The log and the portal

* `SoloChainVerifies` -- `SoloInv`: while appends do not overlap, the one that
  runs holds the hash of the last row. `verify_chain` walks the rows in order,
  and `VerifiesLinks` replaces the walk by a statement about neighbours
  (`Linked`), which the step can be reasoned about with.
* `BrokenChainStays` -- a row that is not linked has its link chosen, and the
  rows before it stay; a late commit may come between two rows, and then its own
  hash, which is new (`HashesInv`: all links are to committed rows), breaks the
  chain anew.
* `PortalImplementsLog` -- `PortalSpec => LogSpec`, a step or a stutter for each
  request; hence `PlatformChainVerifies` and `PlatformBreakIsPermanent`.
* `LoaderWalksAll` -- `LoadWalksAll`, for any tables. The layers of
  `bfs_reachable` are a recursive function, so that what each of them holds is a
  fact about a set of numbers, and the induction over it needs no operator
  (`SetInduction`). `WalkIsClosed` counts: a layer that is not closed is followed
  by one with another stage that has a row, and there are only so many. What makes
  it inductive is that the tables stay finite (`AreRows`).
* `PortalTypeCorrect`, `OneActiveDomain` (`SetDomains` clears the others in the
  commit that sets one), `StaleGrantsHaveCause` (`StaleGrantHasCause` is
  inductive with the types of the calls under way).

### Documents

* `CaseMovesOnReviewed` -- an action property, `MovesOnReviewed`, from
  `ReviewInv`: a document without a review task is about to get one or has lost
  it, and one whose task is approved is approved itself, or there is a cause. It
  is needed because the step that asks the case to move on looks at the tasks only.
* `UnreadIsJudgedByCategory`, `ComparisonsAreOfTexts` -- `ReadingInv`: what is
  stored of a document is nothing, its content, or the template of answers the
  client has had (`SoundReading`). The lemmas compute the verdict of a template
  under any list of factors (`PromptFindings`, `TemplateVerdict`), what the
  matching of labels gives for each template, and that two templates are equal only
  for equal answers.

### Settings, the KYC check, a product's track

* `DivergencesHaveCause` -- `Agrees`: while nothing is spoilt, one write at most
  is under way in a store, what it has taken is still current, and with it the
  row comes to what the copy of its process says. `BuiltinKept` is what makes a
  saved set of rules load as it was.
* `LetThroughBounded` -- `GrantInv`, of which `Bounded` says: once a process has
  an answer in its cache no look-up of the tool begins there, so that those let
  through against a cached refusal and those still under way are together no more
  than there were when the first answer was cached. It counts look-ups of any
  number of cases (`Cardinality`), which overlap over the awaits of both queries.
* `SanctionedPassNeedsTwoRules` -- an action property: `MatchIsHigh` computes
  the score of a match for every client (at least the threshold of HIGH), so that
  both rules fire, and the two rules are in every copy by `StoreInv`. No run
  checks it apart; the next one rests on it.
* `SanctionedNeverOnboarded` -- with `DeployedSenders`,
  `ScreenedSpec(clients, keys, values) => []SanctionedStaysOut`: what the check
  proves reaches the accounts. `ScreenedInv` puts together `ClearanceInv`,
  `GrantInv` and `StoreInv`, each of which its own steps preserve (`CaseMoves`
  and `CheckIsKept` say that a step of the composition is a step of either
  component or leaves it alone), and adds `AnswerIsTheChecks` (the result the
  workflow holds is that of the check of this pass, and the products are behind a
  passed one) and `PassIsDisarmed` (a sanctioned client's pass has left its
  trace in `disarmed`).
* `StepRowsTrue`, `StuckProductsHaveCause`, `ActivationsAreEarned` -- `TrackInv`:
  `RowsInOrder` while every attempt has loaded the same steps (not `mixed`); what
  each place in an attempt implies of the steps that have run (`RanUpTo`) and of
  the assessment (`Suited`); and that a track that FAILED is `Excused`: a row write
  failed, the client or the criteria could not be scored, a step was malformed, or
  the pipelines are mixed.

### The client's answers

* `ScreenedAnswersWereEntered`, `OneRowPerProduct` -- `FormInv`. `GoneOn` says who
  has gone on from the questions: a page in review, a Continue or a submission
  that waits and knows of no change since, a case in REVIEW. From then on, while
  no cause has happened, the required questions are answered and what was entered
  is in the row or in a request on its way (`Faithful`); `Stages` ties the
  answers KYC takes to the stage. The rows are one per product while no two
  changes overlapped (`OneRowEach`).
* `OneSignalPerSession`, `SignalsAreEarned`, `RowsAgree` -- `InterviewInv`: a
  session that has asked for KYC has used its one signal (`SignalsInv`); a
  collection that was complete stays so as answers are added (`EarnedInv`). The
  last is not evident: an answer may show a question that was hidden. Of the
  hard-coded questions `FallbackAssumption` says that a condition is about the
  products, or about a required question that is always shown and so already
  answered in a complete collection: an answer does not change it. As to the
  database's questions, once they are complete none is asked and no further
  answer is taken.

### Direct tasks

* `ResendsHaveCause` -- `AttemptsInv`: an attempt that was repeated is below the
  present one, so that every repeat counts, and each accounts for one e-mail.
* `NotesAreHeard` -- `NotesInv`: a note the socket did not take was for a page
  elsewhere when it was emitted.
* `RoomsComeOfOverlap` -- `RoomsInv`: two comments being written know of each
  other, and one that is to make a room knows of every post that made one since
  it looked.

### What stays with TLC

The three liveness properties (`EventuallyCloses`, `DueCheckMovesOn`,
`CompleteIsSignalled`): liveness under fairness, and ENABLED, are out of the
prover's reach. What the hashes of the log are is induction over data whose
hypothesis is an operator; no listed property is about it. The violation runs are counterexamples, which need no
proof.

## 5. Not modelled, and why

`PROJECT.json` lists every component with its status.

* The legacy orchestrator (`agents/orchestrator`), the KYC agent class beside
  the graph, `CustomerServiceAgent`'s own dialogue and
  `DocumentStatusService.update_status`: nothing instantiates or calls them.
* Prompts, replies and summaries of the language models, e-mail texts, labels,
  account numbers, risk summaries and evidence packets: wording. A model's
  answer is an input, or a choice.
* Logging in, tokens, and the roles of routes outside the administration: who
  may call, not what the call does to a case.
* The front end except the intake wizard: it only shows.
* Of the form: sections beyond one, and what an answer must look like. Of the
  documents: what the vision model misreads, its text being taken as the file's own,
  and the verdicts of the demo mode's fixtures. Of other cases' KYC activities:
  all but their look-ups of grants.
* Demo data, the document generator, seeds of questions and users, and the
  migrations that make tables: no behaviour.
* `MCPlatform` and `MCAgents` keep to one process for permissions and two for
  settings; a third adds another copy of the second.
* The failure of PostgreSQL or Temporal itself beyond a failed statement, a lost
  activity and a restart.

## 6. Plan

Done: the workflow, its senders, the clock, documents, the two ways to answer
the questionnaire, the log, the domain tables and their administration,
settings, the KYC computation and its place in the workflow, a product's
pipeline and the direct tasks; and the proofs of their safety properties. Left, in order of weight:

1. The composition of `SlaTracking` with the stages of `OnboardingWorkflow`: the
   breach writes ESCALATED into the row while the workflow goes on, and a stage
   visited again has no clock.
2. `ProductTrack` as the refinement of the children of `OnboardingWorkflow`, as
   `ScreenedOnboarding` is for the KYC activity.
3. The fraud score, which stays a choice.
