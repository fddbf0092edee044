----------------------------- MODULE Interview -----------------------------
(***************************************************************************)
(* The conversational questionnaire of one case: streamed messages share a *)
(* session held in memory, answers are written by asyncio tasks left       *)
(* behind, and the last answer asks for the next stage once               *)
(* (src/backend/app/services/conversation, services/context_store,         *)
(* agents/customer_service).                                               *)
(***************************************************************************)
EXTENDS Integers, Sequences, FiniteSets, Bags, SequencesExt

CONSTANTS
  Products,      \* the products selected for the case
  Stored,        \* active questions of the database, by order_index
  Fallback,      \* the hard-coded questions, in section order
  Messages,      \* what a client may send
  Within,        \* pairs <<t, u>> of texts, t occurring in u
  Streams,       \* bound: replies streamed at a time
  MaxMessages,   \* bound: messages sent
  MaxRestarts    \* bound: restarts of the API process

ASSUME InterviewAssumption ==
  /\ IsFiniteSet(Products)
  /\ Streams \in Nat \ {0}
  /\ MaxMessages \in Nat
  /\ MaxRestarts \in Nat
  /\ \A m \in Messages : {"text", "number", "words", "cues"} \subseteq DOMAIN m

\* The hard-coded rules ask for the products or for a required answer that no
\* rule hides (_FIELDS).
ASSUME FallbackAssumption ==
  \A i \in DOMAIN Fallback : Fallback[i].show_if # <<>> =>
    \/ Fallback[i].show_if[1].field = "selected_products"
    \/ \E j \in DOMAIN Fallback :
         /\ Fallback[j].field_id = Fallback[i].show_if[1].field
         /\ Fallback[j].required /\ Fallback[j].show_if = <<>>

NoSession == [open |-> FALSE]
NoValue == "nothing"
Idle == [pc |-> "idle"]
Slots == 1 .. Streams

VARIABLES
  context,   \* ContextStoreService._cache: the products and client_data of the case
  session,   \* SessionManager._sessions: collected answers, questions loaded, signal sent
  streams,   \* the requests being answered
  tasks,     \* asyncio tasks in flight
  answers,   \* onboarding_answers, by question
  progress,  \* onboarding_question_sessions.status, by questionnaire
  signals,   \* ADVANCE_STAGE requests for KYC
  sent, lost, restarts

interviewVars == <<context, session, streams, tasks, answers, progress, signals, sent, lost, restarts>>

-----------------------------------------------------------------------------
(* Reading a message *)

\* IntentClassifier.classify: the first pattern that matches, by its cues.
classify(m) ==
  CASE "confirm" \in m.cues /\ m.words <= 6 -> "CONFIRM"
    [] "decline" \in m.cues /\ m.words <= 8 -> "DECLINE"
    [] "help" \in m.cues -> "REQUEST_HELP"
    [] "question" \in m.cues -> "ASK_QUESTION"
    [] OTHER -> "PROVIDE_INFO"

\* extract_value: every option of a multiple choice, else the first option or
\* well-formed value that occurs in the text, else the option of that number.
extract_value(m, f) ==
  LET found == SelectSeq(f.options, LAMBDA o : <<o, m.text>> \in Within)
  IN CASE f.field_type = "text" -> m.text
       [] f.field_type = "multi_choice" /\ found # <<>> -> ToSet(found)
       [] f.field_type # "multi_choice" /\ found # <<>> -> Head(found)
       [] f.field_type = "choice" /\ found = <<>> /\ m.number \in DOMAIN f.options ->
            f.options[m.number]
       [] OTHER -> NoValue

\* validate_value: limits on the value, and the answers it has to repeat.
validate_value(v, f, collected) ==
  /\ v \notin f.refused
  /\ \A g \in f.match_fields \cap DOMAIN collected : <<collected[g], v>> \in Within

-----------------------------------------------------------------------------
(* The questionnaire *)

_eval_show_if(rule, collected) ==
  /\ rule.field \in DOMAIN collected
  /\ IF rule.operator = "contains" THEN rule.value \in collected[rule.field]
     ELSE collected[rule.field] \in rule.value

visible(f, collected) == f.show_if = <<>> \/ _eval_show_if(f.show_if[1], collected)

\* load_questions_from_db: the active questions of the products, by order_index.
load_questions == [products \in SUBSET Products |-> SelectSeq(Stored, LAMBDA f : f.product \in products)]

\* DataCollectionOrchestrator._effective_fields
effective_fields(s) == IF s.loaded = {} THEN Fallback ELSE load_questions[s.loaded]

\* Mutant of unanswered: conditional questions are skipped.
unanswered_unconditional(fields, collected) ==
  {i \in DOMAIN fields : /\ fields[i].required /\ fields[i].show_if = <<>>
                         /\ fields[i].field_id \notin DOMAIN collected}

\* The questions to be asked, of which the first is next; the collection is
\* complete when there is none.
unanswered(fields, collected) ==
  {i \in DOMAIN fields : /\ fields[i].required /\ visible(fields[i], collected)
                         /\ fields[i].field_id \notin DOMAIN collected}

next_field(s) ==
  LET todo == unanswered(effective_fields(s), s.collected)
  IN {i \in todo : \A j \in todo : i <= j}

is_complete(s) == unanswered(effective_fields(s), s.collected) = {}

Put(fn, k, v) == [x \in DOMAIN fn \cup {k} |-> IF x = k THEN v ELSE fn[x]]

-----------------------------------------------------------------------------
(* The context store *)

\* context_store.initialise, by the first activity of the workflow.  The cache is
\* set and the write then raises: nothing is ever stored.
initialise ==
  /\ ~context.started
  /\ context' = [started |-> TRUE, cached |-> TRUE, selected_products |-> Products, client_data |-> <<>>, version |-> 0]
  /\ UNCHANGED <<session, streams, tasks, answers, progress, signals, sent, lost, restarts>>

\* context_store.get: the cache, or KeyError.
ContextProducts == IF context.cached THEN context.selected_products ELSE {}
ContextData == IF context.cached THEN context.client_data ELSE <<>>

\* get and update of client_data without a pause between them.
update_client_data(k, v) ==
  context' = IF context.cached
             THEN [context EXCEPT !.client_data = Put(@, k, v), !.version = @ + 1]
             ELSE context

-----------------------------------------------------------------------------
(* A message from its arrival to the end of its reply *)

Start(n, r) ==
  /\ streams[n] = Idle
  /\ \A i \in 1 .. n - 1 : streams[i] # Idle
  /\ streams' = [streams EXCEPT ![n] = r]

\* POST /cases/{id}/message
send_message(n, m) ==
  /\ sent < MaxMessages
  /\ sent' = sent + 1
  /\ Start(n, [pc |-> "resolve", message |-> m])
  /\ UNCHANGED <<context, session, tasks, answers, progress, signals, lost, restarts>>

\* GET /cases/{id}/greet
start_greeting(n) ==
  /\ sent < MaxMessages
  /\ sent' = sent + 1
  /\ Start(n, [pc |-> "resolve", message |-> <<>>])
  /\ UNCHANGED <<context, session, tasks, answers, progress, signals, lost, restarts>>

\* Mutant of resolve_session: a session without its questions is made anew.
resolve_session_again(n) ==
  /\ streams[n].pc = "resolve"
  /\ session' = IF session.open /\ session.loaded # {} THEN session
                ELSE [open |-> TRUE, loaded |-> {}, advance_sent |-> FALSE,
                      collected |-> [selected_products |-> ContextProducts]]
  /\ streams' = [streams EXCEPT ![n] =
                  [pc |-> IF session.open /\ session.loaded # {} THEN "extract" ELSE "load",
                   message |-> @.message, products |-> ContextProducts, hydrate |-> <<>>]]
  /\ UNCHANGED <<context, tasks, answers, progress, signals, sent, lost, restarts>>

\* _resolve_session up to the question load.
resolve_session(n) ==
  /\ streams[n].pc = "resolve"
  /\ session' = IF session.open THEN session
                ELSE [open |-> TRUE, loaded |-> {}, advance_sent |-> FALSE,
                      collected |-> [selected_products |-> ContextProducts]]
  /\ streams' = [streams EXCEPT ![n] =
                  [pc |-> IF session.open /\ session.loaded # {} THEN "extract" ELSE "load",
                   message |-> @.message,
                   products |-> ContextProducts,
                   hydrate |-> IF session.open THEN <<>> ELSE ContextData]]
  /\ UNCHANGED <<context, tasks, answers, progress, signals, sent, lost, restarts>>

\* The load ends, or finds nothing or fails and leaves the questions in force.
questions_loaded(n) ==
  /\ streams[n].pc = "load"
  /\ \/ /\ streams[n].products # {} /\ load_questions[streams[n].products] # <<>>
        /\ session' = [session EXCEPT !.loaded = streams[n].products]
     \/ UNCHANGED session
  /\ streams' = [streams EXCEPT ![n].pc = "extract"]
  /\ UNCHANGED <<context, tasks, answers, progress, signals, sent, lost, restarts>>

\* _extract_and_persist: is this message taken as an answer to field f?
Answers(m, f) ==
  LET asked == IF f.field_type \in {"choice", "multi_choice"}
               THEN {"PROVIDE_INFO", "CONFIRM", "DECLINE"} ELSE {"PROVIDE_INFO", "CONFIRM"}
  IN classify(m) \in asked /\ extract_value(m, f) # NoValue

Taken(m, f, collected) ==
  m # <<>> /\ Answers(m, f) /\ validate_value(extract_value(m, f), f, collected)

\* The answers the context store had when the session was made come first.
Hydrated(n) ==
  [session EXCEPT !.collected =
     [k \in DOMAIN @ \cup DOMAIN streams[n].hydrate |->
        IF k \in DOMAIN streams[n].hydrate THEN streams[n].hydrate[k] ELSE @[k]]]

\* The reply goes by the status after the extraction.
Reply(n, s) ==
  /\ session' = s
  /\ streams' = [streams EXCEPT ![n] =
                   [pc |-> "stream", complete |-> @.message # <<>> /\ is_complete(s)]]

extract_and_update(n) ==
  /\ streams[n].pc = "extract"
  /\ LET s == Hydrated(n)
         m == streams[n].message
         f(i) == effective_fields(s)[i]
     IN \/ \E i \in next_field(s) :
             /\ Taken(m, f(i), s.collected)
             /\ Reply(n, [s EXCEPT !.collected = Put(@, f(i).field_id, extract_value(m, f(i)))])
             /\ tasks' = tasks (+) SetToBag({[kind |-> "field", field |-> f(i).field_id,
                                              value |-> extract_value(m, f(i))]})
        \/ /\ \A i \in next_field(s) : ~Taken(m, f(i), s.collected)
           /\ Reply(n, s)
           /\ UNCHANGED tasks
  /\ UNCHANGED <<context, answers, progress, signals, sent, lost, restarts>>

\* Mutant of Advance: only a session with the questions of the database counts.
AdvanceLoaded(n) == streams[n].complete /\ ~session.advance_sent /\ session.loaded # {}

Advance(n) == streams[n].complete /\ ~session.advance_sent

\* Mutant of reply_ends: the flag is left to the background task.
reply_ends_unflagged(n) ==
  /\ streams[n].pc = "stream"
  /\ streams' = [streams EXCEPT ![n] = Idle]
  /\ tasks' = IF Advance(n) THEN tasks (+) SetToBag({[kind |-> "advance"]}) ELSE tasks
  /\ UNCHANGED <<context, session, answers, progress, signals, sent, lost, restarts>>

\* The reply has been streamed; the flag lets one stream ask for KYC.
reply_ends(n) ==
  /\ streams[n].pc = "stream"
  /\ streams' = [streams EXCEPT ![n] = Idle]
  /\ session' = IF Advance(n) THEN [session EXCEPT !.advance_sent = TRUE] ELSE session
  /\ tasks' = IF Advance(n) THEN tasks (+) SetToBag({[kind |-> "advance"]}) ELSE tasks
  /\ UNCHANGED <<context, answers, progress, signals, sent, lost, restarts>>

\* The client disconnects and the generator is closed at a yield.
disconnect(n) ==
  /\ streams[n].pc = "stream"
  /\ streams' = [streams EXCEPT ![n] = Idle]
  /\ lost' = lost \cup {"stream"}
  /\ UNCHANGED <<context, session, tasks, answers, progress, signals, sent, restarts>>

-----------------------------------------------------------------------------
(* The tasks left behind *)

End(k, J) ==
  /\ BagIn(k, tasks)
  /\ tasks' = (tasks (-) SetToBag({k})) (+) SetToBag(J)

Known(f) == session.loaded # {} /\ \E i \in DOMAIN load_questions[session.loaded] :
                                     load_questions[session.loaded][i].field_id = f
QuestionnaireOf(f) == LET i == CHOOSE i \in DOMAIN Stored : Stored[i].field_id = f
                      IN Stored[i].questionnaire

\* _persist_field, first the context store.
persist_field(k) ==
  /\ k.kind = "field"
  /\ update_client_data(k.field, k.value)
  /\ End(k, IF Known(k.field) THEN {[k EXCEPT !.kind = "answer"]} ELSE {})
  /\ UNCHANGED <<session, streams, answers, progress, signals, sent, lost, restarts>>

\* _upsert_question_session reads the status and the row in the answer's transaction.
upsert_question_session(k) ==
  /\ k.kind = "answer"
  /\ End(k, {[kind |-> "commit", field |-> k.field, value |-> k.value,
              found |-> progress[QuestionnaireOf(k.field)] # "none", complete |-> is_complete(session)]})
  /\ UNCHANGED <<context, session, streams, answers, progress, signals, sent, lost, restarts>>

\* The commit.  A second insert for one questionnaire violates oqs_case_q_uq and
\* takes its answer with it.
commit_answer(k) ==
  LET q == QuestionnaireOf(k.field)
  IN /\ k.kind = "commit"
     /\ End(k, {})
     /\ IF k.found \/ progress[q] = "none"
        THEN /\ answers' = [answers EXCEPT ![k.field] = k.value]
             /\ progress' = [progress EXCEPT ![q] =
                               IF k.complete THEN "COMPLETED" ELSE IF k.found THEN @ ELSE "IN_PROGRESS"]
             /\ UNCHANGED lost
        ELSE /\ lost' = lost \cup {"answer"}
             /\ UNCHANGED <<answers, progress>>
     /\ UNCHANGED <<context, session, streams, signals, sent, restarts>>

\* _signal_advance
signal_advance(k) ==
  /\ k.kind = "advance"
  /\ End(k, {})
  /\ signals' = signals + 1
  /\ UNCHANGED <<context, session, streams, answers, progress, sent, lost, restarts>>

\* The process dies with everything it kept in memory.
restart_api ==
  /\ restarts < MaxRestarts
  /\ restarts' = restarts + 1
  /\ context' = [started |-> context.started, cached |-> FALSE]
  /\ session' = NoSession
  /\ streams' = [n \in Slots |-> Idle]
  /\ tasks' = EmptyBag
  /\ UNCHANGED <<answers, progress, signals, sent, lost>>

-----------------------------------------------------------------------------
FieldIds == {Stored[i].field_id : i \in DOMAIN Stored}
Questionnaires == {Stored[i].questionnaire : i \in DOMAIN Stored}

InterviewInit ==
  /\ context = [started |-> FALSE, cached |-> FALSE]
  /\ session = NoSession
  /\ streams = [n \in Slots |-> Idle]
  /\ tasks = EmptyBag
  /\ answers = [f \in FieldIds |-> NoValue]
  /\ progress = [q \in Questionnaires |-> "none"]
  /\ signals = 0
  /\ sent = 0
  /\ lost = {}
  /\ restarts = 0

Serve(n) == resolve_session(n) \/ questions_loaded(n) \/ extract_and_update(n) \/ reply_ends(n)
Run(k) == persist_field(k) \/ upsert_question_session(k) \/ commit_answer(k) \/ signal_advance(k)

InterviewNext ==
  \/ initialise
  \/ \E n \in Slots : Serve(n) \/ disconnect(n) \/ start_greeting(n)
                        \/ \E m \in Messages : send_message(n, m)
  \/ \E k \in BagToSet(tasks) : Run(k)
  \/ restart_api

\* asyncio runs what is ready; of that, the open replies and the signal matter
\* to the liveness property below.
InterviewFairness ==
  /\ \A n \in Slots : WF_interviewVars(reply_ends(n))
  /\ WF_interviewVars(signal_advance([kind |-> "advance"]))

InterviewSpec == InterviewInit /\ [][InterviewNext]_interviewVars /\ InterviewFairness

-----------------------------------------------------------------------------
(* Properties *)

\* How many tasks of one kind and content are in flight.
InFlight(k) == IF BagIn(k, tasks) THEN tasks[k] ELSE 0

\* However many replies end together, a session asks for KYC once
\* (conversation_coordinator.py: the flag is tested and set without a pause).
SignalOncePerSession ==
  signals + InFlight([kind |-> "advance"]) <= 1 + restarts

\* KYC is asked for only when every question to be answered is answered, those
\* an answer has made visible included: all of the database's, or all of the
\* hard-coded ones when those could not be loaded.
SignalIsEarned ==
  session.open /\ session.advance_sent =>
    \E fields \in {load_questions[Products], Fallback} :
      \A i \in DOMAIN fields :
        fields[i].required /\ visible(fields[i], session.collected)
          => fields[i].field_id \in DOMAIN session.collected

\* Once its tasks are done the row of an answer holds what the session holds,
\* in whatever order they ran; without a restart no answer is asked for twice.
AnswersAgree ==
  restarts = 0 =>
    \A f \in FieldIds :
      answers[f] # NoValue => f \in DOMAIN session.collected /\ answers[f] = session.collected[f]

\* A message that completes the collection ends with KYC asked for, unless the
\* client hangs up during the reply or the process dies.
CompleteIsSignalled ==
  (\E n \in Slots : streams[n].pc = "stream" /\ streams[n].complete)
    ~> (signals > 0 \/ "stream" \in lost \/ restarts > 0)

-----------------------------------------------------------------------------
(* What makes them inductive *)

Replies ==
  {Idle} \cup [pc : {"resolve"}, message : Messages \cup {<<>>}]
    \cup [pc : {"load", "extract"}, message : Messages \cup {<<>>}, products : {{}, Products}, hydrate : {<<>>}]
    \cup [pc : {"stream"}, complete : BOOLEAN]

\* The parts that hold the clients' answers are of any type.
ContextOK ==
  \/ context \in [started : BOOLEAN, cached : {FALSE}]
  \/ context = [started |-> TRUE, cached |-> TRUE, selected_products |-> Products,
                client_data |-> context.client_data, version |-> context.version]

SessionOK ==
  \/ session = NoSession
  \/ /\ session = [open |-> TRUE, loaded |-> session.loaded, advance_sent |-> session.advance_sent,
                   collected |-> session.collected]
     /\ session.loaded \in {{}, Products} /\ session.advance_sent \in BOOLEAN
     /\ "selected_products" \in DOMAIN session.collected

TaskOK(k) ==
  \/ k = [kind |-> "advance"]
  \/ k = [kind |-> k.kind, field |-> k.field, value |-> k.value] /\ k.kind \in {"field", "answer"}
  \/ k = [kind |-> "commit", field |-> k.field, value |-> k.value, found |-> k.found, complete |-> k.complete]

InterviewTypeOK ==
  /\ ContextOK /\ SessionOK
  /\ streams \in [Slots -> Replies]
  /\ tasks \in [DOMAIN tasks -> Nat \ {0}] /\ \A k \in DOMAIN tasks : TaskOK(k)
  /\ DOMAIN answers = FieldIds
  /\ signals \in Nat /\ sent \in Nat /\ restarts \in Nat

\* Nothing of a case is in memory before its session is, which the process keeps.
InSession ==
  /\ \A n \in Slots : streams[n].pc \in {"load", "extract", "stream"} => session.open
  /\ ~session.open => tasks = EmptyBag /\ ContextData = <<>>

\* A session that has asked for KYC has used its one signal.
SignalsInv ==
  signals + InFlight([kind |-> "advance"])
    <= restarts + (IF session.open /\ session.advance_sent THEN 1 ELSE 0)

\* The hard-coded questions are answered, or those of the database, which then
\* are in force for good.
Earned(s) ==
  \/ unanswered(Fallback, s.collected) = {}
  \/ /\ s.loaded # {} /\ s.loaded = Products
     /\ unanswered(load_questions[Products], s.collected) = {}

EarnedInv ==
  (session.open /\ session.advance_sent) \/ (\E n \in Slots : streams[n].pc = "stream" /\ streams[n].complete)
    => Earned(session)

\* A task carries what the session holds, which no later message changes.
CarriedInv ==
  \A k \in DOMAIN tasks : k.kind # "advance" =>
    session.open /\ k.field \in DOMAIN session.collected /\ k.value = session.collected[k.field]

WrittenInv ==
  restarts = 0 => \A f \in FieldIds : answers[f] # NoValue =>
    session.open /\ f \in DOMAIN session.collected /\ answers[f] = session.collected[f]

InterviewInv ==
  InterviewTypeOK /\ InSession /\ SignalsInv /\ EarnedInv /\ CarriedInv /\ WrittenInv

=============================================================================
