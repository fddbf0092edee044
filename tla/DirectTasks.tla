----------------------------- MODULE DirectTasks -----------------------------
(***************************************************************************)
(* The agent tasks that are run one at a time outside the onboarding       *)
(* workflow (agents/direct_task_activities.py, agents/base/base_agent.py): *)
(* who sends them, how Temporal runs and repeats them, and what the        *)
(* notification agent does for one: an e-mail, or a note to the client's   *)
(* page over the socket of its own process, or a push.  The comments of a  *)
(* case (api/routers/collaboration.py), whose notices are such tasks.      *)
(*                                                                         *)
(* Each step between two awaits that touches shared state is an action.    *)
(***************************************************************************)
EXTENDS Integers, FiniteSets

CONSTANTS
    Sends,         \* task packets' ids
    Servers,       \* server processes; each serves sockets and runs activities
    Posts,         \* requests that add a comment to the case
    Packets,       \* the packets sent in this instance
    EmailEnabled,  \* EMAIL_ENABLED with a key
    MaxMoves       \* bound: moves of the page, the subscription and the processes

VARIABLES
    tasks,         \* task -> where it is, its packet and what its attempt has done
    emails,        \* task -> e-mails the provider has taken for it
    notes,         \* <<task, attempt>> with a row in notifications
    agent_rows,    \* task -> status of its row in agent_tasks, "none" before
    entries,       \* task -> its entries in the audit log
    repeats,       \* task -> <<attempt, reason>> of the attempts that were repeated
    page,          \* the process the client's page is connected to, or "away"
    connected,     \* _connected_users of each process: "live" and "gone" connections
    subscription,  \* the browser's push subscription: "none", "good" or "stale"
    rooms,         \* posts whose room row is committed
    posts,         \* post -> where it is, the room it uses and who it met
    moves

taskVars == <<tasks, emails, notes, agent_rows, entries, repeats>>
pageVars == <<page, connected, subscription>>
postVars == <<rooms, posts>>
directVars == <<taskVars, pageVars, postVars, moves>>

-----------------------------------------------------------------------------
(* The packets the program sends. *)

Letter(template, user_type) ==
    [to |-> "notification", type |-> "send_notification", template |-> template, user_type |-> user_type]
Order(agent, type) == [to |-> agent, type |-> type, template |-> "none", user_type |-> "client"]

document_status_letters(status) ==
    CASE status = "REQUESTED" -> {Letter("document_requested", "client"), Letter("document_requested_inapp", "client")}
      [] status = "APPROVED" -> {Letter("document_approved", "client")}
      [] status = "NEEDS_REVISION" -> {Letter("document_needs_revision", "client")}
      [] OTHER -> {}

submit_letters == {Letter("case_submitted", "client"), Letter("case_submitted_inapp", "client")}

\* The only letter marked as an advisor's.
advisor_letter == Letter("advisor_case_assigned", "advisor")

\* The orchestrator it reports to is no agent of a direct task.
track_packets(track_status) ==
    {Order("orchestrator", "product_track_complete")} \cup
    (IF track_status \in {"FAILED", "UNSUITABLE"}
     THEN {Letter("product_track_failed", "client"), Letter("product_track_failed_inapp", "client")}
     ELSE {Letter("product_track_update", "client")})

\* Meant for the sales manager, but with no user_type it goes to the client's page.
sales_letter == Letter("sales_review_assigned", "client")

upload_orders == {Order("document_intelligence", "classify_document"), Order("document_intelligence", "extract_ocr")}

\* A track that has not ended is started again, from its first step; with none
\* left the case is asked on.
resume_products(unfinished) ==
    IF unfinished THEN Order("product_onboarding", "onboard_product") ELSE Order("orchestrator", "advance_stage")

resume_orders(stage, unfinished) ==
    CASE stage = "INTAKE" -> {Order("customer_service", "collect_client_data")}
      [] stage = "KYC" -> {Order("kyc_compliance", "run_kyc_check")}
      [] stage = "PARALLEL_PRODUCTS" -> {resume_products(unfinished)}
      [] stage = "REVIEW" -> {Order("collaboration", "create_collaboration_room")}
      [] OTHER -> {}

\* The client hears of a comment he may see on a document that needs him; the
\* advisor of a client's comment.
client_comment_letter == Letter("document_comment", "client")
advisor_comment_letter == Letter("document_comment", "client")

SentPackets ==
    {advisor_letter, sales_letter, client_comment_letter, advisor_comment_letter}
    \cup submit_letters \cup upload_orders
    \cup UNION {document_status_letters(s) : s \in {"REQUESTED", "APPROVED", "NEEDS_REVISION"}}
    \cup UNION {track_packets(s) : s \in {"COMPLETED", "FAILED"}}
    \cup UNION {resume_orders(s, b) : s \in {"INTAKE", "KYC", "PARALLEL_PRODUCTS", "REVIEW"}, b \in BOOLEAN}

ASSUME PacketsAreSent == Packets \subseteq SentPackets

-----------------------------------------------------------------------------
(* The agents. *)

\* The types publish_task turns into a signal of the onboarding workflow.
SignalTypes == {"advance_stage", "escalate", "resume_onboarding", "run_kyc_check", "sales_manager_review"}

\* The agents DirectTaskWorkflow has an activity for.
AgentActivity ==
    {"notification", "collaboration", "document_intelligence", "contact_centre",
     "sales_manager", "product_onboarding", "customer_service"}

\* Templates that go by e-mail; the others, and an unknown one, are notes in the app.
EmailTemplates ==
    {"onboarding_started", "case_submitted", "kyc_passed", "kyc_failed", "kyc_escalated",
     "document_requested", "document_comment", "product_track_failed", "onboarding_complete",
     "escalation_alert", "human_review_decided", "advisor_case_assigned"}

channel(packet) == IF packet.template \in EmailTemplates THEN "email" ELSE "in_app"

\* In the app, to the client's own page; everything else goes to the case's room.
for_page(packet) ==
    packet.to = "notification" /\ channel(packet) = "in_app" /\ packet.user_type # "advisor"

\* What _send_email can make of a letter: the provider may take it and the call
\* fail all the same.  It is never tried again here, and the answer is a success.
by_email(packet) == channel(packet) = "email" /\ EmailEnabled
provider_answers == {<<"SENT", 1>>, <<"FAILED", 0>>, <<"FAILED", 1>>}

send_email_again(packet) == IF by_email(packet) THEN {<<"SENT", 1>>, <<"SENT", 2>>} ELSE {<<"SIMULATED_SENT", 0>>}

send_email(packet) == IF by_email(packet) THEN provider_answers ELSE {<<"SIMULATED_SENT", 0>>}

\* What the other agents' handlers answer; what they keep in memory (a room, a
\* conversation) goes with the agent, which is made for the one attempt.
DidOrRaised == {"SUCCESS", "FAILED"}
document_answers(type) ==
    CASE type = "classify_document" -> {"SUCCESS"}
      [] type \in {"extract_ocr", "validate_document", "compute_diff"} -> DidOrRaised
      [] OTHER -> {"FAILED"}
collaboration_answers(type) ==
    CASE type = "create_collaboration_room" -> {"SUCCESS"}
      [] type = "add_comment" -> DidOrRaised
      [] OTHER -> {"FAILED"}
contact_answers(type) == IF type \in {"summarise_call", "get_client_status"} THEN DidOrRaised ELSE {"FAILED"}
customer_answers(type) ==
    IF type \in {"collect_client_data", "continue_conversation"} THEN DidOrRaised ELSE {"FAILED"}
sales_answers(type) ==
    CASE type = "sales_manager_review" -> DidOrRaised
      [] type = "health_check" -> {"SUCCESS"}
      [] OTHER -> {"FAILED"}
product_answers(type) == IF type \in {"onboard_product", "assess_suitability"} THEN DidOrRaised ELSE {"FAILED"}

answers(packet) ==
    CASE packet.to = "document_intelligence" -> document_answers(packet.type)
      [] packet.to = "collaboration" -> collaboration_answers(packet.type)
      [] packet.to = "contact_centre" -> contact_answers(packet.type)
      [] packet.to = "customer_service" -> customer_answers(packet.type)
      [] packet.to = "sales_manager" -> sales_answers(packet.type)
      [] packet.to = "product_onboarding" -> product_answers(packet.type)

DirectAttempts == 3

-----------------------------------------------------------------------------
NoPacket == Order("none", "none")
Unseen == [page |-> "away", known |-> {}, subscription |-> "none", error |-> FALSE]
Unsent == [at |-> "new", packet |-> NoPacket, process |-> "none", attempt |-> 0,
           status |-> "none", reached |-> {}, seen |-> Unseen]
NoPost == [at |-> "new", room |-> {}, met |-> {}, of_client |-> FALSE, visible |-> FALSE]

DirectInit ==
    /\ tasks = [t \in Sends |-> Unsent]
    /\ emails = [t \in Sends |-> 0]
    /\ notes = {}
    /\ agent_rows = [t \in Sends |-> "none"]
    /\ entries = [t \in Sends |-> 0]
    /\ repeats = [t \in Sends |-> {}]
    /\ page = "away"
    /\ connected = [p \in Servers |-> {}]
    /\ subscription = "none"
    /\ rooms = {}
    /\ posts = [c \in Posts |-> NoPost]
    /\ moves = 0

To(t, at) == tasks' = [tasks EXCEPT ![t].at = at]

Move == moves < MaxMoves /\ moves' = moves + 1

\* send_task, or a router's create_task(publish_task(...)): a coroutine of one process.
send_task(t, packet, p) ==
    /\ tasks[t].at = "new"
    /\ tasks' = [tasks EXCEPT ![t].at = "asked", ![t].packet = packet, ![t].process = p]
    /\ UNCHANGED <<emails, notes, agent_rows, entries, repeats, pageVars, postVars, moves>>

Queued(t, packet) == [tasks EXCEPT ![t].at = "queued", ![t].packet = packet, ![t].attempt = 1]

publish_task(t) ==
    /\ tasks[t].at = "asked"
    /\ IF tasks[t].packet.type \in SignalTypes THEN To(t, "signalled")
       ELSE tasks' = Queued(t, tasks[t].packet)
    /\ UNCHANGED <<emails, notes, agent_rows, entries, repeats, pageVars, postVars, moves>>

\* Temporal does not answer: nobody waits for the coroutine, the packet is gone.
PublishFails(t) ==
    /\ tasks[t].at = "asked"
    /\ To(t, "lost")
    /\ UNCHANGED <<emails, notes, agent_rows, entries, repeats, pageVars, postVars, moves>>

\* No activity for the agent: the workflow fails, once and for all.
Reject(t) ==
    /\ tasks[t].at = "queued"
    /\ tasks[t].packet.to \notin AgentActivity
    /\ To(t, "failed")
    /\ UNCHANGED <<emails, notes, agent_rows, entries, repeats, pageVars, postVars, moves>>

StartAttempt(t, p) ==
    /\ tasks[t].at = "queued"
    /\ tasks[t].packet.to \in AgentActivity
    /\ tasks' = [tasks EXCEPT ![t].at = "running", ![t].process = p, ![t].status = "none",
                              ![t].reached = {}, ![t].seen = Unseen]
    /\ UNCHANGED <<emails, notes, agent_rows, entries, repeats, pageVars, postVars, moves>>

\* An attempt that ends without an answer is made again, three times in all.
Repeated(k) ==
    IF k.attempt = DirectAttempts THEN [k EXCEPT !.at = "failed"]
    ELSE [k EXCEPT !.at = "queued", !.attempt = @ + 1]

-----------------------------------------------------------------------------
(* One attempt: the agent's process, then timed_process's own rows. *)

\* Another agent: what its handler returns or raises is the answer.
ProcessOther(t) ==
    /\ tasks[t].at = "running"
    /\ tasks[t].packet.to # "notification"
    /\ \E status \in answers(tasks[t].packet) :
         tasks' = [tasks EXCEPT ![t].at = "answered", ![t].status = status]
    /\ UNCHANGED <<emails, notes, agent_rows, entries, repeats, pageVars, postVars, moves>>

\* The e-mail, or the simulated delay of every other letter.
Deliver(t) ==
    /\ tasks[t].at = "running"
    /\ tasks[t].packet.to = "notification"
    /\ \E answer \in send_email(tasks[t].packet) :
         /\ emails' = [emails EXCEPT ![t] = @ + answer[2]]
         /\ tasks' = [tasks EXCEPT ![t].at = "sent", ![t].status = "SUCCESS"]
    /\ UNCHANGED <<notes, agent_rows, entries, repeats, pageVars, postVars, moves>>

\* notify_user: to the sockets of this process.
Emit(t) ==
    LET k == tasks[t] IN
    /\ k.at = "sent"
    /\ IF for_page(k.packet)
       THEN tasks' = [tasks EXCEPT ![t].at = "emitted", ![t].seen.page = page,
                        ![t].reached = IF page = k.process THEN {"socket"} ELSE {}]
       ELSE To(t, "shown")
    /\ UNCHANGED <<emails, notes, agent_rows, entries, repeats, pageVars, postVars, moves>>

has_active_socket_anywhere(p) == \E q \in Servers : connected[q] # {}

has_active_socket(p) == connected[p] # {}

\* What the push service answers for the browser's endpoint.
send_push == IF subscription = "good" THEN {"taken", "error"} ELSE {"gone", "error"}

\* A gone endpoint is marked expired, any other error is logged.
Pushed(answer) ==
    [reached |-> IF answer = "taken" THEN {"push"} ELSE {}, error |-> answer = "error",
     subscription |-> IF answer = "gone" THEN "none" ELSE subscription]
send_push_to_user == IF subscription = "none" THEN {Pushed("none")} ELSE {Pushed(answer) : answer \in send_push}

\* A push only when this process counts no connection of the client.
Push(t) ==
    LET k == tasks[t] IN
    /\ k.at = "emitted"
    /\ \E sent \in IF has_active_socket(k.process) THEN {Pushed("none")} ELSE send_push_to_user :
         /\ tasks' = [tasks EXCEPT ![t].at = "shown", ![t].reached = @ \cup sent.reached,
                        ![t].seen.known = connected[k.process], ![t].seen.subscription = subscription,
                        ![t].seen.error = sent.error]
         /\ subscription' = sent.subscription
    /\ UNCHANGED <<emails, notes, agent_rows, entries, repeats, page, connected, postVars, moves>>

\* The row is written or, on any error, not.
SaveToDb(t) ==
    /\ tasks[t].at = "shown"
    /\ notes' \in {notes, notes \cup {<<t, tasks[t].attempt>>}}
    /\ To(t, "answered")
    /\ UNCHANGED <<emails, agent_rows, entries, repeats, pageVars, postVars, moves>>

\* The row has the task's id: the insert of a later attempt fails, and is swallowed.
PersistAgentTask(t) ==
    LET Inserted == IF agent_rows[t] = "none" THEN tasks[t].status ELSE agent_rows[t] IN
    /\ tasks[t].at = "answered"
    /\ \E row \in {agent_rows[t], Inserted} : agent_rows' = [agent_rows EXCEPT ![t] = row]
    /\ To(t, "persisted")
    /\ UNCHANGED <<emails, notes, entries, repeats, pageVars, postVars, moves>>

LogCompleted(t) ==
    /\ tasks[t].at = "persisted"
    /\ entries' = [entries EXCEPT ![t] = @ + 1]
    /\ To(t, "logged")
    /\ UNCHANGED <<emails, notes, agent_rows, repeats, pageVars, postVars, moves>>

\* The audit log's error is not caught: the whole attempt counts as failed.
LogFails(t) ==
    /\ tasks[t].at = "persisted"
    /\ tasks' = [tasks EXCEPT ![t] = Repeated(@)]
    /\ repeats' = [repeats EXCEPT ![t] = @ \cup {<<tasks[t].attempt, "unlogged">>}]
    /\ UNCHANGED <<emails, notes, agent_rows, entries, pageVars, postVars, moves>>

Complete(t) ==
    /\ tasks[t].at = "logged"
    /\ To(t, "done")
    /\ UNCHANGED <<emails, notes, agent_rows, entries, repeats, pageVars, postVars, moves>>

AttemptStep(t) ==
    \/ ProcessOther(t) \/ Deliver(t) \/ Emit(t) \/ Push(t) \/ SaveToDb(t)
    \/ PersistAgentTask(t) \/ LogCompleted(t) \/ LogFails(t) \/ Complete(t)

InAttempt == {"running", "sent", "emitted", "shown", "answered", "persisted", "logged"}

\* A process stops: its coroutines are gone, its attempts run into their timeout
\* and are repeated, and its sockets are dropped.
ProcessStops(p) ==
    LET Cut == {t \in Sends : tasks[t].process = p /\ tasks[t].at \in InAttempt}
        Lost == {t \in Sends : tasks[t].process = p /\ tasks[t].at = "asked"} IN
    /\ Move
    /\ tasks' = [t \in Sends |-> IF t \in Cut THEN Repeated(tasks[t])
                                 ELSE IF t \in Lost THEN [tasks[t] EXCEPT !.at = "lost"] ELSE tasks[t]]
    /\ repeats' = [t \in Sends |-> IF t \in Cut THEN repeats[t] \cup {<<tasks[t].attempt, "stopped">>}
                                   ELSE repeats[t]]
    /\ connected' = [connected EXCEPT ![p] = {}]
    /\ page' = IF page = p THEN "away" ELSE page
    /\ UNCHANGED <<emails, notes, agent_rows, entries, subscription, postVars>>

-----------------------------------------------------------------------------
(* The client's page. *)

connect(p) ==
    /\ Move
    /\ page = "away"
    /\ page' = p
    /\ connected' = [connected EXCEPT ![p] = @ \cup {"live"}]
    /\ UNCHANGED <<taskVars, subscription, postVars>>

\* The page leaves and says so.
disconnect ==
    /\ Move
    /\ page # "away"
    /\ page' = "away"
    /\ connected' = [connected EXCEPT ![page] = @ \ {"live"}]
    /\ UNCHANGED <<taskVars, subscription, postVars>>

\* The network drops: the process counts the connection until it times out.
Vanish ==
    /\ Move
    /\ page # "away"
    /\ page' = "away"
    /\ connected' = [connected EXCEPT ![page] = (@ \ {"live"}) \cup {"gone"}]
    /\ UNCHANGED <<taskVars, subscription, postVars>>

TimesOut(p) ==
    /\ "gone" \in connected[p]
    /\ connected' = [connected EXCEPT ![p] = @ \ {"gone"}]
    /\ UNCHANGED <<taskVars, page, subscription, postVars, moves>>

subscribe ==
    /\ Move
    /\ page # "away" /\ subscription # "good"
    /\ subscription' = "good"
    /\ UNCHANGED <<taskVars, page, connected, postVars>>

unsubscribe ==
    /\ Move
    /\ page # "away" /\ subscription # "none"
    /\ subscription' = "none"
    /\ UNCHANGED <<taskVars, page, connected, postVars>>

\* The push service forgets the endpoint.
Expire ==
    /\ Move
    /\ subscription = "good"
    /\ subscription' = "stale"
    /\ UNCHANGED <<taskVars, page, connected, postVars>>

PageStep ==
    \/ disconnect \/ Vanish \/ subscribe \/ unsubscribe \/ Expire
    \/ \E p \in Servers : connect(p) \/ TimesOut(p) \/ ProcessStops(p)

-----------------------------------------------------------------------------
(* Comments. *)

\* The first part of _get_or_create_room: any open room, in no order.
open_rooms_ignored == {}

open_rooms == rooms

\* A post that finds no room makes one, seen by others when the post commits.
LoadRoom(c) ==
    /\ posts[c].at = "new"
    /\ \E of_client, visible \in BOOLEAN :
       \E room \in IF open_rooms = {} THEN {c} ELSE open_rooms :
         posts' = [posts EXCEPT ![c] =
            [at |-> "loaded", room |-> {room}, of_client |-> of_client, visible |-> visible,
             met |-> {d \in Posts : posts[d].at = "loaded"}]]
    /\ UNCHANGED <<taskVars, pageVars, rooms, moves>>

add_comment(c) ==
    /\ posts[c].at = "loaded"
    /\ posts' = [posts EXCEPT ![c].at = "committed"]
    /\ rooms' = rooms \cup (posts[c].room \cap {c})
    /\ UNCHANGED <<taskVars, pageVars, moves>>

\* The request or the coroutine of its notices is cut short; so is the second
\* notice when the first cannot be published.
LosePost(c) ==
    /\ posts[c].at \in {"loaded", "committed", "advisor"}
    /\ posts' = [posts EXCEPT ![c].at = "lost"]
    /\ UNCHANGED <<taskVars, pageVars, rooms, moves>>

\* _notify_comment reads the document when it runs, after the answer to the author.
NotifyClient(c) ==
    /\ posts[c].at = "committed"
    /\ posts' = [posts EXCEPT ![c].at = "advisor"]
    /\ \/ UNCHANGED tasks
       \/ /\ posts[c].visible
          /\ \E t \in Sends : tasks[t].at = "new" /\ tasks' = Queued(t, client_comment_letter)
    /\ UNCHANGED <<emails, notes, agent_rows, entries, repeats, pageVars, rooms, moves>>

NotifyAdvisor(c) ==
    /\ posts[c].at = "advisor"
    /\ posts' = [posts EXCEPT ![c].at = "done"]
    /\ IF posts[c].of_client
       THEN \E t \in Sends : tasks[t].at = "new" /\ tasks' = Queued(t, advisor_comment_letter)
       ELSE UNCHANGED tasks
    /\ UNCHANGED <<emails, notes, agent_rows, entries, repeats, pageVars, rooms, moves>>

PostStep(c) == LoadRoom(c) \/ add_comment(c) \/ LosePost(c) \/ NotifyClient(c) \/ NotifyAdvisor(c)

SendStep(t) ==
    \/ \E packet \in Packets, p \in Servers : send_task(t, packet, p)
    \/ publish_task(t) \/ PublishFails(t) \/ Reject(t)
    \/ \E p \in Servers : StartAttempt(t, p)
    \/ AttemptStep(t)

-----------------------------------------------------------------------------
(* An e-mail is sent once, and once more for each attempt that was cut short *)
(* or whose entry the audit log refused: the agent itself repeats nothing.   *)
SentTwiceHasCause == \A t \in Sends : emails[t] <= 1 + Cardinality(repeats[t])

\* The note reached the client, or there is a reason why not.
Heard(k) ==
    /\ for_page(k.packet) /\ k.at \in {"shown", "answered", "persisted", "logged", "done"}
    /\ k.reached = {} /\ k.seen.subscription = "good"
    => \/ "gone" \in k.seen.known \/ k.seen.error
       \/ k.seen.page # k.process /\ "live" \in k.seen.known

(* A client with a working push subscription hears of a note, by socket or   *)
(* by push, unless the process that runs the task still counts a connection  *)
(* of his that is dead, or he connected to it between its two looks, or the  *)
(* push service failed.                                                      *)
ToldUnlessAway == \A t \in Sends : Heard(tasks[t])

(* A case gets a second open room only from two first comments that were     *)
(* being written at the same time.                                           *)
OneRoomUnlessOverlap ==
    \A c, d \in rooms : c = d \/ c \in posts[d].met \/ d \in posts[c].met

-----------------------------------------------------------------------------
(* Any packets, in any order, with any moves of the page and the processes;  *)
(* the theorems are about this specification.                                *)
DirectNext ==
    \/ \E t \in Sends : SendStep(t)
    \/ PageStep
    \/ \E c \in Posts : PostStep(c)

DirectSpec == DirectInit /\ [][DirectNext]_directVars

Places == Servers \cup {"away"}
Connections == {"live", "gone"}
Subscriptions == {"none", "good", "stale"}

Task ==
    [at : {"new", "asked", "signalled", "lost", "queued", "failed", "done"} \cup InAttempt,
     packet : Packets \cup {NoPacket, client_comment_letter, advisor_comment_letter},
     process : Servers \cup {"none"},
     attempt : Nat,
     status : {"none", "SUCCESS", "FAILED"},
     reached : SUBSET {"socket", "push"},
     seen : [page : Places, known : SUBSET Connections, subscription : Subscriptions, error : BOOLEAN]]

Post ==
    [at : {"new", "loaded", "committed", "advisor", "done", "lost"}, room : SUBSET Posts,
     met : SUBSET Posts, of_client : BOOLEAN, visible : BOOLEAN]

\* The type invariant.
DirectTypeOK ==
    /\ tasks \in [Sends -> Task]
    /\ emails \in [Sends -> Nat]
    /\ repeats \in [Sends -> SUBSET (Nat \X {"unlogged", "stopped"})]
    /\ page \in Places
    /\ connected \in [Servers -> SUBSET Connections]
    /\ subscription \in Subscriptions
    /\ rooms \in SUBSET Posts
    /\ posts \in [Posts -> Post]

\* An attempt that was repeated is over, and may have sent one e-mail; the last
\* one may have sent one more.
Mailed == {"sent", "emitted", "shown", "answered", "persisted", "logged", "done"}

AttemptOK(k, mails, cut) ==
    /\ IsFiniteSet(cut)
    /\ mails <= Cardinality(cut) + (IF k.at \in Mailed THEN 1 ELSE 0)
    /\ k.at \in {"new", "asked"} => cut = {}
    /\ k.at # "failed" => \A r \in cut : r[1] < k.attempt
    /\ k.at \in InAttempt => k.packet.to \in AgentActivity /\ k.process \in Servers

AttemptsInv == \A t \in Sends : AttemptOK(tasks[t], emails[t], repeats[t])

\* A note the socket did not take was for a page that was elsewhere.
NoteOK(k) == Heard(k) /\ (k.at = "emitted" /\ k.reached = {} => k.seen.page # k.process)

NotesInv == \A t \in Sends : NoteOK(tasks[t])

\* One of the two was being written when the other looked for a room.
Overlap(c, d) == c \in posts[d].met \/ d \in posts[c].met

\* Comments under way together know of each other, and one that is to make a
\* room knows of every post that made one since it looked.
RoomsInv ==
    /\ OneRoomUnlessOverlap
    /\ \A d \in rooms : posts[d].at # "new"
    /\ \A c, d \in Posts : posts[c].at = "loaded" /\ posts[d].at = "loaded" => c = d \/ Overlap(c, d)
    /\ \A c \in Posts : posts[c].at = "loaded" /\ c \in posts[c].room => \A d \in rooms : Overlap(c, d)

DirectInv == DirectTypeOK /\ AttemptsInv /\ NotesInv /\ RoomsInv
=============================================================================
