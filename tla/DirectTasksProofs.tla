-------------------------- MODULE DirectTasksProofs --------------------------
(***************************************************************************)
(* The direct tasks for any packets, server processes and posts, and any   *)
(* moves of the client's page.                                             *)
(***************************************************************************)
EXTENDS DirectTasks, FiniteSetTheorems, TLAPS

-----------------------------------------------------------------------------
(* One task at a time. *)

\* What the tasks need the posts to be.
PostsOK == rooms \in SUBSET Posts /\ posts \in [Posts -> Post] /\ RoomsInv

\* Posts that do not move stay as they should be.
LEMMA PostsStay == DirectInv /\ UNCHANGED postVars => PostsOK'
BY DEF DirectInv, DirectTypeOK, PostsOK, RoomsInv, OneRoomUnlessOverlap, Overlap, postVars

\* What a task, its e-mails and its repeated attempts must satisfy to take the
\* place of the old ones; the page may learn that its subscription is gone.
LEMMA TaskMoves ==
    ASSUME DirectInv, NEW t \in Sends,
           NEW k \in Task, tasks' = [tasks EXCEPT ![t] = k],
           NEW m \in Nat, emails' = [emails EXCEPT ![t] = m],
           NEW r \in SUBSET (Nat \X {"unlogged", "stopped"}), repeats' = [repeats EXCEPT ![t] = r],
           AttemptOK(k, m, r), NoteOK(k),
           subscription' \in Subscriptions, UNCHANGED <<page, connected>>, PostsOK'
    PROVE  DirectInv'
<1>1. DirectTypeOK /\ AttemptsInv /\ NotesInv /\ RoomsInv
  BY DEF DirectInv
<1>2. DirectTypeOK'
  BY <1>1 DEF DirectTypeOK, PostsOK
<1>3. ASSUME NEW s \in Sends
      PROVE  /\ s = t => tasks'[s] = k /\ emails'[s] = m /\ repeats'[s] = r
             /\ s # t => tasks'[s] = tasks[s] /\ emails'[s] = emails[s] /\ repeats'[s] = repeats[s]
  BY <1>1 DEF DirectTypeOK
<1>4. AttemptsInv'
  <2> SUFFICES ASSUME NEW s \in Sends PROVE AttemptOK(tasks'[s], emails'[s], repeats'[s])
    BY DEF AttemptsInv, AttemptOK
  <2>1. CASE s = t
    BY <1>3, <2>1
  <2>2. CASE s # t
    BY <1>1, <1>3, <2>2 DEF AttemptsInv
  <2> QED BY <2>1, <2>2
<1>5. NotesInv'
  <2> SUFFICES ASSUME NEW s \in Sends PROVE NoteOK(tasks'[s])
    BY DEF NotesInv, NoteOK, Heard
  <2>1. CASE s = t
    BY <1>3, <2>1
  <2>2. CASE s # t
    BY <1>1, <1>3, <2>2 DEF NotesInv
  <2> QED BY <2>1, <2>2
<1>6. RoomsInv'
  BY DEF PostsOK
<1> QED BY <1>2, <1>4, <1>5, <1>6 DEF DirectInv

\* The same for a step that sends and repeats nothing.
LEMMA OnlyTaskMoves ==
    ASSUME DirectInv, NEW t \in Sends,
           NEW k \in Task, tasks' = [tasks EXCEPT ![t] = k],
           UNCHANGED <<emails, repeats>>, AttemptOK(k, emails[t], repeats[t]), NoteOK(k),
           subscription' \in Subscriptions, UNCHANGED <<page, connected>>, PostsOK'
    PROVE  DirectInv'
<1>1. /\ emails[t] \in Nat /\ repeats[t] \in SUBSET (Nat \X {"unlogged", "stopped"})
      /\ emails' = [emails EXCEPT ![t] = emails[t]] /\ repeats' = [repeats EXCEPT ![t] = repeats[t]]
  BY DEF DirectInv, DirectTypeOK
<1> QED BY <1>1, TaskMoves

\* What is known of a task between two steps.
LEMMA TaskIs ==
    ASSUME DirectInv, NEW t \in Sends
    PROVE  /\ tasks[t] \in Task /\ emails[t] \in Nat
           /\ repeats[t] \in SUBSET (Nat \X {"unlogged", "stopped"})
           /\ IsFiniteSet(repeats[t]) /\ Cardinality(repeats[t]) \in Nat
           /\ AttemptOK(tasks[t], emails[t], repeats[t]) /\ NoteOK(tasks[t])
           /\ page \in Places /\ connected \in [Servers -> SUBSET Connections] /\ subscription \in Subscriptions
<1>1. IsFiniteSet(repeats[t])
  BY DEF DirectInv, AttemptsInv, AttemptOK
<1> QED BY <1>1, FS_CardinalityType DEF DirectInv, DirectTypeOK, AttemptsInv, NotesInv

\* A task that only goes on to another place keeps what it sent and whom it reached.
LEMMA GoesOn ==
    ASSUME DirectInv, NEW t \in Sends,
           NEW a \in {"signalled", "lost", "failed", "shown", "answered", "persisted", "logged", "done"},
           tasks' = [tasks EXCEPT ![t].at = a],
           a \in Mailed \/ tasks[t].at \notin Mailed,
           a \in InAttempt => tasks[t].at \in InAttempt,
           a = "shown" => ~for_page(tasks[t].packet),
           a \in {"answered", "persisted", "logged", "done"} =>
               \/ tasks[t].at \in {"shown", "answered", "persisted", "logged"}
               \/ ~for_page(tasks[t].packet),
           a # "failed" => tasks[t].at # "failed",
           UNCHANGED <<emails, repeats, pageVars, postVars>>
    PROVE  DirectInv'
<1> DEFINE k == [tasks[t] EXCEPT !.at = a]
<1>1. /\ tasks[t] \in Task
      /\ AttemptOK(tasks[t], emails[t], repeats[t]) /\ NoteOK(tasks[t])
      /\ emails[t] \in Nat /\ Cardinality(repeats[t]) \in Nat /\ subscription \in Subscriptions
  BY TaskIs
<1>2. /\ k \in Task /\ k.at = a /\ k.packet = tasks[t].packet /\ k.process = tasks[t].process
      /\ k.attempt = tasks[t].attempt /\ k.reached = tasks[t].reached /\ k.seen = tasks[t].seen
  BY <1>1 DEF Task, InAttempt
<1>3. tasks' = [tasks EXCEPT ![t] = k]
  OBVIOUS
<1> HIDE DEF k
<1>4. AttemptOK(k, emails[t], repeats[t])
  BY <1>1, <1>2 DEF AttemptOK, Mailed, InAttempt
<1>5. NoteOK(k)
  BY <1>1, <1>2 DEF NoteOK, Heard
<1>6. subscription' \in Subscriptions /\ UNCHANGED <<page, connected, postVars>>
  BY <1>1 DEF pageVars
<1> QED BY <1>2, <1>3, <1>4, <1>5, <1>6, OnlyTaskMoves, PostsStay

-----------------------------------------------------------------------------
(* Sending. *)

\* A new task has no attempt yet.
LEMMA TaskIsSent ==
    ASSUME DirectInv, NEW t \in Sends, NEW packet \in Packets, NEW p \in Servers, send_task(t, packet, p)
    PROVE  DirectInv'
<1> DEFINE k == [tasks[t] EXCEPT !.at = "asked", !.packet = packet, !.process = p]
<1>1. /\ tasks[t] \in Task /\ AttemptOK(tasks[t], emails[t], repeats[t])
      /\ subscription \in Subscriptions
  BY TaskIs
<1>2. tasks[t].at = "new" /\ UNCHANGED <<emails, repeats, pageVars, postVars>>
  BY DEF send_task
<1>3. k \in Task /\ k.at = "asked" /\ k.attempt = tasks[t].attempt
  BY <1>1 DEF Task
<1>4. tasks' = [tasks EXCEPT ![t] = k]
  BY DEF send_task
<1> HIDE DEF k
<1>5. AttemptOK(k, emails[t], repeats[t]) /\ NoteOK(k)
  BY <1>1, <1>2, <1>3 DEF AttemptOK, NoteOK, Heard, Mailed, InAttempt
<1> QED BY <1>1, <1>2, <1>3, <1>4, <1>5, OnlyTaskMoves, PostsStay DEF pageVars

\* A task that was never tried has no e-mail, no repeat and no attempt; it is
\* queued for the first one.
LEMMA TaskIsQueued ==
    ASSUME DirectInv, NEW t \in Sends,
           NEW packet \in Packets \cup {NoPacket, client_comment_letter, advisor_comment_letter},
           tasks[t].at \in {"new", "asked"}, tasks' = Queued(t, packet),
           UNCHANGED <<emails, repeats, pageVars>>, PostsOK'
    PROVE  DirectInv'
<1> DEFINE k == [tasks[t] EXCEPT !.at = "queued", !.packet = packet, !.attempt = 1]
<1>1. /\ tasks[t] \in Task /\ AttemptOK(tasks[t], emails[t], repeats[t])
      /\ subscription \in Subscriptions
  BY TaskIs
<1>2. k \in Task /\ k.at = "queued" /\ k.attempt = 1
  BY <1>1 DEF Task
<1>3. tasks' = [tasks EXCEPT ![t] = k]
  BY DEF Queued
<1> HIDE DEF k
<1>4. AttemptOK(k, emails[t], repeats[t]) /\ NoteOK(k)
  BY <1>1, <1>2 DEF AttemptOK, NoteOK, Heard, Mailed, InAttempt
<1> QED BY <1>1, <1>2, <1>3, <1>4, OnlyTaskMoves DEF pageVars

\* The steps of a task up to its first attempt and between two.
LEMMA TaskIsPublished ==
    ASSUME DirectInv, NEW t \in Sends, publish_task(t) \/ PublishFails(t) \/ Reject(t)
    PROVE  DirectInv'
<1>1. tasks[t] \in Task /\ (tasks[t].at \in InAttempt => tasks[t].packet.to \in AgentActivity)
  BY TaskIs DEF AttemptOK
<1>2. CASE publish_task(t)
  <2>1. CASE tasks[t].packet.type \in SignalTypes
    BY <1>2, <2>1, GoesOn DEF publish_task, To, Mailed, InAttempt
  <2>2. CASE tasks[t].packet.type \notin SignalTypes
    BY <1>1, <1>2, <2>2, TaskIsQueued, PostsStay DEF publish_task, Task
  <2> QED BY <2>1, <2>2
<1>3. CASE PublishFails(t)
  BY <1>3, GoesOn DEF PublishFails, To, Mailed, InAttempt
<1>4. CASE Reject(t)
  BY <1>4, GoesOn DEF Reject, To, Mailed, InAttempt
<1> QED BY <1>2, <1>3, <1>4

\* An attempt begins with nothing sent and nothing seen.
LEMMA AttemptStarts ==
    ASSUME DirectInv, NEW t \in Sends, NEW p \in Servers, StartAttempt(t, p)
    PROVE  DirectInv'
<1> DEFINE k == [tasks[t] EXCEPT !.at = "running", !.process = p, !.status = "none", !.reached = {}, !.seen = Unseen]
<1>1. /\ tasks[t] \in Task /\ AttemptOK(tasks[t], emails[t], repeats[t])
      /\ subscription \in Subscriptions
  BY TaskIs
<1>2. tasks[t].at = "queued" /\ tasks[t].packet.to \in AgentActivity /\ UNCHANGED <<emails, repeats, pageVars, postVars>>
  BY DEF StartAttempt
<1>3. Unseen \in [page : Places, known : SUBSET Connections, subscription : Subscriptions, error : BOOLEAN]
  BY DEF Unseen, Places, Subscriptions
<1>4. k \in Task /\ k.at = "running" /\ k.process = p /\ k.attempt = tasks[t].attempt /\ k.packet = tasks[t].packet
  BY <1>1, <1>3 DEF Task, InAttempt
<1>5. tasks' = [tasks EXCEPT ![t] = k]
  BY DEF StartAttempt
<1> HIDE DEF k
<1>6. AttemptOK(k, emails[t], repeats[t]) /\ NoteOK(k)
  BY <1>1, <1>2, <1>4 DEF AttemptOK, NoteOK, Heard, Mailed, InAttempt
<1> QED BY <1>1, <1>2, <1>4, <1>5, <1>6, OnlyTaskMoves, PostsStay DEF pageVars

-----------------------------------------------------------------------------
(* One attempt. *)

\* What an agent answers is a status.
LEMMA AnswersAreStatuses ==
    ASSUME NEW packet, packet.to \in AgentActivity \ {"notification"}
    PROVE  answers(packet) \subseteq {"SUCCESS", "FAILED"}
BY DEF answers, AgentActivity, document_answers, collaboration_answers, contact_answers, customer_answers,
       sales_answers, product_answers, DidOrRaised

\* Another agent's task sends no letter.
LEMMA OtherIsProcessed ==
    ASSUME DirectInv, NEW t \in Sends, ProcessOther(t)
    PROVE  DirectInv'
<1>1. PICK s \in answers(tasks[t].packet) : tasks' = [tasks EXCEPT ![t].at = "answered", ![t].status = s]
  BY DEF ProcessOther
<1> DEFINE k == [tasks[t] EXCEPT !.at = "answered", !.status = s]
<1>2. /\ tasks[t] \in Task /\ AttemptOK(tasks[t], emails[t], repeats[t])
      /\ subscription \in Subscriptions /\ Cardinality(repeats[t]) \in Nat
  BY TaskIs
<1>3. tasks[t].at = "running" /\ tasks[t].packet.to # "notification" /\ UNCHANGED <<emails, repeats, pageVars, postVars>>
  BY DEF ProcessOther
<1>4. s \in {"SUCCESS", "FAILED"}
  BY <1>1, <1>2, <1>3, AnswersAreStatuses DEF AttemptOK, InAttempt
<1>5. /\ k \in Task /\ k.at = "answered" /\ k.attempt = tasks[t].attempt
      /\ k.packet = tasks[t].packet /\ k.process = tasks[t].process
  BY <1>2, <1>4 DEF Task, InAttempt
<1>6. tasks' = [tasks EXCEPT ![t] = k]
  BY <1>1
<1> HIDE DEF k
<1>7. AttemptOK(k, emails[t], repeats[t])
  BY <1>2, <1>3, <1>5, TaskIs DEF AttemptOK, Mailed, InAttempt
<1>8. NoteOK(k)
  BY <1>3, <1>5 DEF NoteOK, Heard, for_page
<1> QED BY <1>2, <1>3, <1>5, <1>6, <1>7, <1>8, OnlyTaskMoves, PostsStay DEF pageVars

\* An attempt sends at most one e-mail.
LEMMA LetterIsDispatched ==
    ASSUME DirectInv, NEW t \in Sends, Deliver(t)
    PROVE  DirectInv'
<1>1. PICK answer \in send_email(tasks[t].packet) :
        /\ emails' = [emails EXCEPT ![t] = @ + answer[2]]
        /\ tasks' = [tasks EXCEPT ![t].at = "sent", ![t].status = "SUCCESS"]
  BY DEF Deliver
<1> DEFINE k == [tasks[t] EXCEPT !.at = "sent", !.status = "SUCCESS"]
<1>2. /\ tasks[t] \in Task /\ AttemptOK(tasks[t], emails[t], repeats[t]) /\ emails[t] \in Nat
      /\ repeats[t] \in SUBSET (Nat \X {"unlogged", "stopped"})
      /\ subscription \in Subscriptions /\ Cardinality(repeats[t]) \in Nat
  BY TaskIs
<1>3. tasks[t].at = "running" /\ UNCHANGED <<repeats, pageVars, postVars>>
  BY DEF Deliver
<1>4. answer[2] \in {0, 1}
  BY <1>1 DEF send_email, provider_answers
<1>5. /\ k \in Task /\ k.at = "sent" /\ k.attempt = tasks[t].attempt
      /\ k.packet = tasks[t].packet /\ k.process = tasks[t].process
  BY <1>2 DEF Task, InAttempt
<1>6. tasks' = [tasks EXCEPT ![t] = k]
  BY <1>1
<1> DEFINE m == emails[t] + answer[2]
<1>7. m \in Nat /\ m <= emails[t] + 1 /\ emails' = [emails EXCEPT ![t] = m]
  BY <1>1, <1>2, <1>4
<1>8. repeats' = [repeats EXCEPT ![t] = repeats[t]]
  BY <1>3 DEF DirectInv, DirectTypeOK
<1> HIDE DEF k, m
<1>9. AttemptOK(k, m, repeats[t])
  BY <1>2, <1>3, <1>5, <1>7 DEF AttemptOK, Mailed, InAttempt
<1>10. NoteOK(k)
  BY <1>5 DEF NoteOK, Heard
<1>11. subscription' \in Subscriptions /\ UNCHANGED <<page, connected, postVars>>
  BY <1>2, <1>3 DEF pageVars
<1> QED BY <1>2, <1>5, <1>6, <1>7, <1>8, <1>9, <1>10, <1>11, TaskMoves, PostsStay

\* A note the sockets of the process do not take was for a page elsewhere.
LEMMA NoteIsEmitted ==
    ASSUME DirectInv, NEW t \in Sends, Emit(t)
    PROVE  DirectInv'
<1>1. tasks[t].at = "sent" /\ UNCHANGED <<emails, repeats, pageVars, postVars>>
  BY DEF Emit
<1>2. CASE ~for_page(tasks[t].packet)
  BY <1>1, <1>2, GoesOn DEF Emit, To, Mailed, InAttempt
<1>3. CASE for_page(tasks[t].packet)
  <2> DEFINE took == IF page = tasks[t].process THEN {"socket"} ELSE {}
             k == [tasks[t] EXCEPT !.at = "emitted", !.seen.page = page, !.reached = took]
  <2>1. /\ tasks[t] \in Task /\ AttemptOK(tasks[t], emails[t], repeats[t])
        /\ subscription \in Subscriptions /\ page \in Places
    BY TaskIs
  <2>2. /\ k \in Task /\ k.at = "emitted" /\ k.attempt = tasks[t].attempt /\ k.packet = tasks[t].packet
        /\ k.reached = took /\ k.seen.page = page /\ k.process = tasks[t].process
    <3>1. took \in SUBSET {"socket", "push"}
      OBVIOUS
    <3> HIDE DEF took
    <3> QED BY <2>1, <3>1 DEF Task, InAttempt
  <2>3. tasks' = [tasks EXCEPT ![t] = k]
    BY <1>3 DEF Emit
  <2> HIDE DEF k
  <2>4. AttemptOK(k, emails[t], repeats[t])
    BY <1>1, <2>1, <2>2 DEF AttemptOK, Mailed, InAttempt
  <2>5. NoteOK(k)
    BY <2>2 DEF NoteOK, Heard
  <2> QED BY <1>1, <2>1, <2>2, <2>3, <2>4, <2>5, OnlyTaskMoves, PostsStay DEF pageVars
<1> QED BY <1>2, <1>3

\* A push is left out only when the process counts a connection: a dead one, or
\* one the page made since; and a push that fails is seen to fail.
LEMMA NoteIsPushed ==
    ASSUME DirectInv, NEW t \in Sends, Push(t)
    PROVE  DirectInv'
<1> DEFINE p == tasks[t].process
<1>1. tasks[t].at = "emitted" /\ UNCHANGED <<emails, repeats, page, connected, postVars>>
  BY DEF Push
<1>2. PICK sent \in IF has_active_socket(p) THEN {Pushed("none")} ELSE send_push_to_user :
        /\ tasks' = [tasks EXCEPT ![t].at = "shown", ![t].reached = @ \cup sent.reached,
                        ![t].seen.known = connected[p], ![t].seen.subscription = subscription,
                        ![t].seen.error = sent.error]
        /\ subscription' = sent.subscription
  BY DEF Push
<1>3. /\ tasks[t] \in Task /\ AttemptOK(tasks[t], emails[t], repeats[t]) /\ NoteOK(tasks[t])
      /\ subscription \in Subscriptions /\ connected \in [Servers -> SUBSET Connections] /\ page \in Places
  BY TaskIs
<1>4. /\ sent.reached \in SUBSET {"push"} /\ sent.error \in BOOLEAN /\ sent.subscription \in Subscriptions
      /\ ~has_active_socket(p) /\ subscription = "good" => sent.reached # {} \/ sent.error
  <2>1. PICK a \in {"none", "taken", "gone", "error"} :
          sent = Pushed(a) /\ (~has_active_socket(p) /\ subscription = "good" => a \in {"taken", "error"})
    BY <1>2 DEF send_push_to_user, send_push
  <2>2. /\ sent.reached = IF a = "taken" THEN {"push"} ELSE {}
        /\ sent.error = (a = "error")
        /\ sent.subscription = IF a = "gone" THEN "none" ELSE subscription
    BY <2>1 DEF Pushed
  <2> QED BY <1>3, <2>1, <2>2 DEF Subscriptions
<1>5. p \in Servers /\ connected[p] \in SUBSET Connections
  BY <1>1, <1>3 DEF AttemptOK, InAttempt
<1> DEFINE now == tasks[t].reached \cup sent.reached
           k == [tasks[t] EXCEPT !.at = "shown", !.reached = now, !.seen.known = connected[p],
                                 !.seen.subscription = subscription, !.seen.error = sent.error]
<1>6. /\ k \in Task /\ k.at = "shown" /\ k.attempt = tasks[t].attempt /\ k.packet = tasks[t].packet
      /\ k.reached = now /\ k.process = p /\ k.seen.page = tasks[t].seen.page
      /\ k.seen.known = connected[p] /\ k.seen.subscription = subscription /\ k.seen.error = sent.error
  <2>1. now \in SUBSET {"socket", "push"}
    BY <1>3, <1>4 DEF Task
  <2> HIDE DEF now
  <2> QED BY <1>3, <1>4, <1>5, <2>1 DEF Task, InAttempt
<1>7. tasks' = [tasks EXCEPT ![t] = k]
  BY <1>2, ZenonT(20)
<1>8. now = {} => tasks[t].reached = {} /\ sent.reached = {}
  OBVIOUS
<1> HIDE DEF k, now
<1>9. AttemptOK(k, emails[t], repeats[t])
  BY <1>1, <1>3, <1>6 DEF AttemptOK, Mailed, InAttempt
<1>10. NoteOK(k)
  <2>1. ASSUME now = {}, subscription = "good", ~sent.error PROVE connected[p] # {} /\ tasks[t].seen.page # p
    BY <1>1, <1>3, <1>4, <1>8, <2>1 DEF NoteOK, has_active_socket
  <2>2. connected[p] # {} => "gone" \in connected[p] \/ "live" \in connected[p]
    BY <1>5 DEF Connections
  <2> QED BY <1>6, <2>1, <2>2 DEF NoteOK, Heard
<1> QED BY <1>1, <1>2, <1>4, <1>6, <1>7, <1>9, <1>10, OnlyTaskMoves, PostsStay

\* The rest of an attempt, and an attempt the audit log fails.
LEMMA AttemptIsRecorded ==
    ASSUME DirectInv, NEW t \in Sends, SaveToDb(t) \/ PersistAgentTask(t) \/ LogCompleted(t) \/ Complete(t)
    PROVE  DirectInv'
<1>1. CASE SaveToDb(t)
  BY <1>1, GoesOn DEF SaveToDb, To, Mailed, InAttempt
<1>2. CASE PersistAgentTask(t)
  <2>1. tasks[t].at = "answered" /\ To(t, "persisted") /\ UNCHANGED <<emails, repeats, pageVars, postVars>>
    BY <1>2 DEF PersistAgentTask
  <2> QED BY <2>1, GoesOn DEF To, Mailed, InAttempt
<1>3. CASE LogCompleted(t)
  BY <1>3, GoesOn DEF LogCompleted, To, Mailed, InAttempt
<1>4. CASE Complete(t)
  BY <1>4, GoesOn DEF Complete, To, Mailed, InAttempt
<1> QED BY <1>1, <1>2, <1>3, <1>4

-----------------------------------------------------------------------------
(* Attempts that are repeated. *)

\* An attempt that is cut short counts once more, and its e-mail is accounted for.
LEMMA RepeatedOK ==
    ASSUME NEW k \in Task, k.at \in InAttempt, NEW m \in Nat,
           NEW cut \in SUBSET (Nat \X {"unlogged", "stopped"}), AttemptOK(k, m, cut),
           NEW why \in {"unlogged", "stopped"}
    PROVE  /\ Repeated(k) \in Task
           /\ cut \cup {<<k.attempt, why>>} \in SUBSET (Nat \X {"unlogged", "stopped"})
           /\ AttemptOK(Repeated(k), m, cut \cup {<<k.attempt, why>>})
           /\ NoteOK(Repeated(k))
<1> DEFINE again == cut \cup {<<k.attempt, why>>}
<1>1. k.attempt \in Nat
  BY DEF Task
<1>2. /\ Repeated(k) \in Task
      /\ \/ Repeated(k).at = "failed"
         \/ Repeated(k).at = "queued" /\ Repeated(k).attempt = k.attempt + 1
  <2>1. CASE k.attempt = DirectAttempts
    BY <2>1 DEF Repeated, Task
  <2>2. CASE k.attempt # DirectAttempts
    <3>1. Repeated(k) = [k EXCEPT !.at = "queued", !.attempt = k.attempt + 1]
      BY <2>2 DEF Repeated
    <3>2. ASSUME NEW n \in Nat
          PROVE  LET q == [k EXCEPT !.at = "queued", !.attempt = n]
                 IN  q \in Task /\ q.at = "queued" /\ q.attempt = n
      BY DEF Task
    <3>3. k.attempt + 1 \in Nat
      BY <1>1
    <3> QED BY <3>1, <3>2, <3>3
  <2> QED BY <2>1, <2>2
<1>3. again \in SUBSET (Nat \X {"unlogged", "stopped"})
  BY <1>1
<1>4. IsFiniteSet(cut) /\ \A r \in cut : r[1] < k.attempt
  BY DEF AttemptOK, InAttempt
<1>5. <<k.attempt, why>> \notin cut
  <2>1. ASSUME <<k.attempt, why>> \in cut PROVE FALSE
    <3>1. k.attempt < k.attempt
      BY <1>4, <2>1
    <3> QED BY <1>1, <3>1
  <2> QED BY <2>1
<1>6. IsFiniteSet(again) /\ Cardinality(again) = Cardinality(cut) + 1 /\ Cardinality(cut) \in Nat
  BY <1>4, <1>5, FS_AddElement, FS_CardinalityType
<1>7. m <= Cardinality(again) + (IF Repeated(k).at \in Mailed THEN 1 ELSE 0)
  <2>1. m <= Cardinality(cut) + 1
    BY <1>6 DEF AttemptOK
  <2>2. Repeated(k).at \notin Mailed
    BY <1>2 DEF Mailed
  <2> QED BY <1>6, <2>1, <2>2
<1>8. Repeated(k).at # "failed" => \A r \in again : r[1] < Repeated(k).attempt
  <2> SUFFICES ASSUME Repeated(k).at # "failed", NEW r \in again PROVE r[1] < Repeated(k).attempt
    OBVIOUS
  <2>1. r[1] \in Nat
    BY <1>3
  <2>2. r[1] <= k.attempt
    BY <1>1, <1>4, <2>1
  <2> QED BY <1>1, <1>2, <2>1, <2>2
<1> HIDE DEF again
<1>9. AttemptOK(Repeated(k), m, again)
  BY <1>2, <1>6, <1>7, <1>8 DEF AttemptOK, InAttempt
<1>10. NoteOK(Repeated(k))
  BY <1>2 DEF NoteOK, Heard
<1> QED BY <1>2, <1>3, <1>9, <1>10 DEF again

\* The audit log fails: the attempt is made again.
LEMMA UnloggedIsRepeated ==
    ASSUME DirectInv, NEW t \in Sends, LogFails(t)
    PROVE  DirectInv'
<1> DEFINE k == tasks[t]
           r == repeats[t] \cup {<<k.attempt, "unlogged">>}
<1>1. /\ k \in Task /\ emails[t] \in Nat /\ repeats[t] \in SUBSET (Nat \X {"unlogged", "stopped"})
      /\ AttemptOK(k, emails[t], repeats[t]) /\ subscription \in Subscriptions
  BY TaskIs
<1>2. /\ k.at = "persisted" /\ UNCHANGED <<emails, pageVars, postVars>>
      /\ tasks' = [tasks EXCEPT ![t] = Repeated(k)] /\ repeats' = [repeats EXCEPT ![t] = r]
  BY DEF LogFails
<1>3. /\ Repeated(k) \in Task /\ r \in SUBSET (Nat \X {"unlogged", "stopped"})
      /\ AttemptOK(Repeated(k), emails[t], r) /\ NoteOK(Repeated(k))
  <2>1. k.at \in InAttempt
    BY <1>2 DEF InAttempt
  <2> HIDE DEF k
  <2> QED BY <1>1, <2>1, RepeatedOK
<1>4. emails' = [emails EXCEPT ![t] = emails[t]]
  BY <1>2 DEF DirectInv, DirectTypeOK
<1>5. subscription' \in Subscriptions /\ UNCHANGED <<page, connected, postVars>>
  BY <1>1, <1>2 DEF pageVars
<1> HIDE DEF r
<1> QED BY <1>1, <1>2, <1>3, <1>4, <1>5, TaskMoves, PostsStay

\* A process that stops repeats its attempts and loses what it was asked to send.
LEMMA AttemptsAreCut ==
    ASSUME DirectInv, NEW p \in Servers, ProcessStops(p)
    PROVE  DirectInv'
<1> DEFINE Cut == {t \in Sends : tasks[t].process = p /\ tasks[t].at \in InAttempt}
           Lost == {t \in Sends : tasks[t].process = p /\ tasks[t].at = "asked"}
<1>1. /\ tasks' = [t \in Sends |-> IF t \in Cut THEN Repeated(tasks[t])
                                 ELSE IF t \in Lost THEN [tasks[t] EXCEPT !.at = "lost"] ELSE tasks[t]]
      /\ repeats' = [t \in Sends |-> IF t \in Cut THEN repeats[t] \cup {<<tasks[t].attempt, "stopped">>}
                                   ELSE repeats[t]]
      /\ connected' = [connected EXCEPT ![p] = {}]
      /\ page' = IF page = p THEN "away" ELSE page
      /\ UNCHANGED <<emails, subscription, postVars>>
  BY DEF ProcessStops
<1>2. ASSUME NEW t \in Sends
      PROVE  /\ tasks'[t] \in Task /\ repeats'[t] \in SUBSET (Nat \X {"unlogged", "stopped"})
             /\ AttemptOK(tasks'[t], emails[t], repeats'[t]) /\ NoteOK(tasks'[t])
  <2>1. /\ tasks[t] \in Task /\ emails[t] \in Nat /\ repeats[t] \in SUBSET (Nat \X {"unlogged", "stopped"})
        /\ AttemptOK(tasks[t], emails[t], repeats[t]) /\ NoteOK(tasks[t])
    BY TaskIs
  <2>2. CASE t \in Cut
    <3>1. tasks'[t] = Repeated(tasks[t]) /\ repeats'[t] = repeats[t] \cup {<<tasks[t].attempt, "stopped">>}
      BY <1>1, <2>2
    <3>2. tasks[t].at \in InAttempt
      BY <2>2
    <3> HIDE DEF Cut, Lost
    <3>3. /\ Repeated(tasks[t]) \in Task
          /\ repeats[t] \cup {<<tasks[t].attempt, "stopped">>} \in SUBSET (Nat \X {"unlogged", "stopped"})
          /\ AttemptOK(Repeated(tasks[t]), emails[t], repeats[t] \cup {<<tasks[t].attempt, "stopped">>})
          /\ NoteOK(Repeated(tasks[t]))
      BY <2>1, <3>2, RepeatedOK
    <3> QED BY <3>1, <3>3
  <2>3. CASE t \notin Cut /\ t \in Lost
    <3> DEFINE k == [tasks[t] EXCEPT !.at = "lost"]
    <3>1. tasks'[t] = k /\ repeats'[t] = repeats[t] /\ tasks[t].at = "asked"
      BY <1>1, <2>3
    <3>2. k \in Task /\ k.at = "lost" /\ k.attempt = tasks[t].attempt
      BY <2>1 DEF Task
    <3> HIDE DEF k
    <3>3. AttemptOK(k, emails[t], repeats[t]) /\ NoteOK(k)
      BY <2>1, <3>1, <3>2 DEF AttemptOK, NoteOK, Heard, Mailed, InAttempt
    <3> QED BY <2>1, <3>1, <3>2, <3>3
  <2>4. CASE t \notin Cut /\ t \notin Lost
    <3>1. tasks'[t] = tasks[t] /\ repeats'[t] = repeats[t]
      BY <1>1, <2>4
    <3> QED BY <2>1, <3>1
  <2> QED BY <2>2, <2>3, <2>4
<1> HIDE DEF Cut, Lost
<1>3. DirectTypeOK'
  <2>1. tasks' \in [Sends -> Task] /\ repeats' \in [Sends -> SUBSET (Nat \X {"unlogged", "stopped"})]
    BY <1>1, <1>2
  <2> QED BY <1>1, <2>1 DEF DirectInv, DirectTypeOK, Places, Connections, postVars
<1>4. AttemptsInv'
  BY <1>1, <1>2 DEF AttemptsInv, AttemptOK
<1>5. NotesInv'
  BY <1>2 DEF NotesInv, NoteOK, Heard
<1>6. RoomsInv'
  BY <1>1 DEF DirectInv, RoomsInv, OneRoomUnlessOverlap, Overlap, postVars
<1> QED BY <1>3, <1>4, <1>5, <1>6 DEF DirectInv

-----------------------------------------------------------------------------
(* The page. *)

\* What the page does changes no task, no note and no room.
LEMMA PageKept ==
    ASSUME DirectInv, UNCHANGED <<taskVars, postVars>>,
           page' \in Places, connected' \in [Servers -> SUBSET Connections], subscription' \in Subscriptions
    PROVE  DirectInv'
<1>1. DirectTypeOK'
  BY DEF DirectInv, DirectTypeOK, taskVars, postVars
<1>2. AttemptsInv'
  BY DEF DirectInv, AttemptsInv, AttemptOK, taskVars
<1>3. NotesInv'
  BY DEF DirectInv, NotesInv, NoteOK, Heard, taskVars
<1>4. RoomsInv'
  BY DEF DirectInv, RoomsInv, OneRoomUnlessOverlap, Overlap, postVars
<1> QED BY <1>1, <1>2, <1>3, <1>4 DEF DirectInv

\* Whatever the page does.
LEMMA PageSteps ==
    ASSUME DirectInv, PageStep
    PROVE  DirectInv'
<1>1. page \in Places /\ connected \in [Servers -> SUBSET Connections] /\ subscription \in Subscriptions
  BY DEF DirectInv, DirectTypeOK
<1> USE DEF Places, Connections, Subscriptions
<1>2. CASE disconnect
  BY <1>1, <1>2, PageKept DEF disconnect
<1>3. CASE Vanish
  BY <1>1, <1>3, PageKept DEF Vanish
<1>4. CASE subscribe
  BY <1>1, <1>4, PageKept DEF subscribe
<1>5. CASE unsubscribe
  BY <1>1, <1>5, PageKept DEF unsubscribe
<1>6. CASE Expire
  BY <1>1, <1>6, PageKept DEF Expire
<1>7. ASSUME NEW p \in Servers, connect(p) PROVE DirectInv'
  BY <1>1, <1>7, PageKept DEF connect
<1>8. ASSUME NEW p \in Servers, TimesOut(p) PROVE DirectInv'
  BY <1>1, <1>8, PageKept DEF TimesOut
<1>9. ASSUME NEW p \in Servers, ProcessStops(p) PROVE DirectInv'
  BY <1>9, AttemptsAreCut
<1> QED BY <1>2, <1>3, <1>4, <1>5, <1>6, <1>7, <1>8, <1>9 DEF PageStep

-----------------------------------------------------------------------------
(* The comments. *)

\* What a post does to no task and not to the page.
LEMMA PostKept ==
    ASSUME DirectInv, UNCHANGED <<taskVars, pageVars>>, rooms' \in SUBSET Posts, posts' \in [Posts -> Post], RoomsInv'
    PROVE  DirectInv'
<1>1. DirectTypeOK'
  BY DEF DirectInv, DirectTypeOK, taskVars, pageVars
<1>2. AttemptsInv'
  BY DEF DirectInv, AttemptsInv, AttemptOK, taskVars
<1>3. NotesInv'
  BY DEF DirectInv, NotesInv, NoteOK, Heard, taskVars
<1> QED BY <1>1, <1>2, <1>3 DEF DirectInv

\* A post that looks for a room knows of every one that looked before it.
LEMMA RoomIsLoaded ==
    ASSUME DirectInv, NEW c \in Posts, LoadRoom(c)
    PROVE  DirectInv'
<1>1. PICK of_client \in BOOLEAN, visible \in BOOLEAN, room \in IF open_rooms = {} THEN {c} ELSE open_rooms :
         posts' = [posts EXCEPT ![c] =
            [at |-> "loaded", room |-> {room}, of_client |-> of_client, visible |-> visible,
             met |-> {d \in Posts : posts[d].at = "loaded"}]]
  BY DEF LoadRoom
<1>2. posts[c].at = "new" /\ UNCHANGED <<taskVars, pageVars, rooms>>
  BY DEF LoadRoom
<1>3. RoomsInv /\ rooms \in SUBSET Posts /\ posts \in [Posts -> Post]
  BY DEF DirectInv, DirectTypeOK
<1> DEFINE new == [at |-> "loaded", room |-> {room}, of_client |-> of_client, visible |-> visible,
                   met |-> {d \in Posts : posts[d].at = "loaded"}]
<1>4. new \in Post /\ new.at = "loaded" /\ new.room = {room} /\ new.met = {d \in Posts : posts[d].at = "loaded"}
  BY <1>1, <1>3 DEF Post, open_rooms
<1>5. posts' = [posts EXCEPT ![c] = new]
  BY <1>1
<1> HIDE DEF new
<1>6. posts' \in [Posts -> Post] /\ posts'[c] = new /\ \A d \in Posts \ {c} : posts'[d] = posts[d]
  BY <1>3, <1>4, <1>5
<1>7. c \notin rooms /\ (rooms # {} => room \in rooms)
  BY <1>1, <1>2, <1>3 DEF RoomsInv, open_rooms
<1>8. ASSUME NEW b \in rooms, NEW d \in rooms PROVE b = d \/ Overlap(b, d)'
  BY <1>2, <1>3, <1>6, <1>7 DEF RoomsInv, OneRoomUnlessOverlap, Overlap
<1>9. ASSUME NEW b \in Posts, NEW d \in Posts, posts'[b].at = "loaded", posts'[d].at = "loaded"
      PROVE  b = d \/ Overlap(b, d)'
  <2>1. CASE b # c /\ d # c
    BY <1>3, <1>6, <1>9, <2>1 DEF RoomsInv, Overlap
  <2>2. CASE b = c /\ d # c
    BY <1>4, <1>6, <1>9, <2>2 DEF Overlap
  <2>3. CASE b # c /\ d = c
    BY <1>4, <1>6, <1>9, <2>3 DEF Overlap
  <2> QED BY <2>1, <2>2, <2>3
<1>10. ASSUME NEW b \in Posts, posts'[b].at = "loaded", b \in posts'[b].room, NEW d \in rooms
       PROVE  Overlap(b, d)'
  <2>1. b # c
    BY <1>4, <1>6, <1>7, <1>10
  <2> QED BY <1>3, <1>6, <1>7, <1>10, <2>1 DEF RoomsInv, Overlap
<1>11. \A d \in rooms : posts'[d].at # "new"
  BY <1>3, <1>6, <1>7 DEF RoomsInv
<1>12. RoomsInv'
  BY <1>2, <1>8, <1>9, <1>10, <1>11 DEF RoomsInv, OneRoomUnlessOverlap, Overlap
<1> QED BY <1>2, <1>3, <1>6, <1>12, PostKept

\* A post that goes on from its comment no longer waits to make a room.
LEMMA PostGoesOn ==
    ASSUME DirectInv, NEW c \in Posts, posts[c].at # "new",
           NEW a \in {"committed", "advisor", "done", "lost"}, posts' = [posts EXCEPT ![c].at = a]
    PROVE  /\ posts' \in [Posts -> Post]
           /\ \A d \in Posts : posts'[d].met = posts[d].met /\ posts'[d].room = posts[d].room
           /\ posts'[c].at = a /\ \A d \in Posts \ {c} : posts'[d].at = posts[d].at
           /\ UNCHANGED rooms => RoomsInv'
<1>1. RoomsInv /\ rooms \in SUBSET Posts /\ posts \in [Posts -> Post]
  BY DEF DirectInv, DirectTypeOK
<1>2. posts[c] \in Post /\ posts' = [posts EXCEPT ![c] = [posts[c] EXCEPT !.at = a]]
  BY <1>1
<1> DEFINE k == [posts[c] EXCEPT !.at = a]
<1>3. k \in Post /\ k.at = a /\ k.met = posts[c].met /\ k.room = posts[c].room
  BY <1>2 DEF Post
<1> HIDE DEF k
<1>4. posts' = [posts EXCEPT ![c] = k]
  BY <1>2 DEF k
<1>5. posts' \in [Posts -> Post] /\ posts'[c] = k /\ \A d \in Posts \ {c} : posts'[d] = posts[d]
  BY <1>1, <1>3, <1>4
<1>6. \A d \in Posts : posts'[d].met = posts[d].met /\ posts'[d].room = posts[d].room
  BY <1>3, <1>5
<1>7. UNCHANGED rooms => RoomsInv'
  <2> SUFFICES ASSUME UNCHANGED rooms PROVE RoomsInv'
    OBVIOUS
  <2>1. \A b, d \in Posts : Overlap(b, d)' <=> Overlap(b, d)
    BY <1>6 DEF Overlap
  <2>2. \A d \in Posts : (posts'[d].at = "loaded" => posts[d].at = "loaded") /\ (posts'[d].at = "new" => posts[d].at = "new")
    BY <1>3, <1>5
  <2>3. OneRoomUnlessOverlap'
    BY <1>1, <1>6 DEF RoomsInv, OneRoomUnlessOverlap
  <2>4. \A b, d \in Posts : posts'[b].at = "loaded" /\ posts'[d].at = "loaded" => b = d \/ Overlap(b, d)'
    BY <1>1, <2>1, <2>2 DEF RoomsInv
  <2>5. \A b \in Posts : posts'[b].at = "loaded" /\ b \in posts'[b].room => \A d \in rooms : Overlap(b, d)'
    BY <1>1, <1>6, <2>1, <2>2 DEF RoomsInv
  <2>6. \A d \in rooms : posts'[d].at # "new"
    BY <1>1, <2>2 DEF RoomsInv
  <2> QED BY <2>3, <2>4, <2>5, <2>6 DEF RoomsInv, Overlap
<1> QED BY <1>3, <1>5, <1>6, <1>7

\* A post that makes a room overlaps every post that made one since it looked.
LEMMA CommentIsAdded ==
    ASSUME DirectInv, NEW c \in Posts, add_comment(c)
    PROVE  DirectInv'
<1>1. /\ posts[c].at = "loaded" /\ posts' = [posts EXCEPT ![c].at = "committed"]
      /\ rooms' = rooms \cup (posts[c].room \cap {c}) /\ UNCHANGED <<taskVars, pageVars>>
  BY DEF add_comment
<1>2. /\ posts' \in [Posts -> Post]
      /\ \A d \in Posts : posts'[d].met = posts[d].met /\ posts'[d].room = posts[d].room
      /\ posts'[c].at = "committed" /\ \A d \in Posts \ {c} : posts'[d].at = posts[d].at
  BY <1>1, PostGoesOn
<1>3. RoomsInv /\ rooms \in SUBSET Posts
  BY DEF DirectInv, DirectTypeOK
<1>4. \A b, d \in Posts : Overlap(b, d)' <=> Overlap(b, d)
  BY <1>2 DEF Overlap
<1>5. rooms' \in SUBSET Posts /\ \A d \in rooms' : d \in rooms \/ (d = c /\ c \in posts[c].room)
  BY <1>1, <1>3
<1>6. \A b, d \in Posts : Overlap(b, d) => Overlap(d, b)
  BY DEF Overlap
<1>7. ASSUME NEW b \in rooms', NEW d \in rooms' PROVE b = d \/ Overlap(b, d)
  <2>1. CASE b \in rooms /\ d \in rooms
    BY <1>3, <2>1 DEF RoomsInv, OneRoomUnlessOverlap, Overlap
  <2>2. CASE b = c /\ c \in posts[c].room /\ d \in rooms
    BY <1>1, <1>3, <2>2 DEF RoomsInv
  <2>3. CASE d = c /\ c \in posts[c].room /\ b \in rooms
    BY <1>1, <1>3, <1>6, <2>3 DEF RoomsInv
  <2> QED BY <1>5, <2>1, <2>2, <2>3
<1>8. \A d \in Posts : posts'[d].at = "loaded" => posts[d].at = "loaded" /\ d # c
  BY <1>2
<1>9. ASSUME NEW b \in Posts, posts'[b].at = "loaded", b \in posts'[b].room, NEW d \in rooms'
      PROVE  Overlap(b, d)
  <2>1. posts[b].at = "loaded" /\ b \in posts[b].room /\ b # c
    BY <1>2, <1>8, <1>9
  <2>2. CASE d \in rooms
    BY <1>3, <2>1, <2>2 DEF RoomsInv
  <2>3. CASE d = c
    BY <1>1, <1>3, <2>1, <2>3 DEF RoomsInv
  <2> QED BY <1>5, <2>2, <2>3
<1>10. \A d \in rooms' : posts'[d].at # "new"
  BY <1>2, <1>3, <1>5 DEF RoomsInv
<1>11. OneRoomUnlessOverlap'
  BY <1>4, <1>5, <1>7 DEF OneRoomUnlessOverlap, Overlap
<1>12. \A b, d \in Posts : posts'[b].at = "loaded" /\ posts'[d].at = "loaded" => b = d \/ Overlap(b, d)'
  BY <1>3, <1>4, <1>8 DEF RoomsInv
<1>13. \A b \in Posts : posts'[b].at = "loaded" /\ b \in posts'[b].room => \A d \in rooms' : Overlap(b, d)'
  BY <1>4, <1>5, <1>9
<1>14. RoomsInv'
  BY <1>10, <1>11, <1>12, <1>13 DEF RoomsInv, Overlap
<1> QED BY <1>1, <1>2, <1>5, <1>14, PostKept

\* A post that is lost, or sends its notices, makes no room.
LEMMA PostIsOver ==
    ASSUME DirectInv, NEW c \in Posts, LosePost(c) \/ NotifyClient(c) \/ NotifyAdvisor(c)
    PROVE  DirectInv'
<1>1. PICK a \in {"advisor", "done", "lost"} :
        posts[c].at # "new" /\ posts' = [posts EXCEPT ![c].at = a] /\ UNCHANGED <<rooms, pageVars>>
  BY DEF LosePost, NotifyClient, NotifyAdvisor
<1>2. PostsOK' /\ rooms' \in SUBSET Posts /\ posts' \in [Posts -> Post] /\ RoomsInv'
  <2>1. posts' \in [Posts -> Post] /\ RoomsInv'
    BY <1>1, PostGoesOn
  <2> QED BY <1>1, <2>1 DEF PostsOK, DirectInv, DirectTypeOK
<1>3. CASE UNCHANGED taskVars
  BY <1>1, <1>2, <1>3, PostKept
<1>4. ASSUME NEW t \in Sends, tasks[t].at = "new", UNCHANGED <<emails, repeats>>,
             NEW packet \in {client_comment_letter, advisor_comment_letter}, tasks' = Queued(t, packet)
      PROVE  DirectInv'
  BY <1>1, <1>2, <1>4, TaskIsQueued
<1>5. CASE LosePost(c)
  BY <1>3, <1>5 DEF LosePost
<1>6. CASE NotifyClient(c)
  BY <1>3, <1>4, <1>6 DEF NotifyClient, taskVars
<1>7. CASE NotifyAdvisor(c)
  BY <1>3, <1>4, <1>7 DEF NotifyAdvisor, taskVars
<1> QED BY <1>5, <1>6, <1>7

-----------------------------------------------------------------------------
(* The whole. *)

\* Nothing is sent, seen or posted at the start.
LEMMA DirectStarts == DirectInit => DirectInv
<1> SUFFICES ASSUME DirectInit PROVE DirectInv
  OBVIOUS
<1> USE DEF DirectInit
<1>1. Unsent \in Task
  BY DEF Unsent, Unseen, Task, Places, Subscriptions
<1>2. NoPost \in Post
  BY DEF NoPost, Post
<1>3. DirectTypeOK
  BY <1>1, <1>2 DEF DirectTypeOK, Places, Subscriptions
<1>4. AttemptsInv
  BY FS_EmptySet DEF AttemptsInv, AttemptOK, Unsent, Mailed, InAttempt
<1>5. NotesInv
  BY DEF NotesInv, NoteOK, Heard, Unsent
<1>6. RoomsInv
  BY DEF RoomsInv, OneRoomUnlessOverlap, NoPost
<1> QED BY <1>3, <1>4, <1>5, <1>6 DEF DirectInv

\* Every step keeps the invariant.
LEMMA DirectKept == DirectInv /\ [DirectNext]_directVars => DirectInv'
<1> SUFFICES ASSUME DirectInv, [DirectNext]_directVars PROVE DirectInv'
  OBVIOUS
<1>1. ASSUME NEW t \in Sends, SendStep(t) PROVE DirectInv'
  <2>1. ASSUME NEW packet \in Packets, NEW p \in Servers, send_task(t, packet, p) PROVE DirectInv'
    BY <2>1, TaskIsSent
  <2>2. ASSUME NEW p \in Servers, StartAttempt(t, p) PROVE DirectInv'
    BY <2>2, AttemptStarts
  <2>3. CASE publish_task(t) \/ PublishFails(t) \/ Reject(t)
    BY <2>3, TaskIsPublished
  <2>4. CASE AttemptStep(t)
    BY <2>4, OtherIsProcessed, LetterIsDispatched, NoteIsEmitted, NoteIsPushed, AttemptIsRecorded, UnloggedIsRepeated
       DEF AttemptStep
  <2> QED BY <1>1, <2>1, <2>2, <2>3, <2>4 DEF SendStep
<1>2. CASE PageStep
  BY <1>2, PageSteps
<1>3. ASSUME NEW c \in Posts, PostStep(c) PROVE DirectInv'
  BY <1>3, RoomIsLoaded, CommentIsAdded, PostIsOver DEF PostStep
<1>4. CASE UNCHANGED directVars
  <2>1. UNCHANGED <<taskVars, pageVars, postVars>>
    BY <1>4 DEF directVars
  <2>2. page' \in Places /\ connected' \in [Servers -> SUBSET Connections] /\ subscription' \in Subscriptions
    BY <2>1 DEF DirectInv, DirectTypeOK, pageVars
  <2> QED BY <2>1, <2>2, PageKept
<1> QED BY <1>1, <1>2, <1>3, <1>4 DEF DirectNext

\* The invariant holds throughout.
LEMMA DirectHolds == DirectSpec => []DirectInv
BY DirectStarts, DirectKept, PTL DEF DirectSpec

\* No letter is e-mailed more often than its attempts were cut short or went
\* unlogged, and once more (direct_task_activities.py, notification_agent.py).
THEOREM ResendsHaveCause == DirectSpec => []SentTwiceHasCause
<1>1. DirectInv => SentTwiceHasCause
  <2> SUFFICES ASSUME DirectInv, NEW t \in Sends PROVE emails[t] <= 1 + Cardinality(repeats[t])
    BY DEF SentTwiceHasCause
  <2>1. AttemptOK(tasks[t], emails[t], repeats[t]) /\ emails[t] \in Nat /\ Cardinality(repeats[t]) \in Nat
    BY TaskIs
  <2> QED BY <2>1 DEF AttemptOK
<1> QED BY <1>1, DirectHolds, PTL

\* A note reaches a client who can be reached, but for a connection the process
\* counts wrongly or has just got, and a failure of the push service.
THEOREM NotesAreHeard == DirectSpec => []ToldUnlessAway
<1>1. DirectInv => ToldUnlessAway
  BY DEF DirectInv, NotesInv, NoteOK, ToldUnlessAway
<1> QED BY <1>1, DirectHolds, PTL

\* Two open rooms of a case come of comments written at the same time only.
THEOREM RoomsComeOfOverlap == DirectSpec => []OneRoomUnlessOverlap
<1>1. DirectInv => OneRoomUnlessOverlap
  BY DEF DirectInv, RoomsInv
<1> QED BY <1>1, DirectHolds, PTL

=============================================================================
