------------------------- MODULE ScreenedOnboarding -------------------------
(***************************************************************************)
(* The onboarding workflow with the KYC activity as it is computed: the    *)
(* outcome OnboardingWorkflow chooses freely is the one KycCheck comes to, *)
(* from the client's data and the settings of the process that evaluates   *)
(* them.  Administrators, their background writes and restarts of servers  *)
(* go on beside the case.                                                  *)
(*                                                                         *)
(* Each pass through KYC schedules an activity of its own, with the data   *)
(* the state has by then: an advance signal may have brought other data,   *)
(* another name included.                                                  *)
(***************************************************************************)
EXTENDS OnboardingWorkflow, KycCheck

VARIABLE
    disarmed       \* has a process ever held both rules of a match without ESCALATE

screenedVars == <<vars, kycVars, disarmed>>

MatchRules == {"HIGH_RISK_SCORE", "SANCTIONS_MATCH"}
Disarmed(copies) == \E p \in Processes : \A id \in MatchRules : copies[p][id].action # "ESCALATE"

ScreenedInit(clients) ==
    /\ Init
    /\ KycInit(clients)
    /\ disarmed = Disarmed(cache["rules"])

-----------------------------------------------------------------------------
(* The workflow, the fraud activity, the children and the senders. *)

settingsVars == <<granted, seeded, askVars, storeVars>>

\* _run_kyc schedules the activity when the coroutine comes to KYC.
ScheduleCheck(clients) ==
    IF pc # "screening" /\ pc' = "screening"
    THEN client' \in clients /\ check' = Unstarted
    ELSE UNCHANGED <<client, check>>

CaseGoesOn(clients) ==
    /\ WorkflowStep \/ FraudScreened \/ Senders \/ ApiWritesRow \/ \E p \in Products : ChildStep(p)
    /\ ScheduleCheck(clients)
    /\ UNCHANGED settingsVars

-----------------------------------------------------------------------------
(* The KYC activity, while the pass waits for it. *)

\* The evaluation answers, and the row is written with it; the answer reaches
\* the workflow, or is lost with its process, and then only the time-out is left.
Answer ==
    /\ Evaluate
    /\ check'.at = "done"
    /\ KycAttempt
    /\ \/ kycRun' = check'.status
       \/ kycRun' = "RUNNING" /\ row' \in {row, KycRow(check'.status)}

\* The last attempt failed, or schedule_to_close has passed.
CheckFails ==
    /\ KycError
    /\ \/ GiveUp
       \/ check' = [check EXCEPT !.at = "timed_out"]
          /\ UNCHANGED <<client, settingsVars>>

CheckGoesOn ==
    /\ check.at # "done"
    /\ \/ AskGrant \/ InvokeTool
       \/ Evaluate /\ check'.at # "done"
       \/ \E p \in Processes : BeginAttempt(p)
    /\ UNCHANGED vars

KycGoesOn ==
    /\ kycRun = "RUNNING"
    /\ CheckGoesOn \/ Answer \/ CheckFails

-----------------------------------------------------------------------------
(* What the administrators, the servers and other cases' activities do         *)
(* meanwhile; a look-up of grants goes on though its activity was given up.    *)

ServersGoOn(keys, values) ==
    /\ \/ \E tools \in SUBSET ToolSet : ChangeGrants(tools)
       \/ \E p \in Processes, unread \in SUBSET Stores : RestartServer(p, unread)
       \/ OthersAsk \/ \E a \in Askers : LookUp(a)
       \/ (StoreChange(keys, values) \/ TaskStep) /\ Still
    /\ UNCHANGED vars

\* Every step looks at the copies it leaves.
Noted == disarmed' = (disarmed \/ Disarmed(cache'["rules"]))

ScreenedNext(clients, keys, values) ==
    /\ CaseGoesOn(clients) \/ KycGoesOn \/ ServersGoOn(keys, values)
    /\ Noted

ScreenedSpec(clients, keys, values) ==
    ScreenedInit(clients) /\ [][ScreenedNext(clients, keys, values)]_screenedVars

-----------------------------------------------------------------------------
(* Properties. *)

\* A client on a sanctions list gets no further than KYC, and gets no account,
\* unless one process has at one moment held both built-in rules that a match
\* triggers without ESCALATE: not by a second pass after other data, a lost or
\* repeated attempt, a tool that was let through, a restart, a setting that was
\* changed while the check ran, nor by a signal.  It needs DeployedSenders.
SanctionedStaysOut ==
    client.sanctioned /\ ~disarmed =>
       /\ stage \notin {"PARALLEL_PRODUCTS", "COMPLETE"}
       /\ accounts = {}

-----------------------------------------------------------------------------
(* What makes it inductive. *)

\* What the workflow has of the present pass is what the check came to, and the
\* products are reached only past a check that passed.
AnswerIsTheChecks ==
    /\ kycRun \in KycOutcomes => kycRun = check.status
    /\ stage \in {"PARALLEL_PRODUCTS", "COMPLETE"} => kycRun = "PASSED"

PassIsDisarmed == client.sanctioned /\ check.status = "PASSED" => disarmed

ScreenedInv(keys, values) ==
    /\ ClearanceInv
    /\ GrantInv
    /\ StoreInv(keys, values)
    /\ Disarmed(cache["rules"]) => disarmed
    /\ AnswerIsTheChecks
    /\ PassIsDisarmed

=============================================================================
