---------------------------- MODULE ProductTrack ----------------------------
(***************************************************************************)
(* One product of one case: the suitability assessment, the pipeline of    *)
(* steps with its rows in case_product_steps, and the activation gate      *)
(* (agents/product_onboarding/*.py and                                     *)
(* services/activation/activation_gate_service.py), as the activity of     *)
(* ProductOnboardingWorkflow runs them.  A case that comes back to         *)
(* PARALLEL_PRODUCTS runs them again over the rows of the first pass;      *)
(* meanwhile the administrator may have changed pipeline and criteria.     *)
(*                                                                         *)
(* The process the activity runs in may die at any step.  The activity has *)
(* no timeout but schedule_to_close, so that a lost attempt is its last.   *)
(* Any statement of the database may fail: the loaders then fall back to   *)
(* what is built in, the writes of the rows raise.                         *)
(***************************************************************************)
EXTENDS FiniteSets, Sequences, Integers

CONSTANTS
    Pipelines,     \* the pipelines the administrator may set, sequences of steps
    FallbackSteps, \* _PRODUCT_STEPS: what runs when the pipeline has no rows
    BadSteps,      \* steps whose step_config is no pair of numbers
    Criterias,     \* the suitability criteria the administrator may set,
    BadCriterias,  \* and those among them that cannot be computed with
    Clients,       \* what the client may have answered by the time of a pass
    ProductCode,
    MaxPasses      \* bound: attempts of the activity, over all passes

ASSUME TrackAssumption ==
    /\ \A s \in Pipelines \cup {FallbackSteps} : s \in Seq({s[i] : i \in DOMAIN s})
    /\ Clients # {}
    /\ MaxPasses \in Nat

VARIABLES
    pipeline,      \* domain_product_pipelines, in order
    criteria,      \* domain_products.suitability_criteria
    product,       \* case_products.status, or "none" for a product without row
    stepRows,      \* case_product_steps: records of name, index, status
    pass,          \* the running activity
    gate,          \* product_activation: state and account number
    ran,           \* history: the steps that have run, each with its attempt
    mixed          \* history: has an attempt found rows another pipeline had made

trackVars == <<pipeline, criteria, product, stepRows, pass, gate, ran, mixed>>

-----------------------------------------------------------------------------
(* SuitabilityAssessor._score, times 3000.                                 *)

objective_to_risk(o) ==
    CASE o = "preservation" -> 1 [] o = "income" -> 2 [] o = "growth" -> 4 [] o = "speculation" -> 5 [] OTHER -> 3

objective_to_horizon(o) ==
    CASE o \in {"preservation", "income"} -> "short_term"
      [] o \in {"growth", "speculation"} -> "long_term"
      [] OTHER -> "medium_term"

risk_score(c, k) ==
    LET margin == objective_to_risk(c.objective) - k.min_risk + 1
    IN  IF margin < 1 THEN 6 ELSE 10 * (IF margin > 3 THEN 3 ELSE margin)

income_score(c, k) ==
    IF k.min_income = 0 \/ c.income >= k.min_income THEN 30
    ELSE IF 10 * c.income >= 7 * k.min_income THEN 15 ELSE 3

\* A date of birth that does not parse makes the client 0 years old.
age_score(c, k) ==
    CASE c.age < k.min_age -> 0
      [] c.age >= k.min_age /\ k.is_retirement /\ c.age > 60 -> 30
      [] c.age >= k.min_age /\ k.is_retirement /\ c.age \in 46..60 -> 27
      [] OTHER -> 24

horizon_score(c, k) == IF objective_to_horizon(c.objective) \in k.ideal_horizons THEN 30 ELSE 12

suitability_score(c, k) ==
      k.weights.risk * risk_score(c, k) + k.weights.income * income_score(c, k)
    + k.weights.age * age_score(c, k) + k.weights.horizon * horizon_score(c, k)

\* (The first: the score alone.)
is_suitable_by_score(c, k) == suitability_score(c, k) >= 1500
is_suitable(c, k) == suitability_score(c, k) >= 1500 /\ c.age >= k.min_age

\* What assess() takes when there are no criteria, or they cannot be loaded.
hardcoded_criteria ==
    [min_risk |-> 1, min_age |-> 18, min_income |-> 0,
     ideal_horizons |-> IF ProductCode = "retirement_account" THEN {"long_term"}
                        ELSE {"short_term", "medium_term", "long_term"},
     is_retirement |-> ProductCode = "retirement_account",
     weights |-> [risk |-> 40, income |-> 30, age |-> 20, horizon |-> 10]]

\* An objective that is no text has no lower().
unscorable(c, k) == c.objective = "no_text" \/ k \in BadCriterias

-----------------------------------------------------------------------------
(* The pipeline. *)

NoDecision == [state |-> "none", account |-> 0, decline |-> FALSE]
Waiting == [at |-> "idle", count |-> 0, steps |-> <<>>, step |-> 1, client |-> CHOOSE c \in Clients : TRUE,
            judged_by |-> {}, failed |-> FALSE, track |-> "none"]

TrackInit ==
    /\ pipeline \in Pipelines
    /\ criteria \in Criterias
    /\ product \in {"PENDING", "none"} /\ stepRows = {} /\ pass = Waiting
    /\ gate = NoDecision /\ ran = {} /\ mixed = FALSE

Go(at) == pass' = [pass EXCEPT !.at = at]

\* A pipeline without rows, and one that cannot be read.
loaded_steps == {IF pipeline = <<>> THEN FallbackSteps ELSE pipeline, FallbackSteps}

\* The child workflow starts the activity, which loads the steps.  The case's
\* answers may differ from pass to pass, but not between the attempts of one.
StartPass(client, steps) ==
    /\ pass.at \in {"idle", "ended", "raised"}
    /\ pass.at = "raised" => client = pass.client
    /\ pass.count < MaxPasses
    /\ pass' = [pass EXCEPT !.at = "starting", !.count = @ + 1, !.step = 1, !.client = client,
                            !.steps = steps, !.judged_by = {}, !.failed = FALSE, !.track = "none"]
    /\ mixed' = (mixed \/ (stepRows # {} /\ steps # pass.steps))
    /\ UNCHANGED <<pipeline, criteria, product, stepRows, gate, ran>>

missing_rows ==
    {[name |-> pass.steps[i], index |-> i, status |-> "PENDING"] :
       i \in {j \in DOMAIN pass.steps : \A r \in stepRows : r.name # pass.steps[j]}}

\* (A product without row is onboarded without one.)
PersistProductStart ==
    /\ pass.at = "starting"
    /\ IF product = "none" THEN UNCHANGED <<product, stepRows>>
       ELSE product' = "IN_PROGRESS" /\ stepRows' = stepRows \cup missing_rows
    /\ Go("assessing")
    /\ UNCHANGED <<pipeline, criteria, gate, ran, mixed>>

\* An exception anywhere in the pipeline is caught by timed_process, which
\* answers FAILED: the track fails and its product row stays as it is.
Raised(p) == [p EXCEPT !.at = "gate", !.track = "FAILED"]

\* The criteria as they are, or those built in.  (The first: an unsuitable
\* product is not finished.)
AssessUnfinished ==
    /\ pass.at = "assessing"
    /\ \E k \in {criteria, hardcoded_criteria} :
          LET judged == [pass EXCEPT !.judged_by = {k}]
          IN  pass' = IF unscorable(pass.client, k) THEN Raised(judged)
                      ELSE IF is_suitable(pass.client, k) THEN [judged EXCEPT !.at = "executing"]
                      ELSE [judged EXCEPT !.at = "gate", !.track = "UNSUITABLE"]
    /\ UNCHANGED <<pipeline, criteria, product, stepRows, gate, ran, mixed>>

Assess ==
    /\ pass.at = "assessing"
    /\ \E k \in {criteria, hardcoded_criteria} :
          LET judged == [pass EXCEPT !.judged_by = {k}]
          IN  pass' = IF unscorable(pass.client, k) THEN Raised(judged)
                      ELSE IF is_suitable(pass.client, k) THEN [judged EXCEPT !.at = "executing"]
                      ELSE [judged EXCEPT !.at = "finishing", !.track = "UNSUITABLE"]
    /\ UNCHANGED <<pipeline, criteria, product, stepRows, gate, ran, mixed>>

ExecuteStep ==
    /\ pass.at = "executing"
    /\ IF pass.step > Len(pass.steps)
       THEN pass' = [pass EXCEPT !.at = "finishing", !.track = "COMPLETE"] /\ UNCHANGED ran
       ELSE IF pass.steps[pass.step] \in BadSteps THEN pass' = Raised(pass) /\ UNCHANGED ran
       ELSE Go("executed") /\ ran' = ran \cup {<<pass.count, pass.steps[pass.step]>>}
    /\ UNCHANGED <<pipeline, criteria, product, stepRows, gate, mixed>>

\* (The first: counted from one where the rows are counted from nought.)
row_index_from_one == pass.step + 1

row_index == pass.step

\* The row of a step is found by its index; two of them raise MultipleResultsFound.
PersistStepDone ==
    /\ pass.at = "executed"
    /\ LET found == {r \in stepRows : r.index = row_index}
       IN  IF Cardinality(found) > 1 THEN pass' = Raised(pass) /\ UNCHANGED stepRows
           ELSE /\ stepRows' = (stepRows \ found) \cup {[r EXCEPT !.status = "COMPLETE"] : r \in found}
                /\ pass' = [pass EXCEPT !.at = "executing", !.step = @ + 1]
    /\ UNCHANGED <<pipeline, criteria, product, gate, ran, mixed>>

\* (The session that looks up the names for the notices of a failed track may
\* raise too; the answer is not SUCCESS either way.)
PersistProductFinish ==
    /\ pass.at = "finishing"
    /\ product' = CASE product = "none" -> "none"
                    [] product # "none" /\ pass.track = "UNSUITABLE" -> "FAILED"
                    [] OTHER -> pass.track
    /\ Go("gate")
    /\ UNCHANGED <<pipeline, criteria, stepRows, gate, ran, mixed>>

\* A statement of one of the three writes fails, and its transaction with it.
RowWriteFails ==
    /\ pass.at \in {"starting", "executed", "finishing"}
    /\ pass' = Raised([pass EXCEPT !.failed = TRUE])
    /\ UNCHANGED <<pipeline, criteria, product, stepRows, gate, ran, mixed>>

\* The audit entry of the answer fails, and the attempt: Temporal runs it again.
AuditFails ==
    /\ pass.at = "gate"
    /\ Go("raised")
    /\ UNCHANGED <<pipeline, criteria, product, stepRows, gate, ran, mixed>>

-----------------------------------------------------------------------------
(* The gate. *)

\* The graph looks for "track_status" in a result that has "status": every
\* answer but SUCCESS is FAILED.
TrackStatus == IF pass.track = "COMPLETE" THEN "COMPLETE" ELSE "FAILED"

\* The band the policy compares with the product's minimum is extra's
\* kyc_risk_band, which nothing writes: it is always "low", the lowest.
kyc_risk_band == 1

\* A product that is here has KYC passed and fraud cleared in the workflow's
\* extra, which prevails (OnboardingWorkflow.ProductsOnlyAfterClearance).
evaluate_policy == TrackStatus = "COMPLETE" /\ kyc_risk_band >= criteria.min_risk_level

\* A decision changes what it sets, and leaves the rest of the row.  The entry
\* in the decision log follows in a session of its own (DecisionLog.AppendFails).
EvaluateGate ==
    /\ pass.at = "gate"
    /\ gate' = IF evaluate_policy
               THEN [gate EXCEPT !.state = "ACTIVATED", !.account = pass.count]
               ELSE [gate EXCEPT !.state = "DECLINED", !.decline = TRUE]
    /\ Go("ended")
    /\ UNCHANGED <<pipeline, criteria, product, stepRows, ran, mixed>>

\* An exception of the gate is logged, and the child ends all the same.
GateFails ==
    /\ pass.at = "gate"
    /\ Go("ended")
    /\ UNCHANGED <<pipeline, criteria, product, stepRows, gate, ran, mixed>>

Lose ==
    /\ pass.at \notin {"idle", "ended", "raised", "lost"}
    /\ Go("lost")
    /\ UNCHANGED <<pipeline, criteria, product, stepRows, gate, ran, mixed>>

EditPipeline(steps) ==
    /\ steps # pipeline
    /\ pipeline' = steps
    /\ UNCHANGED <<criteria, product, stepRows, pass, gate, ran, mixed>>

EditCriteria(k) ==
    /\ criteria' = k
    /\ UNCHANGED <<pipeline, product, stepRows, pass, gate, ran, mixed>>

TrackStep ==
    \/ \E c \in Clients, s \in loaded_steps : StartPass(c, s)
    \/ PersistProductStart \/ Assess \/ ExecuteStep \/ PersistStepDone \/ PersistProductFinish
    \/ RowWriteFails \/ AuditFails \/ EvaluateGate \/ GateFails \/ Lose
    \/ \E s \in Pipelines : EditPipeline(s)
    \/ \E k \in Criterias : EditCriteria(k)

-----------------------------------------------------------------------------
(* Properties. *)

\* A row marked COMPLETE is that of a step that ran, unless two attempts have
\* worked on the rows with different pipelines, because it was changed or because
\* one of them could not read it: the rows are made by name and completed by
\* index, so that a reordering completes the row of another step.
StepRowsAreTrue ==
    mixed \/ \A r \in stepRows : r.status = "COMPLETE" => \E n \in 1..pass.count : <<n, r.name>> \in ran

Over == pass.at \in {"ended", "raised", "lost"}

\* A product that is still in progress when its activity is over has a cause, and
\* one of its last attempt: the process was lost; a write of a row failed; the
\* answers or criteria cannot be scored; a step's configuration is no pair of
\* numbers; or pipelines are mixed, and two rows have one index.  Nothing else
\* leaves it there, and no later attempt without a cause does.
StuckHasCause ==
    product = "IN_PROGRESS" /\ Over =>
       \/ pass.at = "lost" \/ pass.failed \/ mixed
       \/ \E k \in pass.judged_by : unscorable(pass.client, k)
       \/ \E i \in DOMAIN pass.steps : pass.steps[i] \in BadSteps

\* Whatever weights and thresholds the administrator has set, an activation
\* follows an assessment of the same attempt, by criteria (or the built-in ones)
\* whose minimum age the client has reached, and the run, in that attempt, of
\* every step it had loaded; no loss, exception or row left by an earlier attempt
\* leads to one.
ActivationIsEarned ==
    gate.state = "ACTIVATED" /\ pass.at = "ended" /\ gate.account = pass.count =>
       /\ \E k \in pass.judged_by : pass.client.age >= k.min_age
       /\ \A i \in DOMAIN pass.steps : <<pass.count, pass.steps[i]>> \in ran

-----------------------------------------------------------------------------
(* What makes them inductive. *)

TrackSpec == TrackInit /\ [][TrackStep]_trackVars

StepNames == UNION {{s[i] : i \in DOMAIN s} : s \in Pipelines \cup {FallbackSteps}}
StepRow == [name : StepNames, index : Nat, status : {"PENDING", "COMPLETE"}]
Pass ==
    [at : {"idle", "starting", "assessing", "executing", "executed", "finishing", "gate", "ended", "raised", "lost"},
     count : Nat, steps : Seq(StepNames), step : Nat \ {0}, client : Clients,
     judged_by : SUBSET (Criterias \cup {hardcoded_criteria}), failed : BOOLEAN,
     track : {"none", "UNSUITABLE", "FAILED", "COMPLETE"}]

TrackTypeOK ==
    /\ pipeline \in Pipelines
    /\ criteria \in Criterias
    /\ stepRows \subseteq StepRow
    /\ pass \in Pass
    /\ gate \in [state : {"none", "ACTIVATED", "DECLINED"}, account : Nat, decline : BOOLEAN]
    /\ mixed \in BOOLEAN

\* The rows while every attempt has loaded the same pipeline: one for each step,
\* at the step's place.
RowsInOrder ==
    /\ \A r \in stepRows : /\ r.index \in DOMAIN pass.steps /\ r.name = pass.steps[r.index]
                           /\ r.status = "COMPLETE" => \E n \in 1..pass.count : <<n, r.name>> \in ran
    /\ \A r, q \in stepRows : r.index = q.index => r = q

\* The steps before the one at hand have run.
Suited == \E k \in pass.judged_by : pass.client.age >= k.min_age
RanUpTo(n) == \A i \in DOMAIN pass.steps : i <= n => <<pass.count, pass.steps[i]>> \in ran

Excused ==
    \/ pass.failed \/ mixed
    \/ \E k \in pass.judged_by : unscorable(pass.client, k)
    \/ \E i \in DOMAIN pass.steps : pass.steps[i] \in BadSteps

TrackInv ==
    /\ TrackTypeOK
    /\ pass.count = 0 => stepRows = {}
    /\ pass.at = "idle" <=> pass.count = 0
    /\ ~mixed => RowsInOrder
    /\ pass.at \in {"starting", "assessing"} => pass.step = 1
    /\ pass.at \in {"starting", "assessing", "executing", "executed"} => pass.track = "none"
    /\ pass.at \in {"executing", "executed"} => Suited /\ RanUpTo(pass.step - 1)
    /\ pass.at = "executed" => pass.step \in DOMAIN pass.steps /\ <<pass.count, pass.steps[pass.step]>> \in ran
    /\ pass.track = "COMPLETE" => Suited /\ RanUpTo(Len(pass.steps))
    /\ pass.at \in {"gate", "ended", "raised"} /\ product = "IN_PROGRESS" => pass.track = "FAILED"
    /\ pass.track = "FAILED" => Excused
    /\ gate.account <= pass.count
    /\ gate.state = "ACTIVATED" /\ gate.account = pass.count => pass.at = "ended" /\ pass.track = "COMPLETE"

=============================================================================
