-------------------------- MODULE DomainDefinition --------------------------
(***************************************************************************)
(* A configured domain: its rows in the domain_* tables, the definition    *)
(* DomainDefinitionLoader assembles from them and validates                *)
(* (domain/domain_definition.py), and what StageDispatcher makes of it for *)
(* a workflow (services/orchestration/stage_dispatcher.py).                *)
(*                                                                         *)
(* A row is a record of its table, its key and its value.  Columns nothing *)
(* decides by (labels, colours, templates, bound parameters) are left out. *)
(***************************************************************************)
EXTENDS Integers, Sequences, FiniteSets

InitialStage == "INTAKE"

Rec(t, k, v) == [table |-> t, key |-> k, val |-> v]

Table(rows, t) == {r \in rows : r.table = t}
Keys(rows, t) == {r.key : r \in Table(rows, t)}
Row(rows, t, k) == CHOOSE r \in Table(rows, t) : r.key = k
Values(rows, t) == [k \in Keys(rows, t) |-> Row(rows, t, k).val]

\* What load() assembles, table by table.  A transition's key is <<from, to>>,
\* an SLA's its stage, tier and product, a pipeline step's its product and id.
load_stages(rows) == Values(rows, "stage")

load_transitions(rows) ==
    LET moves == Keys(rows, "transition")
    IN  [s \in Keys(rows, "stage") \cup {m[1] : m \in moves} |->
           {m[2] : m \in {x \in moves : x[1] = s}}]

load_task_routing(rows) == Values(rows, "routing")
load_agent_roster(rows) == Values(rows, "roster")

load_product_pipelines(rows) ==
    LET steps == Table(rows, "pipeline")
    IN  [p \in {r.key[1] : r \in steps} |-> {r \in steps : r.key[1] = p}]

load_slas(rows) == Table(rows, "sla")

load(rows) ==
    [stages |-> load_stages(rows), transitions |-> load_transitions(rows),
     task_routing |-> load_task_routing(rows), agent_roster |-> load_agent_roster(rows),
     product_pipelines |-> load_product_pipelines(rows), slas |-> load_slas(rows)]

bfs_neighbours(start, transitions) ==
    {start} \cup (IF start \in DOMAIN transitions THEN transitions[start] ELSE {})

\* The walk of _bfs_reachable, a layer at a time: what is visited after n
\* layers.  There are no more layers than stages that have a row.
bfs_reachable(start, transitions) ==
    LET visited[n \in 0..Cardinality(DOMAIN transitions)] ==
          IF n = 0 THEN {start}
          ELSE LET before == visited[n - 1]
               IN  before \cup UNION {transitions[s] : s \in before \cap DOMAIN transitions}
    IN  visited[Cardinality(DOMAIN transitions)]

Terminals(def) == {s \in DOMAIN def.stages : def.stages[s].is_terminal}

\* The contract checks; a definition that fails one is not returned.
validate(def) ==
    /\ InitialStage \in DOMAIN def.stages
    /\ \A s \in DOMAIN def.transitions :
         s \in DOMAIN def.stages /\ def.transitions[s] \subseteq DOMAIN def.stages
    /\ Terminals(def) # {}
    /\ Terminals(def) \subseteq bfs_reachable(InitialStage, def.transitions)
    /\ \A sla \in def.slas : /\ sla.key[1] \in DOMAIN def.stages
                             /\ sla.val.warning_pct < sla.val.escalation_pct

-----------------------------------------------------------------------------
(* The dispatcher of a workflow, built from the definition it loaded. *)

NoActivity == "none"

activity_of_task(task_type) ==
    CASE task_type = "collect_client_data"       -> "customer_service_kickoff_activity"
      [] task_type = "create_collaboration_room" -> "collaboration_kickoff_activity"
      [] task_type = "sales_manager_review"      -> "sales_manager_kickoff_activity"
      [] task_type = "run_kyc_check"             -> "kyc_compliance_activity"
      [] task_type = "onboard_product"           -> "product_onboarding_activity"
      [] task_type = "send_notification"         -> "notification_activity"
      [] task_type = "send_escalation_alert"     -> "escalation_alert_activity"
      [] OTHER                                   -> NoActivity

deprecated(def) == {a \in DOMAIN def.agent_roster : def.agent_roster[a] = "DEPRECATED"}

resolve(def, stage) ==
    IF stage \notin DOMAIN def.task_routing THEN NoActivity
    ELSE LET spec == def.task_routing[stage]
         IN  IF spec.target_agent \in deprecated(def) THEN NoActivity
             ELSE activity_of_task(spec.task_type)

\* The activity each stage handler names when resolve() has none for it.
hardcoded(stage) ==
    CASE stage = "INTAKE"       -> "customer_service_kickoff_activity"
      [] stage = "SALES_REVIEW" -> "sales_manager_kickoff_activity"
      [] stage = "KYC"          -> "kyc_compliance_activity"
      [] stage = "REVIEW"       -> "collaboration_kickoff_activity"
      [] stage = "ESCALATED"    -> "escalation_alert_activity"
      [] OTHER                  -> "notification_activity"

dispatch(def, stage) ==
    IF resolve(def, stage) = NoActivity THEN hardcoded(stage) ELSE resolve(def, stage)

-----------------------------------------------------------------------------
(* Reference: the smallest set that has the start and is closed under the *)
(* transitions.                                                           *)

Reachable(start, transitions) ==
    LET moves == UNION {{s} \X transitions[s] : s \in DOMAIN transitions}
        all == {start} \cup {m[2] : m \in moves}
        closed == {S \in SUBSET all : start \in S /\ \A m \in moves : m[1] \in S => m[2] \in S}
    IN  {x \in all : \A S \in closed : x \in S}
=============================================================================
