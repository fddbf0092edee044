----------------------------- MODULE AdminPortal -----------------------------
(***************************************************************************)
(* The administration routes over the domain_* tables, the permission      *)
(* guard with its process-wide cache, the decision-log entry every change  *)
(* appends in a transaction of its own, and what a new workflow makes of   *)
(* the domain (api/routers/admin/*.py, api/dependencies/permission_guard.py*)
(* and workflows/onboarding_workflow.py).                                  *)
(*                                                                         *)
(* A call passes the guard, changes its rows and commits, appends its      *)
(* entry, and answers; calls interleave between these steps.  What a call  *)
(* reads and writes in its own transaction is one step: a unique           *)
(* constraint or a row that has gone turns a race into an error that       *)
(* changes nothing.                                                        *)
(***************************************************************************)
EXTENDS DecisionLog, DomainDefinition

CONSTANTS
    Calls,         \* the administration requests, each of which may append one entry
    Domains,       \* domain codes
    Users,         \* the sets of persona codes the tokens carry
    SeedRows,      \* domain -> the rows its seed has put there, if any
    Active         \* the domain the seeds leave active

VARIABLES
    config,        \* domain -> its rows
    domains,       \* domain -> does its row exist, is it active
    calls,         \* call -> where it is, for whom, and what it has read
    perm_cache,    \* <<personas, granted>>: _perm_cache for scope admin:config
    missed,        \* can the cache differ from the rows
    flagged,       \* was is_active ever set by a create or an update
    workflow       \* the definition one new workflow loaded, and what it ran

adminVars == <<config, domains, calls, perm_cache, missed, flagged, workflow>>
portalVars == <<config, domains, calls, perm_cache, missed, flagged, workflow, logVars>>

ASSUME CallsAppend == Calls \subseteq Appends

ASSUME SeedAssumption ==
  /\ Active \in Domains
  /\ SeedRows = [d \in Domains |-> SeedRows[d]]
  /\ \A d \in Domains : /\ IsFiniteSet(SeedRows[d])
                        /\ \A r \in SeedRows[d] : r = Rec(r.table, r.key, r.val)

AdminScope == "admin:config"
Idle == [at |-> "idle", user |-> {}, read |-> FALSE, dom |-> Active, clears |-> FALSE]

PortalInit ==
    /\ LogInit
    /\ config = SeedRows
    /\ domains = [d \in Domains |-> [exists |-> SeedRows[d] # {}, is_active |-> d = Active]]
    /\ calls = [c \in Calls |-> Idle]
    /\ perm_cache = {}
    /\ missed = FALSE
    /\ flagged = FALSE
    /\ workflow = [at |-> "none", def |-> load(SeedRows[Active]), ran |-> {}]

-----------------------------------------------------------------------------
(* The guard of every route. *)

\* The query of has_permission: any domain's row for any of the personas.
granted(user) ==
    \E d \in Domains : \E p \in user : <<p, AdminScope>> \in Keys(config[d], "permission")

Cached(user) == {e \in perm_cache : e[1] = user}

\* A cached answer decides at once; otherwise the rows are read, and other
\* calls run before the answer is stored.
require_permission(c) ==
    /\ calls[c].at = "idle"
    /\ \E u \in Users :
         LET ask(at, read) == calls' = [calls EXCEPT ![c].user = u, ![c].at = at, ![c].read = read]
         IN  \/ u = {} /\ ask("refused", FALSE)
             \/ u # {} /\ Cached(u) = {} /\ ask("reading", granted(u))
             \/ u # {} /\ <<u, TRUE>> \in perm_cache /\ ask("allowed", TRUE)
             \/ u # {} /\ <<u, FALSE>> \in perm_cache /\ ask("refused", FALSE)
    /\ UNCHANGED <<config, domains, perm_cache, missed, flagged, workflow, logVars>>

cache_answer(c) == (perm_cache \ Cached(calls[c].user)) \cup {<<calls[c].user, calls[c].read>>}

CacheAnswer(c) ==
    /\ calls[c].at = "reading"
    /\ perm_cache' = cache_answer(c)
    /\ missed' = (missed \/ calls[c].read # granted(calls[c].user))
    /\ calls' = [calls EXCEPT ![c].at = IF calls[c].read THEN "allowed" ELSE "refused"]
    /\ UNCHANGED <<config, domains, flagged, workflow, logVars>>

-----------------------------------------------------------------------------
(* What the routes share: answer with an error, or commit and go on to the *)
(* log.  The first guard of each is _get_domain_or_404.                    *)

Refuse(c) ==
    /\ calls' = [calls EXCEPT ![c].at = "refused"]
    /\ UNCHANGED <<config, domains, perm_cache, missed, flagged, workflow, logVars>>

Log(c, clears) == calls' = [calls EXCEPT ![c].at = "logging", ![c].clears = clears]

Commit(c, d, rows, clears) ==
    /\ config' = [config EXCEPT ![d] = rows]
    /\ Log(c, clears)
    /\ UNCHANGED <<domains, perm_cache, missed, flagged, workflow, logVars>>

Route(c, d, ok, rows, clears) ==
    /\ calls[c].at = "allowed"
    /\ IF domains[d].exists /\ ok THEN Commit(c, d, rows, clears) ELSE Refuse(c)

Has(d, t, k) == k \in Keys(config[d], t)
Without(d, t, k) == {r \in config[d] : r.table # t \/ r.key # k}

Create(c, d, t, k, v) == Route(c, d, ~Has(d, t, k), config[d] \cup {Rec(t, k, v)}, FALSE)
Update(c, d, t, k, v) == Route(c, d, Has(d, t, k), Without(d, t, k) \cup {Rec(t, k, v)}, FALSE)
Upsert(c, d, t, k, v) == Route(c, d, TRUE, Without(d, t, k) \cup {Rec(t, k, v)}, FALSE)
Delete(c, d, t, k)    == Route(c, d, Has(d, t, k), Without(d, t, k), FALSE)

\* admin/stages.py: nothing is checked across the three tables.
create_stage(c, d, s, spec)         == Create(c, d, "stage", s, spec)
update_stage(c, d, s, spec)         == Update(c, d, "stage", s, spec)
delete_stage(c, d, s)               == Delete(c, d, "stage", s)
create_transition(c, d, from, to)   == Create(c, d, "transition", <<from, to>>, {})
delete_transition(c, d, from, to)   == Delete(c, d, "transition", <<from, to>>)
create_task_routing(c, d, s, spec)  == Create(c, d, "routing", s, spec)
update_task_routing(c, d, s, spec)  == Update(c, d, "routing", s, spec)
delete_task_routing(c, d, s)        == Delete(c, d, "routing", s)

\* admin/agents.py.  A new agent's status is one of _VALID_STATUSES.
add_agent(c, d, a, status)           == Create(c, d, "roster", a, status)
update_agent_status(c, d, a, status) == Update(c, d, "roster", a, status)
remove_agent(c, d, a)                == Delete(c, d, "roster", a)
upsert_capabilities(c, d, a, caps)   == Upsert(c, d, "capabilities", a, caps)
upsert_prompt(c, d, a, role, text)   == Upsert(c, d, "prompt", <<a, role>>, text)
delete_prompt(c, d, a, role)         == Delete(c, d, "prompt", <<a, role>>)
upsert_skill(c, d, a, skill, bound)  == Upsert(c, d, "skill", <<a, skill>>, bound)
delete_skill(c, d, a, skill)         == Delete(c, d, "skill", <<a, skill>>)
add_tool_grant(c, d, a, tool)        == Create(c, d, "grant", <<a, tool>>, {})
remove_tool_grant(c, d, a, tool)     == Delete(c, d, "grant", <<a, tool>>)

\* admin/products.py.  A reordering moves the steps it names and no others.
create_product(c, d, p, active)       == Create(c, d, "product", p, active)
update_product(c, d, p, active)       == Update(c, d, "product", p, active)
delete_product(c, d, p)               == Delete(c, d, "product", p)
add_pipeline_step(c, d, p, s, order)    == Create(c, d, "pipeline", <<p, s>>, order)
update_pipeline_step(c, d, p, s, order) == Update(c, d, "pipeline", <<p, s>>, order)
delete_pipeline_step(c, d, p, s)        == Delete(c, d, "pipeline", <<p, s>>)
reorder_pipeline(c, d, p, orders) ==
    LET moved(r) == r.table = "pipeline" /\ r.key[1] = p /\ r.key[2] \in DOMAIN orders
    IN  Route(c, d, TRUE,
              {IF moved(r) THEN [r EXCEPT !.val = orders[r.key[2]]] ELSE r : r \in config[d]}, FALSE)

\* admin/sla.py.  An update that says is_enabled = false is refused for a
\* regulated stage; "is_enabled" is {} where the body leaves it out.
RegulatedStages == {"KYC", "REVIEW", "SALES_REVIEW", "ESCALATED"}
create_sla(c, d, k, v) ==
    Route(c, d, ~Has(d, "sla", k) /\ v.warning_pct < v.escalation_pct,
          config[d] \cup {Rec("sla", k, v)}, FALSE)
update_sla(c, d, k, body) ==
    LET is_enabled == IF body.is_enabled = {} THEN Row(config[d], "sla", k).val.is_enabled
                      ELSE TRUE \in body.is_enabled
    IN  Route(c, d, /\ Has(d, "sla", k)
                    /\ body.warning_pct < body.escalation_pct
                    /\ ~(FALSE \in body.is_enabled /\ k[1] \in RegulatedStages),
              Without(d, "sla", k) \cup {Rec("sla", k, [body EXCEPT !.is_enabled = is_enabled])}, FALSE)
delete_sla(c, d, k) == Delete(c, d, "sla", k)

\* admin/personas.py.  Only the two permission routes clear the cache; a
\* persona's permissions outlive it.
create_persona(c, d, p) == Create(c, d, "persona", p, {})
update_persona(c, d, p) == Update(c, d, "persona", p, {})
delete_persona(c, d, p) == Delete(c, d, "persona", p)
add_permission(c, d, p) ==
    LET k == <<p, AdminScope>>
    IN  Route(c, d, ~Has(d, "permission", k), config[d] \cup {Rec("permission", k, {})}, TRUE)
remove_permission(c, d, p) ==
    LET k == <<p, AdminScope>>
    IN  Route(c, d, Has(d, "permission", k), Without(d, "permission", k), TRUE)

-----------------------------------------------------------------------------
(* admin/domains.py *)

\* The rows of table domains as a call would leave them.
SetDomains(c, ds) ==
    /\ domains' = ds
    /\ Log(c, FALSE)

create_domain(c, d, is_active) ==
    /\ calls[c].at = "allowed"
    /\ IF domains[d].exists THEN Refuse(c)
       ELSE /\ SetDomains(c, [domains EXCEPT ![d] = [exists |-> TRUE, is_active |-> is_active]])
            /\ flagged' = (flagged \/ is_active)
            /\ UNCHANGED <<config, perm_cache, missed, workflow, logVars>>

update_domain(c, d, is_active) ==
    /\ calls[c].at = "allowed"
    /\ IF ~domains[d].exists THEN Refuse(c)
       ELSE /\ SetDomains(c, [domains EXCEPT ![d].is_active = is_active])
            /\ flagged' = (flagged \/ is_active)
            /\ UNCHANGED <<config, perm_cache, missed, workflow, logVars>>

\* Every domain_* row goes with its domain (ON DELETE CASCADE), permissions
\* included, and the cache is left as it is.
delete_domain(c, d) ==
    /\ calls[c].at = "allowed"
    /\ IF ~domains[d].exists THEN Refuse(c)
       ELSE /\ SetDomains(c, [domains EXCEPT ![d] = [exists |-> FALSE, is_active |-> FALSE]])
            /\ config' = [config EXCEPT ![d] = {}]
            /\ missed' = (missed \/ Table(config[d], "permission") # {})
            /\ UNCHANGED <<perm_cache, flagged, workflow, logVars>>

deactivate_domain(c, d) ==
    /\ calls[c].at = "allowed"
    /\ IF ~domains[d].exists THEN Refuse(c)
       ELSE /\ SetDomains(c, [domains EXCEPT ![d].is_active = FALSE])
            /\ UNCHANGED <<config, perm_cache, missed, flagged, workflow, logVars>>

\* An activation loads its domain's row and, by query after query, its
\* definition, and refuses one that does not validate.
load_for_activation(c, d) ==
    /\ calls[c].at = "allowed"
    /\ IF ~domains[d].exists \/ ~validate(load(config[d])) THEN Refuse(c)
       ELSE /\ calls' = [calls EXCEPT ![c].at = "activating", ![c].dom = d,
                                      ![c].read = domains[d].is_active]
            /\ UNCHANGED <<config, domains, perm_cache, missed, flagged, workflow, logVars>>

\* Deactivates the domain the call had seen active, and no other.
activated_alone(c) == [domains EXCEPT ![calls[c].dom].is_active = TRUE]

\* The others are deactivated by an UPDATE.  Setting a flag that the row had
\* when it was loaded is no change to the ORM, and writes nothing.
activated(c) ==
    [d \in Domains |->
       IF d = calls[c].dom
         THEN [domains[d] EXCEPT !.is_active = IF calls[c].read THEN @ ELSE TRUE]
         ELSE [domains[d] EXCEPT !.is_active = FALSE]]

activate_domain(c) ==
    /\ calls[c].at = "activating"
    /\ IF ~domains[calls[c].dom].exists THEN Refuse(c)
       ELSE /\ SetDomains(c, activated(c))
            /\ UNCHANGED <<config, perm_cache, missed, flagged, workflow, logVars>>

-----------------------------------------------------------------------------
(* The log entry, the cache and the answer. *)

LogChange(c) ==
    /\ calls[c].at = "logging"
    /\ SelectLast(c) \/ AppendStep(c)
    /\ UNCHANGED adminVars

\* The other writers of the log: fraud screening, the activation gate and the
\* SLA activities, whose own changes are committed by then.
OtherAppend ==
    /\ \E a \in Appends \ Calls : SelectLast(a) \/ AppendStep(a)
    /\ UNCHANGED adminVars

cache_kept(c) == perm_cache

cache_after(c) == IF calls[c].clears THEN {} ELSE perm_cache

\* clear_permission_cache runs behind the append, and not at all if it raises.
Answer(c) ==
    /\ calls[c].at = "logging"
    /\ \/ /\ appends[c].at = "done"
          /\ calls' = [calls EXCEPT ![c].at = "answered"]
          /\ perm_cache' = cache_after(c)
          /\ missed' = (missed /\ ~calls[c].clears)
       \/ /\ appends[c].at = "failed"
          /\ calls' = [calls EXCEPT ![c].at = "failed"]
          /\ missed' = (missed \/ calls[c].clears)
          /\ UNCHANGED perm_cache
    /\ UNCHANGED <<config, domains, flagged, workflow, logVars>>

\* The process ends: calls in progress are lost, their transactions rolled
\* back, and the cache starts empty.
Unanswered(c) == calls[c].at \in {"reading", "allowed", "activating", "logging"}

Restart ==
    /\ \E c \in Calls : Unanswered(c)
    /\ calls' = [c \in Calls |-> IF Unanswered(c) THEN [calls[c] EXCEPT !.at = "lost"] ELSE calls[c]]
    /\ AppendsLost
    /\ perm_cache' = {}
    /\ missed' = FALSE
    /\ UNCHANGED <<config, domains, flagged, workflow>>

-----------------------------------------------------------------------------
(* A new workflow: it loads the definition once and keeps it. *)

load_domain_definition(d) ==
    /\ workflow.at = "none"
    /\ IF domains[d].exists /\ validate(load(config[d]))
         THEN workflow' = [workflow EXCEPT !.at = "loaded", !.def = load(config[d])]
         ELSE workflow' = [workflow EXCEPT !.at = "failed"]
    /\ UNCHANGED <<config, domains, calls, perm_cache, missed, flagged, logVars>>

RunStage(stage) ==
    /\ workflow.at = "loaded"
    /\ workflow' = [workflow EXCEPT !.ran = @ \cup {<<stage, dispatch(workflow.def, stage)>>}]
    /\ UNCHANGED <<config, domains, calls, perm_cache, missed, flagged, logVars>>

-----------------------------------------------------------------------------
(* Any request, with any arguments: the platform without bounds. *)

StageRequest(c, d) ==
    \E s, t, v : \/ create_stage(c, d, s, v) \/ update_stage(c, d, s, v) \/ delete_stage(c, d, s)
                \/ create_transition(c, d, s, t) \/ delete_transition(c, d, s, t)
                \/ create_task_routing(c, d, s, v) \/ update_task_routing(c, d, s, v)
                \/ delete_task_routing(c, d, s)

AgentRequest(c, d) ==
    \E a, k, v : \/ add_agent(c, d, a, v) \/ update_agent_status(c, d, a, v) \/ remove_agent(c, d, a)
                \/ upsert_capabilities(c, d, a, v)
                \/ upsert_prompt(c, d, a, k, v) \/ delete_prompt(c, d, a, k)
                \/ upsert_skill(c, d, a, k, v) \/ delete_skill(c, d, a, k)
                \/ add_tool_grant(c, d, a, k) \/ remove_tool_grant(c, d, a, k)

ProductRequest(c, d) ==
    \E p, s, v : \/ create_product(c, d, p, v) \/ update_product(c, d, p, v) \/ delete_product(c, d, p)
                \/ add_pipeline_step(c, d, p, s, v) \/ update_pipeline_step(c, d, p, s, v)
                \/ delete_pipeline_step(c, d, p, s) \/ reorder_pipeline(c, d, p, v)

SlaRequest(c, d) ==
    \E k, v : create_sla(c, d, k, v) \/ update_sla(c, d, k, v) \/ delete_sla(c, d, k)

PersonaRequest(c, d) ==
    \E p : \/ create_persona(c, d, p) \/ update_persona(c, d, p) \/ delete_persona(c, d, p)
          \/ add_permission(c, d, p) \/ remove_permission(c, d, p)

DomainRequest(c, d) ==
    \/ \E b \in BOOLEAN : create_domain(c, d, b) \/ update_domain(c, d, b)
    \/ delete_domain(c, d) \/ deactivate_domain(c, d) \/ load_for_activation(c, d)

CallNext(c) ==
    \/ require_permission(c) \/ CacheAnswer(c) \/ activate_domain(c) \/ LogChange(c) \/ Answer(c)
    \/ \E d \in Domains : \/ StageRequest(c, d) \/ AgentRequest(c, d) \/ ProductRequest(c, d)
                          \/ SlaRequest(c, d) \/ PersonaRequest(c, d) \/ DomainRequest(c, d)

PortalNext ==
    \/ \E c \in Calls : CallNext(c)
    \/ OtherAppend
    \/ Restart
    \/ \E d \in Domains : load_domain_definition(d)
    \/ \E s : RunStage(s)

PortalSpec == PortalInit /\ [][PortalNext]_portalVars

-----------------------------------------------------------------------------
(* Properties *)

\* As long as no create and no update sets is_active by itself, at most one
\* domain is active, however the activations interleave (domains.py:212).
SingleActive ==
    ~flagged => \A d, e \in Domains : domains[d].is_active /\ domains[e].is_active => d = e

\* The permission cache answers as the rows would, unless a permission route
\* is on its way to clear it, or one of three things came after the last
\* clear: a read that was overtaken by a change, an entry whose log append
\* failed, or the deletion of a domain with permissions.
StaleGrantHasCause ==
    \/ missed
    \/ \E c \in Calls : calls[c].at = "logging" /\ calls[c].clears
    \/ \A e \in perm_cache : e[2] = granted(e[1])

\* The loader's walk over the transitions finds the stages it should, for the
\* tables of every domain the routes can leave behind, dangling ones included.
LoadWalksAll ==
    \A d \in Domains :
      LET transitions == load_transitions(config[d])
      IN  bfs_reachable(InitialStage, transitions) = Reachable(InitialStage, transitions)
-----------------------------------------------------------------------------
(* What makes them inductive *)

CallRecord ==
  [at : {"idle", "reading", "allowed", "refused", "activating", "logging", "answered", "failed", "lost"},
   user : Users \cup {{}}, read : BOOLEAN, dom : Domains, clears : BOOLEAN]

AreRows(rows) == IsFiniteSet(rows) /\ \A r \in rows : r = Rec(r.table, r.key, r.val)

PortalTypeOK ==
  /\ config = [d \in Domains |-> config[d]]
  /\ \A d \in Domains : AreRows(config[d])
  /\ domains \in [Domains -> [exists : BOOLEAN, is_active : BOOLEAN]]
  /\ calls \in [Calls -> CallRecord]
  /\ missed \in BOOLEAN
  /\ flagged \in BOOLEAN

PortalInv == PortalTypeOK /\ SingleActive /\ StaleGrantHasCause
=============================================================================
