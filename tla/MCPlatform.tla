----------------------------- MODULE MCPlatform -----------------------------
(* The administration routes over two seeded domains, one active.  Each      *)
(* behaviour takes one theme: calls of the routes of that theme.             *)
EXTENDS AdminPortal, SeededDomains, TLC

VARIABLE theme

Stage(terminal) == [is_terminal |-> terminal, is_human_pending |-> FALSE]
Task(agent, type) == [target_agent |-> agent, task_type |-> type]
Sla(on, warning, escalation) == [is_enabled |-> on, warning_pct |-> warning, escalation_pct |-> escalation]

MCSeedRows == [wealth |-> wealth_management, retail |-> retail_deposit]
MCDomains == {"wealth", "retail"}
MCUsers == {{}, {"admin"}, {"advisor"}}

AccessRoutes(c, d) ==
    \/ \E p \in {"admin", "advisor"} : \/ add_permission(c, d, p)
                                       \/ remove_permission(c, d, p)
    \/ delete_domain(c, d)
    \/ create_persona(c, d, "advisor") \/ update_persona(c, d, "admin") \/ delete_persona(c, d, "admin")

DomainRoutes(c, d) ==
    \/ \E b \in BOOLEAN : create_domain(c, d, b) \/ update_domain(c, d, b)
    \/ delete_domain(c, d) \/ deactivate_domain(c, d)
    \/ load_for_activation(c, d) \/ activate_domain(c)

StageRoutes(c, d) ==
    \/ \E s \in {"ESCALATED", "HOLD"} : \/ create_stage(c, d, s, Stage(TRUE))
                                       \/ update_stage(c, d, s, Stage(TRUE))
                                       \/ delete_stage(c, d, s)
    \/ \E from, to \in {"KYC", "ESCALATED"} : \/ create_transition(c, d, from, to)
                                              \/ delete_transition(c, d, from, to)
    \/ load_for_activation(c, d) \/ activate_domain(c)

SlaRoutes(c, d) ==
    \/ \E s \in {"KYC", "COMPLETE"} :
         \/ create_sla(c, d, <<s, "none", "none">>, Sla(TRUE, 80, 100))
         \/ \E on \in {{}, {TRUE}, {FALSE}} : update_sla(c, d, <<s, "none", "none">>, Sla(on, 80, 100))
         \/ update_sla(c, d, <<s, "none", "none">>, Sla({}, 90, 90))
         \/ delete_sla(c, d, <<s, "none", "none">>)
    \/ load_for_activation(c, d) \/ activate_domain(c)

AgentRoutes(c, d) ==
    \/ \E s \in {"DEPRECATED", "APPROVED"} : \/ add_agent(c, d, "kyc_compliance", s)
                                             \/ update_agent_status(c, d, "kyc_compliance", s)
    \/ remove_agent(c, d, "kyc_compliance")
    \/ upsert_capabilities(c, d, "kyc_compliance", {"run_kyc_check"})
    \/ upsert_prompt(c, d, "kyc_compliance", "system", "text") \/ delete_prompt(c, d, "kyc_compliance", "system")
    \/ upsert_skill(c, d, "kyc_compliance", "score", "bound") \/ delete_skill(c, d, "kyc_compliance", "score")
    \/ add_tool_grant(c, d, "kyc_compliance", "screen") \/ remove_tool_grant(c, d, "kyc_compliance", "screen")
    \/ \E t \in {"run_kyc_check", "send_notification", "unknown"} :
         \/ create_task_routing(c, d, "KYC", Task("kyc_compliance", t))
         \/ update_task_routing(c, d, "KYC", Task("kyc_compliance", t))
    \/ delete_task_routing(c, d, "KYC")

ProductRoutes(c, d) ==
    \/ \E b \in BOOLEAN : create_product(c, d, "bond", b) \/ update_product(c, d, "gcf", b)
    \/ delete_product(c, d, "gcf")
    \/ add_pipeline_step(c, d, "gcf", "sign", 3) \/ update_pipeline_step(c, d, "gcf", "welcome_kit", 1)
    \/ delete_pipeline_step(c, d, "gcf", "welcome_kit")
    \/ reorder_pipeline(c, d, "gcf", [account_provisioning |-> 2, welcome_kit |-> 1])

Routes(c) ==
    \/ theme = "access" /\ \E d \in Domains : AccessRoutes(c, d)
    \/ theme = "domains" /\ \E d \in Domains : DomainRoutes(c, d)
    \/ theme = "stages" /\ StageRoutes(c, "wealth")
    \/ theme = "slas" /\ SlaRoutes(c, "wealth")
    \/ theme = "agents" /\ AgentRoutes(c, "wealth")
    \/ theme = "products" /\ ProductRoutes(c, "wealth")

AdminCall(c) == require_permission(c) \/ CacheAnswer(c) \/ Routes(c) \/ LogChange(c) \/ Answer(c)

CallStep(c) == theme # "log" /\ AdminCall(c)

WorkflowStep ==
    /\ theme \in {"stages", "agents", "products"}
    /\ load_domain_definition("wealth") \/ \E s \in {"KYC", "COMPLETE"} : RunStage(s)

MCInit == PortalInit /\ theme \in {"access", "domains", "stages", "slas", "agents", "products", "log"}

OtherWriters == theme = "log" /\ OtherAppend

ProcessEnds == theme = "access" /\ Restart

MCNext == (ProcessEnds \/ OtherWriters \/ WorkflowStep \/ \E c \in Calls : CallStep(c)) /\ UNCHANGED theme

MCSpec == MCInit /\ [][MCNext]_<<portalVars, theme>>

MCSymmetry == Permutations(Calls)
=============================================================================
