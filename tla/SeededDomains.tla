--------------------------- MODULE SeededDomains ---------------------------
(***************************************************************************)
(* The rows of the two domains the repository configures: what the         *)
(* migrations put there for wealth_management, one operator per upgrade(), *)
(* and what scripts/setup_retail_deposit_domain.py makes of retail_deposit *)
(* through the administration routes.                                      *)
(*                                                                         *)
(* Permissions of other scopes than admin:config, labels, task priorities  *)
(* and step settings are left out, as in DomainDefinition; the suitability *)
(* criteria stand by themselves, for ProductTrack.                         *)
(***************************************************************************)
EXTENDS DomainDefinition

\* ON CONFLICT DO NOTHING, and a POST that is answered 409; and an upsert.
inserted(rows, new) == rows \cup {r \in new : r.key \notin Keys(rows, r.table)}
upserted(rows, new) ==
    {r \in rows : \A n \in new : r.table # n.table \/ r.key # n.key} \cup new

Listed(t, keys) == {Rec(t, k, {}) : k \in keys}
Offered(products) == {Rec("product", p, TRUE) : p \in products}

Staged(stages, terminal, human) ==
    {Rec("stage", s, [is_terminal |-> s \in terminal, is_human_pending |-> s \in human]) : s \in stages}
Moves(to) == UNION {{Rec("transition", <<s, t>>, {}) : t \in to[s]} : s \in DOMAIN to}
Routed(tasks) ==
    {Rec("routing", s, [target_agent |-> tasks[s][1], task_type |-> tasks[s][2]]) : s \in DOMAIN tasks}
Able(caps) == {Rec("capabilities", a, caps[a]) : a \in DOMAIN caps}
Piped(steps) ==
    UNION {{Rec("pipeline", <<p, steps[p][i]>>, i - 1) : i \in DOMAIN steps[p]} : p \in DOMAIN steps}
Clock(stage, tier, product, enabled, warning, escalation) ==
    Rec("sla", <<stage, tier, product>>,
        [is_enabled |-> enabled, warning_pct |-> warning, escalation_pct |-> escalation])

-----------------------------------------------------------------------------
(* wealth_management *)

wealth_stages ==
    Staged({"INTAKE", "REVIEW", "SALES_REVIEW", "KYC", "PARALLEL_PRODUCTS", "COMPLETE", "ESCALATED"},
           {"COMPLETE", "ESCALATED"}, {"REVIEW", "SALES_REVIEW"})

wealth_transitions ==
    Moves([INTAKE |-> {"REVIEW"},
           REVIEW |-> {"SALES_REVIEW", "KYC", "COMPLETE", "ESCALATED"},
           SALES_REVIEW |-> {"KYC", "REVIEW"},
           KYC |-> {"PARALLEL_PRODUCTS", "ESCALATED"},
           PARALLEL_PRODUCTS |-> {"REVIEW", "COMPLETE", "ESCALATED"},
           ESCALATED |-> {"REVIEW", "KYC", "COMPLETE"}])

wealth_task_routing ==
    Routed([INTAKE |-> <<"customer_service", "collect_client_data">>,
            REVIEW |-> <<"collaboration", "create_collaboration_room">>,
            SALES_REVIEW |-> <<"sales_manager", "sales_manager_review">>,
            KYC |-> <<"kyc_compliance", "run_kyc_check">>,
            PARALLEL_PRODUCTS |-> <<"product_onboarding", "onboard_product">>,
            COMPLETE |-> <<"notification", "send_notification">>,
            ESCALATED |-> <<"notification", "send_escalation_alert">>])

wealth_agents ==
    Listed("roster", {"orchestrator", "customer_service", "kyc_compliance", "document_intelligence",
                      "product_onboarding", "collaboration", "contact_centre", "notification", "sales_manager"})

\* What an agent subscribes to, the column the entry nodes check.
wealth_capabilities ==
    Able([orchestrator |-> {"start_onboarding", "resume_onboarding", "advance_stage", "escalate", "health_check"},
          customer_service |-> {"collect_client_data", "continue_conversation"},
          kyc_compliance |-> {"run_kyc_check", "verify_identity"},
          document_intelligence |-> {"classify_document", "validate_document", "extract_ocr", "compute_diff"},
          product_onboarding |-> {"onboard_product", "assess_suitability", "product_track_complete"},
          collaboration |-> {"create_collaboration_room", "add_comment"},
          contact_centre |-> {"summarise_call", "get_client_status"},
          notification |-> {"send_notification", "send_escalation_alert"},
          sales_manager |-> {"sales_manager_review", "sales_manager_decide"}])

wealth_personas == Listed("persona", {"advisor", "admin", "sales_manager", "client"})
wealth_permissions == Listed("permission", {<<"admin", "admin:config">>})
wealth_products == Offered({"gcf", "ecm", "dcm", "tfe"})

wealth_domain_seed(rows) ==
    rows \cup wealth_stages \cup wealth_transitions \cup wealth_task_routing \cup wealth_agents
         \cup wealth_capabilities \cup wealth_personas \cup wealth_permissions \cup wealth_products

retail_products == Offered({"cash_account", "retirement_account"})

wealth_pipelines ==
    LET standard == <<"suitability_assessment", "account_provisioning", "welcome_kit">>
    IN  Piped([cash_account |-> <<"suitability_assessment", "account_funding_setup",
                                  "account_provisioning", "welcome_kit">>,
               retirement_account |-> <<"suitability_assessment", "contribution_limits_check",
                                        "beneficiary_designation", "investment_selection",
                                        "account_provisioning", "welcome_kit">>,
               gcf |-> standard, ecm |-> standard, dcm |-> standard, tfe |-> standard])

\* Amounts in thousands, weights in hundredths.  No seed sets the criteria of
\* the activation gate, whose min_risk_level is 1 by default.
criteria(min_risk, min_age, min_income, ideal_horizons, is_retirement) ==
    [min_risk_level |-> 1, min_risk |-> min_risk, min_age |-> min_age, min_income |-> min_income,
     ideal_horizons |-> ideal_horizons, is_retirement |-> is_retirement,
     weights |-> [risk |-> 40, income |-> 30, age |-> 20, horizon |-> 10]]

seeded_criteria ==
    [cash_account |-> criteria(1, 18, 0, {"short_term", "medium_term", "long_term"}, FALSE),
     retirement_account |-> criteria(1, 18, 0, {"long_term"}, TRUE),
     gcf |-> criteria(3, 21, 100, {"long_term"}, FALSE),
     ecm |-> criteria(4, 21, 100, {"long_term"}, FALSE),
     dcm |-> criteria(3, 21, 100, {"medium_term", "long_term"}, FALSE),
     tfe |-> criteria(3, 21, 75, {"short_term", "medium_term"}, FALSE)]

\* A product that is there keeps its is_active.
product_pipeline_seed(rows) == upserted(inserted(rows, retail_products), wealth_pipelines)

sla_tracking(rows) ==
    inserted(rows, {Clock(s, "none", "none", TRUE, 70, 90) :
                      s \in {"INTAKE", "KYC", "PARALLEL_PRODUCTS", "REVIEW", "SALES_REVIEW", "ESCALATED"}}
                   \cup {Clock(s, "sme", "none", TRUE, 70, 90) : s \in {"INTAKE", "KYC"}})

skills_mcp_seed(rows) ==
    LET granted == {"kyc_compliance"} \X {"verify_identity", "check_sanctions", "score_aml_risk"}
                   \cup {"document_intelligence"} \X
                          {"upload_document", "retrieve_document", "get_document_status", "extract_ocr"}
    IN  inserted(rows, Listed("grant", granted)
                       \cup {Rec("skill", <<"kyc_compliance", "escalation">>, "0.7"),
                             Rec("prompt", <<"kyc_compliance", "escalation_assessment">>, "default")})

persona_permissions_expand(rows) == inserted(rows, Listed("persona", {"compliance_officer"}))

\* ADD COLUMN status DEFAULT 'APPROVED'.
domain_agent_status(rows) == {[r EXCEPT !.val = IF r.table = "roster" THEN "APPROVED" ELSE @] : r \in rows}

wealth_management ==
    domain_agent_status(persona_permissions_expand(skills_mcp_seed(
      sla_tracking(product_pipeline_seed(wealth_domain_seed({}))))))

-----------------------------------------------------------------------------
(* retail_deposit *)

deposit_stages ==
    Staged({"INTAKE", "VERIFICATION", "PRODUCT_SELECTION", "APPROVAL", "COMPLETE", "REJECTED"},
           {"COMPLETE", "REJECTED"}, {"APPROVAL"})

deposit_transitions ==
    Moves([INTAKE |-> {"VERIFICATION"},
           VERIFICATION |-> {"PRODUCT_SELECTION", "REJECTED"},
           PRODUCT_SELECTION |-> {"APPROVAL", "COMPLETE", "REJECTED"},
           APPROVAL |-> {"COMPLETE", "REJECTED", "VERIFICATION"}])

deposit_task_routing ==
    Routed([INTAKE |-> <<"customer_service", "collect_client_data">>,
            VERIFICATION |-> <<"kyc_compliance", "run_kyc_check">>,
            PRODUCT_SELECTION |-> <<"product_onboarding", "onboard_product">>,
            APPROVAL |-> <<"collaboration", "create_collaboration_room">>,
            COMPLETE |-> <<"notification", "send_notification">>,
            REJECTED |-> <<"notification", "send_notification">>])

deposit_agents ==
    {Rec("roster", a, "APPROVED") :
       a \in {"orchestrator", "customer_service", "kyc_compliance", "document_intelligence",
              "product_onboarding", "collaboration", "notification"}}

deposit_capabilities ==
    Able([orchestrator |-> {"start_onboarding", "resume_onboarding", "advance_stage", "escalate"},
          customer_service |-> {"collect_client_data", "continue_conversation"},
          kyc_compliance |-> {"run_kyc_check", "verify_identity"},
          document_intelligence |-> {"classify_document", "validate_document", "extract_ocr"},
          product_onboarding |-> {"onboard_product", "assess_suitability"},
          collaboration |-> {"create_collaboration_room", "add_comment"},
          notification |-> {"send_notification", "send_escalation_alert"}])

deposit_personas == Listed("persona", {"deposit_ops", "branch_manager", "customer"})
deposit_products == Offered({"savings_account", "checking_account", "deposit_cd"})

deposit_pipelines ==
    Piped([savings_account |-> <<"eligibility_check", "account_setup", "welcome_package">>,
           checking_account |-> <<"eligibility_check", "debit_card_setup", "account_activation">>,
           deposit_cd |-> <<"eligibility_check", "cd_terms_review", "cd_activation">>])

deposit_slas ==
    {Clock("INTAKE", "none", "none", TRUE, 75, 100), Clock("INTAKE", "sme", "none", TRUE, 75, 100),
     Clock("VERIFICATION", "none", "none", TRUE, 80, 100),
     Clock("PRODUCT_SELECTION", "none", "none", TRUE, 80, 100),
     Clock("PRODUCT_SELECTION", "none", "savings_account", FALSE, 50, 100),
     Clock("APPROVAL", "none", "none", TRUE, 80, 100)}

\* Run again, it leaves what is there and puts the capabilities anew.
setup(rows) ==
    inserted(upserted(inserted(rows, deposit_stages \cup deposit_transitions \cup deposit_task_routing
                                     \cup deposit_agents),
                      deposit_capabilities),
             deposit_personas \cup deposit_products \cup deposit_pipelines \cup deposit_slas)

retail_deposit == setup({})
=============================================================================
