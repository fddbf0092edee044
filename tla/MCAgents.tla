------------------------------ MODULE MCAgents ------------------------------
(* The agents' work with two server processes.  Each behaviour takes one theme: *)
(* a case whose screening is computed while the rules are changed, the answers  *)
(* of a client, changes of one kind of setting, a product's track, one task by  *)
(* e-mail or to an agent, one note to a page that moves, or comments with their *)
(* notices.                                                                     *)
EXTENDS ScreenedOnboarding, ProductTrack, DirectTasks

CONSTANT Followed   \* the direct tasks that are run; the others are only sent

VARIABLE theme

Rule(action) == [action |-> action, risk_level |-> "any", product_type |-> "any", account_value_band |-> "any",
                 formats |-> TRUE]
MCBuiltin ==
  [HIGH_RISK_SCORE |-> Rule("ESCALATE"), SANCTIONS_MATCH |-> Rule("ESCALATE"),
   PEP_MATCH |-> Rule("ENHANCED_DD"), LARGE_CASH_ACCOUNT |-> Rule("ENHANCED_DD"),
   HIGH_RISK_NATIONALITY |-> Rule("REQUIRE_DOCUMENTS")]

Plain ==
  [sanctioned |-> FALSE, id_number_ok |-> TRUE, expired |-> FALSE, confidence |-> 99,
   citizenship |-> "plain", residence |-> "plain", pep_status |-> FALSE, senior |-> FALSE,
   source_of_funds |-> "text", sensitive |-> FALSE, annual_income |-> 100, income_is_range |-> TRUE,
   net_worth |-> 100, wealth_detail |-> TRUE, large_deposit |-> FALSE, products |-> {"cash_account"},
   draws |-> [country |-> 2, sow |-> 2, occupation |-> 2]]

AnsweredClients ==
  {c \in {[Plain EXCEPT !.sanctioned = s, !.expired = e, !.confidence = n, !.citizenship = z,
                        !.senior = p, !.source_of_funds = f, !.annual_income = i, !.income_is_range = FALSE,
                        !.net_worth = w, !.wealth_detail = FALSE,
                        !.draws = [country |-> x, sow |-> y, occupation |-> 25]] :
            s \in BOOLEAN, e \in BOOLEAN, n \in {72, 80, 99}, z \in {"plain", "iso", "name"},
            p \in BOOLEAN, f \in {"text", "suspicious", "Other", "list"}, i \in {0, 300, 600},
            w \in {100, 6000}, x \in {25, 70, 95}, y \in {2, 30, 55, 85}} : Drawn(c)}

Sanctioned == [Plain EXCEPT !.sanctioned = TRUE]
Screened == {Plain, Sanctioned}
Custom == [Rule("ESCALATE") EXCEPT !.risk_level = "MEDIUM", !.formats = FALSE]

MCPipelines == {<<"suit", "open", "fund">>, <<"open", "suit", "fund">>, <<"bad">>, <<>>}
MCFallback == <<"suit", "open", "welcome">>
Seeds == INSTANCE SeededDomains
Seeded == Seeds!seeded_criteria["retirement_account"]
Malformed == [Seeded EXCEPT !.weights = [none |-> 0]]
MCBadCriterias == {Malformed}
MCCriterias == {Malformed, Seeded,
                [Seeded EXCEPT !.min_risk_level = 2, !.min_income = 200, !.min_risk = 5, !.is_retirement = FALSE,
                               !.weights = [risk |-> 10, income |-> 10, age |-> 10, horizon |-> 70]]}
Person(age, income, objective) == [age |-> age, income |-> income, objective |-> objective]
MCClients == {Person(0, 75, "growth"), Person(18, 20, "preservation"), Person(50, 75, "income"),
              Person(70, 75, "speculation"), Person(50, 75, "no_text")}

RuleChange(p) ==
  /\ \/ update_rule(p, "HIGH_RISK_SCORE", Rule("REQUIRE_DOCUMENTS"))
     \/ add_rule(p, "CUSTOM", Custom) \/ remove_rule(p, "CUSTOM") \/ reset_rules(p)
  /\ Still

PromptChange(p) ==
  /\ \E c \in {"identity", "financial"} : set_prompt_override(p, c, "text") \/ reset_prompt_override(p, c)
  /\ Still

LlmChange(p) ==
  /\ \E u \in {[provider |-> "openai"], [temperature |-> 0], [temperature |-> 1]} :
        set_overrides(p, u) \/ clear_overrides(p)
  /\ Still

MCPackets ==
  {advisor_letter} \cup document_status_letters("REQUESTED")
  \cup {k \in track_packets("COMPLETED") : k.to = "orchestrator"}
  \cup upload_orders \cup resume_orders("PARALLEL_PRODUCTS", FALSE)

DirectStep ==
  \/ theme = "mail" /\ \/ \E t \in Followed : SendStep(t)
                       \/ \E p \in Servers : ProcessStops(p)
  \/ theme = "note" /\ \/ PageStep
                       \/ \E t \in Followed : SendStep(t) /\ for_page(tasks'[t].packet)
  \/ theme = "posts" /\ \E c \in Posts : PostStep(c)

\* One product, and the signals the code sends (README, "Senders").
MCSelections == {<<"cash_account">>}
SentTargets == {"REVIEW", "KYC"}

\* The two rules a match triggers are changed while a check runs: a change made
\* before is as good as one made when the check is scheduled.  No change is written
\* yet, so that a server that starts again has the built-in rules.
ScreenedSettings ==
  /\ ~disarmed /\ pc = "screening"
  /\ \E p \in Processes :
       \/ (\E id \in MatchRules : update_rule(p, id, Rule("REQUIRE_DOCUMENTS"))) /\ Still
       \/ RestartServer(p, {})
  /\ UNCHANGED vars

First == CHOOSE p \in Processes : TRUE

\* The grants are not what these themes are about: a look-up finds its row.
GrantAnswered == ReadGrant(ThisCase) \/ CacheAnswer(ThisCase)

ScreenedStep ==
  /\ theme = "screened"
  /\ \/ CaseGoesOn(Screened) \/ KycGoesOn \/ ScreenedSettings
     \/ GrantAnswered /\ UNCHANGED vars

MCInit ==
  /\ theme \in {"screened", "products", "answers", "rules", "prompts", "llm", "grants",
                "mail", "note", "posts"}
  /\ TrackInit
  /\ DirectInit
  /\ theme # "products" => pipeline = <<>> /\ criteria = Seeded /\ product = "PENDING"
  /\ ScreenedInit(IF theme = "answers" THEN AnsweredClients ELSE IF theme = "screened" THEN Screened ELSE {Plain})
  /\ theme # "grants" => granted = ToolSet /\ seeded

\* DivergenceHasCause says nothing more once a store is spoilt.
Tells == spoilt = {}

Settings ==
  /\ \/ theme \in {"answers", "grants"} /\ CheckStep
     \/ theme = "answers" /\ GrantAnswered
     \/ theme = "grants" /\ \E a \in Others : CheckToolGrant(a, First, Tools[1])
     \/ theme = "grants" /\ \E a \in Askers : LookUp(a)
     \/ theme = "answers" /\ BeginAttempt(First)
     \/ theme = "grants" /\ \E p \in Processes : BeginAttempt(p)
     \/ theme = "rules" /\ Tells /\ \E p \in Processes : RuleChange(p)
     \/ theme = "prompts" /\ Tells /\ \E p \in Processes : PromptChange(p)
     \/ theme = "llm" /\ Tells /\ \E p \in Processes : LlmChange(p)
     \/ theme \in {"rules", "prompts", "llm"} /\ TaskStep /\ Still
     \/ theme \in {"rules", "prompts", "llm"} /\ \E p \in Processes : \E unread \in {{}, {theme}} : RestartServer(p, unread)
     \/ theme = "grants" /\ \E p \in Processes : RestartServer(p, {})
     \/ theme = "grants" /\ \E g \in {{}, ToolSet} : ChangeGrants(g)
  /\ UNCHANGED vars

\* A change is as good as one made just before what it changes is next read.
EditsTell ==
  /\ pipeline' # pipeline => pass.at \in {"ended", "raised"}
  /\ criteria' # criteria => pass.at \in {"assessing", "gate"}

MCNext ==
  /\ \/ (ScreenedStep \/ Settings) /\ Noted /\ UNCHANGED <<trackVars, directVars>>
     \/ theme = "products" /\ TrackStep /\ EditsTell /\ UNCHANGED <<screenedVars, directVars>>
     \/ DirectStep /\ UNCHANGED <<screenedVars, trackVars>>
  /\ UNCHANGED theme

MCSpec == MCInit /\ [][MCNext]_<<screenedVars, trackVars, directVars, theme>>
MCSymmetry == Permutations(Tasks)
=============================================================================
