------------------------------ MODULE KycCheck ------------------------------
(***************************************************************************)
(* The KYC activity (agents/kyc_compliance/graph.py): three tools of the   *)
(* identity_verification connector, each behind the tool-grant check of    *)
(* mcp/mcp_connector.py, then the risk score, the checkpoint rules of the  *)
(* process the activity runs in, and the outcome.  Temporal runs it up to  *)
(* MaxTries times, in any of the processes.  The activities of other cases *)
(* run in the same processes; of them only what they share with this one   *)
(* is modelled, their look-ups of tool grants.                             *)
(*                                                                         *)
(* The tools draw their figures from a generator seeded with the client's  *)
(* name, so that they are the client's and the same in every attempt.      *)
(* Money is in thousands, tool figures in hundredths, risk scores in       *)
(* hundredths and their composite in thousandths of a point.               *)
(***************************************************************************)
EXTENDS ConfigStore, FiniteSetsExt, Sequences

CONSTANTS
    MaxTries,      \* _STANDARD_RETRY
    Threshold,     \* escalation_threshold as the skill binding gives it
    ThisCase,      \* this case's activity,
    Others         \* and those of other cases

ASSUME KycAssumption ==
    /\ {"HIGH_RISK_SCORE", "SANCTIONS_MATCH"} \subseteq DOMAIN Builtin
    /\ IsFiniteSet(Others) /\ ThisCase \notin Others

VARIABLES
    client,        \* the answers of the client and what the tools draw for them
    check,         \* the activity: attempt, process, next step, results
    granted,       \* the tools domain_agent_tool_grants has a row for
    seeded,        \* does the domain exist
    grant_cache,   \* process -> tool -> _grant_cache
    asks,          \* activity -> its look-up that waits for the database
    let_through,   \* process -> tool -> uses of a tool whose refusal was cached
    under_way      \* process -> tool -> look-ups under way when an answer was first cached

askVars == <<grant_cache, asks, let_through, under_way>>
kycVars == <<client, check, granted, seeded, askVars, storeVars>>

Tools == <<"verify_identity", "check_sanctions", "score_aml_risk">>
ToolSet == {Tools[i] : i \in DOMAIN Tools}
Unasked == [t \in ToolSet |-> "unasked"]
Nobody == [p \in Processes |-> Unasked]
Zero == [t \in ToolSet |-> 0]
Askers == Others \cup {ThisCase}
NoAsk == [at |-> "idle", proc |-> CHOOSE p \in Processes : TRUE, tool |-> "check_sanctions"]

-----------------------------------------------------------------------------
(* The tools. *)

\* A date that does not parse counts as not expired.
verify_identity(c) ==
    [confidence |-> c.confidence,
     verified   |-> c.confidence >= 80 /\ c.id_number_ok /\ ~c.expired,
     flags      |-> IF c.expired THEN {"DOCUMENT_EXPIRED"} ELSE {}]

\* The country lists of the connector hold ISO codes, that of the risk scorer names.
factors(c) ==
    [pep_status       |-> IF c.pep_status \/ c.senior THEN 90 ELSE 5,
     country_risk     |-> c.draws.country,
     source_of_wealth |-> IF c.annual_income > 500 THEN Min({c.draws.sow + 10, 100}) ELSE c.draws.sow,
     occupation       |-> c.draws.occupation]

HighRiskCountry(c) == c.citizenship = "iso" \/ c.residence = "iso"

\* Can the generator draw these figures for this client?
Drawn(c) ==
    /\ c.draws.country \in IF HighRiskCountry(c) THEN 70..95 ELSE 2..25
    /\ c.draws.sow \in IF c.source_of_funds = "suspicious" THEN 55..85 ELSE 2..30
    /\ c.draws.occupation \in IF c.sensitive THEN 40..70 ELSE 2..25

score_aml_risk(c) ==
    LET f == factors(c)
        total == 35 * f.pep_status + 30 * f.country_risk + 20 * f.source_of_wealth + 15 * f.occupation
    IN  [risk_band    |-> CASE total >= 7000 -> "VERY_HIGH"
                            [] total >= 5000 -> "HIGH"
                            [] total >= 2500 -> "MEDIUM"
                            [] OTHER -> "LOW",
         risk_factors |-> f]

\* What a tool returns; a list of sources has no lower().
Raises(tool, c) == tool = "score_aml_risk" /\ c.source_of_funds = "list"

build_verification_dict(c) ==
    LET v == verify_identity(c)
        a == score_aml_risk(c)
    IN  [name_match_confidence |-> v.confidence,
         document_authentic |-> v.verified /\ "DOCUMENT_EXPIRED" \notin v.flags,
         document_valid |-> v.verified,
         sanctions_match |-> c.sanctioned,
         pep_match |-> c.pep_status,
         aml_risk_level |-> IF a.risk_band = "VERY_HIGH" THEN "HIGH" ELSE a.risk_band,
         aml_risk_factors |-> {k \in DOMAIN a.risk_factors : a.risk_factors[k] > 30}]

-----------------------------------------------------------------------------
(* The score. *)

identity_score(v) ==
    IF v.sanctions_match THEN 10000
    ELSE IF ~v.document_authentic THEN 9000
    ELSE Min({(100 - v.name_match_confidence) * 50 + (IF v.document_valid THEN 0 ELSE 2500), 10000})

aml_score_unsanctioned(v) ==
    LET level == CASE v.aml_risk_level = "HIGH" -> 6000
                   [] v.aml_risk_level = "MEDIUM" -> 3000
                   [] OTHER -> 1000
    IN  Min({Max({IF v.pep_match THEN 7000 ELSE 0, level}) + 500 * Cardinality(v.aml_risk_factors), 10000})

aml_score(v) == IF v.sanctions_match THEN 10000 ELSE aml_score_unsanctioned(v)

\* An income given as a range is no number, and counts as none.
profile_score(c) ==
    LET income == IF c.income_is_range THEN 0 ELSE c.annual_income
        points(p, n) == IF p THEN n ELSE 0
    IN    points(c.citizenship = "name", 4000) + points(c.source_of_funds = "Other", 2000)
        + points(c.net_worth > 5000, 1500) + points(income > 0 /\ c.net_worth > 10 * income, 1000)
        + points(income > 250 /\ ~c.wealth_detail, 1000)

composite(c, v) == Min({4 * identity_score(v) + 4 * aml_score(v) + 2 * profile_score(c), 100000})

band(score) ==
    CASE score <= 30000 -> "LOW"
      [] score <= 60000 -> "MEDIUM"
      [] score <= 80000 -> "HIGH"
      [] OTHER -> "VERY_HIGH"

-----------------------------------------------------------------------------
(* The checkpoint rules. *)

\* A dimension a rule of the administrator's does not give is "any".
triggered(id, rule, c, v) ==
    LET risk_band == band(composite(c, v))
        account_band == IF c.large_deposit THEN "LARGE" ELSE "NORMAL"
    IN  CASE id = "HIGH_RISK_SCORE" -> risk_band \in {"HIGH", "VERY_HIGH"}
          [] id = "SANCTIONS_MATCH" -> v.sanctions_match
          [] id = "PEP_MATCH" -> v.pep_match
          [] id = "LARGE_CASH_ACCOUNT" -> "cash_account" \in c.products /\ account_band = "LARGE"
          [] id = "HIGH_RISK_NATIONALITY" -> c.citizenship = "name"
          [] OTHER -> /\ rule.risk_level \in {"any", risk_band}
                      /\ rule.product_type \in {"any"} \cup c.products
                      /\ rule.account_value_band \in {"any", account_band}

\* (The first: it takes every triggered rule to escalate.)
evaluate_all(rules, c, v) ==
    LET on == {id \in DOMAIN rules : triggered(id, rules[id], c, v)}
    IN  [should_escalate |-> on # {} /\ \A id \in on : rules[id].action = "ESCALATE",
         triggered |-> on]
evaluate(rules, c, v) ==
    LET on == {id \in DOMAIN rules : triggered(id, rules[id], c, v)}
    IN  [should_escalate |-> \E id \in on : rules[id].action = "ESCALATE",
         triggered |-> on]

\* A reason with a placeholder the engine does not fill cannot be formatted.
Unformatted(rules, c, v) == \E id \in evaluate(rules, c, v).triggered : ~rules[id].formats

\* The items of the evidence packet that count against the client.
risk_relevant(c, v) ==
       {i \in {"identity"} : ~v.document_authentic}
  \cup {i \in {"screening"} : v.sanctions_match \/ v.pep_match \/ v.aml_risk_factors # {}}
  \cup {i \in {"score"} : composite(c, v) > 30000}
  \cup {i \in {"source_of_funds"} : c.source_of_funds \in {"Other", "list"}}

\* The escalation skill without a client profile: a threshold and nothing else.
advice(c, v, threshold) == IF composite(c, v) >= threshold THEN "ESCALATE" ELSE "APPROVE"

outcome(c, v, checkpoint) ==
    IF checkpoint.should_escalate THEN "ESCALATED"
    ELSE IF ~v.document_authentic THEN "FAILED" ELSE "PASSED"

-----------------------------------------------------------------------------
(* The activity. *)

\* An activity that is scheduled, and not yet taken by a process.
Unstarted == [attempt |-> 0, proc |-> CHOOSE p \in Processes : TRUE, step |-> 0, at |-> "idle",
              status |-> "none", next_stage |-> "KYC", evidence |-> {}, advice |-> "none"]

KycInit(clients) ==
    /\ StoreInit
    /\ client \in clients
    /\ check = Unstarted
    /\ granted \in {{}, ToolSet} /\ seeded \in BOOLEAN
    /\ granted # {} => seeded
    /\ grant_cache = Nobody
    /\ asks = [a \in Askers |-> NoAsk]
    /\ let_through = [p \in Processes |-> Zero] /\ under_way = [p \in Processes |-> Zero]

Tool == Tools[check.step]
Failed == {"refused", "raised", "unformatted"}

BeginAttempt(p) ==
    /\ check.at \in {"idle"} \cup Failed /\ check.attempt < MaxTries
    /\ check' = [check EXCEPT !.attempt = @ + 1, !.proc = p, !.step = 1, !.at = "tool"]
    /\ UNCHANGED <<client, granted, seeded, askVars, storeVars>>

Goto(at) == check' = [check EXCEPT !.at = at]

-----------------------------------------------------------------------------
(* _check_tool_grant.  A cached answer is final.  Otherwise the row is looked   *)
(* for, the answer cached, and, when it is no, the domain looked for: two       *)
(* queries that are awaited, and the activities of a process share its cache.   *)

Idle(a) == asks[a].at = "idle"
Looking(p, t) == {a \in Askers : ~Idle(a) /\ asks[a].proc = p /\ asks[a].tool = t}

\* What this case's activity learns of a look-up, unless it was given up meanwhile.
Learns(a, verdict) ==
    check' = IF a = ThisCase /\ (Idle(a) \/ check.at = "asking") THEN [check EXCEPT !.at = verdict] ELSE check

Concludes(a, verdict) == Learns(a, verdict) /\ asks' = [asks EXCEPT ![a] = NoAsk]

CheckToolGrant(a, p, t) ==
    /\ Idle(a)
    /\ \/ grant_cache[p][t] = "yes" /\ Concludes(a, "invoke")
       \/ grant_cache[p][t] = "no" /\ Concludes(a, "refused")
       \/ /\ grant_cache[p][t] = "unasked"
          /\ asks' = [asks EXCEPT ![a] = [at |-> "query", proc |-> p, tool |-> t]]
          /\ Learns(a, "asking")
    /\ UNCHANGED <<client, granted, seeded, grant_cache, let_through, under_way, storeVars>>

ReadGrant(a) ==
    /\ asks[a].at = "query"
    /\ asks' = [asks EXCEPT ![a].at = IF asks[a].tool \in granted THEN "yes" ELSE "no"]
    /\ UNCHANGED <<client, check, granted, seeded, grant_cache, let_through, under_way, storeVars>>

Granted(a) ==
    IF asks[a].at = "yes" THEN Concludes(a, "invoke")
    ELSE asks' = [asks EXCEPT ![a].at = "domain"] /\ UNCHANGED check

\* (The first: only a grant is cached.)
CacheGrantOnly(a) ==
    /\ asks[a].at \in {"yes", "no"}
    /\ grant_cache' = IF asks[a].at = "no" THEN grant_cache
                      ELSE [grant_cache EXCEPT ![asks[a].proc][asks[a].tool] = "yes"]
    /\ Granted(a)
    /\ UNCHANGED <<client, granted, seeded, let_through, under_way, storeVars>>

CacheAnswer(a) ==
    /\ asks[a].at \in {"yes", "no"}
    /\ LET p == asks[a].proc
           t == asks[a].tool
       IN  /\ grant_cache' = [grant_cache EXCEPT ![p][t] = asks[a].at]
           /\ under_way' = IF grant_cache[p][t] = "unasked"
                           THEN [under_way EXCEPT ![p][t] = Cardinality(Looking(p, t))] ELSE under_way
    /\ Granted(a)
    /\ UNCHANGED <<client, granted, seeded, let_through, storeVars>>

LetThrough(a) ==
    /\ let_through' = [let_through EXCEPT ![asks[a].proc][asks[a].tool] = @ + 1]
    /\ Concludes(a, "invoke")

DomainExists(a) ==
    /\ asks[a].at = "domain"
    /\ IF seeded THEN Concludes(a, "refused") /\ UNCHANGED let_through ELSE LetThrough(a)
    /\ UNCHANGED <<client, granted, seeded, grant_cache, under_way, storeVars>>

\* An error of either query, or of giving its connection back, lets the tool through.
QueryFails(a) ==
    /\ ~Idle(a)
    /\ IF asks[a].at = "domain" THEN LetThrough(a) ELSE Concludes(a, "invoke") /\ UNCHANGED let_through
    /\ UNCHANGED <<client, granted, seeded, grant_cache, under_way, storeVars>>

LookUp(a) == ReadGrant(a) \/ CacheAnswer(a) \/ DomainExists(a) \/ QueryFails(a)

AskGrant == check.at = "tool" /\ CheckToolGrant(ThisCase, check.proc, Tool)

\* What the activities of the other cases do in this one's processes.
OthersAsk == \E a \in Others, p \in Processes, t \in ToolSet : CheckToolGrant(a, p, t)

-----------------------------------------------------------------------------
(* The tools, the evaluation, and the attempts. *)

InvokeTool ==
    /\ check.at = "invoke"
    /\ IF Raises(Tool, client) THEN Goto("raised")
       ELSE check' = [check EXCEPT !.step = @ + 1, !.at = IF check.step = Len(Tools) THEN "score" ELSE "tool"]
    /\ UNCHANGED <<client, granted, seeded, askVars, storeVars>>

Evaluate ==
    /\ check.at = "score"
    /\ LET v == build_verification_dict(client)
           rules == cache["rules"][check.proc]
           status == outcome(client, v, evaluate(rules, client, v))
       IN  IF Unformatted(rules, client, v) THEN Goto("unformatted")
           ELSE check' = [check EXCEPT !.at = "done", !.status = status,
                            !.next_stage = IF status = "PASSED" THEN "PARALLEL_PRODUCTS" ELSE "ESCALATED",
                            !.evidence = risk_relevant(client, v), !.advice = advice(client, v, Threshold)]
    /\ UNCHANGED <<client, granted, seeded, askVars, storeVars>>

\* The activity has failed for good, and the workflow with it.
GiveUp ==
    /\ check.at \in Failed /\ check.attempt = MaxTries
    /\ Goto("fatal")
    /\ UNCHANGED <<client, granted, seeded, askVars, storeVars>>

\* Seeding, and the administrator's add_tool_grant and remove_tool_grant:
\* no cache is told.
ChangeGrants(tools) ==
    /\ seeded' = TRUE /\ granted' = tools
    /\ <<seeded, granted>> # <<TRUE, tools>>
    /\ UNCHANGED <<client, check, askVars, storeVars>>

\* A server process starts again: startup clears the grant cache and loads the
\* settings, and its look-ups are lost.  The activity has no other timeout than
\* schedule_to_close, so that an attempt lost with its process is never repeated.
RestartServer(p, unread) ==
    /\ Restart(p, unread)
    /\ grant_cache' = [grant_cache EXCEPT ![p] = Unasked]
    /\ asks' = [a \in Askers |-> IF asks[a].proc = p THEN NoAsk ELSE asks[a]]
    /\ let_through' = [let_through EXCEPT ![p] = Zero]
    /\ under_way' = [under_way EXCEPT ![p] = Zero]
    /\ check' = IF check.proc = p /\ check.at \in {"tool", "asking", "invoke", "score"}
                THEN [check EXCEPT !.at = "timed_out"] ELSE check
    /\ UNCHANGED <<client, granted, seeded>>

CheckStep == AskGrant \/ InvokeTool \/ Evaluate \/ GiveUp

\* What a change of the settings leaves alone.
Still == UNCHANGED <<client, check, granted, seeded, askVars>>

KycNext(keys, values) ==
    \/ CheckStep \/ OthersAsk \/ \E a \in Askers : LookUp(a)
    \/ \E p \in Processes : BeginAttempt(p)
    \/ \E tools \in SUBSET ToolSet : ChangeGrants(tools)
    \/ \E p \in Processes, unread \in SUBSET Stores : RestartServer(p, unread)
    \/ (StoreChange(keys, values) \/ TaskStep) /\ Still

KycSpec(clients, keys, values) == KycInit(clients) /\ [][KycNext(keys, values)]_kycVars

-----------------------------------------------------------------------------
(* Properties. *)

\* A client on a sanctions list passes only if the process that evaluates the
\* check has two rules that no longer escalate: the match gives the identity
\* and the AML part their full points, so that the band is at least HIGH
\* whatever the client answers.
SanctionedNeedsTwoRules ==
    [][check'.status = "PASSED" /\ check.status # "PASSED" /\ client.sanctioned =>
          \A id \in {"HIGH_RISK_SCORE", "SANCTIONS_MATCH"} :
             cache["rules"][check.proc][id].action # "ESCALATE"]_kycVars

\* The exception for a domain that is not seeded yet is no open door.  Between
\* two starts, a process that has cached a refusal lets the tool through for no
\* more look-ups than were under way when it first cached an answer, its own
\* included: once, when no two overlap.  Two of one process may overlap across
\* the query, and then the other is let through as well, and an answer that was
\* read early may be cached late, over a newer one.  (A query that fails lets
\* the tool through and caches nothing.)
LetThroughWhileAsked == \A p \in Processes : \A t \in ToolSet : let_through[p][t] <= under_way[p][t]

\* A questionnaire answered as the seeds put it can be screened: no tool raises
\* on an answer of a type the questionnaire offers.  The connector declares
\* source_of_wealth a string; the seeded question is a multi_select.
AnswersAreScreened == check.at # "raised"

-----------------------------------------------------------------------------
(* What makes them inductive. *)

Check ==
    [attempt : Nat, proc : Processes, step : Nat,
     at : {"idle", "tool", "asking", "invoke", "score", "done", "fatal", "timed_out"} \cup Failed,
     status : {"none", "PASSED", "FAILED", "ESCALATED"},
     next_stage : {"KYC", "PARALLEL_PRODUCTS", "ESCALATED"},
     evidence : SUBSET {"identity", "screening", "score", "source_of_funds"},
     advice : {"none", "ESCALATE", "APPROVE"}]

Ask == [at : {"idle", "query", "yes", "no", "domain"}, proc : Processes, tool : ToolSet]

KycTypeOK ==
    /\ check \in Check
    /\ grant_cache \in [Processes -> [ToolSet -> {"unasked", "yes", "no"}]]
    /\ asks \in [Askers -> Ask]
    /\ let_through \in [Processes -> [ToolSet -> Nat]]
    /\ under_way \in [Processes -> [ToolSet -> Nat]]

\* Once a process has an answer no look-up of the tool begins, so that those let
\* through and those still under way are together no more than there were then.
Bounded(p, t) ==
    IF grant_cache[p][t] = "unasked"
    THEN let_through[p][t] = 0 /\ \A a \in Looking(p, t) : asks[a].at # "domain"
    ELSE let_through[p][t] + Cardinality(Looking(p, t)) <= under_way[p][t]

GrantInv ==
    /\ KycTypeOK
    /\ check.at \in {"tool", "asking", "invoke"} => check.step \in 1..3
    /\ \A p \in Processes : \A t \in ToolSet : Bounded(p, t)

=============================================================================
