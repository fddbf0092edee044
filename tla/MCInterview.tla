---------------------------- MODULE MCInterview ----------------------------
(* The client's answers, by conversation or by form; a behaviour has one of    *)
(* three themes: the conversation, the answers of the form, its products.      *)
(*                                                                             *)
(* The questionnaire of one product: an employment status whose answer decides *)
(* whether the employer is asked for, then a declaration of another            *)
(* questionnaire.                                                              *)
EXTENDS Interview, IntakeForm

CONSTANT Borne \* of the form: the causes after which it is followed further

VARIABLE theme

Question(id, type, options, rule, product, q) ==
  [field_id |-> id, field_type |-> type, options |-> options, refused |-> {"2"}, match_fields |-> {},
   required |-> TRUE, show_if |-> rule, product |-> product, questionnaire |-> q]

Employments == <<"Employed", "Retired", "Unemployed">>
IfEmployed == <<[field |-> "employment", operator |-> "in", value |-> {"Employed"}]>>

MCStored ==
  << Question("employment", "choice", Employments, <<>>, "cash", "q1"),
     Question("employer", "text", <<>>, IfEmployed, "cash", "q1"),
     Question("accurate", "choice", <<"Yes", "No">>, <<>>, "cash", "q2"),
     Question("desk", "text", <<>>, <<>>, "trading", "q2") >>

MCFallback ==
  << Question("employment", "choice", Employments, <<>>, "any", "none"),
     Question("funds", "text", <<>>, <<>>, "any", "none"),
     Question("pension", "choice", <<"Yes", "No">>,
              <<[field |-> "selected_products", operator |-> "contains", value |-> "pension"]>>,
              "any", "none") >>

Text(t, number, cues) == [text |-> t, number |-> number, words |-> 1, cues |-> cues]
MCMessages == {Text("Unemployed", 0, {}), Text("2", 2, {}), Text("No", 0, {"decline"})}

MCWithin == {<<"Employed", "Employed">>, <<"Employed", "Unemployed">>, <<"Unemployed", "Unemployed">>,
             <<"Yes", "Yes">>, <<"No", "No">>}

MCAsks == [cash |-> {"income"}, fund |-> {"income", "funds"}]
MCShowIf == [funds |-> [field |-> "income", values |-> {"x"}]]

MCInit ==
  /\ InterviewInit /\ FormInit
  /\ theme \in {"conversation", "answers", "products", "both"}
  /\ theme = "answers" => selected_products = {"fund"}
  /\ theme = "both" => selected_products = {"cash"}

Conversation == theme = "conversation" /\ InterviewNext /\ UNCHANGED formVars

\* Of the form, the answers to one product's questions (of the conditional one, one
\* value beside the document's), changes of the products alone, or one change among
\* two answers of one value.  Nothing follows what ends what is looked for: the
\* causes the run does not bear with, and KYC.
Form ==
  /\ theme # "conversation" /\ FormStep /\ UNCHANGED interviewVars
  /\ case_stage # "KYC" /\ causes \subseteq (IF theme = "products" THEN causes \ {"two changes"} ELSE Borne)
  /\ theme = "answers" => /\ issued'.changes = 0 /\ page'.local["funds"] # "y"
                          /\ \A p \in patches' : p.key = "funds" => p.value # "y"
  /\ theme = "products" => issued'.patches = 0 /\ page'.local = Blank
  /\ theme = "both" => /\ issued'.changes <= 1 /\ page'.analysing = {}
                       /\ \A k \in Keys : page'.local[k] \in {"x", NoAnswer}
                       /\ \A p \in patches' : p.value = "x"

MCNext == (Conversation \/ Form) /\ UNCHANGED theme
MCSpec == MCInit /\ [][MCNext]_<<interviewVars, formVars, theme>> /\ InterviewFairness
=============================================================================
