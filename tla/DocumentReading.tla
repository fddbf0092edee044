--------------------------- MODULE DocumentReading ---------------------------
(***************************************************************************)
(* What is read from an uploaded document, and what is made of it: OCR by  *)
(* the vision model or, when it fails, from a template filled in with the  *)
(* client's answers; the completeness verdict, by a language model or by   *)
(* rules; and the comparison with the document it replaces                 *)
(* (agents/document_intelligence, services/validation).                    *)
(*                                                                         *)
(* A validation is one step here; DocumentReview has what can happen       *)
(* between its reads and its write.  Percentages and messages are left     *)
(* out: a verdict is its overall status.                                   *)
(***************************************************************************)
EXTENDS FiniteSets, Sequences, Integers

CONSTANTS
    Formats,     \* of the files: image, pdf (with text), scan, blank scan, word
    Contents,    \* what a file may show: sequences of lines
    Names,       \* names the client may give
    Prompts,     \* what administrators may put in the place of a prompt: sets of factors
    MaxChanges   \* bound: how often answers, models and prompts change

Categories == {"identity", "financial", "legal", "insurance", "compliance", "entity", "unknown"}

Line(label, value) == [label |-> label, value |-> value]

\* A factor of a prompt: the keys whose text is part of its, and whether it is
\* about validity.
Factor(keys) == [keys |-> keys, dated |-> FALSE]
Dated(keys) == [keys |-> keys, dated |-> TRUE]

DefaultFactors ==
    [identity |-> {Factor({"full_name"}), Factor({"date_of_birth"}), Factor({"document_number", "id_number"}),
                   Dated({"expiry_date"}), Factor({"nationality"}), Factor({"photo"})},
     financial |-> {Factor({"account_holder"}), Factor({"statement period"}), Factor({"closing_balance"}),
                    Factor({"institution name"}), Factor({"alteration"})},
     legal |-> {Factor({"signed"}), Factor({"grantor", "attorney", "trustee", "beneficiary"}),
                Factor({"execution date"}), Factor({"jurisdiction"}), Dated({"expired"})},
     insurance |-> {Factor({"policyholder"}), Factor({"policy_number"}), Factor({"sum_assured"}),
                    Dated({"expired"}), Factor({"insurer"})},
     compliance |-> {Factor({"client_name"}), Factor({"tax_residency"}), Factor({"tin"}), Factor({"pep"}),
                     Factor({"date_completed"}), Factor({"signature"})},
     entity |-> {Factor({"company_name"}), Factor({"registration_number"}), Factor({"registration_date"}),
                 Factor({"status"}), Factor({"directors"})},
     unknown |-> {Factor({"readable text"}), Factor({"identifying field"})}]

\* Templates without answers: the labels, every one with the same value.
FallbackKeys ==
    [identity |-> {"full_name", "date_of_birth", "document_number", "expiry_date", "nationality", "photo"},
     financial |-> {"account_holder", "statement_period", "closing_balance", "bank_name"},
     legal |-> {"grantor", "attorney", "establishment_date", "governing_jurisdiction"},
     insurance |-> {"policyholder", "policy_number", "sum_assured", "insurer", "expiry_date"},
     compliance |-> {"client_name", "tax_residency", "tin", "pep", "date_completed", "signature"},
     entity |-> {"company_name", "registration_number", "registration_date", "status", "directors"},
     unknown |-> {}]

ShowFunds == {"financial", "compliance"}

\* Templates with answers have more labels, whether or not they are answered.
AnsweredKeys(c) ==
    FallbackKeys[c] \cup
      CASE c = "identity" -> {"id_number"}
        [] c = "financial" -> {"annual_income", "source_of_funds"}
        [] c = "legal" -> {"full_name"}
        [] c = "compliance" -> {"occupation", "employer", "source_of_funds"}
        [] c = "entity" -> {"beneficial_owners"}
        [] OTHER -> {}

NoAnswers == [given |-> FALSE]
Answers == {NoAnswers} \cup [given : {TRUE}, name : Names, funds : {"one", "several"}]

\* A reading: by the model, by a template, or none; the keys of its fields, its
\* text, whether its quality is low, and the answers it was made from.
NoReading == [by |-> "nobody", keys |-> {}, text |-> <<>>, low |-> TRUE, answers |-> NoAnswers]

VARIABLES
    category, format, content,  \* of the first version and of the one that replaces it
    answers,    \* shared_context["client_data"]
    up,         \* the models that answer: "vision", "language"
    factors,    \* the admin's override of the category's prompt, or the default
    ocr,        \* documents.ocr_result
    verdict,    \* documents.validation_result
    diff_result,       \* documents.diff_result of the second version
    changed     \* bound

readVars == <<category, format, content, answers, up, factors, ocr, verdict, diff_result, changed>>
uploads == <<category, format, content>>

NoVerdict == [overall |-> "none", read_by |-> "nobody", by |-> "nobody", prompt |-> {}]
NoDiff == [same |-> FALSE, of |-> <<NoReading, NoReading>>, done |-> FALSE]

ReadInit ==
    /\ category \in Categories
    /\ format \in [1..2 -> Formats] /\ content \in [1..2 -> Contents]
    /\ answers \in Answers /\ up \in SUBSET {"vision", "language"}
    /\ factors = DefaultFactors[category]
    /\ ocr = [d \in 1..2 |-> NoReading] /\ verdict = [d \in 1..2 |-> NoVerdict]
    /\ diff_result = NoDiff /\ changed = 0

-----------------------------------------------------------------------------
(* OCR. *)

\* A text of a page, or its image: what the vision model can be asked about.
Prepared(d) == format[d] \in {"image", "pdf", "scan"}

\* The model names the lines it has read, more or less surely, with their text
\* or without.  It may also answer that there is nothing.
llm_readings(d) ==
    {[by |-> "model", keys |-> {}, text |-> <<>>, low |-> TRUE, answers |-> NoAnswers]}
    \cup [by : {"model"}, keys : {UNION {g.keys : g \in DefaultFactors[category]}},
          text : {<<>>, content[d]}, low : BOOLEAN, answers : {NoAnswers}]

\* What a template says for the answers a.
template_text(a) ==
    IF category = "unknown" \/ ~a.given THEN <<Line("", category)>>
    ELSE <<Line("", category), Line("name", a.name)>>
           \o (IF category \in ShowFunds THEN <<Line("funds", a.funds)>> ELSE <<>>)

\* A list is not a field's value: the reading raises.
Raises == answers.given /\ category \in ShowFunds /\ answers.funds = "several"

simulated_extract ==
    [by |-> "template", text |-> template_text(answers), answers |-> answers, low |-> category = "unknown",
     keys |-> IF answers.given THEN AnsweredKeys(category) ELSE FallbackKeys[category]]

\* Any failure of the model falls back on the template.  A reading that raised
\* is not stored.
extract(d) ==
    IF Prepared(d) /\ "vision" \in up THEN llm_readings(d)
    ELSE {IF Raises THEN NoReading ELSE simulated_extract}

\* A stored reading is used as long as there is something in it.
stored(d) == ocr[d].keys # {} \/ ocr[d].text # <<>>
readings(d) == IF stored(d) THEN {ocr[d]} ELSE extract(d)

-----------------------------------------------------------------------------
(* The verdict. *)

\* (The first: validity before presence.)
severity_dated_first(f, r) ==
    IF f.dated \/ r.low THEN "warn" ELSE IF f.keys \cap r.keys # {} THEN "pass" ELSE "fail"

severity(f, r) ==
    IF f.keys \cap r.keys # {} THEN "pass" ELSE IF f.dated \/ r.low THEN "warn" ELSE "fail"

heuristic_validate(r) == IF factors = {} THEN {"warn"} ELSE {severity(f, r) : f \in factors}

overall(findings) ==
    IF "fail" \in findings THEN "fail" ELSE IF "warn" \in findings THEN "warn" ELSE "pass"

\* No answer of the language model, or an empty one: the rules decide.
validate(r) ==
    {[overall |-> overall(heuristic_validate(r)), read_by |-> r.by, by |-> "rules", prompt |-> factors]}
    \cup IF "language" \in up
         THEN {[overall |-> o, read_by |-> r.by, by |-> "model", prompt |-> factors] : o \in {"pass", "warn", "fail"}}
         ELSE {}

validate_document(d) ==
    \E r \in readings(d) : \E v \in validate(r) :
        /\ ocr' = IF r = NoReading THEN ocr ELSE [ocr EXCEPT ![d] = r]
        /\ verdict' = [verdict EXCEPT ![d] = v]
        /\ UNCHANGED <<uploads, answers, up, factors, diff_result, changed>>

-----------------------------------------------------------------------------
(* The comparison of the two versions. *)

labels(text) == {IF text[i].label = "" THEN <<"line", i>> ELSE <<"label", text[i].label>> : i \in DOMAIN text}

\* The last line with a label counts.
tokenise(text) ==
    [k \in labels(text) |->
       IF k[1] = "line" THEN text[k[2]].value
       ELSE text[CHOOSE i \in DOMAIN text :
                   /\ text[i].label = k[2]
                   /\ \A j \in DOMAIN text : j > i => text[j].label # k[2]].value]

\* A reading without text is put together from its fields; one without fields
\* is replaced by a text made up from the row, which names the version.
raw_text(d) ==
    IF ocr[d].text # <<>> THEN ocr[d].text
    ELSE IF ocr[d].keys # {} THEN SelectSeq(content[d], LAMBDA l : l.label # "")
    ELSE <<Line("", IF d = 1 THEN "version 1" ELSE "version 2"), Line("category", category)>>

\* (The first: what the old version has.)
sections_old(old, new) == DOMAIN old
sections(old, new) == DOMAIN old \cup DOMAIN new

change_type(old, new, k) ==
    IF k \notin DOMAIN old THEN "added" ELSE IF k \notin DOMAIN new THEN "removed"
    ELSE IF old[k] # new[k] THEN "modified" ELSE "unchanged"

no_changes(old, new) == \A k \in sections(old, new) : change_type(old, new, k) = "unchanged"

compare_versions ==
    /\ diff_result' = [same |-> no_changes(tokenise(raw_text(1)), tokenise(raw_text(2))),
                of |-> <<ocr[1], ocr[2]>>, done |-> TRUE]
    /\ UNCHANGED <<uploads, answers, up, factors, ocr, verdict, changed>>

-----------------------------------------------------------------------------
(* What changes around it. *)

Changed == changed < MaxChanges /\ changed' = changed + 1

ChangeAnswers(a) ==
    /\ Changed /\ a # answers /\ a.given /\ answers' = a
    /\ UNCHANGED <<uploads, up, factors, ocr, verdict, diff_result>>

ChangeModels(s) ==
    /\ Changed /\ s # up /\ up' = s
    /\ UNCHANGED <<uploads, answers, factors, ocr, verdict, diff_result>>

\* set_prompt_override with any factors, or none, and reset_prompt_override.
ChangePrompt(fs) ==
    /\ Changed /\ fs # factors /\ factors' = fs
    /\ UNCHANGED <<uploads, answers, up, ocr, verdict, diff_result>>

ReadStep ==
    \/ \E d \in 1..2 : validate_document(d)
    \/ compare_versions
    \/ \E a \in Answers : ChangeAnswers(a)
    \/ \E s \in SUBSET {"vision", "language"} : ChangeModels(s)
    \/ \E fs \in Prompts \cup {DefaultFactors[category]} : ChangePrompt(fs)

-----------------------------------------------------------------------------
(* Properties. *)

\* A document no model has read or judged is passed, failed or warned about
\* whatever the file shows.  By the default prompt its category decides: an
\* identity document has all its factors, an account statement not one of three.
\* By an administrator's, it passes when every factor names a label that the
\* category's templates share, fails on one that names none of their labels and
\* is not about validity, and is warned about when there is no factor.
UnreadVerdict ==
    \A d \in 1..2 : LET v == verdict[d] IN
        v.by = "rules" /\ v.read_by = "template" =>
          /\ v.prompt = DefaultFactors[category] =>
               v.overall = CASE category \in {"identity", "compliance", "entity"} -> "pass"
                             [] category \in {"financial", "legal"} -> "fail"
                             [] OTHER -> "warn"
          /\ (\A f \in v.prompt : f.keys \cap FallbackKeys[category] # {}) =>
               v.overall = IF v.prompt = {} THEN "warn" ELSE "pass"
          /\ category # "unknown" /\ (\E f \in v.prompt : ~f.dated /\ f.keys \cap AnsweredKeys(category) = {}) =>
               v.overall = "fail"

\* "No changes detected" is about the files when the model has read both, and
\* then it is right but for lines whose label is repeated, as far as the text the
\* model returns is the file's own; when templates stand for both it is about the
\* answers the client had given at the two readings.
ComparedTexts ==
    LET old == diff_result.of[1]  new == diff_result.of[2] IN
    diff_result.done =>
      /\ old.by = "model" /\ new.by = "model" /\ old.text # <<>> /\ new.text # <<>> =>
           (diff_result.same <=> tokenise(content[1]) = tokenise(content[2]))
      /\ old.by = "template" /\ new.by = "template" =>
           (diff_result.same <=> \/ old.answers = new.answers \/ category = "unknown"
                          \/ /\ old.answers.given /\ new.answers.given
                             /\ category \notin ShowFunds /\ old.answers.name = new.answers.name)

-----------------------------------------------------------------------------
(* What makes them inductive. *)

ReadSpec == ReadInit /\ [][ReadStep]_readVars

\* What a reading of version d is: the file's text or none, or a template and
\* the answers it was made from.
SoundReading(d, r) ==
    /\ r.by \in {"nobody", "model", "template"}
    /\ r.by = "nobody" => r = NoReading
    /\ r.by = "model" => r.text \in {<<>>, content[d]}
    /\ r.by = "template" =>
         /\ r.keys \in {AnsweredKeys(category), FallbackKeys[category]}
         /\ r.low = (category = "unknown")
         /\ r.answers \in Answers
         /\ r.text = template_text(r.answers)
         /\ r.answers.given /\ category \in ShowFunds => r.answers.funds = "one"

ReadingInv ==
    /\ category \in Categories
    /\ answers \in Answers
    /\ DOMAIN ocr = 1..2 /\ DOMAIN verdict = 1..2
    /\ \A d \in 1..2 : SoundReading(d, ocr[d])
    /\ UnreadVerdict
    /\ ComparedTexts

=============================================================================
