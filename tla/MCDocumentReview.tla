--------------------------- MODULE MCDocumentReview ---------------------------
(* A case's documents.  Each behaviour takes one theme: the rows and their    *)
(* review, the verdicts on one document, or the comparison of two versions.   *)
EXTENDS DocumentReview, DocumentReading

VARIABLE theme

One == <<Line("a", "1")>>
MCPrompts == {{}, {Factor({"full_name"}), Dated({"photo"})}, {Factor({"closing_balance"}), Dated({"valid"})}}
MCContents == {One, <<Line("a", "1"), Line("b", "1")>>, <<Line("a", "2"), Line("a", "1")>>}

MCInit ==
  /\ theme \in {"review", "verdicts", "versions"}
  /\ DocumentInit /\ (theme # "review" => institutional = 1)
  /\ ReadInit
  /\ answers \in {NoAnswers, [given |-> TRUE, name |-> "n1", funds |-> "one"]}
  /\ theme = "review" => category = "identity" /\ format = [d \in 1 .. 2 |-> "word"] /\ up = {} /\ answers = NoAnswers
  /\ theme # "versions" => content = [d \in 1 .. 2 |-> One] /\ format[2] = "word"
  /\ theme = "versions" => "language" \notin up /\ category \in {"identity", "financial", "unknown"}

Review == theme = "review" /\ DocumentNext /\ UNCHANGED readVars

Verdicts ==
  /\ theme = "verdicts" /\ ReadStep /\ UNCHANGED docVars
  /\ ocr'[2] = NoReading /\ verdict'[2] = NoVerdict /\ diff_result' = diff_result

Versions ==
  /\ theme = "versions" /\ ReadStep /\ UNCHANGED docVars
  /\ "language" \notin up' /\ UNCHANGED factors
  /\ \A d \in 1 .. 2 : ocr'[d].by = "model" => ocr'[d].low

MCNext == (Review \/ Verdicts \/ Versions) /\ UNCHANGED theme
MCSpec == MCInit /\ [][MCNext]_<<docVars, readVars, theme>> /\ DocumentFairness
=============================================================================
