----------------------------- MODULE IntakeForm -----------------------------
(***************************************************************************)
(* The client's form: the wizard's page, which sends one PATCH per changed *)
(* answer and all of a section's at once, and the two routes behind it,    *)
(* each of which reads the case's row, waits, and writes it back without a *)
(* lock (update_collected_field and patch_case_products of                 *)
(* api/routers/cases.py; OnboardingWizard.tsx, useDocumentPrefill.ts and   *)
(* OnboardingFormView.tsx).  When the documents are approved the answers   *)
(* in the row go to the workflow, and KYC screens those.                   *)
(*                                                                         *)
(* Continue sends and then waits, and while it waits the page stays as it  *)
(* is: the client may change an answer, go back or press Continue again.   *)
(* Requests may fail, and may be answered after the page has been closed   *)
(* or loaded anew; nothing a request does is undone by that.               *)
(*                                                                         *)
(* One section stands for all of them, and what an answer must look like   *)
(* is left out: Values are the answers that pass the rules of a question.  *)
(***************************************************************************)
EXTENDS FiniteSets, Integers

CONSTANTS
    Codes,       \* product codes
    Asks,        \* [Codes -> sets of question keys]
    Required,    \* the keys whose validation_rules say required
    ShowIf,      \* for some keys, the key and the answers they depend on: [field, values]
    Values,      \* what the client may answer
    Extracted,   \* what the vision model finds in the documents: question keys
    Uploaded,    \* the formats of the case's documents
    Clicks,      \* bound: how many Continues can wait at once
    MaxPatches,  \* bound: how many answers are sent
    MaxChanges,  \* bound: how many changes of the products are sent
    MaxSubmits   \* bound: how many times the form is submitted

NoAnswer == "no answer"
Cleared == "empty"
FromDocument == "extracted"
MadeUp == "made up"
Keys == UNION {Asks[c] : c \in Codes}
asked(codes) == UNION {Asks[c] : c \in codes}
NoFields == [k \in {} |-> NoAnswer]
Blank == [k \in Keys |-> NoAnswer]

ASSUME FormAssumption ==
    /\ IsFiniteSet(Codes) /\ IsFiniteSet(Keys)
    /\ NoAnswer \notin Values

VARIABLES
    client_data,       \* onboarding_cases.shared_context["client_data"]
    selected_products, \* onboarding_cases.selected_products
    case_products,     \* case_products: records of code and the request that made it
    case_stage,
    patches,           \* PATCH /collected-fields under way
    changes,           \* PATCH /products under way
    submissions,       \* POST /submit-intake under way
    page,              \* the browser's page
    advance,           \* the task that moves an approved case on
    screened,          \* the answers the workflow has
    issued,            \* how many patches, changes and submissions have been sent
    causes             \* history: what has happened that may lose an answer

formVars == <<client_data, selected_products, case_products, case_stage, patches, changes, submissions,
              page, advance, screened, issued, causes>>
caseRow == <<client_data, selected_products, case_products>>
server == <<caseRow, case_stage, advance, screened>>

-----------------------------------------------------------------------------
(* What the page shows. *)

isFieldVisible(k, data) == k \in DOMAIN ShowIf => data[ShowIf[k].field] \in ShowIf[k].values
Shown(p) == {k \in asked(p.schema) : isFieldVisible(k, p.local)}

canProceed(p) == \A k \in Shown(p) \cap Required : p.local[k] \notin {NoAnswer, Cleared}

\* A page opened with these answers and questions: at the review when every
\* required question shown has an answer.
Opened(data, codes) ==
    LET p == [at |-> "section", local |-> data, collected |-> data, stale |-> FALSE, copies |-> {},
              schema |-> codes, analysing |-> {}, pending |-> {}, submitting |-> FALSE]
    IN  IF canProceed(p) THEN [p EXCEPT !.at = "review"] ELSE p

\* The page becomes next.  What waits, be it a Continue or a submission, was
\* pressed before: if it did not know of this it says so when it goes on.
PageBecomes(next, unknown, others) ==
    LET told(waiting) == {[w EXCEPT !.changed = @ \/ unknown] : w \in waiting}
    IN  /\ page' = [next EXCEPT !.pending = told(@)]
        /\ submissions' = told(submissions)
        /\ causes' = causes \cup others \cup (IF unknown /\ (next.at = "review" \/ case_stage # "INTAKE")
                                  THEN {"changed after Continue"} ELSE {})

\* Questions of the page that were not shown before.
ShowsMore(next) == ~ (Shown(next) \subseteq Shown(page))

\* The form is closed: what it waited for no longer moves it.
Closed(at) == [page EXCEPT !.at = at, !.pending = {}, !.submitting = FALSE]
Orphaned(requests) == {[r EXCEPT !.page = FALSE] : r \in requests}

FormInit ==
    /\ client_data = Blank /\ case_stage = "INTAKE"
    /\ selected_products \in SUBSET Codes \ {{}}
    /\ case_products = {[code |-> c, by |-> 0] : c \in selected_products}
    /\ patches = {} /\ changes = {} /\ submissions = {}
    /\ page = [Opened(Blank, selected_products) EXCEPT !.at = "documents"]
    /\ advance = [at |-> "idle", data |-> Blank] /\ screened = Blank
    /\ issued = [patches |-> 0, changes |-> 0, submits |-> 0] /\ causes = {}

-----------------------------------------------------------------------------
(* PATCH /cases/{id}/collected-fields. *)

\* The requests for values[k], k in ks, all sent at once; those of numbers are theirs.
Send(ks, values) ==
    LET order == CHOOSE o \in [ks -> 1..Cardinality(ks)] : \A j, k \in ks : o[j] = o[k] => j = k
    IN  /\ issued.patches + Cardinality(ks) <= MaxPatches
        /\ issued' = [issued EXCEPT !.patches = @ + Cardinality(ks)]
        /\ patches' = patches \cup
             {[n |-> issued.patches + order[k], key |-> k, value |-> values[k], page |-> TRUE,
               read |-> FALSE, seen |-> Blank] : k \in ks}
Numbers(ks) == issued.patches + 1 .. issued.patches + Cardinality(ks)

ReadContext(p) ==
    /\ ~p.read
    /\ patches' = (patches \ {p}) \cup {[p EXCEPT !.read = TRUE, !.seen = client_data]}
    /\ UNCHANGED <<server, changes, submissions, page, issued, causes>>

\* (The first: the answer alone.)
merged_alone(p) == [Blank EXCEPT ![p.key] = p.value]
merged(p) == [p.seen EXCEPT ![p.key] = p.value]

\* The whole context is written back.  The page, if it is still there, marks
\* its copy of the answers as stale.
update_collected_field(p) ==
    /\ p.read
    /\ client_data' = merged(p)
    /\ patches' = patches \ {p}
    /\ page' = [page EXCEPT !.stale = @ \/ p.page]
    /\ causes' = causes \cup (IF p.seen # client_data THEN {"overlapped"} ELSE {})
                        \cup (IF p.value # page.local[p.key] /\ page.local[p.key] # NoAnswer THEN {"late"} ELSE {})
    /\ UNCHANGED <<selected_products, case_products, case_stage, advance, screened, changes, submissions, issued>>

\* A request that does not arrive, or is answered by an error.
LosePatch(p) ==
    /\ patches' = patches \ {p}
    /\ causes' = causes \cup {"failed"}
    /\ UNCHANGED <<server, changes, submissions, page, issued>>

-----------------------------------------------------------------------------
(* PATCH /cases/{id}/products.  No product has begun, so every row is PENDING. *)

LoadCase(c) ==
    /\ ~c.read
    /\ changes' = (changes \ {c}) \cup
         {[c EXCEPT !.read = TRUE, !.old_codes = selected_products, !.rows = case_products]}
    /\ UNCHANGED <<server, patches, submissions, page, issued, causes>>

\* (The first: only additions.)
rows_kept(c) == {}
deselected(c) == {r \in c.rows : r.code \notin c.codes}

added(c) ==
    {[code |-> d, by |-> c.n] : d \in c.codes \ (c.old_codes \cup {r.code : r \in c.rows})}

\* The page that waits for the change goes on to the documents.
patch_case_products(c) ==
    /\ c.read
    /\ case_products' = (case_products \ deselected(c)) \cup added(c)
    /\ selected_products' = c.codes
    /\ changes' = changes \ {c}
    /\ causes' = causes \cup
         (IF c.old_codes # selected_products \/ c.rows # case_products THEN {"two changes"} ELSE {})
         \cup (IF case_stage # "INTAKE" /\ asked(c.codes) # asked(page.schema) THEN {"old questions"} ELSE {})
    /\ page' = IF c.page THEN [page EXCEPT !.at = "documents"] ELSE page
    /\ UNCHANGED <<client_data, case_stage, advance, screened, patches, submissions, issued>>

LoseChange(c) ==
    /\ changes' = changes \ {c}
    /\ UNCHANGED <<server, patches, submissions, page, issued, causes>>

-----------------------------------------------------------------------------
(* The page. *)

Filling == page.at \in {"products", "documents", "section", "review"}

\* The products step of a case that exists; its button waits for the answer.
ChooseProducts(codes) ==
    /\ page.at = "products" /\ codes # {} /\ issued.changes < MaxChanges /\ \A c \in changes : ~c.page
    /\ issued' = [issued EXCEPT !.changes = @ + 1]
    /\ changes' = changes \cup
         {[n |-> issued.changes + 1, codes |-> codes, page |-> TRUE, read |-> FALSE, old_codes |-> {}, rows |-> {}]}
    /\ UNCHANGED <<server, patches, submissions, page, causes>>

\* The questions are fetched anew when a step that uses them is mounted or the
\* window is focussed, unless the copy is younger than a minute.
FetchSchema ==
    /\ page.at # "dashboard" /\ page.schema # selected_products
    /\ LET next == [page EXCEPT !.schema = selected_products]
       IN  PageBecomes(next, ShowsMore(next), {})
    /\ UNCHANGED <<server, patches, changes, issued>>

\* Images but not WebP; a PDF with text.
load_document_content == Uploaded \cap {"image", "pdf"}

\* An answer that is not JSON has no fields; a model that fails, or has nothing
\* to look at, is replaced by made-up values of every question.
parse_response(keys) == {NoFields, [k \in keys \cap Extracted |-> FromDocument]}
mock_extraction(keys) == [k \in keys |-> MadeUp]

extract_fields(keys) ==
    IF keys = {} \/ Uploaded = {} THEN {NoFields}
    ELSE {mock_extraction(keys)} \cup (IF load_document_content = {} THEN {} ELSE parse_response(keys))

\* What the documents show is sent for the questions the page had when it
\* asked, wherever the client has gone on to before it arrives.
handleAnalyse ==
    /\ page.at = "documents" /\ page.analysing = {}
    /\ page' = [page EXCEPT !.analysing = {page.schema}]
    /\ UNCHANGED <<server, patches, changes, submissions, issued, causes>>

PrefillFromFields ==
    /\ \E codes \in page.analysing, fields \in extract_fields(asked(selected_products)) :
         Send(DOMAIN fields \cap asked(codes), fields)
    /\ page' = [page EXCEPT !.analysing = {}]
    /\ UNCHANGED <<server, changes, submissions, causes>>

\* Continue waits, then goes to the step after the one where it was pressed.
Await(to, numbers) ==
    \E c \in Clicks :
       /\ \A h \in page.pending : h.click # c
       /\ page' = [page EXCEPT !.pending = @ \cup {[click |-> c, to |-> to, numbers |-> numbers, changed |-> FALSE]}]

\* It awaits PATCH /percentage.
handleDocumentsContinue ==
    /\ page.at = "documents" /\ Await("section", {})
    /\ UNCHANGED <<server, patches, changes, submissions, issued, causes>>

handleFieldChange(k, v) ==
    /\ page.at = "section" /\ k \in Shown(page) /\ v # page.local[k]
    /\ PageBecomes([page EXCEPT !.local[k] = v], TRUE, {})
    /\ UNCHANGED <<server, patches, changes, issued>>

dirty == {k \in Shown(page) : page.local[k] \notin {NoAnswer, page.collected[k]}}

\* It awaits the requests it sends and then PATCH /percentage.
handleSectionContinue ==
    /\ page.at = "section" /\ canProceed(page)
    /\ Send(dirty, page.local) /\ Await("review", Numbers(dirty))
    /\ causes' = causes \cup
         (IF \E k \in Shown(page) : page.local[k] = page.collected[k] /\ page.local[k] # client_data[k]
          THEN {"old copy"} ELSE {})
    /\ UNCHANGED <<server, changes, submissions>>

\* Promise.allSettled: answered or failed.
GoOn(h) ==
    /\ \A p \in patches : p.n \notin h.numbers
    /\ page' = [page EXCEPT !.at = h.to, !.pending = @ \ {h}]
    /\ causes' = causes \cup (IF h.to = "review" /\ h.changed THEN {"changed after Continue"} ELSE {})
    /\ UNCHANGED <<server, patches, changes, submissions, issued>>

\* A copy that is stale is fetched again.  What the client has entered prevails
\* over it; what it has not is filled in.
FetchAnswers ==
    /\ page.at # "dashboard" /\ page.stale
    /\ page' = [page EXCEPT !.stale = FALSE, !.copies = {client_data}]
    /\ UNCHANGED <<server, patches, changes, submissions, issued, causes>>

Refetch(copy) ==
    LET filled == {k \in Keys : page.local[k] = NoAnswer}
        next == [page EXCEPT !.collected = copy, !.copies = {},
                             !.local = [k \in Keys |-> IF k \in filled THEN copy[k] ELSE @[k]]]
    IN  /\ PageBecomes(next, ShowsMore(next) \/ \E k \in filled : copy[k] # client_data[k], {})
        /\ UNCHANGED <<server, patches, changes, issued>>

\* The Back button, or a step already done in the list beside the form.
Back(to) ==
    /\ <<page.at, to>> \in ({"documents", "section", "review"} \X {"products"}) \cup
                          ({"section", "review"} \X {"documents"}) \cup {<<"review", "section">>}
    /\ page' = [page EXCEPT !.at = to]
    /\ UNCHANGED <<server, patches, changes, submissions, issued, causes>>

handleSubmit ==
    /\ page.at = "review" /\ ~page.submitting /\ issued.submits < MaxSubmits
    /\ issued' = [issued EXCEPT !.submits = @ + 1]
    /\ submissions' = submissions \cup {[n |-> issued.submits + 1, changed |-> FALSE]}
    /\ page' = [page EXCEPT !.submitting = TRUE]
    /\ UNCHANGED <<server, patches, changes, causes>>

\* The form is closed whether the request succeeded or failed.
SubmitReturns ==
    /\ page.submitting
    /\ page' = Closed("left") /\ changes' = Orphaned(changes)
    /\ UNCHANGED <<server, patches, submissions, issued, causes>>

Cancel ==
    /\ Filling
    /\ page' = Closed("dashboard") /\ changes' = Orphaned(changes)
    /\ UNCHANGED <<server, patches, submissions, issued, causes>>

\* POST /submit-intake reaches the case, whatever the page has become.
submit_intake(s) ==
    /\ case_stage' = "REVIEW"
    /\ submissions' = submissions \ {s}
    /\ causes' = causes \cup (IF s.changed THEN {"changed after Continue"} ELSE {})
                        \cup (IF asked(page.schema) # asked(selected_products) THEN {"old questions"} ELSE {})
    /\ UNCHANGED <<caseRow, advance, screened, patches, changes, page, issued>>

LoseSubmission(s) ==
    /\ submissions' = submissions \ {s}
    /\ UNCHANGED <<server, patches, changes, page, issued, causes>>

\* An intake is resumed at the first section that is not complete; a case
\* further on is only shown.
Resumed(form) == IF case_stage = "INTAKE" THEN form ELSE [form EXCEPT !.at = "left"]

\* The page is loaded anew.
Reload ==
    /\ LET form == Opened(client_data, selected_products)
       IN  PageBecomes(Resumed(form), ~canProceed(form), {})
    /\ patches' = Orphaned(patches) /\ changes' = Orphaned(changes)
    /\ UNCHANGED <<server, issued>>

\* The case is opened again from the client's list, with the copies the page has.
OpenCase ==
    /\ page.at = "dashboard" \/ (page.at = "left" /\ case_stage = "INTAKE")
    /\ LET form == [Opened(page.collected, page.schema)
                       EXCEPT !.stale = page.stale, !.copies = page.copies, !.analysing = page.analysing]
           old == page.collected # client_data
       IN  IF case_stage = "INTAKE"
           THEN PageBecomes(form, ~canProceed(form), IF old THEN {"old copy"} ELSE {})
           ELSE page' = [page EXCEPT !.at = "left"] /\ UNCHANGED <<submissions, causes>>
    /\ UNCHANGED <<server, patches, changes, issued>>

\* While the case is in review its view lets the client edit an answer it shows;
\* whether the question is required is not looked at.
saveEdit(k, v) ==
    /\ page.at = "left" /\ case_stage = "REVIEW" /\ page.collected[k] \notin {NoAnswer, Cleared}
    /\ Send({k}, [j \in Keys |-> v])
    /\ LET next == [page EXCEPT !.local[k] = v]
       IN  PageBecomes(next, ShowsMore(next) \/ ~canProceed(next), {})
    /\ UNCHANGED <<server, changes>>

-----------------------------------------------------------------------------
(* The documents are approved: trigger_next_stage loads the case, and the  *)
(* signal it publishes carries the answers it has loaded.                  *)

LoadAnswers ==
    /\ case_stage = "REVIEW" /\ advance.at = "idle"
    /\ advance' = [at |-> "loaded", data |-> client_data]
    /\ UNCHANGED <<caseRow, case_stage, screened, patches, changes, submissions, page, issued, causes>>

AdvanceToKyc ==
    /\ advance.at = "loaded"
    /\ advance' = [advance EXCEPT !.at = "done"]
    /\ screened' = advance.data /\ case_stage' = "KYC"
    /\ causes' = causes \cup (IF advance.data # client_data \/ patches # {} THEN {"edited on the way"} ELSE {})
    /\ UNCHANGED <<caseRow, patches, changes, submissions, page, issued>>

FormStep ==
    \/ \E p \in patches : ReadContext(p) \/ update_collected_field(p) \/ LosePatch(p)
    \/ \E c \in changes : LoadCase(c) \/ patch_case_products(c) \/ LoseChange(c)
    \/ \E s \in submissions : submit_intake(s) \/ LoseSubmission(s)
    \/ \E codes \in SUBSET Codes : ChooseProducts(codes)
    \/ FetchSchema \/ handleAnalyse \/ PrefillFromFields \/ handleDocumentsContinue
    \/ \E k \in Keys, v \in Values \cup {Cleared} : handleFieldChange(k, v) \/ saveEdit(k, v)
    \/ handleSectionContinue \/ \E h \in page.pending : GoOn(h)
    \/ FetchAnswers \/ \E copy \in page.copies : Refetch(copy)
    \/ \E to \in {"products", "documents", "section"} : Back(to)
    \/ handleSubmit \/ SubmitReturns \/ Cancel \/ Reload \/ OpenCase
    \/ LoadAnswers \/ AdvanceToKyc

-----------------------------------------------------------------------------
(* Properties. *)

\* When the case goes to KYC, each question that the case's products ask and the
\* client's answers show has, if it is required, an answer, and what is screened
\* is the answer the page has, unless something happened that may lose one: two
\* requests that overlapped, one that failed or was answered late, a comparison
\* with an old copy, questions of other products, an answer changed, emptied or
\* newly asked for after the client had gone on, an edit on the way.
ScreenedIsEntered ==
    [][case_stage # "KYC" /\ case_stage' = "KYC" /\ causes' = {} =>
         \A k \in asked(selected_products) : isFieldVisible(k, page.local) =>
            /\ k \in Required => screened'[k] \notin {NoAnswer, Cleared}
            /\ page.local[k] # NoAnswer => screened'[k] = page.local[k]]_formVars

\* Each selected product has one row and no other product has one, however the
\* client goes back and forth, unless two changes overlapped.
RowsFollowSelection ==
    "two changes" \notin causes =>
       /\ {r.code : r \in case_products} = selected_products
       /\ Cardinality(case_products) = Cardinality(selected_products)

\* OnboardingWizard.tsx:1052: "Case data is saved regardless".  Once the form is
\* submitted and every request has been carried out, the row has every answer of
\* it that is shown, if nothing worse than an overlap has happened.
AnswersSaved ==
    page.at = "left" /\ patches = {} /\ causes \subseteq {"overlapped"} =>
       \A k \in Shown(page) : page.local[k] # NoAnswer => client_data[k] = page.local[k]

-----------------------------------------------------------------------------
(* What makes them inductive. *)

FormSpec == FormInit /\ [][FormStep]_formVars

Entered == Values \cup {Cleared, FromDocument, MadeUp}
AnswersOf == [Keys -> Entered \cup {NoAnswer}]

ProductRow == [code : Codes, by : Nat]
Patch == [n : Nat, key : Keys, value : Entered, page : BOOLEAN, read : BOOLEAN, seen : AnswersOf]
Choice == [n : Nat, codes : SUBSET Codes, page : BOOLEAN, read : BOOLEAN, old_codes : SUBSET Codes,
           rows : SUBSET ProductRow]
Handler == [click : Clicks, to : {"section", "review"}, numbers : SUBSET Nat, changed : BOOLEAN]
Submission == [n : Nat, changed : BOOLEAN]

Page == [at : {"products", "documents", "section", "review", "left", "dashboard"},
         local : AnswersOf, collected : AnswersOf, stale : BOOLEAN, copies : SUBSET AnswersOf,
         schema : SUBSET Codes, analysing : SUBSET SUBSET Codes, pending : SUBSET Handler,
         submitting : BOOLEAN]

FormTypeOK ==
    /\ client_data \in AnswersOf /\ screened \in AnswersOf
    /\ selected_products \in SUBSET Codes /\ case_products \in SUBSET ProductRow
    /\ patches \in SUBSET Patch /\ changes \in SUBSET Choice /\ submissions \in SUBSET Submission
    /\ page \in Page
    /\ case_stage \in {"INTAKE", "REVIEW", "KYC"}
    /\ advance \in [at : {"idle", "loaded", "done"}, data : AnswersOf]
    /\ issued \in [patches : Nat, changes : Nat, submits : Nat]

\* One row for each product selected.
OneRowEach ==
    /\ {r.code : r \in case_products} = selected_products
    /\ \A r, q \in case_products : r.code = q.code => r = q

\* The answers are loaded from a case in review and taken on from there.
Stages ==
    /\ case_stage = "INTAKE" => advance.at = "idle"
    /\ advance.at = "loaded" => case_stage = "REVIEW"
    /\ case_stage = "KYC" => advance.at = "done"

\* Submitted, and not yet taken on to KYC.
Reviewed == case_stage = "REVIEW" /\ advance.at # "done"

\* The client has gone on from the questions as they are.
GoneOn ==
    \/ page.at = "review" \/ Reviewed
    \/ \E h \in page.pending : h.to = "review" /\ ~h.changed
    \/ \E s \in submissions : ~s.changed

InRow(k) == client_data[k] = page.local[k]
OnItsWay(k) == \E p \in patches : p.key = k /\ p.value = page.local[k]
Saved(k) == page.local[k] # NoAnswer => InRow(k) \/ OnItsWay(k)

\* Once the client has gone on from the questions, those required are answered,
\* and the row has what was entered or a request for it is under way.
Faithful ==
    /\ Reviewed => asked(page.schema) = asked(selected_products)
    /\ GoneOn => canProceed(page) /\ \A k \in Shown(page) : Saved(k)

FormInv ==
    /\ FormTypeOK
    /\ Stages
    /\ "two changes" \notin causes => OneRowEach
    /\ causes = {} => Faithful

=============================================================================
