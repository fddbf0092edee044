---------------------------- MODULE AnswersProofs ----------------------------
(***************************************************************************)
(* The client's answers, by the form and by conversation, for any products *)
(* and questions, any messages, and any number of requests and restarts.   *)
(***************************************************************************)
EXTENDS Interview, IntakeForm, FunctionTheorems, FiniteSetTheorems, TLAPS

-----------------------------------------------------------------------------
(* The form. *)

\* The questions of products are questions.
LEMMA AskedAreKeys ==
    ASSUME NEW codes \in SUBSET Codes
    PROVE  asked(codes) \subseteq Keys
BY DEF asked, Keys

\* What is shown, and whether it is answered, depends on the questions and answers alone.
LEMMA SameIsShown ==
    ASSUME NEW p, NEW q, p.schema = q.schema, p.local = q.local
    PROVE  Shown(p) = Shown(q) /\ (canProceed(p) <=> canProceed(q))
BY DEF Shown, canProceed

\* A page opened shows the answers and questions it is given, and is at the
\* review exactly when the required ones are answered.
LEMMA PageIsOpened ==
    ASSUME NEW data \in AnswersOf, NEW codes \in SUBSET Codes
    PROVE  /\ Opened(data, codes) \in Page
           /\ Opened(data, codes).local = data /\ Opened(data, codes).schema = codes
           /\ Opened(data, codes).collected = data /\ Opened(data, codes).pending = {}
           /\ Opened(data, codes).at \in {"section", "review"}
           /\ Opened(data, codes).at = "review" <=> canProceed(Opened(data, codes))
<1> DEFINE p == [at |-> "section", local |-> data, collected |-> data, stale |-> FALSE, copies |-> {},
                 schema |-> codes, analysing |-> {}, pending |-> {}, submitting |-> FALSE]
<1> DEFINE q == [p EXCEPT !.at = "review"]
<1>1. p \in Page /\ q \in Page
  BY DEF Page
<1>2. /\ p.local = data /\ p.schema = codes /\ p.collected = data /\ p.pending = {} /\ p.at = "section"
      /\ q.local = data /\ q.schema = codes /\ q.collected = data /\ q.pending = {} /\ q.at = "review"
  OBVIOUS
<1>3. Opened(data, codes) = IF canProceed(p) THEN q ELSE p
  BY DEF Opened
<1> HIDE DEF p, q
<1>4. canProceed(p) <=> canProceed(q)
  BY <1>2, SameIsShown
<1>5. CASE canProceed(p)
  BY <1>1, <1>2, <1>3, <1>4, <1>5
<1>6. CASE ~canProceed(p)
  BY <1>1, <1>2, <1>3, <1>6
<1> QED BY <1>5, <1>6

\* A finite set can be numbered.
LEMMA CanBeNumbered ==
    ASSUME NEW S, IsFiniteSet(S)
    PROVE  /\ Cardinality(S) \in Nat
           /\ \E o \in [S -> 1..Cardinality(S)] : \A j, k \in S : o[j] = o[k] => j = k
<1>1. PICK n \in Nat : ExistsBijection(1..n, S)
  BY FS_NatBijection
<1>2. Cardinality(S) = n
  BY <1>1, FS_CountingElements
<1>3. PICK g \in Bijection(1..n, S) : TRUE
  BY <1>1 DEF ExistsBijection
<1>4. g \in [1..n -> S] /\ (\A a, b \in 1..n : g[a] = g[b] => a = b) /\ \A k \in S : \E a \in 1..n : g[a] = k
  BY <1>3 DEF Bijection, Injection, Surjection, IsInjective
<1> DEFINE o == [k \in S |-> CHOOSE a \in 1..n : g[a] = k]
<1>5. ASSUME NEW k \in S PROVE o[k] \in 1..n /\ g[o[k]] = k
  BY <1>4
<1>6. o \in [S -> 1..n] /\ \A j, k \in S : o[j] = o[k] => j = k
  <2>1. o \in [S -> 1..n]
    BY <1>5
  <2>2. ASSUME NEW j \in S, NEW k \in S, o[j] = o[k] PROVE j = k
    BY <1>5, <2>2
  <2> QED BY <2>1, <2>2
<1> HIDE DEF o
<1> QED BY <1>2, <1>6

Issued == [patches : Nat, changes : Nat, submits : Nat]

\* Requests for answers are added to those under way, one for each question.
LEMMA AnswersAreSent ==
    ASSUME FormInv, NEW ks \in SUBSET Keys, NEW values, \A k \in ks : values[k] \in Entered, Send(ks, values)
    PROVE  /\ issued' \in Issued /\ Numbers(ks) \in SUBSET Nat
           /\ patches' \in SUBSET Patch /\ patches \subseteq patches'
           /\ \A k \in ks : \E p \in patches' : p.key = k /\ p.value = values[k]
<1> DEFINE order == CHOOSE o \in [ks -> 1..Cardinality(ks)] : \A j, k \in ks : o[j] = o[k] => j = k
<1>1. IsFiniteSet(ks)
  BY FS_Subset, FormAssumption
<1>2. Cardinality(ks) \in Nat /\ order \in [ks -> 1..Cardinality(ks)]
  BY <1>1, CanBeNumbered
<1>3. issued \in Issued /\ patches \in SUBSET Patch
  BY DEF FormInv, FormTypeOK, Issued
<1> DEFINE New(k) == [n |-> issued.patches + order[k], key |-> k, value |-> values[k], page |-> TRUE,
                      read |-> FALSE, seen |-> Blank]
<1>4. issued' = [issued EXCEPT !.patches = @ + Cardinality(ks)] /\ patches' = patches \cup {New(k) : k \in ks}
  BY DEF Send
<1>5. Blank \in AnswersOf
  BY DEF Blank, AnswersOf
<1>6. ASSUME NEW k \in ks PROVE New(k) \in Patch
  <2>1. issued.patches + order[k] \in Nat
    BY <1>2, <1>3 DEF Issued
  <2>2. values[k] \in Entered /\ k \in Keys
    OBVIOUS
  <2> HIDE DEF order
  <2> QED BY <2>1, <2>2, <1>5 DEF Patch
<1>7. issued' \in Issued /\ Numbers(ks) \in SUBSET Nat
  BY <1>2, <1>3, <1>4 DEF Issued, Numbers
<1>8. ASSUME NEW k \in ks PROVE New(k) \in patches' /\ New(k).key = k /\ New(k).value = values[k]
  <2>1. New(k) \in patches'
    <3> HIDE DEF New
    <3> QED BY <1>4
  <2>2. New(k).key = k /\ New(k).value = values[k]
    <3> HIDE DEF order
    <3> QED OBVIOUS
  <2> QED BY <2>1, <2>2
<1> HIDE DEF order, New
<1> QED BY <1>3, <1>4, <1>6, <1>7, <1>8

\* The requests of a page that is gone are requests.
LEMMA OrphansAreRequests ==
    ASSUME FormInv
    PROVE  Orphaned(patches) \in SUBSET Patch /\ Orphaned(changes) \in SUBSET Choice
<1>1. patches \in SUBSET Patch /\ changes \in SUBSET Choice
  BY DEF FormInv, FormTypeOK
<1>2. ASSUME NEW p \in Patch PROVE [p EXCEPT !.page = FALSE] \in Patch
  BY DEF Patch
<1>3. ASSUME NEW c \in Choice PROVE [c EXCEPT !.page = FALSE] \in Choice
  BY DEF Choice
<1> QED BY <1>1, <1>2, <1>3 DEF Orphaned

\* What the invariant says of the types.
LEMMA FormTypes ==
    ASSUME FormInv
    PROVE  /\ page \in Page /\ client_data \in AnswersOf /\ selected_products \in SUBSET Codes
           /\ page.local \in AnswersOf /\ page.collected \in AnswersOf /\ page.schema \in SUBSET Codes
           /\ page.pending \in SUBSET Handler /\ page.copies \in SUBSET AnswersOf
           /\ patches \in SUBSET Patch /\ changes \in SUBSET Choice /\ submissions \in SUBSET Submission
           /\ issued \in Issued /\ Shown(page) \subseteq Keys
<1>1. page \in Page
  BY DEF FormInv, FormTypeOK
<1>2. page.schema \in SUBSET Codes
  BY <1>1 DEF Page
<1>3. Shown(page) \subseteq asked(page.schema)
  BY DEF Shown
<1> QED BY <1>1, <1>2, <1>3, AskedAreKeys DEF FormInv, FormTypeOK, Page, Issued

\* A case begins with one row for each product, and nothing is on its way.
LEMMA FormStarts == FormInit => FormInv
<1> SUFFICES ASSUME FormInit PROVE FormInv
  OBVIOUS
<1>1. Blank \in AnswersOf /\ selected_products \in SUBSET Codes
  BY DEF Blank, AnswersOf, FormInit
<1>2. page \in Page /\ page.at = "documents" /\ page.pending = {}
  <2> DEFINE p == Opened(Blank, selected_products)
  <2>1. p \in Page /\ p.pending = {}
    BY <1>1, PageIsOpened
  <2>2. page = [p EXCEPT !.at = "documents"]
    BY DEF FormInit
  <2> HIDE DEF p
  <2> QED BY <2>1, <2>2 DEF Page
<1>3. case_products \in SUBSET ProductRow
  BY DEF ProductRow, FormInit
<1>4. FormTypeOK
  BY <1>1, <1>2, <1>3 DEF FormTypeOK, FormInit
<1>5. OneRowEach
  <2> DEFINE first(c) == [code |-> c, by |-> 0]
  <2>1. ASSUME NEW c \in selected_products PROVE first(c) \in case_products /\ first(c).code = c
    BY DEF FormInit
  <2>2. ASSUME NEW r \in case_products PROVE r = first(r.code) /\ r.code \in selected_products
    BY DEF FormInit
  <2> HIDE DEF first
  <2> QED BY <2>1, <2>2 DEF OneRowEach
<1> QED BY <1>2, <1>4, <1>5 DEF FormInv, Stages, Faithful, GoneOn, Reviewed, FormInit

\* A step that leaves the answers, the questions and the case as they are, and
\* every answer on its way on its way, breaks no promise it does not make.
LEMMA NothingIsLost ==
    ASSUME FormInv, UNCHANGED server,
           patches' \in SUBSET Patch, changes' \in SUBSET Choice, submissions' \in SUBSET Submission,
           issued' \in Issued, page' \in Page, page'.local = page.local, page'.schema = page.schema,
           causes \subseteq causes', "two changes" \in causes' => "two changes" \in causes,
           causes' = {} => (GoneOn' => GoneOn) /\ \A k : OnItsWay(k) => OnItsWay(k)'
    PROVE  FormInv'
<1>1. FormTypeOK' /\ Stages' /\ (OneRowEach' <=> OneRowEach)
  BY DEF FormInv, FormTypeOK, Stages, OneRowEach, server, caseRow, Issued
<1>2. ASSUME causes' = {} PROVE Faithful'
  <2>1. Faithful /\ (Reviewed' <=> Reviewed)
    BY <1>2 DEF FormInv, Reviewed, server
  <2>2. Shown(page)' = Shown(page) /\ (canProceed(page)' <=> canProceed(page))
    BY DEF Shown, canProceed
  <2>3. \A k : Saved(k) => Saved(k)'
    BY <1>2 DEF Saved, InRow, server, caseRow
  <2>4. asked(page.schema)' = asked(page.schema) /\ asked(selected_products)' = asked(selected_products)
    BY DEF asked, server, caseRow
  <2> QED BY <1>2, <2>1, <2>2, <2>3, <2>4 DEF Faithful
<1> QED BY <1>1, <1>2 DEF FormInv

\* A page whose answers or questions change, and what it tells those who wait.
LEMMA PageIsTold ==
    ASSUME FormInv, NEW next \in Page, NEW unknown \in BOOLEAN, NEW others,
           next.pending \subseteq page.pending, "two changes" \notin others,
           PageBecomes(next, unknown, others)
    PROVE  /\ page' \in Page /\ submissions' \in SUBSET Submission
           /\ page'.at = next.at /\ page'.local = next.local /\ page'.schema = next.schema
           /\ causes \subseteq causes' /\ ("two changes" \in causes' => "two changes" \in causes)
           /\ causes' = {} /\ unknown => next.at # "review" /\ case_stage = "INTAKE"
           /\ \A h \in page'.pending : h.to = "review" /\ ~h.changed =>
                 ~unknown /\ \E g \in page.pending : g.to = "review" /\ ~g.changed
           /\ \A s \in submissions' : ~s.changed => ~unknown /\ \E r \in submissions : ~r.changed
<1> DEFINE hear(w) == [w EXCEPT !.changed = @ \/ unknown]
<1> DEFINE told(waiting) == {hear(w) : w \in waiting}
<1>1. page.pending \in SUBSET Handler /\ submissions \in SUBSET Submission
  BY FormTypes
<1>2. /\ page' = [next EXCEPT !.pending = told(@)] /\ submissions' = told(submissions)
      /\ causes' = causes \cup others \cup (IF unknown /\ (next.at = "review" \/ case_stage # "INTAKE")
                                             THEN {"changed after Continue"} ELSE {})
  BY DEF PageBecomes
<1>3. ASSUME NEW h \in Handler
      PROVE  /\ hear(h) \in Handler /\ hear(h).to = h.to /\ (~hear(h).changed => ~unknown /\ ~h.changed)
  BY DEF Handler
<1>4. ASSUME NEW s \in Submission
      PROVE  hear(s) \in Submission /\ (~hear(s).changed => ~unknown /\ ~s.changed)
  BY DEF Submission
<1> HIDE DEF hear
<1>5. told(next.pending) \in SUBSET Handler /\ told(submissions) \in SUBSET Submission
  BY <1>1, <1>3, <1>4
<1>6. /\ page' \in Page /\ page'.at = next.at /\ page'.local = next.local /\ page'.schema = next.schema
      /\ page'.pending = told(next.pending)
  BY <1>2, <1>5 DEF Page
<1>7. ASSUME NEW h \in page'.pending, h.to = "review", ~h.changed
      PROVE  ~unknown /\ \E g \in page.pending : g.to = "review" /\ ~g.changed
  <2>1. PICK g \in next.pending : h = hear(g)
    BY <1>6, <1>7
  <2>2. g \in page.pending /\ g \in Handler
    BY <1>1
  <2>3. ~hear(g).changed /\ hear(g).to = "review"
    BY <1>7, <2>1
  <2> QED BY <1>3, <2>2, <2>3
<1>8. ASSUME NEW s \in submissions', ~s.changed PROVE ~unknown /\ \E r \in submissions : ~r.changed
  <2>1. PICK r \in submissions : s = hear(r)
    BY <1>2, <1>8
  <2>2. r \in Submission /\ ~hear(r).changed
    BY <1>1, <1>8, <2>1
  <2> QED BY <1>4, <2>2
<1> QED BY <1>2, <1>5, <1>6, <1>7, <1>8

\* A page whose answers or questions change keeps the promise if those who wait
\* are told, or if what it shows is answered and in the row or on its way.
LEMMA PageIsChanged ==
    ASSUME FormInv, NEW next \in Page, NEW unknown \in BOOLEAN, NEW others,
           next.pending \subseteq page.pending, "two changes" \notin others,
           PageBecomes(next, unknown, others), UNCHANGED server,
           patches' \in SUBSET Patch, changes' \in SUBSET Choice, issued' \in Issued,
           causes' = {} /\ Reviewed => asked(next.schema) = asked(selected_products),
           causes' = {} /\ ~unknown /\ (GoneOn \/ next.at = "review") =>
              /\ canProceed(next)
              /\ \A k \in Shown(next) : next.local[k] # NoAnswer =>
                    client_data[k] = next.local[k] \/ \E p \in patches' : p.key = k /\ p.value = next.local[k]
    PROVE  FormInv'
<1>1. /\ page' \in Page /\ submissions' \in SUBSET Submission
      /\ page'.at = next.at /\ page'.local = next.local /\ page'.schema = next.schema
      /\ causes \subseteq causes' /\ ("two changes" \in causes' => "two changes" \in causes)
      /\ causes' = {} /\ unknown => next.at # "review" /\ case_stage = "INTAKE"
      /\ \A h \in page'.pending : h.to = "review" /\ ~h.changed =>
            ~unknown /\ \E g \in page.pending : g.to = "review" /\ ~g.changed
      /\ \A s \in submissions' : ~s.changed => ~unknown /\ \E r \in submissions : ~r.changed
  BY PageIsTold
<1>2. FormTypeOK' /\ Stages' /\ (OneRowEach' <=> OneRowEach)
  BY <1>1 DEF FormInv, FormTypeOK, Stages, OneRowEach, server, caseRow, Issued
<1>3. ASSUME causes' = {} PROVE Faithful'
  <2>1. (Reviewed' <=> Reviewed) /\ (Reviewed => case_stage # "INTAKE")
    BY DEF Reviewed, server
  <2>2. GoneOn' => ~unknown /\ (GoneOn \/ next.at = "review")
    BY <1>1, <1>3, <2>1 DEF GoneOn
  <2>3. Shown(page)' = Shown(next) /\ (canProceed(page)' <=> canProceed(next))
    BY <1>1 DEF Shown, canProceed
  <2>4. ASSUME GoneOn', NEW k \in Shown(next) PROVE Saved(k)'
    <3>1. client_data' = client_data /\ page'.local = next.local
      BY <1>1 DEF server, caseRow
    <3>2. next.local[k] # NoAnswer =>
             client_data[k] = next.local[k] \/ \E p \in patches' : p.key = k /\ p.value = next.local[k]
      BY <1>3, <2>2, <2>4
    <3> QED BY <3>1, <3>2 DEF Saved, InRow, OnItsWay
  <2>5. asked(page.schema)' = asked(next.schema) /\ asked(selected_products)' = asked(selected_products)
    BY <1>1 DEF asked, server, caseRow
  <2> QED BY <1>3, <2>1, <2>2, <2>3, <2>4, <2>5 DEF Faithful
<1> QED BY <1>1, <1>2, <1>3 DEF FormInv

\* Reading the context changes no request but the one that reads.
LEMMA ContextIsRead ==
    ASSUME FormInv, NEW p \in patches, ReadContext(p)
    PROVE  FormInv'
<1> DEFINE q == [p EXCEPT !.read = TRUE, !.seen = client_data]
<1>1. q \in Patch /\ q.key = p.key /\ q.value = p.value
  BY FormTypes DEF Patch
<1>2. patches' = (patches \ {p}) \cup {q} /\ UNCHANGED <<server, changes, submissions, page, issued, causes>>
  BY DEF ReadContext
<1> HIDE DEF q
<1>3. \A k : OnItsWay(k) => OnItsWay(k)'
  BY <1>1, <1>2 DEF OnItsWay
<1>4. GoneOn' <=> GoneOn
  BY <1>2 DEF GoneOn, Reviewed, server
<1> QED BY <1>1, <1>2, <1>3, <1>4, FormTypes, NothingIsLost

\* A request that overlapped no other and carries what the page has leaves every
\* other answer as it is.
LEMMA AnswerIsSaved ==
    ASSUME FormInv, NEW p \in patches, update_collected_field(p)
    PROVE  FormInv'
<1> USE DEF update_collected_field
<1>1. p \in Patch /\ client_data \in AnswersOf /\ page \in Page
  BY FormTypes
<1>2. p.key \in Keys /\ p.value \in Entered /\ p.seen \in AnswersOf /\ p.page \in BOOLEAN
  BY <1>1 DEF Patch
<1>3. client_data' \in AnswersOf
  BY <1>2 DEF merged, AnswersOf
<1>4. /\ page' \in Page /\ page'.at = page.at /\ page'.local = page.local /\ page'.schema = page.schema
      /\ page'.pending = page.pending
  BY <1>1, <1>2 DEF Page
<1>5. FormTypeOK'
  BY <1>3, <1>4 DEF FormInv, FormTypeOK
<1>6. Stages'
  BY DEF FormInv, Stages
<1>7. "two changes" \notin causes' => OneRowEach'
  BY DEF FormInv, OneRowEach
<1>8. causes' = {} => Faithful'
  <2> SUFFICES ASSUME causes' = {} PROVE Faithful'
    OBVIOUS
  <2>1. /\ Faithful /\ client_data = p.seen
        /\ p.value = page.local[p.key] \/ page.local[p.key] = NoAnswer
    BY DEF FormInv
  <2>2. client_data' = [client_data EXCEPT ![p.key] = p.value] /\ patches' = patches \ {p}
    BY <2>1 DEF merged
  <2>3. ASSUME NEW k \in Keys, Saved(k) PROVE Saved(k)'
    <3>1. CASE k = p.key
      BY <3>1, <2>1, <2>2, <1>1, <1>2, <1>4 DEF Saved, InRow, AnswersOf
    <3>2. CASE k # p.key
      BY <3>2, <2>2, <2>3, <1>1, <1>4 DEF Saved, InRow, OnItsWay, AnswersOf
    <3> QED BY <3>1, <3>2
  <2>4. /\ GoneOn' <=> GoneOn
        /\ Reviewed' <=> Reviewed
        /\ Shown(page)' = Shown(page) /\ (canProceed(page)' <=> canProceed(page))
        /\ asked(page.schema)' = asked(page.schema) /\ asked(selected_products)' = asked(selected_products)
    BY <1>4 DEF GoneOn, Reviewed, Shown, canProceed, asked
  <2> HIDE DEF update_collected_field
  <2> QED BY <2>1, <2>3, <2>4, FormTypes DEF Faithful
<1> QED BY <1>5, <1>6, <1>7, <1>8 DEF FormInv

\* A lost request is a cause.
LEMMA PatchIsLost ==
    ASSUME FormInv, NEW p \in patches, LosePatch(p)
    PROVE  FormInv'
BY FormTypes, NothingIsLost DEF LosePatch

\* Loading the case changes no change but the one that loads it.
LEMMA CaseIsLoaded ==
    ASSUME FormInv, NEW c \in changes, LoadCase(c)
    PROVE  FormInv'
<1>1. [c EXCEPT !.read = TRUE, !.old_codes = selected_products, !.rows = case_products] \in Choice
  <2>1. c \in Choice /\ selected_products \in SUBSET Codes /\ case_products \in SUBSET ProductRow
    BY DEF FormInv, FormTypeOK
  <2> QED BY <2>1 DEF Choice
<1>2. changes' \in SUBSET Choice /\ UNCHANGED <<server, patches, submissions, page, issued, causes>>
  BY <1>1, FormTypes DEF LoadCase
<1>3. (GoneOn' <=> GoneOn) /\ \A k : OnItsWay(k) => OnItsWay(k)'
  BY <1>2 DEF GoneOn, Reviewed, OnItsWay, server
<1> QED BY <1>2, <1>3, FormTypes, NothingIsLost

\* Without an overlap a change leaves one row for each product it names.
LEMMA RowsAreChanged ==
    ASSUME FormInv, NEW c \in changes, patch_case_products(c), "two changes" \notin causes'
    PROVE  OneRowEach'
<1> USE DEF patch_case_products
<1>1. c.old_codes = selected_products /\ c.rows = case_products /\ "two changes" \notin causes
  OBVIOUS
<1>2. OneRowEach
  BY <1>1 DEF FormInv
<1>3. case_products' = {r \in case_products : r.code \in c.codes} \cup added(c)
  BY <1>1 DEF deselected
<1> DEFINE made(d) == [code |-> d, by |-> c.n]
<1>4. added(c) = {made(d) : d \in c.codes \ selected_products}
  BY <1>1, <1>2 DEF added, OneRowEach
<1>5. ASSUME NEW d PROVE made(d).code = d
  OBVIOUS
<1> HIDE DEF made
<1>6. \A r \in case_products' : r.code \in c.codes
  <2>1. \A r \in added(c) : r.code \in c.codes
    BY <1>4, <1>5
  <2> HIDE DEF patch_case_products
  <2> QED BY <2>1, <1>3
<1>7. ASSUME NEW d \in c.codes PROVE \E r \in case_products' : r.code = d
  <2>1. CASE d \in selected_products
    <3>1. PICK r \in case_products : r.code = d
      BY <2>1, <1>2 DEF OneRowEach
    <3> HIDE DEF patch_case_products
    <3> QED BY <3>1, <1>3
  <2>2. CASE d \notin selected_products
    BY <2>2, <1>3, <1>4, <1>5
  <2> QED BY <2>1, <2>2
<1>8. ASSUME NEW r \in case_products', NEW q \in case_products', r.code = q.code PROVE r = q
  <2>1. \A s \in case_products : s.code \in selected_products
    BY <1>2 DEF OneRowEach
  <2>2. \A s \in added(c) : s.code \notin selected_products /\ s = made(s.code)
    BY <1>4, <1>5
  <2> QED BY <2>1, <2>2, <1>2, <1>3, <1>8 DEF OneRowEach
<1>9. {r.code : r \in case_products'} = c.codes
  <2> HIDE DEF patch_case_products
  <2>1. ASSUME NEW d PROVE d \in {r.code : r \in case_products'} <=> d \in c.codes
    BY <1>6, <1>7
  <2> QED BY <2>1
<1>10. selected_products' = c.codes
  OBVIOUS
<1> HIDE DEF patch_case_products
<1> QED BY <1>8, <1>9, <1>10 DEF OneRowEach

\* The change the page waits for takes it on to the documents; another leaves it
\* where it is.
LEMMA ProductsAreChanged ==
    ASSUME FormInv, NEW c \in changes, patch_case_products(c)
    PROVE  FormInv'
<1> USE DEF patch_case_products
<1>1. /\ c \in Choice /\ changes \in SUBSET Choice /\ selected_products \in SUBSET Codes
      /\ case_products \in SUBSET ProductRow /\ page \in Page
  BY DEF FormInv, FormTypeOK
<1>2. c.codes \in SUBSET Codes /\ c.n \in Nat /\ c.page \in BOOLEAN
  BY <1>1 DEF Choice
<1>3. added(c) \in SUBSET ProductRow
  <2> DEFINE made(d) == [code |-> d, by |-> c.n]
  <2>1. ASSUME NEW d \in c.codes PROVE made(d) \in ProductRow
    BY <1>2 DEF ProductRow
  <2>2. \A r \in added(c) : \E d \in c.codes : r = made(d)
    BY DEF added
  <2> HIDE DEF made
  <2> QED BY <2>1, <2>2
<1>4. /\ page' \in Page /\ page'.local = page.local /\ page'.schema = page.schema
      /\ page'.pending = page.pending /\ (page'.at = "review" => page.at = "review")
  BY <1>1, <1>2 DEF Page
<1>5. FormTypeOK' /\ Stages'
  BY <1>1, <1>2, <1>3, <1>4 DEF FormInv, FormTypeOK, Stages
<1>6. "two changes" \notin causes' => OneRowEach'
  BY RowsAreChanged
<1>7. causes' = {} => Faithful'
  <2> SUFFICES ASSUME causes' = {} PROVE Faithful'
    OBVIOUS
  <2>1. Faithful /\ (case_stage # "INTAKE" => asked(c.codes) = asked(page.schema))
    BY DEF FormInv
  <2>2. /\ GoneOn' => GoneOn
        /\ Reviewed' <=> Reviewed
        /\ Shown(page)' = Shown(page) /\ (canProceed(page)' <=> canProceed(page))
        /\ asked(page.schema)' = asked(page.schema) /\ asked(selected_products)' = asked(c.codes)
    BY <1>4 DEF GoneOn, Reviewed, Shown, canProceed, asked
  <2>3. ASSUME NEW k, Saved(k) PROVE Saved(k)'
    BY <1>4, <2>3 DEF Saved, InRow, OnItsWay
  <2> HIDE DEF patch_case_products
  <2> QED BY <2>1, <2>2, <2>3 DEF Faithful, Reviewed
<1> QED BY <1>5, <1>6, <1>7 DEF FormInv

\* A step of the page alone, with the answers and questions it has.
LEMMA PageMoves ==
    ASSUME FormInv, UNCHANGED <<server, patches, causes>>, changes' \in SUBSET Choice,
           submissions' \in SUBSET Submission, issued' \in Issued,
           page' \in Page, page'.local = page.local, page'.schema = page.schema, GoneOn' => GoneOn
    PROVE  FormInv'
<1>1. \A k : OnItsWay(k) => OnItsWay(k)'
  BY DEF OnItsWay
<1> QED BY <1>1, FormTypes, NothingIsLost

\* A change that is lost, or is sent, changes nothing yet.
LEMMA ChangeIsLost ==
    ASSUME FormInv, NEW c \in changes, LoseChange(c)
    PROVE  FormInv'
<1> USE DEF LoseChange
<1>1. GoneOn' <=> GoneOn
  BY DEF GoneOn, Reviewed, server
<1> QED BY <1>1, FormTypes, PageMoves

LEMMA ChangeIsSent ==
    ASSUME FormInv, NEW codes \in SUBSET Codes, ChooseProducts(codes)
    PROVE  FormInv'
<1> USE DEF ChooseProducts
<1> DEFINE c == [n |-> issued.changes + 1, codes |-> codes, page |-> TRUE, read |-> FALSE,
                 old_codes |-> {}, rows |-> {}]
<1>1. issued \in Issued /\ changes \in SUBSET Choice
  BY FormTypes
<1>2. c \in Choice
  BY <1>1 DEF Choice, Issued
<1>3. changes' = changes \cup {c} /\ issued' \in Issued
  BY <1>1 DEF Issued
<1>4. GoneOn' <=> GoneOn
  BY DEF GoneOn, Reviewed, server
<1> HIDE DEF c
<1> QED BY <1>1, <1>2, <1>3, <1>4, FormTypes, PageMoves

\* A submission reaches the case as promised, or says that it does not.
LEMMA CaseIsSubmitted ==
    ASSUME FormInv, NEW s \in submissions, submit_intake(s)
    PROVE  FormInv'
<1> USE DEF submit_intake
<1>1. FormTypeOK' /\ (OneRowEach' <=> OneRowEach)
  BY DEF FormInv, FormTypeOK, OneRowEach, caseRow
<1>2. Stages'
  BY DEF FormInv, Stages
<1>3. causes' = {} => Faithful'
  <2> SUFFICES ASSUME causes' = {} PROVE Faithful'
    OBVIOUS
  <2>1. Faithful /\ ~s.changed /\ asked(page.schema) = asked(selected_products)
    BY DEF FormInv
  <2>2. GoneOn
    BY <2>1 DEF GoneOn
  <2>3. /\ Shown(page)' = Shown(page) /\ (canProceed(page)' <=> canProceed(page))
        /\ asked(page.schema)' = asked(page.schema) /\ asked(selected_products)' = asked(selected_products)
        /\ \A k : Saved(k)' <=> Saved(k)
    BY DEF Shown, canProceed, asked, Saved, InRow, OnItsWay, caseRow
  <2> HIDE DEF submit_intake
  <2> QED BY <2>1, <2>2, <2>3 DEF Faithful
<1> QED BY <1>1, <1>2, <1>3 DEF FormInv

LEMMA SubmissionIsLost ==
    ASSUME FormInv, NEW s \in submissions, LoseSubmission(s)
    PROVE  FormInv'
<1> USE DEF LoseSubmission
<1>1. GoneOn' => GoneOn
  BY DEF GoneOn, Reviewed, server
<1> QED BY <1>1, FormTypes, PageMoves

\* Questions that were not shown before are told of.
LEMMA SchemaIsFetched ==
    ASSUME FormInv, FetchSchema
    PROVE  FormInv'
<1> USE DEF FetchSchema
<1> DEFINE next == [page EXCEPT !.schema = selected_products]
<1>1. /\ next \in Page /\ next.local = page.local /\ next.schema = selected_products
      /\ next.pending = page.pending /\ next.at = page.at
  BY FormTypes DEF Page
<1>2. PageBecomes(next, ShowsMore(next), {}) /\ UNCHANGED <<server, patches, changes, issued>>
  OBVIOUS
<1> HIDE DEF next, FetchSchema
<1>3. ASSUME causes' = {}, ~ShowsMore(next), GoneOn \/ next.at = "review"
      PROVE  /\ canProceed(next)
             /\ \A k \in Shown(next) : next.local[k] # NoAnswer =>
                   client_data[k] = next.local[k] \/ \E p \in patches' : p.key = k /\ p.value = next.local[k]
  <2>1. causes = {}
    BY <1>2, <1>3 DEF PageBecomes
  <2>2. Faithful /\ GoneOn
    BY <1>1, <1>3, <2>1 DEF FormInv, GoneOn
  <2>3. Shown(next) \subseteq Shown(page)
    BY <1>3 DEF ShowsMore
  <2> QED BY <1>1, <1>2, <2>2, <2>3 DEF Faithful, canProceed, Saved, InRow, OnItsWay
<1>4. ShowsMore(next) \in BOOLEAN
  BY DEF ShowsMore
<1> QED BY <1>1, <1>2, <1>3, <1>4, FormTypes, PageIsChanged

\* The documents are analysed for the questions the page has.
LEMMA DocumentsAreAnalysed ==
    ASSUME FormInv, handleAnalyse
    PROVE  FormInv'
<1> USE DEF handleAnalyse
<1>1. /\ page' \in Page /\ page'.local = page.local /\ page'.schema = page.schema
      /\ page'.at = page.at /\ page'.pending = page.pending
  BY FormTypes DEF Page
<1>2. GoneOn' => GoneOn
  BY <1>1 DEF GoneOn, Reviewed, server
<1> QED BY <1>1, <1>2, FormTypes, PageMoves

\* What the documents show is sent for questions the page had.
LEMMA DocumentsPrefill ==
    ASSUME FormInv, PrefillFromFields
    PROVE  FormInv'
<1> USE DEF PrefillFromFields
<1>1. PICK codes \in page.analysing, fields \in extract_fields(asked(selected_products)) :
         Send(DOMAIN fields \cap asked(codes), fields)
  OBVIOUS
<1> DEFINE ks == DOMAIN fields \cap asked(codes)
<1>2. \A k \in DOMAIN fields : fields[k] \in Entered
  <2>1. ASSUME NEW K, NEW f \in {mock_extraction(K)} \cup parse_response(K) \cup {NoFields}, NEW k \in DOMAIN f
        PROVE  f[k] \in Entered
    BY <2>1 DEF mock_extraction, parse_response, NoFields, Entered
  <2>2. fields \in {mock_extraction(asked(selected_products))} \cup parse_response(asked(selected_products))
                     \cup {NoFields}
    BY DEF extract_fields
  <2> QED BY <2>1, <2>2
<1>3. ks \in SUBSET Keys
  <2>1. codes \in SUBSET Codes
    BY FormTypes DEF Page
  <2> QED BY <2>1, AskedAreKeys
<1>4. issued' \in Issued /\ patches' \in SUBSET Patch /\ patches \subseteq patches'
  BY <1>1, <1>2, <1>3, AnswersAreSent
<1>5. /\ page' \in Page /\ page'.local = page.local /\ page'.schema = page.schema
      /\ page'.at = page.at /\ page'.pending = page.pending
  BY FormTypes DEF Page
<1>6. UNCHANGED <<server, changes, submissions, causes>>
  OBVIOUS
<1> HIDE DEF PrefillFromFields
<1>7. (GoneOn' => GoneOn) /\ \A k : OnItsWay(k) => OnItsWay(k)'
  BY <1>4, <1>5, <1>6 DEF GoneOn, Reviewed, OnItsWay, server
<1> QED BY <1>4, <1>5, <1>6, <1>7, FormTypes, NothingIsLost

\* The documents' Continue promises nothing.
LEMMA DocumentsAreDone ==
    ASSUME FormInv, handleDocumentsContinue
    PROVE  FormInv'
<1> USE DEF handleDocumentsContinue
<1>1. PICK c \in Clicks :
         page' = [page EXCEPT !.pending = @ \cup {[click |-> c, to |-> "section", numbers |-> {}, changed |-> FALSE]}]
  BY DEF Await
<1> DEFINE h == [click |-> c, to |-> "section", numbers |-> {}, changed |-> FALSE]
<1>2. h \in Handler /\ h.to = "section"
  BY DEF Handler
<1>3. page' = [page EXCEPT !.pending = @ \cup {h}]
  BY <1>1
<1> HIDE DEF h
<1>4. /\ page' \in Page /\ page'.local = page.local /\ page'.schema = page.schema
      /\ page'.at = page.at /\ page'.pending = page.pending \cup {h}
  BY <1>2, <1>3, FormTypes DEF Page
<1>5. GoneOn' => GoneOn
  BY <1>2, <1>4 DEF GoneOn, Reviewed, server
<1> QED BY <1>4, <1>5, FormTypes, PageMoves

\* Everyone who waits is told of an answer that changes.
LEMMA AnswerIsEntered ==
    ASSUME FormInv, NEW k \in Keys, NEW v \in Values \cup {Cleared}, handleFieldChange(k, v)
    PROVE  FormInv'
<1> USE DEF handleFieldChange
<1> DEFINE next == [page EXCEPT !.local[k] = v]
<1>1. next \in Page /\ next.schema = page.schema /\ next.pending = page.pending /\ next.at = "section"
  <2>1. [page.local EXCEPT ![k] = v] \in AnswersOf
    BY FormTypes DEF AnswersOf, Entered
  <2>2. next = [page EXCEPT !.local = [page.local EXCEPT ![k] = v]]
    BY FormTypes
  <2> QED BY <2>1, <2>2, FormTypes DEF Page
<1>2. PageBecomes(next, TRUE, {}) /\ UNCHANGED <<server, patches, changes, issued>>
  OBVIOUS
<1> HIDE DEF next, handleFieldChange
<1>3. causes' = {} => asked(next.schema) = asked(selected_products) \/ ~Reviewed
  BY <1>1, <1>2 DEF PageBecomes, FormInv, Faithful
<1> QED BY <1>1, <1>2, <1>3, FormTypes, PageIsChanged

\* Every answer shown is in the row or is sent.
LEMMA SectionIsDone ==
    ASSUME FormInv, handleSectionContinue
    PROVE  FormInv'
<1> USE DEF handleSectionContinue
<1>1. PICK c \in Clicks :
         page' = [page EXCEPT !.pending = @ \cup
                    {[click |-> c, to |-> "review", numbers |-> Numbers(dirty), changed |-> FALSE]}]
  BY DEF Await
<1> DEFINE h == [click |-> c, to |-> "review", numbers |-> Numbers(dirty), changed |-> FALSE]
<1>2. dirty \in SUBSET Keys /\ \A k \in dirty : page.local[k] \in Entered
  BY FormTypes DEF dirty, AnswersOf
<1>3. /\ issued' \in Issued /\ Numbers(dirty) \in SUBSET Nat
      /\ patches' \in SUBSET Patch /\ patches \subseteq patches'
      /\ \A k \in dirty : \E p \in patches' : p.key = k /\ p.value = page.local[k]
  <2>1. Send(dirty, page.local)
    OBVIOUS
  <2> HIDE DEF handleSectionContinue
  <2> QED BY <1>2, <2>1, AnswersAreSent
<1>4. h \in Handler
  BY <1>3 DEF Handler
<1>5. page' = [page EXCEPT !.pending = @ \cup {h}]
  BY <1>1
<1>6. /\ UNCHANGED <<server, changes, submissions>> /\ canProceed(page) /\ causes \subseteq causes'
      /\ "two changes" \in causes' => "two changes" \in causes
      /\ causes' = {} => \A k \in Shown(page) : page.local[k] = page.collected[k] => page.local[k] = client_data[k]
  OBVIOUS
<1> HIDE DEF h, handleSectionContinue
<1>7. page' \in Page /\ page'.local = page.local /\ page'.schema = page.schema
  BY <1>4, <1>5, FormTypes DEF Page
<1>8. FormTypeOK' /\ Stages' /\ (OneRowEach' <=> OneRowEach)
  BY <1>3, <1>6, <1>7 DEF FormInv, FormTypeOK, Stages, OneRowEach, server, caseRow, Issued
<1>9. causes' = {} => Faithful'
  <2> SUFFICES ASSUME causes' = {} PROVE Faithful'
    OBVIOUS
  <2>1. Faithful
    BY <1>6 DEF FormInv
  <2>2. /\ Reviewed' <=> Reviewed
        /\ Shown(page)' = Shown(page) /\ (canProceed(page)' <=> canProceed(page))
        /\ asked(page.schema)' = asked(page.schema) /\ asked(selected_products)' = asked(selected_products)
    BY <1>6, <1>7 DEF Reviewed, Shown, canProceed, asked, server, caseRow
  <2>3. ASSUME NEW k \in Shown(page) PROVE Saved(k)'
    <3>1. CASE k \in dirty
      BY <3>1, <1>3, <1>7 DEF Saved, OnItsWay
    <3>2. CASE k \notin dirty
      BY <3>2, <1>6, <1>7 DEF Saved, InRow, dirty, server, caseRow
    <3> QED BY <3>1, <3>2
  <2> QED BY <2>1, <2>2, <2>3, <1>6 DEF Faithful
<1> QED BY <1>6, <1>8, <1>9 DEF FormInv

\* A Continue goes on with what it promised, or says that it does not.
LEMMA ContinueGoesOn ==
    ASSUME FormInv, NEW h \in page.pending, GoOn(h)
    PROVE  FormInv'
<1> USE DEF GoOn
<1>1. h.to \in {"section", "review"}
  BY FormTypes DEF Handler
<1>2. /\ page' \in Page /\ page'.local = page.local /\ page'.schema = page.schema
      /\ page'.at = h.to /\ page'.pending = page.pending \ {h}
  BY <1>1, FormTypes DEF Page
<1>3. UNCHANGED <<server, patches, changes, submissions, issued>> /\ causes \subseteq causes'
  OBVIOUS
<1>4. ("two changes" \in causes' => "two changes" \in causes) /\ (causes' = {} => h.to # "review" \/ ~h.changed)
  OBVIOUS
<1> HIDE DEF GoOn
<1>5. causes' = {} => (GoneOn' => GoneOn)
  BY <1>2, <1>3, <1>4 DEF GoneOn, Reviewed, server
<1>6. \A k : OnItsWay(k) => OnItsWay(k)'
  BY <1>2, <1>3 DEF OnItsWay
<1> QED BY <1>2, <1>3, <1>4, <1>5, <1>6, FormTypes, NothingIsLost

\* A copy is fetched.
LEMMA CopyIsFetched ==
    ASSUME FormInv, FetchAnswers
    PROVE  FormInv'
<1> USE DEF FetchAnswers
<1>1. /\ page' \in Page /\ page'.local = page.local /\ page'.schema = page.schema
      /\ page'.at = page.at /\ page'.pending = page.pending
  BY FormTypes DEF Page
<1>2. GoneOn' => GoneOn
  BY <1>1 DEF GoneOn, Reviewed, server
<1> QED BY <1>1, <1>2, FormTypes, PageMoves

\* What the client has entered prevails over the copy, and what is filled in is
\* in the row.
LEMMA CopyIsTaken ==
    ASSUME FormInv, NEW copy \in page.copies, Refetch(copy)
    PROVE  FormInv'
<1> USE DEF Refetch
<1> DEFINE filled == {k \in Keys : page.local[k] = NoAnswer}
<1> DEFINE local == [k \in Keys |-> IF k \in filled THEN copy[k] ELSE page.local[k]]
<1> DEFINE next == [page EXCEPT !.collected = copy, !.copies = {}, !.local = local]
<1> DEFINE unknown == ShowsMore(next) \/ \E k \in filled : copy[k] # client_data[k]
<1>1. local \in AnswersOf /\ copy \in AnswersOf
  BY FormTypes DEF AnswersOf
<1>2. \A k \in Keys : local[k] = page.local[k] \/ (k \in filled /\ local[k] = copy[k])
  OBVIOUS
<1>3. PageBecomes(next, unknown, {}) /\ UNCHANGED <<server, patches, changes, issued>>
  <2>1. next = [page EXCEPT !.collected = copy, !.copies = {},
                            !.local = [k \in Keys |-> IF k \in filled THEN copy[k] ELSE @[k]]]
    BY FormTypes
  <2> QED BY <2>1
<1> HIDE DEF local, filled, Refetch
<1>4. /\ next \in Page /\ next.local = local /\ next.schema = page.schema
      /\ next.pending = page.pending /\ next.at = page.at
  BY <1>1, FormTypes DEF Page
<1> HIDE DEF next
<1>5. unknown \in BOOLEAN /\ (~unknown => ~ShowsMore(next) /\ \A k \in filled : copy[k] = client_data[k])
  BY DEF ShowsMore
<1> HIDE DEF unknown
<1>6. causes \subseteq causes'
  BY <1>3 DEF PageBecomes
<1>7. ASSUME causes' = {}, ~unknown, GoneOn \/ next.at = "review"
      PROVE  /\ canProceed(next)
             /\ \A k \in Shown(next) : next.local[k] # NoAnswer =>
                   client_data[k] = next.local[k] \/ \E p \in patches' : p.key = k /\ p.value = next.local[k]
  <2>1. Faithful /\ GoneOn /\ Shown(next) \subseteq Shown(page)
    BY <1>4, <1>5, <1>6, <1>7 DEF FormInv, GoneOn, ShowsMore
  <2>2. ASSUME NEW k \in Shown(next) \cap Required PROVE next.local[k] \notin {NoAnswer, Cleared}
    <3>1. k \in Keys /\ page.local[k] \notin {NoAnswer, Cleared}
      BY <2>1, FormTypes DEF Faithful, canProceed
    <3>2. k \notin filled
      BY <3>1 DEF filled
    <3> QED BY <3>1, <3>2, <1>2, <1>4
  <2>3. ASSUME NEW k \in Shown(next), next.local[k] # NoAnswer
        PROVE  client_data[k] = next.local[k] \/ \E p \in patches' : p.key = k /\ p.value = next.local[k]
    <3>1. k \in Keys /\ Saved(k)
      BY <2>1, FormTypes DEF Faithful
    <3>2. CASE next.local[k] = page.local[k]
      BY <3>1, <3>2, <2>3, <1>3 DEF Saved, InRow, OnItsWay
    <3>3. CASE k \in filled /\ next.local[k] = copy[k]
      BY <3>3, <1>5, <1>7
    <3> QED BY <3>1, <3>2, <3>3, <1>2, <1>4
  <2> QED BY <2>2, <2>3 DEF canProceed
<1>8. causes' = {} /\ Reviewed => asked(next.schema) = asked(selected_products)
  BY <1>4, <1>6 DEF FormInv, Faithful
<1> QED BY <1>3, <1>4, <1>5, <1>7, <1>8, FormTypes, PageIsChanged

\* Going back promises nothing.
LEMMA PageGoesBack ==
    ASSUME FormInv, NEW to \in {"products", "documents", "section"}, Back(to)
    PROVE  FormInv'
<1> USE DEF Back
<1>1. /\ page' \in Page /\ page'.local = page.local /\ page'.schema = page.schema
      /\ page'.at = to /\ page'.pending = page.pending
  BY FormTypes DEF Page
<1>2. GoneOn' => GoneOn
  BY <1>1 DEF GoneOn, Reviewed, server
<1> QED BY <1>1, <1>2, FormTypes, PageMoves

\* What is submitted is what the review shows.
LEMMA FormIsSubmitted ==
    ASSUME FormInv, handleSubmit
    PROVE  FormInv'
<1> USE DEF handleSubmit
<1>1. /\ page' \in Page /\ page'.local = page.local /\ page'.schema = page.schema
      /\ page'.at = page.at /\ page'.pending = page.pending
  BY FormTypes DEF Page
<1>2. issued' \in Issued /\ submissions' \in SUBSET Submission
  <2> DEFINE s == [n |-> issued.submits + 1, changed |-> FALSE]
  <2>1. issued.submits + 1 \in Nat /\ issued \in Issued
    BY FormTypes DEF Issued
  <2>2. s \in Submission
    BY <2>1 DEF Submission
  <2>3. submissions' = submissions \cup {s}
    OBVIOUS
  <2>4. issued' \in Issued
    BY <2>1 DEF Issued
  <2> HIDE DEF s
  <2> QED BY <2>2, <2>3, <2>4, FormTypes
<1>3. GoneOn
  BY DEF GoneOn
<1> QED BY <1>1, <1>2, <1>3, FormTypes, PageMoves

\* A form that is closed waits for nothing.
LEMMA FormIsClosed ==
    ASSUME FormInv, SubmitReturns \/ Cancel
    PROVE  FormInv'
<1>1. PICK at \in {"left", "dashboard"} :
         /\ page' = Closed(at) /\ changes' = Orphaned(changes)
         /\ UNCHANGED <<server, patches, submissions, issued, causes>>
  BY DEF SubmitReturns, Cancel
<1>2. /\ page' \in Page /\ page'.local = page.local /\ page'.schema = page.schema
      /\ page'.at = at /\ page'.pending = {}
  BY <1>1, FormTypes DEF Closed, Page
<1>3. GoneOn' => GoneOn
  BY <1>1, <1>2 DEF GoneOn, Reviewed, server
<1> QED BY <1>1, <1>2, <1>3, FormTypes, OrphansAreRequests, PageMoves

\* A page loaded anew shows the row.
LEMMA PageIsLoaded ==
    ASSUME FormInv, Reload
    PROVE  FormInv'
<1> USE DEF Reload
<1> DEFINE form == Opened(client_data, selected_products)
<1> DEFINE next == Resumed(form)
<1>1. /\ form \in Page /\ form.local = client_data /\ form.schema = selected_products /\ form.pending = {}
      /\ form.at = "review" <=> canProceed(form)
  BY FormTypes, PageIsOpened
<1>2. PageBecomes(next, ~canProceed(form), {}) /\ patches' = Orphaned(patches) /\ changes' = Orphaned(changes)
      /\ UNCHANGED <<server, issued>>
  OBVIOUS
<1> HIDE DEF form, Reload
<1>3. /\ next \in Page /\ next.local = client_data /\ next.schema = selected_products /\ next.pending = {}
      /\ canProceed(next) <=> canProceed(form)
  BY <1>1, SameIsShown DEF Resumed, Page
<1> HIDE DEF next
<1>4. (~canProceed(form)) \in BOOLEAN
  OBVIOUS
<1> QED BY <1>2, <1>3, <1>4, FormTypes, OrphansAreRequests, PageIsChanged

\* A case opened again from a copy that is the row shows the row.
LEMMA CaseIsOpened ==
    ASSUME FormInv, OpenCase
    PROVE  FormInv'
<1> USE DEF OpenCase
<1> DEFINE opened == Opened(page.collected, page.schema)
<1> DEFINE form == [opened EXCEPT !.stale = page.stale, !.copies = page.copies, !.analysing = page.analysing]
<1> DEFINE others == IF page.collected # client_data THEN {"old copy"} ELSE {}
<1>1. CASE case_stage = "INTAKE"
  <2>1. PageBecomes(form, ~canProceed(form), others) /\ UNCHANGED <<server, patches, changes, issued>>
    BY <1>1
  <2>2. "two changes" \notin others /\ (causes' = {} => page.collected = client_data)
    BY <2>1 DEF PageBecomes
  <2> HIDE DEF OpenCase, others
  <2>3. /\ opened \in Page /\ opened.local = page.collected /\ opened.schema = page.schema
        /\ opened.pending = {}
    BY FormTypes, PageIsOpened
  <2> HIDE DEF opened
  <2>4. form \in Page /\ form.local = page.collected /\ form.pending = {}
    BY <2>3, FormTypes DEF Page
  <2> HIDE DEF form
  <2>5. (~canProceed(form)) \in BOOLEAN /\ ~Reviewed
    BY <1>1 DEF Reviewed
  <2> QED BY <2>1, <2>2, <2>4, <2>5, FormTypes, PageIsChanged
<1>2. CASE case_stage # "INTAKE"
  <2>1. page' = [page EXCEPT !.at = "left"] /\ UNCHANGED <<server, patches, changes, submissions, issued, causes>>
    BY <1>2
  <2> HIDE DEF OpenCase
  <2>2. /\ page' \in Page /\ page'.local = page.local /\ page'.schema = page.schema
        /\ page'.at = "left" /\ page'.pending = page.pending
    BY <2>1, FormTypes DEF Page
  <2>3. GoneOn' => GoneOn
    BY <2>1, <2>2 DEF GoneOn, Reviewed, server
  <2> QED BY <2>1, <2>2, <2>3, FormTypes, PageMoves
<1> QED BY <1>1, <1>2

\* An edit during the review is sent.
LEMMA EditIsSent ==
    ASSUME FormInv, NEW k \in Keys, NEW v \in Values \cup {Cleared}, saveEdit(k, v)
    PROVE  FormInv'
<1> USE DEF saveEdit
<1> DEFINE values == [j \in Keys |-> v]
<1> DEFINE next == [page EXCEPT !.local[k] = v]
<1> DEFINE unknown == ShowsMore(next) \/ ~canProceed(next)
<1>1. Send({k}, values) /\ PageBecomes(next, unknown, {}) /\ UNCHANGED <<server, changes>>
  OBVIOUS
<1>2. /\ next \in Page /\ next.at = page.at /\ next.schema = page.schema /\ next.pending = page.pending
      /\ next.local = [page.local EXCEPT ![k] = v] /\ page.at = "left"
  <2>1. [page.local EXCEPT ![k] = v] \in AnswersOf
    BY FormTypes DEF AnswersOf, Entered
  <2>2. next = [page EXCEPT !.local = [page.local EXCEPT ![k] = v]]
    BY FormTypes
  <2> QED BY <2>1, <2>2, FormTypes DEF Page
<1>3. {k} \in SUBSET Keys /\ \A j \in {k} : values[j] = v /\ values[j] \in Entered
  BY DEF Entered
<1> HIDE DEF saveEdit, values, next
<1>4. /\ issued' \in Issued /\ patches' \in SUBSET Patch /\ patches \subseteq patches'
      /\ \E p \in patches' : p.key = k /\ p.value = v
  BY <1>1, <1>3, AnswersAreSent
<1>5. unknown \in BOOLEAN /\ (~unknown => ~ShowsMore(next) /\ canProceed(next))
  BY DEF ShowsMore, canProceed
<1> HIDE DEF unknown
<1>6. causes \subseteq causes'
  BY <1>1 DEF PageBecomes
<1>7. ASSUME causes' = {}, ~unknown, GoneOn \/ next.at = "review", NEW j \in Shown(next), next.local[j] # NoAnswer
      PROVE  client_data[j] = next.local[j] \/ \E p \in patches' : p.key = j /\ p.value = next.local[j]
  <2>1. Faithful /\ GoneOn /\ j \in Shown(page)
    BY <1>2, <1>5, <1>6, <1>7 DEF FormInv, ShowsMore
  <2>2. Saved(j) /\ j \in Keys
    BY <2>1, FormTypes DEF Faithful
  <2>3. CASE j = k
    BY <2>3, <1>2, <1>4, FormTypes DEF AnswersOf
  <2>4. CASE j # k
    <3>1. next.local[j] = page.local[j]
      BY <2>2, <2>4, <1>2, FormTypes DEF AnswersOf
    <3> QED BY <3>1, <2>2, <1>4, <1>7 DEF Saved, InRow, OnItsWay
  <2> QED BY <2>3, <2>4
<1>8. causes' = {} /\ Reviewed => asked(next.schema) = asked(selected_products)
  BY <1>2, <1>6 DEF FormInv, Faithful
<1> QED BY <1>1, <1>2, <1>4, <1>5, <1>7, <1>8, FormTypes, PageIsChanged

\* The answers are loaded from a case in review.
LEMMA AnswersAreLoaded ==
    ASSUME FormInv, LoadAnswers
    PROVE  FormInv'
<1> USE DEF LoadAnswers
<1>1. FormTypeOK' /\ Stages' /\ (OneRowEach' <=> OneRowEach)
  BY DEF FormInv, FormTypeOK, Stages, OneRowEach, caseRow
<1>2. Reviewed /\ (GoneOn' <=> GoneOn) /\ (Faithful => Faithful')
  BY DEF Reviewed, GoneOn, Faithful, Saved, InRow, OnItsWay, Shown, canProceed, asked, caseRow
<1> QED BY <1>1, <1>2 DEF FormInv

\* What is screened is what was loaded.
LEMMA CaseGoesToKyc ==
    ASSUME FormInv, AdvanceToKyc
    PROVE  FormInv'
<1> USE DEF AdvanceToKyc
<1>1. advance' \in [at : {"idle", "loaded", "done"}, data : AnswersOf] /\ advance'.at = "done"
      /\ advance.data \in AnswersOf /\ case_stage = "REVIEW"
  BY DEF FormInv, FormTypeOK, Stages
<1>2. FormTypeOK' /\ Stages' /\ (OneRowEach' <=> OneRowEach)
  BY <1>1 DEF FormInv, FormTypeOK, Stages, OneRowEach, caseRow
<1>3. causes' = {} => Faithful'
  <2> SUFFICES ASSUME causes' = {} PROVE Faithful'
    OBVIOUS
  <2>1. Faithful /\ Reviewed /\ ~Reviewed' /\ GoneOn
    BY <1>1 DEF FormInv, Reviewed, GoneOn
  <2>2. /\ Shown(page)' = Shown(page) /\ (canProceed(page)' <=> canProceed(page))
        /\ \A k : Saved(k)' <=> Saved(k)
    BY DEF Shown, canProceed, Saved, InRow, OnItsWay, caseRow
  <2> HIDE DEF AdvanceToKyc
  <2> QED BY <2>1, <2>2 DEF Faithful
<1> QED BY <1>2, <1>3 DEF FormInv

\* The invariant of the form is inductive.
LEMMA FormInductive == FormSpec => []FormInv
<1>1. FormInv /\ [FormStep]_formVars => FormInv'
  <2> SUFFICES ASSUME FormInv, [FormStep]_formVars PROVE FormInv'
    OBVIOUS
  <2>1. ASSUME NEW p \in patches, ReadContext(p) \/ update_collected_field(p) \/ LosePatch(p) PROVE FormInv'
    BY <2>1, ContextIsRead, AnswerIsSaved, PatchIsLost
  <2>2. ASSUME NEW c \in changes, LoadCase(c) \/ patch_case_products(c) \/ LoseChange(c) PROVE FormInv'
    BY <2>2, CaseIsLoaded, ProductsAreChanged, ChangeIsLost
  <2>3. ASSUME NEW s \in submissions, submit_intake(s) \/ LoseSubmission(s) PROVE FormInv'
    BY <2>3, CaseIsSubmitted, SubmissionIsLost
  <2>4. ASSUME NEW codes \in SUBSET Codes, ChooseProducts(codes) PROVE FormInv'
    BY <2>4, ChangeIsSent
  <2>5. CASE FetchSchema \/ handleAnalyse \/ PrefillFromFields \/ handleDocumentsContinue
    BY <2>5, SchemaIsFetched, DocumentsAreAnalysed, DocumentsPrefill, DocumentsAreDone
  <2>6. ASSUME NEW k \in Keys, NEW v \in Values \cup {Cleared}, handleFieldChange(k, v) \/ saveEdit(k, v)
        PROVE  FormInv'
    BY <2>6, AnswerIsEntered, EditIsSent
  <2>7. CASE handleSectionContinue \/ \E h \in page.pending : GoOn(h)
    BY <2>7, SectionIsDone, ContinueGoesOn
  <2>8. CASE FetchAnswers \/ \E copy \in page.copies : Refetch(copy)
    BY <2>8, CopyIsFetched, CopyIsTaken
  <2>9. ASSUME NEW to \in {"products", "documents", "section"}, Back(to) PROVE FormInv'
    BY <2>9, PageGoesBack
  <2>10. CASE handleSubmit \/ SubmitReturns \/ Cancel \/ Reload \/ OpenCase
    BY <2>10, FormIsSubmitted, FormIsClosed, PageIsLoaded, CaseIsOpened
  <2>11. CASE LoadAnswers \/ AdvanceToKyc
    BY <2>11, AnswersAreLoaded, CaseGoesToKyc
  <2>12. CASE UNCHANGED formVars
    <3>1. (GoneOn' <=> GoneOn) /\ UNCHANGED <<server, patches, causes>>
      BY <2>12 DEF formVars, GoneOn, Reviewed, server, caseRow
    <3> QED BY <3>1, <2>12, FormTypes, PageMoves DEF formVars
  <2> QED BY <2>1, <2>2, <2>3, <2>4, <2>5, <2>6, <2>7, <2>8, <2>9, <2>10, <2>11, <2>12 DEF FormStep
<1> QED BY <1>1, FormStarts, PTL DEF FormSpec

\* Only the signal takes a case to KYC.
LEMMA OnlySignalScreens ==
    ASSUME FormInv, [FormStep]_formVars, case_stage # "KYC", case_stage' = "KYC"
    PROVE  AdvanceToKyc
<1>1. UNCHANGED case_stage \/ case_stage' = "REVIEW" \/ AdvanceToKyc
  BY DEF FormStep, formVars, server, ReadContext, update_collected_field, LosePatch, LoadCase, patch_case_products,
         LoseChange, submit_intake, LoseSubmission, ChooseProducts, FetchSchema, handleAnalyse, PrefillFromFields,
         handleDocumentsContinue, handleFieldChange, saveEdit, handleSectionContinue, GoOn, FetchAnswers, Refetch,
         Back, handleSubmit, SubmitReturns, Cancel, Reload, OpenCase, LoadAnswers
<1> QED BY <1>1

\* When a case goes to KYC every required question it asks is answered, and what
\* is screened is what the client last entered, for any products, questions and
\* number of requests, Continues and submissions, unless something happened that
\* may lose an answer (the two PATCH routes, the page and trigger_next_stage).
THEOREM ScreenedAnswersWereEntered == FormSpec => ScreenedIsEntered
<1> DEFINE Entering ==
      case_stage # "KYC" /\ case_stage' = "KYC" /\ causes' = {} =>
         \A k \in asked(selected_products) : isFieldVisible(k, page.local) =>
            /\ k \in Required => screened'[k] \notin {NoAnswer, Cleared}
            /\ page.local[k] # NoAnswer => screened'[k] = page.local[k]
<1>1. FormInv /\ [FormStep]_formVars => [Entering]_formVars
  <2> SUFFICES ASSUME FormInv, [FormStep]_formVars, case_stage # "KYC", case_stage' = "KYC", causes' = {},
                      NEW k \in asked(selected_products), isFieldVisible(k, page.local)
               PROVE  /\ k \in Required => screened'[k] \notin {NoAnswer, Cleared}
                      /\ page.local[k] # NoAnswer => screened'[k] = page.local[k]
    OBVIOUS
  <2>1. AdvanceToKyc
    BY OnlySignalScreens
  <2>2. screened' = client_data /\ patches = {} /\ causes = {} /\ Reviewed
    BY <2>1 DEF AdvanceToKyc, FormInv, Stages, Reviewed
  <2>3. k \in Shown(page) /\ canProceed(page) /\ Saved(k)
    BY <2>2 DEF FormInv, Faithful, GoneOn, Shown
  <2> QED BY <2>2, <2>3 DEF canProceed, Saved, InRow, OnItsWay
<1>2. FormSpec => [][Entering]_formVars
  BY <1>1, FormInductive, PTL DEF FormSpec
<1> QED BY <1>2 DEF ScreenedIsEntered

\* Each selected product has one row of case_products, and no other product has
\* one, unless two changes of the products overlapped (patch_case_products).
THEOREM OneRowPerProduct == FormSpec => []RowsFollowSelection
<1>1. ASSUME FormInv, OneRowEach PROVE Cardinality(case_products) = Cardinality(selected_products)
  <2> DEFINE f == [r \in case_products |-> r.code]
  <2>1. selected_products \in SUBSET Codes /\ {r.code : r \in case_products} = selected_products
    BY <1>1 DEF FormInv, FormTypeOK, OneRowEach
  <2>2. IsFiniteSet(selected_products)
    BY <2>1, FS_Subset, FormAssumption
  <2>3. f \in [case_products -> selected_products] /\ \A d \in selected_products : \E r \in case_products : f[r] = d
    BY <2>1
  <2>4. \A r, q \in case_products : f[r] = f[q] => r = q
    BY <1>1 DEF OneRowEach
  <2> HIDE DEF f
  <2>5. f \in Bijection(case_products, selected_products)
    BY <2>3, <2>4 DEF Bijection, Injection, Surjection, IsInjective
  <2>6. ExistsBijection(selected_products, case_products)
    BY <2>5, Fun_ExistsBijSymmetric DEF ExistsBijection
  <2> QED BY <2>2, <2>6, FS_Bijection
<1>2. FormInv => RowsFollowSelection
  BY <1>1 DEF FormInv, OneRowEach, RowsFollowSelection
<1> QED BY <1>2, FormInductive, PTL

-----------------------------------------------------------------------------
(* The conversation. *)

Tasks(B) == B \in [DOMAIN B -> Nat \ {0}]
Count(B, e) == IF e \in DOMAIN B THEN B[e] ELSE 0

\* The tasks in flight once some are added to them.
LEMMA TasksAdded ==
    ASSUME NEW B, NEW J, Tasks(B)
    PROVE  /\ Tasks(B (+) SetToBag(J)) /\ DOMAIN (B (+) SetToBag(J)) = DOMAIN B \cup J
           /\ \A e : Count(B (+) SetToBag(J), e) = Count(B, e) + (IF e \in J THEN 1 ELSE 0)
<1> DEFINE S == SetToBag(J)
           C == B (+) S
<1>1. DOMAIN S = J /\ \A e \in J : S[e] = 1
  BY DEF SetToBag
<1> HIDE DEF S
<1>2. C = [e \in DOMAIN B \cup DOMAIN S |-> (IF e \in DOMAIN B THEN B[e] ELSE 0)
                                             + (IF e \in DOMAIN S THEN S[e] ELSE 0)]
  BY DEF (+)
<1> HIDE DEF C
<1>3. DOMAIN C = DOMAIN B \cup J
  BY <1>1, <1>2
<1>4. \A e \in DOMAIN C : C[e] = (IF e \in DOMAIN B THEN B[e] ELSE 0) + (IF e \in J THEN 1 ELSE 0)
  BY <1>1, <1>2, <1>3
<1>5. \A e \in DOMAIN C : C[e] \in Nat \ {0}
  BY <1>3, <1>4 DEF Tasks
<1>6. C = [e \in DOMAIN C |-> C[e]]
  BY <1>2, <1>3
<1>7. Tasks(C)
  BY <1>5, <1>6 DEF Tasks
<1>8. ASSUME NEW e PROVE Count(C, e) = Count(B, e) + (IF e \in J THEN 1 ELSE 0)
  BY <1>3, <1>4 DEF Count
<1> QED BY <1>3, <1>7, <1>8 DEF C, S

\* The tasks in flight once one of them has ended.
LEMMA TaskTaken ==
    ASSUME NEW B, NEW k \in DOMAIN B, Tasks(B)
    PROVE  /\ Tasks(B (-) SetToBag({k})) /\ DOMAIN (B (-) SetToBag({k})) \subseteq DOMAIN B
           /\ \A e : Count(B (-) SetToBag({k}), e) = Count(B, e) - (IF e = k THEN 1 ELSE 0)
<1> DEFINE S == SetToBag({k})
           A == [e \in DOMAIN B |-> IF e \in DOMAIN S THEN B[e] - S[e] ELSE B[e]]
           D == {d \in DOMAIN A : A[d] > 0}
           C == B (-) S
<1>1. DOMAIN S = {k} /\ S[k] = 1
  BY DEF SetToBag
<1> HIDE DEF S
<1>2. C = [e \in D |-> A[e]]
  BY DEF (-)
<1> HIDE DEF C
<1>3. DOMAIN A = DOMAIN B /\ (\A e \in DOMAIN B : e # k => A[e] = B[e]) /\ A[k] = B[k] - 1
  BY <1>1
<1>4. \A e \in DOMAIN B : B[e] \in Nat /\ B[e] > 0
  BY DEF Tasks
<1> HIDE DEF A
<1>5. DOMAIN C = D /\ \A e \in D : C[e] = A[e]
  BY <1>2
<1>6. \A e \in D : A[e] \in Nat \ {0}
  BY <1>3, <1>4
<1>7. C = [e \in DOMAIN C |-> C[e]]
  BY <1>2, <1>5
<1>8. Tasks(C)
  BY <1>5, <1>6, <1>7 DEF Tasks
<1>9. ASSUME NEW e, e # k PROVE Count(C, e) = Count(B, e)
  BY <1>3, <1>4, <1>5, <1>9 DEF Count
<1>10. Count(C, k) = Count(B, k) - 1
  <2>1. B[k] \in Nat /\ B[k] > 0 /\ (k \in DOMAIN C <=> B[k] - 1 > 0) /\ (k \in DOMAIN C => C[k] = B[k] - 1)
    BY <1>3, <1>4, <1>5
  <2>2. ~(B[k] - 1 > 0) => B[k] = 1
    BY <2>1
  <2> QED BY <2>1, <2>2 DEF Count
<1>11. ASSUME NEW e PROVE Count(B, e) \in Nat
  BY <1>4 DEF Count
<1>12. DOMAIN C \subseteq DOMAIN B
  BY <1>3, <1>5
<1>13. ASSUME NEW e PROVE Count(C, e) = Count(B, e) - (IF e = k THEN 1 ELSE 0)
  BY <1>9, <1>10, <1>11
<1> QED BY <1>8, <1>12, <1>13 DEF C, S

\* A task that ends leaves the others as they are, and what it asks for.
LEMMA TaskEnds ==
    ASSUME Tasks(tasks), NEW k \in DOMAIN tasks, NEW J, End(k, J)
    PROVE  /\ Tasks(tasks') /\ DOMAIN tasks' \subseteq DOMAIN tasks \cup J
           /\ \A e : e # k /\ e \notin J => InFlight(e)' = InFlight(e)
           /\ k \notin J => InFlight(k)' = InFlight(k) - 1
<1> DEFINE C == tasks (-) SetToBag({k})
<1>1. /\ Tasks(C) /\ DOMAIN C \subseteq DOMAIN tasks
      /\ \A e : Count(C, e) = Count(tasks, e) - (IF e = k THEN 1 ELSE 0)
  BY TaskTaken
<1>2. tasks' = C (+) SetToBag(J)
  BY DEF End
<1> HIDE DEF C
<1>3. /\ Tasks(C (+) SetToBag(J)) /\ DOMAIN (C (+) SetToBag(J)) = DOMAIN C \cup J
      /\ \A e : Count(C (+) SetToBag(J), e) = Count(C, e) + (IF e \in J THEN 1 ELSE 0)
  BY <1>1, TasksAdded
<1>4. ASSUME NEW e PROVE InFlight(e) = Count(tasks, e) /\ InFlight(e)' = Count(tasks', e) /\ Count(tasks, e) \in Nat
  BY DEF InFlight, Count, BagIn, BagToSet, Tasks
<1>5. ASSUME NEW e, e \notin J PROVE InFlight(e)' = InFlight(e) - (IF e = k THEN 1 ELSE 0)
  <2>1. Count(tasks', e) = Count(C, e) + 0
    BY <1>2, <1>3, <1>5
  <2>2. Count(C, e) = Count(tasks, e) - (IF e = k THEN 1 ELSE 0)
    BY <1>1
  <2>3. Count(tasks, e) \in Nat
    BY <1>4
  <2> QED BY <2>1, <2>2, <2>3, <1>4
<1>6. ASSUME NEW e PROVE InFlight(e) \in Nat
  BY <1>4
<1>7. ASSUME NEW e, e # k, e \notin J PROVE InFlight(e)' = InFlight(e)
  BY <1>5, <1>6, <1>7
<1>8. ASSUME k \notin J PROVE InFlight(k)' = InFlight(k) - 1
  BY <1>5, <1>8
<1> QED BY <1>1, <1>2, <1>3, <1>7, <1>8

\* Answers that are kept decide the same questions.
LEMMA SameAnswers ==
    ASSUME NEW F, NEW C, NEW D, DOMAIN C = DOMAIN D, \A k \in DOMAIN C : C[k] = D[k]
    PROVE  unanswered(F, C) = unanswered(F, D)
<1>1. ASSUME NEW f PROVE visible(f, C) <=> visible(f, D)
  BY DEF visible, _eval_show_if
<1> QED BY <1>1 DEF unanswered

\* An answer to a question of the database hides and shows no question of the
\* hard-coded ones, when those are all answered.
LEMMA FallbackStaysAnswered ==
    ASSUME NEW C, NEW x, x \notin DOMAIN C, NEW v, "selected_products" \in DOMAIN C,
           unanswered(Fallback, C) = {}
    PROVE  unanswered(Fallback, Put(C, x, v)) = {}
<1> DEFINE D == Put(C, x, v)
<1>1. DOMAIN D = DOMAIN C \cup {x} /\ \A k \in DOMAIN C : D[k] = C[k]
  BY DEF Put
<1> HIDE DEF D
<1> SUFFICES ASSUME NEW i \in DOMAIN Fallback, Fallback[i].required, visible(Fallback[i], D)
             PROVE  Fallback[i].field_id \in DOMAIN D
  BY DEF unanswered, D
<1>2. \A j \in DOMAIN Fallback : Fallback[j].required /\ visible(Fallback[j], C) => Fallback[j].field_id \in DOMAIN C
  BY DEF unanswered
<1>3. CASE Fallback[i].show_if = <<>>
  BY <1>1, <1>2, <1>3 DEF visible
<1>4. CASE Fallback[i].show_if # <<>>
  <2> DEFINE rule == Fallback[i].show_if[1]
  <2>1. rule.field = "selected_products" \/
        \E j \in DOMAIN Fallback : /\ Fallback[j].field_id = rule.field
                                   /\ Fallback[j].required /\ Fallback[j].show_if = <<>>
    BY <1>4, FallbackAssumption
  <2>2. rule.field \in DOMAIN C
    BY <2>1, <1>2 DEF visible
  <2>3. D[rule.field] = C[rule.field]
    BY <2>2, <1>1
  <2>4. _eval_show_if(rule, D)
    BY <1>4 DEF visible
  <2>5. _eval_show_if(rule, C)
    BY <2>2, <2>3, <2>4 DEF _eval_show_if
  <2>6. visible(Fallback[i], C)
    BY <2>5 DEF visible
  <2> QED BY <2>6, <1>1, <1>2
<1> QED BY <1>3, <1>4

\* A conversation begins with nothing.
LEMMA InterviewStarts == InterviewInit => InterviewInv
<1> SUFFICES ASSUME InterviewInit PROVE InterviewInv
  OBVIOUS
<1> USE DEF InterviewInit
<1>1. DOMAIN tasks = {}
  BY DEF EmptyBag, SetToBag
<1>2. tasks \in [DOMAIN tasks -> Nat \ {0}]
  BY DEF EmptyBag, SetToBag
<1>3. streams \in [Slots -> Replies] /\ \A n \in Slots : streams[n].pc = "idle"
  BY DEF Replies, Idle
<1>4. ~session.open
  BY DEF NoSession
<1>5. InterviewTypeOK
  BY <1>1, <1>2, <1>3 DEF InterviewTypeOK, ContextOK, SessionOK
<1>6. InSession
  BY <1>3, <1>4 DEF InSession, ContextData
<1>7. InFlight([kind |-> "advance"]) = 0
  BY <1>1 DEF InFlight, BagIn, BagToSet
<1> HIDE DEF InterviewInit
<1>8. signals = 0 /\ restarts = 0 /\ \A f \in FieldIds : answers[f] = NoValue
  BY DEF InterviewInit
<1>9. SignalsInv /\ EarnedInv /\ CarriedInv /\ WrittenInv
  BY <1>1, <1>3, <1>4, <1>7, <1>8 DEF SignalsInv, EarnedInv, CarriedInv, WrittenInv
<1> QED BY <1>5, <1>6, <1>9 DEF InterviewInv

\* The shape of the context and of the session.
LEMMA MemoryTells ==
    ASSUME InterviewInv
    PROVE  /\ ContextProducts \in {{}, Products}
           /\ session.open \in BOOLEAN /\ context.started \in BOOLEAN
           /\ session.open =>
                /\ session = [open |-> TRUE, loaded |-> session.loaded, advance_sent |-> session.advance_sent,
                              collected |-> session.collected]
                /\ session.loaded \in {{}, Products} /\ session.advance_sent \in BOOLEAN
                /\ "selected_products" \in DOMAIN session.collected
           /\ ~session.open => session = NoSession /\ DOMAIN tasks = {} /\ ContextData = <<>>
<1>1. \/ context \in [started : BOOLEAN, cached : {FALSE}]
      \/ context = [started |-> TRUE, cached |-> TRUE, selected_products |-> Products,
                    client_data |-> context.client_data, version |-> context.version]
  BY DEF InterviewInv, InterviewTypeOK, ContextOK
<1>2. ContextProducts \in {{}, Products} /\ context.started \in BOOLEAN
  <2>1. CASE context \in [started : BOOLEAN, cached : {FALSE}]
    BY <2>1 DEF ContextProducts
  <2>2. CASE context = [started |-> TRUE, cached |-> TRUE, selected_products |-> Products,
                        client_data |-> context.client_data, version |-> context.version]
    <3>1. context.selected_products = Products /\ context.started = TRUE /\ context.cached = TRUE
      BY <2>2
    <3> QED BY <3>1 DEF ContextProducts
  <2> QED BY <1>1, <2>1, <2>2
<1>3. \/ session = NoSession
      \/ /\ session = [open |-> TRUE, loaded |-> session.loaded, advance_sent |-> session.advance_sent,
                       collected |-> session.collected]
         /\ session.loaded \in {{}, Products} /\ session.advance_sent \in BOOLEAN
         /\ "selected_products" \in DOMAIN session.collected
  BY DEF InterviewInv, InterviewTypeOK, SessionOK
<1>4. DOMAIN EmptyBag = {}
  BY DEF EmptyBag, SetToBag
<1>5. ~session.open => tasks = EmptyBag /\ ContextData = <<>>
  BY DEF InterviewInv, InSession
<1>6. NoSession.open = FALSE
  BY DEF NoSession
<1>7. session # NoSession => session.open = TRUE
  BY <1>3
<1>8. session.open \in BOOLEAN
  BY <1>6, <1>7
<1> QED BY <1>2, <1>3, <1>4, <1>5, <1>6, <1>7, <1>8

\* The context begins with no answer.
LEMMA ContextStarts ==
    ASSUME InterviewInv, initialise
    PROVE  InterviewInv'
<1> USE DEF initialise
<1>1. /\ context' = [started |-> TRUE, cached |-> TRUE, selected_products |-> Products,
                     client_data |-> context'.client_data, version |-> context'.version]
      /\ context'.client_data = <<>>
  OBVIOUS
<1>2. InterviewTypeOK'
  <2>1. ContextOK' /\ SessionOK'
    BY <1>1 DEF InterviewInv, InterviewTypeOK, SessionOK, ContextOK
  <2> QED BY <2>1 DEF InterviewInv, InterviewTypeOK
<1>3. InSession'
  BY <1>1 DEF InterviewInv, InSession, ContextData
<1> QED BY <1>2, <1>3 DEF InterviewInv, SignalsInv, EarnedInv, CarriedInv, WrittenInv, Earned, InFlight

\* A step of one reply alone, that is not its last.
LEMMA ReplyMoves ==
    ASSUME InterviewInv, NEW n \in Slots, NEW r \in Replies, r.pc # "stream",
           r.pc \in {"load", "extract"} => session.open,
           streams' = [streams EXCEPT ![n] = r],
           UNCHANGED <<context, session, tasks, answers, progress, signals, restarts>>, sent' \in Nat
    PROVE  InterviewInv'
<1>1. streams \in [Slots -> Replies]
  BY DEF InterviewInv, InterviewTypeOK
<1>2. streams' \in [Slots -> Replies] /\ streams'[n] = r /\ \A m \in Slots : m # n => streams'[m] = streams[m]
  BY <1>1
<1>3. InterviewTypeOK'
  <2>1. ContextOK' /\ SessionOK'
    BY DEF InterviewInv, InterviewTypeOK, SessionOK, ContextOK
  <2> QED BY <1>2, <2>1 DEF InterviewInv, InterviewTypeOK
<1>4. InSession'
  BY <1>2 DEF InterviewInv, InSession, ContextData
<1>5. EarnedInv'
  <2>1. \A m \in Slots : streams'[m].pc = "stream" => streams'[m] = streams[m]
    BY <1>2
  <2> QED BY <2>1 DEF InterviewInv, EarnedInv, Earned
<1> QED BY <1>3, <1>4, <1>5 DEF InterviewInv, SignalsInv, CarriedInv, WrittenInv, InFlight

\* A request begins its reply.
LEMMA MessageIsSent ==
    ASSUME InterviewInv, NEW n \in Slots, NEW m \in Messages, send_message(n, m)
    PROVE  InterviewInv'
<1> USE DEF send_message, Start
<1> DEFINE r == [pc |-> "resolve", message |-> m]
<1>1. r \in Replies /\ r.pc = "resolve"
  BY DEF Replies
<1>2. sent' \in Nat
  BY DEF InterviewInv, InterviewTypeOK
<1> QED BY <1>1, <1>2, ReplyMoves

\* A greeting opens a session, or hydrates the one there is, and asks for no stage.
LEMMA GreetingStarts ==
    ASSUME InterviewInv, NEW n \in Slots, start_greeting(n)
    PROVE  InterviewInv'
<1> USE DEF start_greeting, Start
<1> DEFINE r == [pc |-> "resolve", message |-> <<>>]
<1>1. r \in Replies /\ r.pc = "resolve"
  BY DEF Replies
<1>2. sent' \in Nat
  BY DEF InterviewInv, InterviewTypeOK
<1> QED BY <1>1, <1>2, ReplyMoves

\* A client that hangs up ends the reply.
LEMMA ClientHangsUp ==
    ASSUME InterviewInv, NEW n \in Slots, disconnect(n)
    PROVE  InterviewInv'
<1> USE DEF disconnect
<1>1. Idle \in Replies /\ Idle.pc = "idle"
  BY DEF Replies, Idle
<1>2. sent' \in Nat
  BY DEF InterviewInv, InterviewTypeOK
<1> QED BY <1>1, <1>2, ReplyMoves

\* What the place of a reply says of it.
LEMMA ReplyTells ==
    ASSUME InterviewInv, NEW n \in Slots
    PROVE  /\ streams \in [Slots -> Replies] /\ streams[n] \in Replies
           /\ streams[n].pc \in {"resolve", "load", "extract"} => streams[n].message \in Messages \cup {<<>>}
           /\ streams[n].pc \in {"load", "extract"} =>
                streams[n].products \in {{}, Products} /\ streams[n].hydrate = <<>>
           /\ streams[n].pc = "stream" => streams[n].complete \in BOOLEAN
           /\ streams[n].pc \in {"load", "extract", "stream"} => session.open
<1>1. streams \in [Slots -> Replies]
  BY DEF InterviewInv, InterviewTypeOK
<1>2. streams[n] \in Replies
  BY <1>1
<1>3. ASSUME NEW r \in Replies
      PROVE  /\ r.pc \in {"resolve", "load", "extract"} => r.message \in Messages \cup {<<>>}
             /\ r.pc \in {"load", "extract"} => r.products \in {{}, Products} /\ r.hydrate = <<>>
             /\ r.pc = "stream" => r.complete \in BOOLEAN
  BY DEF Replies, Idle
<1>4. streams[n].pc \in {"load", "extract", "stream"} => session.open
  BY DEF InterviewInv, InSession
<1> QED BY <1>1, <1>2, <1>3, <1>4

\* A session is made once, with no answer of an earlier one.
LEMMA SessionIsResolved ==
    ASSUME InterviewInv, NEW n \in Slots, resolve_session(n)
    PROVE  InterviewInv'
<1> USE DEF resolve_session
<1> DEFINE new == [open |-> TRUE, loaded |-> {}, advance_sent |-> FALSE,
                   collected |-> [selected_products |-> ContextProducts]]
           r == [pc |-> IF session.open /\ session.loaded # {} THEN "extract" ELSE "load",
                 message |-> streams[n].message, products |-> ContextProducts,
                 hydrate |-> IF session.open THEN <<>> ELSE ContextData]
<1>1. r \in Replies /\ r.pc \in {"load", "extract"}
  <2>1. (IF session.open THEN <<>> ELSE ContextData) = <<>>
    BY MemoryTells
  <2>2. streams[n].message \in Messages \cup {<<>>} /\ ContextProducts \in {{}, Products}
    BY ReplyTells, MemoryTells
  <2> QED BY <2>1, <2>2 DEF Replies
<1>2. streams' = [streams EXCEPT ![n] = r]
  OBVIOUS
<1>3. CASE session.open
  <2>1. UNCHANGED <<context, session, tasks, answers, progress, signals, restarts>> /\ sent' \in Nat
    BY <1>3 DEF InterviewInv, InterviewTypeOK
  <2> HIDE DEF resolve_session, r
  <2> QED BY <1>1, <1>2, <1>3, <2>1, ReplyMoves
<1>4. CASE ~session.open
  <2>1. session' = new /\ UNCHANGED <<context, tasks, answers, progress, signals, sent, restarts>>
    BY <1>4
  <2>2. /\ session' = [open |-> TRUE, loaded |-> session'.loaded, advance_sent |-> session'.advance_sent,
                       collected |-> session'.collected]
        /\ session'.loaded \in {{}, Products} /\ session'.advance_sent = FALSE /\ session'.open = TRUE
        /\ "selected_products" \in DOMAIN session'.collected
    <3>1. /\ new.open = TRUE /\ new.loaded = {} /\ new.advance_sent = FALSE
          /\ new.collected = [selected_products |-> ContextProducts]
      OBVIOUS
    <3>2. new = [open |-> TRUE, loaded |-> new.loaded, advance_sent |-> new.advance_sent, collected |-> new.collected]
      BY <3>1
    <3>3. "selected_products" \in DOMAIN new.collected
      BY <3>1
    <3>4. session' = new
      BY <2>1
    <3> HIDE DEF resolve_session, new, r
    <3> QED BY <3>1, <3>2, <3>3, <3>4
  <2> HIDE DEF resolve_session, r, new
  <2>3. streams \in [Slots -> Replies] /\ DOMAIN tasks = {}
    BY <1>4, ReplyTells, MemoryTells
  <2>4. /\ streams' \in [Slots -> Replies] /\ streams'[n] = r
        /\ \A m \in Slots : m # n => streams'[m] = streams[m]
    BY <1>1, <1>2, <2>3
  <2>5. InterviewTypeOK'
    <3>1. SessionOK'
      BY <2>2 DEF SessionOK
    <3>2. ContextOK'
      BY <2>1 DEF InterviewInv, InterviewTypeOK, ContextOK
    <3> QED BY <2>1, <2>4, <3>1, <3>2 DEF InterviewInv, InterviewTypeOK
  <2>6. InSession'
    BY <2>2 DEF InSession
  <2>7. SignalsInv'
    BY <1>4, <2>1, <2>2 DEF InterviewInv, SignalsInv, InFlight
  <2>8. EarnedInv'
    <3>1. \A m \in Slots : streams'[m].pc # "stream"
      BY <1>1, <1>4, <2>4, ReplyTells
    <3> QED BY <3>1, <2>2 DEF EarnedInv
  <2>9. CarriedInv'
    BY <2>1, <2>3 DEF CarriedInv
  <2>10. WrittenInv'
    BY <1>4, <2>1 DEF InterviewInv, WrittenInv
  <2> QED BY <2>5, <2>6, <2>7, <2>8, <2>9, <2>10 DEF InterviewInv
<1> QED BY <1>3, <1>4, MemoryTells

Held(l, a, c) == [open |-> TRUE, loaded |-> l, advance_sent |-> a, collected |-> c]

\* One part of a session changes at a time: its questions.
LEMMA QuestionsChange ==
    ASSUME NEW l, NEW a, NEW c, NEW x
    PROVE  [Held(l, a, c) EXCEPT !.loaded = x] = Held(x, a, c)
<1>1. [Held(l, a, c) EXCEPT !.loaded = x] \in [open : {TRUE}, loaded : {x}, advance_sent : {a}, collected : {c}]
  BY DEF Held
<1>2. ASSUME NEW e \in [open : {TRUE}, loaded : {x}, advance_sent : {a}, collected : {c}] PROVE e = Held(x, a, c)
  BY DEF Held
<1> QED BY <1>1, <1>2

\* Its answers.
LEMMA CollectedChange ==
    ASSUME NEW l, NEW a, NEW c, NEW x
    PROVE  [Held(l, a, c) EXCEPT !.collected = x] = Held(l, a, x)
<1>1. [Held(l, a, c) EXCEPT !.collected = x] \in [open : {TRUE}, loaded : {l}, advance_sent : {a}, collected : {x}]
  BY DEF Held
<1>2. ASSUME NEW e \in [open : {TRUE}, loaded : {l}, advance_sent : {a}, collected : {x}] PROVE e = Held(l, a, x)
  BY DEF Held
<1> QED BY <1>1, <1>2

\* Its flag.
LEMMA FlagIsSet ==
    ASSUME NEW l, NEW a, NEW c
    PROVE  [Held(l, a, c) EXCEPT !.advance_sent = TRUE] = Held(l, TRUE, c)
<1>1. [Held(l, a, c) EXCEPT !.advance_sent = TRUE]
         \in [open : {TRUE}, loaded : {l}, advance_sent : {TRUE}, collected : {c}]
  BY DEF Held
<1>2. ASSUME NEW e \in [open : {TRUE}, loaded : {l}, advance_sent : {TRUE}, collected : {c}]
      PROVE  e = Held(l, TRUE, c)
  BY DEF Held
<1> QED BY <1>1, <1>2

\* The questions of the database, once loaded, stay.
LEMMA QuestionsAreLoaded ==
    ASSUME InterviewInv, NEW n \in Slots, questions_loaded(n)
    PROVE  InterviewInv'
<1> USE DEF questions_loaded
<1> DEFINE r == [streams[n] EXCEPT !.pc = "extract"]
<1>1. /\ streams[n].pc = "load" /\ session.open /\ streams[n].products \in {{}, Products}
      /\ streams \in [Slots -> Replies]
  BY ReplyTells
<1>2. r \in Replies /\ r.pc = "extract"
  <2>1. ASSUME NEW q \in Replies, q.pc = "load"
        PROVE  [q EXCEPT !.pc = "extract"] \in Replies /\ [q EXCEPT !.pc = "extract"].pc = "extract"
    BY <2>1 DEF Replies, Idle
  <2> QED BY <2>1, <1>1
<1>3. streams' = [streams EXCEPT ![n] = r]
  BY <1>1
<1>4. sent' \in Nat
  BY DEF InterviewInv, InterviewTypeOK
<1>5. CASE session' = session
  <2>1. UNCHANGED <<context, session, tasks, answers, progress, signals, restarts>>
    BY <1>5
  <2> HIDE DEF questions_loaded, r
  <2> QED BY <1>1, <1>2, <1>3, <1>4, <2>1, ReplyMoves
<1>6. CASE Products # {} /\ session' = [session EXCEPT !.loaded = Products]
  <2> DEFINE s == Held(session.loaded, session.advance_sent, session.collected)
  <2>1. session = s /\ session.advance_sent \in BOOLEAN /\ "selected_products" \in DOMAIN session.collected
    BY <1>1, MemoryTells DEF Held
  <2>2. [s EXCEPT !.loaded = Products] = Held(Products, session.advance_sent, session.collected)
    BY QuestionsChange
  <2>3. session' = [open |-> TRUE, loaded |-> Products, advance_sent |-> session.advance_sent,
                    collected |-> session.collected]
    <3>1. session' = [s EXCEPT !.loaded = Products]
      BY <1>6, <2>1
    <3> QED BY <3>1, <2>2 DEF Held
  <2>4. /\ session'.open = TRUE /\ session'.loaded = Products /\ session'.advance_sent = session.advance_sent
        /\ session'.collected = session.collected
    BY <2>3
  <2>5. UNCHANGED <<context, tasks, answers, progress, signals, sent, restarts>>
    OBVIOUS
  <2> HIDE DEF questions_loaded, r, s
  <2>6. /\ streams' \in [Slots -> Replies] /\ streams'[n] = r
        /\ \A m \in Slots : m # n => streams'[m] = streams[m]
    BY <1>1, <1>2, <1>3
  <2>7. InterviewTypeOK'
    <3>1. SessionOK'
      BY <2>1, <2>3, <2>4 DEF SessionOK
    <3>2. ContextOK'
      BY <2>5 DEF InterviewInv, InterviewTypeOK, ContextOK
    <3> QED BY <2>5, <2>6, <3>1, <3>2 DEF InterviewInv, InterviewTypeOK
  <2>8. InSession'
    BY <2>4 DEF InSession
  <2>9. SignalsInv'
    BY <1>1, <2>4, <2>5 DEF InterviewInv, SignalsInv, InFlight
  <2>10. EarnedInv'
    <3>1. \A m \in Slots : streams'[m].pc = "stream" => streams'[m] = streams[m]
      BY <1>2, <2>6
    <3>2. Earned(session) => Earned(session)'
      BY <1>6, <2>4 DEF Earned
    <3> QED BY <1>1, <2>4, <3>1, <3>2 DEF InterviewInv, EarnedInv
  <2>11. CarriedInv' /\ WrittenInv'
    BY <1>1, <2>4, <2>5 DEF InterviewInv, CarriedInv, WrittenInv
  <2> QED BY <2>7, <2>8, <2>9, <2>10, <2>11 DEF InterviewInv
<1> QED BY <1>1, <1>5, <1>6

\* A reply ends with the one signal of its session, if it has completed the answers.
LEMMA ReplyEnds ==
    ASSUME InterviewInv, NEW n \in Slots, reply_ends(n)
    PROVE  InterviewInv'
<1> USE DEF reply_ends
<1>1. streams[n].pc = "stream" /\ session.open /\ streams \in [Slots -> Replies] /\ streams[n].complete \in BOOLEAN
  BY ReplyTells
<1>2. Idle \in Replies /\ Idle.pc = "idle"
  BY DEF Replies, Idle
<1>3. streams' = [streams EXCEPT ![n] = Idle]
  OBVIOUS
<1>4. sent' \in Nat
  BY DEF InterviewInv, InterviewTypeOK
<1>5. CASE ~Advance(n)
  <2>1. UNCHANGED <<context, session, tasks, answers, progress, signals, restarts>>
    BY <1>5
  <2> HIDE DEF reply_ends
  <2> QED BY <1>2, <1>3, <1>4, <2>1, ReplyMoves
<1>6. CASE Advance(n)
  <2> DEFINE s == Held(session.loaded, session.advance_sent, session.collected)
             J == {[kind |-> "advance"]}
  <2>1. /\ session = s /\ "selected_products" \in DOMAIN session.collected
        /\ session.loaded \in {{}, Products} /\ ~session.advance_sent /\ streams[n].complete
    BY <1>1, <1>6, MemoryTells DEF Advance, Held
  <2>2. [s EXCEPT !.advance_sent = TRUE] = Held(session.loaded, TRUE, session.collected)
    <3> HIDE DEF reply_ends
    <3> QED BY FlagIsSet
  <2>3. session' = [open |-> TRUE, loaded |-> session.loaded, advance_sent |-> TRUE, collected |-> session.collected]
    <3>1. session' = [s EXCEPT !.advance_sent = TRUE]
      BY <1>6, <2>1
    <3> QED BY <3>1, <2>2 DEF Held
  <2>4. /\ session'.open = TRUE /\ session'.loaded = session.loaded /\ session'.advance_sent = TRUE
        /\ session'.collected = session.collected
    BY <2>3
  <2>5. UNCHANGED <<context, answers, progress, signals, sent, restarts>> /\ tasks' = tasks (+) SetToBag(J)
    BY <1>6
  <2> HIDE DEF reply_ends, s
  <2>6. Tasks(tasks)
    BY DEF InterviewInv, InterviewTypeOK, Tasks
  <2>7. /\ Tasks(tasks') /\ DOMAIN tasks' = DOMAIN tasks \cup J
        /\ \A e : Count(tasks', e) = Count(tasks, e) + (IF e \in J THEN 1 ELSE 0)
    <3>1. /\ Tasks(tasks (+) SetToBag(J)) /\ DOMAIN (tasks (+) SetToBag(J)) = DOMAIN tasks \cup J
          /\ \A e : Count(tasks (+) SetToBag(J), e) = Count(tasks, e) + (IF e \in J THEN 1 ELSE 0)
      BY <2>6, TasksAdded
    <3> QED BY <3>1, <2>5
  <2>8. /\ streams' \in [Slots -> Replies] /\ streams'[n] = Idle
        /\ \A m \in Slots : m # n => streams'[m] = streams[m]
    BY <1>1, <1>2, <1>3
  <2>9. InterviewTypeOK'
    <3>1. \A k \in DOMAIN tasks' : k \in DOMAIN tasks \/ k = [kind |-> "advance"]
      BY <2>7
    <3>2. \A k \in DOMAIN tasks' : TaskOK(k)
      BY <3>1 DEF InterviewInv, InterviewTypeOK, TaskOK
    <3>3. SessionOK'
      BY <2>1, <2>3, <2>4 DEF SessionOK
    <3>4. ContextOK'
      BY <2>5 DEF InterviewInv, InterviewTypeOK, ContextOK
    <3> QED BY <3>2, <3>3, <3>4, <2>5, <2>7, <2>8 DEF InterviewInv, InterviewTypeOK, Tasks
  <2>10. InSession'
    BY <2>4 DEF InSession
  <2>11. SignalsInv'
    <3> DEFINE a == [kind |-> "advance"]
    <3>1. InFlight(a) = Count(tasks, a) /\ InFlight(a)' = Count(tasks', a) /\ Count(tasks, a) \in Nat
      BY <2>6 DEF InFlight, Count, BagIn, BagToSet, Tasks
    <3>2. Count(tasks', a) = Count(tasks, a) + 1
      BY <2>7
    <3>3. signals + InFlight(a) <= restarts + 0 /\ signals \in Nat /\ restarts \in Nat
      BY <2>1 DEF InterviewInv, SignalsInv, InterviewTypeOK
    <3> HIDE DEF a
    <3>4. signals + InFlight(a)' <= restarts + 1
      BY <3>1, <3>2, <3>3
    <3> QED BY <3>4, <2>4, <2>5 DEF SignalsInv, a
  <2>12. EarnedInv'
    <3>1. Earned(session)
      BY <1>1, <2>1 DEF InterviewInv, EarnedInv
    <3> QED BY <3>1, <2>4 DEF EarnedInv, Earned
  <2>13. CarriedInv'
    <3>1. \A k \in DOMAIN tasks' : k.kind # "advance" => k \in DOMAIN tasks
      BY <2>7
    <3> QED BY <3>1, <2>4 DEF InterviewInv, CarriedInv
  <2>14. WrittenInv'
    BY <2>4, <2>5 DEF InterviewInv, WrittenInv
  <2> QED BY <2>9, <2>10, <2>11, <2>12, <2>13, <2>14 DEF InterviewInv
<1> QED BY <1>5, <1>6

\* What a task in flight carries is what the session holds.
LEMMA TaskTells ==
    ASSUME InterviewInv, NEW k \in DOMAIN tasks
    PROVE  /\ TaskOK(k) /\ session.open
           /\ k.kind # "advance" => k.field \in DOMAIN session.collected /\ k.value = session.collected[k.field]
BY MemoryTells DEF InterviewInv, InterviewTypeOK, CarriedInv, TaskOK

\* A step of one task with an answer, after which the same answer may be carried on.
LEMMA TaskRuns ==
    ASSUME InterviewInv, NEW k \in DOMAIN tasks, k.kind # "advance", NEW J, End(k, J),
           \A j \in J : TaskOK(j) /\ j.kind # "advance" /\ j.field = k.field /\ j.value = k.value,
           UNCHANGED <<session, streams, sent, signals, restarts>>,
           ContextOK', DOMAIN answers' = FieldIds, WrittenInv'
    PROVE  InterviewInv'
<1>1. Tasks(tasks)
  BY DEF InterviewInv, InterviewTypeOK, Tasks
<1>2. /\ Tasks(tasks') /\ DOMAIN tasks' \subseteq DOMAIN tasks \cup J
      /\ \A e : e # k /\ e \notin J => InFlight(e)' = InFlight(e)
  BY <1>1, TaskEnds
<1>3. \A j \in DOMAIN tasks' : TaskOK(j)
  BY <1>2, TaskTells
<1>4. InterviewTypeOK'
  <2>1. SessionOK'
    BY DEF InterviewInv, InterviewTypeOK, SessionOK
  <2> QED BY <1>2, <1>3, <2>1 DEF InterviewInv, InterviewTypeOK, Tasks
<1>5. session.open
  BY TaskTells
<1>6. InSession'
  BY <1>5 DEF InSession
<1>7. SignalsInv'
  <2> DEFINE a == [kind |-> "advance"]
  <2>1. a.kind = "advance"
    OBVIOUS
  <2> HIDE DEF a
  <2>2. a # k /\ a \notin J
    BY <2>1
  <2>3. InFlight(a)' = InFlight(a)
    BY <2>2, <1>2
  <2>4. InFlight([kind |-> "advance"])' = InFlight([kind |-> "advance"])
    BY <2>3 DEF a
  <2> QED BY <2>4 DEF InterviewInv, SignalsInv
<1>8. EarnedInv'
  BY DEF InterviewInv, EarnedInv, Earned
<1>9. CarriedInv'
  <2>1. ASSUME NEW j \in DOMAIN tasks', j.kind # "advance"
        PROVE  j.field \in DOMAIN session.collected /\ j.value = session.collected[j.field]
    BY <2>1, <1>2, TaskTells
  <2> QED BY <2>1, <1>5 DEF CarriedInv
<1> QED BY <1>4, <1>6, <1>7, <1>8, <1>9 DEF InterviewInv

\* The context store takes the answer.
LEMMA FieldIsPersisted ==
    ASSUME InterviewInv, NEW k \in DOMAIN tasks, persist_field(k)
    PROVE  InterviewInv'
<1> USE DEF persist_field
<1> DEFINE j == [k EXCEPT !.kind = "answer"]
           J == IF Known(k.field) THEN {j} ELSE {}
<1>1. k.kind = "field" /\ TaskOK(k) /\ End(k, J)
  BY TaskTells
<1>2. k = [kind |-> "field", field |-> k.field, value |-> k.value]
  BY <1>1 DEF TaskOK
<1>3. TaskOK(j) /\ j.kind = "answer" /\ j.field = k.field /\ j.value = k.value
  <2>1. ASSUME NEW f, NEW v, NEW c \in [kind : {"field"}, field : {f}, value : {v}]
        PROVE  [c EXCEPT !.kind = "answer"] \in [kind : {"answer"}, field : {f}, value : {v}]
    OBVIOUS
  <2>2. k \in [kind : {"field"}, field : {k.field}, value : {k.value}]
    BY <1>2
  <2>3. j \in [kind : {"answer"}, field : {k.field}, value : {k.value}]
    <3> HIDE DEF persist_field
    <3> QED BY <2>1, <2>2
  <2> HIDE DEF j, persist_field
  <2>4. j.kind = "answer" /\ j.field = k.field /\ j.value = k.value
    BY <2>3
  <2>5. j = [kind |-> j.kind, field |-> j.field, value |-> j.value]
    BY <2>3, <2>4
  <2> QED BY <2>4, <2>5 DEF TaskOK
<1>4. ContextOK'
  <2>1. ContextOK
    BY DEF InterviewInv, InterviewTypeOK, ContextOK
  <2>2. CASE context \in [started : BOOLEAN, cached : {FALSE}]
    <3>1. context' = context
      BY <2>2 DEF update_client_data
    <3> QED BY <3>1, <2>1 DEF ContextOK
  <2>3. CASE context = [started |-> TRUE, cached |-> TRUE, selected_products |-> Products,
                        client_data |-> context.client_data, version |-> context.version]
    <3> DEFINE d == Put(context.client_data, k.field, k.value)
               v == context.version + 1
               R(D, V) == [started : {TRUE}, cached : {TRUE}, selected_products : {Products},
                           client_data : {D}, version : {V}]
    <3>1. context \in R(context.client_data, context.version) /\ context.cached = TRUE
      <4>1. ASSUME NEW D, NEW V, NEW c, c = [started |-> TRUE, cached |-> TRUE, selected_products |-> Products,
                                             client_data |-> D, version |-> V]
            PROVE  c \in R(D, V) /\ c.cached = TRUE
        <5> HIDE DEF persist_field
        <5> QED BY <4>1
      <4> HIDE DEF persist_field, R
      <4> QED BY <4>1, <2>3
    <3>2. ASSUME NEW D, NEW V, NEW E, NEW W, NEW c \in R(D, V)
          PROVE  [c EXCEPT !.client_data = E, !.version = W] \in R(E, W)
      <4> HIDE DEF persist_field
      <4> QED OBVIOUS
    <3>3. context' = [context EXCEPT !.client_data = d, !.version = v]
      BY <3>1 DEF update_client_data
    <3> HIDE DEF persist_field, d, v
    <3>4. context' \in R(d, v)
      BY <3>1, <3>2, <3>3, ZenonT(20)
    <3>5. /\ context'.started = TRUE /\ context'.cached = TRUE /\ context'.selected_products = Products
          /\ context'.client_data = d /\ context'.version = v
      BY <3>4
    <3>6. context' = [started |-> TRUE, cached |-> TRUE, selected_products |-> Products,
                      client_data |-> d, version |-> v]
      BY <3>4
    <3> QED BY <3>5, <3>6 DEF ContextOK
  <2> QED BY <2>1, <2>2, <2>3 DEF ContextOK
<1>5. UNCHANGED <<session, streams, answers, progress, signals, sent, lost, restarts>>
  OBVIOUS
<1>6. WrittenInv' /\ DOMAIN answers' = FieldIds
  BY <1>5 DEF InterviewInv, InterviewTypeOK, WrittenInv
<1> HIDE DEF persist_field, j
<1> QED BY <1>1, <1>3, <1>4, <1>5, <1>6, TaskRuns

\* The answer's transaction reads the status of its questionnaire.
LEMMA SessionIsUpserted ==
    ASSUME InterviewInv, NEW k \in DOMAIN tasks, upsert_question_session(k)
    PROVE  InterviewInv'
<1> USE DEF upsert_question_session
<1> DEFINE found == progress[QuestionnaireOf(k.field)] # "none"
           complete == is_complete(session)
           j == [kind |-> "commit", field |-> k.field, value |-> k.value, found |-> found, complete |-> complete]
<1>1. k.kind = "answer" /\ End(k, {j})
  OBVIOUS
<1>2. TaskOK(j) /\ j.kind = "commit" /\ j.field = k.field /\ j.value = k.value
  <2> HIDE DEF upsert_question_session, found, complete
  <2>1. j.kind = "commit" /\ j.field = k.field /\ j.value = k.value /\ j.found = found /\ j.complete = complete
    OBVIOUS
  <2>2. j = [kind |-> "commit", field |-> j.field, value |-> j.value, found |-> j.found, complete |-> j.complete]
    BY <2>1
  <2> QED BY <2>1, <2>2 DEF TaskOK
<1>3. UNCHANGED <<context, session, streams, answers, progress, signals, sent, lost, restarts>>
  OBVIOUS
<1>4. WrittenInv' /\ DOMAIN answers' = FieldIds /\ ContextOK'
  BY <1>3 DEF InterviewInv, InterviewTypeOK, WrittenInv, ContextOK
<1> HIDE DEF upsert_question_session, j
<1> QED BY <1>1, <1>2, <1>3, <1>4, TaskRuns

\* What is written is what the session holds.
LEMMA AnswerIsCommitted ==
    ASSUME InterviewInv, NEW k \in DOMAIN tasks, commit_answer(k)
    PROVE  InterviewInv'
<1> USE DEF commit_answer
<1>1. k.kind = "commit" /\ End(k, {}) /\ UNCHANGED <<context, session, streams, signals, sent, restarts>>
  OBVIOUS
<1>2. session.open /\ k.field \in DOMAIN session.collected /\ k.value = session.collected[k.field]
  BY <1>1, TaskTells
<1>3. answers' = answers \/ answers' = [answers EXCEPT ![k.field] = k.value]
  OBVIOUS
<1> HIDE DEF commit_answer
<1>4. DOMAIN answers' = FieldIds
  BY <1>3 DEF InterviewInv, InterviewTypeOK
<1>5. ASSUME NEW f \in FieldIds PROVE answers'[f] = answers[f] \/ (f = k.field /\ answers'[f] = k.value)
  BY <1>3 DEF InterviewInv, InterviewTypeOK
<1>6. WrittenInv'
  BY <1>1, <1>2, <1>5 DEF InterviewInv, WrittenInv
<1>7. ContextOK'
  BY <1>1 DEF InterviewInv, InterviewTypeOK, ContextOK
<1> QED BY <1>1, <1>4, <1>6, <1>7, TaskRuns

\* A signal is sent by a task that ends.
LEMMA SignalIsSent ==
    ASSUME InterviewInv, NEW k \in DOMAIN tasks, signal_advance(k)
    PROVE  InterviewInv'
<1> USE DEF signal_advance
<1>1. /\ k.kind = "advance" /\ End(k, {}) /\ signals' = signals + 1
      /\ UNCHANGED <<context, session, streams, answers, progress, sent, lost, restarts>>
  OBVIOUS
<1> HIDE DEF signal_advance
<1>2. k = [kind |-> "advance"]
  BY <1>1, TaskTells DEF TaskOK
<1>3. Tasks(tasks)
  BY DEF InterviewInv, InterviewTypeOK, Tasks
<1>4. Tasks(tasks') /\ DOMAIN tasks' \subseteq DOMAIN tasks /\ InFlight(k)' = InFlight(k) - 1
  BY <1>1, <1>3, TaskEnds
<1>5. session.open
  BY TaskTells
<1>6. InterviewTypeOK'
  <2>1. ContextOK' /\ SessionOK'
    BY <1>1 DEF InterviewInv, InterviewTypeOK, SessionOK, ContextOK
  <2> QED BY <1>1, <1>4, <2>1 DEF InterviewInv, InterviewTypeOK, Tasks
<1>7. InSession'
  BY <1>1, <1>5 DEF InSession
<1>8. SignalsInv'
  <2>1. InFlight(k) \in Nat /\ signals \in Nat /\ restarts \in Nat
    BY <1>3 DEF InFlight, BagIn, BagToSet, Tasks, InterviewInv, InterviewTypeOK
  <2>2. signals + InFlight(k) = (signals + 1) + (InFlight(k) - 1)
    BY <2>1
  <2>3. signals' + InFlight(k)' = signals + InFlight(k)
    BY <1>1, <1>4, <2>2
  <2> QED BY <1>1, <1>2, <2>3 DEF InterviewInv, SignalsInv
<1>9. EarnedInv' /\ WrittenInv'
  BY <1>1 DEF InterviewInv, EarnedInv, Earned, WrittenInv
<1>10. CarriedInv'
  BY <1>1, <1>4 DEF InterviewInv, CarriedInv
<1> QED BY <1>6, <1>7, <1>8, <1>9, <1>10 DEF InterviewInv

\* Nothing that was in memory outlives the process.
LEMMA ApiRestarts ==
    ASSUME InterviewInv, restart_api
    PROVE  InterviewInv'
<1> USE DEF restart_api
<1>1. DOMAIN tasks' = {} /\ tasks' \in [DOMAIN tasks' -> Nat \ {0}]
  BY DEF EmptyBag, SetToBag
<1>2. streams' \in [Slots -> Replies] /\ \A n \in Slots : streams'[n].pc = "idle"
  BY DEF Replies, Idle
<1>3. ~session'.open /\ session' = NoSession
  BY DEF NoSession
<1>4. context' \in [started : BOOLEAN, cached : {FALSE}]
  BY MemoryTells
<1>5. restarts' = restarts + 1 /\ signals' = signals /\ UNCHANGED <<answers, sent>> /\ tasks' = EmptyBag
  OBVIOUS
<1>6. signals \in Nat /\ restarts \in Nat
  BY DEF InterviewInv, InterviewTypeOK
<1> HIDE DEF restart_api
<1>7. InterviewTypeOK'
  <2>1. ContextOK' /\ SessionOK'
    BY <1>3, <1>4 DEF SessionOK, ContextOK
  <2>2. signals' \in Nat /\ restarts' \in Nat /\ sent' \in Nat /\ DOMAIN answers' = FieldIds
    BY <1>5, <1>6 DEF InterviewInv, InterviewTypeOK
  <2> QED BY <1>1, <1>2, <2>1, <2>2 DEF InterviewTypeOK
<1>8. InSession'
  BY <1>2, <1>3, <1>4, <1>5 DEF InSession, ContextData
<1>9. SignalsInv'
  <2>1. InFlight([kind |-> "advance"])' = 0
    BY <1>1 DEF InFlight, BagIn, BagToSet
  <2>2. InFlight([kind |-> "advance"]) \in Nat
    BY DEF InFlight, BagIn, BagToSet, InterviewInv, InterviewTypeOK
  <2>3. signals + InFlight([kind |-> "advance"]) <= restarts + 1
    BY <1>6, <2>2 DEF InterviewInv, SignalsInv
  <2>4. signals <= restarts + 1
    BY <1>6, <2>2, <2>3
  <2> QED BY <1>3, <1>5, <1>6, <2>1, <2>4 DEF SignalsInv
<1>10. EarnedInv' /\ CarriedInv' /\ WrittenInv'
  BY <1>1, <1>2, <1>3, <1>5, <1>6 DEF EarnedInv, CarriedInv, WrittenInv
<1> QED BY <1>7, <1>8, <1>9, <1>10 DEF InterviewInv

\* The answers that come first are those of the session itself.
LEMMA HydratedIsSession ==
    ASSUME InterviewInv, NEW n \in Slots, streams[n].pc = "extract"
    PROVE  /\ session.open
           /\ Hydrated(n) = Held(session.loaded, session.advance_sent, Hydrated(n).collected)
           /\ DOMAIN Hydrated(n).collected = DOMAIN session.collected
           /\ \A k \in DOMAIN session.collected : Hydrated(n).collected[k] = session.collected[k]
<1>1. session.open /\ streams[n].hydrate = <<>>
  BY ReplyTells
<1>2. session = Held(session.loaded, session.advance_sent, session.collected)
  BY <1>1, MemoryTells DEF Held
<1> DEFINE C == [k \in DOMAIN session.collected \cup DOMAIN streams[n].hydrate |->
                   IF k \in DOMAIN streams[n].hydrate THEN streams[n].hydrate[k] ELSE session.collected[k]]
<1>3. Hydrated(n) = [session EXCEPT !.collected = C]
  BY DEF Hydrated
<1>4. DOMAIN streams[n].hydrate = {}
  BY <1>1
<1>5. DOMAIN C = DOMAIN session.collected /\ \A k \in DOMAIN session.collected : C[k] = session.collected[k]
  BY <1>4
<1> HIDE DEF C
<1>6. ASSUME NEW l, NEW a, NEW c PROVE [Held(l, a, c) EXCEPT !.collected = C] = Held(l, a, C)
  BY CollectedChange
<1>7. Hydrated(n) = Held(session.loaded, session.advance_sent, C)
  BY <1>2, <1>3, <1>6
<1>8. Hydrated(n).collected = C
  BY <1>7 DEF Held
<1> QED BY <1>1, <1>5, <1>7, <1>8

\* The session after a message, its answers kept and perhaps one more.
LEMMA SessionGrows ==
    ASSUME InterviewInv, NEW n \in Slots, streams[n].pc = "extract", NEW s,
           s = Held(session.loaded, session.advance_sent, s.collected),
           DOMAIN session.collected \subseteq DOMAIN s.collected,
           \A k \in DOMAIN session.collected : s.collected[k] = session.collected[k],
           Reply(n, s), Earned(session) => Earned(s),
           UNCHANGED <<context, answers, progress, signals, sent, lost, restarts>>,
           Tasks(tasks'), InFlight([kind |-> "advance"])' = InFlight([kind |-> "advance"]),
           \A k \in DOMAIN tasks' : k \notin DOMAIN tasks =>
             TaskOK(k) /\ k.kind # "advance" /\ k.field \in DOMAIN s.collected /\ k.value = s.collected[k.field]
    PROVE  InterviewInv'
<1>1. session.open /\ session.loaded \in {{}, Products} /\ session.advance_sent \in BOOLEAN
      /\ "selected_products" \in DOMAIN session.collected
  BY ReplyTells, MemoryTells
<1> DEFINE r == [pc |-> "stream", complete |-> streams[n].message # <<>> /\ is_complete(s)]
<1>2. session' = s /\ streams' = [streams EXCEPT ![n] = r]
  BY DEF Reply
<1>3. s.open = TRUE /\ s.loaded = session.loaded /\ s.advance_sent = session.advance_sent
  BY DEF Held
<1>4. r \in Replies /\ r.pc = "stream" /\ (r.complete => is_complete(s))
  <2>1. (streams[n].message # <<>> /\ is_complete(s)) \in BOOLEAN
    OBVIOUS
  <2> QED BY <2>1 DEF Replies
<1> HIDE DEF r
<1>5. streams' \in [Slots -> Replies] /\ streams'[n] = r /\ \A m \in Slots : m # n => streams'[m] = streams[m]
  BY <1>2, <1>4, ReplyTells
<1>6. \A k \in DOMAIN tasks' : TaskOK(k)
  BY TaskTells
<1>7. InterviewTypeOK'
  <2>1. SessionOK'
    BY <1>1, <1>2, <1>3 DEF SessionOK, Held
  <2>2. ContextOK'
    BY DEF InterviewInv, InterviewTypeOK, ContextOK
  <2> QED BY <1>5, <1>6, <2>1, <2>2 DEF InterviewInv, InterviewTypeOK, Tasks
<1>8. InSession'
  BY <1>2, <1>3 DEF InSession
<1>9. SignalsInv'
  BY <1>1, <1>2, <1>3 DEF InterviewInv, SignalsInv
<1>10. is_complete(s) => Earned(s)
  BY <1>1, <1>3 DEF is_complete, effective_fields, Earned
<1>11. EarnedInv'
  <2>1. ASSUME (session'.open /\ session'.advance_sent)
                 \/ (\E m \in Slots : streams'[m].pc = "stream" /\ streams'[m].complete)
        PROVE  Earned(s)
    <3>1. CASE session'.advance_sent
      BY <3>1, <1>1, <1>2, <1>3 DEF InterviewInv, EarnedInv
    <3>2. ASSUME NEW m \in Slots, streams'[m].pc = "stream", streams'[m].complete PROVE Earned(s)
      <4>1. CASE m = n
        BY <3>2, <4>1, <1>4, <1>5, <1>10
      <4>2. CASE m # n
        BY <3>2, <4>2, <1>5 DEF InterviewInv, EarnedInv
      <4> QED BY <4>1, <4>2
    <3> QED BY <2>1, <3>1, <3>2
  <2>2. Earned(s) => Earned(session')
    BY <1>2
  <2>3. Earned(session)' <=> Earned(session')
    BY DEF Earned
  <2> QED BY <2>1, <2>2, <2>3 DEF EarnedInv
<1>12. CarriedInv'
  <2>1. ASSUME NEW k \in DOMAIN tasks', k.kind # "advance"
        PROVE  k.field \in DOMAIN s.collected /\ k.value = s.collected[k.field]
    BY <2>1, TaskTells
  <2> QED BY <2>1, <1>2, <1>3 DEF CarriedInv
<1>13. WrittenInv'
  BY <1>1, <1>2, <1>3 DEF InterviewInv, WrittenInv
<1> QED BY <1>7, <1>8, <1>9, <1>11, <1>12, <1>13 DEF InterviewInv

\* A message adds at most one answer, to a question that is still to be asked.
LEMMA MessageIsTaken ==
    ASSUME InterviewInv, NEW n \in Slots, extract_and_update(n)
    PROVE  InterviewInv'
<1> DEFINE s == Hydrated(n)
           m == streams[n].message
           f(i) == effective_fields(s)[i]
<1>1. /\ streams[n].pc = "extract"
      /\ UNCHANGED <<context, answers, progress, signals, sent, lost, restarts>>
      /\ \/ \E i \in next_field(s) :
              /\ Taken(m, f(i), s.collected)
              /\ Reply(n, [s EXCEPT !.collected = Put(@, f(i).field_id, extract_value(m, f(i)))])
              /\ tasks' = tasks (+) SetToBag({[kind |-> "field", field |-> f(i).field_id,
                                               value |-> extract_value(m, f(i))]})
         \/ /\ \A i \in next_field(s) : ~Taken(m, f(i), s.collected)
            /\ Reply(n, s)
            /\ UNCHANGED tasks
  BY Zenon DEF extract_and_update
<1>2. /\ session.open /\ s = Held(session.loaded, session.advance_sent, s.collected)
      /\ DOMAIN s.collected = DOMAIN session.collected
      /\ \A k \in DOMAIN session.collected : s.collected[k] = session.collected[k]
  BY <1>1, HydratedIsSession
<1> HIDE DEF s
<1>3. s.loaded = session.loaded
  BY <1>2 DEF Held
<1>4. \A F : unanswered(F, s.collected) = unanswered(F, session.collected)
  BY <1>2, SameAnswers
<1>5. Earned(session) => Earned(s)
  BY <1>3, <1>4 DEF Earned
<1>6. Tasks(tasks)
  BY DEF InterviewInv, InterviewTypeOK, Tasks
<1>7. CASE Reply(n, s) /\ UNCHANGED tasks
  <2>1. InFlight([kind |-> "advance"])' = InFlight([kind |-> "advance"])
    BY <1>7 DEF InFlight
  <2>2. Tasks(tasks') /\ \A k \in DOMAIN tasks' : k \in DOMAIN tasks
    BY <1>6, <1>7
  <2>3. /\ DOMAIN session.collected \subseteq DOMAIN s.collected
        /\ \A k \in DOMAIN tasks' : k \notin DOMAIN tasks =>
             TaskOK(k) /\ k.kind # "advance" /\ k.field \in DOMAIN s.collected /\ k.value = s.collected[k.field]
    BY <1>2, <2>2
  <2> QED BY <1>1, <1>2, <1>5, <1>7, <2>1, <2>2, <2>3, SessionGrows
<1>8. ASSUME NEW i \in next_field(s),
             Reply(n, [s EXCEPT !.collected = Put(@, f(i).field_id, extract_value(m, f(i)))]),
             tasks' = tasks (+) SetToBag({[kind |-> "field", field |-> f(i).field_id,
                                           value |-> extract_value(m, f(i))]})
      PROVE  InterviewInv'
  <2> DEFINE x == f(i).field_id
             v == extract_value(m, f(i))
             D == Put(s.collected, x, v)
             t == [s EXCEPT !.collected = Put(@, x, v)]
             k == [kind |-> "field", field |-> x, value |-> v]
  <2>1. x \notin DOMAIN s.collected /\ unanswered(effective_fields(s), s.collected) # {}
    BY DEF next_field, unanswered
  <2>2. DOMAIN D = DOMAIN s.collected \cup {x} /\ D[x] = v /\ \A y \in DOMAIN s.collected : y # x => D[y] = s.collected[y]
    <3> HIDE DEF x, v
    <3> QED BY DEF Put
  <2>3. t = [s EXCEPT !.collected = D]
    OBVIOUS
  <2>4. Reply(n, t) /\ tasks' = tasks (+) SetToBag({k})
    BY <1>8
  <2>5. TaskOK(k) /\ k.kind = "field" /\ k.field = x /\ k.value = v
    <3> HIDE DEF x, v
    <3> QED BY DEF TaskOK
  <2> HIDE DEF x, v, D, t, k
  <2>6. t = Held(session.loaded, session.advance_sent, D)
    <3>1. ASSUME NEW l, NEW a, NEW c PROVE [Held(l, a, c) EXCEPT !.collected = D] = Held(l, a, D)
      BY CollectedChange
    <3> QED BY <1>2, <2>3, <3>1
  <2>7. t.collected = D /\ t.loaded = session.loaded
    BY <2>6 DEF Held
  <2>8. /\ t = Held(session.loaded, session.advance_sent, t.collected)
        /\ DOMAIN session.collected \subseteq DOMAIN t.collected
        /\ \A y \in DOMAIN session.collected : t.collected[y] = session.collected[y]
    BY <1>2, <2>1, <2>2, <2>6, <2>7
  <2>9. Earned(session) => Earned(t)
    <3> SUFFICES ASSUME Earned(s) PROVE Earned(t)
      BY <1>5
    <3>1. session.loaded # {} => effective_fields(s) = load_questions[s.loaded]
      BY <1>3 DEF effective_fields
    <3>2. session.loaded = {} => effective_fields(s) = Fallback
      BY <1>3 DEF effective_fields
    <3>3. unanswered(Fallback, s.collected) = {}
      BY <1>3, <2>1, <3>1 DEF Earned
    <3>4. "selected_products" \in DOMAIN s.collected
      BY <1>2, MemoryTells
    <3>5. unanswered(Fallback, D) = {}
      BY <2>1, <3>3, <3>4, FallbackStaysAnswered DEF D
    <3> QED BY <3>5, <2>7 DEF Earned
  <2>10. /\ Tasks(tasks') /\ DOMAIN tasks' = DOMAIN tasks \cup {k}
         /\ \A e : Count(tasks', e) = Count(tasks, e) + (IF e \in {k} THEN 1 ELSE 0)
    <3>1. /\ Tasks(tasks (+) SetToBag({k})) /\ DOMAIN (tasks (+) SetToBag({k})) = DOMAIN tasks \cup {k}
          /\ \A e : Count(tasks (+) SetToBag({k}), e) = Count(tasks, e) + (IF e \in {k} THEN 1 ELSE 0)
      BY <1>6, TasksAdded
    <3> QED BY <3>1, <2>4
  <2>11. InFlight([kind |-> "advance"])' = InFlight([kind |-> "advance"])
    <3> DEFINE a == [kind |-> "advance"]
    <3>1. a.kind = "advance"
      OBVIOUS
    <3> HIDE DEF a
    <3>2. a # k
      BY <3>1, <2>5
    <3>3. InFlight(a) = Count(tasks, a) /\ InFlight(a)' = Count(tasks', a) /\ Count(tasks, a) \in Nat
      BY <1>6 DEF InFlight, Count, BagIn, BagToSet, Tasks
    <3>4. Count(tasks', a) = Count(tasks, a) + 0
      BY <3>2, <2>10
    <3>5. InFlight(a)' = InFlight(a)
      BY <3>3, <3>4
    <3> QED BY <3>5 DEF a
  <2>12. ASSUME NEW j \in DOMAIN tasks', j \notin DOMAIN tasks
         PROVE  TaskOK(j) /\ j.kind # "advance" /\ j.field \in DOMAIN t.collected /\ j.value = t.collected[j.field]
    <3>1. j = k
      BY <2>10, <2>12
    <3> QED BY <3>1, <2>2, <2>5, <2>7
  <2> QED BY <1>1, <2>4, <2>8, <2>9, <2>10, <2>11, <2>12, SessionGrows
<1> QED BY <1>1, <1>7, <1>8

\* The invariant of the conversation is inductive.
LEMMA InterviewInductive == InterviewSpec => []InterviewInv
<1>1. InterviewInv /\ [InterviewNext]_interviewVars => InterviewInv'
  <2> SUFFICES ASSUME InterviewInv, [InterviewNext]_interviewVars PROVE InterviewInv'
    OBVIOUS
  <2>1. CASE initialise
    BY <2>1, ContextStarts
  <2>2. ASSUME NEW n \in Slots, Serve(n) PROVE InterviewInv'
    BY <2>2, SessionIsResolved, QuestionsAreLoaded, MessageIsTaken, ReplyEnds DEF Serve
  <2>3. ASSUME NEW n \in Slots, disconnect(n) \/ start_greeting(n) PROVE InterviewInv'
    BY <2>3, ClientHangsUp, GreetingStarts
  <2>4. ASSUME NEW n \in Slots, NEW m \in Messages, send_message(n, m) PROVE InterviewInv'
    BY <2>4, MessageIsSent
  <2>5. ASSUME NEW k \in DOMAIN tasks, Run(k) PROVE InterviewInv'
    BY <2>5, FieldIsPersisted, SessionIsUpserted, AnswerIsCommitted, SignalIsSent DEF Run
  <2>6. CASE restart_api
    BY <2>6, ApiRestarts
  <2>7. CASE UNCHANGED interviewVars
    <3> USE <2>7 DEF interviewVars
    <3>1. InterviewTypeOK'
      BY DEF InterviewInv, InterviewTypeOK, ContextOK, SessionOK
    <3> QED BY <3>1 DEF InterviewInv, InSession, ContextData, SignalsInv, InFlight, EarnedInv, Earned,
                        CarriedInv, WrittenInv
  <2> QED BY <2>1, <2>2, <2>3, <2>4, <2>5, <2>6, <2>7 DEF InterviewNext, BagToSet
<1> QED BY <1>1, InterviewStarts, PTL DEF InterviewSpec

\* However many replies end together and however often the process restarts, a
\* session asks for KYC once (handle_message of ConversationCoordinator).
THEOREM OneSignalPerSession == InterviewSpec => []SignalOncePerSession
<1>1. InterviewInv => SignalOncePerSession
  <2> SUFFICES ASSUME InterviewInv PROVE SignalOncePerSession
    OBVIOUS
  <2>1. InFlight([kind |-> "advance"]) \in Nat /\ signals \in Nat /\ restarts \in Nat
    BY DEF InFlight, BagIn, BagToSet, InterviewInv, InterviewTypeOK
  <2>2. signals + InFlight([kind |-> "advance"]) <= restarts + 1
    BY <2>1 DEF InterviewInv, SignalsInv
  <2> QED BY <2>1, <2>2 DEF SignalOncePerSession
<1> QED BY <1>1, InterviewInductive, PTL

\* KYC is asked for only when every question to be answered is answered, for any
\* questions of the database and messages in any order (next_field, update and
\* load_questions_from_db of DataCollectionOrchestrator).
THEOREM SignalsAreEarned == InterviewSpec => []SignalIsEarned
<1>1. InterviewInv => SignalIsEarned
  <2> SUFFICES ASSUME InterviewInv, session.open, session.advance_sent
               PROVE  \E fields \in {load_questions[Products], Fallback} :
                        \A i \in DOMAIN fields :
                          fields[i].required /\ visible(fields[i], session.collected)
                            => fields[i].field_id \in DOMAIN session.collected
    BY DEF SignalIsEarned
  <2>1. Earned(session)
    BY DEF InterviewInv, EarnedInv
  <2>2. PICK fields \in {load_questions[Products], Fallback} : unanswered(fields, session.collected) = {}
    BY <2>1 DEF Earned
  <2> QED BY <2>2 DEF unanswered
<1> QED BY <1>1, InterviewInductive, PTL

\* The row of an answer holds what the session holds, in whatever order the tasks
\* ran, until a restart (persist_field of ConversationCoordinator).
THEOREM RowsAgree == InterviewSpec => []AnswersAgree
<1>1. InterviewInv => AnswersAgree
  BY DEF InterviewInv, WrittenInv, AnswersAgree
<1> QED BY <1>1, InterviewInductive, PTL

=============================================================================
