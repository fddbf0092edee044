---------------------------- MODULE DocumentProofs ----------------------------
(***************************************************************************)
(* Proofs about the documents of a case: how their versions are numbered   *)
(* (DocumentReview), and what a verdict and a comparison of two versions   *)
(* are made of (DocumentReading).                                          *)
(***************************************************************************)
EXTENDS DocumentReview, DocumentReading, TLAPS

-----------------------------------------------------------------------------
(* The move out of REVIEW *)

\* Jobs that are left are added to those in flight.
LEMMA JobsLeft ==
  ASSUME IsABag(jobs), NEW J, Leave(J)
  PROVE  IsABag(jobs') /\ \A k : BagIn(k, jobs)' <=> BagIn(k, jobs) \/ k \in J
PROOF
  <1>1. DOMAIN jobs' = DOMAIN jobs \cup J
    BY DEF Leave, (+), SetToBag
  <1>2. ASSUME NEW k \in DOMAIN jobs'
        PROVE  jobs'[k] \in Nat /\ jobs'[k] > 0
    BY <1>1 DEF Leave, (+), SetToBag, BagIn, BagToSet, IsABag
  <1>3. jobs' = [k \in DOMAIN jobs' |-> jobs'[k]]
    BY DEF Leave, (+)
  <1> QED BY <1>1, <1>2, <1>3 DEF IsABag, BagIn, BagToSet

\* A job that ends leaves the others in flight.
LEMMA JobEnds ==
  ASSUME IsABag(jobs), NEW j, NEW J, End(j, J)
  PROVE  IsABag(jobs') /\ \A k : k # j /\ BagIn(k, jobs) => BagIn(k, jobs)'
PROOF
  <1> DEFINE less == [k \in DOMAIN jobs |-> IF k \in DOMAIN SetToBag({j}) THEN jobs[k] - SetToBag({j})[k] ELSE jobs[k]]
             kept == [k \in {e \in DOMAIN less : less[e] > 0} |-> less[k]]
  <1>1. jobs' = kept (+) SetToBag(J)
    BY DEF End, (-)
  <1>2. ASSUME NEW k \in DOMAIN jobs
        PROVE  less[k] \in Int /\ (k # j => less[k] > 0)
    BY <1>2 DEF SetToBag, BagIn, BagToSet, IsABag
  <1>3. ASSUME NEW k \in DOMAIN kept
        PROVE  kept[k] \in Nat /\ kept[k] > 0
    <2>1. k \in DOMAIN jobs /\ less[k] > 0 /\ kept[k] = less[k]
      BY <1>3
    <2> HIDE DEF less, kept
    <2> QED BY <1>2, <2>1
  <1>4. \A k \in DOMAIN jobs : k # j => k \in DOMAIN kept
    BY <1>2
  <1>5. kept = [k \in DOMAIN kept |-> kept[k]]
    OBVIOUS
  <1> HIDE DEF kept
  <1>6. DOMAIN jobs' = DOMAIN kept \cup J /\ jobs' = [k \in DOMAIN jobs' |-> jobs'[k]]
    BY <1>1 DEF (+), SetToBag
  <1>7. ASSUME NEW k \in DOMAIN jobs'
        PROVE  jobs'[k] \in Nat /\ jobs'[k] > 0
    BY <1>1, <1>3, <1>6 DEF (+), SetToBag, BagIn, BagToSet
  <1> QED BY <1>4, <1>6, <1>7 DEF IsABag, BagIn, BagToSet

\* Jobs of different kinds are different.
LEMMA KindsDiffer ==
  ASSUME NEW d
  PROVE  /\ \A e : TaskJob(d) # ValidateJob(e) /\ TaskJob(d) # DiffJob(e)
         /\ \A j : j.kind # "createTask" => j # TaskJob(d)
         /\ \A e : e # d => TaskJob(e) # TaskJob(d)
PROOF
  <1>1. TaskJob(d).kind = "createTask" /\ TaskJob(d).doc = d
    BY DEF TaskJob
  <1>2. \A e : ValidateJob(e).kind = "validate" /\ DiffJob(e).kind = "diff" /\ TaskJob(e).doc = e
    BY DEF ValidateJob, DiffJob, TaskJob
  <1> QED BY <1>1, <1>2

\* A set is a bag of one copy each.
LEMMA BagOfSet ==
  ASSUME NEW J
  PROVE  IsABag(SetToBag(J))
BY DEF IsABag, SetToBag

\* A version is a number.
LEMMA NextVersion ==
  ASSUME NEW p, p = NoDoc \/ (p \in Docs /\ version[p] \in Nat)
  PROVE  next_version(p) \in Nat /\ p \in Docs \cup {NoDoc}
BY DEF next_version

\* A new case has no documents.
LEMMA ReviewInit == DocumentInit => ReviewInv
  <1> SUFFICES ASSUME DocumentInit PROVE ReviewInv
    OBVIOUS
  <1>1. IsABag(jobs)
    BY DEF DocumentInit, IsABag, EmptyBag, SetToBag
  <1> QED BY <1>1 DEF DocumentInit, ReviewInv, DocumentTypeOK, Docs, Statuses

\* A step that leaves the tasks of the documents in flight, and what was decided
\* of them as it is, keeps the invariant.
LEMMA ReviewKept ==
  ASSUME ReviewInv, IsABag(jobs'), UNCHANGED <<saved, status, parent, version, task, causes>>,
         \A d \in Docs : BagIn(TaskJob(d), jobs) => BagIn(TaskJob(d), jobs)'
  PROVE  ReviewInv'
BY DEF ReviewInv, DocumentTypeOK

\* A document gets its task, loses it, or is decided upon, and the causes say so.
LEMMA ReviewNext ==
  ASSUME ReviewInv, [DocumentNext]_docVars
  PROVE  ReviewInv'
PROOF
  <1> USE DocumentAssumption DEF ReviewInv, DocumentTypeOK, rows, Rows
  <1>1. ASSUME NEW d \in Docs, upload(d)
        PROVE  ReviewInv'
    <2> DEFINE J(p) == {TaskJob(d)} \cup (IF stage = "REVIEW" THEN {ValidateJob(d)} ELSE {})
                                   \cup (IF p = NoDoc THEN {} ELSE {DiffJob(d)})
    <2>1. PICK p \in Rows \cup {NoDoc} :
            /\ saved[d] = "absent" /\ saved' = [saved EXCEPT ![d] = "flushed"]
            /\ status' = [status EXCEPT ![d] = "RECEIVED"]
            /\ parent' = [parent EXCEPT ![d] = p]
            /\ version' = [version EXCEPT ![d] = next_version(p)]
            /\ Leave(J(p))
            /\ UNCHANGED <<task, causes>>
      BY <1>1 DEF upload, Fresh
    <2>2. next_version(p) \in Nat /\ p \in Docs \cup {NoDoc}
      <3>1. p = NoDoc \/ (p \in Docs /\ version[p] \in Nat)
        BY <2>1
      <3> QED BY <3>1, NextVersion
    <2>3. IsABag(jobs') /\ BagIn(TaskJob(d), jobs)' /\ \A e \in Docs : BagIn(TaskJob(e), jobs) => BagIn(TaskJob(e), jobs)'
      <3>1. TaskJob(d) \in J(p)
        OBVIOUS
      <3> HIDE DEF J
      <3> QED BY <2>1, <3>1, JobsLeft
    <2>4. DocumentTypeOK'
      BY <2>1, <2>2, <2>3 DEF Statuses
    <2>5. ASSUME NEW e \in Docs PROVE task'[e] = "APPROVED" => status'[e] = "APPROVED" \/ causes'[e] # {}
      BY <2>1
    <2>7. ASSUME NEW e \in Docs, saved'[e] = "absent" PROVE task'[e] = "none"
      BY <2>1, <2>7
    <2>6. ASSUME NEW e \in Docs, saved'[e] \in {"flushed", "saved"}, task'[e] = "none"
          PROVE  BagIn(TaskJob(e), jobs)' \/ "task lost" \in causes'[e]
      BY <2>1, <2>3, <2>6
    <2> QED BY <2>4, <2>5, <2>6, <2>7
  <1>2. ASSUME NEW d \in Docs, upload_refused(d) \/ commit_upload(d)
        PROVE  ReviewInv'
    BY <1>2 DEF upload_refused, commit_upload, Fresh
  <1>3. ASSUME NEW d \in Docs, create_document_task(d)
        PROVE  ReviewInv'
    <2>1. IsABag(jobs') /\ \A e \in Docs : e # d /\ BagIn(TaskJob(e), jobs) => BagIn(TaskJob(e), jobs)'
      <3>1. End(TaskJob(d), {})
        BY <1>3 DEF create_document_task
      <3>2. IsABag(jobs') /\ \A k : k # TaskJob(d) /\ BagIn(k, jobs) => BagIn(k, jobs)'
        BY <3>1, JobEnds
      <3> QED BY <3>2, KindsDiffer
    <2>2. CASE d \in Rows
      BY <1>3, <2>1, <2>2 DEF create_document_task, create_task
    <2>3. CASE d \notin Rows
      <3>1. UNCHANGED <<saved, status, parent, version, task>> /\ causes' = [causes EXCEPT ![d] = @ \cup {"task lost"}]
        BY <1>3, <2>3 DEF create_document_task, create_task
      <3> QED BY <2>1, <3>1
    <2> QED BY <2>2, <2>3
  <1>4. ASSUME NEW d \in Docs, trigger_validation(d)
        PROVE  ReviewInv'
    <2>1. IsABag(jobs') /\ \A e \in Docs : BagIn(TaskJob(e), jobs) => BagIn(TaskJob(e), jobs)'
      BY <1>4, JobsLeft DEF trigger_validation
    <2> QED BY <1>4, <2>1 DEF trigger_validation, Statuses
  <1>5. ASSUME NEW d \in Docs, load_for_validation(d) \/ compute_diff(d)
        PROVE  ReviewInv'
    <2>1. CASE load_for_validation(d)
      <3>1. PICK J : End(ValidateJob(d), J)
        BY <2>1 DEF load_for_validation
      <3>2. IsABag(jobs') /\ \A k : k # ValidateJob(d) /\ BagIn(k, jobs) => BagIn(k, jobs)'
        BY <3>1, JobEnds
      <3>3. \A e \in Docs : TaskJob(e) # ValidateJob(d)
        BY KindsDiffer
      <3> QED BY <2>1, <3>2, <3>3, ReviewKept DEF load_for_validation
    <2>2. CASE compute_diff(d)
      <3>1. End(DiffJob(d), {})
        BY <2>2 DEF compute_diff
      <3>2. IsABag(jobs') /\ \A k : k # DiffJob(d) /\ BagIn(k, jobs) => BagIn(k, jobs)'
        BY <3>1, JobEnds
      <3>3. \A e \in Docs : TaskJob(e) # DiffJob(d)
        BY KindsDiffer
      <3> QED BY <2>2, <3>2, <3>3, ReviewKept DEF compute_diff
    <2> QED BY <1>5, <2>1, <2>2
  <1>6. ASSUME NEW j \in BagToSet(jobs), judge(j)
        PROVE  ReviewInv'
    <2>1. j.kind # "createTask"
      BY <1>6 DEF judge
    <2>2. IsABag(jobs') /\ \A e \in Docs : BagIn(TaskJob(e), jobs) => BagIn(TaskJob(e), jobs)'
      <3>1. End(j, {})
        BY <1>6 DEF judge
      <3>2. IsABag(jobs') /\ \A k : k # j /\ BagIn(k, jobs) => BagIn(k, jobs)'
        BY <3>1, JobEnds
      <3> QED BY <2>1, <3>2, KindsDiffer
    <2>3. UNCHANGED <<saved, parent, version, task>>
      BY <1>6 DEF judge
    <2>4. CASE j.seen = "RECEIVED" /\ status[j.doc] = "APPROVED"
      <3>1. /\ status' = [status EXCEPT ![j.doc] = "UNDER_REVIEW"]
            /\ causes' = [causes EXCEPT ![j.doc] = @ \cup {"validated late"}]
        BY <1>6, <2>4 DEF judge
      <3> QED BY <2>2, <2>3, <3>1 DEF Statuses
    <2>5. CASE ~(j.seen = "RECEIVED" /\ status[j.doc] = "APPROVED")
      <3>1. causes' = causes /\ status' \in {status, [status EXCEPT ![j.doc] = "UNDER_REVIEW"]}
        BY <1>6, <2>5 DEF judge
      <3>2. \A e \in Docs : status[e] = "APPROVED" => status'[e] = "APPROVED"
        BY <1>6, <2>5, <3>1 DEF judge
      <3> QED BY <2>2, <2>3, <3>1, <3>2 DEF Statuses
    <2> QED BY <2>4, <2>5
  <1>7. ASSUME NEW d \in Docs, update_document_status(d)
        PROVE  ReviewInv'
    <2>1. PICK s, J :
            /\ s \in Patched
            /\ status' = [status EXCEPT ![d] = s]
            /\ causes' = [causes EXCEPT ![d] = IF s = "APPROVED" THEN Approved(d) ELSE @ \cup {"decided otherwise"}]
            /\ Leave(J) /\ UNCHANGED <<saved, parent, version, task>>
      BY <1>7 DEF update_document_status
    <2>2. IsABag(jobs') /\ \A e \in Docs : BagIn(TaskJob(e), jobs) => BagIn(TaskJob(e), jobs)'
      BY <2>1, JobsLeft
    <2> QED BY <2>1, <2>2 DEF Approved, Statuses
  <1>8. ASSUME NEW d \in Docs, decide_task(d)
        PROVE  ReviewInv'
    <2>1. PICK decision, J :
            /\ decision \in TaskDecisions
            /\ task[d] = "PENDING" /\ task' = [task EXCEPT ![d] = decision]
            /\ status' = CASE decision = "APPROVED" -> [status EXCEPT ![d] = "APPROVED"]
                           [] decision = "REJECTED" -> [status EXCEPT ![d] = "NEEDS_REVISION"]
                           [] OTHER -> status
            /\ causes' = [causes EXCEPT ![d] = IF decision = "APPROVED" THEN Approved(d) ELSE @]
            /\ Leave(J) /\ UNCHANGED <<saved, parent, version>>
      BY <1>8 DEF decide_task
    <2>2. IsABag(jobs') /\ \A e \in Docs : BagIn(TaskJob(e), jobs) => BagIn(TaskJob(e), jobs)'
      BY <2>1, JobsLeft
    <2>3. CASE decision = "APPROVED"
      BY <2>1, <2>2, <2>3, ZenonT(20) DEF Approved, Statuses, TaskDecisions
    <2>4. CASE decision = "REJECTED"
      BY <2>1, <2>2, <2>4, ZenonT(20) DEF Statuses, TaskDecisions
    <2>5. CASE decision = "MORE_INFO_REQUESTED"
      BY <2>1, <2>2, <2>5 DEF Statuses, TaskDecisions
    <2> QED BY <2>1, <2>3, <2>4, <2>5 DEF TaskDecisions
  <1>9. CASE trigger_next_stage \/ maybe_advance_from_review \/ persist_stage_activity
    <2>1. PICK k, J : k.kind # "createTask" /\ End(k, J)
      BY <1>9 DEF trigger_next_stage, maybe_advance_from_review, persist_stage_activity
    <2>2. IsABag(jobs') /\ \A e \in Docs : BagIn(TaskJob(e), jobs) => BagIn(TaskJob(e), jobs)'
      BY <2>1, JobEnds, KindsDiffer
    <2> QED BY <1>9, <2>2, ReviewKept DEF trigger_next_stage, maybe_advance_from_review, persist_stage_activity
  <1>10. CASE submit_intake \/ workflow_advances
    <2>1. IsABag(jobs') /\ \A e \in Docs : BagIn(TaskJob(e), jobs) => BagIn(TaskJob(e), jobs)'
      BY <1>10, JobsLeft DEF submit_intake, workflow_advances
    <2> QED BY <1>10, <2>1, ReviewKept DEF submit_intake, workflow_advances
  <1>11. CASE restart
    <2>1. IsABag(jobs')
      <3> QED BY <1>11, BagOfSet DEF restart
    <2> QED BY <1>11, <2>1 DEF restart
  <1>12. CASE UNCHANGED docVars
    BY <1>12, ReviewKept DEF docVars
  <1> QED
    BY <1>1, <1>2, <1>3, <1>4, <1>5, <1>6, <1>7, <1>8, <1>9, <1>10, <1>11, <1>12 DEF DocumentNext, Background

\* A case is asked to move on with documents that are approved, for any number of
\* documents, requests and restarts, unless one lost its task, was decided upon
\* otherwise, or its validation came late (documents.py, task_service.py).
THEOREM CaseMovesOnReviewed == DocumentSpec => MovesOnReviewed
PROOF
  <1> DEFINE Asking == sent' # sent => \A d \in Uploaded :
                         status[d] = "APPROVED" \/ BagIn(TaskJob(d), jobs) \/ causes[d] # {}
  <1>1. ASSUME ReviewInv, [DocumentNext]_docVars PROVE Asking
    <2> SUFFICES ASSUME sent' # sent, NEW d \in Uploaded
                 PROVE  status[d] = "APPROVED" \/ BagIn(TaskJob(d), jobs) \/ causes[d] # {}
      OBVIOUS
    <2>1. d \in Docs /\ saved[d] = "saved"
      BY DEF Uploaded, Rows
    <2>2. \/ trigger_next_stage /\ AllApproved
          \/ maybe_advance_from_review /\ \A e \in Tasked : task[e] = "APPROVED"
      BY <1>1 DEF DocumentNext, Background, docVars, trigger_next_stage, maybe_advance_from_review,
           persist_stage_activity, upload, upload_refused, commit_upload, create_document_task, trigger_validation,
           load_for_validation, judge, compute_diff, update_document_status, decide_task, submit_intake,
           workflow_advances, restart
    <2>3. CASE AllApproved
      BY <2>3 DEF AllApproved
    <2>4. CASE \A e \in Tasked : task[e] = "APPROVED"
      BY <1>1, <2>1, <2>4 DEF Tasked, ReviewInv
    <2> QED BY <2>2, <2>3, <2>4
  <1> QED BY <1>1, ReviewInit, ReviewNext, PTL DEF DocumentSpec, MovesOnReviewed

-----------------------------------------------------------------------------
(* Verdicts *)

\* The worst finding is the verdict.
LEMMA WorstFinding ==
  ASSUME NEW r, factors # {}
  PROVE  /\ (\A f \in factors : severity(f, r) = "pass")
              => overall(heuristic_validate(r)) = "pass"
         /\ (\E f \in factors : severity(f, r) = "fail")
              => overall(heuristic_validate(r)) = "fail"
         /\ (\A f \in factors : severity(f, r) # "fail") /\ (\E f \in factors : severity(f, r) = "warn")
              => overall(heuristic_validate(r)) = "warn"
  BY DEF heuristic_validate, overall

\* A template satisfies the factors of its category, or does not, by itself.
LEMMA TemplateFindings ==
  ASSUME category \in Categories, factors = DefaultFactors[category],
         NEW r, r.low = (category = "unknown"),
         r.keys \in {AnsweredKeys(category), FallbackKeys[category]}
  PROVE  /\ factors # {}
         /\ category \in {"identity", "compliance", "entity"}
              => \A f \in factors : severity(f, r) = "pass"
         /\ category \in {"financial", "legal"} => \E f \in factors : severity(f, r) = "fail"
         /\ category \in {"insurance", "unknown"}
              => /\ \A f \in factors : severity(f, r) # "fail"
                 /\ \E f \in factors : severity(f, r) = "warn"
PROOF
  <1>1. CASE category = "identity"
    <2>1. FallbackKeys["identity"] \subseteq r.keys
      BY <1>1 DEF AnsweredKeys
    <2>2. ASSUME NEW f \in DefaultFactors["identity"]
          PROVE  \E k \in f.keys : k \in FallbackKeys["identity"]
      <3>1. f \in {Factor({"full_name"}), Factor({"date_of_birth"}),
               Factor({"document_number", "id_number"}), Dated({"expiry_date"}),
               Factor({"nationality"}), Factor({"photo"})}
        BY DEF DefaultFactors
      <3>2. {"full_name", "date_of_birth", "document_number", "expiry_date", "nationality", "photo"}
              \subseteq FallbackKeys["identity"]
        BY DEF FallbackKeys
      <3> QED BY <3>1, <3>2 DEF Factor, Dated
    <2>3. DefaultFactors["identity"] # {}
      BY DEF DefaultFactors
    <2> QED BY <1>1, <2>1, <2>2, <2>3 DEF severity
  <1>2. CASE category = "compliance"
    <2>1. FallbackKeys["compliance"] \subseteq r.keys
      BY <1>2 DEF AnsweredKeys
    <2>2. ASSUME NEW f \in DefaultFactors["compliance"]
          PROVE  \E k \in f.keys : k \in FallbackKeys["compliance"]
      <3>1. f \in {Factor({"client_name"}), Factor({"tax_residency"}), Factor({"tin"}),
               Factor({"pep"}), Factor({"date_completed"}), Factor({"signature"})}
        BY DEF DefaultFactors
      <3>2. {"client_name", "tax_residency", "tin", "pep", "date_completed", "signature"}
              \subseteq FallbackKeys["compliance"]
        BY DEF FallbackKeys
      <3> QED BY <3>1, <3>2 DEF Factor, Dated
    <2>3. DefaultFactors["compliance"] # {}
      BY DEF DefaultFactors
    <2> QED BY <1>2, <2>1, <2>2, <2>3 DEF severity
  <1>3. CASE category = "entity"
    <2>1. FallbackKeys["entity"] \subseteq r.keys
      BY <1>3 DEF AnsweredKeys
    <2>2. ASSUME NEW f \in DefaultFactors["entity"]
          PROVE  \E k \in f.keys : k \in FallbackKeys["entity"]
      <3>1. f \in {Factor({"company_name"}), Factor({"registration_number"}),
                  Factor({"registration_date"}), Factor({"status"}), Factor({"directors"})}
        BY DEF DefaultFactors
      <3>2. {"company_name", "registration_number", "registration_date", "status", "directors"}
              \subseteq FallbackKeys["entity"]
        BY DEF FallbackKeys
      <3> QED BY <3>1, <3>2 DEF Factor, Dated
    <2>3. DefaultFactors["entity"] # {}
      BY DEF DefaultFactors
    <2> QED BY <1>3, <2>1, <2>2, <2>3 DEF severity
  <1>4. CASE category = "financial"
    BY <1>4 DEF DefaultFactors, FallbackKeys, AnsweredKeys, severity, Factor, Dated
  <1>5. CASE category = "legal"
    BY <1>5 DEF DefaultFactors, FallbackKeys, AnsweredKeys, severity, Factor, Dated
  <1>6. CASE category = "insurance"
    <2>1. r.keys = FallbackKeys["insurance"]
      BY <1>6 DEF AnsweredKeys
    <2>2. ASSUME NEW f \in DefaultFactors["insurance"]
          PROVE  f.dated \/ \E k \in f.keys : k \in FallbackKeys["insurance"]
      <3>1. f \in {Factor({"policyholder"}), Factor({"policy_number"}),
               Factor({"sum_assured"}), Dated({"expired"}), Factor({"insurer"})}
        BY DEF DefaultFactors
      <3>2. {"policyholder", "policy_number", "sum_assured", "insurer"}
              \subseteq FallbackKeys["insurance"]
        BY DEF FallbackKeys
      <3> QED BY <3>1, <3>2 DEF Factor, Dated
    <2>3. Dated({"expired"}) \in DefaultFactors["insurance"]
      BY DEF DefaultFactors
    <2>4. Dated({"expired"}).dated /\ Dated({"expired"}).keys \cap r.keys = {}
      BY <2>1 DEF Dated, FallbackKeys
    <2> QED BY <1>6, <2>1, <2>2, <2>3, <2>4 DEF severity
  <1>7. CASE category = "unknown"
    BY <1>7 DEF DefaultFactors, FallbackKeys, AnsweredKeys, severity, Factor, Dated
  <1> QED BY <1>1, <1>2, <1>3, <1>4, <1>5, <1>6, <1>7 DEF Categories

-----------------------------------------------------------------------------
(* The comparison of two versions *)

\* No section was added, removed or modified: the two texts have the same sections.
LEMMA NoChanges ==
  ASSUME NEW f, NEW g, f = [k \in DOMAIN f |-> f[k]], g = [k \in DOMAIN g |-> g[k]]
  PROVE  no_changes(f, g) <=> f = g
PROOF
  <1>1. ASSUME no_changes(f, g)
        PROVE  f = g
    <2>1. \A k \in DOMAIN f \cup DOMAIN g : k \in DOMAIN f /\ k \in DOMAIN g /\ f[k] = g[k]
      BY <1>1 DEF no_changes, sections, change_type
    <2> QED BY <2>1
  <1>2. ASSUME f = g
        PROVE  no_changes(f, g)
    BY <1>2 DEF no_changes, sections, change_type
  <1> QED BY <1>1, <1>2

\* What tokenise returns is a function on the labels.
LEMMA Tokenised ==
  ASSUME NEW s
  PROVE  /\ DOMAIN tokenise(s) = labels(s)
         /\ tokenise(s) = [k \in DOMAIN tokenise(s) |-> tokenise(s)[k]]
  BY DEF tokenise

\* Two lines and one more.
LEMMA Joined ==
  ASSUME NEW x, NEW y, NEW z
  PROVE  /\ <<x, y>> \o <<z>> = <<x, y, z>>
         /\ <<x, y>> \o <<>> = <<x, y>>
PROOF
  <1>1. PICK S : S = {x, y, z}
    OBVIOUS
  <1>2. /\ <<x, y>> \in Seq(S) /\ <<z>> \in Seq(S) /\ <<>> \in Seq(S) /\ <<x, y, z>> \in Seq(S)
        /\ <<x, y>> \o <<z>> \in Seq(S) /\ <<x, y>> \o <<>> \in Seq(S)
    BY <1>1
  <1>3. /\ Len(<<x, y>> \o <<z>>) = 3 /\ (<<x, y>> \o <<z>>)[1] = x
        /\ (<<x, y>> \o <<z>>)[2] = y /\ (<<x, y>> \o <<z>>)[3] = z
    BY <1>1
  <1>4. ASSUME NEW s \in Seq(S), Len(s) = 3, s[1] = x, s[2] = y, s[3] = z
        PROVE  s = <<x, y, z>>
    BY <1>2, <1>4
  <1>5. <<x, y>> \o <<z>> = <<x, y, z>>
    BY <1>2, <1>3, <1>4
  <1>6. <<x, y>> \o <<>> = <<x, y>>
    BY <1>2
  <1> QED BY <1>5, <1>6

\* The elements of short texts.
LEMMA OneLine ==
  ASSUME NEW x, NEW s, s = <<x>>
  PROVE  s[1] = x /\ \A i : i \in DOMAIN s <=> i = 1
  OBVIOUS

\* Two lines.
LEMMA TwoLines ==
  ASSUME NEW x, NEW y, NEW s, s = <<x, y>>
  PROVE  s[1] = x /\ s[2] = y /\ \A i : i \in DOMAIN s <=> i = 1 \/ i = 2
  OBVIOUS

\* Three lines.
LEMMA ThreeLines ==
  ASSUME NEW x, NEW y, NEW z, NEW s, s = <<x, y, z>>
  PROVE  /\ s[1] = x /\ s[2] = y /\ s[3] = z
         /\ \A i : i \in DOMAIN s <=> i = 1 \/ i = 2 \/ i = 3
  OBVIOUS

NameLabel == <<"label", "name">>

\* A template tells whether it had answers, and the name they gave.
LEMMA TemplateName ==
  ASSUME category \in Categories, category # "unknown", NEW a \in Answers
  PROVE  /\ ~a.given => NameLabel \notin DOMAIN tokenise(template_text(a))
         /\ a.given => /\ NameLabel \in DOMAIN tokenise(template_text(a))
                       /\ tokenise(template_text(a))[NameLabel] = a.name
PROOF
  <1> DEFINE s == template_text(a)
  <1>1. ASSUME ~a.given
        PROVE  NameLabel \notin DOMAIN tokenise(s)
    <2>1. s = <<Line("", category)>>
      BY <1>1 DEF template_text
    <2>2. labels(s) = {<<"line", 1>>}
      <3>1. s[1] = Line("", category) /\ \A i : i \in DOMAIN s <=> i = 1
        BY <2>1, OneLine
      <3>2. Line("", category).label = ""
        BY DEF Line
      <3> HIDE DEF s
      <3>3. \A i \in DOMAIN s : i = 1 /\ s[i].label = ""
        BY <3>1, <3>2
      <3> QED BY <3>1, <3>3 DEF labels
    <2> HIDE DEF s
    <2> QED BY <2>2, Tokenised DEF NameLabel
  <1>2. ASSUME a.given
        PROVE  NameLabel \in DOMAIN tokenise(s) /\ tokenise(s)[NameLabel] = a.name
    <2>1. \/ s = <<Line("", category), Line("name", a.name)>>
          \/ s = <<Line("", category), Line("name", a.name), Line("funds", a.funds)>>
      BY <1>2, Joined DEF template_text
    <2> HIDE DEF s
    <2>2. /\ 2 \in DOMAIN s /\ s[2].label = "name" /\ s[2].value = a.name
          /\ \A i \in DOMAIN s : s[i].label = "name" => i = 2
      <3>1. PICK head, name, funds :
              /\ head = Line("", category) /\ name = Line("name", a.name)
              /\ funds = Line("funds", a.funds)
        OBVIOUS
      <3>2. /\ head.label = "" /\ name.label = "name" /\ name.value = a.name
            /\ funds.label = "funds"
        BY <3>1 DEF Line
      <3>3. CASE s = <<head, name>>
        <4>1. s[1] = head /\ s[2] = name /\ \A i : i \in DOMAIN s <=> i = 1 \/ i = 2
          BY <3>3, TwoLines
        <4> QED BY <3>2, <4>1
      <3>4. CASE s = <<head, name, funds>>
        <4>1. /\ s[1] = head /\ s[2] = name /\ s[3] = funds
              /\ \A i : i \in DOMAIN s <=> i = 1 \/ i = 2 \/ i = 3
          BY <3>4, ThreeLines
        <4> QED BY <3>2, <4>1
      <3> QED BY <2>1, <3>1, <3>3, <3>4
    <2>3. NameLabel \in labels(s)
      <3>1. s[2].label # "" /\ NameLabel = <<"label", s[2].label>>
        BY <2>2 DEF NameLabel
      <3> QED BY <2>2, <3>1 DEF labels
    <2> DEFINE last == CHOOSE i \in DOMAIN s : /\ s[i].label = NameLabel[2]
                                              /\ \A j \in DOMAIN s : j > i => s[j].label # NameLabel[2]
    <2>4. tokenise(s)[NameLabel] = s[last].value
      BY <2>3 DEF tokenise, NameLabel
    <2>5. NameLabel[2] = "name"
      BY DEF NameLabel
    <2>6. /\ s[2].label = NameLabel[2]
          /\ \A j \in DOMAIN s : j > 2 => s[j].label # NameLabel[2]
      BY <2>2, <2>5
    <2>7. last \in DOMAIN s /\ s[last].label = NameLabel[2]
      BY <2>2, <2>6
    <2>8. last = 2
      BY <2>2, <2>5, <2>7
    <2> QED BY <2>2, <2>3, <2>4, <2>8, Tokenised
  <1> QED BY <1>1, <1>2

\* An answer that was given has a name and funds.
LEMMA GivenAnswers ==
  ASSUME NEW a \in Answers, a.given
  PROVE  a \in [given : {TRUE}, name : Names, funds : {"one", "several"}]
PROOF
  <1>1. NoAnswers.given = FALSE
    BY DEF NoAnswers
  <1> QED BY <1>1 DEF Answers

\* Two templates say the same when they were made from the same answers, as far
\* as the category shows them.
LEMMA TemplatesCompared ==
  ASSUME category \in Categories, NEW a \in Answers, NEW b \in Answers,
         a.given /\ category \in ShowFunds => a.funds = "one",
         b.given /\ category \in ShowFunds => b.funds = "one"
  PROVE  tokenise(template_text(a)) = tokenise(template_text(b))
           <=> \/ a = b \/ category = "unknown"
               \/ /\ a.given /\ b.given
                  /\ category \notin ShowFunds /\ a.name = b.name
PROOF
  <1>1. CASE category = "unknown"
    BY <1>1 DEF template_text
  <1>2. CASE category # "unknown" /\ a.given /\ b.given
    <2>1. ASSUME tokenise(template_text(a)) = tokenise(template_text(b))
          PROVE  a.name = b.name
      BY <1>2, <2>1, TemplateName
    <2>2. ASSUME a.name = b.name, category \in ShowFunds
          PROVE  a = b
      <3>1. /\ a \in [given : {TRUE}, name : Names, funds : {"one", "several"}]
            /\ b \in [given : {TRUE}, name : Names, funds : {"one", "several"}]
        BY <1>2, GivenAnswers
      <3>2. /\ a = [given |-> TRUE, name |-> a.name, funds |-> "one"]
            /\ b = [given |-> TRUE, name |-> b.name, funds |-> "one"]
        BY <1>2, <2>2, <3>1
      <3> QED BY <2>2, <3>2
    <2>3. a.name = b.name /\ category \notin ShowFunds => template_text(a) = template_text(b)
      BY <1>2 DEF template_text
    <2> QED BY <1>2, <2>1, <2>2, <2>3
  <1>3. CASE category # "unknown" /\ (~a.given \/ ~b.given)
    <2>1. /\ ~a.given => a = NoAnswers
          /\ ~b.given => b = NoAnswers
      BY DEF Answers
    <2> QED BY <1>3, <2>1, TemplateName
  <1> QED BY <1>1, <1>2, <1>3

-----------------------------------------------------------------------------
(* Their invariant *)

\* Before the first reading there is nothing to be wrong about.
LEMMA ReadingInit == ReadInit => ReadingInv
  BY DEF ReadInit, ReadingInv, SoundReading, NoReading, NoVerdict, NoDiff, UnreadVerdict,
         ComparedTexts

\* What a validation reads, stored before or made now, is sound.
LEMMA ReadingSound ==
  ASSUME ReadingInv, NEW d \in 1 .. 2, NEW r \in readings(d)
  PROVE  SoundReading(d, r)
PROOF
  <1>1. CASE r = ocr[d]
    BY <1>1 DEF ReadingInv
  <1>2. CASE r \in llm_readings(d)
    <2>1. r.by = "model" /\ r.text \in {<<>>, content[d]}
      BY <1>2 DEF llm_readings
    <2> QED BY <2>1 DEF SoundReading
  <1>3. CASE r = NoReading
    <2>1. r.by = "nobody"
      BY <1>3 DEF NoReading
    <2> QED BY <1>3, <2>1 DEF SoundReading
  <1>4. CASE r = simulated_extract /\ ~Raises
    <2>1. /\ r.by = "template" /\ r.answers = answers /\ r.text = template_text(answers)
          /\ r.low = (category = "unknown")
          /\ r.keys \in {AnsweredKeys(category), FallbackKeys[category]}
      BY <1>4 DEF simulated_extract
    <2>2. answers \in Answers /\ (answers.given => answers.funds \in {"one", "several"})
      BY GivenAnswers DEF ReadingInv
    <2> QED BY <1>4, <2>1, <2>2 DEF SoundReading, Raises
  <1> QED BY <1>1, <1>2, <1>3, <1>4 DEF readings, extract

\* Factors that name shared labels are found in a template, and one that names
\* none of its labels is not.
LEMMA PromptFindings ==
  ASSUME NEW r, r.keys \in {AnsweredKeys(category), FallbackKeys[category]}
  PROVE  /\ \A f : f.keys \cap FallbackKeys[category] # {} => severity(f, r) = "pass"
         /\ \A f : ~f.dated /\ ~r.low /\ f.keys \cap AnsweredKeys(category) = {} => severity(f, r) = "fail"
PROOF
  <1>1. FallbackKeys[category] \subseteq r.keys /\ r.keys \subseteq AnsweredKeys(category)
    BY DEF AnsweredKeys
  <1> QED BY <1>1 DEF severity

\* What the rules make of a template depends on its category and the prompt.
VerdictOf(v) ==
  /\ v.prompt = DefaultFactors[category] =>
       v.overall = CASE category \in {"identity", "compliance", "entity"} -> "pass"
                     [] category \in {"financial", "legal"} -> "fail"
                     [] OTHER -> "warn"
  /\ (\A f \in v.prompt : f.keys \cap FallbackKeys[category] # {}) =>
       v.overall = IF v.prompt = {} THEN "warn" ELSE "pass"
  /\ category # "unknown" /\ (\E f \in v.prompt : ~f.dated /\ f.keys \cap AnsweredKeys(category) = {}) =>
       v.overall = "fail"

\* The rules' verdict on a template.
LEMMA TemplateVerdict ==
  ASSUME ReadingInv, NEW d \in 1 .. 2, NEW r, SoundReading(d, r), NEW v \in validate(r),
         v.by = "rules", v.read_by = "template"
  PROVE  VerdictOf(v)
PROOF
  <1>1. v.overall = overall(heuristic_validate(r)) /\ r.by = "template" /\ v.prompt = factors
    BY DEF validate
  <1>2. /\ r.low = (category = "unknown") /\ category \in Categories
        /\ r.keys \in {AnsweredKeys(category), FallbackKeys[category]}
    BY <1>1 DEF SoundReading, ReadingInv
  <1>3. ASSUME factors = DefaultFactors[category]
        PROVE  v.overall = CASE category \in {"identity", "compliance", "entity"} -> "pass"
                             [] category \in {"financial", "legal"} -> "fail"
                             [] OTHER -> "warn"
    BY <1>1, <1>2, <1>3, TemplateFindings, WorstFinding DEF Categories
  <1>4. ASSUME \A f \in factors : f.keys \cap FallbackKeys[category] # {}
        PROVE  v.overall = IF factors = {} THEN "warn" ELSE "pass"
    <2>1. CASE factors = {}
      BY <1>1, <2>1 DEF heuristic_validate, overall
    <2>2. CASE factors # {}
      BY <1>1, <1>2, <1>4, <2>2, PromptFindings, WorstFinding
    <2> QED BY <2>1, <2>2
  <1>5. ASSUME category # "unknown", NEW f \in factors, ~f.dated, f.keys \cap AnsweredKeys(category) = {}
        PROVE  v.overall = "fail"
    <2>1. ~r.low
      BY <1>2, <1>5
    <2>2. severity(f, r) = "fail"
      BY <1>2, <1>5, <2>1, PromptFindings
    <2>3. factors # {} /\ \E g \in factors : severity(g, r) = "fail"
      BY <1>5, <2>2
    <2> QED BY <1>1, <2>3, WorstFinding
  <1> QED BY <1>1, <1>3, <1>4, <1>5 DEF VerdictOf

\* A comparison compares the files the model has read, or the answers behind the
\* templates.
LEMMA Compared ==
  ASSUME ReadingInv, compare_versions
  PROVE  ComparedTexts'
PROOF
  <1>1. /\ diff_result' = [same |-> no_changes(tokenise(raw_text(1)), tokenise(raw_text(2))),
                           of |-> <<ocr[1], ocr[2]>>, done |-> TRUE]
        /\ UNCHANGED <<category, content>>
    BY DEF compare_versions, uploads
  <1>2. /\ diff_result'.same <=> tokenise(raw_text(1)) = tokenise(raw_text(2))
        /\ diff_result'.of[1] = ocr[1] /\ diff_result'.of[2] = ocr[2]
    BY <1>1, NoChanges, Tokenised
  <1>3. SoundReading(1, ocr[1]) /\ SoundReading(2, ocr[2])
    BY DEF ReadingInv
  <1>4. CASE /\ ocr[1].by = "model" /\ ocr[2].by = "model"
             /\ ocr[1].text # <<>> /\ ocr[2].text # <<>>
    <2>1. raw_text(1) = content[1] /\ raw_text(2) = content[2]
      BY <1>3, <1>4 DEF SoundReading, raw_text
    <2>2. diff_result'.same <=> tokenise(content'[1]) = tokenise(content'[2])
      BY <1>1, <1>2, <2>1
    <2> QED BY <1>2, <1>4, <2>2 DEF ComparedTexts
  <1>5. CASE ocr[1].by = "template" /\ ocr[2].by = "template"
    <2>1. \A a : template_text(a) # <<>>
      BY Joined DEF template_text
    <2>2. raw_text(1) = template_text(ocr[1].answers) /\ raw_text(2) = template_text(ocr[2].answers)
      BY <1>3, <1>5, <2>1 DEF SoundReading, raw_text
    <2> DEFINE a == ocr[1].answers
               b == ocr[2].answers
    <2>3. /\ a \in Answers /\ b \in Answers /\ category \in Categories
          /\ a.given /\ category \in ShowFunds => a.funds = "one"
          /\ b.given /\ category \in ShowFunds => b.funds = "one"
      BY <1>3, <1>5 DEF SoundReading, ReadingInv
    <2>4. tokenise(template_text(a)) = tokenise(template_text(b))
            <=> \/ a = b \/ category = "unknown"
                \/ /\ a.given /\ b.given
                   /\ category \notin ShowFunds /\ a.name = b.name
      BY <2>3, TemplatesCompared
    <2>5. category' = category
      BY <1>1
    <2> QED BY <1>2, <1>5, <2>2, <2>4, <2>5 DEF ComparedTexts
  <1> QED BY <1>2, <1>4, <1>5 DEF ComparedTexts

\* The invariant is inductive.
LEMMA ReadingNext ==
  ASSUME ReadingInv, [ReadStep]_readVars
  PROVE  ReadingInv'
PROOF
  <1> USE DEF uploads
  <1>s. ASSUME UNCHANGED uploads, NEW d, NEW r
        PROVE  SoundReading(d, r)' <=> SoundReading(d, r)
    BY <1>s DEF SoundReading, template_text, AnsweredKeys
  <1>c. ASSUME UNCHANGED <<uploads, diff_result>>
        PROVE  ComparedTexts'
    BY <1>c DEF ReadingInv, ComparedTexts
  <1>v. ASSUME UNCHANGED <<uploads, verdict>>
        PROVE  UnreadVerdict'
    BY <1>v DEF ReadingInv, UnreadVerdict
  <1>o. ASSUME UNCHANGED <<uploads, ocr>>, NEW d \in 1 .. 2
        PROVE  SoundReading(d, ocr[d])'
    BY <1>o DEF ReadingInv, SoundReading, template_text, AnsweredKeys
  <1>1. ASSUME NEW d \in 1 .. 2, validate_document(d)
        PROVE  ReadingInv'
    <2>1. PICK r \in readings(d) : \E v \in validate(r) :
            /\ ocr' = IF r = NoReading THEN ocr ELSE [ocr EXCEPT ![d] = r]
            /\ verdict' = [verdict EXCEPT ![d] = v]
            /\ UNCHANGED <<uploads, answers, up, factors, diff_result, changed>>
      BY <1>1 DEF validate_document
    <2>2. PICK v \in validate(r) : /\ verdict' = [verdict EXCEPT ![d] = v]
                                   /\ UNCHANGED <<uploads, answers, factors, diff_result>>
      BY <2>1
    <2>3. SoundReading(d, r)
      BY ReadingSound
    <2>4. ASSUME NEW e \in 1 .. 2
          PROVE  SoundReading(e, ocr[e])'
      <3>1. ocr'[e] = ocr[e] \/ (e = d /\ ocr'[e] = r)
        BY <2>1 DEF ReadingInv
      <3>2. SoundReading(e, ocr'[e])
        BY <2>3, <3>1 DEF ReadingInv
      <3>3. PICK q : q = ocr'[e]
        OBVIOUS
      <3>4. SoundReading(e, q)'
        BY <1>s, <2>2, <3>2, <3>3
      <3> QED BY <3>3, <3>4 DEF SoundReading
    <2>5. ASSUME NEW e \in 1 .. 2, verdict'[e].by = "rules", verdict'[e].read_by = "template"
          PROVE  VerdictOf(verdict'[e])
      <3>1. CASE e # d
        <4>1. verdict'[e] = verdict[e]
          BY <2>2, <3>1 DEF ReadingInv
        <4> QED BY <2>5, <4>1 DEF ReadingInv, UnreadVerdict, VerdictOf
      <3>2. CASE e = d
        <4>1. verdict'[e] = v
          BY <2>2, <3>2 DEF ReadingInv
        <4> QED BY <2>3, <2>5, <4>1, TemplateVerdict
      <3> QED BY <3>1, <3>2
    <2>6. UnreadVerdict'
      BY <2>2, <2>5 DEF UnreadVerdict, VerdictOf, AnsweredKeys
    <2>7. DOMAIN ocr' = 1 .. 2 /\ DOMAIN verdict' = 1 .. 2
      BY <2>1 DEF ReadingInv
    <2> QED BY <1>c, <2>2, <2>4, <2>6, <2>7 DEF ReadingInv
  <1>2. CASE compare_versions
    BY <1>2, <1>v, <1>o, Compared DEF compare_versions, ReadingInv
  <1>3. ASSUME NEW a \in Answers, ChangeAnswers(a)
        PROVE  ReadingInv'
    BY <1>3, <1>v, <1>o, <1>c DEF ChangeAnswers, ReadingInv
  <1>4. ASSUME NEW s \in SUBSET {"vision", "language"}, ChangeModels(s)
        PROVE  ReadingInv'
    BY <1>4, <1>v, <1>o, <1>c DEF ChangeModels, ReadingInv
  <1>5. ASSUME NEW fs, ChangePrompt(fs)
        PROVE  ReadingInv'
    BY <1>5, <1>v, <1>o, <1>c DEF ChangePrompt, ReadingInv
  <1>6. CASE UNCHANGED readVars
    BY <1>6, <1>v, <1>o, <1>c DEF readVars, ReadingInv
  <1> QED BY <1>1, <1>2, <1>3, <1>4, <1>5, <1>6 DEF ReadStep

\* A verdict of the rules on a document no model has read goes by its category and
\* the prompt, for any files, answers, models and factors an administrator stores
\* (ai_completeness_validator.py, ocr_extractor.py, prompt_override_store.py).
THEOREM UnreadIsJudgedByCategory == ReadSpec => []UnreadVerdict
PROOF
  <1>1. ReadingInv => UnreadVerdict
    BY DEF ReadingInv
  <1> QED BY ReadingInit, ReadingNext, <1>1, PTL DEF ReadSpec

\* A comparison is about the files when the model has read them, and about the
\* answers when templates stand for them (version_diff_service.py).
THEOREM ComparisonsAreOfTexts == ReadSpec => []ComparedTexts
PROOF
  <1>1. ReadingInv => ComparedTexts
    BY DEF ReadingInv
  <1> QED BY ReadingInit, ReadingNext, <1>1, PTL DEF ReadSpec

=============================================================================
