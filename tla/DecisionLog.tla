---------------------------- MODULE DecisionLog ----------------------------
(***************************************************************************)
(* The hash-chained decision log (services/audit/decision_log_service.py). *)
(*                                                                         *)
(* An append is a transaction of its own: it selects the last row FOR      *)
(* UPDATE, links to its chain hash, inserts a row under the next sequence  *)
(* number and commits.  Other code runs between any two of these           *)
(* statements, and the process or the connection may go away at any of     *)
(* them.  A hash is modelled by what it is computed from: the hash of a    *)
(* chain is the sequence of the payloads hashed into it, so that two       *)
(* hashes are equal exactly when their inputs are.                         *)
(***************************************************************************)
EXTENDS Integers, Sequences, FiniteSets

CONSTANT Appends      \* the calls of append(), each with a payload of its own

VARIABLES
    log,              \* the committed rows of decision_log
    seq,              \* the last value the seq column's sequence gave out
    appends,          \* what each call of append() has come to
    overlapped        \* did two appends ever run at the same time

logVars == <<log, seq, appends, overlapped>>

Genesis == <<>>
NoRow == 0

\* The row an append would insert, and the stage it is in: "waiting" for the
\* lock on the last row, "linked" to the hash it read, "inserted" but not
\* committed, "done" or "failed".
NotStarted == [at |-> "new", last |-> NoRow, prev |-> Genesis, seq |-> NoRow]

Running(a) == appends[a].at \in {"waiting", "linked", "inserted"}

LogInit ==
    /\ log = {}
    /\ seq = 0
    /\ appends = [a \in Appends |-> NotStarted]
    /\ overlapped = FALSE

compute_hashes(payload, prev_hash) == Append(prev_hash, payload)

EntryAt(n) == CHOOSE r \in log : r.seq = n

\* SELECT ... ORDER BY seq DESC LIMIT 1 in a snapshot of the committed rows.
LastSeq == IF log = {} THEN NoRow
           ELSE (CHOOSE r \in log : \A s \in log : s.seq <= r.seq).seq

FirstSeq == IF log = {} THEN NoRow
            ELSE (CHOOSE r \in log : \A s \in log : r.seq <= s.seq).seq

\* ... FOR UPDATE: the row lock is held from the read to the end of the
\* transaction.  An empty table has no row to lock.
Locked(n) == \E a \in Appends : /\ appends[a].at \in {"linked", "inserted"}
                                /\ appends[a].last = n /\ n # NoRow

HashOf(n) == IF n = NoRow THEN Genesis ELSE EntryAt(n).chain_hash

\* Links to the last hash this process has computed, committed or not.
link_to_cached(a, n) ==
    LET inserted == {b \in Appends : appends[b].at = "inserted"}
        b == CHOOSE b \in inserted : \A x \in inserted : appends[x].seq <= appends[b].seq
    IN  [appends[a] EXCEPT !.at = "linked", !.last = NoRow,
           !.prev = IF inserted = {} THEN HashOf(n)
                    ELSE compute_hashes(b, appends[b].prev)]

link_to(a, n) ==
    IF Locked(n)
      THEN [appends[a] EXCEPT !.at = "waiting", !.last = n]
      ELSE [appends[a] EXCEPT !.at = "linked", !.last = n, !.prev = HashOf(n)]

select_first(a) == link_to(a, FirstSeq)

\* A row locked by nobody and changed by nobody is returned as it was: the
\* select does not look for a later one when its wait is over.
select_last(a) == link_to(a, LastSeq)

SelectLast(a) ==
    /\ appends[a].at = "new"
    /\ appends' = [appends EXCEPT ![a] = select_last(a)]
    /\ overlapped' = (overlapped \/ \E b \in Appends : Running(b))
    /\ UNCHANGED <<log, seq>>

LockGranted(a) ==
    /\ appends[a].at = "waiting"
    /\ ~Locked(appends[a].last)
    /\ appends' = [appends EXCEPT ![a].at = "linked", ![a].prev = HashOf(appends[a].last)]
    /\ UNCHANGED <<log, seq, overlapped>>

\* The flush: the sequence gives out a number that no rollback takes back.
InsertRow(a) ==
    /\ appends[a].at = "linked"
    /\ seq' = seq + 1
    /\ appends' = [appends EXCEPT ![a].at = "inserted", ![a].seq = seq + 1]
    /\ UNCHANGED <<log, overlapped>>

CommitRow(a) ==
    /\ appends[a].at = "inserted"
    /\ log' = log \cup
         {[seq |-> appends[a].seq, payload |-> a, prev_hash |-> appends[a].prev,
           chain_hash |-> compute_hashes(a, appends[a].prev)]}
    /\ appends' = [appends EXCEPT ![a].at = "done"]
    /\ UNCHANGED <<seq, overlapped>>

\* The statement fails, or the connection does: the transaction is rolled back
\* and its lock released.  Workflow activities and the activation gate swallow
\* the error, an administration route answers 500.
AppendFails(a) ==
    /\ Running(a)
    /\ appends' = [appends EXCEPT ![a].at = "failed"]
    /\ UNCHANGED <<log, seq, overlapped>>

AppendStep(a) == LockGranted(a) \/ InsertRow(a) \/ CommitRow(a) \/ AppendFails(a)

\* The process ends: what it had not committed is rolled back.
AppendsLost ==
    /\ appends' = [a \in Appends |-> IF Running(a) THEN [appends[a] EXCEPT !.at = "failed"] ELSE appends[a]]
    /\ UNCHANGED <<log, seq, overlapped>>

LogNext == AppendsLost \/ \E a \in Appends : SelectLast(a) \/ AppendStep(a)

LogSpec == LogInit /\ [][LogNext]_logVars

-----------------------------------------------------------------------------
(* The verifier: GET /audit/verify walks the rows in order of seq. *)

Ordered == LET n == Cardinality(log)
           IN  [i \in 1..n |-> CHOOSE r \in log : Cardinality({s \in log : s.seq < r.seq}) = i - 1]

\* The sequence number of the first row whose link does not hold, or NoRow.
verify_chain ==
    LET rows == Ordered
        expected_prev(i) == IF i = 1 THEN Genesis ELSE rows[i - 1].chain_hash
        broken == {i \in DOMAIN rows :
                     \/ rows[i].chain_hash # compute_hashes(rows[i].payload, expected_prev(i))
                     \/ rows[i].prev_hash # expected_prev(i)}
    IN  IF broken = {} THEN NoRow
        ELSE rows[CHOOSE i \in broken : \A j \in broken : i <= j].seq

-----------------------------------------------------------------------------
(* Properties *)

\* As long as no two appends ran at the same time the chain verifies, whatever
\* failed in between: a rolled-back insert leaves a gap in seq, and no gap in
\* the chain.
SoloAppendsVerify == ~overlapped => verify_chain = NoRow

\* A chain that is broken stays broken: no append of a later or an earlier
\* sequence number that was still running makes GET /audit/verify answer
\* "valid" again.
BreakIsPermanent == [][verify_chain # NoRow => verify_chain' # NoRow]_logVars

\* What decision_log_service.py:16 says of append(): "concurrent writers
\* serialize their chain-link reads before inserting", so the chain verifies.
ChainVerifies == verify_chain = NoRow
-----------------------------------------------------------------------------
(* What makes them inductive *)

LogTypeOK ==
  /\ seq \in Nat
  /\ IsFiniteSet(log)
  /\ log \subseteq [seq : 1..seq, payload : Appends, prev_hash : Seq(Appends), chain_hash : Seq(Appends)]
  /\ appends \in [Appends -> [at : {"new", "waiting", "linked", "inserted", "done", "failed"},
                             last : Nat, prev : Seq(Appends), seq : Nat]]
  /\ overlapped \in BOOLEAN

\* A sequence number is one row's or one running insert's.
RowsInv ==
  /\ \A r, s \in log : r.seq = s.seq => r = s
  /\ \A r \in log : /\ r.chain_hash = compute_hashes(r.payload, r.prev_hash)
                    /\ appends[r.payload].at = "done"
  /\ log # {} => \E r \in log : \A s \in log : s.seq <= r.seq
  /\ \A a \in Appends : appends[a].at = "inserted" => /\ appends[a].seq \in 1..seq
                                                     /\ \A r \in log : r.seq # appends[a].seq
  /\ \A a, b \in Appends : appends[a].at = "inserted" /\ appends[b].at = "inserted"
                           /\ appends[a].seq = appends[b].seq => a = b

\* Every hash linked to is a committed row's, so that no row has yet linked to
\* one that is still to be committed.
Known(h) == h = Genesis \/ \E r \in log : h = r.chain_hash

HashesInv ==
  /\ \A r \in log : Known(r.prev_hash)
  /\ \A a \in Appends : /\ appends[a].at \in {"linked", "inserted"} => Known(appends[a].prev)
                        /\ appends[a].at = "waiting" => \E r \in log : r.seq = appends[a].last

\* The link that verify_chain asks of a row, said of its neighbour.
Follows(r, s) == s.seq < r.seq /\ \A t \in log : ~(s.seq < t.seq /\ t.seq < r.seq)

Linked(r) ==
  /\ (\A s \in log : r.seq <= s.seq) => r.prev_hash = Genesis
  /\ \A s \in log : Follows(r, s) => r.prev_hash = s.chain_hash

\* While appends run one at a time, the one that runs has read the last row.
SoloInv ==
  ~overlapped =>
    /\ \A r \in log : Linked(r)
    /\ \A a, b \in Appends : Running(a) /\ Running(b) => a = b
    /\ \A a \in Appends : Running(a) =>
         /\ appends[a].at # "waiting"
         /\ log = {} => appends[a].prev = Genesis
         /\ \A r \in log : (\A s \in log : s.seq <= r.seq) => appends[a].prev = r.chain_hash
         /\ appends[a].at = "inserted" => \A r \in log : r.seq < appends[a].seq

LogInv == LogTypeOK /\ RowsInv /\ HashesInv /\ SoloInv
=============================================================================
