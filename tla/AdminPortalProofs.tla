-------------------------- MODULE AdminPortalProofs --------------------------
(***************************************************************************)
(* Theorems about AdminPortal and its decision log, for any domains,       *)
(* users, requests and appends, and routes called with any arguments.      *)
(***************************************************************************)
EXTENDS AdminPortal, FiniteSetTheorems, FunctionTheorems, TLAPS

-----------------------------------------------------------------------------
(* What a request does to the rows *)

\* A request that leaves the permissions of its domain as they are: it is
\* refused, or commits other rows and will not clear the cache.
Harmless(c, d) ==
  /\ calls[c].at = "allowed"
  /\ \/ Refuse(c)
     \/ \E rows : /\ Commit(c, d, rows, FALSE)
                  /\ AreRows(rows)
                  /\ Table(rows, "permission") = Table(config[d], "permission")

\* A table stays one when a request adds a row to it or takes rows away.
LEMMA RowsChange ==
  ASSUME NEW rows, AreRows(rows)
  PROVE  /\ \A rest \in SUBSET rows : AreRows(rest)
         /\ \A t, k, v : AreRows(rows \cup {Rec(t, k, v)})
PROOF
  <1>1. ASSUME NEW rest \in SUBSET rows PROVE AreRows(rest)
    <2>1. IsFiniteSet(rest)
      BY FS_Subset DEF AreRows
    <2> QED BY <2>1 DEF AreRows
  <1>2. ASSUME NEW t, NEW k, NEW v PROVE AreRows(rows \cup {Rec(t, k, v)})
    <2> DEFINE new == Rec(t, k, v)
    <2>1. new = Rec(new.table, new.key, new.val)
      BY DEF Rec
    <2> HIDE DEF new
    <2>2. IsFiniteSet(rows \cup {new})
      BY FS_AddElement DEF AreRows
    <2>3. AreRows(rows \cup {new})
      BY <2>1, <2>2 DEF AreRows
    <2> QED BY <2>3 DEF new
  <1> QED BY <1>1, <1>2

\* What a function makes of a finite set is finite.
LEMMA FiniteImage ==
  ASSUME NEW f, NEW S \in SUBSET DOMAIN f, IsFiniteSet(S)
  PROVE  IsFiniteSet({f[x] : x \in S})
PROOF
  <1> DEFINE T == {f[x] : x \in S}
             g == [x \in S |-> f[x]]
  <1>1. g \in Surjection(S, T)
    BY DEF Surjection
  <1> QED BY <1>1, FS_Surjection

\* The four ways most routes change a table that is not the permissions'.
LEMMA OtherTable ==
  ASSUME PortalTypeOK, NEW c \in Calls, NEW d \in Domains, NEW t, NEW k, NEW v,
         t # "permission",
         \/ Create(c, d, t, k, v) \/ Update(c, d, t, k, v)
         \/ Upsert(c, d, t, k, v) \/ Delete(c, d, t, k)
  PROVE  Harmless(c, d)
PROOF
  <1> DEFINE new == Rec(t, k, v)
             without == Without(d, t, k)
  <1>1. AreRows(config[d]) /\ new.table = t
    BY DEF PortalTypeOK, Rec
  <1>2. AreRows(without) /\ Table(without, "permission") = Table(config[d], "permission")
    <2>1. without \in SUBSET config[d]
      BY DEF Without
    <2> QED BY <1>1, <2>1, RowsChange DEF Without, Table
  <1>3. \A rows : AreRows(rows) =>
          AreRows(rows \cup {new}) /\ Table(rows \cup {new}, "permission") = Table(rows, "permission")
    BY <1>1, RowsChange DEF Table
  <1> HIDE DEF new, without
  <1>4. Create(c, d, t, k, v) => Harmless(c, d)
    BY <1>1, <1>3 DEF Create, Route, Harmless, new
  <1>5. Update(c, d, t, k, v) => Harmless(c, d)
    BY <1>2, <1>3 DEF Update, Route, Harmless, new, without
  <1>6. Upsert(c, d, t, k, v) => Harmless(c, d)
    BY <1>2, <1>3 DEF Upsert, Route, Harmless, new, without
  <1>7. Delete(c, d, t, k) => Harmless(c, d)
    BY <1>2 DEF Delete, Route, Harmless, without
  <1> QED BY <1>4, <1>5, <1>6, <1>7

\* A reordering writes the steps of a pipeline.
LEMMA ReorderKept ==
  ASSUME PortalTypeOK, NEW c \in Calls, NEW d \in Domains, NEW p, NEW orders,
         reorder_pipeline(c, d, p, orders)
  PROVE  Harmless(c, d)
PROOF
  <1> DEFINE moved(r) == r.table = "pipeline" /\ r.key[1] = p /\ r.key[2] \in DOMAIN orders
             put(r) == IF moved(r) THEN [r EXCEPT !.val = orders[r.key[2]]] ELSE r
             rows == {put(r) : r \in config[d]}
  <1>1. ASSUME NEW r \in config[d]
        PROVE  /\ put(r) = Rec(put(r).table, put(r).key, put(r).val)
               /\ put(r).table = r.table
               /\ r.table = "permission" => put(r) = r
    <2>1. r = Rec(r.table, r.key, r.val)
      BY DEF PortalTypeOK, AreRows
    <2>2. \A t, k, v, w : [Rec(t, k, v) EXCEPT !.val = w] = Rec(t, k, w)
      BY DEF Rec
    <2>3. CASE moved(r)
      <3>1. put(r) = Rec(r.table, r.key, orders[r.key[2]])
        BY <2>1, <2>2, <2>3
      <3> QED BY <2>3, <3>1 DEF Rec
    <2>4. CASE ~moved(r)
      BY <2>1, <2>4
    <2> QED BY <2>3, <2>4
  <1> HIDE DEF moved, put
  <1>2. AreRows(rows)
    <2> DEFINE f == [r \in config[d] |-> put(r)]
    <2>1. rows = {f[r] : r \in config[d]}
      OBVIOUS
    <2>2. IsFiniteSet(config[d]) /\ config[d] \in SUBSET DOMAIN f
      BY DEF PortalTypeOK, AreRows
    <2>3. IsFiniteSet(rows)
      <3> HIDE DEF f, rows
      <3> QED BY <2>1, <2>2, FiniteImage
    <2> QED BY <1>1, <2>3 DEF AreRows
  <1>3. Table(rows, "permission") = Table(config[d], "permission")
    BY <1>1 DEF Table
  <1>4. Route(c, d, TRUE, rows, FALSE)
    BY DEF reorder_pipeline, put, moved
  <1> HIDE DEF rows
  <1> QED BY <1>2, <1>3, <1>4 DEF Route, Harmless

\* The routes of all tables but the permissions.
LEMMA RequestHarmless ==
  ASSUME PortalTypeOK, NEW c \in Calls, NEW d \in Domains,
         \/ StageRequest(c, d) \/ AgentRequest(c, d) \/ ProductRequest(c, d) \/ SlaRequest(c, d)
         \/ \E p : create_persona(c, d, p) \/ update_persona(c, d, p) \/ delete_persona(c, d, p)
  PROVE  Harmless(c, d)
PROOF
  <1>1. ASSUME NEW t \in {"stage", "transition", "routing", "roster", "capabilities", "prompt", "skill",
                          "grant", "product", "pipeline", "sla", "persona"}, NEW k, NEW v,
               \/ Create(c, d, t, k, v) \/ Update(c, d, t, k, v)
               \/ Upsert(c, d, t, k, v) \/ Delete(c, d, t, k)
        PROVE  Harmless(c, d)
    BY <1>1, OtherTable
  <1>2. CASE StageRequest(c, d)
    BY <1>1, <1>2 DEF StageRequest, create_stage, update_stage, delete_stage, create_transition,
                      delete_transition, create_task_routing, update_task_routing, delete_task_routing
  <1>3. CASE AgentRequest(c, d)
    BY <1>1, <1>3 DEF AgentRequest, add_agent, update_agent_status, remove_agent, upsert_capabilities,
                      upsert_prompt, delete_prompt, upsert_skill, delete_skill, add_tool_grant,
                      remove_tool_grant
  <1>4. CASE ProductRequest(c, d)
    BY <1>1, <1>4, ReorderKept
    DEF ProductRequest, create_product, update_product, delete_product, add_pipeline_step,
        update_pipeline_step, delete_pipeline_step
  <1>5. ASSUME NEW k, NEW v, create_sla(c, d, k, v) PROVE Harmless(c, d)
    <2>1. Rec("sla", k, v).table = "sla"
      BY DEF Rec
    <2>2. /\ AreRows(config[d] \cup {Rec("sla", k, v)})
          /\ Table(config[d] \cup {Rec("sla", k, v)}, "permission") = Table(config[d], "permission")
      BY <2>1, RowsChange DEF PortalTypeOK, Table
    <2> QED BY <1>5, <2>2 DEF create_sla, Route, Harmless
  <1>6. ASSUME NEW k, NEW v, update_sla(c, d, k, v) PROVE Harmless(c, d)
    <2>1. \A w : /\ AreRows(Without(d, "sla", k) \cup {Rec("sla", k, w)})
                 /\ Table(Without(d, "sla", k) \cup {Rec("sla", k, w)}, "permission")
                      = Table(config[d], "permission")
      <3>1. \A w : Rec("sla", k, w).table = "sla"
        BY DEF Rec
      <3>2. Without(d, "sla", k) \in SUBSET config[d]
        BY DEF Without
      <3>3. AreRows(Without(d, "sla", k))
        BY <3>2, RowsChange DEF PortalTypeOK
      <3>4. \A w : AreRows(Without(d, "sla", k) \cup {Rec("sla", k, w)})
        BY <3>3, RowsChange
      <3> QED BY <3>1, <3>4 DEF Table, Without
    <2>2. PICK w : \/ calls[c].at = "allowed" /\ Refuse(c)
                   \/ /\ calls[c].at = "allowed"
                      /\ Commit(c, d, Without(d, "sla", k) \cup {Rec("sla", k, w)}, FALSE)
      BY <1>6 DEF update_sla, Route
    <2> QED BY <2>1, <2>2 DEF Harmless
  <1>7. CASE SlaRequest(c, d)
    BY <1>1, <1>5, <1>6, <1>7 DEF SlaRequest, delete_sla
  <1>8. CASE \E p : create_persona(c, d, p) \/ update_persona(c, d, p) \/ delete_persona(c, d, p)
    BY <1>1, <1>8 DEF create_persona, update_persona, delete_persona
  <1> QED BY <1>2, <1>3, <1>4, <1>7, <1>8

\* A request of the permissions, when it commits, is on its way to clear the cache.
LEMMA PermissionRequest ==
  ASSUME PortalTypeOK, NEW c \in Calls, NEW d \in Domains, NEW p,
         add_permission(c, d, p) \/ remove_permission(c, d, p)
  PROVE  /\ calls[c].at = "allowed"
         /\ Refuse(c) \/ \E rows : Commit(c, d, rows, TRUE) /\ AreRows(rows)
PROOF
  <1> DEFINE k == <<p, AdminScope>>
  <1>1. AreRows(config[d]) /\ Without(d, "permission", k) \in SUBSET config[d]
    BY DEF PortalTypeOK, Without
  <1>2. AreRows(config[d] \cup {Rec("permission", k, {})}) /\ AreRows(Without(d, "permission", k))
    BY <1>1, RowsChange
  <1> QED BY <1>2 DEF add_permission, remove_permission, Route

\* The actions of a call, by what they do to the rows.
LEMMA CallCases ==
  ASSUME PortalTypeOK, NEW c \in Calls, CallNext(c)
  PROVE  \/ require_permission(c) \/ CacheAnswer(c) \/ activate_domain(c) \/ LogChange(c) \/ Answer(c)
         \/ \E d \in Domains : \/ Harmless(c, d) \/ DomainRequest(c, d)
                               \/ \E p : add_permission(c, d, p) \/ remove_permission(c, d, p)
  BY RequestHarmless DEF CallNext, PersonaRequest

\* The rows of a domain's permissions are all that "granted" reads.
LEMMA GrantedByRows ==
  ASSUME \A d \in Domains : Table(config'[d], "permission") = Table(config[d], "permission")
  PROVE  \A u : granted(u)' = granted(u)
  BY DEF granted, Keys

-----------------------------------------------------------------------------
(* Types *)

\* The seed and the empty caches satisfy the invariant.
LEMMA PortalStarts == PortalInit => PortalInv
PROOF
  <1> SUFFICES ASSUME PortalInit PROVE PortalInv
    OBVIOUS
  <1> USE SeedAssumption DEF PortalInit
  <1>1. Idle \in CallRecord
    BY DEF Idle, CallRecord
  <1>2. PortalTypeOK
    BY <1>1 DEF PortalTypeOK, AreRows
  <1>3. SingleActive
    BY DEF SingleActive
  <1>4. StaleGrantHasCause
    BY DEF StaleGrantHasCause
  <1> QED BY <1>2, <1>3, <1>4 DEF PortalInv

\* What the steps of a call write into its record.
LEMMA CallWritten ==
  ASSUME NEW k \in CallRecord
  PROVE  /\ \A at \in {"idle", "reading", "allowed", "refused", "activating", "logging", "answered",
                       "failed", "lost"} :
              /\ [k EXCEPT !.at = at] \in CallRecord
              /\ \A b \in BOOLEAN : [k EXCEPT !.at = at, !.clears = b] \in CallRecord
              /\ \A u \in Users, b \in BOOLEAN :
                   [k EXCEPT !.user = u, !.at = at, !.read = b] \in CallRecord
              /\ \A d \in Domains, b \in BOOLEAN :
                   [k EXCEPT !.at = at, !.dom = d, !.read = b] \in CallRecord
  BY DEF CallRecord

\* Every step keeps the types.
LEMMA PortalTypeKept == ASSUME PortalInv, [PortalNext]_portalVars PROVE PortalTypeOK'
PROOF
  <1> USE DEF PortalInv, PortalTypeOK
  <1>0. \A c \in Calls : calls[c] \in CallRecord
    OBVIOUS
  <1>1. CASE UNCHANGED adminVars
    BY <1>1 DEF adminVars, AreRows
  <1>2. ASSUME NEW c \in Calls, CallNext(c) PROVE PortalTypeOK'
    <2>1. ASSUME NEW k \in CallRecord, calls' = [calls EXCEPT ![c] = k]
          PROVE  calls' \in [Calls -> CallRecord]
      BY <2>1
    <2>2. CASE require_permission(c)
      <3>1. PICK u \in Users, at \in {"refused", "reading", "allowed"}, b \in BOOLEAN :
              calls' = [calls EXCEPT ![c].user = u, ![c].at = at, ![c].read = b]
        <4>1. \A u : granted(u) \in BOOLEAN
          BY DEF granted
        <4> QED BY <2>2, <4>1 DEF require_permission
      <3>2. calls' = [calls EXCEPT ![c] = [calls[c] EXCEPT !.user = u, !.at = at, !.read = b]]
        BY <3>1, Zenon
      <3>3. calls' \in [Calls -> CallRecord]
        BY <1>0, <3>2, CallWritten
      <3> QED BY <2>2, <3>3 DEF require_permission
    <2>3. CASE CacheAnswer(c)
      <3>1. calls' \in [Calls -> CallRecord]
        BY <1>0, <2>3, CallWritten DEF CacheAnswer
      <3>2. missed' \in BOOLEAN
        BY <2>3 DEF CacheAnswer
      <3> QED BY <2>3, <3>1, <3>2 DEF CacheAnswer
    <2>4. Refuse(c) => PortalTypeOK'
      <3> SUFFICES ASSUME Refuse(c) PROVE PortalTypeOK'
        OBVIOUS
      <3>1. calls' \in [Calls -> CallRecord]
        BY <1>0, CallWritten DEF Refuse
      <3> QED BY <3>1 DEF Refuse
    <2>5. ASSUME NEW b \in BOOLEAN, Log(c, b) PROVE calls' \in [Calls -> CallRecord]
      BY <1>0, <2>5, CallWritten DEF Log
    <2>6. ASSUME NEW d \in Domains, NEW rows, NEW b \in BOOLEAN, AreRows(rows), Commit(c, d, rows, b)
          PROVE  PortalTypeOK'
      <3>1. calls' \in [Calls -> CallRecord]
        BY <2>5, <2>6 DEF Commit
      <3>2. config' = [e \in Domains |-> config'[e]] /\ \A e \in Domains : AreRows(config'[e])
        BY <2>6 DEF Commit
      <3> QED BY <2>6, <3>1, <3>2 DEF Commit
    <2>7. ASSUME NEW d \in Domains, Harmless(c, d) PROVE PortalTypeOK'
      BY <2>4, <2>6, <2>7 DEF Harmless
    <2>8. ASSUME NEW d \in Domains, NEW p, add_permission(c, d, p) \/ remove_permission(c, d, p)
          PROVE  PortalTypeOK'
      BY <2>4, <2>6, <2>8, PermissionRequest
    <2>9. ASSUME NEW d \in Domains, DomainRequest(c, d) PROVE PortalTypeOK'
      <3>1. ASSUME NEW b \in BOOLEAN, create_domain(c, d, b) PROVE PortalTypeOK'
        <4>1. [exists |-> TRUE, is_active |-> b] \in [exists : BOOLEAN, is_active : BOOLEAN]
          OBVIOUS
        <4>2. CASE Refuse(c)
          BY <2>4, <4>2
        <4>3. CASE ~Refuse(c)
          BY <2>5, <3>1, <4>1, <4>3 DEF create_domain, SetDomains
        <4> QED BY <4>2, <4>3
      <3>2. ASSUME NEW b \in BOOLEAN, update_domain(c, d, b) PROVE PortalTypeOK'
        BY <2>4, <2>5, <3>2 DEF update_domain, SetDomains
      <3>3. CASE delete_domain(c, d)
        <4>1. CASE Refuse(c)
          BY <2>4, <4>1
        <4>2. CASE ~Refuse(c)
          <5>1. calls' \in [Calls -> CallRecord]
            BY <2>5, <3>3, <4>2 DEF delete_domain, SetDomains
          <5>2. config' = [e \in Domains |-> config'[e]] /\ \A e \in Domains : AreRows(config'[e])
            BY <3>3, <4>2, FS_EmptySet DEF delete_domain, AreRows
          <5>3. [exists |-> FALSE, is_active |-> FALSE] \in [exists : BOOLEAN, is_active : BOOLEAN]
            OBVIOUS
          <5>4. domains' \in [Domains -> [exists : BOOLEAN, is_active : BOOLEAN]]
            BY <3>3, <4>2, <5>3 DEF delete_domain, SetDomains
          <5> QED BY <3>3, <4>2, <5>1, <5>2, <5>4 DEF delete_domain
        <4> QED BY <4>1, <4>2
      <3>4. CASE deactivate_domain(c, d)
        BY <2>4, <2>5, <3>4 DEF deactivate_domain, SetDomains
      <3>5. CASE load_for_activation(c, d)
        <4>1. CASE Refuse(c)
          BY <2>4, <4>1
        <4>2. CASE ~Refuse(c)
          <5>1. calls' \in [Calls -> CallRecord]
            <6>1. calls' = [calls EXCEPT ![c] = [calls[c] EXCEPT !.at = "activating", !.dom = d,
                                                                 !.read = domains[d].is_active]]
              BY <3>5, <4>2, Zenon DEF load_for_activation
            <6> QED BY <1>0, <6>1, CallWritten
          <5> QED BY <3>5, <4>2, <5>1 DEF load_for_activation
        <4> QED BY <4>1, <4>2
      <3> QED BY <2>9, <3>1, <3>2, <3>3, <3>4, <3>5 DEF DomainRequest
    <2>10. CASE activate_domain(c)
      <3>1. activated(c) \in [Domains -> [exists : BOOLEAN, is_active : BOOLEAN]]
        BY <1>0 DEF activated
      <3> QED BY <2>4, <2>5, <2>10, <3>1 DEF activate_domain, SetDomains
    <2>11. CASE LogChange(c)
      BY <1>1, <2>11 DEF LogChange
    <2>12. CASE Answer(c)
      <3>1. PICK at \in {"answered", "failed"} : calls' = [calls EXCEPT ![c].at = at]
        BY <2>12 DEF Answer
      <3>3. calls' \in [Calls -> CallRecord]
        BY <1>0, <3>1, CallWritten
      <3>2. missed' \in BOOLEAN
        BY <1>0, <2>12 DEF Answer, CallRecord
      <3> QED BY <2>12, <3>2, <3>3 DEF Answer
    <2> QED
      BY <1>2, <2>2, <2>3, <2>7, <2>8, <2>9, <2>10, <2>11, <2>12, CallCases
  <1>3. CASE Restart
    <2>1. calls' \in [Calls -> CallRecord]
      BY <1>0, <1>3, CallWritten DEF Restart
    <2> QED BY <1>3, <2>1 DEF Restart
  <1>4. CASE OtherAppend \/ UNCHANGED portalVars
    BY <1>1, <1>4 DEF OtherAppend, portalVars, adminVars
  <1>5. CASE (\E d \in Domains : load_domain_definition(d)) \/ \E s : RunStage(s)
    BY <1>5 DEF load_domain_definition, RunStage
  <1> QED BY <1>2, <1>3, <1>4, <1>5 DEF PortalNext

-----------------------------------------------------------------------------
(* The active domain *)

\* What leaves the flags alone.
LEMMA FlagsKept ==
  ASSUME PortalInv, UNCHANGED <<domains, flagged>> PROVE SingleActive'
  BY DEF PortalInv, SingleActive

\* Every step leaves one domain active.
LEMMA SingleActiveKept == ASSUME PortalInv, [PortalNext]_portalVars PROVE SingleActive'
PROOF
  <1>1. ASSUME NEW c \in Calls, CallNext(c) PROVE SingleActive'
    <2>1. ASSUME NEW d \in Domains, DomainRequest(c, d) PROVE SingleActive'
      <3> USE DEF PortalInv, PortalTypeOK, SingleActive
      <3>1. CASE Refuse(c)
        BY <3>1, FlagsKept DEF Refuse
      <3>2. ASSUME NEW b \in BOOLEAN, ~Refuse(c), create_domain(c, d, b) \/ update_domain(c, d, b)
            PROVE  SingleActive'
        <4>1. flagged' = (flagged \/ b)
          BY <3>2 DEF create_domain, update_domain
        <4>2. \A e \in Domains : domains'[e].is_active = IF e = d THEN b ELSE domains[e].is_active
          <5>1. CASE create_domain(c, d, b)
            <6> DEFINE row == [exists |-> TRUE, is_active |-> b]
            <6>1. row.is_active = b
              OBVIOUS
            <6>2. domains' = [domains EXCEPT ![d] = row]
              BY <3>2, <5>1 DEF create_domain, SetDomains
            <6> HIDE DEF row
            <6> QED BY <6>1, <6>2
          <5>2. CASE update_domain(c, d, b)
            BY <3>2, <5>2 DEF update_domain, SetDomains
          <5> QED BY <3>2, <5>1, <5>2
        <4> QED BY <4>1, <4>2
      <3>3. CASE ~Refuse(c) /\ (delete_domain(c, d) \/ deactivate_domain(c, d))
        <4>1. flagged' = flagged
          BY <3>3 DEF delete_domain, deactivate_domain
        <4>2. \A e \in Domains : domains'[e].is_active => domains[e].is_active
          <5>1. CASE delete_domain(c, d)
            <6> DEFINE row == [exists |-> FALSE, is_active |-> FALSE]
            <6>1. ~row.is_active
              OBVIOUS
            <6>2. domains' = [domains EXCEPT ![d] = row]
              BY <3>3, <5>1 DEF delete_domain, SetDomains
            <6> HIDE DEF row
            <6> QED BY <6>1, <6>2
          <5>2. CASE deactivate_domain(c, d)
            BY <3>3, <5>2 DEF deactivate_domain, SetDomains
          <5> QED BY <3>3, <5>1, <5>2
        <4> QED BY <4>1, <4>2
      <3>4. CASE ~Refuse(c) /\ load_for_activation(c, d)
        BY <3>4, FlagsKept DEF load_for_activation
      <3> QED BY <2>1, <3>1, <3>2, <3>3, <3>4 DEF DomainRequest
    <2>2. CASE activate_domain(c)
      <3>1. CASE Refuse(c)
        BY <3>1, FlagsKept DEF Refuse
      <3>2. CASE ~Refuse(c)
        <4>1. \A e \in Domains : domains'[e].is_active => e = calls[c].dom
          <5>1. domains' = activated(c)
            BY <2>2, <3>2 DEF activate_domain, SetDomains
          <5>2. \A e \in Domains : e # calls[c].dom => ~activated(c)[e].is_active
            BY DEF activated, PortalInv, PortalTypeOK
          <5> QED BY <5>1, <5>2
        <4> QED BY <4>1 DEF SingleActive
      <3> QED BY <3>1, <3>2
    <2>3. ASSUME NEW d \in Domains, Harmless(c, d) PROVE SingleActive'
      BY <2>3, FlagsKept DEF Harmless, Refuse, Commit
    <2>4. ASSUME NEW d \in Domains, NEW p, add_permission(c, d, p) \/ remove_permission(c, d, p)
          PROVE  SingleActive'
      <3>1. Refuse(c) \/ \E rows : Commit(c, d, rows, TRUE)
        BY <2>4, PermissionRequest DEF PortalInv
      <3> QED BY <3>1, FlagsKept DEF Refuse, Commit
    <2>5. CASE require_permission(c) \/ CacheAnswer(c) \/ LogChange(c) \/ Answer(c)
      BY <2>5, FlagsKept DEF require_permission, CacheAnswer, LogChange, Answer, adminVars
    <2> QED BY <1>1, <2>1, <2>2, <2>3, <2>4, <2>5, CallCases DEF PortalInv
  <1>2. CASE Restart \/ OtherAppend \/ UNCHANGED portalVars
    BY <1>2, FlagsKept DEF Restart, OtherAppend, adminVars, portalVars
  <1>3. CASE (\E d \in Domains : load_domain_definition(d)) \/ \E s : RunStage(s)
    BY <1>3, FlagsKept DEF load_domain_definition, RunStage
  <1> QED BY <1>1, <1>2, <1>3 DEF PortalNext

-----------------------------------------------------------------------------
(* The cache of granted permissions *)

\* A step that changes no permission, adds nothing to the cache and leaves the
\* calls that will clear it where they are.
LEMMA CacheKept ==
  ASSUME PortalInv, perm_cache' \subseteq perm_cache, missed => missed',
         \A d \in Domains : Table(config'[d], "permission") = Table(config[d], "permission"),
         \A c \in Calls : calls[c].at = "logging" /\ calls[c].clears
                          => calls'[c].at = "logging" /\ calls'[c].clears
  PROVE  StaleGrantHasCause'
  BY GrantedByRows DEF PortalInv, StaleGrantHasCause

\* Every step leaves a cause for each stale grant.
LEMMA StaleGrantKept == ASSUME PortalInv, [PortalNext]_portalVars PROVE StaleGrantHasCause'
PROOF
  <1> USE DEF PortalInv, PortalTypeOK
  <1>1. ASSUME NEW c \in Calls, CallNext(c) PROVE StaleGrantHasCause'
    <2>1. CASE require_permission(c)
      BY <2>1, CacheKept DEF require_permission
    <2>2. CASE CacheAnswer(c)
      <3>1. \A u : granted(u)' = granted(u)
        BY <2>2, GrantedByRows DEF CacheAnswer
      <3>2. CASE missed'
        BY <3>2 DEF StaleGrantHasCause
      <3>3. CASE ~missed'
        <4>1. ~missed /\ calls[c].read = granted(calls[c].user)
          BY <2>2, <3>3 DEF CacheAnswer
        <4>2. CASE \A e \in perm_cache : e[2] = granted(e[1])
          BY <2>2, <3>1, <4>1, <4>2 DEF CacheAnswer, cache_answer, StaleGrantHasCause
        <4>3. CASE \E k \in Calls : calls[k].at = "logging" /\ calls[k].clears
          BY <2>2, <4>3 DEF CacheAnswer, StaleGrantHasCause
        <4> QED BY <4>1, <4>2, <4>3 DEF StaleGrantHasCause
      <3> QED BY <3>2, <3>3
    <2>3. Refuse(c) /\ calls[c].at # "logging" => StaleGrantHasCause'
      BY CacheKept DEF Refuse
    <2>4. ASSUME NEW d \in Domains, Harmless(c, d) PROVE StaleGrantHasCause'
      BY <2>3, <2>4, CacheKept DEF Harmless, Commit, Log
    <2>5. ASSUME NEW d \in Domains, NEW p, add_permission(c, d, p) \/ remove_permission(c, d, p)
          PROVE  StaleGrantHasCause'
      <3>1. ASSUME NEW rows, Commit(c, d, rows, TRUE) PROVE StaleGrantHasCause'
        BY <3>1 DEF Commit, Log, StaleGrantHasCause, CallRecord
      <3> QED BY <2>3, <2>5, <3>1, PermissionRequest
    <2>6. ASSUME NEW d \in Domains, DomainRequest(c, d) PROVE StaleGrantHasCause'
      <3>0. calls[c].at = "allowed"
        BY <2>6 DEF DomainRequest, create_domain, update_domain, delete_domain, deactivate_domain,
                    load_for_activation
      <3>1. CASE Refuse(c)
        BY <2>3, <3>0, <3>1
      <3>2. CASE ~Refuse(c) /\ \E b \in BOOLEAN : create_domain(c, d, b) \/ update_domain(c, d, b)
        BY <3>0, <3>2, CacheKept DEF create_domain, update_domain, SetDomains, Log
      <3>3. CASE ~Refuse(c) /\ delete_domain(c, d)
        <4>1. CASE Table(config[d], "permission") # {}
          BY <3>3, <4>1 DEF delete_domain, StaleGrantHasCause
        <4>2. CASE Table(config[d], "permission") = {}
          <5>1. \A e \in Domains : Table(config'[e], "permission") = Table(config[e], "permission")
            BY <3>3, <4>2 DEF delete_domain, Table
          <5> QED BY <3>0, <3>3, <5>1, CacheKept DEF delete_domain, SetDomains, Log
        <4> QED BY <4>1, <4>2
      <3>4. CASE ~Refuse(c) /\ (deactivate_domain(c, d) \/ load_for_activation(c, d))
        BY <3>0, <3>4, CacheKept DEF deactivate_domain, load_for_activation, SetDomains, Log
      <3> QED BY <2>6, <3>1, <3>2, <3>3, <3>4 DEF DomainRequest
    <2>7. CASE activate_domain(c)
      BY <2>3, <2>7, CacheKept DEF activate_domain, SetDomains, Log
    <2>8. CASE LogChange(c)
      BY <2>8, CacheKept DEF LogChange, adminVars
    <2>9. CASE Answer(c)
      <3>1. CASE calls[c].clears
        BY <2>9, <3>1 DEF Answer, cache_after, StaleGrantHasCause
      <3>2. CASE ~calls[c].clears
        BY <2>9, <3>2, CacheKept DEF Answer, cache_after
      <3> QED BY <3>1, <3>2
    <2> QED BY <1>1, <2>1, <2>2, <2>4, <2>5, <2>6, <2>7, <2>8, <2>9, CallCases
  <1>2. CASE Restart
    BY <1>2 DEF Restart, StaleGrantHasCause
  <1>3. CASE OtherAppend \/ UNCHANGED portalVars
    BY <1>3, CacheKept DEF OtherAppend, adminVars, portalVars
  <1>4. CASE (\E d \in Domains : load_domain_definition(d)) \/ \E s : RunStage(s)
    BY <1>4, CacheKept DEF load_domain_definition, RunStage
  <1> QED BY <1>1, <1>2, <1>3, <1>4 DEF PortalNext

-----------------------------------------------------------------------------
(* The theorems *)

\* The invariant holds throughout.
LEMMA PortalKept == PortalSpec => []PortalInv
PROOF
  <1>1. PortalInv /\ [PortalNext]_portalVars => PortalInv'
    BY PortalTypeKept, SingleActiveKept, StaleGrantKept DEF PortalInv
  <1> QED BY <1>1, PortalStarts, PTL DEF PortalSpec

\* Whatever the routes are called with and however they interleave, the
\* platform's state has the shape the code gives it.
THEOREM PortalTypeCorrect == PortalSpec => []PortalTypeOK
  BY PortalKept, PTL DEF PortalInv

\* Two activations that overlap do not leave two domains active; only a create
\* or an update that sets is_active by itself can (admin/domains.py).
THEOREM OneActiveDomain == PortalSpec => []SingleActive
  BY PortalKept, PTL DEF PortalInv

\* A permission cache that answers otherwise than the rows has one of the four
\* causes StaleGrantHasCause names (permission_guard.py and admin/personas.py).
THEOREM StaleGrantsHaveCause == PortalSpec => []StaleGrantHasCause
  BY PortalKept, PTL DEF PortalInv

-----------------------------------------------------------------------------
(* The decision log: how the verifier's walk sees the rows *)

RankOf(r) == Cardinality({s \in log : s.seq < r.seq})

\* The walk of verify_chain meets every row once, in the order of seq.
LEMMA Ranks ==
  ASSUME LogTypeOK, RowsInv
  PROVE  /\ Cardinality(log) \in Nat
         /\ \A r \in log : RankOf(r) \in 0..(Cardinality(log) - 1)
         /\ \A r, s \in log : r.seq < s.seq => RankOf(r) < RankOf(s)
         /\ \A i \in 1..Cardinality(log) : \E r \in log : RankOf(r) = i - 1
PROOF
  <1> DEFINE n == Cardinality(log)
             below(r) == {s \in log : s.seq < r.seq}
  <1>1. IsFiniteSet(log) /\ n \in Nat /\ \A r \in log : r.seq \in Int
    BY FS_CardinalityType DEF LogTypeOK
  <1>0. \A r \in log : IsFiniteSet(below(r))
    BY <1>1, FS_Subset
  <1>2. \A r \in log : RankOf(r) \in Nat
    BY <1>0, FS_CardinalityType DEF RankOf
  <1>3. ASSUME NEW r \in log PROVE RankOf(r) < n
    <2>1. below(r) \in SUBSET log /\ below(r) # log
      BY <1>1
    <2>2. RankOf(r) <= n /\ RankOf(r) # n
      BY <1>1, <2>1, FS_Subset DEF RankOf
    <2> QED BY <1>1, <1>2, <2>2
  <1>4. ASSUME NEW r \in log, NEW s \in log, r.seq < s.seq PROVE RankOf(r) < RankOf(s)
    <2>1. below(r) \in SUBSET below(s) /\ below(r) # below(s)
      BY <1>1, <1>4
    <2>2. RankOf(r) <= RankOf(s) /\ RankOf(r) # RankOf(s)
      BY <1>0, <2>1, FS_Subset DEF RankOf
    <2> QED BY <1>2, <2>2
  <1>5. \A i \in 1..n : \E r \in log : RankOf(r) = i - 1
    <2> DEFINE f == [r \in log |-> RankOf(r)]
    <2>1. f \in [log -> 0..(n - 1)]
      BY <1>1, <1>2, <1>3
    <2>2. \A r, s \in log : f[r] = f[s] => r = s
      <3>1. \A r, s \in log : f[r] = f[s] => ~(r.seq < s.seq) /\ ~(s.seq < r.seq)
        BY <1>2, <1>4
      <3> QED BY <1>1, <3>1 DEF RowsInv
    <2>3. f \in Injection(log, 0..(n - 1))
      BY <2>1, <2>2, Fun_IsInj
    <2>4. IsFiniteSet(0..(n - 1)) /\ Cardinality(0..(n - 1)) = n
      <3>1. ASSUME NEW m \in Nat PROVE IsFiniteSet(0..(m - 1)) /\ Cardinality(0..(m - 1)) = m
        <4>1. m - 1 \in Int /\ (IF 0 > m - 1 THEN 0 ELSE (m - 1) - 0 + 1) = m
          OBVIOUS
        <4>2. IsFiniteSet(0..(m - 1)) /\ Cardinality(0..(m - 1)) = IF 0 > m - 1 THEN 0 ELSE (m - 1) - 0 + 1
          BY <4>1, FS_Interval
        <4> QED BY <4>1, <4>2
      <3> QED BY <1>1, <3>1
    <2>5. f \in Surjection(log, 0..(n - 1))
      BY <2>3, <2>4, FS_Injection
    <2> HIDE DEF f
    <2>6. \A j \in 0..(n - 1) : \E r \in log : f[r] = j
      BY <2>5 DEF Surjection
    <2>7. \A i \in 1..n : i - 1 \in 0..(n - 1)
      BY <1>1
    <2> QED BY <2>6, <2>7 DEF f
  <1> QED BY <1>1, <1>2, <1>3, <1>4, <1>5

\* The walk of the chain goes by the order of the rows.
LEMMA WalkInOrder ==
  ASSUME LogTypeOK, RowsInv
  PROVE  /\ Cardinality(log) \in Nat
         /\ DOMAIN Ordered = 1..Cardinality(log)
         /\ \A i \in 1..Cardinality(log) : Ordered[i] \in log /\ RankOf(Ordered[i]) = i - 1
         /\ \A r \in log : RankOf(r) + 1 \in 1..Cardinality(log) /\ Ordered[RankOf(r) + 1] = r
PROOF
  <1> DEFINE n == Cardinality(log)
             at(i) == CHOOSE r \in log : RankOf(r) = i - 1
  <1>1. n \in Nat
    BY Ranks
  <1>2. Ordered = [i \in 1..n |-> at(i)]
    BY DEF Ordered, RankOf
  <1>3. \A i \in 1..n : at(i) \in log /\ RankOf(at(i)) = i - 1
    BY Ranks
  <1> HIDE DEF at
  <1>4. \A i \in 1..n : Ordered[i] \in log /\ RankOf(Ordered[i]) = i - 1
    BY <1>2, <1>3
  <1>5. ASSUME NEW r \in log PROVE RankOf(r) + 1 \in 1..n /\ Ordered[RankOf(r) + 1] = r
    <2>1. RankOf(r) \in 0..(n - 1)
      BY Ranks
    <2>2. RankOf(r) + 1 \in 1..n /\ (RankOf(r) + 1) - 1 = RankOf(r)
      BY <1>1, <2>1
    <2> DEFINE s == Ordered[RankOf(r) + 1]
    <2>3. s \in log /\ RankOf(s) = RankOf(r)
      BY <1>4, <2>2
    <2> HIDE DEF s
    <2>4. ~(r.seq < s.seq) /\ ~(s.seq < r.seq)
      BY <2>1, <2>3, Ranks
    <2>5. r = s
      BY <2>3, <2>4 DEF LogTypeOK, RowsInv
    <2> QED BY <2>2, <2>5 DEF s
  <1> QED BY <1>1, <1>2, <1>4, <1>5

\* The least of a set of numbers.
LEMMA Least == ASSUME NEW S \in SUBSET Nat, S # {} PROVE \E m \in S : \A k \in S : m <= k
PROOF
  <1> DEFINE R == OpToRel(<, Nat)
  <1>1. IsWellFoundedOn(R, Nat)
    BY NatLessThanWellFounded
  <1>2. \A x, y \in Nat : x < y => <<x, y>> \in R
    BY DEF OpToRel
  <1> HIDE DEF R
  <1>3. PICK m \in S : \A k \in S : <<k, m>> \notin R
    BY <1>1, WFMin
  <1>4. \A k \in S : ~(k < m)
    BY <1>2, <1>3
  <1> QED BY <1>4

\* GET /audit/verify answers "valid" exactly when every row is linked to the
\* row before it.
LEMMA VerifiesLinks ==
  ASSUME LogTypeOK, RowsInv
  PROVE  verify_chain = NoRow <=> \A r \in log : Linked(r)
PROOF
  <1> DEFINE n == Cardinality(log)
             expected(i) == IF i = 1 THEN Genesis ELSE Ordered[i - 1].chain_hash
             bad(i) == \/ Ordered[i].chain_hash # compute_hashes(Ordered[i].payload, expected(i))
                       \/ Ordered[i].prev_hash # expected(i)
             broken == {i \in 1..n : bad(i)}
             first == CHOOSE i \in broken : \A j \in broken : i <= j
  <1>1. n \in Nat /\ DOMAIN Ordered = 1..n
    BY WalkInOrder
  <1>2. verify_chain = IF broken = {} THEN NoRow ELSE Ordered[first].seq
    BY <1>1 DEF verify_chain
  <1>3. verify_chain = NoRow <=> broken = {}
    <2>1. CASE broken = {}
      BY <1>2, <2>1
    <2>2. CASE broken # {}
      <3> HIDE DEF bad
      <3>0. broken \in SUBSET Nat
        BY <1>1
      <3> HIDE DEF broken
      <3>1. first \in broken
        <4>1. \E m \in broken : \A j \in broken : m <= j
          BY <2>2, <3>0, Least
        <4> QED BY <4>1
      <3> USE DEF broken
      <3>2. Ordered[first] \in log
        BY <3>1, WalkInOrder
      <3>3. Ordered[first].seq # NoRow
        BY <3>2 DEF LogTypeOK, NoRow
      <3> QED BY <1>2, <2>2, <3>3
    <2> QED BY <2>1, <2>2
  <1>4. ASSUME NEW r \in log PROVE Linked(r) <=> ~bad(RankOf(r) + 1)
    <2> DEFINE i == RankOf(r) + 1
    <2>1. i \in 1..n /\ Ordered[i] = r
      BY WalkInOrder
    <2>2. r.chain_hash = compute_hashes(r.payload, r.prev_hash)
      BY DEF RowsInv
    <2>3. bad(i) <=> r.prev_hash # expected(i)
      BY <2>1, <2>2
    <2>4. \A s \in log : s.seq \in Int /\ RankOf(s) \in Int /\ (s.seq = r.seq => s = r)
      <3>1. \A s \in log : s.seq \in Int /\ (s.seq = r.seq => s = r)
        BY DEF LogTypeOK, RowsInv
      <3>2. \A s \in log : RankOf(s) \in 0..(n - 1)
        BY Ranks
      <3> QED BY <1>1, <3>1, <3>2
    <2>5. CASE i = 1
      <3>1. \A s \in log : ~(s.seq < r.seq)
        <4>1. \A s \in log : RankOf(s) >= 0
          BY Ranks
        <4>2. RankOf(r) = 0
          BY <2>4, <2>5
        <4> QED BY <4>1, <4>2, Ranks
      <3> QED BY <2>3, <2>4, <2>5, <3>1 DEF Linked, Follows
    <2>6. CASE i # 1
      <3> DEFINE p == Ordered[i - 1]
      <3>1. p \in log /\ RankOf(p) = i - 2
        BY <1>1, <2>1, <2>6, WalkInOrder
      <3>2. expected(i) = p.chain_hash
        BY <2>6
      <3> HIDE DEF p
      <3>3. p.seq < r.seq
        BY <2>4, <3>1, Ranks
      <3>4. ASSUME NEW s \in log, s.seq < r.seq, p.seq < s.seq PROVE FALSE
        BY <2>4, <3>1, <3>4, Ranks
      <3>5. Follows(r, p) /\ \A s \in log : Follows(r, s) => s = p
        <4>1. \A s \in log : s.seq = p.seq => s = p
          BY <3>1 DEF RowsInv
        <4> QED BY <2>4, <3>1, <3>3, <3>4, <4>1 DEF Follows
      <3> QED BY <2>3, <2>4, <3>1, <3>2, <3>3, <3>5 DEF Linked
    <2> QED BY <2>5, <2>6
  <1>5. ASSUME NEW i \in 1..n PROVE Ordered[i] \in log /\ RankOf(Ordered[i]) + 1 = i
    BY <1>1, <1>5, WalkInOrder
  <1>6. ASSUME NEW r \in log PROVE RankOf(r) + 1 \in 1..n
    BY <1>6, WalkInOrder
  <1> HIDE DEF bad
  <1>7. broken = {} <=> \A r \in log : Linked(r)
    BY <1>4, <1>5, <1>6
  <1> QED BY <1>3, <1>7

-----------------------------------------------------------------------------
(* The decision log: its invariant *)

AppendRecord == [at : {"new", "waiting", "linked", "inserted", "done", "failed"},
                 last : Nat, prev : Seq(Appends), seq : Nat]

\* An append keeps its type whatever place, number and link it is given.
LEMMA AppendWritten ==
  ASSUME NEW k \in AppendRecord
  PROVE  /\ \A at \in {"new", "waiting", "linked", "inserted", "done", "failed"} :
              /\ [k EXCEPT !.at = at] \in AppendRecord
              /\ \A m \in Nat : /\ [k EXCEPT !.at = at, !.last = m] \in AppendRecord
                                /\ [k EXCEPT !.at = at, !.seq = m] \in AppendRecord
              /\ \A h \in Seq(Appends) : /\ [k EXCEPT !.at = at, !.prev = h] \in AppendRecord
                                         /\ \A m \in Nat :
                                              [k EXCEPT !.at = at, !.last = m, !.prev = h] \in AppendRecord
  BY DEF AppendRecord

\* What the select finds: the last row's number, and its hash.
LEMMA LastRead ==
  ASSUME LogTypeOK, RowsInv
  PROVE  /\ \A r \in log : HashOf(r.seq) = r.chain_hash
         /\ log = {} => LastSeq = NoRow /\ HashOf(LastSeq) = Genesis
         /\ log # {} => \E r \in log : /\ LastSeq = r.seq
                                      /\ HashOf(LastSeq) = r.chain_hash
                                      /\ \A s \in log : s.seq <= r.seq
PROOF
  <1>1. ASSUME NEW r \in log PROVE HashOf(r.seq) = r.chain_hash
    <2>1. r.seq # NoRow
      BY DEF LogTypeOK, NoRow
    <2>2. EntryAt(r.seq) = r
      BY DEF EntryAt, RowsInv
    <2> QED BY <2>1, <2>2 DEF HashOf
  <1>2. CASE log = {}
    BY <1>1, <1>2 DEF LastSeq, HashOf
  <1>3. CASE log # {}
    <2> DEFINE p == CHOOSE r \in log : \A s \in log : s.seq <= r.seq
    <2>1. p \in log /\ \A s \in log : s.seq <= p.seq
      BY <1>3 DEF RowsInv
    <2>2. LastSeq = p.seq
      BY <1>3 DEF LastSeq
    <2> QED BY <1>1, <1>3, <2>1, <2>2
  <1> QED BY <1>1, <1>2, <1>3

\* The last hash an append can find is that of a row there is, or of the empty log.
LEMMA LastHash ==
  ASSUME LogTypeOK, RowsInv
  PROVE  /\ HashOf(LastSeq) \in Seq(Appends) /\ LastSeq \in Nat
         /\ Known(HashOf(LastSeq))
PROOF
  <1>1. \A r \in log : r.chain_hash \in Seq(Appends) /\ r.seq \in Nat
    BY DEF LogTypeOK
  <1>2. CASE log = {}
    <2>1. Genesis \in Seq(Appends) /\ NoRow \in Nat
      BY DEF Genesis, NoRow
    <2> QED BY <1>2, <2>1, LastRead DEF Known
  <1>3. CASE log # {}
    BY <1>1, <1>3, LastRead DEF Known
  <1> QED BY <1>2, <1>3

\* The five steps of an append, said of the record they write.
LEMMA AppendCases ==
  ASSUME LogInv, NEW a \in Appends
  PROVE  /\ SelectLast(a) =>
              \/ /\ log # {}
                 /\ appends' = [appends EXCEPT ![a] = [appends[a] EXCEPT !.at = "waiting", !.last = LastSeq]]
                 /\ \E b \in Appends : Running(b)
              \/ appends' = [appends EXCEPT ![a] =
                   [appends[a] EXCEPT !.at = "linked", !.last = LastSeq, !.prev = HashOf(LastSeq)]]
         /\ LockGranted(a) =>
              \E r \in log : appends' = [appends EXCEPT ![a] =
                                       [appends[a] EXCEPT !.at = "linked", !.prev = r.chain_hash]]
         /\ InsertRow(a) =>
              appends' = [appends EXCEPT ![a] = [appends[a] EXCEPT !.at = "inserted", !.seq = seq + 1]]
         /\ CommitRow(a) => appends' = [appends EXCEPT ![a] = [appends[a] EXCEPT !.at = "done"]]
         /\ AppendFails(a) => appends' = [appends EXCEPT ![a] = [appends[a] EXCEPT !.at = "failed"]]
PROOF
  <1>1. SelectLast(a) =>
          \/ /\ log # {}
             /\ appends' = [appends EXCEPT ![a] = [appends[a] EXCEPT !.at = "waiting", !.last = LastSeq]]
             /\ \E b \in Appends : Running(b)
          \/ appends' = [appends EXCEPT ![a] =
               [appends[a] EXCEPT !.at = "linked", !.last = LastSeq, !.prev = HashOf(LastSeq)]]
    <2>1. CASE Locked(LastSeq)
      <3>1. log # {} /\ \E b \in Appends : Running(b)
        BY <2>1, LastRead DEF Locked, Running, LogInv
      <3> QED BY <2>1, <3>1 DEF SelectLast, select_last, link_to
    <2>2. CASE ~Locked(LastSeq)
      BY <2>2 DEF SelectLast, select_last, link_to
    <2> QED BY <2>1, <2>2
  <1>2. LockGranted(a) =>
          \E r \in log : appends' = [appends EXCEPT ![a] =
                                   [appends[a] EXCEPT !.at = "linked", !.prev = r.chain_hash]]
    <2> SUFFICES ASSUME LockGranted(a)
                 PROVE  \E r \in log : appends' = [appends EXCEPT ![a] =
                                          [appends[a] EXCEPT !.at = "linked", !.prev = r.chain_hash]]
      OBVIOUS
    <2>1. PICK r \in log : r.seq = appends[a].last
      BY DEF LockGranted, LogInv, HashesInv
    <2>2. HashOf(appends[a].last) = r.chain_hash
      BY <2>1, LastRead DEF LogInv
    <2>3. appends' = [appends EXCEPT ![a] = [appends[a] EXCEPT !.at = "linked", !.prev = r.chain_hash]]
      BY <2>2, Zenon DEF LockGranted
    <2> QED BY <2>3
  <1>3. /\ InsertRow(a) =>
             appends' = [appends EXCEPT ![a] = [appends[a] EXCEPT !.at = "inserted", !.seq = seq + 1]]
        /\ CommitRow(a) => appends' = [appends EXCEPT ![a] = [appends[a] EXCEPT !.at = "done"]]
        /\ AppendFails(a) => appends' = [appends EXCEPT ![a] = [appends[a] EXCEPT !.at = "failed"]]
    BY Zenon DEF InsertRow, CommitRow, AppendFails
  <1> QED BY <1>1, <1>2, <1>3, Zenon

\* An empty log satisfies the invariant.
LEMMA LogStarts == LogInit => LogInv
PROOF
  <1> SUFFICES ASSUME LogInit PROVE LogInv
    OBVIOUS
  <1>1. NotStarted \in AppendRecord /\ NotStarted.at = "new"
    BY DEF NotStarted, AppendRecord, Genesis, NoRow
  <1>2. \A a \in Appends : appends[a] = NotStarted
    BY DEF LogInit
  <1>3. LogTypeOK
    BY <1>1, FS_EmptySet DEF LogInit, LogTypeOK, AppendRecord
  <1>4. RowsInv /\ HashesInv /\ SoloInv
    BY <1>1, <1>2 DEF LogInit, RowsInv, HashesInv, SoloInv, Running
  <1> QED BY <1>3, <1>4 DEF LogInv

\* The row a commit adds.
NewRow(a) == [seq |-> appends[a].seq, payload |-> a, prev_hash |-> appends[a].prev,
              chain_hash |-> compute_hashes(a, appends[a].prev)]

\* What a commit writes: one new row, with the number and the link its append had taken.
LEMMA RowAdded ==
  ASSUME LogInv, NEW a \in Appends, CommitRow(a)
  PROVE  /\ log' = log \cup {NewRow(a)}
         /\ NewRow(a) \in [seq : 1..seq, payload : Appends, prev_hash : Seq(Appends), chain_hash : Seq(Appends)]
         /\ NewRow(a).seq = appends[a].seq
         /\ NewRow(a).payload = a
         /\ NewRow(a).prev_hash = appends[a].prev
         /\ NewRow(a).chain_hash = compute_hashes(a, appends[a].prev)
         /\ \A r \in log : r.seq # appends[a].seq
PROOF
  <1>1. appends[a].seq \in 1..seq /\ \A r \in log : r.seq # appends[a].seq
    BY DEF LogInv, RowsInv, CommitRow
  <1>2. appends[a].prev \in Seq(Appends)
    BY DEF LogInv, LogTypeOK
  <1>3. compute_hashes(a, appends[a].prev) \in Seq(Appends)
    BY <1>2 DEF compute_hashes
  <1>4. log' = log \cup {NewRow(a)}
    BY DEF CommitRow, NewRow
  <1> QED BY <1>1, <1>2, <1>3, <1>4 DEF NewRow

\* Every step keeps the types of the log.
LEMMA LogTypeKept == ASSUME LogInv, [LogNext]_logVars PROVE LogTypeOK'
PROOF
  <1>0. /\ appends \in [Appends -> AppendRecord] /\ seq \in Nat /\ overlapped \in BOOLEAN
        /\ LogTypeOK /\ \A a \in Appends : appends[a] \in AppendRecord
    BY DEF LogInv, LogTypeOK, AppendRecord
  <1>1. ASSUME NEW a \in Appends, SelectLast(a) \/ AppendStep(a) PROVE LogTypeOK'
    <2>1. appends' \in [Appends -> AppendRecord]
      <3>1. \A r \in log : r.chain_hash \in Seq(Appends)
        BY DEF LogInv, LogTypeOK
      <3>2. HashOf(LastSeq) \in Seq(Appends) /\ LastSeq \in Nat
        BY LastHash DEF LogInv
      <3>3. PICK k \in AppendRecord : appends' = [appends EXCEPT ![a] = k]
        <4>1. /\ [appends[a] EXCEPT !.at = "waiting", !.last = LastSeq] \in AppendRecord
              /\ [appends[a] EXCEPT !.at = "linked", !.last = LastSeq, !.prev = HashOf(LastSeq)] \in AppendRecord
          BY <1>0, <3>2, AppendWritten
        <4>2. \A r \in log : [appends[a] EXCEPT !.at = "linked", !.prev = r.chain_hash] \in AppendRecord
          BY <1>0, <3>1, AppendWritten
        <4>3. /\ [appends[a] EXCEPT !.at = "inserted", !.seq = seq + 1] \in AppendRecord
              /\ [appends[a] EXCEPT !.at = "done"] \in AppendRecord
              /\ [appends[a] EXCEPT !.at = "failed"] \in AppendRecord
          <5>1. seq + 1 \in Nat
            BY <1>0
          <5> QED BY <1>0, <5>1, AppendWritten
        <4> QED BY <1>1, <4>1, <4>2, <4>3, AppendCases, Zenon DEF AppendStep
      <3> QED BY <1>0, <3>3
    <2>2. CASE CommitRow(a)
      <3>1. IsFiniteSet(log')
        BY <1>0, <2>2, RowAdded, FS_AddElement DEF LogTypeOK
      <3>2. seq' = seq /\ overlapped' = overlapped
        BY <2>2 DEF CommitRow
      <3>3. log' \subseteq [seq : 1..seq, payload : Appends, prev_hash : Seq(Appends), chain_hash : Seq(Appends)]
        BY <1>0, <2>2, RowAdded DEF LogTypeOK
      <3> QED BY <1>0, <2>1, <3>1, <3>2, <3>3 DEF LogTypeOK, AppendRecord
    <2>3. CASE InsertRow(a)
      <3>1. seq' \in Nat /\ \A n \in 1..seq : n \in 1..seq'
        BY <1>0, <2>3 DEF InsertRow
      <3>2. log' \subseteq [seq : 1..seq', payload : Appends, prev_hash : Seq(Appends), chain_hash : Seq(Appends)]
        BY <1>0, <2>3, <3>1 DEF LogTypeOK, InsertRow
      <3> QED BY <1>0, <2>1, <2>3, <3>1, <3>2 DEF LogTypeOK, AppendRecord, InsertRow
    <2>4. CASE SelectLast(a) \/ LockGranted(a) \/ AppendFails(a)
      <3>1. log' = log /\ seq' = seq /\ overlapped' \in BOOLEAN
        BY <1>0, <2>4 DEF SelectLast, LockGranted, AppendFails
      <3> QED BY <1>0, <2>1, <3>1 DEF LogTypeOK, AppendRecord
    <2> QED BY <1>1, <2>2, <2>3, <2>4 DEF AppendStep
  <1>2. CASE AppendsLost
    <2>1. appends' \in [Appends -> AppendRecord]
      BY <1>0, <1>2, AppendWritten DEF AppendsLost
    <2> QED BY <1>0, <1>2, <2>1 DEF AppendsLost, LogTypeOK, AppendRecord
  <1>3. CASE UNCHANGED logVars
    BY <1>0, <1>3 DEF logVars, LogTypeOK
  <1> QED BY <1>1, <1>2, <1>3 DEF LogNext

\* What a step of an append leaves of the others.
LEMMA OthersKept ==
  ASSUME LogInv, NEW a \in Appends, SelectLast(a) \/ AppendStep(a)
  PROVE  /\ \A b \in Appends : b # a => appends'[b] = appends[b]
         /\ log \subseteq log'
         /\ \A b \in Appends : appends[b].at = "done" => appends'[b].at = "done"
PROOF
  <1>1. DOMAIN appends = Appends
    BY DEF LogInv, LogTypeOK
  <1>2. \A b \in Appends : b # a => appends'[b] = appends[b]
    <2>1. PICK k : appends' = [appends EXCEPT ![a] = k]
      BY AppendCases, Zenon DEF AppendStep
    <2> QED BY <1>1, <2>1
  <1>3. appends[a].at # "done"
    BY DEF SelectLast, AppendStep, LockGranted, InsertRow, CommitRow, AppendFails, Running
  <1>4. log \subseteq log'
    BY DEF SelectLast, AppendStep, LockGranted, InsertRow, CommitRow, AppendFails
  <1> QED BY <1>2, <1>3, <1>4

\* Every step keeps the rows numbered as they were added.
LEMMA RowsKept == ASSUME LogInv, [LogNext]_logVars PROVE RowsInv'
PROOF
  <1>0. RowsInv /\ seq \in Nat /\ \A r \in log : r.seq \in 1..seq /\ r.payload \in Appends
    BY DEF LogInv, LogTypeOK
  <1>1. ASSUME NEW a \in Appends, SelectLast(a) \/ AppendStep(a) PROVE RowsInv'
    <2>0. a \in DOMAIN appends /\ appends[a] \in AppendRecord
      BY DEF LogInv, LogTypeOK, AppendRecord
    <2>1. CASE CommitRow(a)
      <3> DEFINE new == NewRow(a)
      <3>1. /\ log' = log \cup {new} /\ new.seq = appends[a].seq /\ new.payload = a
            /\ new.chain_hash = compute_hashes(new.payload, new.prev_hash)
            /\ \A r \in log : r.seq # new.seq
        BY <2>1, RowAdded
      <3>2. seq' = seq /\ appends'[a].at = "done" /\ new.seq \in 1..seq
        <4>1. appends[a].seq \in 1..seq
          BY <1>0, <2>1 DEF CommitRow, RowsInv
        <4>2. appends' = [appends EXCEPT ![a] = [appends[a] EXCEPT !.at = "done"]] /\ seq' = seq
          BY <2>1, Zenon DEF CommitRow
        <4>3. [appends[a] EXCEPT !.at = "done"].at = "done"
          BY <2>0 DEF AppendRecord
        <4>4. appends'[a].at = "done"
          BY <2>0, <4>2, <4>3
        <4> QED BY <3>1, <4>1, <4>2, <4>4
      <3> HIDE DEF new
      <3>3. \A b \in Appends : appends'[b].at = "inserted" =>
              appends'[b] = appends[b] /\ appends[b].seq # new.seq
        BY <1>0, <1>1, <2>1, <3>1, <3>2, OthersKept DEF RowsInv, CommitRow
      <3>4. log' # {} => \E r \in log' : \A s \in log' : s.seq <= r.seq
        <4>1. CASE log = {}
          BY <1>0, <3>1, <3>2, <4>1
        <4>2. CASE log # {}
          <5>1. PICK r \in log : \A s \in log : s.seq <= r.seq
            BY <1>0, <4>2 DEF RowsInv
          <5>2. CASE r.seq < new.seq
            <6>1. \A s \in log' : s.seq <= new.seq
              BY <1>0, <3>1, <3>2, <5>1, <5>2
            <6> QED BY <3>1, <6>1
          <5>3. CASE ~(r.seq < new.seq)
            BY <1>0, <3>1, <3>2, <5>1, <5>3
          <5> QED BY <5>2, <5>3
        <4> QED BY <4>1, <4>2
      <3>5. \A r \in log' : /\ r.chain_hash = compute_hashes(r.payload, r.prev_hash)
                           /\ appends'[r.payload].at = "done"
        BY <1>0, <1>1, <3>1, <3>2, OthersKept DEF RowsInv
      <3>6. \A b \in Appends : appends'[b].at = "inserted" => /\ appends'[b].seq \in 1..seq'
                                                           /\ \A r \in log' : r.seq # appends'[b].seq
        BY <1>0, <3>1, <3>2, <3>3 DEF RowsInv
      <3>7. \A r, s \in log' : r.seq = s.seq => r = s
        BY <1>0, <3>1 DEF RowsInv
      <3>8. \A b, c \in Appends : appends'[b].at = "inserted" /\ appends'[c].at = "inserted"
                                 /\ appends'[b].seq = appends'[c].seq => b = c
        BY <1>0, <3>3 DEF RowsInv
      <3> QED BY <3>4, <3>5, <3>6, <3>7, <3>8 DEF RowsInv, compute_hashes
    <2>2. CASE InsertRow(a)
      <3>1. /\ log' = log /\ seq' = seq + 1
            /\ appends'[a].at = "inserted" /\ appends'[a].seq = seq + 1
        BY <2>0, <2>2 DEF InsertRow, AppendRecord, LogInv, LogTypeOK
      <3>2. \A b \in Appends : b # a => appends'[b] = appends[b]
        BY <1>1, OthersKept
      <3>3. \A b \in Appends : appends'[b].at = "inserted" => /\ appends'[b].seq \in 1..seq'
                                                           /\ \A r \in log' : r.seq # appends'[b].seq
        BY <1>0, <3>1, <3>2 DEF RowsInv
      <3>4. \A b, c \in Appends : appends'[b].at = "inserted" /\ appends'[c].at = "inserted"
                                 /\ appends'[b].seq = appends'[c].seq => b = c
        BY <1>0, <3>1, <3>2 DEF RowsInv
      <3>5. \A r \in log' : appends'[r.payload].at = "done"
        BY <1>0, <1>1, <3>1, OthersKept DEF RowsInv
      <3> QED BY <1>0, <3>1, <3>3, <3>4, <3>5 DEF RowsInv, compute_hashes
    <2>3. CASE SelectLast(a) \/ LockGranted(a) \/ AppendFails(a)
      <3>1. log' = log /\ seq' = seq
        BY <2>3 DEF SelectLast, LockGranted, AppendFails
      <3>2. appends'[a].at # "inserted"
        <4>1. CASE SelectLast(a)
          BY <2>0, <4>1 DEF SelectLast, select_last, link_to, AppendRecord
        <4>2. CASE LockGranted(a)
          BY <2>0, <4>2 DEF LockGranted, AppendRecord
        <4>3. CASE AppendFails(a)
          BY <2>0, <4>3 DEF AppendFails, AppendRecord
        <4> QED BY <2>3, <4>1, <4>2, <4>3
      <3>3. \A b \in Appends : appends'[b].at = "inserted" => appends'[b] = appends[b]
        BY <1>1, <3>2, OthersKept
      <3>4. \A r \in log' : appends'[r.payload].at = "done"
        BY <1>0, <1>1, <3>1, OthersKept DEF RowsInv
      <3> QED BY <1>0, <3>1, <3>3, <3>4 DEF RowsInv, compute_hashes
    <2> QED BY <1>1, <2>1, <2>2, <2>3 DEF AppendStep
  <1>2. CASE AppendsLost
    <2>1. \A a \in Appends : /\ appends'[a].at = "inserted" => appends'[a] = appends[a]
                            /\ appends[a].at = "done" => appends'[a].at = "done"
      <3>1. \A a \in Appends : appends[a] \in AppendRecord
        BY DEF LogInv, LogTypeOK, AppendRecord
      <3> QED BY <1>2, <3>1 DEF AppendsLost, Running, AppendRecord
    <2> QED BY <1>0, <1>2, <2>1 DEF AppendsLost, RowsInv, compute_hashes
  <1>3. CASE UNCHANGED logVars
    BY <1>0, <1>3 DEF logVars, RowsInv, compute_hashes
  <1> QED BY <1>1, <1>2, <1>3 DEF LogNext

\* The same five steps, field by field.
LEMMA AppendWrites ==
  ASSUME LogInv, NEW a \in Appends
  PROVE  /\ SelectLast(a) =>
              \/ /\ appends'[a].at = "waiting" /\ appends'[a].last = LastSeq
                 /\ log # {} /\ \E b \in Appends : Running(b)
              \/ appends'[a].at = "linked" /\ appends'[a].prev = HashOf(LastSeq)
         /\ LockGranted(a) => appends'[a].at = "linked" /\ \E r \in log : appends'[a].prev = r.chain_hash
         /\ InsertRow(a) => /\ appends'[a].at = "inserted"
                            /\ appends'[a].seq = seq + 1 /\ appends'[a].prev = appends[a].prev
         /\ CommitRow(a) => appends'[a].at = "done"
         /\ AppendFails(a) => appends'[a].at = "failed"
PROOF
  <1>1. a \in DOMAIN appends /\ appends[a] \in AppendRecord
    BY DEF LogInv, LogTypeOK, AppendRecord
  <1>2. CommitRow(a) => appends'[a].at = "done"
    BY <1>1 DEF CommitRow, AppendRecord
  <1>3. AppendFails(a) => appends'[a].at = "failed"
    BY <1>1 DEF AppendFails, AppendRecord
  <1>4. InsertRow(a) => /\ appends'[a].at = "inserted"
                        /\ appends'[a].seq = seq + 1 /\ appends'[a].prev = appends[a].prev
    BY <1>1 DEF InsertRow, AppendRecord
  <1>5. LockGranted(a) => appends'[a].at = "linked" /\ \E r \in log : appends'[a].prev = r.chain_hash
    <2> SUFFICES ASSUME LockGranted(a)
                 PROVE  appends'[a].at = "linked" /\ \E r \in log : appends'[a].prev = r.chain_hash
      OBVIOUS
    <2>1. PICK r \in log : appends' = [appends EXCEPT ![a] =
                                    [appends[a] EXCEPT !.at = "linked", !.prev = r.chain_hash]]
      BY AppendCases
    <2> QED BY <1>1, <2>1 DEF AppendRecord
  <1>6. SelectLast(a) =>
          \/ /\ appends'[a].at = "waiting" /\ appends'[a].last = LastSeq
             /\ log # {} /\ \E b \in Appends : Running(b)
          \/ appends'[a].at = "linked" /\ appends'[a].prev = HashOf(LastSeq)
    <2>1. CASE appends' = [appends EXCEPT ![a] = [appends[a] EXCEPT !.at = "waiting", !.last = LastSeq]]
      <3>1. appends'[a].at = "waiting" /\ appends'[a].last = LastSeq
        BY <1>1, <2>1 DEF AppendRecord
      <3>2. appends' # [appends EXCEPT ![a] =
                         [appends[a] EXCEPT !.at = "linked", !.last = LastSeq, !.prev = HashOf(LastSeq)]]
        BY <1>1, <3>1 DEF AppendRecord
      <3> QED BY <3>1, <3>2, AppendCases
    <2>2. CASE appends' = [appends EXCEPT ![a] =
                 [appends[a] EXCEPT !.at = "linked", !.last = LastSeq, !.prev = HashOf(LastSeq)]]
      BY <1>1, <2>2 DEF AppendRecord
    <2> QED BY <2>1, <2>2, AppendCases
  <1> QED BY <1>2, <1>3, <1>4, <1>5, <1>6

\* Every step links to rows that exist.
LEMMA HashesKept == ASSUME LogInv, [LogNext]_logVars PROVE HashesInv'
PROOF
  <1>0. HashesInv
    BY DEF LogInv
  <1>1. ASSUME NEW a \in Appends, SelectLast(a) \/ AppendStep(a) PROVE HashesInv'
    <2>2. \A r \in log' : r \in log \/ (r.prev_hash = appends[a].prev /\ appends[a].at = "inserted")
      <3>1. CASE CommitRow(a)
        BY <3>1, RowAdded DEF CommitRow
      <3>2. CASE ~CommitRow(a)
        BY <1>1, <3>2 DEF SelectLast, AppendStep, LockGranted, InsertRow, AppendFails
      <3> QED BY <3>1, <3>2
    <2>3. /\ appends'[a].at \in {"linked", "inserted"} => Known(appends'[a].prev)
          /\ appends'[a].at = "waiting" => \E r \in log : r.seq = appends'[a].last
      <3>1. CASE appends'[a].at = "waiting"
        BY <1>1, <3>1, AppendWrites, LastRead DEF LogInv, AppendStep
      <3>2. CASE appends'[a].at = "linked"
        BY <1>1, <3>2, AppendWrites, LastHash DEF LogInv, Known, AppendStep
      <3>3. CASE appends'[a].at = "inserted"
        <4>1. InsertRow(a)
          BY <1>1, <3>3, AppendWrites DEF AppendStep
        <4> QED BY <1>0, <4>1, AppendWrites DEF HashesInv, InsertRow
      <3> QED BY <3>1, <3>2, <3>3
    <2>4. log \subseteq log' /\ \A b \in Appends : b # a => appends'[b] = appends[b]
      BY <1>1, OthersKept
    <2>5. \A r \in log' : Known(r.prev_hash)'
      BY <1>0, <2>2, <2>4 DEF HashesInv, Known
    <2>6. \A b \in Appends : appends'[b].at \in {"linked", "inserted"} => Known(appends[b].prev)'
      BY <1>0, <2>3, <2>4 DEF HashesInv, Known
    <2>7. \A b \in Appends : appends'[b].at = "waiting" => \E r \in log' : r.seq = appends'[b].last
      BY <1>0, <2>3, <2>4 DEF HashesInv
    <2> QED BY <2>5, <2>6, <2>7 DEF HashesInv
  <1>2. CASE AppendsLost
    <2>1. log' = log
      BY <1>2 DEF AppendsLost
    <2>2. \A a \in Appends : appends'[a] = appends[a] \/ appends'[a].at = "failed"
      <3>1. \A a \in Appends : appends[a] \in AppendRecord
        BY DEF LogInv, LogTypeOK, AppendRecord
      <3> QED BY <1>2, <3>1 DEF AppendsLost, AppendRecord
    <2> QED BY <1>0, <2>1, <2>2 DEF HashesInv, Known
  <1>3. CASE UNCHANGED logVars
    BY <1>0, <1>3 DEF logVars, HashesInv, Known
  <1> QED BY <1>1, <1>2, <1>3 DEF LogNext

\* A step that leaves the rows and starts no append.
LEMMA SoloKeptIdle ==
  ASSUME LogInv, log' = log, overlapped' = overlapped, NEW a \in Appends,
         \A b \in Appends : b # a => appends'[b] = appends[b] \/ appends'[b].at = "failed",
         \/ ~(appends'[a].at \in {"waiting", "linked", "inserted"})
         \/ /\ Running(a) /\ appends'[a].at = "inserted" /\ appends'[a].prev = appends[a].prev
            /\ \A r \in log : r.seq < appends'[a].seq
  PROVE  SoloInv'
  BY DEF LogInv, SoloInv, Running, Linked, Follows

\* Appends that never waited for another keep the chain linked.
LEMMA SoloKept == ASSUME LogInv, [LogNext]_logVars PROVE SoloInv'
PROOF
  <1>0. SoloInv /\ LogTypeOK /\ RowsInv
    BY DEF LogInv
  <1>1. ASSUME NEW a \in Appends, SelectLast(a) \/ AppendStep(a) PROVE SoloInv'
    <2>0. \A b \in Appends : b # a => appends'[b] = appends[b]
      BY <1>1, OthersKept
    <2>1. CASE SelectLast(a)
      <3>1. CASE overlapped'
        BY <3>1 DEF SoloInv
      <3>2. CASE ~overlapped'
        <4>1. ~overlapped /\ log' = log /\ \A b \in Appends : ~Running(b)
          BY <2>1, <3>2 DEF SelectLast
        <4>2. appends'[a].at = "linked" /\ appends'[a].prev = HashOf(LastSeq)
          BY <2>1, <4>1, AppendWrites
        <4>3. \A b \in Appends : Running(b)' => b = a
          BY <2>0, <4>1 DEF Running
        <4>4. /\ log = {} => HashOf(LastSeq) = Genesis
              /\ \A r \in log : (\A s \in log : s.seq <= r.seq) => HashOf(LastSeq) = r.chain_hash
          <5>1. \A r, s \in log : r.seq \in Int /\ (r.seq = s.seq => r = s)
            BY <1>0 DEF LogTypeOK, RowsInv
          <5>2. \A r, s \in log : r.seq <= s.seq /\ s.seq <= r.seq => r = s
            BY <5>1
          <5> QED BY <1>0, <5>2, LastRead
        <4>5. \A r \in log : Linked(r)'
          BY <1>0, <4>1 DEF SoloInv, Linked, Follows
        <4> QED BY <4>1, <4>2, <4>3, <4>4, <4>5 DEF SoloInv
      <3> QED BY <3>1, <3>2
    <2>2. CASE LockGranted(a)
      BY <1>0, <2>2 DEF LockGranted, SoloInv, Running
    <2>3. CASE InsertRow(a)
      <3>1. appends'[a].at = "inserted" /\ appends'[a].seq = seq + 1 /\ appends'[a].prev = appends[a].prev
        BY <2>3, AppendWrites
      <3>2. \A r \in log : r.seq < seq + 1
        BY <1>0 DEF LogTypeOK
      <3> QED BY <2>0, <2>3, <3>1, <3>2, SoloKeptIdle DEF InsertRow, Running
    <2>4. CASE CommitRow(a)
      <3> SUFFICES ASSUME ~overlapped' PROVE SoloInv'
        BY DEF SoloInv
      <3>1. ~overlapped /\ Running(a)
        BY <2>4 DEF CommitRow, Running
      <3>2. PICK new : /\ log' = log \cup {new} /\ new.seq = appends[a].seq
                       /\ new.prev_hash = appends[a].prev /\ new.seq \in Int
        BY <2>4, RowAdded
      <3>3. appends'[a].at = "done"
        BY <2>4, AppendWrites
      <3>4. \A b \in Appends : ~Running(b)'
        BY <1>0, <2>0, <3>1, <3>3 DEF SoloInv, Running
      <3>5. (\A r \in log : r.seq < new.seq /\ r.seq \in Int) /\ \A r \in log : Linked(r)
        BY <1>0, <2>4, <3>1, <3>2 DEF SoloInv, LogTypeOK, CommitRow
      <3>6. ASSUME NEW r \in log PROVE Linked(r)'
        BY <3>2, <3>5 DEF Linked, Follows
      <3>7. Linked(new)'
        <4>1. CASE log = {}
          BY <1>0, <3>1, <3>2, <4>1 DEF Linked, Follows, SoloInv
        <4>2. CASE log # {}
          <5>1. PICK p \in log : TRUE
            BY <4>2
          <5>2. ~(new.seq <= p.seq)
            BY <3>2, <3>5
          <5>3. ASSUME NEW s \in log', Follows(new, s)' PROVE new.prev_hash = s.chain_hash
            <6>1. s \in log
              BY <3>2, <5>3 DEF Follows
            <6>2. \A t \in log : t.seq <= s.seq
              BY <3>2, <3>5, <5>3, <6>1 DEF Follows
            <6> QED BY <1>0, <3>1, <3>2, <6>1, <6>2 DEF SoloInv
          <5> QED BY <3>2, <5>1, <5>2, <5>3 DEF Linked
        <4> QED BY <4>1, <4>2
      <3> QED BY <3>2, <3>4, <3>6, <3>7 DEF SoloInv
    <2>5. CASE AppendFails(a)
      <3>1. appends'[a].at = "failed"
        BY <2>5, AppendWrites
      <3> QED BY <2>0, <2>5, <3>1, SoloKeptIdle DEF AppendFails
    <2> QED BY <1>1, <2>1, <2>2, <2>3, <2>4, <2>5 DEF AppendStep
  <1>2. CASE AppendsLost
    <2>1. \A a \in Appends : ~Running(a)'
      <3>1. \A a \in Appends : appends[a] \in AppendRecord
        BY DEF LogInv, LogTypeOK, AppendRecord
      <3> QED BY <1>2, <3>1 DEF AppendsLost, AppendRecord, Running
    <2> QED BY <1>0, <1>2, <2>1 DEF AppendsLost, SoloInv, Linked, Follows
  <1>3. CASE UNCHANGED logVars
    BY <1>0, <1>3 DEF logVars, SoloInv, Running, Linked, Follows
  <1> QED BY <1>1, <1>2, <1>3 DEF LogNext

\* A committing append's own hash is not one that a row has linked to.
LEMMA NotYetLinked ==
  ASSUME LogInv, NEW a \in Appends, CommitRow(a), NEW r \in log
  PROVE  r.prev_hash # compute_hashes(a, appends[a].prev)
PROOF
  <1>1. ASSUME NEW h \in Seq(Appends), NEW b
        PROVE  Append(h, b) # <<>> /\ Append(h, b)[Len(Append(h, b))] = b
    OBVIOUS
  <1>2. appends[a].prev \in Seq(Appends) /\ \A s \in log : s.prev_hash \in Seq(Appends)
    BY DEF LogInv, LogTypeOK
  <1>3. CASE r.prev_hash = Genesis
    BY <1>1, <1>2, <1>3 DEF Genesis, compute_hashes
  <1>4. CASE r.prev_hash # Genesis
    <2>1. PICK s \in log : r.prev_hash = s.chain_hash
      BY <1>4 DEF LogInv, HashesInv, Known
    <2>2. r.prev_hash = Append(s.prev_hash, s.payload) /\ s.payload # a
      BY <2>1 DEF LogInv, RowsInv, compute_hashes, CommitRow
    <2> QED BY <1>1, <1>2, <2>2 DEF compute_hashes
  <1> QED BY <1>3, <1>4

\* In the next state, too, a chain verifies exactly when each of its rows is linked.
LEMMA VerifiesLinksNext ==
  (LogTypeOK /\ RowsInv => (verify_chain = NoRow <=> \A r \in log : Linked(r)))'
PROOF
  <1>1. LogTypeOK /\ RowsInv => (verify_chain = NoRow <=> \A r \in log : Linked(r))
    BY VerifiesLinks
  <1> QED BY <1>1, PTL

\* A chain that does not verify does not after the next step.
LEMMA BreakKept ==
  ASSUME LogInv, LogInv', [LogNext]_logVars, verify_chain # NoRow
  PROVE  verify_chain' # NoRow
PROOF
  <1>1. PICK r \in log : ~Linked(r)
    BY VerifiesLinks DEF LogInv
  <1>2. ASSUME NEW a \in Appends, CommitRow(a) PROVE \E s \in log' : ~Linked(s)'
    <2>1. PICK new : /\ log' = log \cup {new} /\ new.seq = appends[a].seq /\ new.seq \in Int
                     /\ new.chain_hash = compute_hashes(a, appends[a].prev)
      BY <1>2, RowAdded
    <2>2. r.prev_hash # new.chain_hash
      BY <1>2, <2>1, NotYetLinked
    <2>3. \A s \in log : s.seq \in Int
      BY DEF LogInv, LogTypeOK
    <2>4. CASE (\A s \in log : r.seq <= s.seq) /\ r.prev_hash # Genesis
      <3>1. CASE new.seq < r.seq
        <4>1. Follows(r, new)'
          BY <2>1, <2>3, <2>4, <3>1 DEF Follows
        <4> QED BY <2>1, <2>2, <4>1 DEF Linked
      <3>2. CASE ~(new.seq < r.seq)
        BY <2>1, <2>3, <2>4, <3>2 DEF Linked
      <3> QED BY <3>1, <3>2
    <2>5. ASSUME NEW s \in log, Follows(r, s), r.prev_hash # s.chain_hash PROVE ~Linked(r)'
      <3>1. CASE s.seq < new.seq /\ new.seq < r.seq
        <4>1. Follows(r, new)'
          BY <2>1, <2>3, <2>5, <3>1 DEF Follows
        <4> QED BY <2>1, <2>2, <4>1 DEF Linked
      <3>2. CASE ~(s.seq < new.seq /\ new.seq < r.seq)
        <4>1. Follows(r, s)'
          BY <2>1, <2>3, <2>5, <3>2 DEF Follows
        <4> QED BY <2>1, <2>5, <4>1 DEF Linked
      <3> QED BY <3>1, <3>2
    <2> QED BY <1>1, <2>1, <2>4, <2>5 DEF Linked
  <1>3. ASSUME log' = log PROVE \E s \in log' : ~Linked(s)'
    BY <1>1, <1>3 DEF Linked, Follows
  <1>4. \E s \in log' : ~Linked(s)'
    BY <1>2, <1>3 DEF LogNext, AppendsLost, SelectLast, AppendStep, LockGranted, InsertRow, AppendFails, logVars
  <1>5. verify_chain' = NoRow' <=> \A s \in log' : Linked(s)'
    BY VerifiesLinksNext DEF LogInv
  <1> QED BY <1>4, <1>5 DEF NoRow

\* The invariant of the log holds throughout.
LEMMA LogKept == LogSpec => []LogInv
PROOF
  <1>1. LogInv /\ [LogNext]_logVars => LogInv'
    BY LogTypeKept, RowsKept, HashesKept, SoloKept DEF LogInv
  <1> QED BY <1>1, LogStarts, PTL DEF LogSpec

\* As long as no two appends overlap the chain verifies, whatever fails and is
\* rolled back in between (decision_log_service.py:52).
THEOREM SoloChainVerifies == LogSpec => []SoloAppendsVerify
PROOF
  <1>1. LogInv => SoloAppendsVerify
    BY VerifiesLinks DEF LogInv, SoloInv, SoloAppendsVerify
  <1> QED BY <1>1, LogKept, PTL

\* A chain that verify_chain has once found broken is found broken for ever
\* (decision_log_service.py:120): no append still running can mend it.
THEOREM BrokenChainStays == LogSpec => BreakIsPermanent
PROOF
  <1>1. LogInv /\ LogInv' /\ [LogNext]_logVars => [verify_chain # NoRow => verify_chain' # NoRow]_logVars
    BY BreakKept
  <1> QED BY <1>1, LogKept, PTL DEF LogSpec, BreakIsPermanent

-----------------------------------------------------------------------------
(* The platform writes its log as the decision log does *)

\* What the portal does to the log is what the log allows.
LEMMA PortalAppends == ASSUME [PortalNext]_portalVars PROVE [LogNext]_logVars
PROOF
  <1>1. ASSUME NEW c \in Calls, CallNext(c) PROVE [LogNext]_logVars
    <2>1. LogChange(c) => LogNext
      BY CallsAppend DEF LogChange, LogNext
    <2>2. ~LogChange(c) => UNCHANGED logVars
      <3>0. ASSUME NEW d, NEW ok, NEW rows, NEW clears, Route(c, d, ok, rows, clears)
            PROVE  UNCHANGED logVars
        BY <3>0 DEF Route, Commit, Refuse
      <3>1. ASSUME NEW d, NEW t, NEW k, NEW v,
                   \/ Create(c, d, t, k, v) \/ Update(c, d, t, k, v)
                   \/ Upsert(c, d, t, k, v) \/ Delete(c, d, t, k)
            PROVE  UNCHANGED logVars
        BY <3>0, <3>1 DEF Create, Update, Upsert, Delete
      <3>2. \A d : StageRequest(c, d) => UNCHANGED logVars
        BY <3>1 DEF StageRequest, create_stage, update_stage, delete_stage, create_transition,
                    delete_transition, create_task_routing, update_task_routing, delete_task_routing
      <3>3. \A d : AgentRequest(c, d) => UNCHANGED logVars
        BY <3>1 DEF AgentRequest, add_agent, update_agent_status, remove_agent, upsert_capabilities,
                    upsert_prompt, delete_prompt, upsert_skill, delete_skill, add_tool_grant, remove_tool_grant
      <3>4. \A d : ProductRequest(c, d) => UNCHANGED logVars
        BY <3>0, <3>1 DEF ProductRequest, create_product, update_product, delete_product, add_pipeline_step,
                    update_pipeline_step, delete_pipeline_step, reorder_pipeline
      <3>5. \A d : SlaRequest(c, d) \/ PersonaRequest(c, d) => UNCHANGED logVars
        BY <3>0, <3>1 DEF SlaRequest, create_sla, update_sla, delete_sla, PersonaRequest, create_persona,
                    update_persona, delete_persona, add_permission, remove_permission
      <3>6. \A d : DomainRequest(c, d) => UNCHANGED logVars
        BY DEF DomainRequest, create_domain, update_domain, delete_domain, deactivate_domain,
               load_for_activation, Refuse
      <3>7. require_permission(c) \/ CacheAnswer(c) \/ activate_domain(c) \/ Answer(c) => UNCHANGED logVars
        BY DEF require_permission, CacheAnswer, activate_domain, Answer, Refuse
      <3> QED BY <1>1, <3>2, <3>3, <3>4, <3>5, <3>6, <3>7 DEF CallNext
    <2> QED BY <2>1, <2>2
  <1>2. OtherAppend \/ Restart => LogNext
    BY DEF OtherAppend, Restart, LogNext
  <1>3. (\E d \in Domains : load_domain_definition(d)) \/ (\E s : RunStage(s)) => UNCHANGED logVars
    BY DEF load_domain_definition, RunStage
  <1>4. UNCHANGED portalVars => UNCHANGED logVars
    BY DEF portalVars
  <1> QED BY <1>1, <1>2, <1>3, <1>4 DEF PortalNext

\* Whatever its routes do, all the platform does to the decision log is what
\* append() does: the log's theorems are the platform's.
THEOREM PortalImplementsLog == PortalSpec => LogSpec
  BY PortalAppends, PTL DEF PortalSpec, LogSpec, PortalInit

\* So the chain the routes, the activities and the gate append to verifies as
\* long as no two of their appends overlap.
THEOREM PlatformChainVerifies == PortalSpec => []SoloAppendsVerify
  BY PortalImplementsLog, SoloChainVerifies, PTL

\* On the platform, too, a chain that fails to verify never verifies again
\* (decision_log_service.py: rows are only added).
THEOREM PlatformBreakIsPermanent == PortalSpec => BreakIsPermanent
  BY PortalImplementsLog, BrokenChainStays, PTL

-----------------------------------------------------------------------------
(* The loader's walk over the transitions *)

\* Induction over the naturals, for a set instead of a predicate.
LEMMA SetInduction ==
  ASSUME NEW S, 0 \in S, \A n \in Nat : n \in S => n + 1 \in S
  PROVE  Nat \subseteq S
PROOF
  <1> SUFFICES ASSUME NEW n \in Nat, n \notin S PROVE FALSE
    OBVIOUS
  <1> DEFINE A == {k \in Nat : k \notin S}
  <1>1. PICK m \in A : \A k \in A : m <= k
    <2>1. A \in SUBSET Nat /\ A # {}
      OBVIOUS
    <2> HIDE DEF A
    <2> QED BY <2>1, Least
  <1>2. m # 0 /\ m - 1 \in Nat /\ m - 1 \notin A
    BY <1>1
  <1> QED BY <1>2

\* One more layer of the walk, and a set the walk does not leave.
next_layer(T, V) == V \cup UNION {T[s] : s \in V \cap DOMAIN T}
closed_under(T, V) == \A s \in V \cap DOMAIN T : T[s] \subseteq V

\* The layers are well defined, and the last one is what the walk returns.
LEMMA Layers ==
  ASSUME NEW start, NEW T, IsFiniteSet(DOMAIN T)
  PROVE  \E f : /\ f = [n \in 0 .. Cardinality(DOMAIN T) |->
                           IF n = 0 THEN {start} ELSE next_layer(T, f[n - 1])]
                /\ bfs_reachable(start, T) = f[Cardinality(DOMAIN T)]
PROOF
  <1> DEFINE N == Cardinality(DOMAIN T)
             P(f, m) == f = [n \in 0 .. m |-> IF n = 0 THEN {start} ELSE next_layer(T, f[n - 1])]
             S == {m \in Nat : \E f : P(f, m)}
  <1>1. N \in Nat
    BY FS_CardinalityType
  <1>2. 0 \in S
    <2>1. P([n \in 0 .. 0 |-> {start}], 0)
      OBVIOUS
    <2> QED BY <2>1
  <1>3. ASSUME NEW m \in Nat, m \in S PROVE m + 1 \in S
    <2>1. PICK f : P(f, m)
      BY <1>3
    <2> DEFINE g == [n \in 0 .. m + 1 |-> IF n = m + 1 THEN next_layer(T, f[m]) ELSE f[n]]
    <2>2. P(g, m + 1)
      <3> SUFFICES ASSUME NEW n \in 0 .. m + 1 
                     PROVE  g[n] = IF n = 0 THEN {start} ELSE next_layer(T, g[n - 1])
        OBVIOUS
      <3>1. CASE n = 0
        BY <3>1, <2>1
      <3>2. CASE n \in 1 .. m
        <4>1. n \in 0 .. m /\ n # 0 /\ n - 1 \in 0 .. m + 1 /\ n # m + 1 /\ n - 1 # m + 1
          BY <3>2
        <4>2. g[n] = f[n] /\ g[n - 1] = f[n - 1]
          BY <4>1
        <4>3. f[n] = next_layer(T, f[n - 1])
          BY <4>1, <2>1
        <4> QED BY <4>1, <4>2, <4>3
      <3>3. CASE n = m + 1
        <4>1. g[n] = next_layer(T, f[m]) /\ g[n-1] = f[m]
          BY <3>3
        <4> QED BY <4>1, <3>3
      <3> QED BY <3>1, <3>2, <3>3
    <2>3. \E h : P(h, m + 1)
      <3> HIDE DEF P, g
      <3> QED BY <2>2
    <2> HIDE DEF P
    <2> QED BY <2>3
  <1>4. N \in S
    <2> HIDE DEF S, N
    <2> QED BY <1>1, <1>2, <1>3, SetInduction
  <1> DEFINE visited == CHOOSE f : P(f, N)
  <1>5. P(visited, N)
    <2>1. \E f : P(f, N)
      BY <1>4
    <2> HIDE DEF P, N
    <2> QED BY <2>1
  <1>6. bfs_reachable(start, T) = visited[N]
    BY DEF bfs_reachable, next_layer
  <1> QED BY <1>5, <1>6

\* The walk has the start, is closed under the transitions (each layer that is
\* not has one more stage with a row of transitions than the layer before it),
\* and is part of every closed set with the start.
LEMMA WalkIsClosed ==
  ASSUME NEW start, NEW T, IsFiniteSet(DOMAIN T)
  PROVE  /\ start \in bfs_reachable(start, T)
         /\ closed_under(T, bfs_reachable(start, T))
         /\ \A V : start \in V /\ closed_under(T, V) => bfs_reachable(start, T) \subseteq V
PROOF
  <1> DEFINE N == Cardinality(DOMAIN T)
  <1>1. N \in Nat
    BY FS_CardinalityType
  <1>2. PICK f : /\ f = [n \in 0 .. N |-> IF n = 0 THEN {start} ELSE next_layer(T, f[n - 1])]
                 /\ bfs_reachable(start, T) = f[N]
    BY Layers
  <1>3. f[0] = {start} /\ \A n \in Nat : n + 1 <= N => f[n + 1] = next_layer(T, f[n])
    <2>1. f[0] = {start}
      BY <1>1, <1>2
    <2>2. ASSUME NEW n \in Nat, n + 1 <= N PROVE f[n + 1] = next_layer(T, f[n])
      <3>1. n + 1 \in 0 .. N /\ n + 1 # 0 /\ (n + 1) - 1 = n
        BY <2>2, <1>1
      <3> QED BY <3>1, <1>2
    <2> QED BY <2>1, <2>2
  <1> HIDE DEF N
  <1>4. \A n \in Nat : n <= N => start \in f[n]
    <2> DEFINE S == {n \in Nat : n <= N => start \in f[n]}
    <2>1. 0 \in S
      BY <1>3
    <2>2. ASSUME NEW n \in Nat, n \in S PROVE n + 1 \in S
      BY <2>2, <1>1, <1>3 DEF next_layer
    <2>3. Nat \subseteq S
      <3> HIDE DEF S
      <3> QED BY <2>1, <2>2, SetInduction
    <2> QED BY <2>3
  <1>5. ASSUME NEW V, start \in V, closed_under(T, V)
        PROVE  f[N] \subseteq V
    <2> DEFINE S == {n \in Nat : n <= N => f[n] \subseteq V}
    <2>1. 0 \in S
      BY <1>3, <1>5
    <2>2. ASSUME NEW n \in Nat, n \in S PROVE n + 1 \in S
      <3> SUFFICES ASSUME n + 1 <= N PROVE f[n + 1] \subseteq V
        OBVIOUS
      <3>1. f[n] \subseteq V
        BY <2>2, <1>1
      <3>2. next_layer(T, f[n]) \subseteq V
        BY <3>1, <1>5 DEF next_layer, closed_under
      <3> QED BY <3>2, <1>3
    <2>3. Nat \subseteq S
      <3> HIDE DEF S
      <3> QED BY <2>1, <2>2, SetInduction
    <2> QED BY <2>3, <1>1
  <1>6. closed_under(T, f[N])
    <2> DEFINE E(n) == f[n] \cap DOMAIN T
               S == {n \in Nat : n <= N => closed_under(T, f[n]) \/ Cardinality(E(n)) >= n + 1}
    <2>1. \A n \in Nat : IsFiniteSet(E(n)) /\ Cardinality(E(n)) \in Nat /\ Cardinality(E(n)) <= N
      BY FS_Subset, FS_CardinalityType DEF N
    <2>2. 0 \in S
      <3>1. CASE start \in DOMAIN T
        <4>1. E(0) = {start}
          BY <3>1, <1>3
        <4> QED BY <4>1, FS_Singleton
      <3>2. CASE start \notin DOMAIN T
        BY <3>2, <1>3 DEF closed_under
      <3> QED BY <3>1, <3>2
    <2>3. ASSUME NEW n \in Nat, n \in S PROVE n + 1 \in S
      <3> SUFFICES ASSUME n + 1 <= N, ~closed_under(T, f[n + 1]) PROVE Cardinality(E(n + 1)) >= n + 2
        OBVIOUS
      <3>1. f[n + 1] = next_layer(T, f[n])
        BY <1>3
      <3>2. ~closed_under(T, f[n])
        BY <3>1 DEF next_layer, closed_under
      <3>3. Cardinality(E(n)) >= n + 1
        BY <3>2, <2>3, <1>1
      <3>4. E(n) \subseteq E(n + 1)
        BY <3>1 DEF next_layer
      <3>5. E(n) # E(n + 1)
        BY <3>1 DEF next_layer, closed_under
      <3>6. Cardinality(E(n)) < Cardinality(E(n + 1))
        <4> HIDE DEF E
        <4>1. n + 1 \in Nat
          OBVIOUS
        <4>2. IsFiniteSet(E(n + 1))
          BY <2>1, <4>1
        <4>3. E(n) \in SUBSET E(n + 1)
          BY <3>4
        <4>4. Cardinality(E(n)) <= Cardinality(E(n + 1)) /\ Cardinality(E(n)) # Cardinality(E(n + 1))
          <5> HIDE DEF E
          <5> QED BY <3>5, <4>2, <4>3, FS_Subset
        <4> QED BY <2>1, <4>1, <4>4
      <3> HIDE DEF E
      <3> QED BY <3>3, <3>6, <2>1
    <2>4. Nat \subseteq S
      <3> HIDE DEF S
      <3> QED BY <2>2, <2>3, SetInduction
    <2>5. Cardinality(E(N)) <= N
      BY <2>1, <1>1
    <2> HIDE DEF E
    <2> QED BY <2>1, <2>4, <2>5, <1>1
  <1> QED BY <1>1, <1>2, <1>4, <1>5, <1>6

\* What the walk visits is the smallest closed set with the start.
LEMMA WalkIsReachable ==
  ASSUME NEW start, NEW T, IsFiniteSet(DOMAIN T)
  PROVE  bfs_reachable(start, T) = Reachable(start, T)
PROOF
  <1> DEFINE moves == UNION {{s} \X T[s] : s \in DOMAIN T}
             all == {start} \cup {m[2] : m \in moves}
             closed == {S \in SUBSET all : start \in S /\ \A m \in moves : m[1] \in S => m[2] \in S}
             walk == bfs_reachable(start, T)
  <1>0. \A S : closed_under(T, S) <=> \A m \in moves : m[1] \in S => m[2] \in S
    <2>1. ASSUME NEW S, closed_under(T, S), NEW m \in moves, m[1] \in S PROVE m[2] \in S
      BY <2>1 DEF closed_under
    <2>2. ASSUME NEW S, \A m \in moves : m[1] \in S => m[2] \in S PROVE closed_under(T, S)
      <3> SUFFICES ASSUME NEW s \in S \cap DOMAIN T, NEW t \in T[s] PROVE t \in S
        BY DEF closed_under
      <3>1. <<s, t>> \in moves
        OBVIOUS
      <3> QED BY <2>2, <3>1
    <2> QED BY <2>1, <2>2
  <1>1. Reachable(start, T) = {x \in all : \A S \in closed : x \in S}
    BY DEF Reachable
  <1>2. /\ start \in walk /\ closed_under(T, walk)
        /\ \A V : start \in V /\ closed_under(T, V) => walk \subseteq V
    BY WalkIsClosed
  <1>3. start \in all /\ \A m \in moves : m[1] \in all => m[2] \in all
    OBVIOUS
  <1>4. walk \subseteq all
    <2> HIDE DEF moves, all, walk
    <2> QED BY <1>0, <1>2, <1>3
  <1>5. walk \in closed
    <2> HIDE DEF moves, all, walk
    <2> QED BY <1>0, <1>2, <1>4
  <1>6. \A S \in closed : walk \subseteq S
    <2> HIDE DEF moves, all, walk
    <2> QED BY <1>0, <1>2
  <1> HIDE DEF closed, all, walk
  <1> QED BY <1>1, <1>4, <1>5, <1>6 DEF walk

\* A domain has finitely many stages and transitions.
LEMMA TransitionsFinite ==
  ASSUME NEW rows, AreRows(rows)
  PROVE  IsFiniteSet(DOMAIN load_transitions(rows))
PROOF
  <1>1. ASSUME NEW t PROVE IsFiniteSet(Keys(rows, t))
    <2> DEFINE f == [r \in Table(rows, t) |-> r.key]
    <2>1. Keys(rows, t) = {f[r] : r \in Table(rows, t)}
      BY DEF Keys
    <2>2. Table(rows, t) \in SUBSET DOMAIN f /\ IsFiniteSet(Table(rows, t))
      BY FS_Subset DEF AreRows, Table
    <2> HIDE DEF f
    <2> QED BY <2>1, <2>2, FiniteImage
  <1> DEFINE moves == Keys(rows, "transition")
             from == [m \in moves |-> m[1]]
  <1>2. IsFiniteSet({from[m] : m \in moves})
    <2>1. IsFiniteSet(moves) /\ moves \in SUBSET DOMAIN from
      BY <1>1
    <2> HIDE DEF moves, from
    <2> QED BY <2>1, FiniteImage
  <1>3. DOMAIN load_transitions(rows) = Keys(rows, "stage") \cup {from[m] : m \in moves}
    BY DEF load_transitions
  <1> HIDE DEF moves, from
  <1> QED BY <1>1, <1>2, <1>3, FS_Union

\* Whatever tables the routes leave behind, the loader's walk over them finds
\* the stages that can be reached, dangling transitions and cycles included.
THEOREM LoaderWalksAll == PortalSpec => []LoadWalksAll
PROOF
  <1>1. PortalInv => LoadWalksAll
    <2> SUFFICES ASSUME PortalInv, NEW d \in Domains
                 PROVE  bfs_reachable(InitialStage, load_transitions(config[d]))
                          = Reachable(InitialStage, load_transitions(config[d]))
      BY DEF LoadWalksAll
    <2>1. IsFiniteSet(DOMAIN load_transitions(config[d]))
      BY TransitionsFinite DEF PortalInv, PortalTypeOK
    <2> QED BY <2>1, WalkIsReachable
  <1> QED BY <1>1, PortalKept, PTL
=============================================================================
