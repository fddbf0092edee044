----------------------------- MODULE ConfigStore -----------------------------
(***************************************************************************)
(* The three write-through stores of the administrator's settings: the     *)
(* checkpoint rules (services/compliance/checkpoint_rule_repository.py),   *)
(* the validation prompts (services/validation/prompt_override_store.py)   *)
(* and the LLM overrides (services/llm/deterministic_controls_applier.py), *)
(* over the admin_config table (services/admin/admin_config_repository.py).*)
(*                                                                         *)
(* Every server process keeps a copy in memory and reads it alone; a       *)
(* change answers as soon as the copy of its own process has it, and       *)
(* starts a task that writes the row and tells nobody when it fails.       *)
(* Settings are functions from keys to values.                             *)
(***************************************************************************)
EXTENDS Functions, Naturals, TLC

CONSTANTS
    Processes,     \* the server processes
    Tasks,         \* the background writes
    Builtin        \* the default rules: rule_id -> action

ASSUME StoreAssumption == Processes # {} /\ DOMAIN Builtin # {}

VARIABLES
    cache,         \* store -> process -> settings
    admin_config,  \* store -> its row of the table, NoRow if there is none
    task,          \* task -> what it writes and how far it is
    behind,        \* store -> the processes others have changed the row of since they loaded it
    spoilt         \* the stores where a write failed, was lost or met another change

storeVars == <<cache, admin_config, task, behind, spoilt>>

Stores == {"rules", "prompts", "llm"}
Empty == [k \in {} |-> {}]
NoRow == [none |-> TRUE]
Free == [at |-> "free"]

\* load returns {} for no row; the rules alone then keep their defaults.
blob(r) == IF r = NoRow THEN Empty ELSE r
load_from_db(s, r) == IF s = "rules" /\ blob(r) = Empty THEN Builtin ELSE blob(r)

StoreInit ==
    /\ admin_config = [s \in Stores |-> NoRow]
    /\ cache = [s \in Stores |-> [p \in Processes |-> load_from_db(s, NoRow)]]
    /\ task = [t \in Tasks |-> Free]
    /\ behind = [s \in Stores |-> {}]
    /\ spoilt = {}

Pending(s) == {t \in Tasks : task[t] # Free /\ task[t].store = s}

-----------------------------------------------------------------------------
(* The changes.  Each is one step of its process, and queues one write.    *)

merge(f, g) == [k \in DOMAIN f \cup DOMAIN g |-> IF k \in DOMAIN g THEN g[k] ELSE f[k]]
put(f, k, v) == [j \in DOMAIN f \cup {k} |-> IF j = k THEN v ELSE f[j]]
without(f, k) == Restrict(f, DOMAIN f \ {k})

Change(p, s, value, op, arg) ==
    /\ \E t \in Tasks :
         /\ task[t] = Free
         /\ task' = [task EXCEPT ![t] = [at |-> "queued", store |-> s, proc |-> p, op |-> op,
                                         arg |-> arg, read |-> NoRow]]
    /\ cache' = [cache EXCEPT ![s][p] = value]
    /\ spoilt' = IF Pending(s) = {} THEN spoilt ELSE spoilt \cup {s}
    /\ UNCHANGED <<admin_config, behind>>

add_rule(p, id, action) ==
    /\ id \notin DOMAIN cache["rules"][p]
    /\ Change(p, "rules", put(cache["rules"][p], id, action), "save", Empty)

update_rule(p, id, action) ==
    /\ id \in DOMAIN cache["rules"][p]
    /\ Change(p, "rules", put(cache["rules"][p], id, action), "save", Empty)

remove_rule(p, id) ==
    /\ id \in DOMAIN cache["rules"][p] \ DOMAIN Builtin
    /\ Change(p, "rules", without(cache["rules"][p], id), "save", Empty)

reset_rules(p) == Change(p, "rules", Builtin, "clear", Empty)

set_prompt_override(p, category, text) ==
    Change(p, "prompts", put(cache["prompts"][p], category, text), "save", Empty)

reset_prompt_override(p, category) ==
    Change(p, "prompts", without(cache["prompts"][p], category), "delete", category)

set_overrides(p, updates) == Change(p, "llm", merge(cache["llm"][p], updates), "patch", updates)

clear_overrides(p) == Change(p, "llm", Empty, "clear", Empty)

-----------------------------------------------------------------------------
(* A write: the task starts and takes its payload, then reads the row,     *)
(* then commits.  Other tasks run between these.                           *)

Start(t) ==
    /\ task[t] # Free /\ task[t].at = "queued"
    /\ task' = [task EXCEPT ![t].at = "started",
                            ![t].arg = IF task[t].op = "save"
                                       THEN cache[task[t].store][task[t].proc] ELSE @]
    /\ UNCHANGED <<cache, admin_config, behind, spoilt>>

Read(t) ==
    /\ task[t] # Free /\ task[t].at = "started"
    /\ task' = [task EXCEPT ![t].at = "read", ![t].read = admin_config[task[t].store]]
    /\ UNCHANGED <<cache, admin_config, behind, spoilt>>

\* What the task makes of the row it has read.  (The first: a patch replaces it.)
written_whole(w) ==
    CASE w.op \in {"save", "patch"} -> w.arg
      [] w.op = "delete" -> without(blob(w.read), w.arg)
      [] w.op = "clear"  -> Empty
written(w) ==
    CASE w.op = "save"   -> w.arg
      [] w.op = "patch"  -> merge(blob(w.read), w.arg)
      [] w.op = "delete" -> without(blob(w.read), w.arg)
      [] w.op = "clear"  -> Empty

\* A new value equal to the one read is not sent; clear and delete leave a
\* missing row alone.
Sent(w) == IF w.read = NoRow THEN w.op \in {"save", "patch"} ELSE written(w) # w.read

Done(t, s, value, failed) ==
    /\ admin_config' = [admin_config EXCEPT ![s] = value]
    /\ behind' = IF value = admin_config[s] THEN behind
                 ELSE [behind EXCEPT ![s] = @ \cup (Processes \ {task[t].proc})]
    /\ spoilt' = IF failed THEN spoilt \cup {s} ELSE spoilt
    /\ task' = [task EXCEPT ![t] = Free]
    /\ UNCHANGED cache

\* An INSERT of a row that exists by now violates the primary key, and the
\* error is swallowed.
Write(t) ==
    /\ task[t] # Free /\ task[t].at = "read"
    /\ LET s == task[t].store
           conflict == task[t].read = NoRow /\ admin_config[s] # NoRow
       IN  IF Sent(task[t]) /\ ~conflict
           THEN Done(t, s, written(task[t]), FALSE)
           ELSE Done(t, s, admin_config[s], Sent(task[t]))

WriteFails(t) ==
    /\ task[t] # Free /\ task[t].at # "queued"
    /\ Done(t, task[t].store, admin_config[task[t].store], TRUE)

\* A process starts again: its tasks die with it, and it loads the rows.  A
\* row it fails to read counts as missing.
Restart(p, unread) ==
    LET lost == {t \in Tasks : task[t] # Free /\ task[t].proc = p}
        seen(s) == IF s \in unread THEN NoRow ELSE admin_config[s]
    IN  /\ cache' = [s \in Stores |-> [cache[s] EXCEPT ![p] = load_from_db(s, seen(s))]]
        /\ behind' = [s \in Stores |-> IF s \in unread THEN behind[s] \cup {p} ELSE behind[s] \ {p}]
        /\ spoilt' = spoilt \cup {task[t].store : t \in lost}
        /\ task' = [t \in Tasks |-> IF t \in lost THEN Free ELSE task[t]]
        /\ UNCHANGED admin_config

TaskStep == \E t \in Tasks : Start(t) \/ Read(t) \/ Write(t) \/ WriteFails(t)

\* The settings there can be with the given keys and values, and any change to
\* such settings.
SettingsOf(keys, values) == UNION {[K -> values] : K \in SUBSET keys}

StoreChange(keys, values) ==
    \/ \E p \in Processes, k \in keys, v \in values :
          \/ add_rule(p, k, v) \/ update_rule(p, k, v) \/ remove_rule(p, k) \/ reset_rules(p)
          \/ set_prompt_override(p, k, v) \/ reset_prompt_override(p, k)
    \/ \E p \in Processes, u \in SettingsOf(keys, values) : set_overrides(p, u) \/ clear_overrides(p)

StoreNext(keys, values) ==
    \/ StoreChange(keys, values) \/ TaskStep
    \/ \E p \in Processes, unread \in SUBSET Stores : Restart(p, unread)

StoreSpec(keys, values) == StoreInit /\ [][StoreNext(keys, values)]_storeVars

-----------------------------------------------------------------------------
(* Properties. *)

\* A copy that no longer agrees with what a restart would load has a cause:
\* a write is still under way, a write failed or met another change, the
\* process could not read the row when it started, or the row was written
\* from another process, which no copy is told of.  In the other cases
\* settings survive a restart of the server, as prompt_override_store.py
\* promises.
DivergenceHasCause ==
    \A s \in Stores : \A p \in Processes :
       \/ Pending(s) # {} \/ s \in spoilt \/ p \in behind[s]
       \/ cache[s][p] = load_from_db(s, admin_config[s])

-----------------------------------------------------------------------------
(* What makes it inductive. *)

WriteOf(keys, values) ==
    [at : {"queued", "started", "read"}, store : Stores, proc : Processes,
     op : {"save", "patch", "delete", "clear"}, arg : SettingsOf(keys, values) \cup keys,
     read : SettingsOf(keys, values) \cup {NoRow}]

StoreTypeOK(keys, values) ==
    /\ cache \in [Stores -> [Processes -> SettingsOf(keys, values)]]
    /\ admin_config \in [Stores -> SettingsOf(keys, values) \cup {NoRow}]
    /\ task \in [Tasks -> WriteOf(keys, values) \cup {Free}]
    /\ behind \in [Stores -> SUBSET Processes]
    /\ spoilt \subseteq Stores

\* What each store's changes ask of the table, and with what.
Ops == [rules |-> {"save", "clear"}, prompts |-> {"save", "delete"}, llm |-> {"patch", "clear"}]

OpsFit(keys, values) ==
    \A t \in Tasks : task[t] # Free =>
       /\ task[t].op \in Ops[task[t].store]
       /\ task[t].op = "delete" => task[t].arg \in keys
       /\ task[t].op # "delete" => task[t].arg \in SettingsOf(keys, values)

\* A built-in rule is never without: no copy, no row and no write lacks one.
BuiltinKept ==
    /\ \A p \in Processes : DOMAIN Builtin \subseteq DOMAIN cache["rules"][p]
    /\ admin_config["rules"] \in {NoRow, Empty} \/ DOMAIN Builtin \subseteq DOMAIN admin_config["rules"]
    /\ \A t \in Tasks :
          task[t] # Free /\ task[t].store = "rules" /\ task[t].op = "save" /\ task[t].at # "queued" =>
             DOMAIN Builtin \subseteq DOMAIN task[t].arg

\* What the row r will hold once a write is through; a save takes the copy as
\* it finds it.
leaves(w, copy, r) == IF w.op = "save" THEN copy ELSE written([w EXCEPT !.read = r])

\* While nothing is spoilt, one write at most is under way, what it has taken
\* is still current, and it brings the row to what the copy of its process says.
Agrees(s) ==
    /\ \A t, u \in Pending(s) : t = u
    /\ \A p \in Processes : \/ p \in behind[s] \/ \E t \in Pending(s) : task[t].proc = p
                            \/ cache[s][p] = load_from_db(s, admin_config[s])
    /\ \A t \in Pending(s) :
          /\ task[t].at = "read" => task[t].read = admin_config[s]
          /\ task[t].op = "save" /\ task[t].at # "queued" => task[t].arg = cache[s][task[t].proc]
          /\ task[t].proc \notin behind[s] =>
                cache[s][task[t].proc] = load_from_db(s, leaves(task[t], cache[s][task[t].proc], admin_config[s]))

StoreInv(keys, values) ==
    /\ StoreTypeOK(keys, values)
    /\ OpsFit(keys, values)
    /\ BuiltinKept
    /\ \A s \in Stores \ spoilt : Agrees(s)

=============================================================================
