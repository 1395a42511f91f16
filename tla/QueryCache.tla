----------------------------- MODULE QueryCache -----------------------------
(***************************************************************************)
(* The memo table of the V4 compiler (crate freak_query): for a key and    *)
(* the fingerprint of its input, the arena slot that holds the result, and *)
(* the graph of which key was computed from which.                         *)
(*                                                                         *)
(* The code has the states valid and dirty; an entry that came from a      *)
(* snapshot is dirty too, but its last event says so, and only such an     *)
(* entry may be confirmed: here it is "restored".  Generations, the        *)
(* invalidation log and the telemetry only report, and are left out.       *)
(***************************************************************************)
EXTENDS Integers, FiniteSets

CONSTANTS Keys,   \* the query keys, <family, path> in the code
          Inputs, \* fingerprints of source texts
          Outputs,\* the numbers of arena slots
          None    \* no entry

Slots == Keys \X Inputs
Entry == [state : {"valid", "dirty", "restored"}, output : Outputs]
Table == [Slots -> Entry \cup {None}]
Graph == SUBSET (Keys \X Keys)   \* <<from, to>>: from was computed from to

Cold == [x \in Slots |-> None]

\* v4_query_get answers only from a valid entry.
Hit(table, x) == table[x] # None /\ table[x].state = "valid"

\* v4_query_get of xs that miss: an entry that was restored no longer is.
Missed(table, xs) ==
  [x \in Slots |-> IF x \in xs /\ table[x] # None /\ ~Hit(table, x)
                   THEN [table[x] EXCEPT !.state = "dirty"] ELSE table[x]]

\* v4_query_store of each output in new, a function from slots.
Stored(table, new) ==
  [x \in Slots |-> IF x \in DOMAIN new THEN [state |-> "valid", output |-> new[x]]
                   ELSE table[x]]

\* v4_query_mark_dirty_key_at_generation: an entry that is not valid, be it
\* restored, keeps its last event.
Dirtied(table, keys) ==
  [x \in Slots |-> IF x[1] \in keys /\ Hit(table, x)
                   THEN [table[x] EXCEPT !.state = "dirty"] ELSE table[x]]

Dependents(graph, keys) == UNION {{k \in Keys : <<k, to>> \in graph} : to \in keys}

\* Mutant: what was reached is not searched any further.
ReachedOnce(graph, roots) == roots

\* The work list of v4_query_invalidate_dependents_at_generation, started
\* from each of the roots; it enqueues a key once.
Reached(graph, roots) ==
  LET reach[n \in 0..Cardinality(Keys)] ==
        IF n = 0 THEN roots
        ELSE UNION {{to} \cup Dependents(graph, {to}) : to \in reach[n - 1]}
  IN reach[Cardinality(Keys)]

\* A root itself is dirtied only if something it depends on was reached.
DependentsDirtied(table, graph, roots) ==
  Dirtied(table, Dependents(graph, Reached(graph, roots)))

\* v4_query_snapshot_restore: every imported entry is dirty and restored.
Restored(table) ==
  [x \in Slots |-> IF table[x] = None THEN None
                   ELSE [table[x] EXCEPT !.state = "restored"]]

\* v4_query_confirm_entry_input for every entry whose promotion is allowed.
Confirmed(table, allowed) ==
  [x \in Slots |-> IF x \in allowed /\ table[x] # None /\ table[x].state = "restored"
                   THEN [table[x] EXCEPT !.state = "valid"] ELSE table[x]]
=============================================================================
