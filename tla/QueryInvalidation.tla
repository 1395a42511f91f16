-------------------------- MODULE QueryInvalidation --------------------------
(***************************************************************************)
(* The work list behind one invalidation of the query cache, step by step: *)
(* v4_query_invalidate_dependents_at_generation of crate freak_query.      *)
(*                                                                         *)
(* QueryCache takes the whole call for one step, and the closure of the    *)
(* dependency graph for what it reaches.  Here the list grows while it is  *)
(* walked, over any graph a snapshot may have brought, cycles included.    *)
(* The inner loop walks the edges in the order they were recorded or       *)
(* restored in; the model lets it take them in any order.                  *)
(***************************************************************************)
EXTENDS QueryCache, Sequences

\* Both are of things that a process holds at some moment.
ASSUME FiniteAssumption == IsFiniteSet(Keys) /\ IsFiniteSet(Inputs)

VARIABLES
  graph,    \* the dependency graph, which the call only reads
  root,     \* the key whose dependents are invalidated
  was,      \* the table at the call
  table,    \* the table now
  work,     \* the keys to look at, and those that were
  seen,     \* the keys that were ever put on the list
  workId,   \* how far the list was walked; the code counts from 0
  visited,  \* the dependents of work[workId] that were looked at
  dirtied   \* the number of entries made dirty, which the call returns

vars == <<graph, root, was, table, work, seen, workId, visited, dirtied>>

Done == workId > Len(work)
Target == work[workId]

\* The answers of the keys that table t would still give.
Answers(t, keys) == {x \in Slots : x[1] \in keys /\ Hit(t, x)}

\* Mutant of Init: the root is on the list, but was not seen.
InitUnseen ==
  /\ graph \in Graph /\ root \in Keys
  /\ was \in Table /\ table = was
  /\ work = <<root>> /\ seen = {}
  /\ workId = 1 /\ visited = {} /\ dirtied = 0

Init ==
  /\ graph \in Graph /\ root \in Keys
  /\ was \in Table /\ table = was
  /\ work = <<root>> /\ seen = {root}
  /\ workId = 1 /\ visited = {} /\ dirtied = 0

\* Mutant of Visit: the dependent is dirtied, and not followed any further.
VisitOnly(dependent) ==
  /\ ~Done /\ <<dependent, Target>> \in graph /\ dependent \notin visited
  /\ table' = Dirtied(table, {dependent})
  /\ dirtied' = dirtied + Cardinality(Answers(table, {dependent}))
  /\ visited' = visited \cup {dependent}
  /\ UNCHANGED <<graph, root, was, work, seen, workId>>

\* Mutant of Visit: it counts keys, also those that were dirty already.
VisitCounted(dependent) ==
  /\ ~Done /\ <<dependent, Target>> \in graph /\ dependent \notin visited
  /\ table' = Dirtied(table, {dependent})
  /\ dirtied' = dirtied + 1
  /\ work' = IF dependent \in seen THEN work ELSE Append(work, dependent)
  /\ seen' = seen \cup {dependent}
  /\ visited' = visited \cup {dependent}
  /\ UNCHANGED <<graph, root, was, workId>>

\* One edge of the inner loop that leads to the target.
Visit(dependent) ==
  /\ ~Done /\ <<dependent, Target>> \in graph /\ dependent \notin visited
  /\ table' = Dirtied(table, {dependent})
  /\ dirtied' = dirtied + Cardinality(Answers(table, {dependent}))
  /\ work' = IF dependent \in seen THEN work ELSE Append(work, dependent)
  /\ seen' = seen \cup {dependent}
  /\ visited' = visited \cup {dependent}
  /\ UNCHANGED <<graph, root, was, workId>>

\* Mutant of Advance: the counter of the outer loop is not incremented.
AdvanceInPlace ==
  /\ ~Done /\ Dependents(graph, {Target}) \subseteq visited
  /\ visited' = {}
  /\ UNCHANGED <<graph, root, was, table, work, seen, workId, dirtied>>

\* The inner loop ends.
Advance ==
  /\ ~Done /\ Dependents(graph, {Target}) \subseteq visited
  /\ workId' = workId + 1
  /\ visited' = {}
  /\ UNCHANGED <<graph, root, was, table, work, seen, dirtied>>

Next == Advance \/ \E k \in Keys : Visit(k)

Spec == Init /\ [][Next]_vars
FairSpec == Spec /\ WF_vars(Next)
-----------------------------------------------------------------------------
(* Properties *)

TypeOK ==
  /\ graph \in Graph /\ root \in Keys
  /\ was \in Table /\ table \in Table
  /\ work \in Seq(Keys) /\ seen \subseteq Keys
  /\ workId \in 1..(Len(work) + 1) /\ visited \subseteq Keys

\* S holds k whenever it holds a key that k was computed from.
Closed(S) == Dependents(graph, S) \subseteq S

\* When the call returns, it has looked at the root and all that was computed
\* from it, directly or not, and at nothing else; of these, every answer but
\* that of a root nothing was computed back to is dirty, and no other entry
\* was touched.
ExactlyDependents ==
  Done => /\ root \in seen /\ Closed(seen)
          /\ \A S \in SUBSET Keys : root \in S /\ Closed(S) => seen \subseteq S
          /\ table = Dirtied(was, Dependents(graph, seen))

\* The call does what QueryCache takes for one step, and returns how many
\* answers it took away.
AsOneStep ==
  Done => /\ table = DependentsDirtied(was, graph, {root})
          /\ dirtied = Cardinality(Answers(was, Keys) \ Answers(table, Keys))

\* No key is put on the list twice, so that also a cyclic graph is walked in
\* as many rounds as it has keys.
NoKeyTwice == \A i, j \in DOMAIN work : work[i] = work[j] => i = j

\* The call returns, whatever the graph.
Terminates == <>Done
=============================================================================
