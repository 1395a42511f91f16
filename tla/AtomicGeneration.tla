-------------------------- MODULE AtomicGeneration --------------------------
(***************************************************************************)
(* What the package transaction of src/cli/package_transaction.fk promises *)
(* to a project nobody else edits: the pair (manifest, hangar.lock) is one *)
(* generation, replaced as a whole or not at all, whatever step fails and  *)
(* whenever the process or the machine stops.                              *)
(***************************************************************************)
CONSTANTS Generations, \* the generations a project may have
          None         \* no replacement is open

VARIABLES current,     \* the generation that every recovery yields
          open         \* the generation that may still replace it, or None

vars == <<current, open>>

TypeOK == /\ current \in Generations
          /\ open \in Generations \cup {None}

Init == current \in Generations /\ open = None

\* A command starts to replace the current generation.
Propose(g) == /\ open = None
              /\ open' = g
              /\ UNCHANGED current

\* The replacement takes effect at one point in time.
Commit == /\ open # None
          /\ current' = open
          /\ open' = None

\* The replacement is given up: an abort, a recovery or a crash.
Abandon == /\ open # None
           /\ open' = None
           /\ UNCHANGED current

Next == (\E g \in Generations : Propose(g)) \/ Commit \/ Abandon

Spec == Init /\ [][Next]_vars
=============================================================================
