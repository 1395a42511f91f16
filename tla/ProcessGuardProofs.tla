------------------------- MODULE ProcessGuardProofs -------------------------
(***************************************************************************)
(* Proofs about the supervisors of ProcessGuard, for every set of process  *)
(* identifiers, every bound and every number of faults: the state keeps    *)
(* its types, the laboratory signals only what it has launched, and a call *)
(* that reports no failed cleanup leaves nothing of its tree behind; and   *)
(* what a call that ends well has captured is all that was written.        *)
(***************************************************************************)
EXTENDS ProcessGuard, TLAPS

Process == [st : {"run", "zombie", "free"}, grp : Pids, own : BOOLEAN]
Table == [Pids -> Process]

-----------------------------------------------------------------------------
(* Types.                                                                  *)

(* What the helpers make of a process table is one again. *)
LEMMA LeaderIsPid == Leader \in Pids
  BY DEF Pids

LEMMA FreeType == ASSUME NEW p \in Pids PROVE Free(p) \in Process
  BY DEF Free, Process

LEMMA AfterType ==
  ASSUME procs \in Table, NEW S
  PROVE  After(S) \in Table
<1>1. ASSUME NEW p \in Pids PROVE Ended(p) \in Process
  <2>1. procs[p] \in Process
    BY <1>1 DEF Table
  <2>2. [procs[p] EXCEPT !.st = "zombie"] \in Process
    BY <2>1 DEF Process
  <2> QED BY <1>1, <2>2, FreeType DEF Ended
<1> QED BY <1>1 DEF After, Table

LEMMA ReapType ==
  ASSUME NEW table \in Table
  PROVE  Reap(table) \in Table
  BY LeaderIsPid, FreeType DEF Reap, Table

LEMMA TypeInit == Init => TypeOK
<1> SUFFICES ASSUME Init PROVE TypeOK
  OBVIOUS
<1>1. procs \in Table
  BY FreeType, LeaderIsPid DEF Init, Table, Process
<1> QED BY <1>1, GuardAssumption DEF Init, TypeOK, Table, Process, Kinds

(* The steps of the tree, of the clock and of the capture thread. *)
LEMMA TypeTree ==
  ASSUME TypeOK, Tree \/ DeadlinePasses \/ ReadBlock \/ ReachEof
  PROVE  TypeOK'
<1> USE DEF TypeOK
<1>t. procs \in Table
  BY DEF Table, Process
<1>1. ASSUME NEW p \in Pids, NEW q \in Others, Fork(p, q) PROVE TypeOK'
  <2>1. procs[p].grp \in Pids
    BY <1>t DEF Table, Process
  <2>2. procs' \in Table
    BY <1>1, <1>t, <2>1 DEF Fork, Table, Process, Pids
  <2> QED BY <1>1, <2>2 DEF Fork, Table, Process, capture, watching, ending, outcome
<1>2. ASSUME NEW p \in Pids, Arrive(p) PROVE TypeOK'
  <2>2. procs' \in Table
    BY <1>2, <1>t DEF Arrive, Table, Process
  <2> QED BY <1>2, <2>2 DEF Arrive, Table, Process, capture, watching, ending, outcome
<1>3. ASSUME NEW p \in Pids, Exit(p) PROVE TypeOK'
  <2>2. procs' \in Table
    BY <1>3, <1>t, AfterType DEF Exit
  <2>3. heavy' \in BOOLEAN
    BY <1>3 DEF Exit
  <2>4. UNCHANGED <<kind, deadline, written, escaped, capture, pc, watching, ending, outcome, faults>>
    BY <1>3 DEF Exit
  <2> QED BY <2>2, <2>3, <2>4 DEF Table, Process, capture, watching, ending, outcome
<1>4. ASSUME NEW p \in Pids, Detach(p) PROVE TypeOK'
  <2>2. procs' \in Table
    BY <1>4, <1>t DEF Detach, Table, Process
  <2>3. heavy' \in BOOLEAN
    BY <1>4 DEF Detach
  <2> QED BY <1>4, <2>2, <2>3 DEF Detach, Table, Process, capture, watching, ending, outcome
<1>5. ASSUME NEW p \in Pids, Write(p) PROVE TypeOK'
  BY <1>5 DEF Write, capture, watching, ending, outcome
<1>6. ASSUME NEW p \in Pids, Grow(p) PROVE TypeOK'
  BY <1>6 DEF Grow, capture, watching, ending, outcome
<1>7. CASE DeadlinePasses
  BY <1>7 DEF DeadlinePasses, tree, capture, watching, ending, outcome
<1>8. CASE ReadBlock
  BY <1>8 DEF ReadBlock, tree, watching, ending, outcome
<1>9. CASE ReachEof
  BY <1>9 DEF ReachEof, tree, watching, ending, outcome
<1> QED BY <1>1, <1>2, <1>3, <1>4, <1>5, <1>6, <1>7, <1>8, <1>9 DEF Tree

(* A sample of the container's memory is a truth value. *)
LEMMA SampleType == TypeOK /\ Sample => peak' \in BOOLEAN
  BY DEF TypeOK, Sample, Over

LEMMA TrippedType == Tripped \in {"none", "timeout", "memory", "output"}
  BY DEF Tripped, Found, OutputBound, MemoryBound

(* The steps of a supervisor. *)
LEMMA TypeSupervise ==
  ASSUME TypeOK, QueryRetires \/ LaunchAbandoned \/ Interrupted \/ Supervise
  PROVE  TypeOK'
<1> USE DEF TypeOK
<1>t. procs \in Table
  BY DEF Table, Process
<1>m. After(Members) \in Table /\ After({Leader}) \in Table
  BY <1>t, AfterType
<1>r. Reap(procs) \in Table
  BY <1>t, ReapType
<1>1. CASE QueryRetires
  BY <1>1 DEF QueryRetires, tree, capture, watching, outcome
<1>2. CASE Interrupted
  BY <1>2 DEF Interrupted, tree, outcome
<1>3. CASE WatchLimit
  <2>a. peak' = (peak \/ Tripped = "memory") \/ peak' = peak
    BY <1>3 DEF WatchLimit
  <2>b. peak' \in BOOLEAN
    BY <2>a, Zenon
  <2>c. cause' = Tripped \/ cause' = "memory"
    BY <1>3 DEF WatchLimit
  <2>1. /\ cause' \in {"none", "timeout", "memory", "output"} /\ peak' \in BOOLEAN
        /\ faults' \in Nat /\ pc' = "signal"
    BY <1>3, <2>b, <2>c, TrippedType DEF WatchLimit
  <2>2. UNCHANGED <<kind, procs, heavy, written, escaped, deadline, drained, reader, reaped, handle,
                    attempt, signalled, refused, closed, broken, strangerHit, result, verdict>>
    BY <1>3 DEF WatchLimit, tree, capture, ending, outcome
  <2> QED BY <2>1, <2>2
<1>4. CASE WatchExit
  <2>1. procs' \in Table
    BY <1>4, <1>t, <1>r DEF WatchExit
  <2> QED BY <1>4, <2>1 DEF WatchExit, CollectsAtExit, Table, Process, capture, outcome
<1>5. CASE SignalGroup
  <2>1. procs' \in Table
    BY <1>5, <1>m DEF SignalGroup
  <2> QED BY <1>5, <2>1, SampleType DEF SignalGroup, Table, Process, capture, outcome
<1>6. CASE SignalRefused
  <2>1. procs' \in Table
    BY <1>6, <1>t, <1>m, <1>r DEF SignalRefused
  <2>2. attempt' \in {1, 2} /\ pc' \in {"signal", "fallback", "reap"}
    BY <1>6 DEF SignalRefused, NextAttempt
  <2>3. peak' \in BOOLEAN /\ reaped' \in BOOLEAN
    BY <1>6, SampleType DEF SignalRefused, Zombie
  <2>4. faults' \in Nat /\ handle' \in {"open", "retired", "closed"}
    BY <1>6 DEF SignalRefused
  <2> QED BY <1>6, <2>1, <2>2, <2>3, <2>4 DEF SignalRefused, Table, Process, capture, outcome
<1>7. CASE ReapLeader
  <2>1. procs' \in Table
    BY <1>7, <1>t, <1>r DEF ReapLeader
  <2> QED BY <1>7, <2>1 DEF ReapLeader, Table, Process, capture, watching, outcome
<1>8. CASE ReapExpires
  <2>1. pc' \in {"drain", "signal", "fallback"} /\ attempt' \in {1, 2} /\ broken' \in BOOLEAN
    BY <1>8 DEF ReapExpires, NextAttempt
  <2>2. faults' \in Nat
    BY <1>8 DEF ReapExpires
  <2> QED BY <1>8, <2>1, <2>2 DEF ReapExpires, tree, capture, watching, outcome
<1>9. CASE CloseTree
  <2>1. procs' \in Table
    BY <1>9, <1>t, <1>m DEF CloseTree
  <2> QED BY <1>9, <2>1, SampleType DEF CloseTree, Table, Process, capture, outcome
<1>10. CASE CloseRefused
  BY <1>10 DEF CloseRefused, NextAttempt, tree, capture, watching, outcome
<1>11. CASE Fallback
  <2>1. procs' \in Table
    BY <1>11, <1>t, AfterType, ReapType DEF Fallback
  <2>2. faults' \in Nat /\ handle' \in {"open", "retired", "closed"} /\ reaped' \in BOOLEAN
        /\ closed' \in BOOLEAN
    BY <1>11 DEF Fallback, TreeClosed
  <2>3. peak' \in BOOLEAN
    BY <1>11, SampleType DEF Fallback
  <2>4. UNCHANGED <<kind, heavy, deadline, written, escaped, capture, cause, attempt, signalled, refused,
                    strangerHit, outcome>> /\ broken' = TRUE /\ pc' = "drain"
    BY <1>11 DEF Fallback
  <2> QED BY <2>1, <2>2, <2>3, <2>4 DEF Table, Process, capture, outcome
<1>12. CASE Joined
  BY <1>12 DEF Joined, tree, capture, watching, ending, outcome
<1>13. CASE JoinExpires
  BY <1>13 DEF JoinExpires, tree, watching, outcome
<1>14. CASE Judge
  BY <1>14 DEF Judge, tree, capture, watching, ending
<1>15. CASE StartCapture
  BY <1>15 DEF StartCapture, tree, watching, ending, outcome
<1>16. CASE StartWatching
  <2>1. peak' \in BOOLEAN
    BY <1>16, SampleType DEF StartWatching
  <2> QED BY <1>16, <2>1 DEF StartWatching, tree, capture, ending, outcome
<1>17. CASE LaunchAbandoned
  BY <1>17 DEF LaunchAbandoned, tree, capture, ending
<1> QED BY <1>1, <1>2, <1>3, <1>4, <1>5, <1>6, <1>7, <1>8, <1>9, <1>10, <1>11, <1>12, <1>13, <1>14,
          <1>15, <1>16, <1>17 DEF Supervise

(* The state of the supervisors, of the tree and of the capture keeps its
   types in every run. *)
THEOREM TypeCorrect == Spec => []TypeOK
<1>1. TypeOK /\ [Next]_vars => TypeOK'
  <2> SUFFICES ASSUME TypeOK, [Next]_vars PROVE TypeOK'
    OBVIOUS
  <2>1. CASE Next
    BY <2>1, TypeTree, TypeSupervise DEF Next
  <2>2. CASE UNCHANGED vars
    BY <2>2 DEF vars, tree, capture, watching, ending, outcome, TypeOK
  <2> QED BY <2>1, <2>2
<1> QED BY <1>1, TypeInit, PTL DEF Spec

-----------------------------------------------------------------------------
(* Most steps end processes and start none.                                *)

Shrinks == kind' = kind /\ \A p \in Pids : procs'[p].st = "run" => procs'[p] = procs[p]

(* A process that runs after an end of processes is none of them. *)
LEMMA AfterRuns ==
  ASSUME procs \in Table, NEW S, NEW p \in Pids, After(S)[p].st = "run"
  PROVE  p \notin S /\ After(S)[p] = procs[p]
<1>1. Ended(p).st # "run"
  BY DEF Ended, Free, Table, Process
<1> QED BY <1>1 DEF After

LEMMA ReapRuns ==
  ASSUME NEW table \in Table, NEW p \in Pids, Reap(table)[p].st = "run"
  PROVE  Reap(table)[p] = table[p]
  BY LeaderIsPid DEF Reap, Free, Table, Process

(* A supervisor starts no process, and neither do the clock, the capture
   thread, an end of a process, output or growth. *)
LEMMA SuperviseShrinks ==
  ASSUME TypeOK, QueryRetires \/ LaunchAbandoned \/ Interrupted \/ Supervise
  PROVE  Shrinks
<1>t. procs \in Table
  BY DEF TypeOK, Table, Process
<1>1. CASE procs' = procs
  BY <1>1 DEF Shrinks, QueryRetires, LaunchAbandoned, Interrupted, Supervise, StartCapture,
    StartWatching, WatchLimit, WatchExit, SignalGroup, SignalRefused, ReapLeader, ReapExpires,
    CloseTree, CloseRefused, Fallback, Joined, JoinExpires, Judge
<1>2. CASE WatchExit
  BY <1>2, <1>t, ReapRuns DEF WatchExit, Shrinks
<1>3. CASE SignalGroup
  BY <1>3, <1>t, AfterRuns DEF SignalGroup, Shrinks
<1>4. CASE SignalRefused
  BY <1>4, <1>t, AfterRuns, ReapRuns DEF SignalRefused, Shrinks
<1>5. CASE ReapLeader
  BY <1>5, <1>t, ReapRuns DEF ReapLeader, Shrinks
<1>6. CASE CloseTree
  BY <1>6, <1>t, AfterRuns DEF CloseTree, Shrinks
<1>7. CASE Fallback
  <2>1. PICK S : procs' = After(S) \/ procs' = Reap(After(S))
    BY <1>7 DEF Fallback
  <2>2. ASSUME NEW p \in Pids, procs'[p].st = "run" PROVE procs'[p] = procs[p]
    <3>1. After(S) \in Table
      BY <1>t, AfterType
    <3>2. procs'[p] = After(S)[p]
      BY <2>1, <2>2, <3>1, ReapRuns
    <3> QED BY <2>2, <3>2, <1>t, AfterRuns
  <2> QED BY <1>7, <2>2 DEF Fallback, Shrinks
<1>8. \/ procs' = procs
      \/ WatchExit \/ SignalGroup \/ SignalRefused \/ ReapLeader \/ CloseTree \/ Fallback
  BY DEF QueryRetires, LaunchAbandoned, Interrupted, Supervise, StartCapture, StartWatching,
    WatchLimit, ReapExpires, CloseRefused, Joined, JoinExpires, Judge, tree
<1> QED BY <1>1, <1>2, <1>3, <1>4, <1>5, <1>6, <1>7, <1>8

LEMMA TreeShrinks ==
  ASSUME TypeOK,
         \/ DeadlinePasses \/ ReadBlock \/ ReachEof
         \/ \E p \in Pids : Exit(p) \/ Write(p) \/ Grow(p)
  PROVE  Shrinks
<1>t. procs \in Table
  BY DEF TypeOK, Table, Process
<1>1. ASSUME NEW p \in Pids, Exit(p) PROVE Shrinks
  BY <1>1, <1>t, AfterRuns DEF Exit, Shrinks
<1>2. CASE DeadlinePasses \/ ReadBlock \/ ReachEof \/ \E p \in Pids : Write(p) \/ Grow(p)
  BY <1>2 DEF DeadlinePasses, ReadBlock, ReachEof, Write, Grow, tree, Shrinks
<1> QED BY <1>1, <1>2

-----------------------------------------------------------------------------
(* The laboratory's own signals.  Until it has signalled its group the     *)
(* leader is unreaped, so its number is still its own; and a stranger is   *)
(* never in a group but the one of its own number.                         *)

OwnGroup == \A p \in Pids : Running(p) /\ ~Own(p) => procs[p].grp = p
LeaderPinned ==
  kind = "lab" /\ pc \in {"launch", "watch", "signal"} =>
    ~reaped /\ Own(Leader) /\ procs[Leader].st # "free"
Pinned == OwnGroup /\ LeaderPinned /\ SignalsOnlyItsOwn

LEMMA OwnGroupStep ==
  ASSUME TypeOK, OwnGroup, [Next]_vars
  PROVE  OwnGroup'
<1>t. procs \in Table
  BY DEF TypeOK, Table, Process
<1>1. CASE Shrinks
  BY <1>1 DEF Shrinks, OwnGroup, Running, Own
<1>2. ASSUME NEW p \in Pids, NEW q \in Others, Fork(p, q) PROVE OwnGroup'
  BY <1>2, <1>t DEF Fork, OwnGroup, Running, Own, Table, Process
<1>3. ASSUME NEW p \in Pids, Arrive(p) PROVE OwnGroup'
  BY <1>3, <1>t DEF Arrive, OwnGroup, Running, Own, Table, Process
<1>4. ASSUME NEW p \in Pids, Detach(p) PROVE OwnGroup'
  BY <1>4, <1>t DEF Detach, OwnGroup, Running, Own, Table, Process
<1>5. CASE UNCHANGED vars
  BY <1>5 DEF vars, tree, OwnGroup, Running, Own
<1> QED BY <1>1, <1>2, <1>3, <1>4, <1>5, SuperviseShrinks, TreeShrinks DEF Next, Tree

(* The leader keeps its place in the process table while nobody reaps it. *)
LEMMA PinnedTree ==
  ASSUME TypeOK, LeaderPinned, Tree \/ DeadlinePasses \/ ReadBlock \/ ReachEof
  PROVE  LeaderPinned'
<1> USE LeaderIsPid
<1>t. procs \in Table
  BY DEF TypeOK, Table, Process
<1>1. ASSUME NEW p \in Pids, NEW q \in Others, Fork(p, q) PROVE LeaderPinned'
  <2>1. q # Leader
    BY GuardAssumption
  <2>2. procs'[Leader] = procs[Leader]
    BY <1>1, <2>1, <1>t DEF Fork, Table
  <2> QED BY <1>1, <2>2 DEF Fork, LeaderPinned, Own, ending
<1>2. ASSUME NEW p \in Pids, Arrive(p) PROVE LeaderPinned'
  BY <1>2, <1>t DEF Arrive, Available, LeaderPinned, Own, ending, Table
<1>3. ASSUME NEW p \in Pids, Exit(p) PROVE LeaderPinned'
  <2>1. procs'[Leader] = IF Leader = p THEN Ended(Leader) ELSE procs[Leader]
    BY <1>3 DEF Exit, After
  <2> QED BY <1>3, <2>1, <1>t DEF Exit, Ended, LeaderPinned, Own, Free, ending, Table, Process
<1>4. ASSUME NEW p \in Pids, Detach(p) PROVE LeaderPinned'
  <2>1. procs'[Leader] = procs[Leader]
    BY <1>4, <1>t DEF Detach, Table
  <2> QED BY <1>4, <2>1 DEF Detach, LeaderPinned, Own, ending
<1>5. ASSUME NEW p \in Pids, Write(p) \/ Grow(p) PROVE LeaderPinned'
  BY <1>5 DEF Write, Grow, LeaderPinned, Own, ending
<1>6. CASE DeadlinePasses \/ ReadBlock \/ ReachEof
  BY <1>6 DEF DeadlinePasses, ReadBlock, ReachEof, LeaderPinned, Own, ending, tree
<1> QED BY <1>1, <1>2, <1>3, <1>4, <1>5, <1>6 DEF Tree

(* The supervisor reaps it only once it has signalled the group. *)
LEMMA PinnedSupervise ==
  ASSUME TypeOK, LeaderPinned, QueryRetires \/ LaunchAbandoned \/ Interrupted \/ Supervise
  PROVE  LeaderPinned'
<1> USE DEF LeaderPinned, Own
<1>1. CASE QueryRetires
  BY <1>1 DEF QueryRetires, tree
<1>2. CASE Interrupted
  <2>1. kind = "lab" /\ pc' \in {"launch", "watch", "signal"} => pc = "watch"
    BY <1>2 DEF Interrupted, Checked
  <2> QED BY <1>2, <2>1 DEF Interrupted, tree
<1>3. CASE WatchLimit
  BY <1>3 DEF WatchLimit, tree, ending
<1>4. CASE WatchExit
  BY <1>4 DEF WatchExit, CollectsAtExit
<1>5. CASE SignalRefused
  <2>1. kind = "lab" => pc' = "reap"
    BY <1>5 DEF SignalRefused, Checked
  <2> QED BY <1>5, <2>1 DEF SignalRefused
<1>6. CASE ReapLeader
  <2>1. kind = "lab" => pc' = "drain"
    BY <1>6 DEF ReapLeader
  <2> QED BY <1>6, <2>1 DEF ReapLeader
<1>7. CASE ReapExpires
  <2>1. kind = "lab" => pc' = "drain"
    BY <1>7 DEF ReapExpires
  <2> QED BY <1>7, <2>1 DEF ReapExpires
<1>8. CASE CloseRefused
  BY <1>8 DEF CloseRefused
<1>9. CASE SignalGroup \/ CloseTree \/ Fallback \/ Joined \/ JoinExpires \/ Judge
  BY <1>9 DEF SignalGroup, CloseTree, Fallback, Joined, JoinExpires, Judge
<1>10. CASE StartCapture \/ StartWatching \/ LaunchAbandoned
  BY <1>10 DEF StartCapture, StartWatching, LaunchAbandoned, tree, ending
<1> QED BY <1>1, <1>2, <1>3, <1>4, <1>5, <1>6, <1>7, <1>8, <1>9, <1>10 DEF Supervise

(* So whoever is in the group of the leader's number when it is signalled has
   been launched. *)
LEMMA NoStrangerInGroup ==
  ASSUME TypeOK, OwnGroup, LeaderPinned, kind = "lab", pc = "signal"
  PROVE  Members = Survivors
<1>1. ASSUME NEW p \in Members PROVE Own(p)
  <2>1. p \in Pids /\ Running(p) /\ procs[p].grp = Leader
    BY <1>1 DEF Members
  <2> QED BY <2>1, LeaderIsPid DEF OwnGroup, LeaderPinned
<1> QED BY <1>1 DEF Survivors

LEMMA SignalStep ==
  ASSUME TypeOK, Pinned, [Next]_vars
  PROVE  SignalsOnlyItsOwn'
<1>1. CASE SignalGroup
  BY <1>1, NoStrangerInGroup DEF SignalGroup, Pinned, SignalsOnlyItsOwn
<1>2. CASE ~SignalGroup
  <2>1. strangerHit' = strangerHit /\ kind' = kind
    BY <1>2 DEF Next, Tree, Fork, Arrive, Exit, Detach, Write, Grow, DeadlinePasses, ReadBlock,
      ReachEof, QueryRetires, LaunchAbandoned, Interrupted, Supervise, StartCapture, StartWatching,
      WatchLimit, WatchExit, SignalRefused, ReapLeader, ReapExpires, CloseTree, CloseRefused,
      Fallback, Joined, JoinExpires, Judge, vars, ending
  <2> QED BY <2>1 DEF Pinned, SignalsOnlyItsOwn
<1> QED BY <1>1, <1>2

(* The laboratory never signals a process it has not launched, however
   process identifiers are given out again. *)
THEOREM OnlyOwnSignalled == Spec => []SignalsOnlyItsOwn
<1>1. Init => Pinned
  BY LeaderIsPid DEF Init, Pinned, OwnGroup, LeaderPinned, SignalsOnlyItsOwn, Running, Own, Free
<1>2. TypeOK /\ Pinned /\ [Next]_vars => Pinned'
  <2> SUFFICES ASSUME TypeOK, Pinned, [Next]_vars PROVE Pinned'
    OBVIOUS
  <2>1. LeaderPinned'
    <3>1. CASE UNCHANGED vars
      BY <3>1 DEF vars, tree, ending, Pinned, LeaderPinned, Own
    <3>2. CASE Next
      BY <3>2, PinnedTree, PinnedSupervise DEF Next, Pinned
    <3> QED BY <3>1, <3>2
  <2> QED BY <2>1, OwnGroupStep, SignalStep DEF Pinned
<1> QED BY <1>1, <1>2, TypeCorrect, PTL DEF Spec, Pinned

-----------------------------------------------------------------------------
(* What is over before the call ends.  Gone says that no launched process   *)
(* runs in the container; once it is so it stays so, since what is not in   *)
(* the container cannot put a process there.                                *)

Held(p) == Running(p) /\ Own(p) /\ (kind = "job" \/ procs[p].grp = Leader)
Gone == \A p \in Pids : ~Held(p)

(* Why a call may end without having reported a failed cleanup. *)
Accounted ==
  \/ closed \/ signalled
  \/ kind = "campaign" /\ refused
  \/ kind # "lab" /\ pc \in {"judge", "done"} /\ cause = "abandoned"

Cleaned ==
  /\ signalled => Gone
  /\ closed => Gone
  /\ pc \in {"close", "fallback"} => Checked
  /\ Checked /\ pc \in {"reap", "close"} => signalled
  /\ pc \in {"drain", "judge"} /\ ~broken => Accounted
  /\ kind = "lab" /\ pc = "reap" /\ ~broken => signalled
  /\ kind = "campaign" /\ pc = "reap" => signalled \/ refused
  /\ pc # "done" => verdict = "none"
  /\ pc = "done" /\ verdict \notin {"cleanup", "unguarded"} => Accounted

LEMMA SurvivorsGone == Survivors = {} <=> Gone
  BY DEF Survivors, Members, Gone, Held

LEMMA GoneStep ==
  ASSUME TypeOK, Gone, [Next]_vars
  PROVE  Gone'
<1>t. procs \in Table
  BY DEF TypeOK, Table, Process
<1>1. CASE Shrinks
  BY <1>1 DEF Shrinks, Gone, Held, Running, Own
<1>2. ASSUME NEW p \in Pids, NEW q \in Others, Fork(p, q) PROVE Gone'
  BY <1>2, <1>t DEF Fork, Gone, Held, Running, Own, Table, Process
<1>3. ASSUME NEW p \in Pids, Arrive(p) PROVE Gone'
  BY <1>3, <1>t DEF Arrive, Gone, Held, Running, Own, Table, Process
<1>4. ASSUME NEW p \in Pids, Detach(p) PROVE Gone'
  BY <1>4, <1>t DEF Detach, Gone, Held, Running, Own, Table, Process
<1>5. CASE UNCHANGED vars
  BY <1>5 DEF vars, tree, Gone, Held, Running, Own
<1> QED BY <1>1, <1>2, <1>3, <1>4, <1>5, SuperviseShrinks, TreeShrinks DEF Next, Tree

(* Ending everything in the container leaves it empty. *)
LEMMA EndedMembersGone ==
  ASSUME TypeOK, kind' = kind, procs' = After(Members)
  PROVE  Gone'
<1>1. procs \in Table
  BY DEF TypeOK, Table, Process
<1>2. ASSUME NEW p \in Pids, procs'[p].st = "run" PROVE ~Held(p)'
  <2>1. p \notin Members /\ procs'[p] = procs[p]
    BY <1>1, <1>2, AfterRuns
  <2> QED BY <2>1 DEF Members, Held, Running, Own
<1> QED BY <1>2 DEF Gone, Held, Running

(* Closing the job in the fallback leaves it empty too. *)
LEMMA FallbackGone ==
  ASSUME TypeOK, signalled => Gone, kind \in {"check", "job"}, Fallback, closed'
  PROVE  Gone'
<1>t. procs \in Table
  BY DEF TypeOK, Table, Process
<1>s. Shrinks
  BY SuperviseShrinks DEF Supervise
<1>1. CASE signalled
  BY <1>1, GoneStep DEF Next, Supervise
<1>2. CASE ~signalled
  <2>1. kind = "job"
    BY <1>2 DEF Fallback, TreeClosed
  <2>2. PICK S : Members \subseteq S /\ (procs' = After(S) \/ procs' = Reap(After(S)))
    BY <2>1 DEF Fallback, TreeClosed
  <2>3. ASSUME NEW p \in Pids, procs'[p].st = "run" PROVE ~Held(p)'
    <3>1. After(S) \in Table
      BY <1>t, AfterType
    <3>2. procs'[p] = After(S)[p]
      BY <2>2, <2>3, <3>1, ReapRuns
    <3>3. p \notin Members /\ procs'[p] = procs[p]
      BY <2>2, <2>3, <3>2, <1>t, AfterRuns
    <3> QED BY <3>3, <1>s DEF Members, Held, Running, Own, Shrinks
  <2> QED BY <2>3 DEF Gone, Held, Running
<1> QED BY <1>1, <1>2

(* The steps of the tree, the clock and the capture thread change none of
   the supervisor's own state. *)
LEMMA CleanedTree ==
  ASSUME TypeOK, Cleaned, Tree \/ DeadlinePasses \/ ReadBlock \/ ReachEof
  PROVE  Cleaned'
<1>1. Gone => Gone'
  BY GoneStep DEF Next
<1>2. UNCHANGED <<kind, pc, watching, ending, outcome>>
  BY DEF Tree, Fork, Arrive, Exit, Detach, Write, Grow, DeadlinePasses, ReadBlock, ReachEof
<1> QED BY <1>1, <1>2 DEF Cleaned, Accounted, Checked, watching, ending, outcome

LEMMA CleanedSupervise ==
  ASSUME TypeOK, Cleaned, QueryRetires \/ LaunchAbandoned \/ Interrupted \/ Supervise
  PROVE  Cleaned'
<1> USE DEF Cleaned, Accounted, Checked
<1>g. Gone => Gone'
  BY GoneStep DEF Next
<1>k. kind \in {"check", "job", "campaign", "lab"}
  BY DEF TypeOK, Kinds
<1>1. CASE QueryRetires
  BY <1>1, <1>g DEF QueryRetires, outcome
<1>2. CASE Interrupted
  BY <1>2, <1>g, <1>k DEF Interrupted, outcome
<1>3. CASE WatchLimit
  BY <1>3, <1>g DEF WatchLimit, ending, outcome
<1>4. CASE WatchExit
  BY <1>4, <1>g DEF WatchExit, outcome
<1>5. CASE SignalGroup
  <2>1. Gone'
    BY <1>5, EndedMembersGone DEF SignalGroup
  <2> QED BY <1>5, <2>1 DEF SignalGroup, outcome
<1>6. CASE SignalRefused
  <2>1. Checked => pc' \in {"signal", "fallback"}
    BY <1>6 DEF SignalRefused, NextAttempt
  <2>2. ~Checked => pc' = "reap"
    BY <1>6 DEF SignalRefused
  <2>3. refused' /\ broken' = (broken \/ kind = "lab")
        /\ UNCHANGED <<kind, cause, signalled, closed, outcome>> /\ pc = "signal"
    BY <1>6 DEF SignalRefused
  <2> QED BY <1>g, <2>1, <2>2, <2>3 DEF outcome
<1>7. CASE ReapLeader
  BY <1>7, <1>g, <1>k DEF ReapLeader, watching, outcome
<1>8. CASE ReapExpires
  <2>1. kind # "campaign" /\ (kind = "lab" => pc' = "drain" /\ broken')
        /\ (Checked => pc' \in {"signal", "fallback"} /\ broken' = broken)
    BY <1>8 DEF ReapExpires, NextAttempt
  <2>2. UNCHANGED <<kind, watching, signalled, refused, closed, outcome>> /\ pc = "reap"
    BY <1>8 DEF ReapExpires
  <2> QED BY <1>g, <1>k, <2>1, <2>2 DEF watching, outcome
<1>9. CASE CloseTree
  <2>1. Gone'
    <3>1. CASE kind = "job"
      BY <1>9, <3>1, EndedMembersGone DEF CloseTree
    <3>2. CASE kind # "job"
      BY <1>9, <1>g, <3>2 DEF CloseTree
    <3> QED BY <3>1, <3>2
  <2> QED BY <1>9, <2>1 DEF CloseTree, outcome
<1>10. CASE CloseRefused
  <2>1. pc' \in {"signal", "fallback"}
    BY <1>10 DEF CloseRefused, NextAttempt
  <2> QED BY <1>10, <1>g, <2>1 DEF CloseRefused, watching, outcome
<1>11. CASE Fallback
  <2>1. closed' => Gone'
    <3>1. kind \in {"check", "job"}
      BY <1>11 DEF Fallback
    <3> QED BY <1>11, <3>1, FallbackGone
  <2>2. broken' = TRUE /\ pc' = "drain" /\ pc = "fallback"
        /\ UNCHANGED <<kind, cause, signalled, refused, outcome>>
    BY <1>11 DEF Fallback
  <2> QED BY <1>g, <2>1, <2>2 DEF outcome
<1>12. CASE Joined
  BY <1>12, <1>g DEF Joined, watching, ending, outcome
<1>13. CASE JoinExpires
  BY <1>13, <1>g DEF JoinExpires, watching, outcome
<1>14. CASE Judge
  <2>1. broken => verdict' = "cleanup"
    BY <1>14 DEF Judge
  <2>2. pc = "judge" /\ pc' = "done" /\ UNCHANGED <<kind, watching, ending>>
    BY <1>14 DEF Judge
  <2> QED BY <1>g, <2>1, <2>2 DEF watching, ending
<1>15. CASE StartCapture \/ StartWatching
  BY <1>15, <1>g DEF StartCapture, StartWatching, watching, ending, outcome
<1>16. CASE LaunchAbandoned
  BY <1>16, <1>g DEF LaunchAbandoned, ending
<1> QED BY <1>1, <1>2, <1>3, <1>4, <1>5, <1>6, <1>7, <1>8, <1>9, <1>10, <1>11, <1>12, <1>13, <1>14,
          <1>15, <1>16 DEF Supervise

LEMMA CleanedInvariant == Spec => []Cleaned
<1>1. Init => Cleaned
  BY DEF Init, Cleaned, Accounted, Checked
<1>2. TypeOK /\ Cleaned /\ [Next]_vars => Cleaned'
  <2> SUFFICES ASSUME TypeOK, Cleaned, [Next]_vars PROVE Cleaned'
    OBVIOUS
  <2>1. CASE UNCHANGED vars
    BY <2>1, GoneStep DEF vars, watching, ending, outcome, Cleaned, Accounted, Checked
  <2>2. CASE Next
    BY <2>2, CleanedTree, CleanedSupervise DEF Next
  <2> QED BY <2>1, <2>2
<1> QED BY <1>1, <1>2, TypeCorrect, PTL DEF Spec

(* A call that reports no failed cleanup leaves nothing of its tree running
   in its container. *)
THEOREM NothingSurvives == Spec => []NoSurvivor
<1>1. TypeOK /\ Cleaned => NoSurvivor
  BY SurvivorsGone DEF Cleaned, Accounted, NoSurvivor
<1> QED BY <1>1, TypeCorrect, CleanedInvariant, PTL

(* What is said to be closed is empty. *)
THEOREM ClosedIsEmpty == Spec => []TreeClosedIsTrue
<1>1. Cleaned => TreeClosedIsTrue
  BY SurvivorsGone DEF Cleaned, TreeClosedIsTrue
<1> QED BY <1>1, CleanedInvariant, PTL
-----------------------------------------------------------------------------
(* The result of a call that ends well.  A capture at its end has taken all *)
(* there is and nobody is left to write more; and while no descendant has   *)
(* left the group, a group without members is a tree without writers.       *)

Silent == \A p \in Pids : ~(Running(p) /\ Own(p))
InGroup == ~escaped => \A p \in Pids : Running(p) /\ Own(p) => procs[p].grp = Leader
AllTaken == reader = "eof" => kind # "campaign" /\ drained = written /\ Silent

(* Whoever judges has waited for the capture, or the call does not end well. *)
Waited ==
  kind # "campaign" /\ pc \in {"judge", "done"} =>
    \/ broken \/ cause # "completed"
    \/ reader = "eof"
    \/ reader = "late" /\ kind # "lab"

(* A call that has not started its capture threads has not watched its tree. *)
Captured == reader = "none" /\ kind # "campaign" => pc # "watch" /\ cause # "completed"

EndedWell ==
  verdict = "ok" =>
    /\ pc = "done" /\ ~broken /\ cause = "completed"
    /\ result <= OutputLimit
    /\ reader = "eof" => result = written
    /\ kind = "campaign" /\ ~escaped /\ ~refused => result = written

Taken ==
  /\ InGroup
  /\ kind = "lab" => ~closed
  /\ AllTaken /\ Waited /\ Captured /\ EndedWell

(* Only who runs and was launched writes or puts such a process there. *)
LEMMA SilentStep ==
  ASSUME TypeOK, Silent, [Next]_vars
  PROVE  Silent' /\ UNCHANGED <<kind, written>>
<1>t. procs \in Table
  BY DEF TypeOK, Table, Process
<1>1. CASE Shrinks
  <2>1. Silent'
    BY <1>1 DEF Shrinks, Silent, Running, Own
  <2>2. written' = written
    <3>1. CASE QueryRetires \/ LaunchAbandoned \/ Interrupted \/ Supervise
      BY <3>1 DEF QueryRetires, LaunchAbandoned, Interrupted, Supervise, StartCapture,
        StartWatching, WatchLimit, WatchExit, SignalGroup, SignalRefused, ReapLeader, ReapExpires,
        CloseTree, CloseRefused, Fallback, Joined, JoinExpires, Judge, tree
    <3>2. CASE Tree
      BY <3>2 DEF Tree, Fork, Arrive, Exit, Detach, Write, Grow, Silent
    <3>3. CASE DeadlinePasses \/ ReadBlock \/ ReachEof \/ UNCHANGED vars
      BY <3>3 DEF DeadlinePasses, ReadBlock, ReachEof, tree, vars
    <3> QED BY <3>1, <3>2, <3>3 DEF Next
  <2> QED BY <1>1, <2>1, <2>2 DEF Shrinks
<1>2. ASSUME NEW p \in Pids, NEW q \in Others, Fork(p, q) PROVE FALSE
  BY <1>2 DEF Fork, Silent
<1>3. ASSUME NEW p \in Pids, Arrive(p) PROVE Silent' /\ UNCHANGED <<kind, written>>
  BY <1>3, <1>t DEF Arrive, Silent, Running, Own, Table, Process
<1>4. ASSUME NEW p \in Pids, Detach(p) PROVE FALSE
  BY <1>4 DEF Detach, Silent
<1>5. CASE UNCHANGED vars
  BY <1>5 DEF vars, tree, Silent, Running, Own
<1> QED BY <1>1, <1>2, <1>3, <1>4, <1>5, SuperviseShrinks, TreeShrinks DEF Next, Tree

LEMMA InGroupStep ==
  ASSUME TypeOK, InGroup, [Next]_vars
  PROVE  InGroup' /\ (escaped => escaped')
<1>t. procs \in Table
  BY DEF TypeOK, Table, Process
<1>1. CASE Supervise \/ QueryRetires \/ LaunchAbandoned \/ Interrupted \/ DeadlinePasses \/ ReadBlock \/ ReachEof
  <2>1. escaped' = escaped
    BY <1>1 DEF QueryRetires, LaunchAbandoned, Interrupted, Supervise, StartCapture, StartWatching,
      WatchLimit, WatchExit, SignalGroup, SignalRefused, ReapLeader, ReapExpires, CloseTree,
      CloseRefused, Fallback, Joined, JoinExpires, Judge, DeadlinePasses, ReadBlock, ReachEof, tree
  <2>2. Shrinks
    BY <1>1, SuperviseShrinks, TreeShrinks
  <2> QED BY <2>1, <2>2 DEF Shrinks, InGroup, Running, Own
<1>2. ASSUME NEW p \in Pids, Exit(p) \/ Write(p) \/ Grow(p) PROVE InGroup' /\ (escaped => escaped')
  <2>1. escaped' = escaped
    BY <1>2 DEF Exit, Write, Grow
  <2>2. Shrinks
    BY <1>2, TreeShrinks
  <2> QED BY <2>1, <2>2 DEF Shrinks, InGroup, Running, Own
<1>3. ASSUME NEW p \in Pids, NEW q \in Others, Fork(p, q) PROVE InGroup' /\ (escaped => escaped')
  BY <1>3, <1>t DEF Fork, InGroup, Running, Own, Table, Process
<1>4. ASSUME NEW p \in Pids, Arrive(p) PROVE InGroup' /\ (escaped => escaped')
  BY <1>4, <1>t DEF Arrive, InGroup, Running, Own, Table, Process
<1>5. ASSUME NEW p \in Pids, Detach(p) PROVE InGroup' /\ (escaped => escaped')
  BY <1>5 DEF Detach, InGroup
<1>6. CASE UNCHANGED vars
  BY <1>6 DEF vars, tree, InGroup, Running, Own
<1> QED BY <1>1, <1>2, <1>3, <1>4, <1>5, <1>6 DEF Next, Tree

(* Once the group is empty and nobody has left it, nobody writes. *)
LEMMA GoneIsSilent ==
  ASSUME Gone, InGroup, ~escaped
  PROVE  Silent
  BY DEF Gone, Held, InGroup, Silent

LEMMA AllTakenStep ==
  ASSUME TypeOK, AllTaken, [Next]_vars
  PROVE  AllTaken'
<1>1. CASE reader # "eof"
  <2>1. CASE ReachEof
    BY <2>1, SilentStep DEF ReachEof, AllTaken, Silent, tree
  <2>2. CASE ~ReachEof
    <3>1. reader' # "eof"
      BY <1>1, <2>2 DEF Next, Tree, Fork, Arrive, Exit, Detach, Write, Grow, DeadlinePasses,
        ReadBlock, QueryRetires, LaunchAbandoned, Interrupted, Supervise, StartCapture,
        StartWatching, WatchLimit, WatchExit, SignalGroup, SignalRefused, ReapLeader, ReapExpires,
        CloseTree, CloseRefused, Fallback, Joined, JoinExpires, Judge, vars, capture
    <3> QED BY <3>1 DEF AllTaken
  <2> QED BY <2>1, <2>2
<1>2. CASE reader = "eof"
  <2>1. Silent' /\ UNCHANGED <<kind, written>>
    BY <1>2, SilentStep DEF AllTaken
  <2>2. drained' = drained
    <3>1. ~ReadBlock
      BY <1>2 DEF ReadBlock, AllTaken
    <3> QED BY <3>1 DEF Next, Tree, Fork, Arrive, Exit, Detach, Write, Grow, DeadlinePasses,
        ReachEof, QueryRetires, LaunchAbandoned, Interrupted, Supervise, StartCapture,
        StartWatching, WatchLimit, WatchExit, SignalGroup, SignalRefused, ReapLeader, ReapExpires,
        CloseTree, CloseRefused, Fallback, Joined, JoinExpires, Judge, vars, capture
  <2> QED BY <1>2, <2>1, <2>2 DEF AllTaken
<1> QED BY <1>1, <1>2

(* Where the supervisor itself leads to the judgement. *)
LEMMA WaitedStep ==
  ASSUME TypeOK, Cleaned, kind = "lab" => ~closed, Waited, Captured, [Next]_vars
  PROVE  Waited' /\ (kind' = "lab" => ~closed')
<1> USE DEF Waited, Captured
<1>k. kind \in {"check", "job", "campaign", "lab"} /\ kind' = kind
  BY DEF TypeOK, Kinds, Next, Tree, Fork, Arrive, Exit, Detach, Write, Grow, DeadlinePasses,
    ReadBlock, ReachEof, QueryRetires, LaunchAbandoned, Interrupted, Supervise, StartCapture,
    StartWatching, WatchLimit, WatchExit, SignalGroup, SignalRefused, ReapLeader, ReapExpires,
    CloseTree, CloseRefused, Fallback, Joined, JoinExpires, Judge, vars
<1>0. CASE Tree \/ DeadlinePasses \/ ReadBlock \/ UNCHANGED vars
  <2>1. UNCHANGED <<reader, pc, cause, broken, closed>>
    BY <1>0 DEF Tree, Fork, Arrive, Exit, Detach, Write, Grow, DeadlinePasses, ReadBlock, vars,
      capture, watching, ending
  <2> QED BY <1>k, <2>1
<1>1. CASE ReachEof \/ StartCapture
  BY <1>1 DEF ReachEof, StartCapture, watching, ending
<1>2. CASE Interrupted
  <2>1. pc' = "judge" => kind = "campaign" \/ broken' \/ cause' # "completed"
    BY <1>2, <1>k DEF Interrupted, Checked
  <2>2. pc' \in {"signal", "judge", "drain"} /\ closed' = closed
    BY <1>2 DEF Interrupted
  <2> QED BY <1>k, <2>1, <2>2
<1>3. CASE CloseTree
  BY <1>3, <1>k DEF CloseTree, Cleaned, Checked
<1>4. CASE Fallback
  BY <1>4, <1>k DEF Fallback, Cleaned, Checked
<1>5. CASE Joined \/ JoinExpires
  <2>1. \/ reader' = "eof" \/ (reader' = "late" /\ (kind = "lab" => broken'))
        \/ reader' = "none" /\ reader = "none"
    BY <1>5 DEF Joined, JoinExpires, capture
  <2>2. closed' = closed /\ cause' = cause /\ pc' = "judge"
    BY <1>5 DEF Joined, JoinExpires, watching, ending
  <2> QED BY <1>k, <2>1, <2>2
<1>6. CASE Judge
  BY <1>6 DEF Judge, capture, watching, ending
<1>7. CASE ReapLeader
  BY <1>7, <1>k DEF ReapLeader
<1>8. CASE QueryRetires
  BY <1>8, <1>k DEF QueryRetires
<1>9. CASE WatchLimit \/ WatchExit \/ SignalGroup
  BY <1>9 DEF WatchLimit, WatchExit, SignalGroup, ending
<1>11. CASE StartWatching \/ LaunchAbandoned
  BY <1>11, <1>k DEF StartWatching, LaunchAbandoned, ending
<1>10. CASE SignalRefused \/ ReapExpires \/ CloseRefused
  <2>1. pc' \in {"signal", "fallback", "reap", "drain"} /\ closed' = closed
    BY <1>10 DEF SignalRefused, ReapExpires, CloseRefused, NextAttempt
  <2> QED BY <1>k, <2>1
<1> QED BY <1>0, <1>1, <1>2, <1>3, <1>4, <1>5, <1>6, <1>7, <1>8, <1>9, <1>10, <1>11
       DEF Next, Supervise

(* Only who has started the capture comes to watch, and only who watches sees
   the leader end. *)
LEMMA CapturedStep ==
  ASSUME TypeOK, Captured, [Next]_vars
  PROVE  Captured'
<1> USE DEF Captured
<1>1. CASE StartCapture
  BY <1>1 DEF StartCapture
<1>2. CASE StartWatching
  BY <1>2 DEF StartWatching, capture
<1>3. CASE LaunchAbandoned
  BY <1>3 DEF LaunchAbandoned, capture
<1>4. CASE WatchExit \/ WatchLimit
  <2>1. reader' = reader /\ kind' = kind /\ pc = "watch" /\ pc' # "watch"
    BY <1>4 DEF WatchExit, WatchLimit, capture
  <2> QED BY <1>4, <2>1 DEF WatchLimit
<1>5. CASE Interrupted
  BY <1>5 DEF Interrupted
<1>6. CASE UNCHANGED <<kind, reader, pc, cause>>
  BY <1>6
<1>7. CASE reader' \in {"eof", "late"}
  BY <1>7
<1>8. CASE SignalGroup \/ SignalRefused \/ ReapLeader \/ ReapExpires \/ CloseTree \/ CloseRefused
           \/ Fallback \/ Joined \/ Judge
  <2>1. pc' # "watch"
    BY <1>8 DEF SignalGroup, SignalRefused, ReapLeader, ReapExpires, CloseTree, CloseRefused,
      Fallback, Joined, Judge, NextAttempt
  <2>2. UNCHANGED <<kind, reader, cause>>
    BY <1>8 DEF SignalGroup, SignalRefused, ReapLeader, ReapExpires, CloseTree, CloseRefused,
      Fallback, Joined, Judge, capture, watching
  <2> QED BY <2>1, <2>2
<1>9. \/ UNCHANGED <<kind, reader, pc, cause>> \/ reader' \in {"eof", "late"}
      \/ StartCapture \/ StartWatching \/ LaunchAbandoned \/ Interrupted \/ WatchExit \/ WatchLimit
      \/ SignalGroup \/ SignalRefused \/ ReapLeader \/ ReapExpires \/ CloseTree \/ CloseRefused
      \/ Fallback \/ Joined \/ Judge
  BY DEF Next, Supervise, Tree, Fork, Arrive, Exit, Detach, Write, Grow, DeadlinePasses, ReadBlock,
    ReachEof, QueryRetires, JoinExpires, vars, capture, watching
<1> QED BY <1>1, <1>2, <1>3, <1>4, <1>5, <1>6, <1>7, <1>8, <1>9

(* The judgement finds the result complete. *)
LEMMA JudgedWell ==
  ASSUME TypeOK, Cleaned, Taken, Judge
  PROVE  EndedWell'
<1> SUFFICES ASSUME verdict' = "ok" PROVE EndedWell'
  BY DEF EndedWell
<1>1. ~broken /\ cause = "completed" /\ ~Exceeded
  BY DEF Judge, Limit
<1>2. pc' = "done" /\ UNCHANGED <<kind, written, escaped, drained, reader, cause, refused, broken>>
  BY DEF Judge, tree, capture, watching, ending
<1>3. result' = IF kind = "campaign" THEN written ELSE drained
  BY DEF Judge
<1>4. result' <= OutputLimit
  BY <1>1, <1>3, GuardAssumption DEF TypeOK, Exceeded
<1> QED BY <1>1, <1>2, <1>3, <1>4 DEF EndedWell, Taken, AllTaken

(* And so it stays, since nobody is left to write. *)
LEMMA EndedWellStep ==
  ASSUME TypeOK, Cleaned, Taken, [Next]_vars
  PROVE  EndedWell'
<1>1. CASE Judge
  BY <1>1, JudgedWell
<1>2. CASE ~Judge
  <2> SUFFICES ASSUME verdict' = "ok" PROVE EndedWell'
    BY DEF EndedWell
  <2>1. UNCHANGED <<result, verdict>>
    BY <1>2 DEF Next, Tree, Fork, Arrive, Exit, Detach, Write, Grow, DeadlinePasses, ReadBlock,
      ReachEof, QueryRetires, LaunchAbandoned, Interrupted, Supervise, StartCapture, StartWatching,
      WatchLimit, WatchExit, SignalGroup, SignalRefused, ReapLeader, ReapExpires, CloseTree,
      CloseRefused, Fallback, Joined, JoinExpires, vars, outcome
  <2>2. verdict = "ok" /\ pc = "done" /\ ~broken /\ cause = "completed" /\ result <= OutputLimit
    BY <2>1 DEF Taken, EndedWell
  <2>3. Tree \/ DeadlinePasses \/ ReadBlock \/ ReachEof \/ UNCHANGED vars
    BY <1>2, <2>2 DEF Next, QueryRetires, LaunchAbandoned, Interrupted, Supervise, StartCapture,
      StartWatching, WatchLimit, WatchExit, SignalGroup, SignalRefused, ReapLeader, ReapExpires,
      CloseTree, CloseRefused, Fallback, Joined, JoinExpires
  <2>4. UNCHANGED <<kind, pc, cause, refused, broken, signalled, closed>>
    BY <2>3 DEF Tree, Fork, Arrive, Exit, Detach, Write, Grow, DeadlinePasses, ReadBlock, ReachEof,
      vars, watching, ending
  <2>5. ASSUME reader' = "eof" PROVE result = written'
    <3>1. reader = "eof"
      <4>1. kind # "campaign" => reader \in {"eof", "late"}
        BY <2>2 DEF Taken, Waited
      <4> QED BY <2>3, <2>5, <4>1 DEF Tree, Fork, Arrive, Exit, Detach, Write, Grow,
          DeadlinePasses, ReadBlock, ReachEof, vars, capture
    <3>2. written' = written
      BY <3>1, SilentStep DEF Taken, AllTaken
    <3> QED BY <2>2, <3>1, <3>2 DEF Taken, EndedWell
  <2>6. ASSUME kind = "campaign", ~escaped', ~refused PROVE result = written'
    <3>1. ~escaped
      BY <2>6, InGroupStep DEF Taken
    <3>2. Gone
      BY <2>2, <2>6 DEF Cleaned, Accounted
    <3>3. written' = written
      BY <3>1, <3>2, GoneIsSilent, SilentStep DEF Taken
    <3> QED BY <2>2, <2>6, <3>1, <3>3 DEF Taken, EndedWell
  <2> QED BY <2>1, <2>2, <2>4, <2>5, <2>6 DEF EndedWell
<1> QED BY <1>1, <1>2

(* A result is complete and within the bound, in the sense of each
   supervisor, from the moment it is returned on. *)
THEOREM ResultComplete == Spec => []ResultIsComplete
<1>1. Init => Taken
  BY GuardAssumption, LeaderIsPid
     DEF Init, Taken, InGroup, AllTaken, Waited, Captured, EndedWell, Running, Own, Free
<1>2. TypeOK /\ Cleaned /\ Taken /\ [Next]_vars => Taken'
  BY InGroupStep, AllTakenStep, WaitedStep, CapturedStep, EndedWellStep DEF Taken
<1>3. Taken => ResultIsComplete
  BY DEF Taken, Waited, EndedWell, ResultIsComplete
<1> QED BY <1>1, <1>2, <1>3, TypeCorrect, CleanedInvariant, PTL DEF Spec
=============================================================================
