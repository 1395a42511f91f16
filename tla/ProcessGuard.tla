---------------------------- MODULE ProcessGuard ----------------------------
(***************************************************************************)
(* The three supervisors that run compilers, linkers and compiled programs *)
(* under a time, memory and output bound:                                  *)
(*   "check"     run_with_heartbeat of check_v4.py on POSIX: a process     *)
(*               group, capture threads, cleanup in two attempts and a     *)
(*               fallback;                                                 *)
(*   "job"       the same function on Windows: a kill-on-close job;        *)
(*   "campaign"  run_bounded of campaign_probe.py, which captures in files;*)
(*   "lab"       _run_bytes of v3_performance_lab.py, which keeps the      *)
(*               leader unreaped until its group has been signalled.       *)
(* Beside them run the launched tree, the capture thread (the two streams  *)
(* are alike, one stands for both), the clock, and unrelated processes     *)
(* that are given process identifiers no longer in use.                    *)
(***************************************************************************)
EXTENDS Naturals

CONSTANTS
  Leader,       \* the process identifier of the launched command
  Others,       \* the other process identifiers of the host
  OutputLimit,  \* units of output a stream may carry
  MaxOutput,    \* bound: units of output the tree writes
  MaxFaults,    \* bound: operations of the supervisor that fail or are interrupted
  Supervisors   \* the supervisors of the instance

Kinds == {"check", "job", "campaign", "lab"}

ASSUME GuardAssumption ==
  /\ Leader \notin Others
  /\ OutputLimit \in Nat /\ MaxOutput \in Nat /\ MaxFaults \in Nat
  /\ Supervisors \subseteq Kinds

Pids == Others \cup {Leader}
VARIABLES
  kind,       \* the supervisor
  procs,      \* the process table: state, process group, launched or a stranger
  heavy,      \* the tree is over its memory limit
  deadline,   \* of the call: none, ahead or passed
  written,    \* output of the tree
  escaped,    \* a descendant has left the process group
  drained,    \* output the capture thread has taken from the pipe
  reader,     \* the capture thread: not there, reading, at the end, or given up on
  pc,         \* where the supervisor is
  cause,      \* why it stopped watching
  peak,       \* it has measured more than the memory limit
  reaped,     \* it has collected the leader's exit status
  handle,     \* the job handle
  attempt,    \* attempt to end the tree
  signalled,  \* a group termination has succeeded
  refused,    \* a group termination has failed
  closed,     \* process_tree_closed
  broken,     \* the cleanup has failed, which the call will report
  result,     \* output it returns
  verdict,    \* how the call ended
  strangerHit,\* a stranger was signalled
  faults      \* faults so far

tree == <<procs, heavy, written, escaped>>
capture == <<drained, reader>>
watching == <<cause, peak>>
ending == <<reaped, handle, attempt, signalled, refused, closed, broken, strangerHit>>
outcome == <<result, verdict>>
vars == <<kind, tree, deadline, capture, pc, watching, ending, outcome, faults>>

Checked == kind \in {"check", "job"}
Free(p) == [st |-> "free", grp |-> p, own |-> FALSE]
Running(p) == procs[p].st = "run"
Own(p) == procs[p].own

(* A process identifier is not given out while a process or a group has it. *)
Available(p) ==
  /\ procs[p].st = "free"
  /\ \A q \in Pids : procs[q].st # "free" => procs[q].grp # p

(* What the supervisor's container holds: the job, or the process group with
   the number of the leader, whoever is in it by now. *)
Members == {p \in Pids : Running(p) /\ IF kind = "job" THEN Own(p) ELSE procs[p].grp = Leader}
Survivors == {p \in Members : Own(p)}

(* The end of a process, of itself or by SIGKILL: the leader waits to be reaped. *)
Ended(p) == IF p = Leader /\ Own(p) /\ ~reaped THEN [procs[p] EXCEPT !.st = "zombie"] ELSE Free(p)
After(S) == [p \in Pids |-> IF p \in S THEN Ended(p) ELSE procs[p]]
Reap(table) == [table EXCEPT ![Leader] = IF Own(Leader) THEN Free(Leader) ELSE @]
Zombie == procs[Leader].st = "zombie"

Exceeded == IF kind = "campaign" THEN written > OutputLimit ELSE drained > OutputLimit

(* The tree has been launched, and nothing guards it yet. *)
Init ==
  /\ kind \in Supervisors
  /\ procs = [p \in Pids |-> IF p = Leader THEN [st |-> "run", grp |-> p, own |-> TRUE] ELSE Free(p)]
  /\ deadline \in IF Checked THEN {"none", "ahead"} ELSE {"ahead"}
  /\ heavy = FALSE /\ written = 0 /\ escaped = FALSE
  /\ drained = 0 /\ reader = "none"
  /\ pc = "launch" /\ cause = "none" /\ peak = FALSE /\ reaped = FALSE /\ handle = "open"
  /\ attempt = 1 /\ signalled = FALSE /\ refused = FALSE /\ closed = FALSE /\ broken = FALSE
  /\ result = 0 /\ verdict = "none"
  /\ strangerHit = FALSE /\ faults = 0

-----------------------------------------------------------------------------
(* The launched tree and the rest of the host.                             *)

Fork(p, q) ==
  /\ Running(p) /\ Own(p) /\ Available(q)
  /\ procs' = [procs EXCEPT ![q] = [st |-> "run", grp |-> procs[p].grp, own |-> TRUE]]
  /\ UNCHANGED <<kind, heavy, deadline, written, escaped, capture, pc, watching, ending, outcome, faults>>

(* An unrelated process starts, in a session and a group of its own. *)
Arrive(q) ==
  /\ Available(q)
  /\ procs' = [procs EXCEPT ![q] = [st |-> "run", grp |-> q, own |-> FALSE]]
  /\ UNCHANGED <<kind, heavy, deadline, written, escaped, capture, pc, watching, ending, outcome, faults>>

Exit(p) ==
  /\ Running(p)
  /\ procs' = After({p})
  /\ heavy' \in {heavy, FALSE}
  /\ UNCHANGED <<kind, deadline, written, escaped, capture, pc, watching, ending, outcome, faults>>

(* A descendant starts a session of its own; nothing leaves a job. *)
Detach(p) ==
  /\ kind # "job" /\ p # Leader /\ Running(p) /\ Own(p) /\ procs[p].grp = Leader
  /\ procs' = [procs EXCEPT ![p].grp = p]
  /\ escaped' = TRUE
  /\ heavy' \in {heavy, FALSE}
  /\ UNCHANGED <<kind, deadline, written, capture, pc, watching, ending, outcome, faults>>

Write(p) ==
  /\ Running(p) /\ Own(p) /\ written < MaxOutput
  /\ written' = written + 1
  /\ UNCHANGED <<kind, procs, heavy, deadline, escaped, capture, pc, watching, ending, outcome, faults>>

Grow(p) ==
  /\ Running(p) /\ Own(p) /\ ~heavy
  /\ heavy' = TRUE
  /\ UNCHANGED <<kind, procs, deadline, written, escaped, capture, pc, watching, ending, outcome, faults>>

DeadlinePasses ==
  /\ deadline = "ahead" /\ deadline' = "passed"
  /\ UNCHANGED <<kind, tree, capture, pc, watching, ending, outcome, faults>>

-----------------------------------------------------------------------------
(* The capture thread.  It goes on reading past the limit, in check and job *)
(* also when nobody waits for it, and ends when nobody is left to write.    *)

ReadBlock ==
  /\ kind # "campaign" /\ drained < written
  /\ reader = "reading" \/ (reader = "late" /\ Checked)
  /\ drained' = drained + 1
  /\ UNCHANGED <<kind, tree, deadline, reader, pc, watching, ending, outcome, faults>>

ReachEof ==
  /\ kind # "campaign" /\ reader = "reading" /\ drained = written
  /\ \A p \in Pids : ~(Running(p) /\ Own(p))
  /\ reader' = "eof"
  /\ UNCHANGED <<kind, tree, deadline, drained, pc, watching, ending, outcome, faults>>

-----------------------------------------------------------------------------
(* Between the launch and the handler that ends the tree come the start of  *)
(* the capture threads and, in check and job, a first sample of the memory. *)
(* A sample adds up what the container holds: a stranger in it may be of    *)
(* any size, a job remembers its peak.                                      *)

Over == heavy /\ IF kind = "job" THEN handle = "open" ELSE Survivors # {}
Sample == peak' \in {peak \/ Over} \cup {TRUE : p \in Members \ Survivors}

StartCapture ==
  /\ pc = "launch" /\ kind # "campaign" /\ reader = "none"
  /\ reader' = "reading"
  /\ UNCHANGED <<kind, tree, deadline, drained, pc, watching, ending, outcome, faults>>

StartWatching ==
  /\ pc = "launch" /\ (kind = "campaign" \/ reader # "none")
  /\ IF Checked THEN Sample ELSE UNCHANGED peak
  /\ pc' = "watch"
  /\ UNCHANGED <<kind, tree, deadline, capture, cause, ending, outcome, faults>>

(* An interrupt, a thread that does not start or a sample that fails ends   *)
(* the call there and then; in lab it leads to the cleanup, once it knows   *)
(* the process.                                                             *)
LaunchAbandoned ==
  /\ pc = "launch" /\ faults < MaxFaults
  /\ faults' = faults + 1
  /\ cause' = "interrupt"
  /\ \/ kind = "lab" /\ pc' = "signal" /\ UNCHANGED verdict
     \/ (kind = "lab" => reader = "none") /\ pc' = "done" /\ verdict' = "unguarded"
  /\ UNCHANGED <<kind, tree, deadline, capture, peak, ending, result>>

-----------------------------------------------------------------------------
(* The supervisor watches for the first bound found broken, in the order   *)
(* each of them tests them.                                                 *)

Found(output, memory, time) ==
  LET First(a, b, c) == IF a # "none" THEN a ELSE IF b # "none" THEN b ELSE c
  IN IF kind = "campaign" THEN First(time, memory, output) ELSE First(output, memory, time)
OutputBound == IF Exceeded THEN "output" ELSE "none"
MemoryBound == IF Over /\ kind # "lab" THEN "memory" ELSE "none"
TrippedUntimed == Found(OutputBound, MemoryBound, "none")
Tripped == Found(OutputBound, MemoryBound, IF deadline = "passed" THEN "timeout" ELSE "none")

WatchLimit ==
  /\ pc = "watch"
  /\ \/ /\ Tripped # "none"
        /\ cause' = Tripped
        /\ peak' = (peak \/ Tripped = "memory")
        /\ UNCHANGED faults
     \/ /\ kind = "campaign" /\ deadline # "passed"   \* what cannot be measured is over the limit
        /\ faults < MaxFaults /\ faults' = faults + 1
        /\ cause' = "memory" /\ UNCHANGED peak
  /\ pc' = "signal"
  /\ UNCHANGED <<kind, tree, deadline, capture, ending, outcome>>

(* The leader has ended.  poll and Popen.wait collect it, waitid with       *)
(* WNOWAIT leaves it: its number stays taken.                               *)
CollectsAlways == TRUE
CollectsAtExit == kind # "lab"

WatchExitUncleaned ==
  /\ pc = "watch" /\ Zombie
  /\ cause' = "completed"
  /\ reaped' = CollectsAtExit
  /\ procs' = IF CollectsAtExit THEN Reap(procs) ELSE procs
  /\ pc' = IF kind = "campaign" THEN "judge" ELSE "drain"
  /\ UNCHANGED <<kind, heavy, deadline, written, escaped, capture, peak, handle, attempt, signalled,
                 refused, closed, broken, strangerHit, outcome, faults>>
WatchExit ==
  /\ pc = "watch" /\ Zombie
  /\ cause' = "completed"
  /\ reaped' = CollectsAtExit
  /\ procs' = IF CollectsAtExit THEN Reap(procs) ELSE procs
  /\ attempt' = IF kind = "campaign" THEN 2 ELSE 1
  /\ pc' = "signal"
  /\ UNCHANGED <<kind, heavy, deadline, written, escaped, capture, peak, handle, signalled, refused,
                 closed, broken, strangerHit, outcome, faults>>

(* On Windows a query of the job may find its handle invalid, which retires *)
(* it for good.                                                             *)
QueryRetires ==
  /\ kind = "job" /\ pc \in {"launch", "watch", "signal"} /\ handle = "open" /\ faults < MaxFaults
  /\ handle' = "retired" /\ faults' = faults + 1
  /\ UNCHANGED <<kind, tree, deadline, capture, pc, watching, reaped, attempt, signalled, refused,
                 closed, broken, strangerHit, outcome>>

(* The first interrupt leads to a cleanup from the start, unless the tree is *)
(* closed or campaign is in its second attempt; check and job forget that    *)
(* they have signalled the group.  Another one during that cleanup abandons  *)
(* it.  Lab reports the step as failed and goes on with the next one.        *)
Interrupted ==
  /\ pc \in {"watch", "signal", "reap", "close", "fallback", "drain"} /\ faults < MaxFaults
  /\ faults' = faults + 1
  /\ LET again == \/ pc = "watch"
                  \/ Checked /\ cause # "interrupt"
                  \/ kind = "campaign" /\ attempt = 1
         shut == kind = "lab" /\ pc = "drain" /\ reader = "reading"
     IN /\ cause' = IF again THEN "interrupt" ELSE IF kind = "lab" THEN cause ELSE "abandoned"
        /\ broken' = (kind = "lab" /\ (broken \/ ~again))
        /\ signalled' = (signalled /\ ~(Checked /\ again))
        /\ attempt' = IF kind = "campaign" THEN 2 ELSE 1
        /\ pc' = IF again THEN IF closed THEN "judge" ELSE "signal"
                 ELSE IF kind = "lab" /\ pc # "drain" THEN "drain" ELSE "judge"
        /\ reader' = IF shut THEN "late" ELSE reader
  /\ UNCHANGED <<kind, tree, deadline, drained, peak, reaped, handle, refused, closed,
                 strangerHit, outcome>>

-----------------------------------------------------------------------------
(* The supervisor ends the tree.  A campaign does it twice: when a bound    *)
(* trips, and in any case before it reads the captures.  The others do it   *)
(* once, check and job in two attempts before a fallback.                   *)

NextAttemptCounted ==
  /\ attempt' = attempt + 1
  /\ pc' = IF attempt = 1 THEN "signal" ELSE "fallback"
NextAttempt ==
  /\ attempt' = 2
  /\ pc' = IF attempt = 1 THEN "signal" ELSE "fallback"

SignalGroup ==
  /\ pc = "signal" /\ handle = "open"
  /\ procs' = After(Members)
  /\ strangerHit' = (strangerHit \/ Members # Survivors)
  /\ signalled' = TRUE
  /\ IF Checked THEN Sample ELSE UNCHANGED peak
  /\ pc' = "reap"
  /\ UNCHANGED <<kind, heavy, deadline, written, escaped, capture, cause, reaped, handle, attempt,
                 refused, closed, broken, outcome, faults>>

(* The termination of the group is refused.  check and job still collect or *)
(* kill the leader and try again, campaign ignores the refusal, lab reports *)
(* it in the end.                                                           *)
SignalRefused ==
  /\ pc = "signal"
  /\ \/ handle = "retired" /\ UNCHANGED <<faults, handle>>
     \/ /\ handle = "open" /\ faults < MaxFaults /\ faults' = faults + 1
        /\ handle' \in {"open"} \cup {"retired" : k \in {kind} \cap {"job"}}
  /\ refused' = TRUE
  /\ broken' = (broken \/ kind = "lab")
  /\ IF Checked
     THEN /\ procs' = IF Zombie THEN Reap(procs) ELSE IF reaped THEN procs ELSE After({Leader})
          /\ reaped' = (reaped \/ Zombie)
          /\ Sample
          /\ NextAttempt
     ELSE pc' = "reap" /\ UNCHANGED <<procs, reaped, peak, attempt>>
  /\ UNCHANGED <<kind, heavy, deadline, written, escaped, capture, cause, signalled, closed,
                 strangerHit, outcome>>

(* The leader is killed by itself if it is still there, and collected. *)
ReapLeader ==
  /\ pc = "reap"
  /\ procs' = IF reaped THEN procs ELSE Reap(procs)
  /\ reaped' = TRUE
  /\ attempt' = IF kind = "campaign" THEN 2 ELSE attempt
  /\ pc' = CASE kind = "campaign" -> IF attempt = 1 THEN "signal" ELSE "judge"
             [] kind = "lab" -> "drain"
             [] OTHER -> "close"
  /\ UNCHANGED <<kind, heavy, deadline, written, escaped, capture, watching, handle, signalled,
                 refused, closed, broken, strangerHit, outcome, faults>>

(* The bounded wait for the leader ends first; campaign's has no bound. *)
ReapExpires ==
  /\ pc = "reap" /\ ~reaped /\ kind # "campaign" /\ faults < MaxFaults
  /\ faults' = faults + 1
  /\ IF kind = "lab"
     THEN pc' = "drain" /\ broken' = TRUE /\ UNCHANGED attempt
     ELSE NextAttempt /\ UNCHANGED broken
  /\ UNCHANGED <<kind, tree, deadline, capture, watching, reaped, handle, signalled, refused, closed,
                 strangerHit, outcome>>

(* Another sample is taken.  Closing the job's last handle ends what the    *)
(* job holds; a POSIX tree has nothing to close.  After an interrupt the    *)
(* captures are not waited for.                                             *)
CloseTree ==
  /\ pc = "close" /\ handle = "open"
  /\ handle' = IF kind = "job" THEN "closed" ELSE handle
  /\ procs' = IF kind = "job" THEN After(Members) ELSE procs
  /\ Sample
  /\ closed' = TRUE
  /\ pc' = IF cause = "interrupt" THEN "judge" ELSE "drain"
  /\ UNCHANGED <<kind, heavy, deadline, written, escaped, capture, cause, reaped, attempt, signalled,
                 refused, broken, strangerHit, outcome, faults>>

CloseRefused ==
  /\ pc = "close" /\ kind = "job" /\ faults < MaxFaults
  /\ faults' = faults + 1
  /\ handle' \in {"open", "retired"}
  /\ NextAttempt
  /\ UNCHANGED <<kind, tree, deadline, capture, watching, reaped, signalled, refused, closed, broken,
                 strangerHit, outcome>>

(* What the fallback may say of the tree. *)
TreeClosedUnsignalled(closes, reaps) == closes /\ reaps
TreeClosed(closes, reaps) == closes /\ reaps /\ (signalled \/ kind = "job")

(* _final_cleanup: kill the leader, close, collect the leader, each whatever *)
(* became of the others, and report which of them succeeded.                *)
Fallback ==
  /\ pc = "fallback"
  /\ \E closes, reaps \in BOOLEAN :
       /\ faults' = faults + (IF closes \/ handle = "retired" THEN 0 ELSE 1) + (IF reaps THEN 0 ELSE 1)
       /\ faults' <= MaxFaults
       /\ closes => handle = "open"
       /\ kind = "check" => closes
       /\ (reaped \/ Zombie) => reaps
       /\ LET table == After((IF reaped THEN {} ELSE {Leader})
                              \cup IF kind = "job" /\ closes THEN Members ELSE {})
          IN procs' = IF reaps /\ ~reaped THEN Reap(table) ELSE table
       /\ reaped' = reaps
       /\ handle' = IF kind = "job" /\ closes THEN "closed" ELSE handle
       /\ closed' = TreeClosed(closes, reaps)
  /\ Sample
  /\ broken' = TRUE
  /\ pc' = "drain"
  /\ UNCHANGED <<kind, heavy, deadline, written, escaped, capture, cause, attempt, signalled, refused,
                 strangerHit, outcome>>

(* The capture thread is joined, for a bounded time; lab then closes its pipe. *)
Joined ==
  /\ pc = "drain" /\ reader \in {"eof", "none"}
  /\ pc' = "judge"
  /\ UNCHANGED <<kind, tree, deadline, capture, watching, ending, outcome, faults>>

JoinExpires ==
  /\ pc = "drain" /\ reader \notin {"eof", "none"}
  /\ reader' = "late"
  /\ broken' = (broken \/ kind = "lab")
  /\ pc' = "judge"
  /\ UNCHANGED <<kind, tree, deadline, drained, watching, reaped, handle, attempt, signalled, refused,
                 closed, strangerHit, outcome, faults>>

(* The call returns what was captured, or raises.  Each bound that was only *)
(* found broken after the end counts as well.                               *)
LimitWhileWatching == cause # "completed" \/ (peak /\ Checked)
Limit == cause # "completed" \/ Exceeded \/ (peak /\ Checked)

Judge ==
  /\ pc = "judge"
  /\ pc' = "done"
  /\ verdict' = IF broken THEN "cleanup"
                ELSE IF cause \in {"interrupt", "abandoned"} THEN "interrupted"
                ELSE IF Limit THEN "limit" ELSE "ok"
  /\ result' = IF verdict' # "ok" THEN 0 ELSE IF kind = "campaign" THEN written ELSE drained
  /\ UNCHANGED <<kind, tree, deadline, capture, watching, ending, faults>>

Supervise ==
  \/ StartCapture \/ StartWatching
  \/ WatchLimit \/ WatchExit \/ SignalGroup \/ SignalRefused \/ ReapLeader \/ ReapExpires
  \/ CloseTree \/ CloseRefused \/ Fallback \/ Joined \/ JoinExpires \/ Judge

Tree ==
  \/ \E p \in Pids : Arrive(p) \/ Exit(p) \/ Detach(p) \/ Write(p) \/ Grow(p)
  \/ \E p \in Pids, q \in Others : Fork(p, q)

Next ==
  \/ Tree \/ DeadlinePasses \/ ReadBlock \/ ReachEof
  \/ QueryRetires \/ LaunchAbandoned \/ Interrupted \/ Supervise

(* The loops of the supervisors keep polling, and time passes. *)
Spec == Init /\ [][Next]_vars /\ WF_vars(Supervise) /\ WF_vars(DeadlinePasses)

-----------------------------------------------------------------------------
(* The shapes of the state. *)
TypeOK ==
  /\ kind \in Kinds /\ heavy \in BOOLEAN /\ deadline \in {"none", "ahead", "passed"}
  /\ procs \in [Pids -> [st : {"run", "zombie", "free"}, grp : Pids, own : BOOLEAN]]
  /\ written \in Nat /\ drained \in Nat /\ result \in Nat /\ faults \in Nat
  /\ escaped \in BOOLEAN /\ reader \in {"none", "reading", "eof", "late"}
  /\ pc \in {"launch", "watch", "signal", "reap", "close", "fallback", "drain", "judge", "done"}
  /\ cause \in {"none", "completed", "timeout", "memory", "output", "interrupt", "abandoned"}
  /\ peak \in BOOLEAN /\ reaped \in BOOLEAN /\ handle \in {"open", "retired", "closed"}
  /\ attempt \in {1, 2} /\ signalled \in BOOLEAN /\ refused \in BOOLEAN /\ closed \in BOOLEAN
  /\ broken \in BOOLEAN /\ strangerHit \in BOOLEAN
  /\ verdict \in {"none", "ok", "limit", "interrupted", "cleanup", "unguarded"}

(* A call that has come to guard its tree and does not report a failed
   cleanup leaves nothing of the tree running in its container, however it
   ended and whatever failed or was interrupted on the way; except campaign,
   which reports no failed cleanup, when the group could not be signalled,
   and a cleanup that was abandoned before it had signalled the group.  A call
   that ends between the launch and its handler guards nothing. *)
NoSurvivor ==
  pc = "done" /\ verdict # "cleanup" =>
    \/ Survivors = {}
    \/ verdict = "unguarded"
    \/ kind = "campaign" /\ refused
    \/ kind # "lab" /\ cause = "abandoned" /\ ~signalled

(* What NoSurvivor leaves out and no supervisor ensures: that a call which
   ends before it has entered its handler leaves nothing running either.  Not
   among the checked properties. *)
LaunchIsGuarded == verdict = "unguarded" => Survivors = {}

(* The evidence of a failed cleanup is not overstated: tree-closed=True is
   only reported, and a second cleanup only skipped, when nothing of the tree
   is running any more. *)
TreeClosedIsTrue == closed => Survivors = {}

(* The laboratory never signals a process it has not launched, whoever is
   given process identifiers meanwhile: its leader keeps the number of the
   group until the group has been signalled. *)
SignalsOnlyItsOwn == kind = "lab" => ~strangerHit

(* A result is complete and within the bound.  The laboratory answers with
   everything the tree and its detached descendants ever wrote, campaign
   with everything the group wrote; check and job do unless the capture
   thread did not finish in time. *)
ResultIsComplete ==
  verdict = "ok" =>
    /\ result <= OutputLimit
    /\ kind = "lab" => reader = "eof"
    /\ reader = "eof" => result = written
    /\ kind = "campaign" /\ ~escaped /\ ~refused => result = written

(* Every call with a deadline comes to an end, even of a tree that never ends
   or writes without end, and whatever is refused or interrupted; a call
   without a deadline also does, unless it watches for ever a leader that
   runs for ever. *)
Endless == deadline = "none" /\ pc = "watch" /\ Running(Leader) /\ Own(Leader)
RunEnds == <>[](pc = "done" \/ Endless)

=============================================================================
