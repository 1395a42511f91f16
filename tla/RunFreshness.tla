---------------------------- MODULE RunFreshness ----------------------------
(***************************************************************************)
(* freak run (cli_run, src/cli/run.fk) and the build under it (build.fk):  *)
(* one source file, one binary beside it, and a record that permits a run  *)
(* to launch the binary without building it.  Runs and builds with         *)
(* different options share the three files without a lock, while the       *)
(* source is edited, binaries are replaced and processes are killed.       *)
(***************************************************************************)
EXTENDS Naturals

CONSTANTS
  Inputs,        \* what the source, its packages and the tools may be
  Options,       \* profile, target, optimisation, LTO, runtime policy
  Processes,     \* processes that run commands
  None,          \* no input, or the option of nothing
  MaxCommands,   \* bound: commands started
  MaxEdits,      \* bound: changes of the inputs
  MaxReplaced,   \* bound: binaries replaced from outside
  MaxCrashes     \* bound: processes killed

ASSUME FreshnessAssumption ==
  /\ None \notin Inputs \cup Options
  /\ {MaxCommands, MaxEdits, MaxReplaced, MaxCrashes} \subseteq Nat

VARIABLES
  input,    \* what the inputs are now
  ir,       \* the input that the emitted .ll or .c was made from, or None
  binary,   \* what the binary was built from
  record,   \* the record of freshness
  proc,     \* what each process is doing
  spent,    \* how much of each bound is used
  mixed     \* a build was disturbed before it was recorded

vars == <<input, ir, binary, record, proc, spent, mixed>>

(* A binary is what it was built from; a fingerprint has the same form, for
   it stands for the inputs and the options that it is the digest of. *)
Built(i, o) == [input |-> i, opt |-> o]
Missing == Built(None, "missing")
Torn == Built(None, "torn")         \* a linker has begun to write it
Foreign == Built(None, "foreign")   \* put there by somebody else
Prints == [input : Inputs, opt : Options]
Binaries == [input : Inputs \cup {None}, opt : Options \cup {"missing", "torn", "foreign"}]

(* The record joins a fingerprint to the digest of a binary. *)
Recorded(print, artifact) == [print |-> print, artifact |-> artifact]
NoRecord == Recorded(Missing, Missing)

Idle == [pc |-> "idle", kind |-> "none", print |-> Missing, src |-> None, seen |-> Missing]
Goto(p, c) == proc' = [proc EXCEPT ![p].pc = c]
Stop(p) == proc' = [proc EXCEPT ![p] = Idle]

(* Between the removal of the old binary and the record of the new one a
   build relies on nobody else to touch the emitted file or the binary, and
   on inputs that do not change and change back. *)
Building(p) ==
  proc[p].pc \in {"source", "transpile", "emit", "compile", "link", "built", "confirm", "hash",
                  "record"}
Touched(p) == mixed' = (mixed \/ \E q \in Processes \ {p} : Building(q))

Init ==
  /\ input \in Inputs /\ ir = None /\ binary = Missing /\ record = NoRecord
  /\ proc = [p \in Processes |-> Idle]
  /\ spent = [commands |-> 0, edits |-> 0, replaced |-> 0, crashes |-> 0]
  /\ mixed = FALSE

Spend(what, limit) == spent[what] < limit /\ spent' = [spent EXCEPT ![what] = @ + 1]

-----------------------------------------------------------------------------
(* freak run takes the fingerprint first; freak build goes to build at once. *)

Begin(p, kind, o) ==
  /\ proc[p] = Idle
  /\ Spend("commands", MaxCommands)
  /\ proc' = [proc EXCEPT ![p] =
       [pc |-> IF kind = "run" THEN "decide" ELSE "discard", kind |-> kind,
        print |-> Built(input, o), src |-> None, seen |-> Missing]]
  /\ UNCHANGED <<input, ir, binary, record, mixed>>

(* The binary is hashed only if it and the record are there. *)
HashForDecision(p) ==
  /\ proc[p].pc = "decide"
  /\ IF binary # Missing /\ record # NoRecord
     THEN proc' = [proc EXCEPT ![p].pc = "compare", ![p].seen = binary]
     ELSE Goto(p, "invalidate")
  /\ UNCHANGED <<input, ir, binary, record, spent, mixed>>

Compare(p) ==
  /\ proc[p].pc = "compare"
  /\ Goto(p, IF record = Recorded(proc[p].print, proc[p].seen) THEN "print_again" ELSE "invalidate")
  /\ UNCHANGED <<input, ir, binary, record, spent, mixed>>

(* Invalidate first: cli_run drops the record, if it can. *)
Invalidate(p) ==
  /\ proc[p].pc = "invalidate"
  /\ record' \in {NoRecord, record}
  /\ Goto(p, "discard")
  /\ UNCHANGED <<input, ir, binary, spent, mixed>>

(* The build goes on only without the emitted file of an older one, without
   the record and without the binary, in this order. *)
Discard(p) ==
  /\ proc[p].pc = "discard"
  /\ \/ ir' = None /\ Touched(p) /\ Goto(p, "record_gone")
     \/ Stop(p) /\ UNCHANGED <<ir, mixed>>       \* it cannot be removed
  /\ UNCHANGED <<input, binary, record, spent>>

DropRecord(p) ==
  /\ proc[p].pc = "record_gone"
  /\ \/ record' = NoRecord /\ Goto(p, "clean")
     \/ Stop(p) /\ UNCHANGED record
  /\ UNCHANGED <<input, ir, binary, spent, mixed>>

DropBinary(p) ==
  /\ proc[p].pc = "clean"
  /\ \/ binary' = Missing /\ Touched(p) /\ Goto(p, "source")
     \/ Stop(p) /\ UNCHANGED <<binary, mixed>>
  /\ UNCHANGED <<input, ir, record, spent>>

ReadSource(p) ==
  /\ proc[p].pc = "source"
  /\ proc' = [proc EXCEPT ![p].pc = "transpile", ![p].src = input] \/ Stop(p)
  /\ UNCHANGED <<input, ir, binary, record, spent, mixed>>

(* The emitted file is removed again, and a new one written only if the
   source passes. *)
Transpile(p) ==
  /\ proc[p].pc = "transpile"
  /\ ir' = None
  /\ Touched(p)
  /\ Goto(p, "emit") \/ Stop(p)
  /\ UNCHANGED <<input, binary, record, spent>>

Emit(p) ==
  /\ proc[p].pc = "emit"
  /\ ir' = proc[p].src
  /\ Touched(p)
  /\ Goto(p, "compile")
  /\ UNCHANGED <<input, binary, record, spent>>

(* The compiler reads the emitted file that is there now, and the linker
   writes the binary in place; a failing one leaves no binary. *)
Compile(p) ==
  /\ proc[p].pc = "compile"
  /\ Touched(p)
  /\ \/ /\ ir # None
        /\ binary' = Torn
        /\ proc' = [proc EXCEPT ![p].pc = "link", ![p].src = ir]
     \/ binary' = Missing /\ Stop(p)
  /\ UNCHANGED <<input, ir, record, spent>>

Link(p) ==
  /\ proc[p].pc = "link"
  /\ Touched(p)
  /\ \/ binary' = Built(proc[p].src, proc[p].print.opt) /\ Goto(p, "built")
     \/ binary' = Missing /\ Stop(p)
  /\ UNCHANGED <<input, ir, record, spent>>

(* A build is done if there is a binary, that is not empty; a run then
   confirms its inputs. *)
CheckOutputOfAny(p) ==
  /\ proc[p].pc = "built"
  /\ IF binary # Missing THEN Goto(p, "confirm") ELSE Stop(p)
  /\ UNCHANGED <<input, ir, binary, record, spent, mixed>>
CheckOutput(p) ==
  /\ proc[p].pc = "built"
  /\ \/ /\ binary # Missing
        /\ IF proc[p].kind = "run" THEN Goto(p, "confirm") ELSE Stop(p)
        /\ UNCHANGED <<binary, mixed>>
     \/ /\ binary \in {Missing, Torn}
        /\ binary' = Missing /\ Touched(p) /\ Stop(p)
  /\ UNCHANGED <<input, ir, record, spent>>

-----------------------------------------------------------------------------
(* The record is written only for the inputs that the run began with.  What *)
(* cannot be hashed is not confirmed.                                       *)

ConfirmUnchecked(p) ==
  /\ proc[p].pc = "confirm"
  /\ Goto(p, "hash")
  /\ UNCHANGED <<input, ir, binary, record, spent, mixed>>
Confirm(p) ==
  /\ proc[p].pc = "confirm"
  /\ (input = proc[p].print.input /\ Goto(p, "hash")) \/ Stop(p)
  /\ UNCHANGED <<input, ir, binary, record, spent, mixed>>

Hash(p) ==
  /\ proc[p].pc = "hash"
  /\ proc' = [proc EXCEPT ![p].pc = "record", ![p].seen = binary] \/ Stop(p)
  /\ UNCHANGED <<input, ir, binary, record, spent, mixed>>

(* The write may fail, or leave a part of the record, which is none. *)
Record(p) ==
  /\ proc[p].pc = "record"
  /\ record' \in {Recorded(proc[p].print, proc[p].seen), NoRecord, record}
  /\ Goto(p, "print_again")
  /\ UNCHANGED <<input, ir, binary, spent, mixed>>

(* Inputs, binary and record are looked at again immediately before launch. *)
PrintAgain(p) ==
  /\ proc[p].pc = "print_again"
  /\ (input = proc[p].print.input /\ Goto(p, "hash_again")) \/ Goto(p, "refuse")
  /\ UNCHANGED <<input, ir, binary, record, spent, mixed>>

HashAgain(p) ==
  /\ proc[p].pc = "hash_again"
  /\ proc' = [proc EXCEPT ![p].pc = "read_again", ![p].seen = binary]
  /\ UNCHANGED <<input, ir, binary, record, spent, mixed>>

AdmitsSamePrint(p) == record.print = proc[p].print
Admits(p) == record = Recorded(proc[p].print, proc[p].seen)

ReadAgain(p) ==
  /\ proc[p].pc = "read_again"
  /\ Goto(p, IF Admits(p) THEN "launch" ELSE "refuse")
  /\ UNCHANGED <<input, ir, binary, record, spent, mixed>>

Refuse(p) ==
  /\ proc[p].pc = "refuse"
  /\ record' \in {NoRecord, record}
  /\ Stop(p)
  /\ UNCHANGED <<input, ir, binary, spent, mixed>>

(* The binary is started, unless the installation is being replaced. *)
Launch(p) ==
  /\ proc[p].pc = "launch"
  /\ Stop(p) \/ Goto(p, "refuse")
  /\ UNCHANGED <<input, ir, binary, record, spent, mixed>>

-----------------------------------------------------------------------------
(* The world around: the inputs change, perhaps back to what a build began  *)
(* with; somebody puts another binary in place; a process is killed.        *)

Edit ==
  /\ Spend("edits", MaxEdits)
  /\ input' \in Inputs \ {input}
  /\ mixed' = (mixed \/ \E q \in Processes : Building(q) /\ proc[q].print.input = input')
  /\ UNCHANGED <<ir, binary, record, proc>>

Replace ==
  /\ Spend("replaced", MaxReplaced)
  /\ binary' = Foreign
  /\ mixed' = (mixed \/ \E q \in Processes : Building(q))
  /\ UNCHANGED <<input, ir, record, proc>>

Crash(p) ==
  /\ proc[p] # Idle
  /\ Spend("crashes", MaxCrashes)
  /\ Stop(p)
  /\ UNCHANGED <<input, ir, binary, record, mixed>>

Step(p) ==
  \/ HashForDecision(p) \/ Compare(p) \/ Invalidate(p) \/ Discard(p) \/ DropRecord(p)
  \/ DropBinary(p) \/ ReadSource(p) \/ Transpile(p) \/ Emit(p) \/ Compile(p) \/ Link(p)
  \/ CheckOutput(p) \/ Confirm(p) \/ Hash(p) \/ Record(p) \/ PrintAgain(p)
  \/ HashAgain(p) \/ ReadAgain(p) \/ Refuse(p) \/ Launch(p)

Next ==
  \/ Edit \/ Replace
  \/ \E p \in Processes :
       \/ Step(p) \/ Crash(p)
       \/ \E kind \in {"run", "build"}, o \in Options : Begin(p, kind, o)

Spec == Init /\ [][Next]_vars

-----------------------------------------------------------------------------
States ==
  [pc : {"idle", "decide", "compare", "invalidate", "discard", "record_gone", "clean", "source",
         "transpile", "emit", "compile", "link", "built", "confirm", "hash", "record",
         "print_again", "hash_again", "read_again", "refuse", "launch"},
   kind : {"none", "run", "build"}, print : Binaries, src : Inputs \cup {None}, seen : Binaries]

(* Each variable has its sort; a command that is past its start has a
   fingerprint, only cli_run goes past the build, and the compiler has read
   an emitted file. *)
TypeOK ==
  /\ input \in Inputs /\ ir \in Inputs \cup {None} /\ binary \in Binaries
  /\ record \in [print : Binaries, artifact : Binaries]
  /\ proc \in [Processes -> States]
  /\ spent \in [{"commands", "edits", "replaced", "crashes"} -> Nat] /\ mixed \in BOOLEAN
  /\ \A p \in Processes :
       /\ proc[p].pc # "idle" => proc[p].print \in Prints /\ proc[p].kind # "none"
       /\ proc[p].pc \in {"decide", "compare", "invalidate", "confirm", "hash", "record",
                          "print_again", "hash_again", "read_again", "launch"} =>
            proc[p].kind = "run"
       /\ proc[p].pc \in {"transpile", "emit", "link"} => proc[p].src \in Inputs

(* The record is a proof: wherever a command was killed, failed or gave up,
   and whatever was edited or replaced meanwhile, it joins a fingerprint only
   to a binary that was built from these inputs with these options, unless a
   build was disturbed before it was recorded (cli_run: a rejected rebuild
   "must never leave proof that the binary is fresh"). *)
RecordIsTrue == ~mixed /\ record # NoRecord => record.artifact = record.print

(* What a run admits for launch was built from the inputs and with the
   options of this run, under the same condition. *)
LaunchesItsOwn ==
  ~mixed => \A p \in Processes : proc[p].pc = "launch" => proc[p].seen = proc[p].print

(* What the comment of the second look says of racing rebuilds: it "rejects
   edits, failed/racing rebuilds, and externally replaced binaries". *)
RacingRebuildsRejected ==
  \A p \in Processes :
    proc[p].pc = "launch" /\ proc[p].seen \in Prints => proc[p].seen = proc[p].print
=============================================================================
