------------------------- MODULE RunFreshnessProofs -------------------------
(***************************************************************************)
(* The record of freshness is a proof, for all inputs, options, numbers of *)
(* processes and bounds.                                                   *)
(***************************************************************************)
EXTENDS RunFreshness, TLAPS

(* What TypeOK says of one process, and which process it is at each place. *)
Shape(s) ==
  /\ s.pc # "idle" => s.print \in Prints /\ s.kind # "none"
  /\ s.pc \in {"decide", "compare", "invalidate", "confirm", "hash", "record", "print_again",
               "hash_again", "read_again", "launch"} => s.kind = "run"
  /\ s.pc \in {"transpile", "emit", "link"} => s.src \in Inputs

(* What a build that nobody disturbed knows: as long as the inputs are those
   it began with, they are in what it has read, in what it has emitted, in
   what the compiler has read, and in the binary; once they are confirmed,
   the binary stays so without that condition, until it is recorded. *)
Own(p) ==
  LET s == proc[p]
      still == input = s.print.input
  IN /\ s.pc \in {"transpile", "emit", "link"} /\ still => s.src = s.print.input
     /\ s.pc = "compile" /\ still => ir = s.print.input
     /\ s.pc \in {"built", "confirm"} /\ still => binary = s.print
     /\ s.pc = "hash" => binary = s.print
     /\ s.pc \in {"record", "launch"} => s.seen = s.print

Undisturbed == ~mixed => RecordIsTrue /\ \A p \in Processes : Own(p)

IInv == TypeOK /\ Undisturbed

(* A fingerprint is neither of the binaries that no build has made. *)
LEMMA PrintFacts ==
  ASSUME NEW print \in Prints
  PROVE  /\ print # Missing /\ print \in Binaries
         /\ print = Built(print.input, print.opt)
         /\ print.input \in Inputs /\ print.opt \in Options
BY FreshnessAssumption DEF Prints, Missing, Built, Binaries

LEMMA BinaryFacts ==
  /\ Missing \in Binaries /\ Torn \in Binaries /\ Foreign \in Binaries
  /\ \A i \in Inputs, o \in Options : Built(i, o) \in Prints /\ Built(i, o) \in Binaries
  /\ NoRecord \in [print : Binaries, artifact : Binaries]
  /\ \A x \in Binaries, y \in Binaries : Recorded(x, y) \in [print : Binaries, artifact : Binaries]
BY DEF Missing, Torn, Foreign, Binaries, Prints, Built, NoRecord, Recorded

LEMMA IdleFacts == Idle \in States /\ Shape(Idle)
BY BinaryFacts DEF Idle, States, Shape

-----------------------------------------------------------------------------
(* A step gives one process a well-formed record, or leaves them all. *)
Moves(p) == \E s \in States : Shape(s) /\ proc' = [proc EXCEPT ![p] = s]

LEMMA StopMoves == ASSUME NEW p \in Processes, Stop(p) PROVE Moves(p)
BY IdleFacts DEF Stop, Moves

LEMMA GotoMoves ==
  ASSUME TypeOK, NEW p \in Processes, proc[p].pc # "idle",
         NEW c \in {"compare", "invalidate", "discard", "record_gone", "clean", "source",
           "transpile", "emit",
                    "compile", "built", "confirm", "hash", "record", "print_again", "hash_again",
                    "read_again", "refuse", "launch"},
         Goto(p, c),
         c \in {"compare", "invalidate", "confirm", "hash", "record", "print_again", "hash_again",
                "read_again", "launch"} => proc[p].kind = "run",
         c \in {"transpile", "emit"} => proc[p].src \in Inputs
  PROVE  Moves(p)
<1> DEFINE s == [proc[p] EXCEPT !.pc = c]
<1>1. proc' = [proc EXCEPT ![p] = s] BY DEF Goto
<1>2. proc[p] \in States BY DEF TypeOK
<1>3. proc[p].print \in Prints /\ proc[p].kind # "none" BY DEF TypeOK
<1>4. s \in States /\ Shape(s) BY <1>2, <1>3 DEF States, Shape
<1> QED BY <1>1, <1>4 DEF Moves

(* So does a step that also keeps what it has read or hashed. *)
LEMMA SeenMoves ==
  ASSUME TypeOK, NEW p \in Processes, proc[p].kind = "run", proc[p].pc # "idle",
         NEW c \in {"compare", "record", "read_again"},
         proc' = [proc EXCEPT ![p].pc = c, ![p].seen = binary]
  PROVE  Moves(p)
<1> DEFINE s == [proc[p] EXCEPT !.pc = c, !.seen = binary]
<1>1. proc' = [proc EXCEPT ![p] = s] OBVIOUS
<1>2. proc[p] \in States /\ binary \in Binaries BY DEF TypeOK
<1>3. proc[p].print \in Prints BY DEF TypeOK
<1>4. s \in States /\ Shape(s) BY <1>2, <1>3 DEF States, Shape
<1> QED BY <1>1, <1>4 DEF Moves

LEMMA SrcMoves ==
  ASSUME TypeOK, NEW p \in Processes, proc[p].pc # "idle",
         NEW c \in {"transpile", "link"}, NEW i \in Inputs,
         proc' = [proc EXCEPT ![p].pc = c, ![p].src = i]
  PROVE  Moves(p)
<1> DEFINE s == [proc[p] EXCEPT !.pc = c, !.src = i]
<1>1. proc' = [proc EXCEPT ![p] = s] OBVIOUS
<1>2. proc[p] \in States BY DEF TypeOK
<1>3. proc[p].print \in Prints /\ proc[p].kind # "none" BY DEF TypeOK
<1>4. s \in States /\ Shape(s) BY <1>2, <1>3 DEF States, Shape
<1> QED BY <1>1, <1>4 DEF Moves

LEMMA StepMoves ==
  ASSUME TypeOK, NEW p \in Processes, Step(p)
  PROVE  Moves(p)
<1>1. /\ proc[p] \in States /\ input \in Inputs /\ ir \in Inputs \cup {None}
      /\ proc[p].pc \in {"decide", "compare", "invalidate", "confirm", "hash", "record",
                         "print_again", "hash_again", "read_again", "launch"} =>
           proc[p].kind = "run"
      /\ proc[p].pc \in {"transpile", "emit", "link"} => proc[p].src \in Inputs
  BY DEF TypeOK
<1>2. CASE HashForDecision(p)
  BY <1>1, <1>2, GotoMoves, SeenMoves DEF HashForDecision
<1>3. CASE Compare(p) BY <1>1, <1>3, GotoMoves DEF Compare
<1>4. CASE Invalidate(p) BY <1>1, <1>4, GotoMoves DEF Invalidate
<1>20. CASE Discard(p) BY <1>1, <1>20, GotoMoves, StopMoves DEF Discard
<1>21. CASE DropRecord(p) BY <1>1, <1>21, GotoMoves, StopMoves DEF DropRecord
<1>5. CASE DropBinary(p) BY <1>1, <1>5, GotoMoves, StopMoves DEF DropBinary
<1>6. CASE ReadSource(p) BY <1>1, <1>6, SrcMoves, StopMoves DEF ReadSource
<1>7. CASE Transpile(p) BY <1>1, <1>7, GotoMoves, StopMoves DEF Transpile
<1>8. CASE Emit(p) BY <1>1, <1>8, GotoMoves DEF Emit
<1>9. CASE Compile(p) BY <1>1, <1>9, SrcMoves, StopMoves DEF Compile
<1>10. CASE Link(p) BY <1>1, <1>10, GotoMoves, StopMoves DEF Link
<1>11. CASE CheckOutput(p) BY <1>1, <1>11, GotoMoves, StopMoves DEF CheckOutput
<1>12. CASE Confirm(p) BY <1>1, <1>12, GotoMoves, StopMoves DEF Confirm
<1>13. CASE Hash(p) BY <1>1, <1>13, SeenMoves, StopMoves DEF Hash
<1>14. CASE Record(p) BY <1>1, <1>14, GotoMoves DEF Record
<1>15. CASE PrintAgain(p) BY <1>1, <1>15, GotoMoves DEF PrintAgain
<1>16. CASE HashAgain(p) BY <1>1, <1>16, SeenMoves DEF HashAgain
<1>17. CASE ReadAgain(p) BY <1>1, <1>17, GotoMoves DEF ReadAgain
<1>18. CASE Refuse(p) BY <1>1, <1>18, StopMoves DEF Refuse
<1>19. CASE Launch(p) BY <1>1, <1>19, GotoMoves, StopMoves DEF Launch
<1> QED BY <1>2, <1>3, <1>4, <1>5, <1>6, <1>7, <1>8, <1>9, <1>10, <1>11, <1>12, <1>13, <1>14,
           <1>15, <1>16, <1>17, <1>18, <1>19, <1>20, <1>21 DEF Step

LEMMA BeginMoves ==
  ASSUME TypeOK, NEW p \in Processes, NEW kind \in {"run", "build"}, NEW o \in Options,
         Begin(p, kind, o)
  PROVE  Moves(p)
<1> DEFINE s == [pc |-> IF kind = "run" THEN "decide" ELSE "discard", kind |-> kind,
                 print |-> Built(input, o), src |-> None, seen |-> Missing]
<1>1. Built(input, o) \in Prints /\ Built(input, o) \in Binaries /\ Missing \in Binaries
  BY BinaryFacts DEF TypeOK
<1>2. s \in States /\ Shape(s) BY <1>1 DEF States, Shape
<1>3. proc' = [proc EXCEPT ![p] = s] BY DEF Begin
<1> QED BY <1>2, <1>3 DEF Moves

(* A step leaves every variable in its sort. *)
LEMMA TypeStep == TypeOK /\ [Next]_vars => TypeOK'
<1> SUFFICES ASSUME TypeOK, [Next]_vars PROVE TypeOK' OBVIOUS
<1>1. UNCHANGED proc \/ \E p \in Processes : Moves(p)
  BY StepMoves, StopMoves, BeginMoves DEF Next, vars, Edit, Replace, Crash
<1>2. proc' \in [Processes -> States] /\ \A p \in Processes : Shape(proc'[p])
  BY <1>1 DEF Moves, TypeOK, Shape
<1>3. input' \in Inputs BY DEF TypeOK, Next, vars, Edit, Replace, Crash, Begin, Step,
  HashForDecision, Compare, Invalidate, Discard, DropRecord, DropBinary, ReadSource, Transpile,
  Emit, Compile, Link, CheckOutput, Confirm, Hash, Record, PrintAgain, HashAgain, ReadAgain,
  Refuse, Launch
<1>4. ir' \in Inputs \cup {None}
  <2>1. ASSUME NEW p \in Processes, Discard(p) \/ Transpile(p) \/ Emit(p)
        PROVE ir' \in Inputs \cup {None}
    BY <2>1 DEF Discard, Transpile, Emit, TypeOK
  <2>2. CASE UNCHANGED ir BY <2>2 DEF TypeOK
  <2> QED BY <2>1, <2>2 DEF Next, vars, Edit, Replace, Crash, Begin, Step, HashForDecision,
    Compare, Invalidate, Discard, DropRecord, DropBinary, ReadSource, Compile, Link,
    CheckOutput, Confirm, Hash, Record, PrintAgain, HashAgain, ReadAgain, Refuse, Launch
<1>5. binary' \in Binaries
  <2>1. ASSUME NEW p \in Processes, DropBinary(p) \/ Compile(p) \/ CheckOutput(p)
        PROVE binary' \in Binaries
    BY <2>1, BinaryFacts DEF DropBinary, Compile, CheckOutput, TypeOK
  <2>2. ASSUME NEW p \in Processes, Link(p) PROVE binary' \in Binaries
    <3>1. proc[p].src \in Inputs /\ proc[p].print \in Prints BY <2>2 DEF Link, TypeOK
    <3> QED BY <2>2, <3>1, BinaryFacts, PrintFacts DEF Link
  <2>3. CASE Replace BY <2>3, BinaryFacts DEF Replace
  <2>4. CASE UNCHANGED binary BY <2>4 DEF TypeOK
  <2> QED BY <2>1, <2>2, <2>3, <2>4 DEF Next, vars, Edit, Crash, Begin, Step, HashForDecision,
    Compare, Invalidate, Discard, DropRecord, ReadSource, Transpile, Emit, CheckOutput, Confirm,
    Hash, Record, PrintAgain, HashAgain, ReadAgain, Refuse, Launch
<1>6. record' \in [print : Binaries, artifact : Binaries]
  <2>1. ASSUME NEW p \in Processes, Invalidate(p) \/ DropRecord(p) \/ Refuse(p)
        PROVE record' \in [print : Binaries, artifact : Binaries]
    BY <2>1, BinaryFacts DEF TypeOK, Invalidate, DropRecord, Refuse
  <2>2. ASSUME NEW p \in Processes, Record(p)
        PROVE record' \in [print : Binaries, artifact : Binaries]
    <3>1. proc[p].print \in Binaries /\ proc[p].seen \in Binaries BY DEF TypeOK, States
    <3> QED BY <2>2, <3>1, BinaryFacts DEF TypeOK, Record
  <2>3. CASE UNCHANGED record BY <2>3 DEF TypeOK
  <2> QED BY <2>1, <2>2, <2>3 DEF Next, vars, Edit, Replace, Crash, Begin, Step,
    HashForDecision, Compare, Discard, DropBinary, ReadSource, Transpile, Emit, Compile, Link,
    CheckOutput, Confirm, Hash, PrintAgain, HashAgain, ReadAgain, Launch
<1>7. spent' \in [{"commands", "edits", "replaced", "crashes"} -> Nat]
  <2>1. UNCHANGED spent \/ \E what \in {"commands", "edits", "replaced", "crashes"} :
          spent' = [spent EXCEPT ![what] = @ + 1]
    BY DEF Next, vars, Edit, Replace, Crash, Begin, Spend, Step, HashForDecision, Compare,
      Invalidate, Discard, DropRecord, DropBinary, ReadSource, Transpile, Emit, Compile, Link,
      CheckOutput, Confirm, Hash, Record, PrintAgain, HashAgain, ReadAgain, Refuse, Launch
  <2> QED BY <2>1 DEF TypeOK
<1>8. mixed' \in BOOLEAN
  <2>1. ASSUME NEW p \in Processes, Touched(p) PROVE mixed' \in BOOLEAN BY <2>1 DEF Touched
  <2>2. CASE UNCHANGED mixed BY <2>2 DEF TypeOK
  <2>3. CASE Edit \/ Replace BY <2>3 DEF Edit, Replace
  <2> QED BY <2>1, <2>2, <2>3 DEF Next, vars, Crash, Begin, Step, HashForDecision, Compare,
    Invalidate, Discard, DropRecord, DropBinary, ReadSource, Transpile, Emit, Compile, Link,
    CheckOutput, Confirm, Hash, Record, PrintAgain, HashAgain, ReadAgain, Refuse, Launch
<1> QED BY <1>2, <1>3, <1>4, <1>5, <1>6, <1>7, <1>8 DEF TypeOK, Shape

-----------------------------------------------------------------------------
(* A step of one process leaves what the others know, unless it disturbs
   them, and then says so. *)
LEMMA OthersKeep ==
  ASSUME TypeOK, NEW p \in Processes, \A q \in Processes : Own(q), UNCHANGED input,
         \A q \in Processes \ {p} : proc'[q] = proc[q],
         Touched(p) \/ UNCHANGED <<ir, binary>>, ~mixed'
  PROVE  \A q \in Processes \ {p} : Own(q)'
<1> SUFFICES ASSUME NEW q \in Processes \ {p} PROVE Own(q)' OBVIOUS
<1>1. proc'[q] = proc[q] /\ Own(q) OBVIOUS
<1>2. CASE UNCHANGED <<ir, binary>> BY <1>1, <1>2 DEF Own
<1>3. CASE Touched(p)
  <2>1. ~Building(q) BY <1>3 DEF Touched
  <2> QED BY <1>1, <2>1 DEF Own, Building
<1> QED BY <1>2, <1>3

(* A process that is outside a build, or at its start, needs to know nothing
   to know it. *)
LEMMA NothingToKnow ==
  ASSUME NEW p, proc'[p].pc \notin {"transpile", "emit", "compile", "link", "built", "confirm",
                                   "hash", "record", "launch"}
  PROVE  Own(p)'
BY DEF Own

(* What a step makes of the record of the process that takes it. *)
LEMMA GotoFields ==
  ASSUME TypeOK, NEW p \in Processes, NEW c, Goto(p, c)
  PROVE  /\ proc'[p].pc = c /\ proc'[p].print = proc[p].print
         /\ proc'[p].src = proc[p].src /\ proc'[p].seen = proc[p].seen
         /\ \A q \in Processes \ {p} : proc'[q] = proc[q]
<1>1. proc[p] \in States BY DEF TypeOK
<1>2. proc'[p] = [proc[p] EXCEPT !.pc = c] BY DEF Goto, TypeOK
<1>3. \A q \in Processes \ {p} : proc'[q] = proc[q] BY DEF Goto, TypeOK
<1> QED BY <1>1, <1>2, <1>3 DEF States

LEMMA StopFields ==
  ASSUME TypeOK, NEW p \in Processes, Stop(p)
  PROVE  proc'[p].pc = "idle" /\ \A q \in Processes \ {p} : proc'[q] = proc[q]
BY DEF Stop, TypeOK, Idle

Saw(p, c) == proc' = [proc EXCEPT ![p].pc = c, ![p].seen = binary]
HasRead(p, c, i) == proc' = [proc EXCEPT ![p].pc = c, ![p].src = i]

LEMMA SeenFields ==
  ASSUME TypeOK, NEW p \in Processes, NEW c, Saw(p, c)
  PROVE  /\ proc'[p].pc = c /\ proc'[p].print = proc[p].print
         /\ proc'[p].seen = binary
         /\ \A q \in Processes \ {p} : proc'[q] = proc[q]
<1>1. proc[p] = [pc |-> proc[p].pc, kind |-> proc[p].kind, print |-> proc[p].print,
                 src |-> proc[p].src, seen |-> proc[p].seen]
  BY DEF TypeOK, States
<1>2. proc'[p] = [proc[p] EXCEPT !.pc = c, !.seen = binary] BY DEF TypeOK, Saw
<1>3. \A q \in Processes \ {p} : proc'[q] = proc[q] BY DEF TypeOK, Saw
<1>4. proc'[p] = [pc |-> c, kind |-> proc[p].kind, print |-> proc[p].print,
                  src |-> proc[p].src, seen |-> binary]
  BY <1>1, <1>2
<1> QED BY <1>3, <1>4

LEMMA SrcFields ==
  ASSUME TypeOK, NEW p \in Processes, NEW c, NEW i, HasRead(p, c, i)
  PROVE  /\ proc'[p].pc = c /\ proc'[p].print = proc[p].print /\ proc'[p].src = i
         /\ \A q \in Processes \ {p} : proc'[q] = proc[q]
<1>1. proc[p] = [pc |-> proc[p].pc, kind |-> proc[p].kind, print |-> proc[p].print,
                 src |-> proc[p].src, seen |-> proc[p].seen]
  BY DEF TypeOK, States
<1>2. proc'[p] = [proc[p] EXCEPT !.pc = c, !.src = i] BY DEF TypeOK, HasRead
<1>3. \A q \in Processes \ {p} : proc'[q] = proc[q] BY DEF TypeOK, HasRead
<1>4. proc'[p] = [pc |-> c, kind |-> proc[p].kind, print |-> proc[p].print,
                  src |-> i, seen |-> proc[p].seen]
  BY <1>1, <1>2
<1> QED BY <1>3, <1>4

(* A step of a process that leaves everything undisturbed keeps what every
   process knows and the record true. *)
LEMMA ProcessStep ==
  ASSUME IInv, NEW p \in Processes, Step(p), ~mixed'
  PROVE  RecordIsTrue' /\ \A q \in Processes : Own(q)'
<1>0. TypeOK BY DEF IInv
<1>1. ~mixed /\ UNCHANGED input
  BY <1>0 DEF TypeOK, Touched, Step, HashForDecision, Compare, Invalidate, Discard, DropRecord,
    DropBinary, ReadSource, Transpile, Emit, Compile, Link, CheckOutput, Confirm, Hash, Record,
    PrintAgain, HashAgain, ReadAgain, Refuse, Launch
<1>2. RecordIsTrue /\ \A q \in Processes : Own(q) BY <1>1 DEF IInv, Undisturbed
<1>3. Touched(p) \/ UNCHANGED <<ir, binary>>
  BY DEF Step, HashForDecision, Compare, Invalidate, Discard, DropRecord, DropBinary,
    ReadSource, Transpile, Emit, Compile, Link, CheckOutput, Confirm, Hash, Record, PrintAgain,
    HashAgain, ReadAgain, Refuse, Launch
<1>4. \A q \in Processes \ {p} : proc'[q] = proc[q]
  BY <1>0 DEF TypeOK, Goto, Stop, Step, HashForDecision, Compare, Invalidate, Discard,
    DropRecord, DropBinary, ReadSource, Transpile, Emit, Compile, Link, CheckOutput, Confirm,
    Hash, Record, PrintAgain, HashAgain, ReadAgain, Refuse, Launch
<1>5. \A q \in Processes \ {p} : Own(q)' BY <1>0, <1>1, <1>2, <1>3, <1>4, OthersKeep
<1>6. SUFFICES /\ Own(p)'
               /\ record' = record \/ record' = NoRecord \/ record'.artifact = record'.print
  BY <1>1, <1>2, <1>5 DEF RecordIsTrue
<1>7. Own(p) BY <1>2
<1>8. CASE HashForDecision(p)
  <2>1. proc'[p].pc \in {"compare", "invalidate"}
    BY <1>0, <1>8, GotoFields, SeenFields DEF HashForDecision, Saw
  <2> QED BY <1>8, <2>1, NothingToKnow DEF HashForDecision
<1>9. CASE Compare(p)
  <2>1. proc'[p].pc \in {"print_again", "invalidate"} BY <1>0, <1>9, GotoFields DEF Compare
  <2> QED BY <1>9, <2>1, NothingToKnow DEF Compare
<1>10. CASE Invalidate(p)
  <2>1. proc'[p].pc = "discard" BY <1>0, <1>10, GotoFields DEF Invalidate
  <2> QED BY <1>10, <2>1, NothingToKnow DEF Invalidate
<1>26. CASE Discard(p)
  <2>1. proc'[p].pc \in {"record_gone", "idle"} BY <1>0, <1>26, GotoFields, StopFields DEF Discard
  <2> QED BY <1>26, <2>1, NothingToKnow DEF Discard
<1>27. CASE DropRecord(p)
  <2>1. proc'[p].pc \in {"clean", "idle"} BY <1>0, <1>27, GotoFields, StopFields DEF DropRecord
  <2> QED BY <1>27, <2>1, NothingToKnow DEF DropRecord
<1>11. CASE DropBinary(p)
  <2>1. proc'[p].pc \in {"source", "idle"} BY <1>0, <1>11, GotoFields, StopFields DEF DropBinary
  <2> QED BY <1>11, <2>1, NothingToKnow DEF DropBinary
<1>12. CASE ReadSource(p)
  <2>1. CASE Stop(p) BY <1>0, <1>12, <2>1, StopFields, NothingToKnow DEF ReadSource
  <2>2. CASE HasRead(p, "transpile", input)
    <3>1. proc'[p].pc = "transpile" /\ proc'[p].src = input BY <1>0, <2>2, SrcFields
    <3> QED BY <1>1, <1>12, <3>1 DEF ReadSource, Own
  <2> QED BY <1>12, <2>1, <2>2 DEF ReadSource, HasRead
<1>13. CASE Transpile(p)
  <2>1. CASE Stop(p) BY <1>0, <1>13, <2>1, StopFields, NothingToKnow DEF Transpile
  <2>2. CASE Goto(p, "emit")
    BY <1>0, <1>1, <1>7, <1>13, <2>2, GotoFields DEF Transpile, Own
  <2> QED BY <1>13, <2>1, <2>2 DEF Transpile
<1>14. CASE Emit(p)
  BY <1>0, <1>1, <1>7, <1>14, GotoFields DEF Emit, Own
<1>15. CASE Compile(p)
  <2>1. CASE Stop(p) BY <1>0, <1>15, <2>1, StopFields, NothingToKnow DEF Compile
  <2>2. CASE HasRead(p, "link", ir)
    <3>1. proc[p].pc = "compile" /\ UNCHANGED record BY <1>15 DEF Compile
    <3>2. proc'[p].pc = "link" /\ proc'[p].src = ir /\ proc'[p].print = proc[p].print
      BY <1>0, <2>2, SrcFields
    <3> QED BY <1>1, <1>7, <3>1, <3>2 DEF Own
  <2> QED BY <1>15, <2>1, <2>2 DEF Compile, HasRead
<1>16. CASE Link(p)
  <2>1. CASE Stop(p) BY <1>0, <1>16, <2>1, StopFields, NothingToKnow DEF Link
  <2>2. CASE binary' = Built(proc[p].src, proc[p].print.opt) /\ Goto(p, "built")
    <3>1. proc[p].pc = "link" /\ proc[p].print \in Prints /\ UNCHANGED record
      BY <1>0, <1>16 DEF Link, TypeOK
    <3>2. proc'[p].pc = "built" /\ proc'[p].print = proc[p].print BY <1>0, <2>2, GotoFields
    <3>3. proc[p].print = Built(proc[p].print.input, proc[p].print.opt) BY <3>1, PrintFacts
    <3> QED BY <1>1, <1>7, <2>2, <3>1, <3>2, <3>3 DEF Own
  <2> QED BY <1>16, <2>1, <2>2 DEF Link
<1>17. CASE CheckOutput(p)
  <2>1. CASE Stop(p) BY <1>0, <1>17, <2>1, StopFields, NothingToKnow DEF CheckOutput
  <2>2. CASE Goto(p, "confirm")
    <3>1. proc'[p].pc = "confirm" /\ proc'[p].print = proc[p].print BY <1>0, <2>2, GotoFields
    <3>2. ~Stop(p) BY <1>0, <3>1, StopFields
    <3>3. proc[p].pc = "built" /\ UNCHANGED <<binary, record>> BY <1>17, <3>2 DEF CheckOutput
    <3> QED BY <1>1, <1>7, <3>1, <3>3 DEF Own
  <2> QED BY <1>17, <2>1, <2>2 DEF CheckOutput
<1>18. CASE Confirm(p)
  <2>1. CASE Stop(p) BY <1>0, <1>18, <2>1, StopFields, NothingToKnow DEF Confirm
  <2>2. CASE Goto(p, "hash") /\ input = proc[p].print.input
    BY <1>0, <1>1, <1>7, <1>18, <2>2, GotoFields DEF Confirm, Own
  <2> QED BY <1>18, <2>1, <2>2 DEF Confirm
<1>19. CASE Hash(p)
  <2>1. proc[p].pc = "hash" /\ UNCHANGED record BY <1>19 DEF Hash
  <2>2. CASE Stop(p) BY <1>0, <2>1, <2>2, StopFields, NothingToKnow
  <2>3. CASE Saw(p, "record")
    <3>1. proc'[p].pc = "record" /\ proc'[p].seen = binary /\ proc'[p].print = proc[p].print
      BY <1>0, <2>3, SeenFields
    <3> QED BY <1>7, <2>1, <3>1 DEF Own
  <2> QED BY <1>19, <2>2, <2>3 DEF Hash, Saw
<1>20. CASE Record(p)
  <2>1. Own(p)'
    <3>1. proc'[p].pc = "print_again" BY <1>0, <1>20, GotoFields DEF Record
    <3> QED BY <3>1, NothingToKnow
  <2>2. proc[p].seen = proc[p].print BY <1>7, <1>20 DEF Own, Record
  <2> QED BY <1>20, <2>1, <2>2 DEF Record, Recorded
<1>21. CASE PrintAgain(p)
  <2>1. proc'[p].pc \in {"hash_again", "refuse"} BY <1>0, <1>21, GotoFields DEF PrintAgain
  <2> QED BY <1>21, <2>1, NothingToKnow DEF PrintAgain
<1>22. CASE HashAgain(p)
  <2>1. proc'[p].pc = "read_again" BY <1>0, <1>22, SeenFields DEF HashAgain, Saw
  <2> QED BY <1>22, <2>1, NothingToKnow DEF HashAgain
<1>23. CASE ReadAgain(p)
  <2>1. CASE Goto(p, "refuse") BY <1>0, <1>23, <2>1, GotoFields, NothingToKnow DEF ReadAgain
  <2>2. CASE Goto(p, "launch") /\ Admits(p)
    <3>1. proc[p].print \in Prints /\ UNCHANGED record BY <1>0, <1>23 DEF ReadAgain, TypeOK
    <3>2. record.print = proc[p].print /\ record.artifact = proc[p].seen
      BY <2>2 DEF Admits, Recorded
    <3>3. record # NoRecord BY <3>1, <3>2, PrintFacts DEF NoRecord, Recorded
    <3>4. proc[p].seen = proc[p].print BY <1>1, <1>2, <3>2, <3>3 DEF RecordIsTrue
    <3>5. proc'[p].pc = "launch" /\ proc'[p].seen = proc[p].seen /\ proc'[p].print = proc[p].print
      BY <1>0, <2>2, GotoFields
    <3> QED BY <3>1, <3>4, <3>5 DEF Own
  <2> QED BY <1>23, <2>1, <2>2 DEF ReadAgain
<1>24. CASE Refuse(p)
  <2>1. proc'[p].pc = "idle" BY <1>0, <1>24, StopFields DEF Refuse
  <2> QED BY <1>24, <2>1, NothingToKnow DEF Refuse
<1>25. CASE Launch(p)
  <2>1. proc'[p].pc \in {"idle", "refuse"} BY <1>0, <1>25, StopFields, GotoFields DEF Launch
  <2> QED BY <1>25, <2>1, NothingToKnow DEF Launch
<1> QED BY <1>8, <1>9, <1>10, <1>11, <1>12, <1>13, <1>14, <1>15, <1>16, <1>17, <1>18, <1>19, <1>20,
           <1>21, <1>22, <1>23, <1>24, <1>25, <1>26, <1>27 DEF Step

(* So does every other step. *)
LEMMA UndisturbedStep == IInv /\ [Next]_vars => Undisturbed'
<1> SUFFICES ASSUME IInv, [Next]_vars, ~mixed'
             PROVE RecordIsTrue' /\ \A q \in Processes : Own(q)'
  BY DEF Undisturbed
<1>0. TypeOK /\ (~mixed => RecordIsTrue /\ \A q \in Processes : Own(q))
  BY DEF IInv, Undisturbed
<1>1. CASE UNCHANGED vars BY <1>0, <1>1 DEF vars, RecordIsTrue, Own
<1>2. CASE Edit
  <2>1. ~mixed /\ UNCHANGED <<ir, binary, record, proc>> BY <1>0, <1>2 DEF Edit, TypeOK
  <2>2. \A q \in Processes : Building(q) => proc[q].print.input # input'
    BY <1>2 DEF Edit
  <2>3. \A q \in Processes : Own(q)'
    BY <1>0, <2>1, <2>2 DEF Own, Building
  <2> QED BY <1>0, <2>1, <2>3 DEF RecordIsTrue
<1>3. CASE Replace
  <2>1. ~mixed /\ UNCHANGED <<input, ir, record, proc>> BY <1>0, <1>3 DEF Replace, TypeOK
  <2>2. \A q \in Processes : ~Building(q) BY <1>3 DEF Replace
  <2>3. \A q \in Processes : Own(q)'
    BY <1>0, <2>1, <2>2 DEF Own, Building
  <2> QED BY <1>0, <2>1, <2>3 DEF RecordIsTrue
<1>4. ASSUME NEW p \in Processes, Step(p) PROVE RecordIsTrue' /\ \A q \in Processes : Own(q)'
  BY <1>4, ProcessStep
<1>5. ASSUME NEW p \in Processes, UNCHANGED <<input, ir, binary, record, mixed>>,
             proc'[p].pc \in {"idle", "decide", "discard"},
             \A q \in Processes \ {p} : proc'[q] = proc[q]
      PROVE RecordIsTrue' /\ \A q \in Processes : Own(q)'
  <2>1. Own(p)' BY <1>5, NothingToKnow
  <2>2. \A q \in Processes \ {p} : Own(q)' BY <1>0, <1>5, OthersKeep
  <2> QED BY <1>0, <1>5, <2>1, <2>2 DEF RecordIsTrue
<1>6. ASSUME NEW p \in Processes, Crash(p) PROVE RecordIsTrue' /\ \A q \in Processes : Own(q)'
  BY <1>0, <1>5, <1>6, StopFields DEF Crash
<1>7. ASSUME NEW p \in Processes, NEW kind \in {"run", "build"}, NEW o \in Options,
             Begin(p, kind, o)
      PROVE RecordIsTrue' /\ \A q \in Processes : Own(q)'
  <2>1. proc'[p].pc \in {"decide", "discard"} /\ \A q \in Processes \ {p} : proc'[q] = proc[q]
    BY <1>0, <1>7 DEF Begin, TypeOK
  <2> QED BY <1>5, <1>7, <2>1 DEF Begin
<1> QED BY <1>1, <1>2, <1>3, <1>4, <1>6, <1>7 DEF Next

LEMMA FreshnessInvariant == Spec => []IInv
<1>1. ASSUME Init PROVE IInv
  <2>1. proc \in [Processes -> States] /\ \A p \in Processes : proc[p] = Idle
    BY <1>1, IdleFacts DEF Init
  <2>2. TypeOK
    <3>1. input \in Inputs /\ ir \in Inputs \cup {None} /\ binary \in Binaries
          /\ record \in [print : Binaries, artifact : Binaries] /\ mixed \in BOOLEAN
      BY <1>1, BinaryFacts DEF Init
    <3>2. spent \in [{"commands", "edits", "replaced", "crashes"} -> Nat]
      <4>1. spent = [what \in {"commands", "edits", "replaced", "crashes"} |-> 0]
        BY <1>1 DEF Init
      <4> QED BY <4>1
    <3>3. \A p \in Processes : proc[p].pc = "idle" BY <2>1 DEF Idle
    <3> QED BY <2>1, <3>1, <3>2, <3>3 DEF TypeOK
  <2>3. Undisturbed BY <1>1, <2>1 DEF Init, Undisturbed, RecordIsTrue, Own, Idle
  <2> QED BY <2>2, <2>3 DEF IInv
<1>2. IInv /\ [Next]_vars => IInv'
  BY TypeStep, UndisturbedStep DEF IInv
<1> QED BY <1>1, <1>2, PTL DEF Spec

-----------------------------------------------------------------------------
(* The commands keep every file and every process in its sort. *)
THEOREM TypeCorrect == Spec => []TypeOK
<1>1. IInv => TypeOK BY DEF IInv
<1> QED BY <1>1, FreshnessInvariant, PTL

(* No sequence of runs, builds, failures, edits, replaced binaries and killed
   processes leaves a false record, unless a build was disturbed. *)
THEOREM RecordTrue == Spec => []RecordIsTrue
<1>1. IInv => RecordIsTrue BY DEF IInv, Undisturbed, RecordIsTrue
<1> QED BY <1>1, FreshnessInvariant, PTL

(* Nor does it make a run admit a binary that was not built for it. *)
THEOREM OwnIsLaunched == Spec => []LaunchesItsOwn
<1>1. IInv => LaunchesItsOwn BY DEF IInv, Undisturbed, Own, LaunchesItsOwn
<1> QED BY <1>1, FreshnessInvariant, PTL
=============================================================================
