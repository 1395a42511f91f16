------------------------- MODULE PackageStoreProofs -------------------------
(***************************************************************************)
(* What hangar.py keeps for every number of packages, processes, commands  *)
(* and crashes.                                                            *)
(***************************************************************************)
EXTENDS PackageStore, TLAPS

(* What the place of a command says of it: only add and install fetch, only
   remove takes apart, and whoever publishes has a number of its own. *)
Shape(c) ==
  /\ c.pc \in {"look", "stage", "again", "publish", "find", "empty", "unlink"} =>
       c.name \in Packages
  /\ c.pc \in {"write", "fill"} /\ c.op # "version" => c.name \in Packages
  /\ c.pc = "idle" => c.op = "none"
  /\ c.pc \in {"next", "look", "stage", "again", "publish"} =>
       c.op \in {"add", "install"} /\ c.id # 0
  /\ c.pc = "next" => c.op = "install"
  /\ c.pc \in {"write", "fill"} => c.op \in {"add", "remove", "version"}
  /\ c.pc \in {"find", "empty", "unlink"} => c.op = "remove"

Stations == \A p \in Processes : Shape(cmd[p])

(* Commands that do not overlap. *)
Alone == \A p, q \in Processes : cmd[p] # Idle /\ cmd[q] # Idle => p = q

(* What a command knows of the promises, having read the manifest: it will
   write all of them back, but the one it removes, and an add that writes
   has its package in the store. *)
Knows(p) ==
  /\ cmd[p].op \in {"add", "version"} => promised \subseteq cmd[p].read.deps
  /\ cmd[p].op = "add" =>
       /\ cmd[p].name \in cmd[p].read.deps
       /\ cmd[p].pc \in {"write", "fill"} => Whole(cmd[p].name)
  /\ cmd[p].op = "remove" =>
       /\ cmd[p].pc \in {"write", "fill"} => promised \ {cmd[p].name} \subseteq cmd[p].read.deps
       /\ cmd[p].pc \in {"find", "empty", "unlink"} => cmd[p].name \notin promised

Ordered == ~disturbed => Alone /\ \A p \in Processes : Knows(p)

(* What a command will write back records no tree that is partly gone: add
   has yet to find or make its own, remove has struck off the one it is going
   to take apart. *)
Intact(deps) == \A n \in deps : Found(n) => Whole(n)
Sound(p) ==
  /\ cmd[p].op \in {"version", "remove"} => Intact(cmd[p].read.deps)
  /\ cmd[p].op = "add" => Intact(cmd[p].read.deps \ {cmd[p].name})
  /\ cmd[p].op = "remove" =>
       /\ cmd[p].name \notin cmd[p].read.deps
       /\ cmd[p].pc \in {"find", "empty", "unlink"} => cmd[p].name \notin manifest.deps
Recorded == ~disturbed => Intact(manifest.deps) /\ \A p \in Processes : Sound(p)

IInv == TypeOK /\ Stations /\ Ordered /\ AddedIsUsable /\ Recorded

-----------------------------------------------------------------------------
(* A step gives one command a well-formed record, or leaves them all. *)
Moves(p) == \E c \in Commands : Shape(c) /\ cmd' = [cmd EXCEPT ![p] = c]

LEMMA IdleIsCommand == Idle \in Commands /\ Shape(Idle)
BY DEF Idle, Commands, Manifests, Blank, Shape

(* A command that moves on, or gives up, keeps the sort of its record. *)
LEMMA GotoMoves ==
  ASSUME TypeOK, NEW p \in Processes, NEW c, Goto(p, c), [cmd[p] EXCEPT !.pc = c] \in Commands,
         Shape([cmd[p] EXCEPT !.pc = c])
  PROVE  Moves(p)
BY DEF TypeOK, Goto, Moves

LEMMA GiveUpMoves ==
  ASSUME TypeOK, Stations, NEW p \in Processes, GiveUp(p),
         cmd[p].pc \in {"look", "stage", "again", "publish"}
  PROVE  Moves(p)
<1>1. CASE cmd[p].op = "install"
  <2> DEFINE c == [cmd[p] EXCEPT !.pc = "next", !.todo = @ \ {cmd[p].name}]
  <2>1. cmd' = [cmd EXCEPT ![p] = c] BY <1>1 DEF GiveUp
  <2>2. c \in Commands /\ Shape(c) BY <1>1 DEF TypeOK, Stations, Commands, Shape
  <2> QED BY <2>1, <2>2 DEF Moves
<1>2. CASE cmd[p].op # "install" BY <1>2, IdleIsCommand DEF GiveUp, Stop, Moves
<1> QED BY <1>1, <1>2

(* A command begins with a record of its sort. *)
LEMMA ReadsShape ==
  ASSUME TypeOK,
         NEW op \in {"add", "install", "remove", "version"}, NEW at \in {"next", "look", "write"},
         at = "look" => op = "add", at = "next" => op = "install", at = "write" => op # "install",
         NEW n, n \in IF op \in {"add", "remove"} THEN Packages ELSE {"none"},
         NEW read \in Manifests, NEW todo \in SUBSET Packages
  PROVE  Reads(op, at, n, read, todo) \in Commands /\ Shape(Reads(op, at, n, read, todo))
<1>1. started + 1 \in Nat /\ started + 1 # 0 BY DEF TypeOK
<1> QED BY <1>1 DEF Reads, Commands, Shape

LEMMA BeginMoves ==
  ASSUME TypeOK, NEW p \in Processes,
         \/ Install(p) \/ Version(p) \/ \E n \in Packages : Add(p, n) \/ Remove(p, n)
  PROVE  Moves(p)
<1>1. ASSUME NEW c \in Commands, Shape(c), Begin(p, c) PROVE Moves(p)
  BY <1>1 DEF Begin, Moves
<1>2. manifest.deps \in SUBSET Packages /\ manifest \in Manifests BY DEF TypeOK, Manifests
<1>3. CASE Install(p) BY <1>1, <1>2, <1>3, ReadsShape DEF Install
<1>4. CASE Version(p)
  <2>1. [manifest EXCEPT !.project = TRUE] \in Manifests BY <1>2 DEF Manifests
  <2> QED BY <1>1, <1>4, <2>1, ReadsShape DEF Version
<1>5. ASSUME NEW n \in Packages, Add(p, n) PROVE Moves(p)
  <2>1. Recording(n) \in Manifests /\ {n} \in SUBSET Packages
    BY <1>2 DEF Recording, Manifests
  <2> QED BY <1>1, <1>5, <2>1, ReadsShape DEF Add
<1>6. ASSUME NEW n \in Packages, Remove(p, n) PROVE Moves(p)
  <2>1. [manifest EXCEPT !.deps = @ \ {n}] \in Manifests BY <1>2 DEF Manifests
  <2> QED BY <1>1, <1>6, <2>1, ReadsShape DEF Remove
<1> QED BY <1>3, <1>4, <1>5, <1>6

(* So does every step of a command. *)
LEMMA StepMoves ==
  ASSUME TypeOK, Stations, NEW p \in Processes, Step(p) \/ Crash(p)
  PROVE  Moves(p) \/ UNCHANGED cmd
<1> DEFINE At(c) == [cmd[p] EXCEPT !.pc = c]
<1>0. cmd[p] \in Commands /\ Shape(cmd[p]) BY DEF TypeOK, Stations
<1>1. ASSUME NEW c, Goto(p, c), At(c) \in Commands, Shape(At(c)) PROVE Moves(p)
  BY <1>1, GotoMoves
<1>2. Stop(p) => Moves(p) BY IdleIsCommand DEF Stop, Moves
<1>3. CASE NextPackage(p)
  <2>1. ASSUME NEW n \in cmd[p].todo, cmd' = [cmd EXCEPT ![p].name = n, ![p].pc = "look"]
        PROVE Moves(p)
    <3>1. [cmd[p] EXCEPT !.name = n, !.pc = "look"] \in Commands
      BY <1>0, <2>1 DEF Commands
    <3>2. Shape([cmd[p] EXCEPT !.name = n, !.pc = "look"])
      BY <1>0, <1>3, <2>1 DEF Commands, Shape, NextPackage
    <3>3. cmd' = [cmd EXCEPT ![p] = [cmd[p] EXCEPT !.name = n, !.pc = "look"]] BY <2>1
    <3> QED BY <3>1, <3>2, <3>3 DEF Moves
  <2> QED BY <1>2, <1>3, <2>1 DEF NextPackage
<1>4. CASE Look(p) \/ StageFails(p) \/ Stage(p) \/ LookAgain(p)
  <2>1. cmd[p].pc \in {"look", "stage", "again"} /\ \A c \in {"stage", "again", "publish"} :
          At(c) \in Commands /\ Shape(At(c))
    BY <1>0, <1>4 DEF Look, StageFails, Stage, LookAgain, Commands, Shape
  <2>2. GiveUp(p) \/ \E c \in {"stage", "again", "publish"} : Goto(p, c)
    BY <1>4 DEF Look, StageFails, Stage, LookAgain
  <2> QED BY <1>1, <2>1, <2>2, GiveUpMoves
<1>5. CASE Publish(p)
  <2>1. CASE MayPublish(cmd[p].name)
    <3> DEFINE c == [cmd[p] EXCEPT !.pc = IF cmd[p].op = "install" THEN "next" ELSE "write",
                                   !.todo = @ \ {cmd[p].name}]
    <3>1. cmd' = [cmd EXCEPT ![p] = c] BY <1>5, <2>1 DEF Publish
    <3>2. c \in Commands /\ Shape(c) BY <1>0, <1>5 DEF Publish, Commands, Shape
    <3> QED BY <3>1, <3>2 DEF Moves
  <2>2. CASE ~MayPublish(cmd[p].name) BY <1>5, <2>2, GiveUpMoves DEF Publish
  <2> QED BY <2>1, <2>2
<1>6. CASE Cut(p)
  <2>1. At("fill") \in Commands /\ Shape(At("fill")) BY <1>0, <1>6 DEF Cut, Commands, Shape
  <2> QED BY <1>1, <1>6, <2>1 DEF Cut
<1>7. CASE Fill(p)
  <2>1. cmd[p].op = "remove" => At("find") \in Commands /\ Shape(At("find"))
    BY <1>0, <1>7 DEF Fill, Commands, Shape
  <2> QED BY <1>1, <1>2, <1>7, <2>1 DEF Fill
<1>8. CASE Find(p)
  <2>1. CASE Found(cmd[p].name)
    <3> DEFINE c == [cmd[p] EXCEPT !.pc = "empty", !.id = store[cmd[p].name].id]
    <3>1. cmd' = [cmd EXCEPT ![p] = c] BY <1>8, <2>1 DEF Find
    <3>2. store[cmd[p].name].id \in Nat BY <1>0, <1>8 DEF Find, TypeOK, Shape
    <3>3. c \in Commands /\ Shape(c) BY <1>0, <1>8, <3>2 DEF Find, Commands, Shape
    <3> QED BY <3>1, <3>3 DEF Moves
  <2> QED BY <1>2, <1>8, <2>1 DEF Find
<1>9. CASE Empty(p)
  <2>1. At("unlink") \in Commands /\ Shape(At("unlink")) BY <1>0, <1>9 DEF Empty, Commands, Shape
  <2> QED BY <1>1, <1>2, <1>9, <2>1 DEF Empty
<1>10. CASE Unlink(p) \/ Crash(p) BY <1>2, <1>10 DEF Unlink, Crash
<1> QED BY <1>3, <1>4, <1>5, <1>6, <1>7, <1>8, <1>9, <1>10 DEF Step

(* A step leaves every variable in its sort, and every command in shape. *)
LEMMA TypeStep == TypeOK /\ Stations /\ [Next]_vars => TypeOK' /\ Stations'
<1> SUFFICES ASSUME TypeOK, Stations, [Next]_vars PROVE TypeOK' /\ Stations' OBVIOUS
<1>1. UNCHANGED cmd \/ \E p \in Processes : Moves(p)
  BY BeginMoves, StepMoves DEF Next, vars
<1>2. cmd' \in [Processes -> Commands] /\ Stations'
  BY <1>1 DEF Moves, TypeOK, Stations
<1>3. /\ manifest' \in Manifests /\ promised' \in SUBSET Packages
      /\ started' \in Nat /\ crashes' \in Nat /\ disturbed' \in BOOLEAN
  <2>1. CASE UNCHANGED vars BY <2>1 DEF vars, TypeOK
  <2>2. ASSUME NEW p \in Processes, Fill(p)
        PROVE manifest' \in Manifests /\ promised' \in SUBSET Packages
    BY <2>2 DEF Fill, TypeOK, Stations, Shape, Commands
  <2>3. ASSUME NEW p \in Processes, Cut(p) PROVE manifest' \in Manifests
    BY <2>3 DEF Cut, Blank, Manifests
  <2>8. started \in Nat /\ crashes \in Nat /\ started + 1 \in Nat /\ crashes + 1 \in Nat
    BY DEF TypeOK
  <2> USE DEF Next, vars, Step, Install, Version, Add, Remove, Begin, NextPackage, Look, StageFails,
              Stage, LookAgain, Publish, Cut, Fill, Find, Empty, Unlink, Crash
  <2>4. started' \in Nat /\ crashes' \in Nat
    <3>1. started' \in {started, started + 1} /\ crashes' \in {crashes, crashes + 1} OBVIOUS
    <3> QED BY <2>8, <3>1, Zenon
  <2>5. UNCHANGED disturbed \/ disturbed' \in BOOLEAN BY Zenon
  <2>6. UNCHANGED manifest \/ \E p \in Processes : Cut(p) \/ Fill(p) OBVIOUS
  <2>7. UNCHANGED promised \/ \E p \in Processes : Fill(p) OBVIOUS
  <2> QED BY <2>2, <2>3, <2>4, <2>5, <2>6, <2>7 DEF TypeOK
<1>4. store' \in [Packages -> [id : Nat, holds : {"all", "some", "nothing"}]]
  <2>1. CASE UNCHANGED store BY <2>1 DEF TypeOK
  <2>2. ASSUME NEW p \in Processes, Publish(p), ~UNCHANGED store PROVE store' \in [Packages -> [id : Nat, holds : {"all", "some", "nothing"}]]
    BY <2>2 DEF TypeOK, Commands, Publish, Tree
  <2>3. ASSUME NEW p \in Processes, Empty(p) PROVE store' \in [Packages -> [id : Nat, holds : {"all", "some", "nothing"}]]
    BY <2>3 DEF TypeOK, Empty
  <2>4. ASSUME NEW p \in Processes, Unlink(p) PROVE store' \in [Packages -> [id : Nat, holds : {"all", "some", "nothing"}]]
    BY <2>4 DEF TypeOK, Unlink, Absent
  <2> QED BY <2>1, <2>2, <2>3, <2>4 DEF Next, vars, Step, Install, Version, Add, Remove, Begin,
             NextPackage, Look, StageFails, Stage, LookAgain, Cut, Fill, Find, Crash
<1> QED BY <1>2, <1>3, <1>4 DEF TypeOK, Stations, Shape

(* A command that begins undisturbed finds all others idle, and reads every
   promise in the manifest. *)
LEMMA BeginKeeps ==
  ASSUME IInv, NEW p \in Processes, NEW command \in Commands, Begin(p, command),
         command.op = "add" => /\ command.name \in command.read.deps
                               /\ manifest.deps \subseteq command.read.deps,
         command.op = "version" => manifest.deps \subseteq command.read.deps,
         command.op = "remove" => manifest.deps \ {command.name} \subseteq command.read.deps,
         command.op = "remove" => command.pc = "write",
         command.op = "add" => command.pc = "look",
         command.pc # "fill"
  PROVE  Ordered' /\ AddedIsUsable'
<1> SUFFICES ASSUME ~disturbed' PROVE Alone' /\ (\A q \in Processes : Knows(q)') /\ AddedIsUsable'
  BY DEF Ordered, AddedIsUsable
<1>1. ~disturbed /\ \A q \in Processes : cmd[q] = Idle BY DEF Begin, IInv, TypeOK
<1>2. promised \subseteq manifest.deps /\ \A n \in promised : Whole(n)
  BY <1>1 DEF IInv, AddedIsUsable, Idle, TypeOK
<1>3. /\ cmd' = [cmd EXCEPT ![p] = command]
      /\ UNCHANGED <<manifest, store, promised>>
  BY DEF Begin
<1>4. \A q \in Processes : cmd'[q] = IF q = p THEN command ELSE Idle
  BY <1>1, <1>3 DEF IInv, TypeOK
<1>5. Alone' BY <1>4 DEF Alone
<1>6. \A q \in Processes : Knows(q)'
  BY <1>2, <1>3, <1>4 DEF Knows, Idle
<1>7. AddedIsUsable'
  BY <1>2, <1>3, <1>4 DEF AddedIsUsable, Whole, Found, Idle
<1> QED BY <1>5, <1>6, <1>7

(* What install and remove remain while they go through their packages. *)
LEMMA InstallStays ==
  ASSUME TypeOK, Stations, NEW p \in Processes, NextPackage(p)
  PROVE  cmd'[p].op \in {"install", "none"} /\ cmd'[p].pc # "fill"
<1>1. cmd[p] \in Commands /\ cmd[p].op = "install" BY DEF TypeOK, Stations, Shape, NextPackage
<1>2. CASE cmd' = [cmd EXCEPT ![p] = Idle] BY <1>2 DEF TypeOK, Idle
<1>3. ASSUME NEW n, cmd' = [cmd EXCEPT ![p].name = n, ![p].pc = "look"]
      PROVE cmd'[p].op \in {"install", "none"} /\ cmd'[p].pc # "fill"
  BY <1>1, <1>3 DEF TypeOK, Commands
<1> QED BY <1>2, <1>3 DEF NextPackage, Stop

LEMMA RemoveStays ==
  ASSUME TypeOK, Stations, NEW p \in Processes, Empty(p)
  PROVE  /\ cmd'[p].op = "none" \/ (cmd'[p].op = "remove" /\ cmd'[p].name = cmd[p].name)
         /\ cmd'[p].pc \in {"idle", "empty", "unlink"}
<1>1. cmd[p] \in Commands /\ cmd[p].op = "remove" /\ cmd[p].pc = "empty"
  BY DEF TypeOK, Stations, Shape, Empty
<1>2. CASE Stop(p)
  <2>1. cmd'[p] = Idle BY <1>2 DEF TypeOK, Stop
  <2>2. Idle.op = "none" /\ Idle.pc = "idle" BY DEF Idle
  <2> QED BY <2>1, <2>2
<1>3. CASE Goto(p, "unlink") BY <1>1, <1>3 DEF TypeOK, Commands, Goto
<1>4. CASE UNCHANGED cmd BY <1>1, <1>4
<1> QED BY <1>2, <1>3, <1>4 DEF Empty

(* Without disturbance a step keeps every promise: it touches a promised
   package neither in the store nor in what it writes back. *)
LEMMA PromiseStep == IInv /\ [Next]_vars => Ordered' /\ AddedIsUsable'
<1> SUFFICES ASSUME IInv, [Next]_vars PROVE Ordered' /\ AddedIsUsable' OBVIOUS
<1>1. CASE UNCHANGED vars
  BY <1>1 DEF vars, IInv, Ordered, AddedIsUsable, Alone, Knows, Whole, Found
<1>2. ASSUME NEW p \in Processes, Install(p) PROVE Ordered' /\ AddedIsUsable'
  <2> DEFINE c == Reads("install", "next", "none", manifest, manifest.deps)
  <2>1. c \in Commands /\ c.op = "install" /\ c.pc = "next"
    BY DEF Reads, Commands, IInv, TypeOK, Manifests
  <2>2. Begin(p, c) BY <1>2 DEF Install
  <2> HIDE DEF c
  <2> QED BY <2>1, <2>2, BeginKeeps
<1>3. ASSUME NEW p \in Processes, Version(p) PROVE Ordered' /\ AddedIsUsable'
  <2> DEFINE r == [manifest EXCEPT !.project = TRUE]
             c == Reads("version", "write", "none", r, {})
  <2>0. r \in Manifests /\ r.deps = manifest.deps BY DEF IInv, TypeOK, Manifests
  <2>1. c \in Commands /\ c.op = "version" /\ c.pc = "write" /\ c.read.deps = manifest.deps
    BY <2>0, ReadsShape DEF IInv, Reads
  <2>2. Begin(p, c) BY <1>3 DEF Version
  <2> HIDE DEF c
  <2> QED BY <2>1, <2>2, BeginKeeps
<1>4. ASSUME NEW p \in Processes, NEW n \in Packages, Add(p, n)
      PROVE Ordered' /\ AddedIsUsable'
  <2> DEFINE c == Reads("add", "look", n, Recording(n), {n})
  <2>1. /\ c \in Commands /\ c.op = "add" /\ c.pc = "look" /\ c.name = n
        /\ c.read.deps = manifest.deps \cup {n}
    BY DEF Reads, Recording, Commands, IInv, TypeOK, Manifests
  <2>2. Begin(p, c) BY <1>4 DEF Add
  <2> HIDE DEF c
  <2> QED BY <2>1, <2>2, BeginKeeps
<1>5. ASSUME NEW p \in Processes, NEW n \in Packages, Remove(p, n)
      PROVE Ordered' /\ AddedIsUsable'
  <2> DEFINE r == [manifest EXCEPT !.deps = @ \ {n}]
             c == Reads("remove", "write", n, r, {})
  <2>0. r \in Manifests /\ r.deps = manifest.deps \ {n} BY DEF IInv, TypeOK, Manifests
  <2>1. /\ c \in Commands /\ c.op = "remove" /\ c.pc = "write" /\ c.name = n
        /\ c.read.deps = manifest.deps \ {n}
    BY <2>0, ReadsShape DEF IInv, Reads
  <2>2. Begin(p, c) BY <1>5 DEF Remove
  <2> HIDE DEF c
  <2> QED BY <2>1, <2>2, BeginKeeps
<1>6. ASSUME NEW p \in Processes, Step(p) \/ Crash(p) PROVE Ordered' /\ AddedIsUsable'
  <2> SUFFICES ASSUME ~disturbed'
               PROVE Alone' /\ (\A q \in Processes : Knows(q)') /\ AddedIsUsable'
    BY DEF Ordered, AddedIsUsable
  <2>1. ~disturbed
    BY <1>6 DEF Step, Crash, NextPackage, Look, StageFails, Stage, LookAgain, Publish, Cut, Fill,
                Find, Empty, Unlink
  <2>2. Alone /\ (\A q \in Processes : Knows(q)) /\ \A n \in promised : Whole(n)
    BY <2>1 DEF IInv, Ordered, AddedIsUsable
  <2>3. cmd[p] # Idle
    BY <1>6 DEF Step, Crash, NextPackage, Look, StageFails, Stage, LookAgain, Publish, Cut, Fill,
                Find, Empty, Unlink, Idle
  <2>4. \A q \in Processes \ {p} : cmd[q] = Idle BY <2>2, <2>3 DEF Alone
  <2>5. \A q \in Processes \ {p} : cmd'[q] = Idle
    BY <1>6, <2>4 DEF IInv, TypeOK, Step, Crash, NextPackage, Look, StageFails, Stage, LookAgain,
                      Publish, Cut, Fill, Find, Empty, Unlink, Goto, Stop, GiveUp
  <2>6. Alone' BY <2>5 DEF Alone
  <2>7. (\A q \in Processes : cmd[q].pc # "fill") <=> cmd[p].pc # "fill"
    BY <2>4 DEF Idle
  <2>8. cmd[p].pc # "fill" => promised \subseteq manifest.deps
    BY <2>1, <2>7 DEF IInv, AddedIsUsable
  <2>9. SUFFICES /\ Knows(p)' /\ \A n \in promised' : Whole(n)'
                 /\ cmd'[p].pc # "fill" => promised' \subseteq manifest'.deps
    <3>1. \A q \in Processes \ {p} : Knows(q)' BY <2>5 DEF Knows, Idle
    <3> QED BY <2>6, <2>9, <3>1 DEF AddedIsUsable
  <2> USE <2>2, <2>8 DEF IInv, TypeOK, Stations, Shape, Commands, Manifests, Knows, Idle
  <2>10. CASE NextPackage(p)
    <3>1. UNCHANGED <<manifest, store, promised>> /\ cmd[p].pc # "fill" BY <2>10 DEF NextPackage
    <3>2. cmd'[p].op \in {"install", "none"} /\ cmd'[p].pc # "fill" BY <2>10, InstallStays
    <3> QED BY <3>1, <3>2 DEF Whole, Found
  <2>11. CASE Look(p) \/ StageFails(p) \/ Stage(p) \/ LookAgain(p)
    BY <2>11 DEF Look, StageFails, Stage, LookAgain, GiveUp, Goto, Stop, Whole, Found
  <2>12. CASE Publish(p)
    <3>1. CASE Found(cmd[p].name)
      BY <2>12, <3>1 DEF Publish, MayPublish, GiveUp, Stop, Whole, Found
    <3>2. CASE ~Found(cmd[p].name)
      <4>1. store' = [store EXCEPT ![cmd[p].name] = Tree(cmd[p].id, "all")] /\ UNCHANGED promised
        BY <2>12, <3>2 DEF Publish, MayPublish
      <4>2. cmd[p].name \in Packages /\ cmd[p].id # 0 BY <2>12 DEF Publish
      <4>3. store'[cmd[p].name] = Tree(cmd[p].id, "all") BY <4>1, <4>2
      <4>4. Whole(cmd[p].name)' \/ cmd'[p].name # cmd[p].name BY <4>2, <4>3 DEF Whole, Found, Tree
      <4>5. \A n \in promised' : Whole(n)'
        BY <3>2, <4>1, <4>2 DEF Whole, Found
      <4>6. /\ cmd'[p].op = cmd[p].op /\ cmd'[p].name = cmd[p].name
            /\ cmd'[p].read = cmd[p].read /\ cmd'[p].pc \in {"next", "write"}
        <5> DEFINE c == [cmd[p] EXCEPT !.pc = IF cmd[p].op = "install" THEN "next" ELSE "write",
                                       !.todo = @ \ {cmd[p].name}]
        <5>1. cmd' = [cmd EXCEPT ![p] = c] BY <2>12, <3>2 DEF Publish, MayPublish
        <5>2. cmd'[p] = c BY <5>1
        <5>3. /\ c.op = cmd[p].op /\ c.name = cmd[p].name /\ c.read = cmd[p].read
              /\ c.pc \in {"next", "write"}
          OBVIOUS
        <5> QED BY <5>2, <5>3
      <4>7. UNCHANGED <<manifest, promised>> /\ cmd[p].pc # "fill" /\ cmd[p].op \in {"add", "install"}
        BY <2>12 DEF Publish
      <4> QED BY <4>4, <4>5, <4>6, <4>7
    <3> QED BY <3>1, <3>2
  <2>13. CASE Cut(p)
    BY <2>13 DEF Cut, Goto, Whole, Found
  <2>14. CASE Fill(p)
    BY <2>14 DEF Fill, Goto, Stop, Whole, Found
  <2>15. CASE Find(p)
    BY <2>15 DEF Find, Stop, Whole, Found
  <2>16. CASE Empty(p)
    <3>1. UNCHANGED <<manifest, promised>> /\ cmd[p].pc # "fill" /\ cmd[p].name \notin promised
      BY <2>16 DEF Empty
    <3>2. /\ cmd'[p].op = "none" \/ (cmd'[p].op = "remove" /\ cmd'[p].name = cmd[p].name)
          /\ cmd'[p].pc \in {"idle", "empty", "unlink"}
      BY <2>16, RemoveStays
    <3>4. \A n \in promised : store'[n] = store[n] BY <2>16, <3>1 DEF Empty
    <3> QED BY <3>1, <3>2, <3>4 DEF Whole, Found
  <2>17. CASE Unlink(p)
    BY <2>17 DEF Unlink, Stop, Whole, Found
  <2>18. CASE Crash(p)
    BY <2>18 DEF Crash, Stop, Whole, Found
  <2> QED BY <1>6, <2>10, <2>11, <2>12, <2>13, <2>14, <2>15, <2>16, <2>17, <2>18 DEF Step
<1> QED BY <1>1, <1>2, <1>3, <1>4, <1>5, <1>6 DEF Next

(* A command that goes on keeps its name and what it will write back. *)
LEMMA StepKeeps ==
  ASSUME TypeOK, Stations, NEW p \in Processes, Step(p) \/ Crash(p)
  PROVE  \/ cmd'[p].op \in {"none", "install"}
         \/ /\ cmd'[p].op = cmd[p].op /\ cmd'[p].read = cmd[p].read /\ cmd'[p].name = cmd[p].name
            /\ cmd'[p].pc \in {"find", "empty", "unlink"} =>
                 cmd[p].pc \in {"find", "empty", "unlink"} \/ Fill(p)
<1> DEFINE Kept == /\ cmd'[p].op = cmd[p].op /\ cmd'[p].read = cmd[p].read
                   /\ cmd'[p].name = cmd[p].name
<1>0. cmd[p] \in Commands /\ Shape(cmd[p]) /\ cmd \in [Processes -> Commands]
  BY DEF TypeOK, Stations
<1>1. ASSUME NEW c, Goto(p, c) PROVE Kept /\ cmd'[p].pc = c
  BY <1>0, <1>1 DEF Goto, Commands
<1>2. Stop(p) => cmd'[p].op = "none" BY <1>0 DEF Stop, Idle
<1>3. ASSUME GiveUp(p) PROVE cmd'[p].op \in {"none", "install"}
  <2>1. CASE cmd[p].op = "install"
    <3> DEFINE c == [cmd[p] EXCEPT !.pc = "next", !.todo = @ \ {cmd[p].name}]
    <3>1. cmd'[p] = c BY <1>0, <1>3, <2>1 DEF GiveUp
    <3>2. c.op = cmd[p].op BY <1>0 DEF Commands
    <3> QED BY <2>1, <3>1, <3>2
  <2> QED BY <1>2, <1>3, <2>1 DEF GiveUp
<1>4. CASE Look(p) \/ StageFails(p) \/ Stage(p) \/ LookAgain(p) \/ Cut(p)
  <2>1. GiveUp(p) \/ \E c \in {"stage", "again", "publish", "fill"} : Goto(p, c)
    BY <1>4 DEF Look, StageFails, Stage, LookAgain, Cut
  <2> QED BY <1>1, <1>3, <2>1
<1>5. CASE Fill(p) \/ Empty(p) \/ Unlink(p) \/ Crash(p)
  <2>1. \/ Stop(p)
        \/ Empty(p) /\ UNCHANGED cmd
        \/ (Fill(p) \/ Empty(p)) /\ \E c \in {"find", "unlink"} : Goto(p, c)
    <3>1. Fill(p) => Stop(p) \/ Goto(p, "find") BY DEF Fill
    <3>2. Empty(p) => Stop(p) \/ Goto(p, "unlink") \/ UNCHANGED cmd BY DEF Empty
    <3>3. Unlink(p) => Stop(p) BY DEF Unlink
    <3>4. Crash(p) => Stop(p) BY DEF Crash
    <3> QED BY <1>5, <3>1, <3>2, <3>3, <3>4
  <2>2. Empty(p) => cmd[p].pc = "empty" BY DEF Empty
  <2>3. CASE Stop(p) BY <1>2, <2>3
  <2>4. CASE Empty(p) /\ UNCHANGED cmd BY <2>2, <2>4
  <2>5. ASSUME NEW c, Goto(p, c), Fill(p) \/ Empty(p)
        PROVE Kept /\ (cmd[p].pc \in {"find", "empty", "unlink"} \/ Fill(p))
    BY <1>1, <2>2, <2>5
  <2> QED BY <2>1, <2>3, <2>4, <2>5
<1>6. CASE Find(p)
  <2>1. CASE Found(cmd[p].name)
    <3> DEFINE c == [cmd[p] EXCEPT !.pc = "empty", !.id = store[cmd[p].name].id]
    <3>1. cmd'[p] = c BY <1>0, <1>6, <2>1 DEF Find
    <3>2. c.op = cmd[p].op /\ c.read = cmd[p].read /\ c.name = cmd[p].name
      BY <1>0 DEF Commands
    <3>3. cmd[p].pc = "find" BY <1>6 DEF Find
    <3> QED BY <3>1, <3>2, <3>3
  <2> QED BY <1>2, <1>6, <2>1 DEF Find
<1>7. CASE Publish(p)
  <2>1. CASE MayPublish(cmd[p].name)
    <3> DEFINE c == [cmd[p] EXCEPT !.pc = IF cmd[p].op = "install" THEN "next" ELSE "write",
                                   !.todo = @ \ {cmd[p].name}]
    <3>1. cmd'[p] = c BY <1>0, <1>7, <2>1 DEF Publish
    <3>2. /\ c.op = cmd[p].op /\ c.read = cmd[p].read /\ c.name = cmd[p].name
          /\ c.pc \in {"next", "write"}
      BY <1>0 DEF Commands
    <3> HIDE DEF c
    <3> QED BY <3>1, <3>2
  <2> QED BY <1>3, <1>7, <2>1 DEF Publish
<1>8. CASE NextPackage(p) BY <1>8, InstallStays
<1> QED BY <1>4, <1>5, <1>6, <1>7, <1>8 DEF Step

(* No step spoils a tree but the remove that takes it apart. *)
LEMMA StepSpares ==
  ASSUME TypeOK, Stations, NEW p \in Processes, Step(p) \/ Crash(p), NEW n \in Packages,
         Found(n) => Whole(n),
         cmd[p].pc \in {"empty", "unlink"} => n # cmd[p].name
  PROVE  (Found(n) => Whole(n))'
<1>1. CASE Publish(p)
  BY <1>1 DEF TypeOK, Publish, Tree, Found, Whole
<1>2. CASE Empty(p) \/ Unlink(p)
  <2>1. store'[n] = store[n] BY <1>2 DEF TypeOK, Empty, Unlink
  <2> QED BY <2>1 DEF Found, Whole
<1>3. CASE UNCHANGED store BY <1>3 DEF Found, Whole
<1> QED BY <1>1, <1>2, <1>3 DEF Step, NextPackage, Look, StageFails, Stage, LookAgain, Cut, Fill,
           Find, Crash

(* A command that begins undisturbed will write back what is recorded, but
   the package it adds or removes. *)
LEMMA BeginRecords ==
  ASSUME IInv, ~disturbed', NEW p \in Processes, NEW command \in Commands, Begin(p, command),
         command.op = "version" => command.read.deps \subseteq manifest.deps,
         command.op = "add" => command.read.deps \ {command.name} \subseteq manifest.deps,
         command.op = "remove" => /\ command.read.deps \subseteq manifest.deps \ {command.name}
                                  /\ command.pc = "write"
  PROVE  Recorded'
<1>1. ~disturbed /\ \A q \in Processes : cmd[q] = Idle BY DEF Begin, IInv, TypeOK
<1>2. Intact(manifest.deps) BY <1>1 DEF IInv, Recorded
<1>3. UNCHANGED <<manifest, store>> BY DEF Begin
<1>4. \A q \in Processes : cmd'[q] = IF q = p THEN command ELSE Idle
  BY <1>1 DEF IInv, TypeOK, Begin
<1>5. \A q \in Processes : Sound(q)'
  BY <1>2, <1>3, <1>4 DEF Sound, Intact, Found, Whole, Idle
<1> QED BY <1>2, <1>3, <1>5 DEF Recorded, Intact, Found, Whole

(* Without disturbance no step records a tree that is partly gone, or takes
   apart one that is recorded. *)
LEMMA RecordedStep == IInv /\ [Next]_vars => Recorded'
<1> SUFFICES ASSUME IInv, [Next]_vars, ~disturbed' PROVE Recorded'
  BY DEF Recorded
<1>1. CASE UNCHANGED vars
  BY <1>1 DEF vars, IInv, Recorded, Sound, Intact, Whole, Found
<1>2. ASSUME NEW p \in Processes, Install(p) PROVE Recorded'
  <2> DEFINE c == Reads("install", "next", "none", manifest, manifest.deps)
  <2>1. c \in Commands /\ c.op = "install"
    BY DEF Reads, Commands, IInv, TypeOK, Manifests
  <2>2. Begin(p, c) BY <1>2 DEF Install
  <2> HIDE DEF c
  <2> QED BY <2>1, <2>2, BeginRecords
<1>3. ASSUME NEW p \in Processes, Version(p) PROVE Recorded'
  <2> DEFINE r == [manifest EXCEPT !.project = TRUE]
             c == Reads("version", "write", "none", r, {})
  <2>0. r \in Manifests /\ r.deps = manifest.deps BY DEF IInv, TypeOK, Manifests
  <2>1. c \in Commands /\ c.op = "version" /\ c.read.deps = manifest.deps
    BY <2>0, ReadsShape DEF IInv, Reads
  <2>2. Begin(p, c) BY <1>3 DEF Version
  <2> HIDE DEF c
  <2> QED BY <2>1, <2>2, BeginRecords
<1>4. ASSUME NEW p \in Processes, NEW n \in Packages, Add(p, n) PROVE Recorded'
  <2> DEFINE c == Reads("add", "look", n, Recording(n), {n})
  <2>1. c \in Commands /\ c.op = "add" /\ c.name = n /\ c.read.deps = manifest.deps \cup {n}
    BY DEF Reads, Recording, Commands, IInv, TypeOK, Manifests
  <2>2. Begin(p, c) BY <1>4 DEF Add
  <2> HIDE DEF c
  <2> QED BY <2>1, <2>2, BeginRecords
<1>5. ASSUME NEW p \in Processes, NEW n \in Packages, Remove(p, n) PROVE Recorded'
  <2> DEFINE r == [manifest EXCEPT !.deps = @ \ {n}]
             c == Reads("remove", "write", n, r, {})
  <2>0. r \in Manifests /\ r.deps = manifest.deps \ {n} BY DEF IInv, TypeOK, Manifests
  <2>1. /\ c \in Commands /\ c.op = "remove" /\ c.pc = "write" /\ c.name = n
        /\ c.read.deps = manifest.deps \ {n}
    BY <2>0, ReadsShape DEF IInv, Reads
  <2>2. Begin(p, c) BY <1>5 DEF Remove
  <2> HIDE DEF c
  <2> QED BY <2>1, <2>2, BeginRecords
<1>6. ASSUME NEW p \in Processes, Step(p) \/ Crash(p) PROVE Recorded'
  <2> USE DEF IInv
  <2>1. ~disturbed
    BY <1>6 DEF Step, Crash, NextPackage, Look, StageFails, Stage, LookAgain, Publish, Cut, Fill,
                Find, Empty, Unlink
  <2>2. Intact(manifest.deps) /\ Sound(p) /\ Alone /\ Knows(p)
    BY <2>1 DEF Recorded, Ordered
  <2>3. cmd[p] # Idle
    BY <1>6 DEF Step, Crash, NextPackage, Look, StageFails, Stage, LookAgain, Publish, Cut, Fill,
                Find, Empty, Unlink, Idle
  <2>4. \A q \in Processes \ {p} : cmd[q] = Idle BY <2>2, <2>3 DEF Alone
  <2>5. \A q \in Processes \ {p} : cmd'[q] = Idle
    BY <1>6, <2>4 DEF TypeOK, Step, Crash, NextPackage, Look, StageFails, Stage, LookAgain,
                      Publish, Cut, Fill, Find, Empty, Unlink, Goto, Stop, GiveUp
  <2>6. \A q \in Processes \ {p} : Sound(q)' BY <2>5 DEF Sound, Idle
  <2>7. /\ manifest.deps \subseteq Packages /\ cmd[p].read.deps \subseteq Packages
        /\ cmd[p].pc \in {"find", "empty", "unlink"} => cmd[p].op = "remove"
        /\ cmd[p].pc \in {"write", "fill"} => cmd[p].op \in {"add", "remove", "version"}
    BY DEF TypeOK, Stations, Shape, Commands, Manifests
  <2>8. ASSUME NEW deps \in SUBSET Packages, Intact(deps),
               cmd[p].pc \in {"empty", "unlink"} => cmd[p].name \notin deps
        PROVE Intact(deps)'
    BY <1>6, <2>8, StepSpares DEF Intact
  <2>9. Intact(manifest.deps)'
    <3>1. CASE Cut(p) BY <3>1 DEF Cut, Blank, Intact
    <3>2. CASE Fill(p)
      <4>1. manifest' = cmd[p].read /\ cmd[p].pc = "fill" BY <3>2 DEF Fill
      <4>2. Intact(cmd[p].read.deps)
        BY <2>2, <2>7, <4>1 DEF Sound, Knows, Intact
      <4> QED BY <2>7, <2>8, <4>1, <4>2
    <3>3. CASE UNCHANGED manifest
      <4>1. Intact(manifest.deps)' <=> \A n \in manifest.deps : (Found(n) => Whole(n))'
        BY <3>3 DEF Intact
      <4>2. cmd[p].pc \in {"empty", "unlink"} => cmd[p].name \notin manifest.deps
        BY <2>2, <2>7 DEF Sound
      <4> QED BY <1>6, <2>2, <2>7, <4>1, <4>2, StepSpares DEF Intact
    <3> QED BY <1>6, <3>1, <3>2, <3>3 DEF Step, Crash, NextPackage, Look, StageFails, Stage,
               LookAgain, Publish, Find, Empty, Unlink
  <2>10. Sound(p)'
    <3>1. CASE cmd'[p].op \in {"none", "install"} BY <3>1 DEF Sound
    <3>2. CASE /\ cmd'[p].op = cmd[p].op /\ cmd'[p].read = cmd[p].read
               /\ cmd'[p].name = cmd[p].name
               /\ cmd'[p].pc \in {"find", "empty", "unlink"} =>
                    cmd[p].pc \in {"find", "empty", "unlink"} \/ Fill(p)
      <4> DEFINE Spared(deps) == \A n \in deps : (Found(n) => Whole(n))'
      <4>1. ASSUME cmd[p].op \in {"version", "remove"} PROVE Spared(cmd[p].read.deps)
        BY <1>6, <2>2, <2>7, <4>1, StepSpares DEF Sound, Intact
      <4>2. ASSUME cmd[p].op = "add" PROVE Spared(cmd[p].read.deps \ {cmd[p].name})
        BY <1>6, <2>2, <2>7, <4>2, StepSpares DEF Sound, Intact
      <4>3. ASSUME cmd[p].op = "remove", cmd'[p].pc \in {"find", "empty", "unlink"}
            PROVE cmd[p].name \notin manifest'.deps
        <5>1. CASE Fill(p) BY <2>2, <4>3, <5>1 DEF Fill, Sound
        <5>2. CASE ~Fill(p)
          <6>1. cmd[p].pc \in {"find", "empty", "unlink"} BY <3>2, <4>3, <5>2
          <6>2. manifest' = manifest
            BY <1>6, <5>2, <6>1 DEF Step, Crash, NextPackage, Look, StageFails, Stage, LookAgain,
                                    Publish, Cut, Find, Empty, Unlink
          <6> QED BY <2>2, <4>3, <6>1, <6>2 DEF Sound
        <5> QED BY <5>1, <5>2
      <4> QED BY <2>2, <3>2, <4>1, <4>2, <4>3 DEF Sound, Intact
    <3> QED BY <1>6, <3>1, <3>2, StepKeeps
  <2> QED BY <2>6, <2>9, <2>10 DEF Recorded
<1> QED BY <1>1, <1>2, <1>3, <1>4, <1>5, <1>6 DEF Next

(* The invariant holds at the start, and a step keeps it. *)
LEMMA StoreInvariant == Spec => []IInv
<1>1. ASSUME Init PROVE IInv
  <2>1. \A p \in Processes : cmd[p] = Idle BY <1>1 DEF Init
  <2>2. /\ manifest \in Manifests /\ promised = {} /\ started = 0 /\ crashes = 0
        /\ disturbed = FALSE
    BY <1>1 DEF Init, Manifests
  <2>3. store \in [Packages -> [id : Nat, holds : {"all", "some", "nothing"}]]
    BY <1>1 DEF Init, Absent
  <2>4. cmd \in [Processes -> Commands] BY <1>1, IdleIsCommand DEF Init
  <2>5. TypeOK /\ Stations BY <2>1, <2>2, <2>3, <2>4, IdleIsCommand DEF TypeOK, Stations, Shape
  <2>6. Ordered /\ AddedIsUsable BY <2>1, <2>2 DEF Ordered, Alone, Knows, Idle, AddedIsUsable
  <2>7. Recorded BY <1>1, <2>1 DEF Init, Recorded, Intact, Found, Absent, Sound, Idle, Manifests
  <2> QED BY <2>5, <2>6, <2>7 DEF IInv
<1>2. IInv /\ [Next]_vars => IInv'
  BY TypeStep, PromiseStep, RecordedStep DEF IInv
<1> QED BY <1>1, <1>2, PTL DEF Spec

-----------------------------------------------------------------------------
(* Every command of hangar.py keeps the manifest, the store and its own
   record in their sorts. *)
THEOREM TypeCorrect == Spec => []TypeOK
<1>1. IInv => TypeOK BY DEF IInv
<1> QED BY <1>1, StoreInvariant, PTL

(* A package that hangar_add has reported stays recorded and whole until it
   is removed, as long as commands do not overlap and none is killed while
   it writes the manifest. *)
THEOREM PromisesAreKept == Spec => []AddedIsUsable
<1>1. IInv => AddedIsUsable BY DEF IInv
<1> QED BY <1>1, StoreInvariant, PTL

(* A dependency that is recorded and in the store is there with all its
   entries, as long as commands do not overlap and none is killed while it
   writes the manifest. *)
THEOREM RecordedAreWhole == Spec => []RecordedIsWhole
<1>1. IInv => RecordedIsWhole BY DEF IInv, Recorded, Intact, RecordedIsWhole
<1> QED BY <1>1, StoreInvariant, PTL

(* No interleaving lets a tree be seen half filled, be emptied by a process
   that has not opened it for removal, vanish with entries or be replaced. *)
THEOREM TreesComeAndGo == Spec => AppearsWholeGoesEmpty
<1> DEFINE Allowed(n) ==
      /\ store[n].id = 0 /\ store'[n].id # 0 => store'[n].holds = "all"
      /\ store[n].id # 0 /\ store'[n].id # store[n].id =>
           store'[n].id = 0 /\ store[n].holds = "nothing"
      /\ store[n].id = store'[n].id /\ store[n].holds # store'[n].holds =>
           \E p \in Processes : cmd[p].op = "remove" /\ cmd[p].id = store[n].id
<1>1. ASSUME IInv, [Next]_vars PROVE \A n \in Packages : Allowed(n)
  <2>1. CASE UNCHANGED store BY <2>1
  <2>2. ASSUME NEW p \in Processes, Publish(p), NEW n \in Packages PROVE Allowed(n)
    BY <2>2, <1>1 DEF IInv, TypeOK, Commands, Stations, Shape, Publish, MayPublish, Found, Tree
  <2>3. ASSUME NEW p \in Processes, Empty(p), NEW n \in Packages PROVE Allowed(n)
    BY <2>3, <1>1 DEF IInv, TypeOK, Commands, Stations, Shape, Empty
  <2>4. ASSUME NEW p \in Processes, Unlink(p), NEW n \in Packages PROVE Allowed(n)
    BY <2>4, <1>1 DEF IInv, TypeOK, Unlink, Absent
  <2> QED BY <1>1, <2>1, <2>2, <2>3, <2>4 DEF Next, vars, Step, Install, Version, Add, Remove,
             Begin, NextPackage, Look, StageFails, Stage, LookAgain, Cut, Fill, Find, Crash
<1> QED BY <1>1, StoreInvariant, PTL DEF Spec, AppearsWholeGoesEmpty
=============================================================================
