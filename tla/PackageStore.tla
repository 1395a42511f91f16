---------------------------- MODULE PackageStore ----------------------------
(***************************************************************************)
(* The commands of freakc/hangar.py on one project: add, install, remove   *)
(* and version, run by several processes that share the manifest           *)
(* hangar.toml and the store hangar_modules, without a lock, and may be    *)
(* killed at any point.  A package is staged beside the store and moved in *)
(* whole, without replacing; the manifest is rewritten in place; a removed *)
(* package is taken apart entry by entry.                                  *)
(***************************************************************************)
EXTENDS Naturals, FiniteSets

CONSTANTS
  Packages,     \* names of packages
  Processes,    \* processes that run commands
  MaxCommands,  \* bound: commands started
  MaxCrashes    \* bound: processes killed

ASSUME StoreAssumption == MaxCommands \in Nat /\ MaxCrashes \in Nat

VARIABLES
  manifest,  \* hangar.toml: the project section and the dependencies
  store,     \* hangar_modules: what is found under each name
  cmd,       \* what each process is doing
  started,   \* commands started so far
  crashes,   \* processes killed so far
  promised,  \* dependencies that an add has reported as added
  disturbed  \* a command ran beside another, or was killed in mid-write

vars == <<manifest, store, cmd, started, crashes, promised, disturbed>>

(* A file cut to nothing, which is what opening it for writing makes of it,
   reads as a manifest without any section. *)
Blank == [project |-> FALSE, deps |-> {}]

(* A tree of the store: the command that made it, and what it holds. *)
Absent == [id |-> 0, holds |-> "nothing"]
Tree(id, holds) == [id |-> id, holds |-> holds]
Found(n) == store[n].id # 0
Whole(n) == Found(n) /\ store[n].holds = "all"

Idle == [op |-> "none", pc |-> "idle", name |-> "none", read |-> Blank, todo |-> {}, id |-> 0]
Goto(p, c) == cmd' = [cmd EXCEPT ![p].pc = c]
Stop(p) == cmd' = [cmd EXCEPT ![p] = Idle]

Init ==
  /\ \E deps \in SUBSET Packages : manifest = [project |-> TRUE, deps |-> deps]
  /\ store = [n \in Packages |-> Absent]
  /\ cmd = [p \in Processes |-> Idle]
  /\ started = 0 /\ crashes = 0 /\ promised = {} /\ disturbed = FALSE

-----------------------------------------------------------------------------
(* Every command starts by reading the manifest and goes on from what it    *)
(* has read.                                                                *)

Begin(p, command) ==
  /\ cmd[p] = Idle /\ started < MaxCommands
  /\ started' = started + 1
  /\ cmd' = [cmd EXCEPT ![p] = command]
  /\ disturbed' = (disturbed \/ \E q \in Processes : cmd[q] # Idle)
  /\ UNCHANGED <<manifest, store, crashes, promised>>

Reads(op, c, n, read, todo) ==
  [op |-> op, pc |-> c, name |-> n, read |-> read, todo |-> todo, id |-> started + 1]
Recording(n) == [manifest EXCEPT !.deps = @ \cup {n}]

(* add records nothing before it has installed. *)
AddRecordsFirst(p, n) == Begin(p, Reads("add", "write", n, Recording(n), {}))
Add(p, n) == Begin(p, Reads("add", "look", n, Recording(n), {n}))

(* install takes the dependencies one by one. *)
InstallUnnamed(p) ==
  /\ manifest.deps # {}
  /\ Begin(p, Reads("install", "look", "none", manifest, manifest.deps))
Install(p) ==
  /\ manifest.deps # {}
  /\ Begin(p, Reads("install", "next", "none", manifest, manifest.deps))

Remove(p, n) ==
  /\ n \in manifest.deps
  /\ Begin(p, Reads("remove", "write", n, [manifest EXCEPT !.deps = @ \ {n}], {}))

Version(p) == Begin(p, Reads("version", "write", "none", [manifest EXCEPT !.project = TRUE], {}))

-----------------------------------------------------------------------------
(* _install_one: look, fetch, stage, look again, move in.                   *)

NextPackage(p) ==
  /\ cmd[p].pc = "next"
  /\ IF cmd[p].todo = {}
     THEN Stop(p)
     ELSE \E n \in cmd[p].todo : cmd' = [cmd EXCEPT ![p].name = n, ![p].pc = "look"]
  /\ UNCHANGED <<manifest, store, started, crashes, promised, disturbed>>

(* One package failed: add gives up, install goes on with the others. *)
GiveUp(p) ==
  IF cmd[p].op = "install"
  THEN cmd' = [cmd EXCEPT ![p].pc = "next", ![p].todo = @ \ {cmd[p].name}]
  ELSE Stop(p)

(* What is already there is not replaced, and not taken for installed. *)
LookTrusts(p) ==
  /\ cmd[p].pc = "look"
  /\ IF ~Found(cmd[p].name) THEN Goto(p, "stage")
     ELSE IF cmd[p].op = "add" THEN Goto(p, "write") ELSE GiveUp(p)
  /\ UNCHANGED <<manifest, store, started, crashes, promised, disturbed>>
Look(p) ==
  /\ cmd[p].pc = "look"
  /\ IF Found(cmd[p].name) THEN GiveUp(p) ELSE Goto(p, "stage")
  /\ UNCHANGED <<manifest, store, started, crashes, promised, disturbed>>

(* The archive cannot be fetched, or is not one of a package: the stage is
   discarded. *)
StageFails(p) ==
  /\ cmd[p].pc = "stage"
  /\ GiveUp(p)
  /\ UNCHANGED <<manifest, store, started, crashes, promised, disturbed>>

(* The stage is filled beside the store, and no name leads to it. *)
Stage(p) ==
  /\ cmd[p].pc = "stage"
  /\ Goto(p, "again")
  /\ UNCHANGED <<manifest, store, started, crashes, promised, disturbed>>

LookAgain(p) ==
  /\ cmd[p].pc = "again"
  /\ IF Found(cmd[p].name) THEN GiveUp(p) ELSE Goto(p, "publish")
  /\ UNCHANGED <<manifest, store, started, crashes, promised, disturbed>>

(* The rename fails if the name is taken after all. *)
MayPublishOver(n) == TRUE
MayPublish(n) == ~Found(n)

Publish(p) ==
  LET n == cmd[p].name
      done == [cmd[p] EXCEPT !.pc = IF cmd[p].op = "install" THEN "next" ELSE "write",
                             !.todo = @ \ {n}]
  IN /\ cmd[p].pc = "publish"
     /\ IF MayPublish(n)
        THEN store' = [store EXCEPT ![n] = Tree(cmd[p].id, "all")] /\ cmd' = [cmd EXCEPT ![p] = done]
        ELSE GiveUp(p) /\ UNCHANGED store
     /\ UNCHANGED <<manifest, started, crashes, promised, disturbed>>

-----------------------------------------------------------------------------
(* _write_manifest: the file is cut to nothing and then filled.             *)

Cut(p) ==
  /\ cmd[p].pc = "write"
  /\ manifest' = Blank
  /\ Goto(p, "fill")
  /\ UNCHANGED <<store, started, crashes, promised, disturbed>>

Fill(p) ==
  /\ cmd[p].pc = "fill"
  /\ manifest' = cmd[p].read
  /\ promised' = CASE cmd[p].op = "add" -> promised \cup {cmd[p].name}
                   [] cmd[p].op = "remove" -> promised \ {cmd[p].name}
                   [] OTHER -> promised
  /\ IF cmd[p].op = "remove" THEN Goto(p, "find") ELSE Stop(p)
  /\ UNCHANGED <<store, started, crashes, disturbed>>

-----------------------------------------------------------------------------
(* remove: the tree that is found under the name, which need not be the one *)
(* that was recorded, is emptied entry by entry and the name removed.       *)

Find(p) ==
  /\ cmd[p].pc = "find"
  /\ IF Found(cmd[p].name)
     THEN cmd' = [cmd EXCEPT ![p].pc = "empty", ![p].id = store[cmd[p].name].id]
     ELSE Stop(p)
  /\ UNCHANGED <<manifest, store, started, crashes, promised, disturbed>>

(* The tree was opened, so a later one of the same name is not touched; an
   entry that cannot be deleted, or that another remove took first, is an
   error. *)
Empty(p) ==
  /\ cmd[p].pc = "empty"
  /\ \/ /\ store[cmd[p].name].id = cmd[p].id
        /\ \E holds \in {"some", "nothing"} :
             /\ store[cmd[p].name].holds = "nothing" => holds = "nothing"
             /\ store' = [store EXCEPT ![cmd[p].name].holds = holds]
             /\ IF holds = "nothing" THEN Goto(p, "unlink") ELSE UNCHANGED cmd
     \/ Stop(p) /\ UNCHANGED store
  /\ UNCHANGED <<manifest, started, crashes, promised, disturbed>>

(* rmdir by name: it takes an empty directory only. *)
Unlink(p) ==
  LET n == cmd[p].name
  IN /\ cmd[p].pc = "unlink"
     /\ store' = IF store[n].holds = "nothing" THEN [store EXCEPT ![n] = Absent] ELSE store
     /\ Stop(p)
     /\ UNCHANGED <<manifest, started, crashes, promised, disturbed>>

(* A process is killed; what it staged is left beside the store. *)
Crash(p) ==
  /\ cmd[p] # Idle /\ crashes < MaxCrashes
  /\ crashes' = crashes + 1
  /\ disturbed' = (disturbed \/ cmd[p].pc = "fill")
  /\ Stop(p)
  /\ UNCHANGED <<manifest, store, started, promised>>

Step(p) ==
  \/ NextPackage(p) \/ Look(p) \/ StageFails(p) \/ Stage(p) \/ LookAgain(p) \/ Publish(p)
  \/ Cut(p) \/ Fill(p) \/ Find(p) \/ Empty(p) \/ Unlink(p)

Next ==
  \E p \in Processes :
    \/ Install(p) \/ Version(p) \/ \E n \in Packages : Add(p, n) \/ Remove(p, n)
    \/ Step(p) \/ Crash(p)

Spec == Init /\ [][Next]_vars

-----------------------------------------------------------------------------
(* The sorts of the state; the manifest, and what a command has read of it,
   are a project section, or none, and a set of dependencies. *)
Manifests == [project : BOOLEAN, deps : SUBSET Packages]
Commands ==
  [op : {"none", "add", "install", "remove", "version"},
   pc : {"idle", "next", "look", "stage", "again", "publish", "write", "fill", "find", "empty",
         "unlink"},
   name : Packages \cup {"none"}, read : Manifests, todo : SUBSET Packages, id : Nat]

(* Each variable has its sort, and the command that is past its look at the
   store names a package: no handler of hangar.py looks up a name it lacks. *)
TypeOK ==
  /\ manifest \in Manifests
  /\ store \in [Packages -> [id : Nat, holds : {"all", "some", "nothing"}]]
  /\ cmd \in [Processes -> Commands]
  /\ started \in Nat /\ crashes \in Nat
  /\ promised \in SUBSET Packages /\ disturbed \in BOOLEAN
  /\ \A p \in Processes :
       /\ cmd[p].pc \in {"look", "stage", "again", "publish", "find", "empty", "unlink"} =>
            cmd[p].name \in Packages
       /\ cmd[p].pc \in {"write", "fill"} /\ cmd[p].op # "version" => cmd[p].name \in Packages

(* hangar_add, hangar_remove: as long as commands run one after the other,
   each package reported as added, and not removed since, is recorded and is
   in the store with all its entries, wherever commands were killed outside
   the writing of the manifest. *)
AddedIsUsable ==
  ~disturbed => \A n \in promised :
    /\ Whole(n)
    /\ (\A p \in Processes : cmd[p].pc # "fill") => n \in manifest.deps

(* hangar_remove, hangar_add: as long as commands run one after the other, a
   dependency that is recorded and in the store is there with all its
   entries, wherever commands were killed outside the writing of the
   manifest: what a remove left half taken apart is recorded by no command
   that comes after it. *)
RecordedIsWhole == ~disturbed => \A n \in manifest.deps : Found(n) => Whole(n)

(* _install_one, hangar_remove: whatever processes race, a tree appears with
   all its entries, loses them only to a remove that has opened this very
   tree, and leaves its name only once it is empty, and to no other tree. *)
AppearsWholeGoesEmpty ==
  [][\A n \in Packages :
       /\ store[n].id = 0 /\ store'[n].id # 0 => store'[n].holds = "all"
       /\ store[n].id # 0 /\ store'[n].id # store[n].id =>
            store'[n].id = 0 /\ store[n].holds = "nothing"
       /\ store[n].id = store'[n].id /\ store[n].holds # store'[n].holds =>
            \E p \in Processes : cmd[p].op = "remove" /\ cmd[p].id = store[n].id]_vars
=============================================================================
