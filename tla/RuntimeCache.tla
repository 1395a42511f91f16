---------------------------- MODULE RuntimeCache ----------------------------
(***************************************************************************)
(* The cache of runtime objects (cli_runtime_cache_build,                  *)
(* src/cli/runtime_cache.fk): concurrent builds share, under keys that     *)
(* digest everything an object depends on, the objects that they compile   *)
(* from the runtime's sources, while sources and tools change, entries     *)
(* decay and builds are killed.                                            *)
(***************************************************************************)
EXTENDS Naturals

CONSTANTS
  Texts,         \* what the runtime's sources and the headers they include may be
  Tools,         \* what the compiler and its support may be
  Builders,      \* processes that build
  None,          \* no text, tool, object, entry or holder
  N,             \* runtime units of a build: 2 with the LLVM backend
  MaxBuilds,     \* bound: builds started
  MaxChanges,    \* bound: changes of the sources or the tools
  MaxDecayed,    \* bound: entries that decay
  MaxCrashes     \* bound: builds killed

ASSUME CacheAssumption ==
  /\ None \notin Texts \cup Tools \cup Builders /\ Texts \cap Tools = {}
  /\ N \in Nat \ {0} /\ {MaxBuilds, MaxChanges, MaxDecayed, MaxCrashes} \subseteq Nat

VARIABLES
  text,      \* the runtime's sources and headers now
  tool,      \* the compiler now
  entry,     \* the published entries, by key
  lock,      \* who holds the lock of each key
  build,     \* what each builder is doing
  spent,     \* how much of each bound is used
  returned   \* something changed back to what a running build has seen

vars == <<text, tool, entry, lock, build, spent, returned>>

Units == 1 .. N
Keys == [unit : Units, text : Texts, deps : Texts, tool : Tools]
Object(u, x, t) == [unit |-> u, text |-> x, tool |-> t]
Objects == [unit : Units, text : Texts, tool : Tools]
Decayed == Object(0, None, None)

(* An entry is an object and a receipt with its digest, which is complete
   for no object but the one it was written for. *)
Entry(object) == [object |-> object, receipt |-> object]
Entries == [object : Objects \cup {Decayed}, receipt : Objects]

ASSUME EntryAssumption == None \notin Entries

(* A builder keeps, for each unit, the snapshot that the preprocessor left in
   its private stage, the dependencies that it pinned, and the object. *)
Fresh(c, t, seen) ==
  [pc |-> c, tool |-> t, unit |-> 1, before |-> None,
   snap |-> [u \in Units |-> None], deps |-> [u \in Units |-> None],
   object |-> [u \in Units |-> None], seen |-> seen]
Idle == Fresh("idle", None, {})
Goto(p, c) == build' = [build EXCEPT ![p].pc = c]
Unit(p) == build[p].unit
KeyOf(p, u) ==
  [unit |-> u, text |-> build[p].snap[u], deps |-> build[p].deps[u], tool |-> build[p].tool]
Key(p) == KeyOf(p, Unit(p))
Held(p) == lock[Key(p)] = p
Released(p) == [k \in Keys |-> IF lock[k] = p THEN None ELSE lock[k]]

Init ==
  /\ text \in Texts /\ tool \in Tools
  /\ entry = [k \in Keys |-> None] /\ lock = [k \in Keys |-> None]
  /\ build = [p \in Builders |-> Idle]
  /\ spent = [builds |-> 0, changes |-> 0, decayed |-> 0, crashes |-> 0]
  /\ returned = FALSE

Spend(what, limit) == spent[what] < limit /\ spent' = [spent EXCEPT ![what] = @ + 1]

(* The cache is given up and the sources are compiled as if it were not. *)
FallBackHolding(p) == Goto(p, "source") /\ UNCHANGED lock
FallBack(p) == Goto(p, "source") /\ lock' = Released(p)
Fail(p) == Goto(p, "failed") /\ lock' = Released(p)
Blinded(p) == Goto(p, "blind") /\ lock' = Released(p)

-----------------------------------------------------------------------------
(* Preparation of a unit: its source is hashed, then preprocessed and its   *)
(* dependencies hashed, twice, and the source hashed again.                 *)

Begin(p) ==
  /\ build[p] = Idle
  /\ Spend("builds", MaxBuilds)
  /\ build' = [build EXCEPT ![p] = Fresh("pin", tool, {text, tool})]
  /\ UNCHANGED <<text, tool, entry, lock, returned>>

PinSource(p) ==
  /\ build[p].pc = "pin"
  /\ build' = [build EXCEPT ![p].pc = "first", ![p].before = text]
  /\ UNCHANGED <<text, tool, entry, lock, spent, returned>>

First(p) ==
  /\ build[p].pc = "first"
  /\ build' = [build EXCEPT ![p].pc = "first_deps", ![p].snap[Unit(p)] = text]
  /\ UNCHANGED <<text, tool, entry, lock, spent, returned>>

FirstDeps(p) ==
  /\ build[p].pc = "first_deps"
  /\ build' = [build EXCEPT ![p].pc = "second", ![p].deps[Unit(p)] = text]
  /\ UNCHANGED <<text, tool, entry, lock, spent, returned>>

Second(p) ==
  /\ build[p].pc = "second"
  /\ IF text = build[p].snap[Unit(p)] THEN Goto(p, "second_deps") /\ UNCHANGED lock ELSE FallBack(p)
  /\ UNCHANGED <<text, tool, entry, spent, returned>>

SecondDeps(p) ==
  /\ build[p].pc = "second_deps"
  /\ IF text = build[p].deps[Unit(p)] THEN Goto(p, "repin") /\ UNCHANGED lock ELSE FallBack(p)
  /\ UNCHANGED <<text, tool, entry, spent, returned>>

Repin(p) ==
  /\ build[p].pc = "repin"
  /\ \/ /\ text = build[p].before
        /\ build' = [build EXCEPT ![p].pc = IF Unit(p) < N THEN "pin" ELSE "lock",
                                  ![p].unit = IF Unit(p) < N THEN @ + 1 ELSE 1]
        /\ UNCHANGED lock
     \/ FallBack(p)   \* another text, or a compiler that cannot be admitted
  /\ UNCHANGED <<text, tool, entry, spent, returned>>

(* A source that cannot be read or preprocessed, a root, a stage or a compiler
   that cannot be admitted: nothing is rejected before the first object. *)
GiveUpPreparing(p) ==
  /\ build[p].pc \in {"pin", "first", "first_deps", "second", "second_deps"}
  /\ FallBack(p)
  /\ UNCHANGED <<text, tool, entry, spent, returned>>

-----------------------------------------------------------------------------
(* Each unit is copied from its entry or compiled, under the lock of its    *)
(* key if nobody has it; a lock that is held is not waited for.             *)

LockRequired(p) ==
  /\ build[p].pc = "lock"
  /\ \/ /\ lock[Key(p)] = None
        /\ lock' = [lock EXCEPT ![Key(p)] = p]
        /\ Goto(p, "look")
     \/ Fail(p)
  /\ UNCHANGED <<text, tool, entry, spent, returned>>
Lock(p) ==
  /\ build[p].pc = "lock"
  /\ \/ /\ lock[Key(p)] = None
        /\ lock' = [lock EXCEPT ![Key(p)] = p]
        /\ Goto(p, "look")
     \/ Goto(p, "compile") /\ UNCHANGED lock
  /\ UNCHANGED <<text, tool, entry, spent, returned>>

CompleteAny(k) == entry[k] # None
Complete(k) == entry[k] # None /\ entry[k].receipt = entry[k].object

(* A complete entry is copied into the stage, or cannot be. *)
CopyHit(p) ==
  /\ build[p].pc = "look"
  /\ \/ /\ Complete(Key(p))
        /\ build' = [build EXCEPT ![p].pc = "unlock", ![p].object[Unit(p)] = entry[Key(p)].object]
     \/ Goto(p, "compile")
  /\ UNCHANGED <<text, tool, entry, lock, spent, returned>>

CompileUnit(p) ==
  /\ build[p].pc = "compile"
  /\ \/ /\ build' = [build EXCEPT ![p].pc = "check",
                       ![p].object[Unit(p)] = Object(Unit(p), build[p].snap[Unit(p)], tool)]
        /\ UNCHANGED lock
     \/ FallBack(p)
  /\ UNCHANGED <<text, tool, entry, spent, returned>>

(* The pinned inputs, and then the compiler, are looked at again: before an
   object is published, before the program is linked, and after. A look that
   cannot be taken, because an input cannot be read again or a probe of the
   compiler fails or times out, rejects the build as a difference does. *)
InputsStable(p, from, to) ==
  /\ build[p].pc = from
  /\ \/ (\A u \in Units : build[p].deps[u] = text) /\ Goto(p, to) /\ UNCHANGED lock
     \/ (\E u \in Units : build[p].deps[u] # text) /\ Fail(p)
     \/ Blinded(p)
  /\ UNCHANGED <<text, tool, entry, spent, returned>>

ToolTrusted(p, from, to) ==
  /\ build[p].pc = from
  /\ Goto(p, to)
  /\ UNCHANGED <<text, tool, entry, lock, spent, returned>>
ToolStable(p, from, to) ==
  /\ build[p].pc = from
  /\ \/ build[p].tool = tool /\ Goto(p, to) /\ UNCHANGED lock
     \/ build[p].tool # tool /\ Fail(p)
     \/ Blinded(p)
  /\ UNCHANGED <<text, tool, entry, spent, returned>>

(* Object and receipt are written in a directory that is then renamed to the
   key, if the key is free; what was renamed is published, also if the
   rename could not be made durable. *)
Publish(p) ==
  /\ build[p].pc = "publish"
  /\ \/ /\ Held(p) /\ entry[Key(p)] = None
        /\ entry' = [entry EXCEPT ![Key(p)] = Entry(build[p].object[Unit(p)])]
        /\ \E synced \in BOOLEAN :
             Goto(p, IF synced THEN "unlock" ELSE "unsynced")
     \/ Held(p) /\ Goto(p, "unpublished") /\ UNCHANGED entry
     \/ ~Held(p) /\ Goto(p, "unlock") /\ UNCHANGED entry
  /\ UNCHANGED <<text, tool, lock, spent, returned>>

(* What is not published is removed; what was renamed is not, whether or not
   the rename was a success. *)
CleanUnsynced(p) ==
  /\ build[p].pc \in {"unpublished", "unsynced"}
  /\ entry' = IF build[p].pc = "unsynced" THEN [entry EXCEPT ![Key(p)] = None] ELSE entry
  /\ Goto(p, "unlock")
  /\ UNCHANGED <<text, tool, lock, spent, returned>>
Clean(p) ==
  /\ build[p].pc \in {"unpublished", "unsynced"}
  /\ Goto(p, "unlock")
  /\ UNCHANGED <<text, tool, entry, lock, spent, returned>>

Unlock(p) ==
  /\ build[p].pc = "unlock"
  /\ lock' = Released(p)
  /\ build' = [build EXCEPT ![p].pc = IF Unit(p) < N THEN "lock" ELSE "ready",
                            ![p].unit = IF Unit(p) < N THEN @ + 1 ELSE @]
  /\ UNCHANGED <<text, tool, entry, spent, returned>>

(* The user's program is compiled and linked with the objects of the stage. *)
Link(p) ==
  /\ build[p].pc = "link"
  /\ Goto(p, "after") \/ Goto(p, "rejected")
  /\ UNCHANGED <<text, tool, entry, lock, spent, returned>>

Leave(p) ==
  /\ build[p].pc \in {"source", "failed", "blind", "rejected", "linked"}
  /\ build' = [build EXCEPT ![p] = Idle]
  /\ UNCHANGED <<text, tool, entry, lock, spent, returned>>

-----------------------------------------------------------------------------
(* The world around: sources and tools change, perhaps back to what a       *)
(* running build has seen; an entry decays; a build is killed.              *)

Saw(x) ==
  /\ returned' = (returned \/ \E p \in Builders : x \in build[p].seen)
  /\ build' = [p \in Builders |->
       IF build[p] = Idle THEN Idle ELSE [build[p] EXCEPT !.seen = @ \cup {x}]]

ChangeText ==
  /\ Spend("changes", MaxChanges)
  /\ \E x \in Texts \ {text} : text' = x /\ Saw(x)
  /\ UNCHANGED <<tool, entry, lock>>

ChangeTool ==
  /\ Spend("changes", MaxChanges)
  /\ \E t \in Tools \ {tool} : tool' = t /\ Saw(t)
  /\ UNCHANGED <<text, entry, lock>>

Decay ==
  /\ Spend("decayed", MaxDecayed)
  /\ \E k \in Keys : entry[k] # None /\ entry' = [entry EXCEPT ![k].object = Decayed]
  /\ UNCHANGED <<text, tool, lock, build, returned>>

Crash(p) ==
  /\ build[p] # Idle
  /\ Spend("crashes", MaxCrashes)
  /\ build' = [build EXCEPT ![p] = Idle]
  /\ lock' = Released(p)
  /\ UNCHANGED <<text, tool, entry, returned>>

Step(p) ==
  \/ PinSource(p) \/ First(p) \/ FirstDeps(p) \/ Second(p) \/ SecondDeps(p) \/ Repin(p)
  \/ GiveUpPreparing(p)
  \/ Lock(p) \/ CopyHit(p) \/ CompileUnit(p) \/ Publish(p) \/ Clean(p) \/ Unlock(p)
  \/ InputsStable(p, "check", "check_tool") \/ ToolStable(p, "check_tool", "publish")
  \/ InputsStable(p, "ready", "ready_tool") \/ ToolStable(p, "ready_tool", "link")
  \/ Link(p)
  \/ InputsStable(p, "after", "after_tool") \/ ToolStable(p, "after_tool", "linked")
  \/ Leave(p)

Next ==
  \/ ChangeText \/ ChangeTool \/ Decay
  \/ \E p \in Builders : Begin(p) \/ Step(p) \/ Crash(p)

Spec == Init /\ [][Next]_vars
-----------------------------------------------------------------------------
Builds ==
  [pc : {"idle", "pin", "first", "first_deps", "second", "second_deps", "repin", "lock", "look",
         "compile", "check", "check_tool", "publish", "unpublished", "unsynced", "unlock", "ready",
         "ready_tool", "link", "after", "after_tool", "source", "failed", "blind", "rejected",
         "linked"},
   tool : Tools \cup {None}, unit : Units, before : Texts \cup {None},
   snap : [Units -> Texts \cup {None}], deps : [Units -> Texts \cup {None}],
   object : [Units -> Objects \cup {None, Decayed}],
   seen : SUBSET (Texts \cup Tools)]

(* Each variable has its sort; and a lock is held only by a builder that is
   at work on its key, whichever way it leaves. *)
TypeOK ==
  /\ text \in Texts /\ tool \in Tools
  /\ entry \in [Keys -> {None} \cup Entries]
  /\ lock \in [Keys -> Builders \cup {None}]
  /\ build \in [Builders -> Builds]
  /\ spent \in [{"builds", "changes", "decayed", "crashes"} -> Nat] /\ returned \in BOOLEAN
  /\ \A k \in Keys : lock[k] # None =>
       /\ build[lock[k]].pc \in {"look", "compile", "check", "check_tool", "publish",
                                 "unpublished", "unsynced", "unlock"}
       /\ k = Key(lock[k])

(* Whoever published an entry, and whatever changed meanwhile, its receipt is
   that of the object which its key describes, unless a compiler changed and
   changed back under a running build. *)
EntryIsTrue ==
  ~returned => \A k \in Keys : entry[k] # None => entry[k].receipt = Object(k.unit, k.text, k.tool)

(* A build that ends well has linked, for every unit, the object of one and
   the same state of the sources and of the compiler that it began with,
   compiled by itself or by any other build; with the same exception. *)
LinkedIsCurrent ==
  ~returned => \A p \in Builders : build[p].pc = "linked" =>
    \A u \in Units : build[p].object[u] = Object(u, build[p].deps[1], build[p].tool)

(* What was published stays, under builds of the same key that overlap, fail
   or are killed, and when its rename was not made durable (the comment of
   cli_runtime_cache_publish: "Never remove an occupied key or a completed
   publication, including a directory-sync failure"). *)
PublicationStands ==
  [][\A k \in Keys :
       entry[k] # None => entry'[k] # None /\ entry'[k].receipt = entry[k].receipt]_vars

(* Of all that a build meets in the cache, only its second looks reject it:
   locks that others hold, entries that decayed and publications that failed
   leave it a way to go on (README: "Unavailable, unsafe, busy, or unsupported
   caches fall back to source builds"). A look rejects it because it could not
   be taken (the build ends "blind"), or because it showed a difference (it
   ends "failed"), and then a source or the compiler did change under it. *)
SawChange(p) ==
  \E x, y \in build[p].seen : x # y /\ ({x, y} \subseteq Texts \/ {x, y} \subseteq Tools)
FailsOnlyByItsLooks == \A p \in Builders : build[p].pc = "failed" => SawChange(p)

(* What the code does not do: reject a build only if something changed (the
   comment of cli_runtime_cache_tool_identity: closures that cannot be
   resolved "never reject an otherwise supported build"). A first look that
   cannot be taken does not, a later one does. *)
OnlyChangesReject ==
  \A p \in Builders : build[p].pc \in {"failed", "blind"} => SawChange(p)
=============================================================================
