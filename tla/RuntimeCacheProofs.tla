------------------------- MODULE RuntimeCacheProofs -------------------------
(***************************************************************************)
(* A cached object is what its key says and stays, and what a build links  *)
(* is of one state of the sources, for all texts, tools, builders, numbers *)
(* of units and bounds.                                                    *)
(***************************************************************************)
EXTENDS RuntimeCache, TLAPS

Prep == {"pin", "first", "first_deps", "second", "second_deps", "repin"}
Work == {"lock", "look", "compile", "check", "check_tool", "publish", "unpublished", "unsynced",
         "unlock"}
Done == {"ready", "ready_tool", "link", "after", "after_tool", "linked"}

Pinned(s, u) == s.snap[u] \in Texts \cap s.seen /\ s.deps[u] \in Texts \cap s.seen
Agree(s, u) == s.snap[u] = s.deps[u]
Sound(s, u) == s.object[u] = Object(u, s.snap[u], s.tool)

(* What is so at each place of a build, whatever changes. *)
Facts(s) ==
  /\ s.pc # "idle" => s.tool \in Tools \cap s.seen /\ text \in s.seen /\ tool \in s.seen
  /\ s.pc \in Prep => \A u \in Units : u < s.unit => Pinned(s, u)
  /\ s.pc \in {"first_deps", "second", "second_deps", "repin"} =>
       s.snap[s.unit] \in Texts \cap s.seen
  /\ s.pc \in {"second", "second_deps", "repin"} => s.deps[s.unit] \in Texts \cap s.seen
  /\ s.pc \in Work \cup Done => \A u \in Units : Pinned(s, u)
  /\ s.pc \in {"check", "check_tool", "publish"} => s.object[s.unit] \in Objects
  /\ s.pc \in {"after_tool", "linked"} => \A u \in Units : s.deps[u] = s.deps[1]
  /\ s.pc = "failed" =>
       \E x, y \in s.seen : x # y /\ ({x, y} \subseteq Texts \/ {x, y} \subseteq Tools)

(* What is so as long as nothing returned: the two readings of a unit agree,
   and an object is of its snapshot and of the compiler of the build, unless
   the compiler is another by now, which the next look will show. *)
Trust(s) ==
  /\ s.pc \in Prep => \A u \in Units : u < s.unit => Agree(s, u)
  /\ s.pc = "second" => Agree(s, s.unit) \/ text # s.snap[s.unit]
  /\ s.pc \in {"second_deps", "repin"} => Agree(s, s.unit)
  /\ s.pc \in Work \cup Done => \A u \in Units : Agree(s, u)
  /\ s.pc \in Work => \A u \in Units : u < s.unit => Sound(s, u)
  /\ s.pc \in {"check", "check_tool"} => Sound(s, s.unit) \/ tool # s.tool
  /\ s.pc \in {"publish", "unpublished", "unsynced", "unlock"} => Sound(s, s.unit)
  /\ s.pc \in Done => \A u \in Units : Sound(s, u)

IInv ==
  /\ TypeOK
  /\ \A p \in Builders : Facts(build[p])
  /\ ~returned => EntryIsTrue /\ \A p \in Builders : Trust(build[p])

-----------------------------------------------------------------------------
(* A build as its fields. *)
Made(s, c, u, b, sn, dp, ob) ==
  [pc |-> c, tool |-> s.tool, unit |-> u, before |-> b, snap |-> sn, deps |-> dp,
   object |-> ob, seen |-> s.seen]
Moved(p, s) == build' = [build EXCEPT ![p] = s]

LEMMA AsMade ==
  ASSUME NEW s \in Builds
  PROVE  s = Made(s, s.pc, s.unit, s.before, s.snap, s.deps, s.object)
BY DEF Builds, Made

LEMMA MadeFields ==
  ASSUME NEW s, NEW c, NEW u, NEW b, NEW sn, NEW dp, NEW ob
  PROVE  LET r == Made(s, c, u, b, sn, dp, ob)
         IN /\ r.pc = c /\ r.tool = s.tool /\ r.unit = u /\ r.before = b /\ r.snap = sn
            /\ r.deps = dp /\ r.object = ob /\ r.seen = s.seen
BY DEF Made

(* Updates of a place and of one more field. *)
LEMMA UpdateBefore ==
  ASSUME NEW s \in Builds, NEW c, NEW x
  PROVE  [s EXCEPT !.pc = c, !.before = x] =
           Made(s, c, s.unit, x, s.snap, s.deps, s.object)
<1> DEFINE t == Made(s, c, s.unit, s.before, s.snap, s.deps, s.object)
<1>1. [s EXCEPT !.pc = c] = t BY DEF Builds, Made
<1>2. [s EXCEPT !.pc = c, !.before = x] = [[s EXCEPT !.pc = c] EXCEPT !.before = x] OBVIOUS
<1>3. [t EXCEPT !.before = x] = Made(s, c, s.unit, x, s.snap, s.deps, s.object) BY DEF Made
<1>4. [[s EXCEPT !.pc = c] EXCEPT !.before = x] = [t EXCEPT !.before = x] BY <1>1
<1> QED BY <1>2, <1>3, <1>4

LEMMA MoveBefore ==
  ASSUME TypeOK, NEW p \in Builders, NEW c, NEW x,
         build' = [build EXCEPT ![p].pc = c, ![p].before = x]
  PROVE  LET s == build[p]
         IN Moved(p, Made(s, c, s.unit, x, s.snap, s.deps, s.object))
<1> DEFINE s == build[p]
<1>1. build' = [build EXCEPT ![p] = [s EXCEPT !.pc = c, !.before = x]] OBVIOUS
<1>2. s \in Builds BY DEF TypeOK
<1>3. [s EXCEPT !.pc = c, !.before = x] =
        Made(s, c, s.unit, x, s.snap, s.deps, s.object)
  BY <1>2, UpdateBefore
<1> QED BY <1>1, <1>3 DEF Moved

LEMMA UpdateSnap ==
  ASSUME NEW s \in Builds, NEW c, NEW x
  PROVE  [s EXCEPT !.pc = c, !.snap = x] =
           Made(s, c, s.unit, s.before, x, s.deps, s.object)
<1> DEFINE t == Made(s, c, s.unit, s.before, s.snap, s.deps, s.object)
<1>1. [s EXCEPT !.pc = c] = t BY DEF Builds, Made
<1>2. [s EXCEPT !.pc = c, !.snap = x] = [[s EXCEPT !.pc = c] EXCEPT !.snap = x] OBVIOUS
<1>3. [t EXCEPT !.snap = x] = Made(s, c, s.unit, s.before, x, s.deps, s.object) BY DEF Made
<1>4. [[s EXCEPT !.pc = c] EXCEPT !.snap = x] = [t EXCEPT !.snap = x] BY <1>1
<1> QED BY <1>2, <1>3, <1>4

LEMMA MoveSnap ==
  ASSUME TypeOK, NEW p \in Builders, NEW c, NEW x,
         build' = [build EXCEPT ![p].pc = c, ![p].snap = x]
  PROVE  LET s == build[p]
         IN Moved(p, Made(s, c, s.unit, s.before, x, s.deps, s.object))
<1> DEFINE s == build[p]
<1>1. build' = [build EXCEPT ![p] = [s EXCEPT !.pc = c, !.snap = x]] OBVIOUS
<1>2. s \in Builds BY DEF TypeOK
<1>3. [s EXCEPT !.pc = c, !.snap = x] =
        Made(s, c, s.unit, s.before, x, s.deps, s.object)
  BY <1>2, UpdateSnap
<1> QED BY <1>1, <1>3 DEF Moved

LEMMA UpdateDeps ==
  ASSUME NEW s \in Builds, NEW c, NEW x
  PROVE  [s EXCEPT !.pc = c, !.deps = x] =
           Made(s, c, s.unit, s.before, s.snap, x, s.object)
<1> DEFINE t == Made(s, c, s.unit, s.before, s.snap, s.deps, s.object)
<1>1. [s EXCEPT !.pc = c] = t BY DEF Builds, Made
<1>2. [s EXCEPT !.pc = c, !.deps = x] = [[s EXCEPT !.pc = c] EXCEPT !.deps = x] OBVIOUS
<1>3. [t EXCEPT !.deps = x] = Made(s, c, s.unit, s.before, s.snap, x, s.object) BY DEF Made
<1>4. [[s EXCEPT !.pc = c] EXCEPT !.deps = x] = [t EXCEPT !.deps = x] BY <1>1
<1> QED BY <1>2, <1>3, <1>4

LEMMA MoveDeps ==
  ASSUME TypeOK, NEW p \in Builders, NEW c, NEW x,
         build' = [build EXCEPT ![p].pc = c, ![p].deps = x]
  PROVE  LET s == build[p]
         IN Moved(p, Made(s, c, s.unit, s.before, s.snap, x, s.object))
<1> DEFINE s == build[p]
<1>1. build' = [build EXCEPT ![p] = [s EXCEPT !.pc = c, !.deps = x]] OBVIOUS
<1>2. s \in Builds BY DEF TypeOK
<1>3. [s EXCEPT !.pc = c, !.deps = x] =
        Made(s, c, s.unit, s.before, s.snap, x, s.object)
  BY <1>2, UpdateDeps
<1> QED BY <1>1, <1>3 DEF Moved

LEMMA UpdateObject ==
  ASSUME NEW s \in Builds, NEW c, NEW x
  PROVE  [s EXCEPT !.pc = c, !.object = x] =
           Made(s, c, s.unit, s.before, s.snap, s.deps, x)
<1> DEFINE t == Made(s, c, s.unit, s.before, s.snap, s.deps, s.object)
<1>1. [s EXCEPT !.pc = c] = t BY DEF Builds, Made
<1>2. [s EXCEPT !.pc = c, !.object = x] = [[s EXCEPT !.pc = c] EXCEPT !.object = x] OBVIOUS
<1>3. [t EXCEPT !.object = x] = Made(s, c, s.unit, s.before, s.snap, s.deps, x) BY DEF Made
<1>4. [[s EXCEPT !.pc = c] EXCEPT !.object = x] = [t EXCEPT !.object = x] BY <1>1
<1> QED BY <1>2, <1>3, <1>4

LEMMA MoveObject ==
  ASSUME TypeOK, NEW p \in Builders, NEW c, NEW x,
         build' = [build EXCEPT ![p].pc = c, ![p].object = x]
  PROVE  LET s == build[p]
         IN Moved(p, Made(s, c, s.unit, s.before, s.snap, s.deps, x))
<1> DEFINE s == build[p]
<1>1. build' = [build EXCEPT ![p] = [s EXCEPT !.pc = c, !.object = x]] OBVIOUS
<1>2. s \in Builds BY DEF TypeOK
<1>3. [s EXCEPT !.pc = c, !.object = x] =
        Made(s, c, s.unit, s.before, s.snap, s.deps, x)
  BY <1>2, UpdateObject
<1> QED BY <1>1, <1>3 DEF Moved

LEMMA UpdateUnit ==
  ASSUME NEW s \in Builds, NEW c, NEW x
  PROVE  [s EXCEPT !.pc = c, !.unit = x] =
           Made(s, c, x, s.before, s.snap, s.deps, s.object)
<1> DEFINE t == Made(s, c, s.unit, s.before, s.snap, s.deps, s.object)
<1>1. [s EXCEPT !.pc = c] = t BY DEF Builds, Made
<1>2. [s EXCEPT !.pc = c, !.unit = x] = [[s EXCEPT !.pc = c] EXCEPT !.unit = x] OBVIOUS
<1>3. [t EXCEPT !.unit = x] = Made(s, c, x, s.before, s.snap, s.deps, s.object) BY DEF Made
<1>4. [[s EXCEPT !.pc = c] EXCEPT !.unit = x] = [t EXCEPT !.unit = x] BY <1>1
<1> QED BY <1>2, <1>3, <1>4

LEMMA MoveUnit ==
  ASSUME TypeOK, NEW p \in Builders, NEW c, NEW x,
         build' = [build EXCEPT ![p].pc = c, ![p].unit = x]
  PROVE  LET s == build[p]
         IN Moved(p, Made(s, c, x, s.before, s.snap, s.deps, s.object))
<1> DEFINE s == build[p]
<1>1. build' = [build EXCEPT ![p] = [s EXCEPT !.pc = c, !.unit = x]] OBVIOUS
<1>2. s \in Builds BY DEF TypeOK
<1>3. [s EXCEPT !.pc = c, !.unit = x] =
        Made(s, c, x, s.before, s.snap, s.deps, s.object)
  BY <1>2, UpdateUnit
<1> QED BY <1>1, <1>3 DEF Moved

LEMMA GotoMade ==
  ASSUME TypeOK, NEW p \in Builders, NEW c, Goto(p, c)
  PROVE  LET s == build[p]
         IN Moved(p, Made(s, c, s.unit, s.before, s.snap, s.deps, s.object))
<1> DEFINE s == build[p]
<1>1. s \in Builds BY DEF TypeOK
<1>2. s = Made(s, s.pc, s.unit, s.before, s.snap, s.deps, s.object) BY <1>1, AsMade
<1>3. [s EXCEPT !.pc = c] = Made(s, c, s.unit, s.before, s.snap, s.deps, s.object)
  BY <1>1 DEF Builds, Made
<1>4. build' = [build EXCEPT ![p] = [s EXCEPT !.pc = c]] BY DEF Goto
<1> QED BY <1>3, <1>4 DEF Moved

-----------------------------------------------------------------------------
(* The locks. *)
Holding ==
  {"look", "compile", "check", "check_tool", "publish", "unpublished", "unsynced", "unlock"}
SameKey(r, s) == r.unit = s.unit /\ r.snap = s.snap /\ r.deps = s.deps /\ r.tool = s.tool

(* A step releases everything, or keeps what it has while it stays at work on
   its key, or takes the lock of its key. *)
LockCase(p, r) ==
  \/ lock' = Released(p)
  \/ lock' = lock /\ (build[p].pc \in Holding => r.pc \in Holding /\ SameKey(r, build[p]))
  \/ /\ build[p].pc = "lock" /\ r.pc \in Holding /\ SameKey(r, build[p])
     /\ lock[Key(p)] = None /\ lock' = [lock EXCEPT ![Key(p)] = p]

RecordKey(s) ==
  [unit |-> s.unit, text |-> s.snap[s.unit], deps |-> s.deps[s.unit], tool |-> s.tool]
AtWork(s, k) == s.pc \in Holding /\ k = RecordKey(s)
Locks == \A k \in Keys : lock[k] # None => AtWork(build[lock[k]], k)

LEMMA MovedFields ==
  ASSUME TypeOK, NEW p \in Builders, NEW r \in Builds, Moved(p, r)
  PROVE  /\ build' \in [Builders -> Builds] /\ build'[p] = r
         /\ \A q \in Builders \ {p} : build'[q] = build[q]
BY DEF TypeOK, Moved

LEMMA LocksKept ==
  ASSUME TypeOK, NEW p \in Builders, NEW r \in Builds, Moved(p, r), LockCase(p, r)
  PROVE  lock' \in [Keys -> Builders \cup {None}] /\ Locks'
<1>1. /\ build'[p] = r /\ \A q \in Builders \ {p} : build'[q] = build[q]
      /\ lock \in [Keys -> Builders \cup {None}] /\ Locks /\ None \notin Builders
  BY MovedFields, CacheAssumption DEF TypeOK, Locks, AtWork, RecordKey, Key, KeyOf, Unit, Holding
<1>2. Key(p) = RecordKey(build[p]) BY DEF Key, KeyOf, Unit, RecordKey
<1>3. SameKey(r, build[p]) => RecordKey(r) = RecordKey(build[p]) BY DEF RecordKey, SameKey
<1>4. CASE lock' = Released(p)
  <2>1. \A k \in Keys : lock'[k] # None => lock[k] # p /\ lock'[k] = lock[k]
    BY <1>1, <1>4 DEF Released
  <2>2. lock' \in [Keys -> Builders \cup {None}] BY <1>1, <1>4 DEF Released
  <2>3. Locks' BY <1>1, <2>1 DEF Locks
  <2> QED BY <2>2, <2>3
<1>5. CASE lock' = lock /\ (build[p].pc \in Holding => r.pc \in Holding /\ SameKey(r, build[p]))
  <2>1. Locks'
    <3> SUFFICES ASSUME NEW k \in Keys, lock'[k] # None
                 PROVE  AtWork(build'[lock'[k]], k)
      BY DEF Locks
    <3>1. lock'[k] = lock[k] /\ lock[k] \in Builders /\ AtWork(build[lock[k]], k)
      BY <1>1, <1>5 DEF Locks
    <3>2. CASE lock[k] = p BY <1>1, <1>3, <1>5, <3>1, <3>2 DEF AtWork
    <3>3. CASE lock[k] # p BY <1>1, <3>1, <3>3
    <3> QED BY <3>2, <3>3
  <2> QED BY <1>1, <1>5, <2>1
<1>6. CASE /\ build[p].pc = "lock" /\ r.pc \in Holding /\ SameKey(r, build[p])
           /\ lock[Key(p)] = None /\ lock' = [lock EXCEPT ![Key(p)] = p]
  <2>1. Locks'
    <3> SUFFICES ASSUME NEW k \in Keys, lock'[k] # None
                 PROVE  AtWork(build'[lock'[k]], k)
      BY DEF Locks
    <3>1. CASE k = Key(p)
      <4>1. lock'[k] = p BY <1>1, <1>6, <3>1
      <4> QED BY <1>1, <1>2, <1>3, <1>6, <3>1, <4>1 DEF AtWork
    <3>2. CASE k # Key(p)
      <4>1. lock'[k] = lock[k] BY <1>1, <1>6, <3>2
      <4>2. lock[k] \in Builders /\ AtWork(build[lock[k]], k) BY <1>1, <4>1 DEF Locks
      <4>3. lock[k] # p BY <1>6, <4>2 DEF AtWork, Holding
      <4> QED BY <1>1, <4>1, <4>2, <4>3
    <3> QED BY <3>1, <3>2
  <2> QED BY <1>1, <1>6, <2>1
<1> QED BY <1>4, <1>5, <1>6 DEF LockCase

-----------------------------------------------------------------------------
(* A step of a builder gives it a well-formed record of which the facts are
   so again. *)
Good(p, r) ==
  /\ r \in Builds /\ Moved(p, r) /\ LockCase(p, r)
  /\ Facts(r) /\ (~returned => Trust(r))
Steps(p) == \E r \in Builds : Good(p, r)

(* What is known of a builder before its step. *)
LEMMA Known ==
  ASSUME IInv, NEW p \in Builders
  PROVE  LET s == build[p]
         IN /\ TypeOK /\ s \in Builds /\ Facts(s) /\ (~returned => Trust(s))
            /\ s.unit \in Units /\ s.seen \subseteq Texts \cup Tools
            /\ s.tool \in Tools \cup {None} /\ s.before \in Texts \cup {None}
            /\ s.snap \in [Units -> Texts \cup {None}] /\ s.deps \in [Units -> Texts \cup {None}]
            /\ s.object \in [Units -> Objects \cup {None, Decayed}]
            /\ text \in Texts /\ tool \in Tools
<1>1. TypeOK /\ build[p] \in Builds BY DEF IInv, TypeOK
<1>2. Facts(build[p]) /\ (~returned => Trust(build[p])) BY DEF IInv
<1> QED BY <1>1, <1>2 DEF TypeOK, Builds

(* A builder that only goes to another place. *)
Places ==
  {"idle", "pin", "first", "first_deps", "second", "second_deps", "repin", "lock", "look",
   "compile", "check", "check_tool", "publish", "unpublished", "unsynced", "unlock", "ready",
   "ready_tool", "link", "after", "after_tool", "source", "failed", "blind", "rejected", "linked"}
At(s, c) == Made(s, c, s.unit, s.before, s.snap, s.deps, s.object)

LEMMA AtFields ==
  ASSUME NEW s \in Builds, NEW c \in Places
  PROVE  /\ At(s, c) \in Builds /\ At(s, c).pc = c /\ At(s, c).tool = s.tool
         /\ At(s, c).unit = s.unit /\ At(s, c).before = s.before /\ At(s, c).snap = s.snap
         /\ At(s, c).deps = s.deps /\ At(s, c).object = s.object
         /\ At(s, c).seen = s.seen
<1>1. At(s, c) \in Builds BY DEF At, Made, Builds, Places
<1> QED BY <1>1, MadeFields DEF At

LEMMA GotoMoves ==
  ASSUME IInv, NEW p \in Builders, NEW c \in Places, Goto(p, c),
         LockCase(p, At(build[p], c)),
         Facts(At(build[p], c)), ~returned => Trust(At(build[p], c))
  PROVE  Steps(p)
<1>1. TypeOK /\ build[p] \in Builds BY Known
<1>2. Moved(p, At(build[p], c)) BY <1>1, GotoMade DEF At
<1> QED BY <1>1, <1>2, AtFields DEF Steps, Good

(* Giving the cache up. *)
LEMMA GiveUpMoves ==
  ASSUME IInv, NEW p \in Builders, build[p].pc # "idle",
         NEW c \in {"source", "rejected", "blind"}, Goto(p, c),
         lock' = Released(p) \/ (UNCHANGED lock /\ build[p].pc \notin Holding)
  PROVE  Steps(p)
<1> DEFINE s == build[p]
           r == At(s, c)
<1>1. s \in Builds /\ Facts(s) BY Known
<1>2. r.pc = c /\ r.tool = s.tool /\ r.seen = s.seen BY <1>1, AtFields DEF Places
<1>3. Facts(r) BY <1>1, <1>2 DEF Facts, Prep, Work, Done
<1>4. Trust(r) BY <1>2 DEF Trust, Prep, Work, Done
<1>5. LockCase(p, r) BY DEF LockCase
<1>6. c \in Places BY DEF Places
<1> QED BY <1>3, <1>4, <1>5, <1>6, GotoMoves

LEMMA FailMoves ==
  ASSUME IInv, NEW p \in Builders, build[p].pc # "idle", Fail(p),
         \E x, y \in build[p].seen : x # y /\ ({x, y} \subseteq Texts \/ {x, y} \subseteq Tools)
  PROVE  Steps(p)
<1> DEFINE s == build[p]
           r == At(s, "failed")
<1>1. s \in Builds /\ Facts(s) BY Known
<1>2. r.pc = "failed" /\ r.tool = s.tool /\ r.seen = s.seen BY <1>1, AtFields DEF Places
<1>3. Facts(r) BY <1>1, <1>2 DEF Facts, Prep, Work, Done
<1>4. Trust(r) BY <1>2 DEF Trust, Prep, Work, Done
<1>5. LockCase(p, r) BY DEF LockCase, Fail
<1>6. "failed" \in Places /\ Goto(p, "failed") BY DEF Places, Fail
<1> QED BY <1>3, <1>4, <1>5, <1>6, GotoMoves

(* Preparation. *)
LEMMA BeginMoves == ASSUME IInv, NEW p \in Builders, Begin(p) PROVE Steps(p)
<1> DEFINE r == Fresh("pin", tool, {text, tool})
<1>1. text \in Texts /\ tool \in Tools /\ 1 \in Units /\ N \in Nat
  BY Known, CacheAssumption DEF Units
<1>2. r = [pc |-> "pin", tool |-> tool, unit |-> 1, before |-> None,
           snap |-> [u \in Units |-> None], deps |-> [u \in Units |-> None],
           object |-> [u \in Units |-> None], seen |-> {text, tool}]
  BY DEF Fresh
<1>3. r \in Builds
  <2>1. /\ [u \in Units |-> None] \in [Units -> Texts \cup {None}]
        /\ [u \in Units |-> None] \in [Units -> Objects \cup {None, Decayed}]
        /\ {text, tool} \in SUBSET (Texts \cup Tools)
    BY <1>1
  <2>2. 1 \in Units /\ None \in Texts \cup {None} /\ tool \in Tools \cup {None} BY <1>1
  <2> QED BY <2>1, <2>2 DEF Builds, Fresh
<1>4. r.pc = "pin" /\ r.tool = tool /\ r.unit = 1 /\ r.seen = {text, tool} BY <1>2
<1>5. \A u \in Units : ~(u < 1) BY <1>1 DEF Units
<1>6. Facts(r) BY <1>1, <1>4, <1>5 DEF Facts, Prep, Work, Done
<1>7. Trust(r) BY <1>4, <1>5 DEF Trust, Prep, Work, Done
<1>8. LockCase(p, r)
  BY DEF Begin, LockCase, Holding, Idle, Fresh
<1>9. Moved(p, r) BY DEF Begin, Moved
<1> QED BY <1>3, <1>6, <1>7, <1>8, <1>9 DEF Steps, Good

LEMMA PinSourceMoves == ASSUME IInv, NEW p \in Builders, PinSource(p) PROVE Steps(p)
<1> DEFINE s == build[p]
           r == Made(s, "first", s.unit, text, s.snap, s.deps, s.object)
<1>1. TypeOK /\ s \in Builds /\ Facts(s) /\ (~returned => Trust(s)) /\ text \in Texts BY Known
<1>2. s.pc = "pin" /\ lock' = lock BY DEF PinSource
<1>3. /\ r.pc = "first" /\ r.tool = s.tool /\ r.unit = s.unit /\ r.snap = s.snap
      /\ r.deps = s.deps /\ r.object = s.object /\ r.seen = s.seen
  BY MadeFields
<1>4. r \in Builds BY <1>1 DEF Made, Builds
<1>5. Moved(p, r)
  <2>1. build' = [build EXCEPT ![p].pc = "first", ![p].before = text]
    BY <1>1 DEF PinSource, TypeOK, Builds, Unit
  <2> QED BY <1>1, <2>1, MoveBefore
<1>6. Facts(r) BY <1>1, <1>2, <1>3 DEF Facts, Pinned, Prep, Work, Done
<1>7. ~returned => Trust(r) BY <1>1, <1>2, <1>3 DEF Trust, Agree, Prep, Work, Done
<1>8. LockCase(p, r) BY <1>2 DEF LockCase, Holding
<1> QED BY <1>4, <1>5, <1>6, <1>7, <1>8 DEF Steps, Good

LEMMA FirstMoves == ASSUME IInv, NEW p \in Builders, First(p) PROVE Steps(p)
<1> DEFINE s == build[p]
           sn == [s.snap EXCEPT ![s.unit] = text]
           r == Made(s, "first_deps", s.unit, s.before, sn, s.deps, s.object)
<1>1. TypeOK /\ s \in Builds /\ Facts(s) /\ (~returned => Trust(s)) /\ text \in Texts BY Known
<1>2. s.pc = "first" /\ lock' = lock BY DEF First
<1>3. /\ r.pc = "first_deps" /\ r.tool = s.tool /\ r.unit = s.unit /\ r.snap = sn
      /\ r.deps = s.deps /\ r.object = s.object /\ r.seen = s.seen
  BY MadeFields
<1>4. /\ sn \in [Units -> Texts \cup {None}] /\ sn[s.unit] = text /\ s.unit \in Units
      /\ \A u \in Units : u # s.unit => sn[u] = s.snap[u]
  BY <1>1 DEF Builds
<1>5. r \in Builds BY <1>1, <1>4 DEF Made, Builds
<1>6. Moved(p, r)
  <2>1. build' = [build EXCEPT ![p].pc = "first_deps", ![p].snap = sn]
    BY <1>1 DEF First, TypeOK, Builds, Unit
  <2> QED BY <1>1, <2>1, MoveSnap
<1>7. \A u \in Units : u < s.unit => u # s.unit BY <1>4, CacheAssumption DEF Units
<1>8. Facts(r)
  <2>1. \A u \in Units : u < s.unit => Pinned(r, u)
    BY <1>1, <1>2, <1>3, <1>4, <1>7 DEF Facts, Pinned, Prep
  <2> QED BY <1>1, <1>2, <1>3, <1>4, <2>1 DEF Facts, Prep, Work, Done
<1>9. ~returned => Trust(r)
  <2>1. ~returned => \A u \in Units : u < s.unit => Agree(r, u)
    BY <1>1, <1>2, <1>3, <1>4, <1>7 DEF Trust, Agree, Prep
  <2> QED BY <1>3, <2>1 DEF Trust, Prep, Work, Done
<1>10. LockCase(p, r) BY <1>2 DEF LockCase, Holding
<1> QED BY <1>5, <1>6, <1>8, <1>9, <1>10 DEF Steps, Good

LEMMA FirstDepsMoves == ASSUME IInv, NEW p \in Builders, FirstDeps(p) PROVE Steps(p)
<1> DEFINE s == build[p]
           dp == [s.deps EXCEPT ![s.unit] = text]
           r == Made(s, "second", s.unit, s.before, s.snap, dp, s.object)
<1>1. TypeOK /\ s \in Builds /\ Facts(s) /\ (~returned => Trust(s)) /\ text \in Texts BY Known
<1>2. s.pc = "first_deps" /\ lock' = lock BY DEF FirstDeps
<1>3. /\ r.pc = "second" /\ r.tool = s.tool /\ r.unit = s.unit /\ r.snap = s.snap
      /\ r.deps = dp /\ r.object = s.object /\ r.seen = s.seen
  BY MadeFields
<1>4. /\ dp \in [Units -> Texts \cup {None}] /\ dp[s.unit] = text /\ s.unit \in Units
      /\ \A u \in Units : u # s.unit => dp[u] = s.deps[u]
  BY <1>1 DEF Builds
<1>5. r \in Builds BY <1>1, <1>4 DEF Made, Builds
<1>6. Moved(p, r)
  <2>1. build' = [build EXCEPT ![p].pc = "second", ![p].deps = dp]
    BY <1>1 DEF FirstDeps, TypeOK, Builds, Unit
  <2> QED BY <1>1, <2>1, MoveDeps
<1>7. \A u \in Units : u < s.unit => u # s.unit BY <1>4, CacheAssumption DEF Units
<1>8. Facts(r)
  <2>1. \A u \in Units : u < s.unit => Pinned(r, u)
    BY <1>1, <1>2, <1>3, <1>4, <1>7 DEF Facts, Pinned, Prep
  <2> QED BY <1>1, <1>2, <1>3, <1>4, <2>1 DEF Facts, Prep, Work, Done
<1>9. ~returned => Trust(r)
  <2>1. ~returned => \A u \in Units : u < s.unit => Agree(r, u)
    BY <1>1, <1>2, <1>3, <1>4, <1>7 DEF Trust, Agree, Prep
  <2>2. Agree(r, s.unit) \/ text # s.snap[s.unit] BY <1>3, <1>4 DEF Agree
  <2> QED BY <1>3, <2>1, <2>2 DEF Trust, Prep, Work, Done
<1>10. LockCase(p, r) BY <1>2 DEF LockCase, Holding
<1> QED BY <1>5, <1>6, <1>8, <1>9, <1>10 DEF Steps, Good

LEMMA SecondMoves == ASSUME IInv, NEW p \in Builders, Second(p) PROVE Steps(p)
<1> DEFINE s == build[p]
           r == At(s, "second_deps")
<1>1. TypeOK /\ s \in Builds /\ Facts(s) /\ (~returned => Trust(s)) BY Known
<1>2. s.pc = "second" BY DEF Second
<1>3. CASE FallBack(p) BY <1>2, <1>3, GiveUpMoves DEF FallBack
<1>4. CASE text = s.snap[s.unit] /\ Goto(p, "second_deps") /\ UNCHANGED lock
  <2>1. /\ r.pc = "second_deps" /\ r.tool = s.tool /\ r.unit = s.unit /\ r.snap = s.snap
        /\ r.deps = s.deps /\ r.object = s.object /\ r.seen = s.seen
    BY <1>1, AtFields DEF Places
  <2>2. Facts(r) BY <1>1, <1>2, <2>1 DEF Facts, Pinned, Prep, Work, Done
  <2>3. ~returned => Trust(r) BY <1>1, <1>2, <1>4, <2>1 DEF Trust, Agree, Prep, Work, Done
  <2>4. LockCase(p, r) BY <1>2, <1>4 DEF LockCase, Holding
  <2>5. "second_deps" \in Places BY DEF Places
  <2> QED BY <1>4, <2>2, <2>3, <2>4, <2>5, GotoMoves
<1> QED BY <1>3, <1>4 DEF Second, Unit

LEMMA SecondDepsMoves == ASSUME IInv, NEW p \in Builders, SecondDeps(p) PROVE Steps(p)
<1> DEFINE s == build[p]
           r == At(s, "repin")
<1>1. TypeOK /\ s \in Builds /\ Facts(s) /\ (~returned => Trust(s)) BY Known
<1>2. s.pc = "second_deps" BY DEF SecondDeps
<1>3. CASE FallBack(p) BY <1>2, <1>3, GiveUpMoves DEF FallBack
<1>4. CASE Goto(p, "repin") /\ UNCHANGED lock
  <2>1. /\ r.pc = "repin" /\ r.tool = s.tool /\ r.unit = s.unit /\ r.snap = s.snap
        /\ r.deps = s.deps /\ r.object = s.object /\ r.seen = s.seen
    BY <1>1, AtFields DEF Places
  <2>2. Facts(r) BY <1>1, <1>2, <2>1 DEF Facts, Pinned, Prep, Work, Done
  <2>3. ~returned => Trust(r) BY <1>1, <1>2, <2>1 DEF Trust, Agree, Prep, Work, Done
  <2>4. LockCase(p, r) BY <1>2, <1>4 DEF LockCase, Holding
  <2>5. "repin" \in Places BY DEF Places
  <2> QED BY <1>4, <2>2, <2>3, <2>4, <2>5, GotoMoves
<1> QED BY <1>3, <1>4 DEF SecondDeps

LEMMA RepinMoves == ASSUME IInv, NEW p \in Builders, Repin(p) PROVE Steps(p)
<1> DEFINE s == build[p]
<1>1. TypeOK /\ s \in Builds /\ Facts(s) /\ (~returned => Trust(s)) /\ s.unit \in Units BY Known
<1>2. s.pc = "repin" BY DEF Repin
<1>3. CASE FallBack(p) BY <1>2, <1>3, GiveUpMoves DEF FallBack
<1>4. \A u \in Units : u < s.unit + 1 => u < s.unit \/ u = s.unit
  BY <1>1, CacheAssumption DEF Units
<1>5. CASE s.unit < N /\ build' = [build EXCEPT ![p].pc = "pin", ![p].unit = s.unit + 1]
           /\ UNCHANGED lock
  <2> DEFINE r == Made(s, "pin", s.unit + 1, s.before, s.snap, s.deps, s.object)
  <2>1. /\ r.pc = "pin" /\ r.tool = s.tool /\ r.unit = s.unit + 1 /\ r.snap = s.snap
        /\ r.deps = s.deps /\ r.object = s.object /\ r.seen = s.seen
    BY MadeFields
  <2>2. s.unit + 1 \in Units BY <1>1, <1>5, CacheAssumption DEF Units
  <2>3. r \in Builds BY <1>1, <2>2 DEF Made, Builds
  <2>4. Moved(p, r) BY <1>1, <1>5, MoveUnit
  <2>5. \A u \in Units : u < s.unit + 1 => Pinned(r, u)
    BY <1>1, <1>2, <1>4, <2>1 DEF Facts, Pinned, Prep
  <2>6. Facts(r) BY <1>1, <1>2, <2>1, <2>5 DEF Facts, Prep, Work, Done
  <2>7. ~returned => \A u \in Units : u < s.unit + 1 => Agree(r, u)
    BY <1>1, <1>2, <1>4, <2>1 DEF Trust, Agree, Prep
  <2>8. ~returned => Trust(r) BY <2>1, <2>7 DEF Trust, Prep, Work, Done
  <2>9. LockCase(p, r) BY <1>2, <1>5 DEF LockCase, Holding
  <2> QED BY <2>3, <2>4, <2>6, <2>8, <2>9 DEF Steps, Good
<1>6. CASE ~(s.unit < N) /\ build' = [build EXCEPT ![p].pc = "lock", ![p].unit = 1]
           /\ UNCHANGED lock
  <2> DEFINE r == Made(s, "lock", 1, s.before, s.snap, s.deps, s.object)
  <2>1. /\ r.pc = "lock" /\ r.tool = s.tool /\ r.unit = 1 /\ r.snap = s.snap
        /\ r.deps = s.deps /\ r.object = s.object /\ r.seen = s.seen
    BY MadeFields
  <2>2. 1 \in Units /\ \A u \in Units : u < s.unit + 1 /\ ~(u < 1)
    BY <1>1, <1>6, CacheAssumption DEF Units
  <2>3. r \in Builds BY <1>1, <2>2 DEF Made, Builds
  <2>4. Moved(p, r) BY <1>1, <1>6, MoveUnit
  <2>5. \A u \in Units : Pinned(r, u)
    BY <1>1, <1>2, <1>4, <2>1, <2>2 DEF Facts, Pinned, Prep
  <2>6. Facts(r) BY <1>1, <1>2, <2>1, <2>5 DEF Facts, Prep, Work, Done
  <2>7. ~returned => \A u \in Units : Agree(r, u)
    BY <1>1, <1>2, <1>4, <2>1, <2>2 DEF Trust, Agree, Prep
  <2>8. ~returned => Trust(r) BY <2>1, <2>2, <2>7 DEF Trust, Prep, Work, Done
  <2>9. LockCase(p, r) BY <1>2, <1>6 DEF LockCase, Holding
  <2> QED BY <2>3, <2>4, <2>6, <2>8, <2>9 DEF Steps, Good
<1> QED BY <1>1, <1>3, <1>5, <1>6 DEF Repin, Unit, TypeOK, Builds

LEMMA GiveUpPreparingMoves ==
  ASSUME IInv, NEW p \in Builders, GiveUpPreparing(p)
  PROVE  Steps(p)
BY GiveUpMoves DEF GiveUpPreparing, FallBack

-----------------------------------------------------------------------------
(* Objects. *)
LEMMA LockMoves == ASSUME IInv, NEW p \in Builders, Lock(p) PROVE Steps(p)
<1> DEFINE s == build[p]
<1>1. TypeOK /\ s \in Builds /\ Facts(s) /\ (~returned => Trust(s)) BY Known
<1>2. s.pc = "lock" BY DEF Lock
<1>3. ASSUME NEW c \in {"look", "compile"}, Goto(p, c),
             \/ lock' = lock
             \/ lock[Key(p)] = None /\ lock' = [lock EXCEPT ![Key(p)] = p]
      PROVE Steps(p)
  <2> DEFINE r == At(s, c)
  <2>1. /\ r.pc = c /\ r.tool = s.tool /\ r.unit = s.unit /\ r.snap = s.snap
        /\ r.deps = s.deps /\ r.object = s.object /\ r.seen = s.seen
    BY <1>1, AtFields DEF Places
  <2>2. Facts(r) BY <1>1, <1>2, <2>1 DEF Facts, Pinned, Prep, Work, Done
  <2>3. ~returned => Trust(r) BY <1>1, <1>2, <2>1 DEF Trust, Agree, Sound, Prep, Work, Done
  <2>4. LockCase(p, r) BY <1>2, <1>3, <2>1 DEF LockCase, Holding, SameKey
  <2>5. c \in Places BY DEF Places
  <2> QED BY <1>3, <2>2, <2>3, <2>4, <2>5, GotoMoves
<1> QED BY <1>3 DEF Lock

LEMMA CompileMoves == ASSUME IInv, NEW p \in Builders, CompileUnit(p) PROVE Steps(p)
<1> DEFINE s == build[p]
<1>1. TypeOK /\ s \in Builds /\ Facts(s) /\ (~returned => Trust(s)) /\ tool \in Tools
      /\ s.unit \in Units /\ s.object \in [Units -> Objects \cup {None, Decayed}]
  BY Known
<1>2. s.pc = "compile" BY DEF CompileUnit
<1>3. CASE FallBack(p) BY <1>2, <1>3, GiveUpMoves DEF FallBack
<1>4. CASE /\ build' = [build EXCEPT ![p].pc = "check",
                          ![p].object[Unit(p)] = Object(Unit(p), build[p].snap[Unit(p)], tool)]
           /\ UNCHANGED lock
  <2> DEFINE o == Object(s.unit, s.snap[s.unit], tool)
             ob == [s.object EXCEPT ![s.unit] = o]
             r == Made(s, "check", s.unit, s.before, s.snap, s.deps, ob)
  <2>1. s.snap[s.unit] \in Texts BY <1>1, <1>2 DEF Facts, Pinned, Work
  <2>2. o \in Objects BY <1>1, <2>1 DEF Object, Objects
  <2>3. /\ ob \in [Units -> Objects \cup {None, Decayed}] /\ ob[s.unit] = o
        /\ \A u \in Units : u # s.unit => ob[u] = s.object[u]
    BY <1>1, <2>2
  <2>4. /\ r.pc = "check" /\ r.tool = s.tool /\ r.unit = s.unit /\ r.snap = s.snap
        /\ r.deps = s.deps /\ r.object = ob /\ r.seen = s.seen
    BY MadeFields
  <2>5. r \in Builds BY <1>1, <2>3 DEF Made, Builds
  <2>6. Moved(p, r)
    <3>1. build' = [build EXCEPT ![p].pc = "check", ![p].object = ob]
      BY <1>1, <1>4 DEF TypeOK, Builds, Unit
    <3> QED BY <1>1, <3>1, MoveObject
  <2>7. \A u \in Units : u < s.unit => u # s.unit BY <1>1, CacheAssumption DEF Units
  <2>8. Facts(r)
    BY <1>1, <1>2, <2>2, <2>3, <2>4 DEF Facts, Pinned, Prep, Work, Done
  <2>9. ~returned => Trust(r)
    <3>1. ~returned => \A u \in Units : u < s.unit => Sound(r, u)
      BY <1>1, <1>2, <2>3, <2>4, <2>7 DEF Trust, Sound, Work
    <3>2. Sound(r, s.unit) \/ tool # s.tool BY <2>3, <2>4 DEF Sound
    <3> QED BY <1>1, <1>2, <2>4, <3>1, <3>2 DEF Trust, Agree, Prep, Work, Done
  <2>10. LockCase(p, r) BY <1>2, <1>4, <2>4 DEF LockCase, Holding, SameKey
  <2> QED BY <2>5, <2>6, <2>8, <2>9, <2>10 DEF Steps, Good
<1> QED BY <1>3, <1>4 DEF CompileUnit

LEMMA CopyMoves == ASSUME IInv, NEW p \in Builders, CopyHit(p) PROVE Steps(p)
<1> DEFINE s == build[p]
<1>1. TypeOK /\ s \in Builds /\ Facts(s) /\ (~returned => Trust(s)) /\ s.tool \in Tools \cup {None}
      /\ s.unit \in Units /\ s.object \in [Units -> Objects \cup {None, Decayed}]
  BY Known
<1>2. s.pc = "look" /\ UNCHANGED lock BY DEF CopyHit
<1>3. CASE Goto(p, "compile")
  <2> DEFINE r == At(s, "compile")
  <2>1. /\ r.pc = "compile" /\ r.tool = s.tool /\ r.unit = s.unit /\ r.snap = s.snap
        /\ r.deps = s.deps /\ r.object = s.object /\ r.seen = s.seen
    BY <1>1, AtFields DEF Places
  <2>2. Facts(r) BY <1>1, <1>2, <2>1 DEF Facts, Pinned, Prep, Work, Done
  <2>3. ~returned => Trust(r) BY <1>1, <1>2, <2>1 DEF Trust, Agree, Sound, Prep, Work, Done
  <2>4. LockCase(p, r) BY <1>2, <2>1 DEF LockCase, Holding, SameKey
  <2>5. "compile" \in Places BY DEF Places
  <2> QED BY <1>3, <2>2, <2>3, <2>4, <2>5, GotoMoves
<1>4. CASE /\ Complete(Key(p))
           /\ build' = [build EXCEPT ![p].pc = "unlock", ![p].object[Unit(p)] = entry[Key(p)].object]
  <2> DEFINE k == Key(p)
             o == entry[k].object
             ob == [s.object EXCEPT ![s.unit] = o]
             r == Made(s, "unlock", s.unit, s.before, s.snap, s.deps, ob)
  <2>1. s.snap[s.unit] \in Texts /\ s.deps[s.unit] \in Texts /\ s.tool \in Tools
    BY <1>1, <1>2 DEF Facts, Pinned, Work
  <2>2. k \in Keys /\ k.unit = s.unit /\ k.text = s.snap[s.unit] /\ k.tool = s.tool
    BY <1>1, <2>1 DEF Key, KeyOf, Keys, Unit
  <2>3. entry[k] # None /\ entry[k].receipt = o BY <1>4 DEF Complete
  <2>4. entry[k] \in Entries
    BY <1>1, <2>2, <2>3 DEF TypeOK
  <2>5. o \in Objects BY <2>3, <2>4 DEF Entries
  <2>6. ~returned => o = Object(s.unit, s.snap[s.unit], s.tool)
    BY <2>2, <2>3 DEF IInv, EntryIsTrue
  <2>7. /\ ob \in [Units -> Objects \cup {None, Decayed}] /\ ob[s.unit] = o
        /\ \A u \in Units : u # s.unit => ob[u] = s.object[u]
    BY <1>1, <2>5
  <2>8. /\ r.pc = "unlock" /\ r.tool = s.tool /\ r.unit = s.unit /\ r.snap = s.snap
        /\ r.deps = s.deps /\ r.object = ob /\ r.seen = s.seen
    BY MadeFields
  <2>9. r \in Builds BY <1>1, <2>7 DEF Made, Builds
  <2>10. Moved(p, r)
    <3>1. build' = [build EXCEPT ![p].pc = "unlock", ![p].object = ob]
      BY <1>1, <1>4 DEF TypeOK, Builds, Unit
    <3> QED BY <1>1, <3>1, MoveObject
  <2>11. \A u \in Units : u < s.unit => u # s.unit BY <1>1, CacheAssumption DEF Units
  <2>12. Facts(r)
    BY <1>1, <1>2, <2>8 DEF Facts, Pinned, Prep, Work, Done
  <2>13. ~returned => Trust(r)
    <3>1. ~returned => \A u \in Units : u < s.unit => Sound(r, u)
      BY <1>1, <1>2, <2>7, <2>8, <2>11 DEF Trust, Sound, Work
    <3>2. ~returned => Sound(r, s.unit) BY <2>6, <2>7, <2>8 DEF Sound
    <3> QED BY <1>1, <1>2, <2>8, <3>1, <3>2 DEF Trust, Agree, Prep, Work, Done
  <2>14. LockCase(p, r) BY <1>2, <2>8 DEF LockCase, Holding, SameKey
  <2> QED BY <2>9, <2>10, <2>12, <2>13, <2>14 DEF Steps, Good
<1> QED BY <1>3, <1>4 DEF CopyHit

(* The second looks. *)
LEMMA InputsMoves ==
  ASSUME IInv, NEW p \in Builders, NEW from, NEW to, InputsStable(p, from, to),
         \/ from = "check" /\ to = "check_tool"
         \/ from = "ready" /\ to = "ready_tool"
         \/ from = "after" /\ to = "after_tool"
  PROVE  Steps(p)
<1> DEFINE s == build[p]
           r == At(s, to)
<1>1. TypeOK /\ s \in Builds /\ Facts(s) /\ (~returned => Trust(s)) /\ text \in Texts
      /\ 1 \in Units
  BY Known, CacheAssumption DEF Units
<1>2. s.pc = from /\ to \in Places BY DEF InputsStable, Places
<1>3. \A u \in Units : s.deps[u] \in Texts \cap s.seen /\ text \in s.seen
  BY <1>1, <1>2 DEF Facts, Pinned, Work, Done
<1>4. CASE (\E u \in Units : s.deps[u] # text) /\ Fail(p)
  <2>1. \E x, y \in s.seen : x # y /\ ({x, y} \subseteq Texts \/ {x, y} \subseteq Tools)
    BY <1>1, <1>3, <1>4
  <2> QED BY <1>2, <1>4, <2>1, FailMoves
<1>5. CASE (\A u \in Units : s.deps[u] = text) /\ Goto(p, to) /\ UNCHANGED lock
  <2>1. /\ r.pc = to /\ r.tool = s.tool /\ r.unit = s.unit /\ r.snap = s.snap
        /\ r.deps = s.deps /\ r.object = s.object /\ r.seen = s.seen
    BY <1>1, <1>2, AtFields
  <2>2. to = "after_tool" => \A u \in Units : s.deps[u] = s.deps[1] BY <1>1, <1>5
  <2>3. Facts(r) BY <1>1, <1>2, <2>1, <2>2 DEF Facts, Pinned, Prep, Work, Done
  <2>4. ~returned => Trust(r) BY <1>1, <1>2, <2>1 DEF Trust, Agree, Sound, Prep, Work, Done
  <2>5. LockCase(p, r) BY <1>2, <1>5, <2>1 DEF LockCase, Holding, SameKey
  <2> QED BY <1>2, <1>5, <2>3, <2>4, <2>5, GotoMoves
<1>6. CASE Blinded(p)
  <2>1. s.pc # "idle" BY <1>2
  <2> QED BY <1>6, <2>1, GiveUpMoves DEF Blinded
<1> QED BY <1>4, <1>5, <1>6 DEF InputsStable

LEMMA ToolMoves ==
  ASSUME IInv, NEW p \in Builders, NEW from, NEW to, ToolStable(p, from, to),
         \/ from = "check_tool" /\ to = "publish"
         \/ from = "ready_tool" /\ to = "link"
         \/ from = "after_tool" /\ to = "linked"
  PROVE  Steps(p)
<1> DEFINE s == build[p]
           r == At(s, to)
<1>1. TypeOK /\ s \in Builds /\ Facts(s) /\ (~returned => Trust(s)) /\ tool \in Tools BY Known
<1>2. s.pc = from /\ to \in Places BY DEF ToolStable, Places
<1>3. s.tool \in Tools \cap s.seen /\ tool \in s.seen BY <1>1, <1>2 DEF Facts
<1>4. CASE s.tool # tool /\ Fail(p)
  <2>1. \E x, y \in s.seen : x # y /\ ({x, y} \subseteq Texts \/ {x, y} \subseteq Tools)
    BY <1>1, <1>3, <1>4
  <2> QED BY <1>2, <1>4, <2>1, FailMoves
<1>5. CASE s.tool = tool /\ Goto(p, to) /\ UNCHANGED lock
  <2>1. /\ r.pc = to /\ r.tool = s.tool /\ r.unit = s.unit /\ r.snap = s.snap
        /\ r.deps = s.deps /\ r.object = s.object /\ r.seen = s.seen
    BY <1>1, <1>2, AtFields
  <2>2. Facts(r) BY <1>1, <1>2, <2>1 DEF Facts, Pinned, Prep, Work, Done
  <2>3. ~returned => (from = "check_tool" => Sound(r, r.unit))
    BY <1>1, <1>2, <1>5, <2>1 DEF Trust, Sound
  <2>4. ~returned => Trust(r)
    BY <1>1, <1>2, <2>1, <2>3 DEF Trust, Agree, Sound, Prep, Work, Done
  <2>5. LockCase(p, r) BY <1>2, <1>5, <2>1 DEF LockCase, Holding, SameKey
  <2> QED BY <1>2, <1>5, <2>2, <2>4, <2>5, GotoMoves
<1>6. CASE Blinded(p)
  <2>1. s.pc # "idle" BY <1>2
  <2> QED BY <1>6, <2>1, GiveUpMoves DEF Blinded
<1> QED BY <1>4, <1>5, <1>6 DEF ToolStable

(* Publication and its end. *)
LEMMA PublishMoves ==
  ASSUME IInv, NEW p \in Builders, Publish(p) \/ Clean(p)
  PROVE  Steps(p)
<1> DEFINE s == build[p]
<1>1. TypeOK /\ s \in Builds /\ Facts(s) /\ (~returned => Trust(s)) BY Known
<1>2. s.pc \in {"publish", "unpublished", "unsynced"} /\ UNCHANGED lock BY DEF Publish, Clean
<1>3. ASSUME NEW c \in {"unpublished", "unsynced", "unlock"}, Goto(p, c) PROVE Steps(p)
  <2> DEFINE r == At(s, c)
  <2>1. /\ r.pc = c /\ r.tool = s.tool /\ r.unit = s.unit /\ r.snap = s.snap
        /\ r.deps = s.deps /\ r.object = s.object /\ r.seen = s.seen
    BY <1>1, AtFields DEF Places
  <2>2. Facts(r) BY <1>1, <1>2, <2>1 DEF Facts, Pinned, Prep, Work, Done
  <2>3. ~returned => Trust(r) BY <1>1, <1>2, <2>1 DEF Trust, Agree, Sound, Prep, Work, Done
  <2>4. LockCase(p, r) BY <1>2, <2>1 DEF LockCase, Holding, SameKey
  <2>5. c \in Places BY DEF Places
  <2> QED BY <1>3, <2>2, <2>3, <2>4, <2>5, GotoMoves
<1> QED BY <1>3 DEF Publish, Clean

LEMMA UnlockMoves == ASSUME IInv, NEW p \in Builders, Unlock(p) PROVE Steps(p)
<1> DEFINE s == build[p]
<1>1. TypeOK /\ s \in Builds /\ Facts(s) /\ (~returned => Trust(s)) /\ s.unit \in Units BY Known
<1>2. s.pc = "unlock" /\ lock' = Released(p) BY DEF Unlock
<1>3. \A u \in Units : u < s.unit + 1 => u < s.unit \/ u = s.unit
  BY <1>1, CacheAssumption DEF Units
<1>4. ASSUME NEW c \in {"lock", "ready"}, NEW n \in Units,
             build' = [build EXCEPT ![p].pc = c, ![p].unit = n],
             \/ c = "lock" /\ n = s.unit + 1
             \/ c = "ready" /\ \A u \in Units : u < s.unit + 1
      PROVE Steps(p)
  <2> DEFINE r == Made(s, c, n, s.before, s.snap, s.deps, s.object)
  <2>1. /\ r.pc = c /\ r.tool = s.tool /\ r.unit = n /\ r.snap = s.snap
        /\ r.deps = s.deps /\ r.object = s.object /\ r.seen = s.seen
    BY MadeFields
  <2>2. r \in Builds BY <1>1 DEF Made, Builds
  <2>3. Moved(p, r) BY <1>1, <1>4, MoveUnit
  <2>4. Facts(r) BY <1>1, <1>2, <2>1 DEF Facts, Pinned, Prep, Work, Done
  <2>5. ~returned => Trust(r)
    <3>1. ~returned => \A u \in Units : u < s.unit + 1 => Sound(r, u)
      BY <1>1, <1>2, <1>3, <2>1 DEF Trust, Sound, Work
    <3>2. ~returned => \A u \in Units : Agree(r, u)
      BY <1>1, <1>2, <2>1 DEF Trust, Agree, Work
    <3> QED BY <1>4, <2>1, <3>1, <3>2 DEF Trust, Prep, Work, Done
  <2>6. LockCase(p, r) BY <1>2 DEF LockCase
  <2> QED BY <2>2, <2>3, <2>4, <2>5, <2>6 DEF Steps, Good
<1>5. CASE s.unit < N
  <2>1. s.unit + 1 \in Units BY <1>1, <1>5, CacheAssumption DEF Units
  <2>2. build' = [build EXCEPT ![p].pc = "lock", ![p].unit = s.unit + 1]
    BY <1>1, <1>5 DEF Unlock, Unit, TypeOK, Builds
  <2> QED BY <1>4, <2>1, <2>2
<1>6. CASE ~(s.unit < N)
  <2>1. \A u \in Units : u < s.unit + 1 BY <1>1, <1>6, CacheAssumption DEF Units
  <2>2. build' = [build EXCEPT ![p].pc = "ready", ![p].unit = s.unit]
    BY <1>1, <1>6 DEF Unlock, Unit, TypeOK, Builds
  <2> QED BY <1>1, <1>4, <2>1, <2>2
<1> QED BY <1>5, <1>6

LEMMA LinkMoves == ASSUME IInv, NEW p \in Builders, Link(p) PROVE Steps(p)
<1> DEFINE s == build[p]
           r == At(s, "after")
<1>1. TypeOK /\ s \in Builds /\ Facts(s) /\ (~returned => Trust(s)) BY Known
<1>2. s.pc = "link" /\ UNCHANGED lock BY DEF Link
<1>3. CASE Goto(p, "rejected") BY <1>2, <1>3, GiveUpMoves DEF Holding
<1>4. CASE Goto(p, "after")
  <2>1. /\ r.pc = "after" /\ r.tool = s.tool /\ r.unit = s.unit /\ r.snap = s.snap
        /\ r.deps = s.deps /\ r.object = s.object /\ r.seen = s.seen
    BY <1>1, AtFields DEF Places
  <2>2. Facts(r) BY <1>1, <1>2, <2>1 DEF Facts, Pinned, Prep, Work, Done
  <2>3. ~returned => Trust(r) BY <1>1, <1>2, <2>1 DEF Trust, Agree, Sound, Prep, Work, Done
  <2>4. LockCase(p, r) BY <1>2 DEF LockCase, Holding
  <2>5. "after" \in Places BY DEF Places
  <2> QED BY <1>4, <2>2, <2>3, <2>4, <2>5, GotoMoves
<1> QED BY <1>3, <1>4 DEF Link

LEMMA StopMoves ==
  ASSUME IInv, NEW p \in Builders, Leave(p) \/ Crash(p)
  PROVE  Steps(p)
<1>1. 1 \in Units BY CacheAssumption DEF Units
<1>2. Idle \in Builds
  <2>1. /\ [u \in Units |-> None] \in [Units -> Texts \cup {None}]
        /\ [u \in Units |-> None] \in [Units -> Objects \cup {None, Decayed}]
        /\ {} \in SUBSET (Texts \cup Tools)
    OBVIOUS
  <2> QED BY <1>1, <2>1 DEF Builds, Fresh, Idle
<1>3. Idle.pc = "idle" BY DEF Idle, Fresh
<1>4. Facts(Idle) /\ Trust(Idle) BY <1>3 DEF Facts, Trust, Prep, Work, Done
<1>5. LockCase(p, Idle) BY DEF Leave, Crash, LockCase, Holding
<1>6. Moved(p, Idle) BY DEF Leave, Crash, Moved
<1> QED BY <1>2, <1>4, <1>5, <1>6 DEF Steps, Good

LEMMA StepMoves ==
  ASSUME IInv, NEW p \in Builders, Begin(p) \/ Step(p) \/ Crash(p)
  PROVE  Steps(p)
BY BeginMoves, PinSourceMoves, FirstMoves, FirstDepsMoves, SecondMoves, SecondDepsMoves, RepinMoves,
   GiveUpPreparingMoves, LockMoves, CopyMoves, CompileMoves, InputsMoves, ToolMoves, PublishMoves,
   UnlockMoves, LinkMoves, StopMoves DEF Step

-----------------------------------------------------------------------------
(* The sorts, apart from the locks. *)
Sorts ==
  /\ text \in Texts /\ tool \in Tools
  /\ entry \in [Keys -> {None} \cup Entries]
  /\ lock \in [Keys -> Builders \cup {None}]
  /\ build \in [Builders -> Builds]
  /\ spent \in [{"builds", "changes", "decayed", "crashes"} -> Nat] /\ returned \in BOOLEAN

LEMMA TypeIs == TypeOK <=> Sorts /\ Locks
BY DEF TypeOK, Sorts, Locks, AtWork, RecordKey, Key, KeyOf, Unit, Holding

LEMMA SpendKeeps ==
  ASSUME TypeOK, NEW what \in {"builds", "changes", "decayed", "crashes"}, NEW limit,
         Spend(what, limit)
  PROVE  spent' \in [{"builds", "changes", "decayed", "crashes"} -> Nat]
BY DEF TypeOK, Spend

(* The entries under a step of a builder. *)
EntrySort == {None} \cup Entries
TrueOf(e, k) == e.receipt = Object(k.unit, k.text, k.tool)
Stands(k) == entry[k] # None => entry'[k] # None /\ entry'[k].receipt = entry[k].receipt

LEMMA EntriesKept ==
  ASSUME IInv, NEW p \in Builders, Begin(p) \/ Step(p) \/ Crash(p)
  PROVE  /\ entry' \in [Keys -> EntrySort] /\ \A k \in Keys : Stands(k)
         /\ ~returned => \A k \in Keys : entry'[k] # None => TrueOf(entry'[k], k)
<1> DEFINE s == build[p]
           o == s.object[s.unit]
<1>1. /\ entry \in [Keys -> EntrySort] /\ TypeOK /\ s \in Builds /\ Facts(s)
      /\ (~returned => Trust(s)) /\ s.unit \in Units
      /\ ~returned => \A k \in Keys : entry[k] # None => TrueOf(entry[k], k)
  BY Known DEF TypeOK, EntrySort, IInv, EntryIsTrue, TrueOf
<1>2. CASE entry' = entry BY <1>1, <1>2 DEF Stands
<1>3. CASE /\ s.pc = "publish" /\ entry[Key(p)] = None
           /\ entry' = [entry EXCEPT ![Key(p)] = Entry(o)]
  <2>1. s.snap[s.unit] \in Texts /\ s.deps[s.unit] \in Texts /\ s.tool \in Tools /\ o \in Objects
    BY <1>1, <1>3 DEF Facts, Pinned, Work
  <2>2. /\ Key(p) \in Keys /\ Key(p).unit = s.unit /\ Key(p).text = s.snap[s.unit]
        /\ Key(p).tool = s.tool
    BY <1>1, <2>1 DEF Key, KeyOf, Keys, Unit
  <2>3. Entry(o) \in Entries BY <2>1 DEF Entry, Entries
  <2>4. entry' \in [Keys -> EntrySort] BY <1>1, <1>3, <2>3 DEF EntrySort
  <2>5. /\ entry'[Key(p)] = Entry(o) /\ \A k \in Keys \ {Key(p)} : entry'[k] = entry[k]
    BY <1>1, <1>3, <2>2
  <2>6. \A k \in Keys : Stands(k) BY <1>3, <2>5 DEF Stands
  <2>7. ~returned => TrueOf(Entry(o), Key(p))
    BY <1>1, <1>3, <2>2 DEF Trust, Sound, TrueOf, Entry
  <2> QED BY <1>1, <2>4, <2>5, <2>6, <2>7
<1> QED
  BY <1>2, <1>3 DEF Begin, Step, Crash, PinSource, First, FirstDeps, Second, SecondDeps, Repin,
     GiveUpPreparing, Lock, CopyHit, CompileUnit, InputsStable, ToolStable, Publish, Clean, Unlock,
     Link, Leave, Unit

(* The builds and the locks under a step of a builder. *)
LEMMA BuildsKept ==
  ASSUME IInv, NEW p \in Builders, Steps(p), UNCHANGED <<text, tool, returned>>
  PROVE  /\ build' \in [Builders -> Builds] /\ lock' \in [Keys -> Builders \cup {None}] /\ Locks'
         /\ \A q \in Builders : Facts(build[q])'
         /\ ~returned' => \A q \in Builders : Trust(build[q])'
<1>1. PICK r \in Builds : Good(p, r) BY DEF Steps
<1>2. TypeOK /\ Moved(p, r) /\ LockCase(p, r) BY <1>1 DEF Good, IInv
<1>3. /\ build' \in [Builders -> Builds] /\ build'[p] = r
      /\ \A q \in Builders \ {p} : build'[q] = build[q]
  BY <1>2, MovedFields
<1>4. lock' \in [Keys -> Builders \cup {None}] /\ Locks' BY <1>2, LocksKept
<1>5. \A q \in Builders : Facts(build'[q]) /\ (~returned => Trust(build'[q]))
  BY <1>1, <1>3 DEF Good, IInv
<1>6. ASSUME NEW q \in Builders PROVE Facts(build[q])'
  BY <1>5 DEF Facts, Pinned
<1>7. ASSUME NEW q \in Builders, ~returned' PROVE Trust(build[q])'
  BY <1>5, <1>7 DEF Trust, Agree, Sound
<1> QED BY <1>3, <1>4, <1>6, <1>7

LEMMA BuilderKeeps ==
  ASSUME IInv, NEW p \in Builders, Begin(p) \/ Step(p) \/ Crash(p)
  PROVE  IInv' /\ \A k \in Keys : Stands(k)
<1>1. UNCHANGED <<text, tool, returned>>
  BY DEF Begin, Step, Crash, PinSource, First, FirstDeps, Second, SecondDeps, Repin,
     GiveUpPreparing, Lock, CopyHit, CompileUnit, InputsStable, ToolStable, Publish, Clean, Unlock,
     Link, Leave
<1>2. spent' \in [{"builds", "changes", "decayed", "crashes"} -> Nat]
  <2>1. CASE UNCHANGED spent BY <2>1 DEF IInv, TypeOK
  <2>2. CASE Begin(p) BY <2>2, SpendKeeps DEF Begin, IInv
  <2>3. CASE Crash(p) BY <2>3, SpendKeeps DEF Crash, IInv
  <2> QED
    BY <2>1, <2>2, <2>3 DEF Step, PinSource, First, FirstDeps, Second, SecondDeps, Repin,
       GiveUpPreparing, Lock, CopyHit, CompileUnit, InputsStable, ToolStable, Publish, Clean, Unlock,
       Link, Leave
<1>3. /\ build' \in [Builders -> Builds] /\ lock' \in [Keys -> Builders \cup {None}] /\ Locks'
      /\ \A q \in Builders : Facts(build[q])'
      /\ ~returned' => \A q \in Builders : Trust(build[q])'
  BY <1>1, StepMoves, BuildsKept
<1>4. /\ entry' \in [Keys -> EntrySort] /\ \A k \in Keys : Stands(k)
      /\ ~returned => \A k \in Keys : entry'[k] # None => TrueOf(entry'[k], k)
  BY EntriesKept
<1>5. Sorts' BY <1>1, <1>2, <1>3, <1>4 DEF Sorts, EntrySort, IInv, TypeOK
<1>6. TypeOK' BY <1>3, <1>5, TypeIs, PTL
<1>7. ~returned' => EntryIsTrue' BY <1>1, <1>4 DEF EntryIsTrue, TrueOf
<1> QED BY <1>3, <1>4, <1>6, <1>7 DEF IInv

-----------------------------------------------------------------------------
(* A change only adds to what the running builds have seen; while nothing
   returned, they have not seen what it changes to. *)
Grown(s, r, x) ==
  /\ r \in Builds /\ r.pc = s.pc /\ r.tool = s.tool /\ r.unit = s.unit /\ r.before = s.before
  /\ r.snap = s.snap /\ r.deps = s.deps /\ r.object = s.object
  /\ s.seen \subseteq r.seen /\ (s.pc # "idle" => x \in r.seen)

LEMMA SawGrows ==
  ASSUME TypeOK, NEW x \in Texts \cup Tools, Saw(x)
  PROVE  /\ build' \in [Builders -> Builds] /\ returned' \in BOOLEAN
         /\ \A p \in Builders : Grown(build[p], build'[p], x)
         /\ ~returned' => ~returned /\ \A p \in Builders : x \notin build[p].seen
<1>1. ASSUME NEW p \in Builders PROVE Grown(build[p], build'[p], x)
  <2> DEFINE s == build[p]
  <2>1. s \in Builds BY DEF TypeOK
  <2>2. CASE s = Idle BY <2>1, <2>2 DEF Saw, Grown, Idle, Fresh
  <2>3. CASE s # Idle
    <3>1. build'[p] = [s EXCEPT !.seen = @ \cup {x}] BY <2>3 DEF Saw
    <3> QED BY <2>1, <3>1 DEF Grown, Builds
  <2> QED BY <2>2, <2>3
<1>2. build' \in [Builders -> Builds]
  <2>1. \A p \in Builders : build'[p] \in Builds BY <1>1 DEF Grown
  <2>2. build' = [p \in Builders |-> build'[p]] BY DEF Saw
  <2> QED BY <2>1, <2>2
<1> QED BY <1>1, <1>2 DEF Saw, TypeOK

LEMMA ChangeKeeps ==
  ASSUME IInv, ChangeText \/ ChangeTool
  PROVE  IInv' /\ entry' = entry
<1>1. PICK x \in Texts \cup Tools :
        /\ Saw(x)
        /\ \/ x \in Texts /\ text' = x /\ tool' = tool
           \/ x \in Tools /\ tool' = x /\ text' = text
  BY DEF ChangeText, ChangeTool
<1>2. /\ TypeOK /\ UNCHANGED <<entry, lock>>
      /\ spent' \in [{"builds", "changes", "decayed", "crashes"} -> Nat]
  BY SpendKeeps DEF IInv, ChangeText, ChangeTool
<1>3. /\ build' \in [Builders -> Builds] /\ returned' \in BOOLEAN
      /\ \A p \in Builders : Grown(build[p], build'[p], x)
      /\ ~returned' => ~returned /\ \A p \in Builders : x \notin build[p].seen
  BY <1>1, <1>2, SawGrows
<1>4. Sorts' BY <1>1, <1>2, <1>3 DEF Sorts, TypeOK
<1>5. Locks'
  <2>1. Locks /\ lock \in [Keys -> Builders \cup {None}]
    BY <1>2, TypeIs DEF Sorts
  <2>2. \A p \in Builders : \A k \in Keys : AtWork(build[p], k) => AtWork(build'[p], k)
    BY <1>3 DEF Grown, AtWork, RecordKey
  <2> QED BY <1>2, <2>1, <2>2 DEF Locks
<1>6. ASSUME NEW p \in Builders PROVE Facts(build[p])'
  <2> DEFINE s == build[p]
             r == build'[p]
  <2>1. Facts(s) /\ Grown(s, r, x) BY <1>3 DEF IInv
  <2>2. \A u : Pinned(s, u) => Pinned(r, u) BY <2>1 DEF Pinned, Grown
  <2>3. r.pc # "idle" => r.tool \in Tools \cap r.seen /\ text' \in r.seen /\ tool' \in r.seen
    BY <1>1, <2>1 DEF Facts, Grown
  <2>4. /\ r.pc \in Prep => \A u \in Units : u < r.unit => Pinned(r, u)
        /\ r.pc \in Work \cup Done => \A u \in Units : Pinned(r, u)
    BY <2>1, <2>2 DEF Facts, Grown
  <2>5. /\ r.pc \in {"first_deps", "second", "second_deps", "repin"} =>
             r.snap[r.unit] \in Texts \cap r.seen
        /\ r.pc \in {"second", "second_deps", "repin"} => r.deps[r.unit] \in Texts \cap r.seen
        /\ r.pc \in {"check", "check_tool", "publish"} => r.object[r.unit] \in Objects
        /\ r.pc \in {"after_tool", "linked"} => \A u \in Units : r.deps[u] = r.deps[1]
    BY <2>1 DEF Facts, Grown
  <2>6. r.pc = "failed" =>
          \E v, w \in r.seen : v # w /\ ({v, w} \subseteq Texts \/ {v, w} \subseteq Tools)
    BY <2>1 DEF Facts, Grown
  <2> QED BY <2>3, <2>4, <2>5, <2>6 DEF Facts, Pinned
<1>7. ASSUME NEW p \in Builders, ~returned' PROVE Trust(build[p])'
  <2> DEFINE s == build[p]
             r == build'[p]
  <2>1. Facts(s) /\ Trust(s) /\ Grown(s, r, x) /\ x \notin s.seen BY <1>3, <1>7 DEF IInv
  <2>2. \A u : /\ Agree(s, u) => Agree(r, u)
               /\ Sound(s, u) => Sound(r, u)
    BY <2>1 DEF Agree, Sound, Grown
  <2>3. r.pc = "second" => Agree(r, r.unit) \/ text' # r.snap[r.unit]
    BY <1>1, <2>1, <2>2 DEF Trust, Facts, Grown
  <2>4. r.pc \in {"check", "check_tool"} => Sound(r, r.unit) \/ tool' # r.tool
    BY <1>1, <2>1, <2>2 DEF Trust, Facts, Grown
  <2>5. /\ r.pc \in Prep => \A u \in Units : u < r.unit => Agree(r, u)
        /\ r.pc \in {"second_deps", "repin"} => Agree(r, r.unit)
        /\ r.pc \in Work \cup Done => \A u \in Units : Agree(r, u)
    BY <2>1, <2>2 DEF Trust, Grown
  <2>6. /\ r.pc \in Work => \A u \in Units : u < r.unit => Sound(r, u)
        /\ r.pc \in {"publish", "unpublished", "unsynced", "unlock"} => Sound(r, r.unit)
        /\ r.pc \in Done => \A u \in Units : Sound(r, u)
    BY <2>1, <2>2 DEF Trust, Grown
  <2> QED BY <2>3, <2>4, <2>5, <2>6 DEF Trust, Agree, Sound
<1>8. TypeOK' BY <1>4, <1>5, TypeIs, PTL
<1>9. ~returned' => EntryIsTrue' BY <1>2, <1>3 DEF IInv, EntryIsTrue
<1> QED BY <1>2, <1>6, <1>7, <1>8, <1>9 DEF IInv

LEMMA DecayKeeps ==
  ASSUME IInv, Decay
  PROVE  IInv' /\ \A k \in Keys : Stands(k)
<1>1. PICK k \in Keys : entry[k] # None /\ entry' = [entry EXCEPT ![k].object = Decayed]
  BY DEF Decay
<1>2. /\ TypeOK /\ UNCHANGED <<text, tool, lock, build, returned>>
      /\ spent' \in [{"builds", "changes", "decayed", "crashes"} -> Nat]
      /\ entry \in [Keys -> EntrySort]
  BY SpendKeeps DEF IInv, Decay, TypeOK, EntrySort
<1>3. entry[k] \in Entries
  BY <1>1, <1>2 DEF EntrySort
<1>4. /\ [entry[k] EXCEPT !.object = Decayed]
            \in Entries
      /\ [entry[k] EXCEPT !.object = Decayed].receipt = entry[k].receipt
  BY <1>3 DEF Entries
<1>5. /\ entry'[k] = [entry[k] EXCEPT !.object = Decayed]
      /\ \A j \in Keys \ {k} : entry'[j] = entry[j]
      /\ entry' \in [Keys -> EntrySort]
  BY <1>1, <1>2, <1>4 DEF EntrySort
<1>6. \A j \in Keys : Stands(j)
  BY <1>4, <1>5, EntryAssumption DEF Stands
<1>7. Sorts' BY <1>2, <1>5 DEF Sorts, EntrySort, TypeOK
<1>8. TypeOK'
  <2>1. Locks' BY <1>2, TypeIs DEF Locks
  <2> QED BY <1>7, <2>1, TypeIs, PTL
<1>9. ~returned' => EntryIsTrue' BY <1>1, <1>2, <1>4, <1>5 DEF IInv, EntryIsTrue
<1>10. \A p \in Builders : Facts(build[p])' /\ (~returned' => Trust(build[p])')
  BY <1>2 DEF IInv, Facts, Trust, Pinned, Agree, Sound
<1> QED BY <1>6, <1>8, <1>9, <1>10 DEF IInv

-----------------------------------------------------------------------------
LEMMA InitHolds == Init => IInv
<1> SUFFICES ASSUME Init PROVE IInv OBVIOUS
<1>1. \A p \in Builders : build[p].pc = "idle" BY DEF Init, Idle, Fresh
<1>2. Idle \in Builds
  <2>1. /\ [u \in Units |-> None] \in [Units -> Texts \cup {None}]
        /\ [u \in Units |-> None] \in [Units -> Objects \cup {None, Decayed}]
        /\ {} \in SUBSET (Texts \cup Tools) /\ 1 \in Units
    BY CacheAssumption DEF Units
  <2> QED BY <2>1 DEF Builds, Fresh, Idle
<1>3. spent \in [{"builds", "changes", "decayed", "crashes"} -> Nat] BY DEF Init
<1>4. /\ entry \in [Keys -> EntrySort] /\ lock \in [Keys -> Builders \cup {None}]
      /\ build \in [Builders -> Builds]
  BY <1>2 DEF Init, EntrySort
<1>5. Sorts BY <1>3, <1>4 DEF Init, Sorts, EntrySort
<1>6. Locks BY DEF Init, Locks
<1>7. EntryIsTrue BY DEF Init, EntryIsTrue
<1>8. \A p \in Builders : Facts(build[p]) /\ Trust(build[p])
  BY <1>1 DEF Facts, Trust, Prep, Work, Done
<1> QED BY <1>5, <1>6, <1>7, <1>8, TypeIs DEF IInv

LEMMA StutterKeeps ==
  ASSUME IInv, UNCHANGED vars
  PROVE  IInv' /\ \A k \in Keys : Stands(k)
<1>1. UNCHANGED <<text, tool, entry, lock, build, spent, returned>> BY DEF vars
<1>2. Sorts' /\ Locks' BY <1>1, TypeIs DEF IInv, Sorts, Locks
<1>3. TypeOK' BY <1>2, TypeIs, PTL
<1>4. ~returned' => EntryIsTrue' BY <1>1 DEF IInv, EntryIsTrue
<1>5. \A p \in Builders : Facts(build[p])' /\ (~returned' => Trust(build[p])')
  BY <1>1 DEF IInv, Facts, Trust, Pinned, Agree, Sound
<1> QED BY <1>1, <1>3, <1>4, <1>5 DEF IInv, Stands

LEMMA NextKeeps ==
  ASSUME IInv, [Next]_vars
  PROVE  IInv' /\ \A k \in Keys : Stands(k)
<1>1. CASE UNCHANGED vars BY <1>1, StutterKeeps
<1>2. CASE ChangeText \/ ChangeTool BY <1>2, ChangeKeeps DEF Stands
<1>3. CASE Decay BY <1>3, DecayKeeps
<1>4. CASE \E p \in Builders : Begin(p) \/ Step(p) \/ Crash(p) BY <1>4, BuilderKeeps
<1> QED BY <1>1, <1>2, <1>3, <1>4 DEF Next

LEMMA Inductive == Spec => []IInv
<1>1. IInv /\ [Next]_vars => IInv' BY NextKeeps
<1> QED BY InitHolds, <1>1, PTL DEF Spec

(* Every variable keeps its sort, and a lock is held only by a builder that
   is at work on its key (cli_runtime_cache_build releases it on each way
   out, and the floor releases the lock of a builder that is killed). *)
THEOREM TypeCorrect == Spec => []TypeOK
<1>1. IInv => TypeOK BY DEF IInv
<1> QED BY Inductive, <1>1, PTL

(* A published entry is the object that its key describes, whoever compiled
   it and whatever changed meanwhile, unless something changed back to what a
   running build had seen (the second looks of cli_runtime_cache_prepare,
   cli_runtime_cache_inputs_stable and cli_runtime_cache_build). *)
THEOREM EntriesAreTrue == Spec => []EntryIsTrue
<1>1. IInv => EntryIsTrue BY DEF IInv, EntryIsTrue
<1> QED BY Inductive, <1>1, PTL

(* What a build links is of one state of the sources and of the compiler that
   it began with (cli_runtime_cache_link looks at every input again when it
   has linked). *)
THEOREM LinkedOfOneState == Spec => []LinkedIsCurrent
<1>1. IInv => LinkedIsCurrent
  <2> SUFFICES ASSUME IInv, ~returned, NEW p \in Builders, build[p].pc = "linked",
                      NEW u \in Units
               PROVE  build[p].object[u] = Object(u, build[p].deps[1], build[p].tool)
    BY DEF LinkedIsCurrent
  <2>1. Facts(build[p]) /\ Trust(build[p]) BY DEF IInv
  <2>2. Sound(build[p], u) /\ Agree(build[p], u) BY <2>1 DEF Trust, Done
  <2>3. build[p].deps[u] = build[p].deps[1] BY <2>1 DEF Facts
  <2> QED BY <2>2, <2>3 DEF Sound, Agree
<1> QED BY Inductive, <1>1, PTL

(* Only the second looks of a build reject it: by a look that cannot be taken,
   or by one that shows a difference, and then the build has seen two texts or
   two compilers. Never by what other builds did to the locks and the entries,
   nor by an entry that decayed (the fallbacks of cli_runtime_cache_build). *)
THEOREM OnlyLooksReject == Spec => []FailsOnlyByItsLooks
<1>1. IInv => FailsOnlyByItsLooks BY DEF IInv, Facts, FailsOnlyByItsLooks, SawChange
<1> QED BY Inductive, <1>1, PTL

(* What was published is never removed or replaced
   (cli_runtime_cache_publish renames to a free key only and cleans up only
   what it did not rename). *)
THEOREM PublicationsStand == Spec => PublicationStands
<1>1. IInv /\ [Next]_vars =>
        [\A k \in Keys :
           entry[k] # None => entry'[k] # None /\ entry'[k].receipt = entry[k].receipt]_vars
  BY NextKeeps DEF Stands
<1> QED BY Inductive, <1>1, PTL DEF Spec, PublicationStands
=============================================================================
