------------------------- MODULE SemanticCacheProofs -------------------------
(***************************************************************************)
(* Theorems about SemanticCache, for every set of paths and texts and for  *)
(* every bound: what the cache answers after any sequence of requests,     *)
(* edits, restores, roll-backs and validations. Shape is the inductive     *)
(* invariant about the form of session and checkpoints, Content the one    *)
(* about what the slots say.                                               *)
(***************************************************************************)
EXTENDS SemanticCache, FiniteSetTheorems, WellFoundedInduction, TLAPS

\* The stages whose slots stay where they are when a checkpoint is restored.
Stable == Stages \ Replaced

\* t continues s.
Continues(s, t) == \A i \in DOMAIN s : i \in DOMAIN t /\ t[i] = s[i]

File == [path : Paths, text : Texts]
SourcesOK(src) ==
  /\ src \in Seq(File \cup {Cleared})
  /\ \A i, k \in DOMAIN src : src[i] \in File /\ src[k].path = src[i].path => i = k

\* The slots c[1] .. c[j], each computed from the one before, say x.
Chain(ars, x, j, c) ==
  /\ c \in [1..j -> Nat]
  /\ \A i \in 1..j : /\ c[i] \in DOMAIN ars[i]
                     /\ i # Expand => ars[i][c[i]].subject = x
                     /\ i # Lex => ars[i][c[i]].parent = c[i - 1]

\* What every entry names, valid or not, at the stages no restore takes back.
EntriesFit(ars, table) ==
  \A p \in Paths, t \in Texts, j \in Stable :
    LET e == table[<<<<j, p>>, t>>] IN
    e # None => e.output \in DOMAIN ars[j] /\ ars[j][e.output].subject = <<p, t>>

\* A type slot says what its resolve slot says.
TypesFit(ars) ==
  \A y \in DOMAIN ars[Ty] :
    LET r == ars[Ty][y].parent IN
    r \in DOMAIN ars[Resolve] /\ ars[Ty][y].subject = ars[Resolve][r].subject

\* Expansions and HIR are of one provenance, and of the parse trees here.
OneProvenance(ars) ==
  /\ \A e \in DOMAIN ars[Expand] : ars[Expand][e].parent \in DOMAIN ars[Parse]
  /\ \A i \in DOMAIN ars[Hir] :
       LET e == ars[Hir][i].parent IN
       /\ e \in DOMAIN ars[Expand]
       /\ ars[Hir][i].subject = ars[Parse][ars[Expand][e].parent].subject

\* Where there is an entry there is one of the stage before, and the graph
\* knows that it was computed from it.
Supported(table, graph) ==
  \A p \in Paths, t \in Texts, j \in Stages :
    table[<<<<j, p>>, t>>] # None =>
      /\ j # Lex => table[<<<<j - 1, p>>, t>>] # None
      /\ <<<<j, p>>, <<j - 1, p>>>> \in graph

GraphOK(graph) ==
  /\ graph \subseteq Keys \X Keys
  /\ \A d \in graph : d[1][2] = d[2][2] /\ d[1][1] = d[2][1] + 1

Checkpoint == [sources : Seq(File \cup {Cleared}), arenas : [Stages -> Seq(Slot)],
               deps : SUBSET (Keys \X Keys), entries : Cache!Table, lineage : Nat]
Spent == [requests : Nat, changes : Nat, restores : Nat, probes : Nat,
          failures : Nat, restarts : Nat]

\* The form of a session and of its checkpoints, whatever the slots say.
Form(c) == /\ c \in Checkpoint /\ SourcesOK(c.sources)
           /\ GraphOK(c.deps) /\ Supported(c.entries, c.deps)
Shape ==
  /\ SourcesOK(sources) /\ arenas \in [Stages -> Seq(Slot)]
  /\ entries \in Cache!Table /\ GraphOK(deps) /\ Supported(entries, deps)
  /\ lineage \in Nat /\ matched \in BOOLEAN /\ spent \in Spent
  /\ saved \in Seq(Checkpoint)
  /\ \A n \in DOMAIN saved : Form(saved[n]) /\ saved[n].lineage <= lineage

\* The slot that an entry names is the end of a chain for its text, in the file
\* of its path.
Right(ars, table, src, j, p, t) ==
  /\ FileOf(src, p) # 0
  /\ \E c : /\ Chain(ars, <<p, t>>, j, c)
            /\ c[j] = table[<<<<j, p>>, t>>].output
            /\ ars[j][c[j]].file = FileOf(src, p)
Faithful(ars, table, src) ==
  \A p \in Paths, t \in Texts, j \in Stages :
    Cache!Hit(table, <<<<j, p>>, t>>) => Right(ars, table, src, j, p, t)

\* A checkpoint was taken of one provenance, and while its lineage lives, its
\* slots are where they were.
Kept(c) ==
  /\ EntriesFit(c.arenas, c.entries) /\ TypesFit(c.arenas) /\ OneProvenance(c.arenas)
  /\ c.lineage = lineage => \A j \in Stable : Continues(c.arenas[j], arenas[j])

\* What the slots say.
Content ==
  /\ EntriesFit(arenas, entries) /\ TypesFit(arenas)
  /\ matched => OneProvenance(arenas)
  /\ \A n \in DOMAIN saved : Kept(saved[n])
  /\ Faithful(arenas, entries, sources)
-----------------------------------------------------------------------------
(* Numbers and stages *)

\* A set of numbers that is not empty has a least one.
LEMMA LeastNumber ==
  ASSUME NEW T \in SUBSET Nat, T # {}
  PROVE  \E m \in T : \A n \in T : m <= n
<1> DEFINE below == {ss \in Nat \X Nat : ss[1] < ss[2]}
<1>1. IsWellFoundedOn(below, Nat)
  BY NatLessThanWellFounded DEF OpToRel
<1>2. \A i, j \in Nat : i < j => <<i, j>> \in below
  OBVIOUS
<1> HIDE DEF below
<1>3. PICK m \in T : \A n \in T : <<n, m>> \notin below
  BY <1>1, WFMin
<1>4. ASSUME NEW n \in T PROVE m <= n
  <2>1. n \in Nat /\ m \in Nat
    OBVIOUS
  <2>2. ~(n < m)
    BY <1>2, <1>3, <2>1
  <2> QED BY <2>1, <2>2
<1> QED BY <1>4

\* A set of numbers that holds 0 and with a number the next one holds them all.
LEMMA AllNumbers ==
  ASSUME NEW T \in SUBSET Nat, 0 \in T, \A n \in T : n + 1 \in T
  PROVE  T = Nat
<1> SUFFICES ASSUME Nat \ T # {} PROVE FALSE
  OBVIOUS
<1>1. PICK m \in Nat \ T : \A n \in Nat \ T : m <= n
  BY LeastNumber
<1>2. m # 0 /\ m - 1 \in Nat
  BY <1>1
<1>3. m - 1 \in T
  BY <1>1, <1>2
<1> QED BY <1>1, <1>2, <1>3

LEMMA Order == 
  /\ Lex = 1 /\ Parse = 2 /\ Expand = 3 /\ Hir = 4 /\ Resolve = 5 /\ Ty = 6
  /\ Depth \in Nat /\ Depth >= 6 /\ Stages = 1..Depth
  /\ {Lex, Parse, Expand, Hir, Resolve, Ty} \subseteq Stages
  /\ {Lex, Parse, Resolve} \subseteq Stable /\ Stable \subseteq Stages
  /\ \A j \in Stages : j \in Stable \/ j = Expand \/ j = Hir \/ j = Ty
  /\ Expand \notin Stable /\ Hir \notin Stable /\ Ty \notin Stable
BY DepthAssumption DEF Lex, Parse, Expand, Hir, Resolve, Ty, Stages, Stable, Replaced

LEMMA NotNone ==
  /\ None \notin Paths /\ None \notin Paths \X Texts /\ None \notin Cache!Entry
  /\ \A e \in Cache!Entry : e # None
BY NoneAssumption

LEMMA MinOf ==
  ASSUME NEW S \in SUBSET Nat, S # {}
  PROVE  Min(S) \in S /\ \A n \in S : Min(S) <= n
<1>1. \E m \in S : \A n \in S : m <= n
  BY LeastNumber
<1>2. \A m \in S, n \in S : m <= n <=> n >= m
  OBVIOUS
<1> QED BY <1>1, <1>2 DEF Min

\* A set of numbers up to k that is not empty has a greatest one.
LEMMA MaxOf ==
  ASSUME NEW k \in Nat, NEW S \in SUBSET (0..k), S # {}
  PROVE  Max(S) \in S /\ \A n \in S : n <= Max(S)
<1> DEFINE T == {n \in 0..k : k - n \in S}
<1>1. T \in SUBSET Nat /\ T # {}
  <2>1. PICK s \in S : TRUE
    OBVIOUS
  <2>2. s \in 0..k /\ k - s \in 0..k /\ k - (k - s) = s
    OBVIOUS
  <2> QED BY <2>1, <2>2
<1>2. PICK m \in T : \A n \in T : m <= n
  BY <1>1, LeastNumber
<1>3. k - m \in S /\ m \in 0..k
  BY <1>2
<1>4. ASSUME NEW n \in S PROVE n <= k - m
  <2>1. n \in 0..k /\ k - n \in 0..k /\ k - (k - n) = n
    OBVIOUS
  <2>2. k - n \in T
    BY <2>1
  <2>3. m <= k - n
    BY <1>2, <2>2
  <2> QED BY <1>3, <2>1, <2>3
<1>5. \E x \in S : \A y \in S : x >= y
  BY <1>3, <1>4
<1>6. \A x, y \in S : x >= y <=> y <= x
  OBVIOUS
<1> QED BY <1>5, <1>6 DEF Max
-----------------------------------------------------------------------------
(* Sources *)

\* The file id of p is 0 or the only one with that path.
LEMMA FileOfFacts ==
  ASSUME NEW src, SourcesOK(src), NEW p \in Paths
  PROVE  /\ FileOf(src, p) # 0 => FileOf(src, p) \in DOMAIN src
                                  /\ src[FileOf(src, p)].path = p
         /\ \A i \in DOMAIN src : src[i].path = p => FileOf(src, p) = i
         /\ FileOf(src, p) \in Nat
<1> DEFINE ids == {i \in DOMAIN src : src[i].path = p}
<1>1. FileOf(src, p) = IF ids = {} THEN 0 ELSE Min(ids)
  BY DEF FileOf
<1>2. ids \in SUBSET Nat /\ 0 \notin ids
  BY DEF SourcesOK
<1>3. CASE ids = {}
  BY <1>1, <1>3
<1>4. CASE ids # {}
  <2>1. FileOf(src, p) \in ids
    BY <1>1, <1>2, <1>4, MinOf
  <2>2. ASSUME NEW i \in ids PROVE FileOf(src, p) = i
    <3>1. src[i] \in File
      BY NotNone DEF SourcesOK, Cleared
    <3> QED BY <2>1, <3>1 DEF SourcesOK
  <2> QED BY <1>2, <2>1, <2>2
<1> QED BY <1>3, <1>4

LEMMA SameFile ==
  ASSUME NEW src, SourcesOK(src), NEW new, SourcesOK(new), NEW p \in Paths,
         \A i \in DOMAIN src : src[i].path = p => i \in DOMAIN new /\ new[i].path = p,
         \A i \in DOMAIN new : new[i].path = p => i \in DOMAIN src /\ src[i].path = p
  PROVE  FileOf(new, p) = FileOf(src, p)
<1>1. CASE FileOf(src, p) # 0
  BY <1>1, FileOfFacts
<1>2. CASE FileOf(src, p) = 0
  <2>1. \A i \in DOMAIN src : i # 0
    BY DEF SourcesOK
  <2> QED BY <1>2, <2>1, FileOfFacts
<1> QED BY <1>1, <1>2

\* A text gets the file of its path, and no other path moves.
LEMMA SetTextFacts ==
  ASSUME NEW src, SourcesOK(src), NEW p \in Paths, NEW t \in Texts
  PROVE  /\ SourcesOK(SetText(src, p, t))
         /\ FileOf(SetText(src, p, t), p) # 0
         /\ FileOf(src, p) # 0 => FileOf(SetText(src, p, t), p) = FileOf(src, p)
         /\ \A q \in Paths : q # p => FileOf(SetText(src, p, t), q) = FileOf(src, q)
<1> DEFINE key == IF FileOf(src, p) = 0 THEN None ELSE p
           id == FileOf(src, key)
           ids == {i \in DOMAIN src : src[i].path = key}
           file == [path |-> p, text |-> t]
           new == SetText(src, p, t)
<1>1. new = IF id = 0 THEN Append(src, file) ELSE [src EXCEPT ![id] = file]
  BY DEF SetText
<1>2. src \in Seq(File \cup {Cleared}) /\ Len(src) \in Nat /\ DOMAIN src = 1..Len(src)
  BY DEF SourcesOK
<1>3. id # 0 => id \in DOMAIN src /\ src[id].path = key
  <2>1. id = IF ids = {} THEN 0 ELSE Min(ids)
    BY DEF FileOf
  <2>2. ids \in SUBSET Nat
    BY <1>2
  <2> QED BY <2>1, <2>2, MinOf
<1>4. id = 0 => FileOf(src, p) = 0
  <2>1. FileOf(src, p) # 0 => key = p
    OBVIOUS
  <2> QED BY <2>1
<1>5. file \in File /\ file.path = p
  BY DEF File
<1>6. \A i \in DOMAIN src : src[i].path # p \/ i = id
  <2>1. CASE FileOf(src, p) = 0
    <3>1. \A i \in DOMAIN src : i # 0
      BY <1>2
    <3> QED BY <2>1, <3>1, FileOfFacts
  <2>2. CASE FileOf(src, p) # 0
    BY <2>2, FileOfFacts
  <2> QED BY <2>1, <2>2
<1>7. PICK n \in Nat \ {0} :
        /\ n = IF id = 0 THEN Len(src) + 1 ELSE id
        /\ new \in Seq(File \cup {Cleared}) /\ DOMAIN new = DOMAIN src \cup {n}
        /\ new[n] = file /\ \A i \in DOMAIN src : i # n => new[i] = src[i]
  <2>1. CASE id = 0
    <3>1. new = Append(src, file)
      BY <1>1, <2>1
    <3>2. new \in Seq(File \cup {Cleared}) /\ Len(new) = Len(src) + 1
      BY <1>2, <1>5, <3>1
    <3>3. new[Len(src) + 1] = file /\ \A i \in 1..Len(src) : new[i] = src[i]
      BY <1>2, <1>5, <3>1
    <3>4. DOMAIN new = DOMAIN src \cup {Len(src) + 1}
      BY <1>2, <3>2
    <3> QED BY <1>2, <2>1, <3>2, <3>3, <3>4
  <2>2. CASE id # 0
    <3>1. new = [src EXCEPT ![id] = file] /\ id \in DOMAIN src
      BY <1>1, <1>3, <2>2
    <3> HIDE DEF new, id, file
    <3>2. new \in Seq(File \cup {Cleared}) /\ Len(new) = Len(src)
      BY <1>2, <1>5, <3>1
    <3>3. DOMAIN new = DOMAIN src /\ new[id] = file
          /\ \A i \in DOMAIN src : i # id => new[i] = src[i]
      BY <3>1
    <3>4. id \in Nat \ {0}
      BY <1>2, <3>1
    <3> QED BY <2>2, <3>1, <3>2, <3>3, <3>4
  <2> QED BY <2>1, <2>2
<1>8. \A i \in DOMAIN new : i # n => i \in DOMAIN src /\ new[i] = src[i]
  BY <1>7
<1>9. n \notin DOMAIN src \/ src[n].path = None \/ src[n].path = p
  BY <1>2, <1>3, <1>7
<1>10. \A i \in DOMAIN src : i # n => src[i].path # p
  BY <1>2, <1>6, <1>7
<1> HIDE DEF new, id, ids, key, file
<1>11. SourcesOK(new)
  <2>1. ASSUME NEW i \in DOMAIN new, NEW k \in DOMAIN new, new[i] \in File,
               new[k].path = new[i].path
        PROVE  i = k
    <3>1. CASE i # n /\ k # n
      BY <1>8, <2>1, <3>1 DEF SourcesOK
    <3>2. CASE i = n /\ k # n
      BY <1>5, <1>7, <1>8, <1>10, <2>1, <3>2
    <3>3. CASE i # n /\ k = n
      BY <1>5, <1>7, <1>8, <1>10, <2>1, <3>3
    <3> QED BY <3>1, <3>2, <3>3
  <2> QED BY <1>7, <2>1 DEF SourcesOK
<1>12. FileOf(new, p) = n
  BY <1>5, <1>7, <1>11, FileOfFacts
<1>13. FileOf(src, p) # 0 => n = FileOf(src, p)
  <2>1. FileOf(src, p) # 0 => id # 0 /\ FileOf(src, p) = id
    BY <1>4, <1>6, FileOfFacts
  <2> QED BY <1>7, <2>1
<1>14. ASSUME NEW q \in Paths, q # p PROVE FileOf(new, q) = FileOf(src, q)
  <2>1. \A i \in DOMAIN src : src[i].path = q => i \in DOMAIN new /\ new[i].path = q
    BY <1>7, <1>9, <1>14, NotNone
  <2>2. \A i \in DOMAIN new : new[i].path = q => i \in DOMAIN src /\ src[i].path = q
    BY <1>5, <1>7, <1>8, <1>14
  <2> QED BY <1>11, <2>1, <2>2, SameFile
<1> QED BY <1>7, <1>11, <1>12, <1>13, <1>14 DEF new

\* The sources of a checkpoint, whatever was there before.
LEMMA SourcesFromFacts ==
  ASSUME NEW src, SourcesOK(src), NEW new, SourcesOK(new)
  PROVE  /\ SourcesOK(SourcesFrom(src, new))
         /\ \A p \in Paths : FileOf(SourcesFrom(src, new), p) = FileOf(new, p)
<1> DEFINE all == SourcesFrom(src, new)
           n == Max({Len(src), Len(new)})
<1>1. /\ Len(src) \in Nat /\ Len(new) \in Nat /\ DOMAIN new = 1..Len(new)
      /\ new \in Seq(File \cup {Cleared})
  BY DEF SourcesOK
<1>2. n \in Nat /\ Len(new) <= n
  <2> DEFINE S == {Len(src), Len(new)}
             k == Len(src) + Len(new)
  <2>1. k \in Nat /\ S \in SUBSET (0..k) /\ S # {} /\ Len(new) \in S
    BY <1>1
  <2>2. n = Max(S)
    OBVIOUS
  <2> HIDE DEF S, k, n
  <2>3. n \in S /\ \A m \in S : m <= n
    BY <2>1, <2>2, MaxOf
  <2> QED BY <2>1, <2>3
<1>3. all = [i \in 1..n |-> IF i <= Len(new) THEN new[i] ELSE Cleared]
  BY DEF SourcesFrom
<1> HIDE DEF all, n
<1>4. /\ \A i \in 1..n : all[i] \in File \cup {Cleared}
      /\ all \in Seq(File \cup {Cleared}) /\ DOMAIN all = 1..n
  BY <1>1, <1>2, <1>3
<1>5. /\ \A i \in DOMAIN new : i \in DOMAIN all /\ all[i] = new[i]
      /\ \A i \in DOMAIN all : i \in DOMAIN new \/ all[i] = Cleared
  BY <1>1, <1>2, <1>3, <1>4
<1>6. Cleared.path \notin Paths /\ \A f \in File : f.path \in Paths
  BY NotNone DEF Cleared, File
<1>7. SourcesOK(all)
  BY <1>4, <1>5, <1>6 DEF SourcesOK
<1>8. ASSUME NEW p \in Paths PROVE FileOf(all, p) = FileOf(new, p)
  BY <1>5, <1>6, <1>7, SameFile
<1> QED BY <1>7, <1>8 DEF all
-----------------------------------------------------------------------------
(* The query cache *)

\* The two tables have the same entries, whatever their states.
SameOutputs(a, b) ==
  \A x \in Cache!Slots : /\ a[x] = None <=> b[x] = None
                         /\ a[x] # None => b[x].output = a[x].output

LEMMA SlotsOf ==
  /\ Cache!Slots = Keys \X Texts
  /\ \A p \in Paths, t \in Texts, j \in Stages :
       /\ <<<<j, p>>, t>> \in Cache!Slots /\ <<j, p>> \in Keys /\ <<j - 1, p>> \in Keys
       /\ j # Lex => j - 1 \in Stages /\ <<<<j - 1, p>>, t>> \in Cache!Slots
BY Order DEF Cache!Slots, Keys

LEMMA DirtiedFacts ==
  ASSUME NEW table \in Cache!Table, NEW keys
  PROVE  /\ Cache!Dirtied(table, keys) \in Cache!Table
         /\ SameOutputs(table, Cache!Dirtied(table, keys))
         /\ \A x \in Cache!Slots : Cache!Hit(Cache!Dirtied(table, keys), x)
                                     <=> Cache!Hit(table, x) /\ x[1] \notin keys
<1> DEFINE new == Cache!Dirtied(table, keys)
<1>1. ASSUME NEW x \in Cache!Slots
      PROVE  /\ new[x] \in Cache!Entry \cup {None}
             /\ table[x] = None <=> new[x] = None
             /\ table[x] # None => new[x].output = table[x].output
             /\ Cache!Hit(new, x) <=> Cache!Hit(table, x) /\ x[1] \notin keys
  <2>1. new[x] = IF x[1] \in keys /\ Cache!Hit(table, x)
                 THEN [table[x] EXCEPT !.state = "dirty"] ELSE table[x]
    BY DEF Cache!Dirtied
  <2>2. table[x] \in Cache!Entry \cup {None}
    BY DEF Cache!Table
  <2>3. CASE x[1] \in keys /\ Cache!Hit(table, x)
    <3>1. table[x] # None /\ new[x] = [table[x] EXCEPT !.state = "dirty"]
      BY <2>1, <2>3 DEF Cache!Hit
    <3> HIDE DEF new
    <3>2. /\ new[x] \in Cache!Entry /\ new[x] # None
          /\ new[x].output = table[x].output /\ new[x].state = "dirty"
      BY <3>1, NotNone DEF Cache!Table, Cache!Entry
    <3> QED BY <2>3, <3>1, <3>2 DEF Cache!Hit
  <2>4. CASE ~(x[1] \in keys /\ Cache!Hit(table, x))
    BY <2>1, <2>2, <2>4 DEF Cache!Hit
  <2> QED BY <2>3, <2>4
<1>2. new \in Cache!Table
  BY <1>1 DEF Cache!Table, Cache!Dirtied
<1> QED BY <1>1, <1>2 DEF SameOutputs

LEMMA RestoredFacts ==
  ASSUME NEW table \in Cache!Table
  PROVE  /\ Cache!Restored(table) \in Cache!Table
         /\ SameOutputs(table, Cache!Restored(table))
         /\ \A x \in Cache!Slots : ~Cache!Hit(Cache!Restored(table), x)
         /\ \A x \in Cache!Slots :
              table[x] # None => Cache!Restored(table)[x].state = "restored"
<1> DEFINE new == Cache!Restored(table)
<1>1. ASSUME NEW x \in Cache!Slots
      PROVE  /\ new[x] \in Cache!Entry \cup {None}
             /\ table[x] = None <=> new[x] = None
             /\ table[x] # None => new[x].output = table[x].output
             /\ ~Cache!Hit(new, x)
             /\ table[x] # None => new[x].state = "restored"
  <2>1. new[x] = IF table[x] = None THEN None
                 ELSE [table[x] EXCEPT !.state = "restored"]
    BY DEF Cache!Restored
  <2>2. CASE table[x] # None
    <3>1. new[x] = [table[x] EXCEPT !.state = "restored"]
      BY <2>1, <2>2
    <3> HIDE DEF new
    <3>2. /\ new[x] \in Cache!Entry /\ new[x] # None
          /\ new[x].output = table[x].output /\ new[x].state = "restored"
      BY <2>2, <3>1, NotNone DEF Cache!Table, Cache!Entry
    <3> QED BY <2>2, <3>2 DEF Cache!Hit
  <2>3. CASE table[x] = None
    BY <2>1, <2>3 DEF Cache!Hit
  <2> QED BY <2>2, <2>3
<1>2. new \in Cache!Table
  BY <1>1 DEF Cache!Table, Cache!Restored
<1> QED BY <1>1, <1>2 DEF SameOutputs

LEMMA ConfirmedFacts ==
  ASSUME NEW table \in Cache!Table, NEW allowed
  PROVE  /\ Cache!Confirmed(table, allowed) \in Cache!Table
         /\ SameOutputs(table, Cache!Confirmed(table, allowed))
         /\ \A x \in Cache!Slots : Cache!Hit(Cache!Confirmed(table, allowed), x)
                                     => Cache!Hit(table, x) \/ x \in allowed
         /\ \A x \in Cache!Slots :
              x \in allowed /\ table[x] # None /\ table[x].state = "restored"
                => Cache!Hit(Cache!Confirmed(table, allowed), x)
<1> DEFINE new == Cache!Confirmed(table, allowed)
<1>1. ASSUME NEW x \in Cache!Slots
      PROVE  /\ new[x] \in Cache!Entry \cup {None}
             /\ table[x] = None <=> new[x] = None
             /\ table[x] # None => new[x].output = table[x].output
             /\ Cache!Hit(new, x) => Cache!Hit(table, x) \/ x \in allowed
             /\ x \in allowed /\ table[x] # None /\ table[x].state = "restored"
                  => Cache!Hit(new, x)
  <2> DEFINE c == x \in allowed /\ table[x] # None /\ table[x].state = "restored"
  <2>1. new[x] = IF c THEN [table[x] EXCEPT !.state = "valid"] ELSE table[x]
    BY DEF Cache!Confirmed
  <2>2. table[x] \in Cache!Entry \cup {None}
    BY DEF Cache!Table
  <2>3. CASE c
    <3>1. table[x] # None /\ new[x] = [table[x] EXCEPT !.state = "valid"]
      BY <2>1, <2>3 DEF Cache!Hit
    <3> HIDE DEF new
    <3>2. /\ new[x] \in Cache!Entry /\ new[x] # None
          /\ new[x].output = table[x].output /\ new[x].state = "valid"
      BY <3>1, NotNone DEF Cache!Table, Cache!Entry
    <3> QED BY <2>3, <3>1, <3>2 DEF Cache!Hit
  <2>4. CASE ~c
    BY <2>1, <2>2, <2>4 DEF Cache!Hit
  <2> QED BY <2>3, <2>4
<1>2. new \in Cache!Table
  BY <1>1 DEF Cache!Table, Cache!Confirmed
<1> QED BY <1>1, <1>2 DEF SameOutputs

LEMMA MissedFacts ==
  ASSUME NEW table \in Cache!Table, NEW xs
  PROVE  /\ Cache!Missed(table, xs) \in Cache!Table
         /\ SameOutputs(table, Cache!Missed(table, xs))
         /\ \A x \in Cache!Slots :
              Cache!Hit(Cache!Missed(table, xs), x) <=> Cache!Hit(table, x)
<1> DEFINE new == Cache!Missed(table, xs)
<1>1. ASSUME NEW x \in Cache!Slots
      PROVE  /\ new[x] \in Cache!Entry \cup {None}
             /\ table[x] = None <=> new[x] = None
             /\ table[x] # None => new[x].output = table[x].output
             /\ Cache!Hit(new, x) <=> Cache!Hit(table, x)
  <2> DEFINE c == x \in xs /\ table[x] # None /\ ~Cache!Hit(table, x)
  <2>1. new[x] = IF c THEN [table[x] EXCEPT !.state = "dirty"] ELSE table[x]
    BY DEF Cache!Missed
  <2>2. table[x] \in Cache!Entry \cup {None}
    BY DEF Cache!Table
  <2>3. CASE c
    <3>1. table[x] # None /\ new[x] = [table[x] EXCEPT !.state = "dirty"]
      BY <2>1, <2>3 DEF Cache!Hit
    <3> HIDE DEF new
    <3>2. /\ new[x] \in Cache!Entry /\ new[x] # None
          /\ new[x].output = table[x].output /\ new[x].state = "dirty"
      BY <3>1, NotNone DEF Cache!Table, Cache!Entry
    <3> QED BY <2>3, <3>1, <3>2 DEF Cache!Hit
  <2>4. CASE ~c
    BY <2>1, <2>2, <2>4 DEF Cache!Hit
  <2> QED BY <2>3, <2>4
<1>2. new \in Cache!Table
  BY <1>1 DEF Cache!Table, Cache!Missed
<1> QED BY <1>1, <1>2 DEF SameOutputs

LEMMA StoredFacts ==
  ASSUME NEW table \in Cache!Table, NEW xs \in SUBSET Cache!Slots, NEW new \in [xs -> Outputs]
  PROVE  /\ Cache!Stored(table, new) \in Cache!Table
         /\ \A x \in Cache!Slots \ xs : Cache!Stored(table, new)[x] = table[x]
         /\ \A x \in xs : /\ Cache!Hit(Cache!Stored(table, new), x)
                          /\ Cache!Stored(table, new)[x] # None
                          /\ Cache!Stored(table, new)[x].output = new[x]
<1> DEFINE stored == Cache!Stored(table, new)
<1>1. ASSUME NEW x \in xs
      PROVE  stored[x] \in Cache!Entry /\ stored[x] # None /\ Cache!Hit(stored, x)
             /\ stored[x].output = new[x]
  <2>1. stored[x] = [state |-> "valid", output |-> new[x]]
    BY DEF Cache!Stored
  <2>2. stored[x] \in Cache!Entry
    BY <2>1 DEF Cache!Entry
  <2> QED BY <2>1, <2>2, NotNone DEF Cache!Hit
<1>2. ASSUME NEW x \in Cache!Slots \ xs PROVE stored[x] = table[x]
  BY DEF Cache!Stored
<1>3. stored \in Cache!Table
  <2>1. \A x \in Cache!Slots : stored[x] \in Cache!Entry \cup {None}
    BY <1>1, <1>2 DEF Cache!Table
  <2> QED BY <2>1 DEF Cache!Table, Cache!Stored
<1> QED BY <1>1, <1>2, <1>3

\* What the tables say of their outputs does not depend on states.
LEMMA OutputsKept ==
  ASSUME NEW a \in Cache!Table, NEW b, SameOutputs(a, b), NEW ars, NEW graph
  PROVE  /\ EntriesFit(ars, a) => EntriesFit(ars, b)
         /\ Supported(a, graph) => Supported(b, graph)
<1>1. EntriesFit(ars, a) => EntriesFit(ars, b)
  <2> SUFFICES ASSUME EntriesFit(ars, a), NEW p \in Paths, NEW t \in Texts,
                      NEW j \in Stable, b[<<<<j, p>>, t>>] # None
               PROVE  LET e == b[<<<<j, p>>, t>>] IN
                      e.output \in DOMAIN ars[j] /\ ars[j][e.output].subject = <<p, t>>
    BY DEF EntriesFit
  <2>1. <<<<j, p>>, t>> \in Cache!Slots
    BY SlotsOf, Order
  <2>2. /\ a[<<<<j, p>>, t>>] # None
        /\ a[<<<<j, p>>, t>>].output = b[<<<<j, p>>, t>>].output
    BY <2>1 DEF SameOutputs
  <2> QED BY <2>2 DEF EntriesFit
<1>2. Supported(a, graph) => Supported(b, graph)
  BY SlotsOf DEF SameOutputs, Supported
<1> QED BY <1>1, <1>2

LEMMA SameTwice ==
  ASSUME NEW a, NEW b, NEW c, SameOutputs(a, b), SameOutputs(b, c)
  PROVE  SameOutputs(a, c)
BY DEF SameOutputs
-----------------------------------------------------------------------------
(* Chains of slots *)

LEMMA ContinuesFacts ==
  /\ \A s : Continues(s, s)
  /\ \A s, t, u : Continues(s, t) /\ Continues(t, u) => Continues(s, u)
BY DEF Continues

LEMMA ChainKept ==
  ASSUME NEW ars, NEW new, NEW x, NEW j \in Stages, NEW c, Chain(ars, x, j, c),
         \A i \in 1..j : Continues(ars[i], new[i])
  PROVE  Chain(new, x, j, c)
BY DEF Chain, Continues

LEMMA ChainShort ==
  ASSUME NEW ars, NEW x, NEW m \in Stages, NEW c, Chain(ars, x, m, c), NEW j \in 1..m
  PROVE  Chain(ars, x, j, [i \in 1..j |-> c[i]])
<1>1. \A i \in 1..j : i \in 1..m /\ (i # Lex => i - 1 \in 1..j)
  BY Order
<1> QED BY <1>1 DEF Chain

\* What an entry names is what it was, if the slots up to its stage and the file
\* of its path are.
LEMMA RightKept ==
  ASSUME NEW ars, NEW table, NEW src, NEW ars2, NEW table2, NEW src2,
         NEW p \in Paths, NEW t \in Texts, NEW j \in Stages,
         Right(ars, table, src, j, p, t),
         FileOf(src, p) # 0 => FileOf(src2, p) = FileOf(src, p),
         table2[<<<<j, p>>, t>>].output = table[<<<<j, p>>, t>>].output,
         \A i \in 1..j : Continues(ars[i], ars2[i])
  PROVE  Right(ars2, table2, src2, j, p, t)
<1>1. PICK c : /\ Chain(ars, <<p, t>>, j, c)
               /\ c[j] = table[<<<<j, p>>, t>>].output
               /\ ars[j][c[j]].file = FileOf(src, p) /\ FileOf(src, p) # 0
  BY DEF Right
<1>2. Chain(ars2, <<p, t>>, j, c)
  BY <1>1, ChainKept
<1>3. ars2[j][c[j]] = ars[j][c[j]]
  <2>1. j \in 1..j
    BY Order
  <2> QED BY <1>1, <2>1 DEF Chain, Continues
<1> QED BY <1>1, <1>2, <1>3 DEF Right

LEMMA FaithfulKept ==
  ASSUME NEW ars, NEW table, NEW src, NEW ars2, NEW table2, NEW src2,
         Faithful(ars, table, src),
         \A p \in Paths : FileOf(src, p) # 0 => FileOf(src2, p) = FileOf(src, p),
         \A p \in Paths, t \in Texts, j \in Stages :
           Cache!Hit(table2, <<<<j, p>>, t>>) =>
             /\ Cache!Hit(table, <<<<j, p>>, t>>)
             /\ table2[<<<<j, p>>, t>>].output = table[<<<<j, p>>, t>>].output
             /\ \A i \in 1..j : Continues(ars[i], ars2[i])
  PROVE  Faithful(ars2, table2, src2)
BY RightKept DEF Faithful

\* The slots that a linked entry and those below it name are a chain.
LEMMA LinkedChain ==
  ASSUME NEW ars, NEW table \in Cache!Table, EntriesFit(ars, table), TypesFit(ars),
         OneProvenance(ars), NEW p \in Paths, NEW t \in Texts, NEW j \in Stages, NEW file,
         Linked(table, ars, j, p, t, file)
  PROVE  \E c : /\ Chain(ars, <<p, t>>, j, c)
                /\ c[j] = table[<<<<j, p>>, t>>].output /\ ars[j][c[j]].file = file
<1> DEFINE c == [i \in 1..j |-> table[<<<<i, p>>, t>>].output]
<1>1. ASSUME NEW i \in 1..j
      PROVE  /\ i \in Stages /\ table[<<<<i, p>>, t>>] # None
             /\ c[i] = table[<<<<i, p>>, t>>].output /\ c[i] \in Nat
             /\ c[i] \in DOMAIN ars[i] /\ ars[i][c[i]].file = file
  <2>1. i \in Stages
    BY Order
  <2>2. /\ table[<<<<i, p>>, t>>] # None
        /\ table[<<<<i, p>>, t>>].output \in DOMAIN ars[i]
        /\ ars[i][table[<<<<i, p>>, t>>].output].file = file
    BY DEF Linked
  <2>3. table[<<<<i, p>>, t>>] \in Cache!Entry
    <3>1. <<<<i, p>>, t>> \in Cache!Slots
      BY <2>1, SlotsOf
    <3> QED BY <2>2, <3>1 DEF Cache!Table
  <2>4. table[<<<<i, p>>, t>>].output \in Nat
    BY <2>3 DEF Cache!Entry, Outputs
  <2> QED BY <2>1, <2>2, <2>4
<1>2. ASSUME NEW i \in 1..j, i # Lex
      PROVE  i - 1 \in 1..j /\ ars[i][c[i]].parent = c[i - 1]
  <2>1. i - 1 \in 1..j /\ i > Lex
    BY <1>2, Order
  <2>2. table[<<<<i - 1, p>>, t>>] # None /\ c[i - 1] = table[<<<<i - 1, p>>, t>>].output
    BY <1>1, <2>1
  <2>3. ars[i][table[<<<<i, p>>, t>>].output].parent = table[<<<<i - 1, p>>, t>>].output
    BY <2>1, <2>2 DEF Linked
  <2> QED BY <1>1, <2>1, <2>2, <2>3
<1> HIDE DEF c
<1>3. ASSUME NEW i \in 1..j, i \in Stable PROVE ars[i][c[i]].subject = <<p, t>>
  BY <1>1, <1>3 DEF EntriesFit
<1>4. ASSUME Hir \in 1..j PROVE ars[Hir][c[Hir]].subject = <<p, t>>
  <2>1. Parse \in 1..j /\ Expand \in 1..j /\ Hir - 1 = Expand /\ Expand - 1 = Parse
        /\ Hir # Lex /\ Expand # Lex
    BY <1>4, Order
  <2>2. ars[Hir][c[Hir]].parent = c[Expand] /\ ars[Expand][c[Expand]].parent = c[Parse]
    BY <1>2, <1>4, <2>1
  <2>3. ars[Parse][c[Parse]].subject = <<p, t>>
    BY <1>3, <2>1, Order
  <2> QED BY <1>1, <1>4, <2>2, <2>3 DEF OneProvenance
<1>5. ASSUME Ty \in 1..j PROVE ars[Ty][c[Ty]].subject = <<p, t>>
  <2>1. Resolve \in 1..j /\ Ty - 1 = Resolve /\ Ty # Lex
    BY <1>5, Order
  <2>2. ars[Ty][c[Ty]].parent = c[Resolve]
    BY <1>2, <1>5, <2>1
  <2>3. ars[Resolve][c[Resolve]].subject = <<p, t>>
    BY <1>3, <2>1, Order
  <2> QED BY <1>1, <1>5, <2>2, <2>3 DEF TypesFit
<1>6. \A i \in 1..j : i # Expand => ars[i][c[i]].subject = <<p, t>>
  BY <1>1, <1>3, <1>4, <1>5, Order
<1>7. c \in [1..j -> Nat]
  BY <1>1 DEF c
<1>8. Chain(ars, <<p, t>>, j, c)
  BY <1>1, <1>2, <1>6, <1>7 DEF Chain
<1>9. j \in 1..j
  BY Order
<1> QED BY <1>1, <1>8, <1>9

\* Confirming entries whose promotion is allowed keeps what is valid faithful.
LEMMA ConfirmedFaithful ==
  ASSUME NEW ars, NEW table \in Cache!Table, EntriesFit(ars, table), TypesFit(ars),
         OneProvenance(ars), NEW src, NEW paths, Faithful(ars, table, src)
  PROVE  Faithful(ars, Cache!Confirmed(table, Promotable(table, ars, src, paths)), src)
<1> DEFINE allowed == Promotable(table, ars, src, paths)
           new == Cache!Confirmed(table, allowed)
<1> SUFFICES ASSUME NEW p \in Paths, NEW t \in Texts, NEW j \in Stages,
                    Cache!Hit(new, <<<<j, p>>, t>>)
             PROVE  Right(ars, new, src, j, p, t)
  BY DEF Faithful
<1>1. <<<<j, p>>, t>> \in Cache!Slots
  BY SlotsOf
<1>2. /\ Cache!Hit(table, <<<<j, p>>, t>>) \/ <<<<j, p>>, t>> \in allowed
      /\ new[<<<<j, p>>, t>>] # None
      /\ new[<<<<j, p>>, t>>].output = table[<<<<j, p>>, t>>].output
  <2> HIDE DEF allowed
  <2> QED BY <1>1, ConfirmedFacts DEF SameOutputs, Cache!Hit
<1>3. CASE Cache!Hit(table, <<<<j, p>>, t>>)
  BY <1>2, <1>3 DEF Faithful, Right
<1>4. CASE <<<<j, p>>, t>> \in allowed
  <2>1. FileOf(src, p) # 0 /\ Linked(table, ars, j, p, t, FileOf(src, p))
    <3> DEFINE x == <<<<j, p>>, t>>
    <3>1. PICK q \in paths, i \in Stages :
            /\ x[1] = <<i, q>> /\ FileOf(src, q) # 0
            /\ Linked(table, ars, i, q, x[2], FileOf(src, q))
      BY <1>4 DEF Promotable
    <3>2. i = j /\ q = p /\ x[2] = t
      BY <3>1
    <3> QED BY <3>1, <3>2
  <2> QED BY <1>2, <2>1, LinkedChain DEF Right
<1> QED BY <1>2, <1>3, <1>4
-----------------------------------------------------------------------------
(* What an invalidation reaches *)

\* The union in Dependents, unfolded.
LEMMA DependentsElements ==
  ASSUME NEW g, NEW S
  PROVE  Cache!Dependents(g, S) = {k \in Keys : \E to \in S : <<k, to>> \in g}
<1> DEFINE of(to) == {k \in Keys : <<k, to>> \in g}
<1>1. \A k : k \in UNION {of(to) : to \in S} <=> \E to \in S : k \in of(to)
  <2> HIDE DEF of
  <2> QED OBVIOUS
<1> QED BY <1>1 DEF Cache!Dependents

\* One round of Reached.
Grown(g, S) == S \cup Cache!Dependents(g, S)

\* f is the rounds of Reached up to number n.
Rounds(f, n, g, S) == f = [i \in 0..n |-> IF i = 0 THEN S ELSE Grown(g, f[i - 1])]

LEMMA RoundsExist ==
  ASSUME NEW g, NEW S
  PROVE  \A n \in Nat : \E f : Rounds(f, n, g, S)
<1> DEFINE T == {n \in Nat : \E f : Rounds(f, n, g, S)}
<1>1. 0 \in T
  <2> DEFINE f == [i \in 0..0 |-> S]
  <2>1. f = [i \in 0..0 |-> IF i = 0 THEN S ELSE Grown(g, f[i - 1])]
    OBVIOUS
  <2> QED BY <2>1 DEF Rounds
<1>2. ASSUME NEW n \in T PROVE n + 1 \in T
  <2>1. n \in Nat
    OBVIOUS
  <2>2. PICK f : Rounds(f, n, g, S)
    BY <1>2
  <2>3. \A i \in 0..n : f[i] = IF i = 0 THEN S ELSE Grown(g, f[i - 1])
    <3> DEFINE h == [i \in 0..n |-> IF i = 0 THEN S ELSE Grown(g, f[i - 1])]
    <3>1. f = h
      BY <2>2 DEF Rounds
    <3>2. \A i \in 0..n : h[i] = IF i = 0 THEN S ELSE Grown(g, f[i - 1])
      OBVIOUS
    <3> HIDE DEF h
    <3> QED BY <3>1, <3>2
  <2> DEFINE e == [i \in 0..(n + 1) |-> IF i = n + 1 THEN Grown(g, f[n]) ELSE f[i]]
  <2>4. ASSUME NEW i \in 0..(n + 1)
        PROVE  e[i] = IF i = 0 THEN S ELSE Grown(g, e[i - 1])
    <3>1. CASE i = n + 1
      BY <2>1, <3>1
    <3>2. CASE i # n + 1
      BY <2>1, <2>3, <3>2
    <3> QED BY <3>1, <3>2
  <2>5. e = [i \in 0..(n + 1) |-> IF i = 0 THEN S ELSE Grown(g, e[i - 1])]
    <3> DEFINE h == [i \in 0..(n + 1) |-> IF i = 0 THEN S ELSE Grown(g, e[i - 1])]
    <3>1. \A i \in 0..(n + 1) : e[i] = h[i]
      BY <2>4
    <3> QED BY <3>1
  <2>6. Rounds(e, n + 1, g, S)
    BY <2>5 DEF Rounds
  <2> QED BY <2>1, <2>6
<1>3. T = Nat
  <2> HIDE DEF T
  <2>1. T \in SUBSET Nat
    BY DEF T
  <2> QED BY <1>1, <1>2, <2>1, AllNumbers
<1> QED BY <1>3

ClosedIn(g, S) == Cache!Dependents(g, S) \subseteq S

\* One round of the definition adds what was computed from the keys reached.
LEMMA OneRound ==
  ASSUME NEW g, NEW S
  PROVE  UNION {{to} \cup Cache!Dependents(g, {to}) : to \in S} = Grown(g, S)
<1> DEFINE of(to) == {to} \cup Cache!Dependents(g, {to})
<1>1. \A to, k : k \in of(to) <=> k = to \/ (k \in Keys /\ <<k, to>> \in g)
  BY DependentsElements
<1>2. \A k : k \in Cache!Dependents(g, S) <=> k \in Keys /\ \E to \in S : <<k, to>> \in g
  BY DependentsElements
<1>3. \A k : k \in UNION {of(to) : to \in S} <=> \E to \in S : k \in of(to)
  <2> HIDE DEF of
  <2> QED OBVIOUS
<1>4. ASSUME NEW k PROVE (\E to \in S : k \in of(to)) <=> k \in Grown(g, S)
  <2> HIDE DEF of
  <2>1. k \in Grown(g, S) <=> k \in S \/ k \in Cache!Dependents(g, S)
    BY DEF Grown
  <2>2. ASSUME NEW to \in S, k \in of(to) PROVE k \in S \/ k \in Cache!Dependents(g, S)
    BY <1>1, <1>2, <2>2
  <2>3. ASSUME k \in S PROVE \E to \in S : k \in of(to)
    BY <1>1, <2>3
  <2>4. ASSUME k \in Cache!Dependents(g, S) PROVE \E to \in S : k \in of(to)
    BY <1>1, <1>2, <2>4
  <2> QED BY <2>1, <2>2, <2>3, <2>4
<1>5. \A k : k \in UNION {of(to) : to \in S} <=> k \in Grown(g, S)
  <2> HIDE DEF of
  <2> QED BY <1>3, <1>4
<1> QED BY <1>5

\* What every round has reached; one that is not closed has found a key more.
LEMMA RoundsReach ==
  ASSUME IsFiniteSet(Keys), NEW g, NEW S \in SUBSET Keys, NEW C \in Nat, NEW f,
         Rounds(f, C, g, S)
  PROVE  \A i \in 0..C : /\ S \subseteq f[i] /\ f[i] \subseteq Keys
                         /\ \A U \in SUBSET Keys :
                              S \subseteq U /\ ClosedIn(g, U) => f[i] \subseteq U
                         /\ ClosedIn(g, f[i]) \/ Cardinality(f[i]) >= i
<1> DEFINE Fine(i) == /\ S \subseteq f[i] /\ f[i] \subseteq Keys
                      /\ \A U \in SUBSET Keys :
                           S \subseteq U /\ ClosedIn(g, U) => f[i] \subseteq U
                      /\ ClosedIn(g, f[i]) \/ Cardinality(f[i]) >= i
           T == {i \in Nat : i <= C => Fine(i)}
<1>1. \A i \in 0..C : f[i] = IF i = 0 THEN S ELSE Grown(g, f[i - 1])
  <2> DEFINE h == [i \in 0..C |-> IF i = 0 THEN S ELSE Grown(g, f[i - 1])]
  <2>1. f = h
    BY DEF Rounds
  <2>2. \A i \in 0..C : h[i] = IF i = 0 THEN S ELSE Grown(g, f[i - 1])
    OBVIOUS
  <2> HIDE DEF h
  <2> QED BY <2>1, <2>2
<1>2. 0 \in T
  <2>1. f[0] = S
    BY <1>1
  <2>2. Cardinality(S) \in Nat
    BY FS_Subset, FS_CardinalityType
  <2> QED BY <2>1, <2>2
<1>3. ASSUME NEW n \in T PROVE n + 1 \in T
  <2> SUFFICES ASSUME n + 1 <= C PROVE Fine(n + 1)
    OBVIOUS
  <2>1. n \in Nat /\ n \in 0..C /\ n + 1 \in 0..C /\ Fine(n)
    OBVIOUS
  <2>2. f[n + 1] = f[n] \cup Cache!Dependents(g, f[n])
    <3>1. n + 1 # 0 /\ (n + 1) - 1 = n
      BY <2>1
    <3> QED BY <1>1, <2>1, <3>1 DEF Grown
  <2>3. Cache!Dependents(g, f[n]) \subseteq Keys
    BY DependentsElements
  <2>4. S \subseteq f[n + 1] /\ f[n + 1] \subseteq Keys
    BY <2>1, <2>2, <2>3
  <2>5. ASSUME NEW U \in SUBSET Keys, S \subseteq U, ClosedIn(g, U)
        PROVE  f[n + 1] \subseteq U
    <3>1. f[n] \subseteq U
      BY <2>1, <2>5
    <3>2. Cache!Dependents(g, f[n]) \subseteq Cache!Dependents(g, U)
      BY <3>1, DependentsElements
    <3> QED BY <2>2, <2>5, <3>1, <3>2 DEF ClosedIn
  <2>6. ClosedIn(g, f[n + 1]) \/ Cardinality(f[n + 1]) >= n + 1
    <3>1. CASE ClosedIn(g, f[n])
      <4>1. f[n + 1] = f[n]
        BY <2>2, <3>1 DEF ClosedIn
      <4> QED BY <3>1, <4>1
    <3>2. CASE ~ClosedIn(g, f[n])
      <4>1. f[n] \subseteq f[n + 1] /\ f[n] # f[n + 1]
        BY <2>2, <3>2 DEF ClosedIn
      <4>2. IsFiniteSet(f[n + 1])
        BY <2>4, FS_Subset
      <4>3. /\ Cardinality(f[n]) <= Cardinality(f[n + 1])
            /\ Cardinality(f[n]) # Cardinality(f[n + 1])
        BY <4>1, <4>2, FS_Subset
      <4>4. Cardinality(f[n]) \in Nat /\ Cardinality(f[n + 1]) \in Nat
        BY <4>1, <4>2, FS_Subset, FS_CardinalityType
      <4> QED BY <2>1, <3>2, <4>3, <4>4
    <3> QED BY <3>1, <3>2
  <2> QED BY <2>4, <2>5, <2>6
<1>4. T = Nat
  <2> HIDE DEF T
  <2>1. T \in SUBSET Nat
    BY DEF T
  <2> QED BY <1>2, <1>3, <2>1, AllNumbers
<1>5. ASSUME NEW i \in 0..C PROVE Fine(i)
  BY <1>4
<1> QED BY <1>5

\* Reached is the least set that holds the roots and, with a key, all that was
\* computed from it.
LEMMA ReachedIsLeast ==
  ASSUME IsFiniteSet(Keys), NEW g, NEW S \in SUBSET Keys
  PROVE  /\ S \subseteq Cache!Reached(g, S) /\ Cache!Reached(g, S) \subseteq Keys
         /\ ClosedIn(g, Cache!Reached(g, S))
         /\ \A U \in SUBSET Keys :
              S \subseteq U /\ ClosedIn(g, U) => Cache!Reached(g, S) \subseteq U
<1> DEFINE C == Cardinality(Keys)
           body(f) == [n \in 0..C |->
                        IF n = 0 THEN S
                        ELSE UNION {{to} \cup Cache!Dependents(g, {to}) : to \in f[n - 1]}]
           reach == CHOOSE f : f = body(f)
<1>1. Cache!Reached(g, S) = reach[C]
  <2>1. Cache!Cardinality(Keys) = Cardinality(Keys)
    BY DEF Cache!Cardinality, Cardinality
  <2> QED BY <2>1 DEF Cache!Reached
<1>2. C \in Nat
  BY FS_CardinalityType
<1>3. \A f : body(f) = [n \in 0..C |-> IF n = 0 THEN S ELSE Grown(g, f[n - 1])]
  BY OneRound
<1>4. PICK f : f = body(f)
  <2>1. PICK f : Rounds(f, C, g, S)
    BY <1>2, RoundsExist
  <2>2. f = body(f)
    BY <1>3, <2>1 DEF Rounds
  <2> HIDE DEF body
  <2> QED BY <2>2
<1>5. reach = body(reach)
  <2> HIDE DEF body
  <2> QED BY <1>4
<1>6. Rounds(reach, C, g, S)
  BY <1>3, <1>5 DEF Rounds
<1> HIDE DEF reach
<1>7. C \in 0..C
  BY <1>2
<1>8. /\ S \subseteq reach[C] /\ reach[C] \subseteq Keys
      /\ \A U \in SUBSET Keys : S \subseteq U /\ ClosedIn(g, U) => reach[C] \subseteq U
      /\ ClosedIn(g, reach[C]) \/ Cardinality(reach[C]) >= C
  BY <1>2, <1>6, <1>7, RoundsReach
<1>9. ClosedIn(g, reach[C])
  <2>1. CASE Cardinality(reach[C]) >= C
    <3>1. reach[C] = Keys
      BY <1>2, <1>8, <2>1, FS_Subset, FS_CardinalityType
    <3> QED BY <3>1, DependentsElements DEF ClosedIn
  <2> QED BY <1>8, <2>1
<1> QED BY <1>1, <1>8, <1>9

\* An invalidation reaches every stage above its root at which there is an entry.
LEMMA ReachesUp ==
  ASSUME NEW table, NEW graph, Supported(table, graph),
         NEW roots \in SUBSET Keys, NEW r \in 0..Depth, NEW p \in Paths, <<r, p>> \in roots
  PROVE  \A j \in Stages, t \in Texts :
           j > r /\ table[<<<<j, p>>, t>>] # None
             => <<j, p>> \in Cache!Dependents(graph, Cache!Reached(graph, roots))
<1> DEFINE R == Cache!Reached(graph, roots)
           T == {n \in Nat : \A t \in Texts :
                   r + n <= Depth /\ (n = 0 \/ table[<<<<r + n, p>>, t>>] # None)
                     => <<r + n, p>> \in R}
<1>1. roots \subseteq R /\ Cache!Dependents(graph, R) \subseteq R
  <2>1. IsFiniteSet(Keys)
    <3>1. IsFiniteSet(0..Depth)
      BY FS_Interval, Order
    <3> QED BY <3>1, PathsAssumption, FS_Product DEF Keys
  <2> QED BY <2>1, ReachedIsLeast DEF ClosedIn
<1> HIDE DEF R
<1>2. ASSUME NEW n \in Nat, n \in T, NEW t \in Texts, r + n + 1 <= Depth,
             table[<<<<r + n + 1, p>>, t>>] # None
      PROVE  <<r + n + 1, p>> \in Cache!Dependents(graph, R)
  <2> DEFINE j == r + n + 1
  <2>1. j \in Stages /\ j - 1 = r + n /\ r + n <= Depth
    BY <1>2, Order
  <2>2. <<<<j, p>>, <<j - 1, p>>>> \in graph /\ (j # Lex => table[<<<<j - 1, p>>, t>>] # None)
    BY <1>2, <2>1 DEF Supported
  <2>3. <<r + n, p>> \in R
    <3>1. CASE n = 0
      BY <1>1, <3>1
    <3>2. CASE n # 0
      <4>1. j # Lex
        BY <3>2, Order
      <4> QED BY <1>2, <2>1, <2>2, <4>1
    <3> QED BY <3>1, <3>2
  <2>4. <<j, p>> \in Keys
    BY <2>1, SlotsOf
  <2> HIDE DEF j
  <2>5. <<j, p>> \in Cache!Dependents(graph, R)
    BY <2>1, <2>2, <2>3, <2>4, DependentsElements
  <2> QED BY <2>5 DEF j
<1>3. T = Nat
  <2>1. 0 \in T
    BY <1>1
  <2>2. ASSUME NEW n \in T PROVE n + 1 \in T
    <3>1. n \in Nat
      OBVIOUS
    <3>2. \A t \in Texts : r + n + 1 <= Depth /\ table[<<<<r + n + 1, p>>, t>>] # None
                            => <<r + n + 1, p>> \in R
      BY <1>1, <1>2, <3>1
    <3>3. r + (n + 1) = r + n + 1 /\ n + 1 # 0 /\ n + 1 \in Nat
      BY <3>1
    <3> QED BY <3>2, <3>3
  <2>3. T \in SUBSET Nat
    OBVIOUS
  <2> HIDE DEF T
  <2> QED BY <2>1, <2>2, <2>3, AllNumbers
<1>4. ASSUME NEW j \in Stages, NEW t \in Texts, j > r, table[<<<<j, p>>, t>>] # None
      PROVE  <<j, p>> \in Cache!Dependents(graph, R)
  <2>1. j - r - 1 \in Nat /\ r + (j - r - 1) + 1 = j
    BY <1>4, Order
  <2>2. j <= Depth
    BY Order
  <2>3. j - r - 1 \in T
    BY <1>3, <2>1
  <2> HIDE DEF T
  <2> DEFINE n == j - r - 1
  <2>4. n \in Nat /\ n \in T /\ r + n + 1 = j
    BY <2>1, <2>3
  <2> HIDE DEF n
  <2> QED BY <1>2, <1>4, <2>2, <2>4
<1> QED BY <1>4 DEF R
-----------------------------------------------------------------------------
(* What a request does *)

\* The stages below h answered, those from h + 1 to m were computed, the slot of
\* stage j is id[j].
Answered(p, t, k, h, m, id, says) ==
  LET xs == {<<<<j, p>>, t>> : j \in (h + 1)..m} IN
  /\ h \in 0..m /\ m \in Stages /\ id \in [h..m -> Nat]
  /\ h # 0 => Cache!Hit(entries, <<<<h, p>>, t>>)
              /\ id[h] = entries[<<<<h, p>>, t>>].output
  /\ says = IF h = 0 THEN <<p, t>> ELSE SubjectOf(h, id[h])
  /\ \A j \in (h + 1)..m :
       \/ id[j] = Len(arenas[j]) + 1
       \/ j = Expand /\ h < Expand /\ id[j] \in Identities(FileOf(sources', p), id[Parse])
  /\ arenas' = [j \in Stages |->
       IF j \in (h + 1)..m /\ id[j] > Len(arenas[j])
       THEN Append(arenas[j], [file |-> FileOf(sources', p), parent |-> id[j - 1],
                               subject |-> says])
       ELSE arenas[j]]
  /\ entries' = Cache!Stored(
       Cache!Missed(entries, {<<<<j, p>>, t>> : j \in (h + 1)..k}),
       [x \in xs |-> id[x[1][1]]])
  /\ deps' = deps \cup {<<<<j, p>>, <<j - 1, p>>>> : j \in (h + 1)..m}

LEMMA RequestAnswers ==
  ASSUME Shape, NEW p \in Paths, NEW t \in Texts, NEW k \in Requested, Request(p, t, k)
  PROVE  /\ sources' = SetText(sources, p, t)
         /\ \E h, m, id, says : Answered(p, t, k, h, m, id, says)
<1> DEFINE src == SetText(sources, p, t)
           file == FileOf(src, p)
           hits == {j \in 1..k : Cache!Hit(entries, <<<<j, p>>, t>>)}
           h == IF hits = {} THEN 0 ELSE Max(hits)
           found == IF h = 0 THEN 0 ELSE entries[<<<<h, p>>, t>>].output
           says == IF h = 0 THEN <<p, t>> ELSE SubjectOf(h, found)
           tree == IF h = Parse THEN found ELSE Len(arenas[Parse]) + 1
           id(j) == CASE j = h -> found
                      [] j # h /\ j = Expand /\ Identities(file, tree) # {}
                           -> Min(Identities(file, tree))
                      [] OTHER -> Len(arenas[j]) + 1
           slot(j) == [file |-> file, parent |-> id(j - 1), subject |-> says]
<1>1. PICK m \in {k} \cup (IF h < Hir /\ Hir <= k THEN {Hir - 1} ELSE {}) :
        /\ arenas' = [j \in Stages |->
             IF j \in (h + 1)..m /\ id(j) > Len(arenas[j])
             THEN Append(arenas[j], slot(j)) ELSE arenas[j]]
        /\ entries' = Cache!Stored(
             Cache!Missed(entries, {<<<<j, p>>, t>> : j \in (h + 1)..k}),
             [x \in {<<<<j, p>>, t>> : j \in (h + 1)..m} |-> id(x[1][1])])
        /\ deps' = deps \cup {<<<<j, p>>, <<j - 1, p>>>> : j \in (h + 1)..m}
  BY DEF Request
<1>2. sources' = src
  BY DEF Request
<1>3. k \in Stages /\ k \in Nat
  BY DepthAssumption, Order
<1>4. h \in 0..k /\ (h # 0 => h \in hits)
  <2>1. hits \in SUBSET (0..k)
    BY <1>3
  <2>2. hits # {} => h \in hits
    <3> HIDE DEF hits
    <3> QED BY <1>3, <2>1, MaxOf
  <2>3. hits = {} => h = 0
    OBVIOUS
  <2> HIDE DEF hits, h
  <2>4. CASE hits = {}
    BY <1>3, <2>3, <2>4
  <2>5. CASE hits # {}
    BY <2>1, <2>2, <2>5
  <2> QED BY <2>4, <2>5
<1>5. h # 0 => Cache!Hit(entries, <<<<h, p>>, t>>)
  BY <1>4
<1> HIDE DEF hits, h
<1>6. m \in Stages /\ h \in 0..m /\ m <= k
  <2>1. CASE m = k
    BY <1>3, <1>4, <2>1
  <2>2. CASE m # k
    <3>1. h < Hir /\ Hir <= k /\ m = Hir - 1
      BY <2>2
    <3> QED BY <1>3, <1>4, <3>1, Order
  <2> QED BY <2>1, <2>2
<1>7. found \in Nat
  <2>1. CASE h # 0
    <3>0. h \in Stages
      BY <1>6, <2>1, Order
    <3>1. <<<<h, p>>, t>> \in Cache!Slots
      BY <3>0, SlotsOf
    <3>2. entries[<<<<h, p>>, t>>] \in Cache!Entry
      BY <1>5, <2>1, <3>1 DEF Shape, Cache!Table, Cache!Hit
    <3> QED BY <2>1, <3>2 DEF Cache!Entry, Outputs
  <2> QED BY <2>1
<1>8. \A j \in Stages : Len(arenas[j]) \in Nat /\ DOMAIN arenas[j] = 1..Len(arenas[j])
  BY DEF Shape
<1>9. ASSUME Identities(file, tree) # {}
      PROVE  Min(Identities(file, tree)) \in Identities(file, tree)
             /\ Min(Identities(file, tree)) \in Nat
  <2>1. Identities(file, tree) \in SUBSET Nat
    BY <1>8, Order DEF Identities
  <2> HIDE DEF tree, file
  <2> QED BY <1>9, <2>1, MinOf
<1> HIDE DEF found
<1>10. \A j \in h..m : id(j) \in Nat
  BY <1>6, <1>7, <1>8, <1>9, Order
<1>11. ASSUME NEW j \in (h + 1)..m
       PROVE  \/ id(j) = Len(arenas[j]) + 1
              \/ j = Expand /\ h < Expand /\ id(j) \in Identities(file, id(Parse))
  <2>1. j # h /\ j \in h..m /\ h \in Int
    BY <1>6
  <2>2. CASE j = Expand /\ Identities(file, tree) # {}
    <3>1. id(j) = Min(Identities(file, tree))
      BY <2>1, <2>2
    <3>2. id(Parse) = tree
      BY Order DEF tree
    <3>3. h < Expand
      BY <2>1, <2>2
    <3> QED BY <1>9, <2>2, <3>1, <3>2, <3>3
  <2>3. CASE ~(j = Expand /\ Identities(file, tree) # {})
    BY <2>1, <2>3
  <2> QED BY <2>2, <2>3
<1> DEFINE ids == [j \in h..m |-> id(j)]
<1> HIDE DEF id, says
<1>12. /\ ids \in [h..m -> Nat] /\ \A j \in h..m : ids[j] = id(j)
       /\ h \in h..m
  BY <1>6, <1>10
<1>13. \A j \in (h + 1)..m : j \in h..m /\ j - 1 \in h..m /\ j \in Stages
  BY <1>6, Order
<1>14. ids[h] = found
  <2>1. id(h) = found
    BY DEF id
  <2> QED BY <1>12, <2>1
<1>15. says = IF h = 0 THEN <<p, t>> ELSE SubjectOf(h, ids[h])
  BY <1>14 DEF says
<1>16. \A j \in (h + 1)..m :
       \/ ids[j] = Len(arenas[j]) + 1
       \/ j = Expand /\ h < Expand /\ ids[j] \in Identities(FileOf(sources', p), ids[Parse])
  <2> SUFFICES ASSUME NEW j \in (h + 1)..m, ids[j] # Len(arenas[j]) + 1
               PROVE  j = Expand /\ h < Expand /\ ids[j] \in Identities(file, ids[Parse])
    BY <1>2
  <2>1. j = Expand /\ h < Expand /\ id(j) \in Identities(file, id(Parse)) /\ ids[j] = id(j)
    BY <1>11, <1>12, <1>13
  <2>2. Parse \in h..m
    BY <1>6, <2>1, Order
  <2> QED BY <1>12, <2>1, <2>2
<1>17. arenas' = [j \in Stages |->
       IF j \in (h + 1)..m /\ ids[j] > Len(arenas[j])
       THEN Append(arenas[j], [file |-> FileOf(sources', p), parent |-> ids[j - 1],
                               subject |-> says])
       ELSE arenas[j]]
  <2> DEFINE new(j) == IF j \in (h + 1)..m /\ ids[j] > Len(arenas[j])
                       THEN Append(arenas[j], [file |-> FileOf(sources', p),
                                               parent |-> ids[j - 1], subject |-> says])
                       ELSE arenas[j]
  <2>1. ASSUME NEW j \in Stages PROVE arenas'[j] = new(j)
    <3>1. CASE j \in (h + 1)..m
      BY <1>1, <1>2, <1>12, <1>13, <3>1
    <3>2. CASE j \notin (h + 1)..m
      BY <1>1, <3>2
    <3> QED BY <3>1, <3>2
  <2> HIDE DEF new
  <2>2. arenas' = [j \in Stages |-> arenas'[j]]
    <3> DEFINE old(j) == IF j \in (h + 1)..m /\ id(j) > Len(arenas[j])
                         THEN Append(arenas[j], slot(j)) ELSE arenas[j]
    <3>1. arenas' = [j \in Stages |-> old(j)]
      BY <1>1
    <3> HIDE DEF old
    <3> QED BY <3>1
  <2>3. arenas' = [j \in Stages |-> new(j)]
    BY <2>1, <2>2
  <2> QED BY <2>3 DEF new
<1> DEFINE xs == {<<<<j, p>>, t>> : j \in (h + 1)..m}
<1>18. [x \in xs |-> id(x[1][1])] = [x \in xs |-> ids[x[1][1]]]
  <2>1. \A x \in xs : id(x[1][1]) = ids[x[1][1]]
    <3> SUFFICES ASSUME NEW j \in (h + 1)..m
                 PROVE  LET x == <<<<j, p>>, t>> IN id(x[1][1]) = ids[x[1][1]]
      OBVIOUS
    <3> QED BY <1>12, <1>13
  <2> HIDE DEF xs, ids
  <2> QED BY <2>1
<1>19. entries' = Cache!Stored(
         Cache!Missed(entries, {<<<<j, p>>, t>> : j \in (h + 1)..k}),
         [x \in xs |-> ids[x[1][1]]])
  BY <1>1, <1>18
<1> HIDE DEF ids
<1>20. h # 0 => Cache!Hit(entries, <<<<h, p>>, t>>)
                /\ ids[h] = entries[<<<<h, p>>, t>>].output
  BY <1>5, <1>14 DEF found
<1>21. Answered(p, t, k, h, m, ids, says)
  BY <1>1, <1>6, <1>12, <1>15, <1>16, <1>17, <1>19, <1>20 DEF Answered
<1> QED BY <1>2, <1>21

LEMMA SubjectType ==
  ASSUME Shape, NEW j \in Stages, NEW n
  PROVE  SubjectOf(j, n) \in (Paths \X Texts) \cup {None}
<1>1. \A i \in Stages : \A y \in DOMAIN arenas[i] :
        arenas[i][y].subject \in (Paths \X Texts) \cup {None}
  <2>1. \A i \in Stages : \A y \in DOMAIN arenas[i] : arenas[i][y] \in Slot
    BY DEF Shape
  <2> QED BY <2>1 DEF Slot
<1> QED BY <1>1, Order DEF SubjectOf

\* The slots of a request, and that those there were stay.
LEMMA AnsweredSlots ==
  ASSUME Shape, NEW p \in Paths, NEW t \in Texts, NEW k, NEW h, NEW m, NEW id, NEW says,
         Answered(p, t, k, h, m, id, says), sources' = SetText(sources, p, t)
  PROVE  /\ arenas' \in [Stages -> Seq(Slot)]
         /\ \A j \in Stages :
              /\ Continues(arenas[j], arenas'[j])
              /\ \A y \in DOMAIN arenas'[j] :
                   y \in DOMAIN arenas[j] \/ (j \in (h + 1)..m /\ y = id[j])
         /\ \A j \in (h + 1)..m :
              /\ j \in Stages /\ id[j] \in Outputs /\ id[j] \in DOMAIN arenas'[j]
              /\ arenas'[j][id[j]].file = FileOf(sources', p)
              /\ j # Lex => arenas'[j][id[j]].parent = id[j - 1]
              /\ j # Expand => arenas'[j][id[j]].subject = says
<1> DEFINE file == FileOf(sources', p)
           slot(j) == [file |-> file, parent |-> id[j - 1], subject |-> says]
           fresh(j) == j \in (h + 1)..m /\ id[j] > Len(arenas[j])
<1>1. file \in Nat
  BY SetTextFacts, FileOfFacts DEF Shape
<1>2. /\ h \in 0..m /\ m \in Stages /\ id \in [h..m -> Nat]
      /\ h # 0 => h \in Stages
  BY Order DEF Answered
<1>3. says \in (Paths \X Texts) \cup {None}
  BY <1>2, SubjectType DEF Answered
<1>4. \A j \in (h + 1)..m : j \in Stages /\ id[j] \in Nat /\ id[j - 1] \in Nat
  BY <1>2, Order
<1>5. \A j \in (h + 1)..m : slot(j) \in Slot
  BY <1>1, <1>3, <1>4 DEF Slot
<1>6. \A j \in Stages : /\ arenas[j] \in Seq(Slot) /\ Len(arenas[j]) \in Nat
                        /\ DOMAIN arenas[j] = 1..Len(arenas[j])
  BY DEF Shape
<1>7. \A j \in Stages : arenas'[j] = IF fresh(j) THEN Append(arenas[j], slot(j)) ELSE arenas[j]
  BY DEF Answered
<1>8. \A j \in (h + 1)..m :
        \/ id[j] = Len(arenas[j]) + 1
        \/ /\ j = Expand /\ h < Expand /\ id[j] \in Identities(file, id[Parse])
  BY DEF Answered
<1>9. arenas' = [j \in Stages |-> arenas'[j]]
  <2> DEFINE new(j) == IF fresh(j) THEN Append(arenas[j], slot(j)) ELSE arenas[j]
  <2>1. arenas' = [j \in Stages |-> new(j)]
    BY DEF Answered
  <2> HIDE DEF new
  <2> QED BY <2>1
<1> HIDE DEF slot
<1>10. ASSUME NEW j \in Stages, fresh(j)
       PROVE  /\ id[j] = Len(arenas[j]) + 1 /\ arenas'[j] \in Seq(Slot)
              /\ Len(arenas'[j]) = id[j] /\ DOMAIN arenas'[j] = 1..id[j]
              /\ arenas'[j][id[j]] = slot(j)
              /\ \A y \in DOMAIN arenas[j] : arenas'[j][y] = arenas[j][y]
  <2>1. id[j] = Len(arenas[j]) + 1
    <3>1. j \in (h + 1)..m /\ id[j] > Len(arenas[j]) /\ id[j] \in Nat
      BY <1>4, <1>10
    <3>2. id[j] \in Identities(file, id[Parse]) /\ j = Expand => id[j] <= Len(arenas[j])
      BY <1>6 DEF Identities
    <3> QED BY <1>6, <1>8, <3>1, <3>2
  <2>2. arenas'[j] = Append(arenas[j], slot(j)) /\ slot(j) \in Slot
    BY <1>5, <1>7, <1>10
  <2> QED BY <1>6, <2>1, <2>2
<1>11. ASSUME NEW j \in Stages, ~fresh(j) PROVE arenas'[j] = arenas[j]
  BY <1>7, <1>11
<1>12. arenas' \in [Stages -> Seq(Slot)]
  BY <1>6, <1>9, <1>10, <1>11
<1>13. ASSUME NEW j \in Stages
       PROVE  /\ Continues(arenas[j], arenas'[j])
              /\ \A y \in DOMAIN arenas'[j] :
                   y \in DOMAIN arenas[j] \/ (j \in (h + 1)..m /\ y = id[j])
  <2>1. CASE fresh(j)
    BY <1>6, <1>10, <2>1 DEF Continues
  <2>2. CASE ~fresh(j)
    BY <1>11, <2>2 DEF Continues
  <2> QED BY <2>1, <2>2
<1>14. ASSUME NEW j \in (h + 1)..m
       PROVE  /\ j \in Stages /\ id[j] \in Outputs /\ id[j] \in DOMAIN arenas'[j]
              /\ arenas'[j][id[j]].file = FileOf(sources', p)
              /\ j # Lex => arenas'[j][id[j]].parent = id[j - 1]
              /\ j # Expand => arenas'[j][id[j]].subject = says
  <2>1. CASE fresh(j)
    <3>1. /\ j \in Stages /\ id[j] \in Nat /\ id[j] = Len(arenas[j]) + 1
          /\ DOMAIN arenas'[j] = 1..id[j] /\ arenas'[j][id[j]] = slot(j)
      BY <1>4, <1>10, <2>1
    <3>2. id[j] # 0 /\ id[j] \in 1..id[j]
      BY <1>6, <3>1
    <3>3. slot(j).file = file /\ slot(j).parent = id[j - 1] /\ slot(j).subject = says
      BY DEF slot
    <3> QED BY <3>1, <3>2, <3>3 DEF Outputs
  <2>2. CASE ~fresh(j)
    <3>1. j = Expand /\ id[j] \in Identities(file, id[Parse]) /\ j \in Stages /\ id[j] \in Nat
      <4>1. id[j] # Len(arenas[j]) + 1
        BY <1>4, <1>6, <2>2
      <4> QED BY <1>4, <1>8, <4>1
    <3>2. id[j] \in DOMAIN arenas[j] /\ id[j] # 0
      BY <1>6, <3>1 DEF Identities
    <3>3. arenas[j][id[j]].file = file /\ arenas[j][id[j]].parent = id[j - 1]
      BY <3>1, Order DEF Identities
    <3> QED BY <1>11, <2>2, <3>1, <3>2, <3>3 DEF Outputs
  <2> QED BY <2>1, <2>2
<1> QED BY <1>12, <1>13, <1>14

\* The table and the graph after a request.
LEMMA AnsweredTable ==
  ASSUME Shape, NEW p \in Paths, NEW t \in Texts, NEW k, NEW h, NEW m, NEW id, NEW says,
         Answered(p, t, k, h, m, id, says), sources' = SetText(sources, p, t)
  PROVE  /\ entries' \in Cache!Table /\ GraphOK(deps') /\ Supported(entries', deps')
         /\ \A q \in Paths, u \in Texts, j \in Stages :
              LET x == <<<<j, q>>, u>> IN
              \/ q = p /\ u = t /\ j \in (h + 1)..m
              \/ /\ entries[x] = None <=> entries'[x] = None
                 /\ entries[x] # None => entries'[x].output = entries[x].output
                 /\ Cache!Hit(entries', x) <=> Cache!Hit(entries, x)
         /\ \A j \in (h + 1)..m : entries'[<<<<j, p>>, t>>].output = id[j]
<1> DEFINE xs == {<<<<j, p>>, t>> : j \in (h + 1)..m}
           ks == {<<<<j, p>>, t>> : j \in (h + 1)..k}
           new == [x \in xs |-> id[x[1][1]]]
           missed == Cache!Missed(entries, ks)
<1>1. /\ h \in 0..m /\ m \in Stages /\ h \in Nat /\ m \in Nat
      /\ h # 0 => h \in Stages
  BY Order DEF Answered
<1>2. \A j \in (h + 1)..m : j \in Stages /\ id[j] \in Outputs /\ (j # Lex => j - 1 \in Stages)
  <2>1. \A j \in (h + 1)..m : j \in Stages /\ id[j] \in Outputs
    BY AnsweredSlots
  <2> QED BY <2>1, SlotsOf
<1>3. xs \in SUBSET Cache!Slots
  <2>1. \A j \in (h + 1)..m : <<<<j, p>>, t>> \in Cache!Slots
    BY <1>2, SlotsOf
  <2> QED BY <2>1
<1>4. new \in [xs -> Outputs]
  BY <1>2
<1>5. /\ missed \in Cache!Table /\ SameOutputs(entries, missed)
      /\ \A x \in Cache!Slots : Cache!Hit(missed, x) <=> Cache!Hit(entries, x)
  <2> HIDE DEF ks
  <2> QED BY MissedFacts DEF Shape
<1>6. entries' = Cache!Stored(missed, new)
  BY DEF Answered
<1>7. /\ entries' \in Cache!Table
      /\ \A x \in Cache!Slots \ xs : entries'[x] = missed[x]
      /\ \A x \in xs : entries'[x] # None /\ entries'[x].output = new[x]
  <2> HIDE DEF xs, new, missed
  <2> QED BY <1>3, <1>4, <1>5, <1>6, StoredFacts
<1>8. \A j \in (h + 1)..m : /\ <<<<j, p>>, t>> \in xs
                            /\ new[<<<<j, p>>, t>>] = id[j]
  OBVIOUS
<1>9. \A q, u, j : <<<<j, q>>, u>> \in xs => q = p /\ u = t /\ j \in (h + 1)..m
  OBVIOUS
<1> HIDE DEF xs, new, missed, ks
<1>10. ASSUME NEW q \in Paths, NEW u \in Texts, NEW j \in Stages,
              ~(q = p /\ u = t /\ j \in (h + 1)..m)
       PROVE  LET x == <<<<j, q>>, u>> IN
              /\ entries[x] = None <=> entries'[x] = None
              /\ entries[x] # None => entries'[x].output = entries[x].output
              /\ Cache!Hit(entries', x) <=> Cache!Hit(entries, x)
  <2> DEFINE x == <<<<j, q>>, u>>
  <2>1. x \in Cache!Slots \ xs
    BY <1>9, <1>10, SlotsOf
  <2>2. entries'[x] = missed[x]
    BY <1>7, <2>1
  <2> QED BY <1>5, <2>1, <2>2 DEF SameOutputs, Cache!Hit
<1>11. GraphOK(deps')
  <2>1. deps' = deps \cup {<<<<j, p>>, <<j - 1, p>>>> : j \in (h + 1)..m}
    BY DEF Answered
  <2>2. \A j \in (h + 1)..m : /\ <<j, p>> \in Keys /\ <<j - 1, p>> \in Keys
                              /\ j \in Int /\ j = (j - 1) + 1
    <3>1. \A j \in Stages : <<j, p>> \in Keys /\ <<j - 1, p>> \in Keys
      BY SlotsOf
    <3>2. \A j \in Stages : j \in Int /\ j = (j - 1) + 1
      BY Order
    <3> QED BY <1>2, <3>1, <3>2
  <2>3. GraphOK(deps)
    BY DEF Shape
  <2> QED BY <2>1, <2>2, <2>3 DEF GraphOK
<1>12. ASSUME NEW q \in Paths, NEW u \in Texts, NEW j \in Stages,
              entries'[<<<<j, q>>, u>>] # None
       PROVE  /\ j # Lex => entries'[<<<<j - 1, q>>, u>>] # None
              /\ <<<<j, q>>, <<j - 1, q>>>> \in deps'
  <2>1. deps' = deps \cup {<<<<i, p>>, <<i - 1, p>>>> : i \in (h + 1)..m}
    BY DEF Answered
  <2>2. \A i \in Stages : entries[<<<<i, q>>, u>>] # None => entries'[<<<<i, q>>, u>>] # None
    BY <1>7, <1>8, <1>10
  <2>3. CASE q = p /\ u = t /\ j \in (h + 1)..m
    <3>1. ASSUME j # Lex PROVE entries'[<<<<j - 1, q>>, u>>] # None
      <4>1. j - 1 \in Stages
        BY <3>1, SlotsOf
      <4>2. CASE j - 1 = h
        <5>1. h # 0 /\ Cache!Hit(entries, <<<<h, p>>, t>>)
          BY <1>1, <4>1, <4>2, Order DEF Answered
        <5> QED BY <2>2, <2>3, <4>1, <4>2, <5>1 DEF Cache!Hit
      <4>3. CASE j - 1 # h
        <5>1. j - 1 \in (h + 1)..m
          BY <1>1, <2>3, <4>3, Order
        <5> QED BY <1>7, <1>8, <2>3, <5>1
      <4> QED BY <4>2, <4>3
    <3> QED BY <2>1, <2>3, <3>1
  <2>4. CASE ~(q = p /\ u = t /\ j \in (h + 1)..m)
    <3>1. entries[<<<<j, q>>, u>>] # None
      BY <1>10, <1>12, <2>4
    <3>2. /\ j # Lex => entries[<<<<j - 1, q>>, u>>] # None
          /\ <<<<j, q>>, <<j - 1, q>>>> \in deps
      BY <3>1 DEF Shape, Supported
    <3>3. j # Lex => j - 1 \in Stages
      BY SlotsOf
    <3> QED BY <2>1, <2>2, <3>2, <3>3
  <2> QED BY <2>3, <2>4
<1> QED BY <1>7, <1>8, <1>10, <1>11, <1>12 DEF Supported
-----------------------------------------------------------------------------
(* What a restore does to arenas and table *)

LEMMA OverlayFacts ==
  ASSUME NEW a \in Seq(Slot), NEW b \in Seq(Slot)
  PROVE  /\ Overlay(a, b) \in Seq(Slot) /\ Continues(b, Overlay(a, b))
         /\ Continues(b, a) => Continues(a, Overlay(a, b))
<1> DEFINE rest == SubSeq(a, Len(b) + 1, Len(a))
           all == b \o rest
<1>1. Len(a) \in Nat /\ Len(b) \in Nat /\ DOMAIN a = 1..Len(a) /\ DOMAIN b = 1..Len(b)
  OBVIOUS
<1>2. rest \in Seq(Slot)
  <2>1. \A i \in (Len(b) + 1)..Len(a) : a[i] \in Slot
    OBVIOUS
  <2> QED BY <1>1, <2>1
<1>3. Len(rest) = IF Len(b) + 1 <= Len(a) THEN Len(a) - Len(b) ELSE 0
  BY <1>1
<1>4. \A i \in 1..Len(rest) : rest[i] = a[Len(b) + i]
  <2>1. \A i \in 1..Len(rest) : rest[i] = a[Len(b) + 1 + i - 1]
    BY <1>1
  <2>2. \A i \in 1..Len(rest) : Len(b) + 1 + i - 1 = Len(b) + i
    BY <1>1, <1>3
  <2> QED BY <2>1, <2>2
<1> HIDE DEF rest
<1>5. /\ all \in Seq(Slot) /\ Len(all) = Len(b) + Len(rest) /\ DOMAIN all = 1..Len(all)
      /\ \A i \in 1..Len(b) : all[i] = b[i]
      /\ \A i \in (Len(b) + 1)..(Len(b) + Len(rest)) : all[i] = rest[i - Len(b)]
  BY <1>1, <1>2
<1>6. Overlay(a, b) = all
  BY DEF Overlay, rest
<1> HIDE DEF all
<1>7. Continues(b, all)
  BY <1>1, <1>2, <1>5 DEF Continues
<1>8. ASSUME Continues(b, a), NEW i \in DOMAIN a PROVE i \in DOMAIN all /\ all[i] = a[i]
  <2>1. CASE i <= Len(b)
    <3>1. i \in DOMAIN b
      BY <1>1, <2>1
    <3> QED BY <1>7, <1>8, <3>1 DEF Continues
  <2>2. CASE i > Len(b)
    <3>1. Len(b) + 1 <= Len(a) /\ Len(rest) = Len(a) - Len(b)
      <4>1. i \in 1..Len(a)
        BY <1>1
      <4>2. Len(b) + 1 <= Len(a)
        BY <1>1, <2>2, <4>1
      <4> QED BY <1>3, <4>2
    <3>2. i - Len(b) \in 1..Len(rest) /\ Len(b) + (i - Len(b)) = i
      BY <1>1, <2>2, <3>1
    <3>3. i \in (Len(b) + 1)..(Len(b) + Len(rest)) /\ i \in 1..Len(all)
      BY <1>1, <1>5, <2>2, <3>1
    <3> QED BY <1>4, <1>5, <3>2, <3>3
  <2> QED BY <1>1, <2>1, <2>2
<1> QED BY <1>5, <1>6, <1>7, <1>8 DEF Continues

LEMMA WithStagesAt ==
  ASSUME NEW live, NEW new, NEW stages, NEW j \in Stages
  PROVE  /\ j \notin stages => WithStages(live, new, stages)[j] = live[j]
         /\ j \in stages /\ j \in Replaced => WithStages(live, new, stages)[j] = new[j]
         /\ j \in stages /\ j \notin Replaced
              => WithStages(live, new, stages)[j] = Overlay(live[j], new[j])
<1>1. CASE j \notin stages
  BY <1>1 DEF WithStages
<1>2. CASE j \in stages /\ j \in Replaced
  BY <1>2 DEF WithStages
<1>3. CASE j \in stages /\ j \notin Replaced
  BY <1>3 DEF WithStages
<1> QED BY <1>1, <1>2, <1>3

LEMMA WithStagesType ==
  ASSUME NEW live \in [Stages -> Seq(Slot)], NEW new \in [Stages -> Seq(Slot)], NEW stages
  PROVE  WithStages(live, new, stages) \in [Stages -> Seq(Slot)]
<1> DEFINE all == WithStages(live, new, stages)
<1>1. ASSUME NEW j \in Stages PROVE all[j] \in Seq(Slot)
  <2>1. Overlay(live[j], new[j]) \in Seq(Slot)
    BY OverlayFacts
  <2>2. all[j] \in {live[j], new[j], Overlay(live[j], new[j])}
    BY WithStagesAt
  <2> QED BY <2>1, <2>2
<1>2. all = [j \in Stages |-> all[j]]
  BY DEF WithStages
<1> HIDE DEF all
<1>3. all \in [Stages -> Seq(Slot)]
  BY <1>1, <1>2
<1> QED BY <1>3 DEF all

LEMMA TrailingFacts ==
  ASSUME arenas \in [Stages -> Seq(Slot)], NEW new \in [Stages -> Seq(Slot)], NEW stages
  PROVE  /\ Trailing(new, stages) \in [Stages -> Seq(Slot)]
         /\ \A j \in Stages : Continues(arenas[j], Trailing(new, stages)[j])
         /\ \A j \in Stages : j \in Replaced => Trailing(new, stages)[j] = arenas[j]
<1> DEFINE all == Trailing(new, stages)
<1>1. ASSUME NEW j \in Stages
      PROVE  /\ all[j] \in Seq(Slot) /\ Continues(arenas[j], all[j])
             /\ j \in Replaced => all[j] = arenas[j]
  <2>1. CASE j \in stages \ Replaced
    <3>1. all[j] = Overlay(Overlay(arenas[j], new[j]), arenas[j])
      BY <2>1 DEF Trailing
    <3>2. Overlay(arenas[j], new[j]) \in Seq(Slot)
      BY OverlayFacts
    <3> QED BY <2>1, <3>1, <3>2, OverlayFacts
  <2>2. CASE j \notin stages \ Replaced
    <3>1. all[j] = arenas[j]
      BY <2>2 DEF Trailing
    <3> QED BY <3>1, ContinuesFacts
  <2> QED BY <2>1, <2>2
<1>2. all = [j \in Stages |-> all[j]]
  BY DEF Trailing
<1> HIDE DEF all
<1>3. all \in [Stages -> Seq(Slot)]
  BY <1>1, <1>2
<1> QED BY <1>1, <1>3 DEF all

\* Below an entry there are entries of every stage.
LEMMA SupportedDown ==
  ASSUME NEW table, NEW graph, Supported(table, graph), NEW p \in Paths, NEW t \in Texts,
         NEW j \in Stages, table[<<<<j, p>>, t>>] # None
  PROVE  \A r \in 1..j : table[<<<<r, p>>, t>>] # None
<1> DEFINE T == {n \in Nat : n < j => table[<<<<j - n, p>>, t>>] # None}
<1>1. 0 \in T
  BY Order
<1>2. ASSUME NEW n \in T PROVE n + 1 \in T
  <2> SUFFICES ASSUME n + 1 < j PROVE table[<<<<j - (n + 1), p>>, t>>] # None
    OBVIOUS
  <2> DEFINE i == j - n
  <2>1. i \in Stages /\ i # Lex /\ i - 1 = j - (n + 1)
    BY Order
  <2>2. table[<<<<i, p>>, t>>] # None
    BY Order
  <2> HIDE DEF i
  <2> QED BY <2>1, <2>2 DEF Supported
<1>3. T = Nat
  <2>1. T \in SUBSET Nat
    OBVIOUS
  <2> HIDE DEF T
  <2> QED BY <1>1, <1>2, <2>1, AllNumbers
<1>4. ASSUME NEW r \in 1..j PROVE table[<<<<r, p>>, t>>] # None
  <2>1. j - r \in Nat /\ j - r < j /\ j - (j - r) = r
    BY Order
  <2>2. j - r \in T
    BY <1>3, <2>1
  <2> QED BY <2>1, <2>2
<1> QED BY <1>4

LEMMA InvalidatedFacts ==
  ASSUME NEW table \in Cache!Table, NEW graph, NEW roots
  PROVE  LET new == Cache!DependentsDirtied(table, graph, roots) IN
         /\ new \in Cache!Table /\ SameOutputs(table, new)
         /\ \A x \in Cache!Slots :
              Cache!Hit(new, x) <=>
                /\ Cache!Hit(table, x)
                /\ x[1] \notin Cache!Dependents(graph, Cache!Reached(graph, roots))
<1> DEFINE keys == Cache!Dependents(graph, Cache!Reached(graph, roots))
<1>1. Cache!DependentsDirtied(table, graph, roots) = Cache!Dirtied(table, keys)
  BY DEF Cache!DependentsDirtied
<1> HIDE DEF keys
<1>2. /\ Cache!Dirtied(table, keys) \in Cache!Table
      /\ SameOutputs(table, Cache!Dirtied(table, keys))
      /\ \A x \in Cache!Slots : Cache!Hit(Cache!Dirtied(table, keys), x)
                                  <=> Cache!Hit(table, x) /\ x[1] \notin keys
  BY DirtiedFacts
<1> QED BY <1>1, <1>2 DEF keys

\* What was computed from a part that is restored is dirty.
LEMMA RepublishedFacts ==
  ASSUME Shape, NEW parts \in SUBSET Stages
  PROVE  /\ Republished(parts) \in Cache!Table /\ SameOutputs(entries, Republished(parts))
         /\ \A p \in Paths, t \in Texts, j \in Stages :
              LET x == <<<<j, p>>, t>> IN
              Cache!Hit(Republished(parts), x) =>
                Cache!Hit(entries, x) /\ \A r \in parts : j < r
<1> DEFINE roots == {k \in Keys : k[1] \in parts /\ \E t \in Texts : entries[<<k, t>>] # None}
           first == Cache!Dirtied(entries, roots)
           keys == Cache!Dependents(deps, Cache!Reached(deps, roots))
           new == Cache!DependentsDirtied(first, deps, roots)
<1>1. Republished(parts) = new
  BY DEF Republished
<1>2. /\ first \in Cache!Table /\ SameOutputs(entries, first)
      /\ \A x \in Cache!Slots : Cache!Hit(first, x)
                                  <=> Cache!Hit(entries, x) /\ x[1] \notin roots
  <2> HIDE DEF roots
  <2> QED BY DirtiedFacts DEF Shape
<1>3. /\ new \in Cache!Table /\ SameOutputs(first, new)
      /\ \A x \in Cache!Slots : Cache!Hit(new, x)
                                  <=> Cache!Hit(first, x) /\ x[1] \notin keys
  <2> HIDE DEF first, roots
  <2> QED BY <1>2, InvalidatedFacts
<1>4. ASSUME NEW p \in Paths, NEW t \in Texts, NEW j \in Stages,
             Cache!Hit(new, <<<<j, p>>, t>>)
      PROVE  Cache!Hit(entries, <<<<j, p>>, t>>) /\ \A r \in parts : j < r
  <2>1. /\ Cache!Hit(entries, <<<<j, p>>, t>>)
        /\ <<j, p>> \notin roots /\ <<j, p>> \notin keys
    <3>1. <<<<j, p>>, t>> \in Cache!Slots
      BY SlotsOf
    <3> HIDE DEF new, first, keys, roots
    <3> QED BY <1>2, <1>3, <1>4, <3>1
  <2>2. ASSUME NEW r \in parts, ~(j < r) PROVE FALSE
    <3>1. r \in Stages /\ r \in 0..Depth /\ r \in 1..j
      BY <2>2, Order
    <3>2. entries[<<<<j, p>>, t>>] # None
      BY <2>1 DEF Cache!Hit
    <3>3. entries[<<<<r, p>>, t>>] # None
      BY <3>1, <3>2, SupportedDown DEF Shape
    <3>4. <<r, p>> \in roots
      <4>1. <<r, p>> \in Keys
        BY <3>1, SlotsOf
      <4> QED BY <3>3, <4>1
    <3>5. j # r
      BY <2>1, <3>4
    <3>6. j > r
      BY <2>2, <3>1, <3>5, Order
    <3>7. roots \in SUBSET Keys
      OBVIOUS
    <3>8. <<j, p>> \in keys
      <4> HIDE DEF roots
      <4> QED BY <3>1, <3>2, <3>4, <3>6, <3>7, ReachesUp DEF Shape
    <3> QED BY <2>1, <3>8
  <2> QED BY <2>1, <2>2
<1>5. SameOutputs(entries, new)
  <2> HIDE DEF new, first
  <2> QED BY <1>2, <1>3, SameTwice
<1> HIDE DEF new
<1> QED BY <1>1, <1>3, <1>4, <1>5
-----------------------------------------------------------------------------
(* The form of the session and of its checkpoints *)

\* The parts of Shape that are the session's, and those of its checkpoints.
Live == /\ SourcesOK(sources) /\ arenas \in [Stages -> Seq(Slot)]
        /\ entries \in Cache!Table /\ GraphOK(deps) /\ Supported(entries, deps)
Past == /\ lineage \in Nat /\ saved \in Seq(Checkpoint)
        /\ \A n \in DOMAIN saved : Form(saved[n]) /\ saved[n].lineage <= lineage

LEMMA ShapeParts == Shape <=> Live /\ Past /\ matched \in BOOLEAN /\ spent \in Spent
BY DEF Shape, Live, Past

LEMMA ShapeFromParts ==
  ASSUME Live', Past', matched' \in BOOLEAN, spent' \in Spent
  PROVE  Shape'
BY DEF Shape, Live, Past

LEMMA SpendFacts ==
  ASSUME spent \in Spent, NEW what \in {"changes", "restores", "restarts"}, NEW bound,
         Spend(what, bound)
  PROVE  spent' \in Spent
BY DEF Spend, Spent

LEMMA SpentTwice ==
  ASSUME NEW old \in Spent, NEW what \in {"requests", "restores", "probes"}, NEW f \in Nat
  PROVE  [old EXCEPT ![what] = @ + 1, !.failures = @ + f] \in Spent
<1> DEFINE once == [old EXCEPT ![what] = @ + 1]
<1>1. once \in Spent
  BY DEF Spent
<1>2. [old EXCEPT ![what] = @ + 1, !.failures = @ + f] = [once EXCEPT !.failures = @ + f]
  OBVIOUS
<1> HIDE DEF once
<1>3. [once EXCEPT !.failures = @ + f] \in Spent
  BY <1>1 DEF Spent
<1> QED BY <1>2, <1>3

LEMMA PastKept ==
  ASSUME Past, saved' = saved, lineage' \in {lineage, lineage + 1}
  PROVE  Past'
<1>1. \A n \in DOMAIN saved : saved[n].lineage \in Nat
  BY DEF Past, Form, Checkpoint
<1> QED BY <1>1 DEF Past

LEMMA SavedFacts ==
  ASSUME Past, NEW n \in DOMAIN saved
  PROVE  /\ SourcesOK(saved[n].sources) /\ saved[n].arenas \in [Stages -> Seq(Slot)]
         /\ saved[n].entries \in Cache!Table /\ GraphOK(saved[n].deps)
         /\ Supported(saved[n].entries, saved[n].deps)
         /\ saved[n].lineage \in Nat /\ saved[n].lineage <= lineage
BY DEF Past, Form, Checkpoint

\* What is installed from a checkpoint.
LEMMA InstalledLive ==
  ASSUME NEW c, NEW live \in [Stages -> Seq(Slot)], c.arenas \in [Stages -> Seq(Slot)],
         c.entries \in Cache!Table, GraphOK(c.deps), Supported(c.entries, c.deps),
         Installed(c, live)
  PROVE  /\ arenas' \in [Stages -> Seq(Slot)] /\ entries' \in Cache!Table
         /\ SameOutputs(c.entries, entries')
         /\ GraphOK(deps') /\ Supported(entries', deps')
<1> DEFINE allowed == Promotable(Cache!Restored(c.entries),
                                 WithStages(live, c.arenas, Stages), c.sources,
                                 PathsOf(c.sources))
           restored == Cache!Restored(c.entries)
<1>1. /\ arenas' = WithStages(live, c.arenas, Stages) /\ deps' = c.deps
      /\ entries' = Cache!Confirmed(restored, allowed)
  BY DEF Installed
<1>2. restored \in Cache!Table /\ SameOutputs(c.entries, restored)
  BY RestoredFacts
<1> HIDE DEF allowed, restored
<1>3. entries' \in Cache!Table /\ SameOutputs(restored, entries')
  BY <1>1, <1>2, ConfirmedFacts
<1>4. SameOutputs(c.entries, entries')
  BY <1>2, <1>3, SameTwice
<1>5. arenas' \in [Stages -> Seq(Slot)]
  BY <1>1, WithStagesType
<1>6. Supported(entries', c.deps)
  BY <1>4, OutputsKept
<1> QED BY <1>1, <1>3, <1>4, <1>5, <1>6

LEMMA ShapeInit == Init => Shape
<1> SUFFICES ASSUME Init PROVE Shape
  OBVIOUS
<1>1. SourcesOK(sources)
  BY DEF Init, SourcesOK
<1>2. arenas \in [Stages -> Seq(Slot)]
  BY DEF Init
<1>3. entries \in Cache!Table /\ \A x \in Cache!Slots : entries[x] = None
  BY DEF Init, Cache!Cold, Cache!Table
<1>4. GraphOK(deps)
  BY DEF Init, GraphOK
<1>5. Supported(entries, deps)
  BY <1>3, SlotsOf DEF Supported
<1>6. spent \in Spent /\ lineage \in Nat /\ matched \in BOOLEAN
  BY DEF Init, Spent
<1>7. saved \in Seq(Checkpoint) /\ DOMAIN saved = {}
  BY DEF Init
<1> QED BY <1>1, <1>2, <1>3, <1>4, <1>5, <1>6, <1>7 DEF Shape

LEMMA ShapeRequest ==
  ASSUME Shape, NEW p \in Paths, NEW t \in Texts, NEW k \in Requested, Request(p, t, k)
  PROVE  Shape'
<1>1. sources' = SetText(sources, p, t) /\ SourcesOK(sources')
  BY RequestAnswers, SetTextFacts DEF Shape
<1>2. PICK h, m, id, says : Answered(p, t, k, h, m, id, says)
  BY RequestAnswers
<1>3. Live'
  BY <1>1, <1>2, AnsweredSlots, AnsweredTable DEF Live
<1>4. spent' \in Spent
  <2>1. PICK f \in {0, 1} : spent' = [spent EXCEPT !.requests = @ + 1, !.failures = @ + f]
    <3> DEFINE got == {j \in 1..k : Cache!Hit(entries, <<<<j, p>>, t>>)}
    <3>1. PICK n : spent' = [spent EXCEPT !.requests = @ + 1,
                               !.failures = IF n < k THEN @ + 1 ELSE @]
      BY DEF Request
    <3>2. spent.failures + 0 = spent.failures
      BY DEF Shape, Spent
    <3> QED BY <3>1, <3>2
  <2>2. spent \in Spent
    BY DEF Shape
  <2> QED BY <2>1, <2>2, SpentTwice
<1>5. Past' /\ matched' \in BOOLEAN
  <2>1. saved' = saved /\ lineage' = lineage /\ matched' = matched
    BY DEF Request
  <2> QED BY <2>1, ShapeParts, PastKept
<1> QED BY <1>3, <1>4, <1>5, ShapeFromParts

LEMMA ShapeChange ==
  ASSUME Shape, NEW p \in Paths, NEW t \in Texts, Change(p, t)
  PROVE  Shape'
<1>1. /\ sources' = SetText(sources, p, t) /\ arenas' = arenas /\ deps' = deps
      /\ entries' = Cache!DependentsDirtied(entries, deps, {<<Source, p>>})
      /\ saved' = saved /\ lineage' = lineage /\ matched' = matched
  BY DEF Change
<1>2. entries' \in Cache!Table /\ SameOutputs(entries, entries')
  BY <1>1, InvalidatedFacts DEF Shape
<1>3. Live'
  BY <1>1, <1>2, OutputsKept, SetTextFacts DEF Live, Shape
<1>4. spent' \in Spent
  BY SpendFacts DEF Change, Shape
<1> QED BY <1>1, <1>3, <1>4, ShapeParts, PastKept, ShapeFromParts

LEMMA ShapeConfirm ==
  ASSUME Shape, NEW p \in Paths, NEW t \in Texts, Confirm(p, t)
  PROVE  Shape'
<1> DEFINE allowed == Promotable(entries, arenas, SetText(sources, p, t), {p})
<1>1. /\ sources' = SetText(sources, p, t) /\ arenas' = arenas /\ deps' = deps
      /\ entries' = Cache!Confirmed(entries, allowed)
      /\ saved' = saved /\ lineage' = lineage /\ matched' = matched
  BY DEF Confirm
<1> HIDE DEF allowed
<1>2. entries' \in Cache!Table /\ SameOutputs(entries, entries')
  BY <1>1, ConfirmedFacts DEF Shape
<1>3. Live'
  BY <1>1, <1>2, OutputsKept, SetTextFacts DEF Live, Shape
<1>4. spent' \in Spent
  BY SpendFacts DEF Confirm, Shape
<1> QED BY <1>1, <1>3, <1>4, ShapeParts, PastKept, ShapeFromParts

LEMMA ShapeSave == ASSUME Shape, Save PROVE Shape'
<1> DEFINE c == [sources |-> sources, arenas |-> arenas, deps |-> deps,
                 entries |-> entries, lineage |-> lineage]
<1>1. saved' = Append(saved, c) /\ UNCHANGED <<session, spent>>
  BY DEF Save
<1>2. Live' /\ lineage' = lineage /\ matched' = matched /\ spent' = spent
  BY <1>1, ShapeParts DEF Live, session
<1>3. c \in Checkpoint /\ Form(c) /\ c.lineage <= lineage
  BY DEF Shape, Checkpoint, Form, SourcesOK, GraphOK
<1> HIDE DEF c
<1>4. saved' \in Seq(Checkpoint)
  BY <1>1, <1>3 DEF Shape
<1>5. ASSUME NEW n \in DOMAIN saved' PROVE saved'[n] = c \/ (n \in DOMAIN saved /\ saved'[n] = saved[n])
  BY <1>1, <1>3 DEF Shape
<1>6. Past'
  BY <1>2, <1>3, <1>4, <1>5 DEF Shape, Past
<1> QED BY <1>2, <1>6, ShapeParts, ShapeFromParts

LEMMA ShapeRestoreComponents ==
  ASSUME Shape, NEW n \in DOMAIN saved, NEW parts \in SUBSET Stages,
         RestoreComponents(n, parts)
  PROVE  Shape'
<1>1. /\ arenas' = WithStages(arenas, saved[n].arenas, parts)
      /\ entries' = Republished(parts) /\ sources' = sources /\ deps' = deps
      /\ saved' = saved /\ lineage' = lineage /\ matched' \in BOOLEAN
  BY DEF RestoreComponents
<1>2. entries' \in Cache!Table /\ SameOutputs(entries, entries')
  BY <1>1, RepublishedFacts
<1>3. arenas' \in [Stages -> Seq(Slot)]
  <2>1. saved[n].arenas \in [Stages -> Seq(Slot)]
    BY SavedFacts, ShapeParts
  <2> QED BY <1>1, <2>1, WithStagesType DEF Shape
<1>4. Live'
  BY <1>1, <1>2, <1>3, OutputsKept DEF Live, Shape
<1>5. spent' \in Spent
  BY SpendFacts DEF RestoreComponents, Shape
<1> QED BY <1>1, <1>4, <1>5, ShapeParts, PastKept, ShapeFromParts

LEMMA ShapeRestoreQueries ==
  ASSUME Shape, NEW n \in DOMAIN saved, RestoreQueries(n)
  PROVE  Shape'
<1>1. /\ entries' = Cache!Restored(saved[n].entries) /\ deps' = saved[n].deps
      /\ arenas' = arenas /\ sources' = sources
      /\ saved' = saved /\ lineage' = lineage /\ matched' = matched
  BY DEF RestoreQueries
<1>2. /\ saved[n].entries \in Cache!Table /\ GraphOK(saved[n].deps)
      /\ Supported(saved[n].entries, saved[n].deps)
  BY SavedFacts, ShapeParts
<1>3. entries' \in Cache!Table /\ SameOutputs(saved[n].entries, entries')
  BY <1>1, <1>2, RestoredFacts
<1>4. Live'
  <2>1. Supported(entries', deps')
    BY <1>1, <1>2, <1>3, OutputsKept
  <2> QED BY <1>1, <1>2, <1>3, <2>1 DEF Live, Shape
<1>5. spent' \in Spent
  BY SpendFacts DEF RestoreQueries, Shape
<1> QED BY <1>1, <1>4, <1>5, ShapeParts, PastKept, ShapeFromParts

LEMMA ShapeUnitRestore ==
  ASSUME Shape, NEW n \in DOMAIN saved, UnitRestore(n)
  PROVE  Shape'
<1>1. /\ sources' = SourcesFrom(sources, saved[n].sources) /\ Installed(saved[n], arenas)
      /\ saved' = saved /\ lineage' \in {lineage, lineage + 1} /\ matched' = TRUE
  BY DEF UnitRestore
<1>2. SourcesOK(sources')
  <2>1. SourcesOK(saved[n].sources)
    BY SavedFacts, ShapeParts
  <2> QED BY <1>1, <2>1, SourcesFromFacts DEF Shape
<1>3. /\ arenas' \in [Stages -> Seq(Slot)] /\ entries' \in Cache!Table
      /\ GraphOK(deps') /\ Supported(entries', deps')
  BY <1>1, SavedFacts, ShapeParts, InstalledLive DEF Shape
<1>4. spent' \in Spent
  BY SpendFacts DEF UnitRestore, Shape
<1> QED BY <1>1, <1>2, <1>3, <1>4, ShapeParts, PastKept, ShapeFromParts DEF Live

LEMMA ShapeUnitRestoreFails ==
  ASSUME Shape, NEW n \in DOMAIN saved, UnitRestoreFails(n)
  PROVE  Shape'
<1> DEFINE live == Trailing(saved[n].arenas, {Lex, Parse})
           c == [arenas |-> arenas, entries |-> entries, deps |-> deps, sources |-> sources]
<1>1. /\ sources' = SourcesFrom(saved[n].sources, sources)
      /\ saved' = saved /\ lineage' = lineage /\ matched' = matched
      /\ spent' = [spent EXCEPT !.restores = @ + 1, !.failures = @ + 1]
      /\ \/ Installed(c, live)
         \/ arenas' = live /\ UNCHANGED <<entries, deps>>
  BY DEF UnitRestoreFails
<1>2. SourcesOK(sources')
  <2>1. SourcesOK(saved[n].sources)
    BY SavedFacts, ShapeParts
  <2> QED BY <1>1, <2>1, SourcesFromFacts DEF Shape
<1>3. live \in [Stages -> Seq(Slot)]
  <2>1. saved[n].arenas \in [Stages -> Seq(Slot)]
    BY SavedFacts, ShapeParts
  <2> QED BY <2>1, TrailingFacts DEF Shape
<1>4. c.arenas = arenas /\ c.entries = entries /\ c.deps = deps
  OBVIOUS
<1> HIDE DEF live, c
<1>5. /\ arenas' \in [Stages -> Seq(Slot)] /\ entries' \in Cache!Table
      /\ GraphOK(deps') /\ Supported(entries', deps')
  <2>1. CASE Installed(c, live)
    BY <1>3, <1>4, <2>1, InstalledLive DEF Shape
  <2>2. CASE arenas' = live /\ UNCHANGED <<entries, deps>>
    BY <1>3, <2>2 DEF Shape
  <2> QED BY <1>1, <2>1, <2>2
<1>6. spent' \in Spent
  <2>1. spent \in Spent
    BY DEF Shape
  <2> QED BY <1>1, <2>1, SpentTwice
<1> QED BY <1>1, <1>2, <1>5, <1>6, ShapeParts, PastKept, ShapeFromParts DEF Live

LEMMA ShapeValidate ==
  ASSUME Shape, NEW n \in DOMAIN saved, Validate(n)
  PROVE  Shape'
<1> DEFINE new == saved[n].arenas
           all == Trailing(new, {Lex, Parse})
<1>1. /\ sources' = SourcesFrom(saved[n].sources, sources)
      /\ saved' = saved /\ lineage' = lineage /\ matched' = matched
      /\ entries' = entries /\ deps' = deps
      /\ \/ arenas' = Trailing(new, {Lex, Parse, Resolve})
         \/ arenas' = all
         \/ arenas' = [all EXCEPT ![Hir] = new[Hir], ![Resolve] = Overlay(@, new[Resolve])]
  BY DEF Validate
<1>2. SourcesOK(sources')
  <2>1. SourcesOK(saved[n].sources)
    BY SavedFacts, ShapeParts
  <2> QED BY <1>1, <2>1, SourcesFromFacts DEF Shape
<1>3. new \in [Stages -> Seq(Slot)]
  BY SavedFacts, ShapeParts
<1>4. all \in [Stages -> Seq(Slot)] /\ Trailing(new, {Lex, Parse, Resolve}) \in [Stages -> Seq(Slot)]
  BY <1>3, TrailingFacts DEF Shape
<1> HIDE DEF all, new
<1>5. arenas' \in [Stages -> Seq(Slot)]
  <2>1. CASE arenas' = [all EXCEPT ![Hir] = new[Hir], ![Resolve] = Overlay(@, new[Resolve])]
    <3>1. Hir \in Stages /\ Resolve \in Stages /\ Hir # Resolve
      BY Order
    <3>2. new[Hir] \in Seq(Slot) /\ Overlay(all[Resolve], new[Resolve]) \in Seq(Slot)
      BY <1>3, <1>4, <3>1, OverlayFacts
    <3>3. arenas' = [all EXCEPT ![Hir] = new[Hir], ![Resolve] = Overlay(all[Resolve], new[Resolve])]
      BY <2>1, <3>1
    <3> QED BY <1>4, <3>1, <3>2, <3>3
  <2> QED BY <1>1, <1>4, <2>1
<1>6. spent' \in Spent
  <2>1. PICK f \in 0..1 : spent' = [spent EXCEPT !.probes = @ + 1, !.failures = @ + f]
    BY DEF Validate
  <2>2. spent \in Spent
    BY DEF Shape
  <2>3. f \in Nat
    OBVIOUS
  <2> QED BY <2>1, <2>2, <2>3, SpentTwice
<1> QED BY <1>1, <1>2, <1>5, <1>6, ShapeParts, PastKept, ShapeFromParts DEF Live

LEMMA ShapeRestart == ASSUME Shape, Restart PROVE Shape'
<1>1. /\ sources' = <<>> /\ arenas' = [j \in Stages |-> <<>>]
      /\ entries' = Cache!Cold /\ deps' = {}
      /\ lineage' = lineage + 1 /\ matched' = TRUE /\ saved' = saved
  BY DEF Restart
<1>2. SourcesOK(sources') /\ arenas' \in [Stages -> Seq(Slot)] /\ GraphOK(deps')
  BY <1>1 DEF SourcesOK, GraphOK
<1>3. entries' \in Cache!Table /\ \A x \in Cache!Slots : entries'[x] = None
  BY <1>1 DEF Cache!Cold, Cache!Table
<1>4. Supported(entries', deps')
  BY <1>3, SlotsOf DEF Supported
<1>5. spent' \in Spent
  BY SpendFacts DEF Restart, Shape
<1> QED BY <1>1, <1>2, <1>3, <1>4, <1>5, ShapeParts, PastKept, ShapeFromParts DEF Live

LEMMA RecallParts == {{Expand}, {Hir}, {Expand, Hir}} \subseteq SUBSET Stages
BY Order

\* The session and its checkpoints keep their form: every entry and every edge of
\* the graph has those of the stages below it.
THEOREM ShapeHolds == Spec => []Shape
<1>1. ASSUME Shape, [Next]_vars PROVE Shape'
  <2>1. CASE Work
    BY <1>1, <2>1, ShapeRequest, ShapeChange, ShapeConfirm DEF Work
  <2>2. CASE Save
    BY <1>1, <2>2, ShapeSave
  <2>3. CASE Recall
    <3>1. PICK n \in DOMAIN saved :
            \/ RestoreComponents(n, {Expand}) \/ RestoreComponents(n, {Hir})
            \/ RestoreComponents(n, {Expand, Hir})
            \/ RestoreQueries(n) \/ UnitRestore(n) \/ UnitRestoreFails(n) \/ Validate(n)
      BY <2>3 DEF Recall
    <3> QED BY <1>1, <3>1, RecallParts, ShapeRestoreComponents, ShapeRestoreQueries,
               ShapeUnitRestore, ShapeUnitRestoreFails, ShapeValidate
  <2>4. CASE Restart
    BY <1>1, <2>4, ShapeRestart
  <2>5. CASE UNCHANGED vars
    BY <1>1, <2>5 DEF vars, session, Shape
  <2> QED BY <1>1, <2>1, <2>2, <2>3, <2>4, <2>5 DEF Next
<1> QED BY <1>1, ShapeInit, PTL DEF Spec
-----------------------------------------------------------------------------
(* What the slots say *)

LEMMA FitKept ==
  ASSUME NEW ars, NEW new, Continues(ars[Parse], new[Parse]),
         Continues(ars[Resolve], new[Resolve])
  PROVE  /\ \A table : EntriesFit(ars, table) /\ (\A j \in Stable : Continues(ars[j], new[j]))
                         => EntriesFit(new, table)
         /\ TypesFit(ars) /\ new[Ty] = ars[Ty] => TypesFit(new)
         /\ OneProvenance(ars) /\ new[Expand] = ars[Expand] /\ new[Hir] = ars[Hir]
              => OneProvenance(new)
<1>1. ASSUME NEW table, EntriesFit(ars, table), \A j \in Stable : Continues(ars[j], new[j])
      PROVE  EntriesFit(new, table)
  BY <1>1 DEF EntriesFit, Continues
<1>2. ASSUME TypesFit(ars), new[Ty] = ars[Ty] PROVE TypesFit(new)
  BY <1>2 DEF TypesFit, Continues
<1>3. ASSUME OneProvenance(ars), new[Expand] = ars[Expand], new[Hir] = ars[Hir]
      PROVE  OneProvenance(new)
  <2>1. \A e \in DOMAIN ars[Expand] :
          LET y == ars[Expand][e].parent IN
          y \in DOMAIN ars[Parse] /\ y \in DOMAIN new[Parse] /\ new[Parse][y] = ars[Parse][y]
    BY <1>3 DEF OneProvenance, Continues
  <2> QED BY <1>3, <2>1 DEF OneProvenance
<1> QED BY <1>1, <1>2, <1>3

LEMMA KeptSaved ==
  ASSUME Past, \A n \in DOMAIN saved : Kept(saved[n]), saved' = saved,
         \/ lineage' = lineage /\ \A j \in Stable : Continues(arenas[j], arenas'[j])
         \/ lineage' = lineage + 1
  PROVE  (\A n \in DOMAIN saved : Kept(saved[n]))'
<1> SUFFICES ASSUME NEW n \in DOMAIN saved PROVE Kept(saved[n])'
  OBVIOUS
<1>1. saved[n].lineage \in Nat /\ lineage \in Nat /\ saved[n].lineage <= lineage
  BY SavedFacts DEF Past
<1>2. Kept(saved[n]) /\ saved'[n] = saved[n]
  OBVIOUS
<1>3. ASSUME saved[n].lineage = lineage'
      PROVE  \A j \in Stable : Continues(saved[n].arenas[j], arenas'[j])
  BY <1>1, <1>2, <1>3, ContinuesFacts DEF Kept
<1> QED BY <1>2, <1>3 DEF Kept

\* What a request answers says its text, at every stage.
LEMMA AnsweredChain ==
  ASSUME Shape, Content, NEW p \in Paths, NEW t \in Texts, NEW k, NEW h, NEW m, NEW id, NEW says,
         Answered(p, t, k, h, m, id, says), sources' = SetText(sources, p, t)
  PROVE  \E c : Chain(arenas', <<p, t>>, m, c) /\ \A j \in (h + 1)..m : c[j] = id[j]
<1>1. /\ h \in 0..m /\ m \in Stages /\ h \in Nat /\ m \in Nat /\ (h # 0 => h \in Stages)
      /\ \A i \in 1..m : i \in Stages /\ (i # Lex => i - 1 \in 1..m)
      /\ \A i \in 1..h : i \in 1..m
  BY Order DEF Answered
<1>2. \E c0 : /\ h # 0 => Chain(arenas, <<p, t>>, h, c0) /\ c0[h] = id[h]
              /\ says = <<p, t>>
  <2>1. CASE h = 0
    BY <2>1 DEF Answered
  <2>2. CASE h # 0
    <3>1. /\ Cache!Hit(entries, <<<<h, p>>, t>>) /\ h \in Stages
          /\ id[h] = entries[<<<<h, p>>, t>>].output /\ says = SubjectOf(h, id[h])
      BY <1>1, <2>2 DEF Answered
    <3>2. Right(arenas, entries, sources, h, p, t)
      BY <3>1 DEF Content, Faithful
    <3>3. PICK c0 : Chain(arenas, <<p, t>>, h, c0) /\ c0[h] = id[h]
      BY <3>1, <3>2 DEF Right
    <3>4. h \in 1..h
      BY <1>1, <2>2
    <3>5. CASE h # Expand
      BY <3>1, <3>3, <3>4, <3>5 DEF Chain, SubjectOf
    <3>6. CASE h = Expand
      <4>1. Parse \in 1..h /\ Expand - 1 = Parse /\ Expand # Lex /\ Parse # Expand
        BY <3>6, Order
      <4>2. /\ c0[h] \in DOMAIN arenas[Expand] /\ arenas[Expand][c0[h]].parent = c0[Parse]
            /\ c0[Parse] \in DOMAIN arenas[Parse]
            /\ arenas[Parse][c0[Parse]].subject = <<p, t>>
        BY <3>3, <3>4, <3>6, <4>1 DEF Chain
      <4> QED BY <3>1, <3>3, <3>6, <4>2 DEF SubjectOf
    <3> QED BY <3>3, <3>5, <3>6
  <2> QED BY <2>1, <2>2
<1>3. PICK c0 : /\ h # 0 => Chain(arenas, <<p, t>>, h, c0) /\ c0[h] = id[h]
                /\ says = <<p, t>>
  BY <1>2
<1> DEFINE c == [i \in 1..m |-> IF i <= h THEN c0[i] ELSE id[i]]
<1>4. ASSUME NEW i \in 1..m, i <= h
      PROVE  /\ c[i] = c0[i] /\ c[i] \in Nat /\ c[i] \in DOMAIN arenas'[i]
             /\ i # Expand => arenas'[i][c[i]].subject = <<p, t>>
             /\ i # Lex => i - 1 \in 1..m /\ i - 1 <= h /\ arenas'[i][c[i]].parent = c0[i - 1]
  <2>1. i \in 1..h /\ i \in Stages /\ h # 0 /\ (i # Lex => i - 1 \in 1..m /\ i - 1 <= h)
    BY <1>1, <1>4
  <2>2. /\ c0[i] \in Nat /\ c0[i] \in DOMAIN arenas[i]
        /\ i # Expand => arenas[i][c0[i]].subject = <<p, t>>
        /\ i # Lex => arenas[i][c0[i]].parent = c0[i - 1]
    BY <1>3, <2>1 DEF Chain
  <2>3. Continues(arenas[i], arenas'[i])
    BY <2>1, AnsweredSlots
  <2>4. c[i] = c0[i]
    BY <1>4
  <2> HIDE DEF c
  <2> QED BY <2>1, <2>2, <2>3, <2>4 DEF Continues
<1>5. ASSUME NEW i \in 1..m, i > h
      PROVE  /\ c[i] = id[i] /\ c[i] \in Nat /\ c[i] \in DOMAIN arenas'[i]
             /\ i # Expand => arenas'[i][c[i]].subject = <<p, t>>
             /\ i # Lex => i - 1 \in 1..m /\ arenas'[i][c[i]].parent = id[i - 1]
  <2>1. i \in (h + 1)..m /\ (i # Lex => i - 1 \in 1..m)
    BY <1>1, <1>5
  <2>2. c[i] = id[i]
    BY <1>1, <1>5
  <2> HIDE DEF c
  <2> QED BY <1>3, <2>1, <2>2, AnsweredSlots DEF Outputs
<1>6. ASSUME NEW i \in 1..m, i # Lex PROVE i - 1 \in 1..m /\ arenas'[i][c[i]].parent = c[i - 1]
  <2>1. CASE i <= h
    <3>1. i - 1 \in 1..m /\ i - 1 <= h /\ arenas'[i][c[i]].parent = c0[i - 1]
      BY <1>4, <1>6, <2>1
    <3> QED BY <3>1
  <2>2. CASE i > h
    <3>1. i - 1 \in 1..m /\ arenas'[i][c[i]].parent = id[i - 1]
      BY <1>5, <1>6, <2>2
    <3>2. c[i - 1] = id[i - 1]
      <4>1. CASE i - 1 <= h
        <5>1. i - 1 = h /\ h # 0
          BY <1>1, <2>2, <3>1, <4>1
        <5>2. c[i - 1] = c0[i - 1]
          BY <3>1, <4>1
        <5> QED BY <1>3, <5>1, <5>2
      <4>2. CASE ~(i - 1 <= h)
        BY <3>1, <4>2
      <4> QED BY <4>1, <4>2
    <3> QED BY <3>1, <3>2
  <2> QED BY <1>1, <2>1, <2>2
<1>7. \A i \in 1..m : /\ c[i] \in Nat /\ c[i] \in DOMAIN arenas'[i]
                      /\ i # Expand => arenas'[i][c[i]].subject = <<p, t>>
  <2>1. \A i \in 1..m : i <= h \/ i > h
    BY <1>1
  <2> HIDE DEF c
  <2> QED BY <1>4, <1>5, <2>1
<1>8. c \in [1..m -> Nat]
  BY <1>7
<1>9. \A j \in (h + 1)..m : c[j] = id[j]
  BY <1>1
<1> HIDE DEF c
<1>10. Chain(arenas', <<p, t>>, m, c)
  BY <1>6, <1>7, <1>8 DEF Chain
<1> QED BY <1>9, <1>10

LEMMA ContentRequest ==
  ASSUME Shape, Content, NEW p \in Paths, NEW t \in Texts, NEW k \in Requested,
         Request(p, t, k)
  PROVE  Content'
<1>1. sources' = SetText(sources, p, t) /\ SourcesOK(sources)
  BY RequestAnswers DEF Shape
<1>2. PICK h, m, id, says : Answered(p, t, k, h, m, id, says)
  BY RequestAnswers
<1>3. PICK c : Chain(arenas', <<p, t>>, m, c) /\ \A j \in (h + 1)..m : c[j] = id[j]
  BY <1>1, <1>2, AnsweredChain
<1>4. /\ saved' = saved /\ lineage' = lineage /\ matched' = matched
  BY DEF Request
<1>5. /\ m \in Stages /\ h \in 0..m
      /\ \A j \in (h + 1)..m : j \in 1..m /\ j \in Stages /\ (j # Lex => j - 1 \in 1..m)
  BY <1>2, Order DEF Answered
<1>6. /\ \A j \in Stages : Continues(arenas[j], arenas'[j])
      /\ \A j \in Stages : \A y \in DOMAIN arenas'[j] :
           y \in DOMAIN arenas[j] \/ (j \in (h + 1)..m /\ y = id[j])
      /\ \A j \in (h + 1)..m : arenas'[j][id[j]].file = FileOf(sources', p)
  BY <1>1, <1>2, AnsweredSlots
<1>7. \A q \in Paths, u \in Texts, j \in Stages :
        LET x == <<<<j, q>>, u>> IN
        \/ q = p /\ u = t /\ j \in (h + 1)..m
        \/ /\ entries[x] = None <=> entries'[x] = None
           /\ entries[x] # None => entries'[x].output = entries[x].output
           /\ Cache!Hit(entries', x) <=> Cache!Hit(entries, x)
  BY <1>1, <1>2, AnsweredTable
<1>8. \A j \in (h + 1)..m : entries'[<<<<j, p>>, t>>].output = c[j]
  BY <1>1, <1>2, <1>3, AnsweredTable
<1>9. \A j \in 1..m : /\ c[j] \in DOMAIN arenas'[j]
                      /\ j # Expand => arenas'[j][c[j]].subject = <<p, t>>
                      /\ j # Lex => arenas'[j][c[j]].parent = c[j - 1]
  BY <1>3 DEF Chain
<1>10. EntriesFit(arenas', entries')
  <2> SUFFICES ASSUME NEW q \in Paths, NEW u \in Texts, NEW j \in Stable,
                      entries'[<<<<j, q>>, u>>] # None
               PROVE  LET e == entries'[<<<<j, q>>, u>>] IN
                      e.output \in DOMAIN arenas'[j] /\ arenas'[j][e.output].subject = <<q, u>>
    BY DEF EntriesFit
  <2>1. j \in Stages /\ j # Expand
    BY Order
  <2>2. CASE q = p /\ u = t /\ j \in (h + 1)..m
    BY <1>5, <1>8, <1>9, <2>1, <2>2
  <2>3. CASE ~(q = p /\ u = t /\ j \in (h + 1)..m)
    <3>1. /\ entries[<<<<j, q>>, u>>] # None
          /\ entries'[<<<<j, q>>, u>>].output = entries[<<<<j, q>>, u>>].output
      BY <1>7, <2>1, <2>3
    <3>2. LET e == entries[<<<<j, q>>, u>>] IN
          e.output \in DOMAIN arenas[j] /\ arenas[j][e.output].subject = <<q, u>>
      BY <3>1 DEF Content, EntriesFit
    <3> QED BY <1>6, <2>1, <3>1, <3>2 DEF Continues
  <2> QED BY <2>2, <2>3
<1>11. TypesFit(arenas')
  <2> SUFFICES ASSUME NEW y \in DOMAIN arenas'[Ty]
               PROVE  LET r == arenas'[Ty][y].parent IN
                      /\ r \in DOMAIN arenas'[Resolve]
                      /\ arenas'[Ty][y].subject = arenas'[Resolve][r].subject
    BY DEF TypesFit
  <2>1. Ty \in Stages /\ Resolve \in Stages /\ Ty - 1 = Resolve /\ Ty # Lex /\ Ty # Expand
        /\ Resolve # Expand
    BY Order
  <2>2. CASE y \in DOMAIN arenas[Ty]
    <3>1. arenas'[Ty][y] = arenas[Ty][y]
      BY <1>6, <2>1, <2>2 DEF Continues
    <3>2. LET r == arenas[Ty][y].parent IN
          r \in DOMAIN arenas[Resolve] /\ arenas[Ty][y].subject = arenas[Resolve][r].subject
      BY <2>2 DEF Content, TypesFit
    <3> QED BY <1>6, <2>1, <3>1, <3>2 DEF Continues
  <2>3. CASE Ty \in (h + 1)..m /\ y = id[Ty]
    <3>1. y = c[Ty] /\ Ty \in 1..m /\ Resolve \in 1..m
      BY <1>3, <1>5, <2>1, <2>3
    <3> QED BY <1>9, <2>1, <3>1
  <2> QED BY <1>6, <2>1, <2>2, <2>3
<1>12. ASSUME matched PROVE OneProvenance(arenas')
  <2>0. /\ Expand \in Stages /\ Hir \in Stages /\ Parse \in Stages /\ Hir # Expand
        /\ Hir - 1 = Expand /\ Expand - 1 = Parse /\ Hir # Lex /\ Expand # Lex /\ Parse # Expand
    BY Order
  <2>1. ASSUME NEW y \in DOMAIN arenas'[Expand]
        PROVE  arenas'[Expand][y].parent \in DOMAIN arenas'[Parse]
    <3>1. CASE y \in DOMAIN arenas[Expand]
      <4>1. arenas'[Expand][y] = arenas[Expand][y]
        BY <1>6, <2>0, <3>1 DEF Continues
      <4>2. arenas[Expand][y].parent \in DOMAIN arenas[Parse]
        BY <1>12, <3>1 DEF Content, OneProvenance
      <4> QED BY <1>6, <2>0, <4>1, <4>2 DEF Continues
    <3>2. CASE Expand \in (h + 1)..m /\ y = id[Expand]
      <4>1. y = c[Expand] /\ Expand \in 1..m /\ Parse \in 1..m
        BY <1>3, <1>5, <2>0, <3>2
      <4> QED BY <1>9, <2>0, <4>1
    <3> QED BY <1>6, <2>0, <2>1, <3>1, <3>2
  <2>2. ASSUME NEW y \in DOMAIN arenas'[Hir]
        PROVE  LET e == arenas'[Hir][y].parent IN
               /\ e \in DOMAIN arenas'[Expand]
               /\ arenas'[Hir][y].subject = arenas'[Parse][arenas'[Expand][e].parent].subject
    <3>1. CASE y \in DOMAIN arenas[Hir]
      <4> DEFINE e == arenas[Hir][y].parent
      <4>1. arenas'[Hir][y] = arenas[Hir][y]
        BY <1>6, <2>0, <3>1 DEF Continues
      <4>2. /\ e \in DOMAIN arenas[Expand]
            /\ arenas[Hir][y].subject = arenas[Parse][arenas[Expand][e].parent].subject
        BY <1>12, <3>1 DEF Content, OneProvenance
      <4>3. arenas[Expand][e].parent \in DOMAIN arenas[Parse]
        BY <1>12, <4>2 DEF Content, OneProvenance
      <4> HIDE DEF e
      <4>4. e \in DOMAIN arenas'[Expand] /\ arenas'[Expand][e] = arenas[Expand][e]
        BY <1>6, <2>0, <4>2 DEF Continues
      <4>5. arenas'[Parse][arenas[Expand][e].parent] = arenas[Parse][arenas[Expand][e].parent]
        BY <1>6, <2>0, <4>3 DEF Continues
      <4>6. arenas'[Hir][y].parent = e
        BY <4>1 DEF e
      <4> QED BY <4>1, <4>2, <4>4, <4>5, <4>6
    <3>2. CASE Hir \in (h + 1)..m /\ y = id[Hir]
      <4>1. /\ y = c[Hir] /\ Hir \in 1..m /\ Expand \in 1..m
        BY <1>3, <1>5, <2>0, <3>2
      <4>2. Parse \in 1..m
        BY <1>5, <4>1, Order
      <4> QED BY <1>9, <2>0, <4>1, <4>2
    <3> QED BY <1>6, <2>0, <2>2, <3>1, <3>2
  <2> QED BY <2>1, <2>2 DEF OneProvenance
<1>13. Faithful(arenas', entries', sources')
  <2> SUFFICES ASSUME NEW q \in Paths, NEW u \in Texts, NEW j \in Stages,
                      Cache!Hit(entries', <<<<j, q>>, u>>)
               PROVE  Right(arenas', entries', sources', j, q, u)
    BY DEF Faithful
  <2>1. CASE q = p /\ u = t /\ j \in (h + 1)..m
    <3> DEFINE d == [i \in 1..j |-> c[i]]
    <3>1. Chain(arenas', <<p, t>>, j, d)
      BY <1>3, <1>5, <2>1, ChainShort
    <3>2. d[j] = c[j] /\ c[j] = id[j]
      <4>1. j \in 1..j
        BY Order
      <4> QED BY <1>3, <2>1, <4>1
    <3>3. FileOf(sources', p) # 0
      BY <1>1, SetTextFacts
    <3> HIDE DEF d
    <3>4. /\ d[j] = entries'[<<<<j, p>>, t>>].output
          /\ arenas'[j][d[j]].file = FileOf(sources', p)
      BY <1>6, <1>8, <2>1, <3>2
    <3> QED BY <2>1, <3>1, <3>3, <3>4 DEF Right
  <2>2. CASE ~(q = p /\ u = t /\ j \in (h + 1)..m)
    <3>1. /\ Cache!Hit(entries, <<<<j, q>>, u>>)
          /\ entries'[<<<<j, q>>, u>>].output = entries[<<<<j, q>>, u>>].output
      BY <1>7, <2>2 DEF Cache!Hit
    <3>2. Right(arenas, entries, sources, j, q, u)
      BY <3>1 DEF Content, Faithful
    <3>3. FileOf(sources, q) # 0 => FileOf(sources', q) = FileOf(sources, q)
      BY <1>1, SetTextFacts
    <3>4. \A i \in 1..j : Continues(arenas[i], arenas'[i])
      BY <1>6, Order
    <3> QED BY <3>1, <3>2, <3>3, <3>4, RightKept
  <2> QED BY <2>1, <2>2
<1>14. (\A n \in DOMAIN saved : Kept(saved[n]))'
  BY <1>4, <1>6, Order, ShapeParts, KeptSaved DEF Content
<1> QED BY <1>4, <1>10, <1>11, <1>12, <1>13, <1>14 DEF Content

\* An edit, and a document whose restored entries are confirmed.
LEMMA ContentChange ==
  ASSUME Shape, Content, NEW p \in Paths, NEW t \in Texts, Change(p, t)
  PROVE  Content'
<1>1. /\ sources' = SetText(sources, p, t) /\ arenas' = arenas
      /\ entries' = Cache!DependentsDirtied(entries, deps, {<<Source, p>>})
      /\ saved' = saved /\ lineage' = lineage /\ matched' = matched
  BY DEF Change
<1>2. /\ entries' \in Cache!Table /\ SameOutputs(entries, entries')
      /\ \A x \in Cache!Slots : Cache!Hit(entries', x) => Cache!Hit(entries, x)
  BY <1>1, InvalidatedFacts DEF Shape
<1>3. EntriesFit(arenas', entries')
  BY <1>1, <1>2, OutputsKept DEF Content, Shape
<1>4. Faithful(arenas', entries', sources')
  <2>1. \A q \in Paths : FileOf(sources, q) # 0 => FileOf(sources', q) = FileOf(sources, q)
    BY <1>1, SetTextFacts DEF Shape
  <2>2. ASSUME NEW q \in Paths, NEW u \in Texts, NEW j \in Stages,
               Cache!Hit(entries', <<<<j, q>>, u>>)
        PROVE  /\ Cache!Hit(entries, <<<<j, q>>, u>>)
               /\ entries'[<<<<j, q>>, u>>].output = entries[<<<<j, q>>, u>>].output
               /\ \A i \in 1..j : Continues(arenas[i], arenas'[i])
    <3>1. <<<<j, q>>, u>> \in Cache!Slots
      BY SlotsOf
    <3>2. Cache!Hit(entries, <<<<j, q>>, u>>)
      BY <1>2, <2>2, <3>1
    <3>3. entries'[<<<<j, q>>, u>>].output = entries[<<<<j, q>>, u>>].output
      BY <1>2, <3>1, <3>2 DEF SameOutputs, Cache!Hit
    <3>4. \A i \in 1..j : Continues(arenas[i], arenas'[i])
      BY <1>1, ContinuesFacts
    <3> QED BY <3>2, <3>3, <3>4
  <2>3. Faithful(arenas, entries, sources)
    BY DEF Content
  <2> QED BY <2>1, <2>2, <2>3, FaithfulKept
<1>5. (\A n \in DOMAIN saved : Kept(saved[n]))'
  BY <1>1, ContinuesFacts, ShapeParts, KeptSaved DEF Content
<1> QED BY <1>1, <1>3, <1>4, <1>5 DEF Content

LEMMA ContentConfirm ==
  ASSUME Shape, Content, NEW p \in Paths, NEW t \in Texts, Confirm(p, t)
  PROVE  Content'
<1> DEFINE src == SetText(sources, p, t)
<1>1. /\ sources' = src /\ arenas' = arenas /\ matched
      /\ entries' = Cache!Confirmed(entries, Promotable(entries, arenas, src, {p}))
      /\ saved' = saved /\ lineage' = lineage /\ matched' = matched
  BY DEF Confirm
<1>2. SameOutputs(entries, entries')
  BY <1>1, ConfirmedFacts DEF Shape
<1>3. EntriesFit(arenas', entries')
  BY <1>1, <1>2, OutputsKept DEF Content, Shape
<1>4. Faithful(arenas, entries, src)
  <2>1. \A q \in Paths : FileOf(sources, q) # 0 => FileOf(src, q) = FileOf(sources, q)
    BY SetTextFacts DEF Shape
  <2>2. Faithful(arenas, entries, sources)
    BY DEF Content
  <2> HIDE DEF src
  <2> QED BY <2>1, <2>2, ContinuesFacts, FaithfulKept
<1>5. Faithful(arenas', entries', sources')
  <2> HIDE DEF src
  <2> QED BY <1>1, <1>4, ConfirmedFaithful DEF Shape, Content
<1>6. (\A n \in DOMAIN saved : Kept(saved[n]))'
  BY <1>1, ContinuesFacts, ShapeParts, KeptSaved DEF Content
<1> QED BY <1>1, <1>3, <1>5, <1>6 DEF Content

LEMMA ContentSave == ASSUME Shape, Content, Save PROVE Content'
<1> DEFINE c == [sources |-> sources, arenas |-> arenas, deps |-> deps,
                 entries |-> entries, lineage |-> lineage]
<1>1. saved' = Append(saved, c) /\ UNCHANGED <<session, spent>> /\ matched
  BY DEF Save
<1>2. /\ arenas' = arenas /\ entries' = entries /\ sources' = sources
      /\ lineage' = lineage /\ matched' = matched
  BY <1>1 DEF session
<1>3. c \in Checkpoint
  BY DEF Shape, Checkpoint, SourcesOK, GraphOK
<1>4. Kept(c)
  BY ContinuesFacts, <1>1 DEF Content, Kept
<1> HIDE DEF c
<1>5. ASSUME NEW n \in DOMAIN saved'
      PROVE  saved'[n] = c \/ (n \in DOMAIN saved /\ saved'[n] = saved[n])
  BY <1>1, <1>3 DEF Shape
<1>6. \A n \in DOMAIN saved' : Kept(saved'[n])
  BY <1>4, <1>5 DEF Content
<1>7. (\A n \in DOMAIN saved : Kept(saved[n]))'
  BY <1>2, <1>6 DEF Kept
<1> QED BY <1>2, <1>7 DEF Content

LEMMA ContentRestoreComponents ==
  ASSUME Shape, Content, NEW n \in DOMAIN saved, NEW parts \in SUBSET {Expand, Hir},
         RestoreComponents(n, parts)
  PROVE  Content'
<1>1. /\ arenas' = WithStages(arenas, saved[n].arenas, parts)
      /\ entries' = Republished(parts) /\ sources' = sources
      /\ saved' = saved /\ lineage' = lineage
      /\ matched' = (parts = {Expand, Hir} /\ saved[n].lineage = lineage)
  BY DEF RestoreComponents
<1>2. /\ parts \in SUBSET Stages /\ Parse \notin parts /\ Resolve \notin parts /\ Ty \notin parts
      /\ \A j \in Stable : j \notin parts
      /\ {Parse, Expand, Hir, Resolve, Ty} \subseteq Stages
      /\ Expand \in Replaced /\ Hir \in Replaced /\ Parse \in Stable /\ Resolve \in Stable
      /\ Stable \subseteq Stages
  BY Order DEF Replaced
<1>3. saved[n].arenas \in [Stages -> Seq(Slot)] /\ Kept(saved[n])
  BY SavedFacts, ShapeParts DEF Content
<1>4. \A j \in Stages : /\ j \notin parts => arenas'[j] = arenas[j]
                        /\ j \in parts => arenas'[j] = saved[n].arenas[j]
  <2>1. \A j \in parts : j \in Replaced
    BY <1>2
  <2> DEFINE all == WithStages(arenas, saved[n].arenas, parts)
  <2>2. \A j \in Stages :
          /\ j \notin parts => all[j] = arenas[j]
          /\ j \in parts /\ j \in Replaced => all[j] = saved[n].arenas[j]
    BY WithStagesAt
  <2> HIDE DEF all
  <2> QED BY <1>1, <2>1, <2>2 DEF all
<1>5. /\ entries' \in Cache!Table /\ SameOutputs(entries, entries')
      /\ \A p \in Paths, t \in Texts, j \in Stages :
           LET x == <<<<j, p>>, t>> IN
           Cache!Hit(entries', x) => Cache!Hit(entries, x) /\ \A r \in parts : j < r
  BY <1>1, <1>2, RepublishedFacts
<1>6. \A j \in Stages : j \notin parts => Continues(arenas[j], arenas'[j])
  BY <1>4, ContinuesFacts
<1>7. EntriesFit(arenas', entries')
  <2>1. EntriesFit(arenas, entries')
    BY <1>5, OutputsKept DEF Content, Shape
  <2> QED BY <1>2, <1>6, <2>1, FitKept
<1>8. TypesFit(arenas')
  BY <1>2, <1>4, <1>6, FitKept DEF Content
<1>9. ASSUME matched' PROVE OneProvenance(arenas')
  <2>1. parts = {Expand, Hir} /\ saved[n].lineage = lineage
    BY <1>1, <1>9
  <2>2. arenas'[Expand] = saved[n].arenas[Expand] /\ arenas'[Hir] = saved[n].arenas[Hir]
    BY <1>2, <1>4, <2>1
  <2>3. /\ Continues(saved[n].arenas[Parse], arenas'[Parse])
        /\ Continues(saved[n].arenas[Resolve], arenas'[Resolve])
    BY <1>2, <1>3, <1>4, <2>1 DEF Kept
  <2> QED BY <1>3, <2>2, <2>3, FitKept DEF Kept
<1>10. Faithful(arenas', entries', sources')
  <2>1. ASSUME NEW p \in Paths, NEW t \in Texts, NEW j \in Stages,
               Cache!Hit(entries', <<<<j, p>>, t>>)
        PROVE  /\ Cache!Hit(entries, <<<<j, p>>, t>>)
               /\ entries'[<<<<j, p>>, t>>].output = entries[<<<<j, p>>, t>>].output
               /\ \A i \in 1..j : Continues(arenas[i], arenas'[i])
    <3>1. <<<<j, p>>, t>> \in Cache!Slots
      BY SlotsOf
    <3>2. Cache!Hit(entries, <<<<j, p>>, t>>) /\ \A r \in parts : j < r
      BY <1>5, <2>1
    <3>3. entries'[<<<<j, p>>, t>>].output = entries[<<<<j, p>>, t>>].output
      BY <1>5, <3>1, <3>2 DEF SameOutputs, Cache!Hit
    <3>4. \A i \in 1..j : i \in Stages /\ i \notin parts
      BY <1>2, <3>2, Order
    <3> QED BY <1>6, <3>2, <3>3, <3>4
  <2>2. Faithful(arenas, entries, sources)
    BY DEF Content
  <2> QED BY <1>1, <2>1, <2>2, FaithfulKept
<1>11. (\A i \in DOMAIN saved : Kept(saved[i]))'
  BY <1>1, <1>2, <1>6, ShapeParts, KeptSaved DEF Content
<1> QED BY <1>7, <1>8, <1>9, <1>10, <1>11 DEF Content

LEMMA ContentRestoreQueries ==
  ASSUME Shape, Content, NEW n \in DOMAIN saved, RestoreQueries(n)
  PROVE  Content'
<1>1. /\ entries' = Cache!Restored(saved[n].entries) /\ arenas' = arenas
      /\ sources' = sources /\ saved[n].lineage = lineage
      /\ saved' = saved /\ lineage' = lineage /\ matched' = matched
  BY DEF RestoreQueries
<1>2. saved[n].entries \in Cache!Table /\ Kept(saved[n])
  BY SavedFacts, ShapeParts DEF Content
<1>3. /\ SameOutputs(saved[n].entries, entries')
      /\ \A x \in Cache!Slots : ~Cache!Hit(entries', x)
  BY <1>1, <1>2, RestoredFacts
<1>4. EntriesFit(arenas', entries')
  <2>1. EntriesFit(saved[n].arenas, entries')
    BY <1>2, <1>3, OutputsKept DEF Kept
  <2>2. \A j \in Stable : Continues(saved[n].arenas[j], arenas'[j])
    BY <1>1, <1>2 DEF Kept
  <2> QED BY <2>1, <2>2, Order, FitKept
<1>5. Faithful(arenas', entries', sources')
  BY <1>3, SlotsOf DEF Faithful
<1>6. (\A i \in DOMAIN saved : Kept(saved[i]))'
  BY <1>1, ContinuesFacts, ShapeParts, KeptSaved DEF Content
<1> QED BY <1>1, <1>4, <1>5, <1>6 DEF Content

\* What is installed from a checkpoint whose slots continue is what it was.
LEMMA InstalledContent ==
  ASSUME NEW c, NEW live \in [Stages -> Seq(Slot)], c.arenas \in [Stages -> Seq(Slot)],
         c.entries \in Cache!Table, EntriesFit(c.arenas, c.entries), TypesFit(c.arenas),
         OneProvenance(c.arenas), Installed(c, live)
  PROVE  /\ \A j \in Stages : /\ j \in Replaced => arenas'[j] = c.arenas[j]
                              /\ j \notin Replaced => arenas'[j] = Overlay(live[j], c.arenas[j])
                              /\ Continues(c.arenas[j], arenas'[j])
         /\ EntriesFit(arenas', entries') /\ TypesFit(arenas') /\ OneProvenance(arenas')
         /\ Faithful(arenas', entries', c.sources)
<1> DEFINE all == WithStages(live, c.arenas, Stages)
           restored == Cache!Restored(c.entries)
<1>1. /\ arenas' = all
      /\ entries' = Cache!Confirmed(restored, Promotable(restored, all, c.sources,
                                                          PathsOf(c.sources)))
  BY DEF Installed
<1>2. ASSUME NEW j \in Stages
      PROVE  /\ j \in Replaced => all[j] = c.arenas[j]
             /\ j \notin Replaced => all[j] = Overlay(live[j], c.arenas[j])
  BY WithStagesAt
<1> HIDE DEF all
<1>3. ASSUME NEW j \in Stages PROVE Continues(c.arenas[j], all[j])
  <2>1. CASE j \in Replaced
    BY <1>2, <2>1, ContinuesFacts
  <2>2. CASE j \notin Replaced
    BY <1>2, <2>2, OverlayFacts
  <2> QED BY <2>1, <2>2
<1>4. /\ restored \in Cache!Table /\ SameOutputs(c.entries, restored)
      /\ \A x \in Cache!Slots : ~Cache!Hit(restored, x)
  BY RestoredFacts
<1> HIDE DEF restored
<1>5. EntriesFit(all, restored)
  <2>1. EntriesFit(c.arenas, restored)
    BY <1>4, OutputsKept
  <2> QED BY <1>3, <2>1, Order, FitKept
<1>6. TypesFit(all) /\ OneProvenance(all)
  <2>1. all[Expand] = c.arenas[Expand] /\ all[Hir] = c.arenas[Hir] /\ all[Ty] = c.arenas[Ty]
    BY <1>2, Order DEF Replaced
  <2>2. Continues(c.arenas[Parse], all[Parse]) /\ Continues(c.arenas[Resolve], all[Resolve])
    BY <1>3, Order
  <2> QED BY <2>1, <2>2, FitKept
<1>7. Faithful(all, restored, c.sources)
  BY <1>4, SlotsOf DEF Faithful
<1>8. Faithful(all, entries', c.sources)
  BY <1>1, <1>4, <1>5, <1>6, <1>7, ConfirmedFaithful
<1>9. EntriesFit(all, entries')
  <2>1. SameOutputs(restored, entries')
    BY <1>1, <1>4, ConfirmedFacts
  <2> QED BY <1>4, <1>5, <2>1, OutputsKept
<1> QED BY <1>1, <1>2, <1>3, <1>6, <1>8, <1>9

LEMMA ContentUnitRestore ==
  ASSUME Shape, Content, NEW n \in DOMAIN saved, UnitRestore(n)
  PROVE  Content'
<1>1. /\ sources' = SourcesFrom(sources, saved[n].sources) /\ Installed(saved[n], arenas)
      /\ saved' = saved /\ matched' = TRUE
      /\ lineage' = IF saved[n].lineage = lineage THEN lineage ELSE lineage + 1
  BY DEF UnitRestore
<1>2. /\ saved[n].arenas \in [Stages -> Seq(Slot)] /\ saved[n].entries \in Cache!Table
      /\ SourcesOK(saved[n].sources) /\ Kept(saved[n])
  BY SavedFacts, ShapeParts DEF Content
<1>3. /\ \A j \in Stages : j \notin Replaced
             => arenas'[j] = Overlay(arenas[j], saved[n].arenas[j])
      /\ EntriesFit(arenas', entries') /\ TypesFit(arenas') /\ OneProvenance(arenas')
      /\ Faithful(arenas', entries', saved[n].sources)
  BY <1>1, <1>2, InstalledContent DEF Kept, Shape
<1>4. Faithful(arenas', entries', sources')
  <2>1. \A p \in Paths : FileOf(sources', p) = FileOf(saved[n].sources, p)
    BY <1>1, <1>2, SourcesFromFacts DEF Shape
  <2> QED BY <1>3, <2>1, ContinuesFacts, FaithfulKept
<1>5. (\A i \in DOMAIN saved : Kept(saved[i]))'
  <2>1. CASE saved[n].lineage = lineage
    <3>1. ASSUME NEW j \in Stable PROVE Continues(arenas[j], arenas'[j])
      <4>1. j \in Stages /\ j \notin Replaced
        BY DEF Stable
      <4>2. Continues(saved[n].arenas[j], arenas[j])
        BY <1>2, <2>1 DEF Kept
      <4> QED BY <1>2, <1>3, <4>1, <4>2, OverlayFacts DEF Shape
    <3> QED BY <1>1, <2>1, <3>1, ShapeParts, KeptSaved DEF Content
  <2>2. CASE saved[n].lineage # lineage
    BY <1>1, <2>2, ShapeParts, KeptSaved DEF Content
  <2> QED BY <2>1, <2>2
<1> QED BY <1>1, <1>3, <1>4, <1>5 DEF Content

LEMMA ContentUnitRestoreFails ==
  ASSUME Shape, Content, NEW n \in DOMAIN saved, UnitRestoreFails(n)
  PROVE  Content'
<1> DEFINE live == Trailing(saved[n].arenas, {Lex, Parse})
           c == [arenas |-> arenas, entries |-> entries, deps |-> deps, sources |-> sources]
<1>1. /\ sources' = SourcesFrom(saved[n].sources, sources) /\ matched
      /\ saved' = saved /\ lineage' = lineage /\ matched' = matched
      /\ \/ Installed(c, live)
         \/ arenas' = live /\ UNCHANGED <<entries, deps>>
  BY DEF UnitRestoreFails
<1>2. /\ live \in [Stages -> Seq(Slot)]
      /\ \A j \in Stages : Continues(arenas[j], live[j])
      /\ \A j \in Stages : j \in Replaced => live[j] = arenas[j]
  <2>1. saved[n].arenas \in [Stages -> Seq(Slot)] /\ arenas \in [Stages -> Seq(Slot)]
    BY SavedFacts, ShapeParts DEF Shape
  <2> QED BY <2>1, TrailingFacts
<1>3. c.arenas = arenas /\ c.entries = entries /\ c.sources = sources
  OBVIOUS
<1> HIDE DEF live, c
<1>4. \A p \in Paths : FileOf(sources', p) = FileOf(sources, p)
  <2>1. SourcesOK(saved[n].sources)
    BY SavedFacts, ShapeParts
  <2> QED BY <1>1, <2>1, SourcesFromFacts DEF Shape
<1>5. /\ \A j \in Stages : Continues(arenas[j], arenas'[j])
      /\ EntriesFit(arenas', entries') /\ TypesFit(arenas') /\ OneProvenance(arenas')
      /\ Faithful(arenas', entries', sources)
  <2>1. CASE Installed(c, live)
    BY <1>1, <1>2, <1>3, <2>1, InstalledContent DEF Content, Shape
  <2>2. CASE arenas' = live /\ UNCHANGED <<entries, deps>>
    <3>1. \A j \in Stages : Continues(arenas[j], arenas'[j])
      BY <1>2, <2>2
    <3>2. /\ arenas'[Expand] = arenas[Expand] /\ arenas'[Hir] = arenas[Hir]
          /\ arenas'[Ty] = arenas[Ty]
      BY <1>2, <2>2, Order DEF Replaced
    <3>3. EntriesFit(arenas', entries') /\ TypesFit(arenas') /\ OneProvenance(arenas')
      BY <1>1, <2>2, <3>1, <3>2, Order, FitKept DEF Content
    <3>4. \A j \in Stages : \A i \in 1..j : Continues(arenas[i], arenas'[i])
      BY <3>1, Order
    <3>5. Faithful(arenas, entries, sources) /\ entries' = entries
      BY <2>2 DEF Content
    <3>6. Faithful(arenas', entries', sources)
      BY <3>4, <3>5, FaithfulKept
    <3> QED BY <3>1, <3>3, <3>6
  <2> QED BY <1>1, <2>1, <2>2
<1>6. Faithful(arenas', entries', sources')
  BY <1>4, <1>5, ContinuesFacts, FaithfulKept
<1>7. (\A i \in DOMAIN saved : Kept(saved[i]))'
  BY <1>1, <1>5, Order, ShapeParts, KeptSaved DEF Content
<1> QED BY <1>1, <1>5, <1>6, <1>7 DEF Content

\* No probe is made where a roll-back may fail, as in the runs.
Careful == RollbackFails => MaxProbes = 0

LEMMA ValidateContinues ==
  ASSUME Careful, Shape, NEW n \in DOMAIN saved, Validate(n)
  PROVE  /\ arenas' \in [Stages -> Seq(Slot)]
         /\ \A j \in Stages : Continues(arenas[j], arenas'[j])
         /\ \A j \in Stages : j \in Replaced => arenas'[j] = arenas[j]
<1>1. ~RollbackFails
  <2>1. spent.probes < MaxProbes /\ spent.probes \in Nat
    BY DEF Validate, Shape, Spent
  <2> QED BY <2>1 DEF Careful
<1>2. \/ arenas' = Trailing(saved[n].arenas, {Lex, Parse, Resolve})
      \/ arenas' = Trailing(saved[n].arenas, {Lex, Parse})
  BY <1>1 DEF Validate
<1>3. saved[n].arenas \in [Stages -> Seq(Slot)] /\ arenas \in [Stages -> Seq(Slot)]
  BY SavedFacts, ShapeParts DEF Shape
<1>4. ASSUME NEW stages, arenas' = Trailing(saved[n].arenas, stages)
      PROVE  /\ arenas' \in [Stages -> Seq(Slot)]
             /\ \A j \in Stages : Continues(arenas[j], arenas'[j])
             /\ \A j \in Stages : j \in Replaced => arenas'[j] = arenas[j]
  BY <1>3, <1>4, TrailingFacts
<1> QED BY <1>2, <1>4

LEMMA ContentValidate ==
  ASSUME Careful, Shape, Content, NEW n \in DOMAIN saved, Validate(n)
  PROVE  Content'
<1>1. /\ sources' = SourcesFrom(saved[n].sources, sources)
      /\ saved' = saved /\ lineage' = lineage /\ matched' = matched
      /\ entries' = entries /\ deps' = deps
  BY DEF Validate
<1>2. /\ \A j \in Stages : Continues(arenas[j], arenas'[j])
      /\ \A j \in Stages : j \in Replaced => arenas'[j] = arenas[j]
  BY ValidateContinues
<1>3. /\ arenas'[Expand] = arenas[Expand] /\ arenas'[Hir] = arenas[Hir]
      /\ arenas'[Ty] = arenas[Ty]
  BY <1>2, Order DEF Replaced
<1>4. EntriesFit(arenas', entries') /\ TypesFit(arenas')
      /\ (matched => OneProvenance(arenas'))
  BY <1>1, <1>2, <1>3, Order, FitKept DEF Content
<1>5. Faithful(arenas', entries', sources')
  <2>1. \A p \in Paths : FileOf(sources', p) = FileOf(sources, p)
    <3>1. SourcesOK(saved[n].sources)
      BY SavedFacts, ShapeParts
    <3> QED BY <1>1, <3>1, SourcesFromFacts DEF Shape
  <2>2. \A j \in Stages : \A i \in 1..j : Continues(arenas[i], arenas'[i])
    BY <1>2, Order
  <2>3. Faithful(arenas, entries, sources)
    BY DEF Content
  <2> QED BY <1>1, <2>1, <2>2, <2>3, FaithfulKept
<1>6. (\A i \in DOMAIN saved : Kept(saved[i]))'
  BY <1>1, <1>2, Order, ShapeParts, KeptSaved DEF Content
<1> QED BY <1>1, <1>4, <1>5, <1>6 DEF Content

\* A session without slots and entries.
LEMMA ContentEmpty ==
  ASSUME NEW ars, ars = [j \in Stages |-> <<>>], NEW src
  PROVE  /\ EntriesFit(ars, Cache!Cold) /\ TypesFit(ars) /\ OneProvenance(ars)
         /\ Faithful(ars, Cache!Cold, src)
<1>1. \A x \in Cache!Slots : Cache!Cold[x] = None
  BY DEF Cache!Cold
<1>2. EntriesFit(ars, Cache!Cold)
  BY <1>1, SlotsOf, Order DEF EntriesFit
<1>3. TypesFit(ars) /\ OneProvenance(ars)
  BY Order DEF TypesFit, OneProvenance
<1>4. Faithful(ars, Cache!Cold, src)
  BY <1>1, SlotsOf DEF Faithful, Cache!Hit
<1> QED BY <1>2, <1>3, <1>4

\* Where no roll-back fails inside a validation, what the entries name is
\* computed from what the entries below them name, here and in every checkpoint
\* that a client may still combine with the session.
THEOREM ContentHolds == Careful /\ Spec => []Content
<1> SUFFICES ASSUME Careful PROVE Spec => []Content
  OBVIOUS
<1>1. Init => Content
  <2> SUFFICES ASSUME Init PROVE Content
    OBVIOUS
  <2>1. arenas = [j \in Stages |-> <<>>] /\ entries = Cache!Cold /\ DOMAIN saved = {}
    BY DEF Init
  <2> QED BY <2>1, ContentEmpty DEF Content
<1>2. ASSUME Shape, Content, [Next]_vars PROVE Content'
  <2>1. CASE Work
    BY <1>2, <2>1, ContentRequest, ContentChange, ContentConfirm DEF Work
  <2>2. CASE Save
    BY <1>2, <2>2, ContentSave
  <2>3. CASE Recall
    <3>1. PICK n \in DOMAIN saved :
            \/ RestoreComponents(n, {Expand}) \/ RestoreComponents(n, {Hir})
            \/ RestoreComponents(n, {Expand, Hir})
            \/ RestoreQueries(n) \/ UnitRestore(n) \/ UnitRestoreFails(n) \/ Validate(n)
      BY <2>3 DEF Recall
    <3>2. {{Expand}, {Hir}, {Expand, Hir}} \subseteq SUBSET {Expand, Hir}
      OBVIOUS
    <3> QED BY <1>2, <3>1, <3>2, ContentRestoreComponents, ContentRestoreQueries,
               ContentUnitRestore, ContentUnitRestoreFails, ContentValidate
  <2>4. CASE Restart
    <3>1. /\ arenas' = [j \in Stages |-> <<>>] /\ entries' = Cache!Cold
          /\ lineage' = lineage + 1 /\ saved' = saved
      BY <2>4 DEF Restart
    <3>2. (\A n \in DOMAIN saved : Kept(saved[n]))'
      BY <1>2, <3>1, ShapeParts, KeptSaved DEF Content
    <3> QED BY <3>1, <3>2, ContentEmpty DEF Content
  <2>5. CASE UNCHANGED vars
    BY <1>2, <2>5 DEF vars, session, Content, Kept
  <2> QED BY <1>2, <2>1, <2>2, <2>3, <2>4, <2>5 DEF Next
<1> QED BY <1>1, <1>2, ShapeHolds, PTL DEF Spec
-----------------------------------------------------------------------------
(* Following a slot down to its stream *)

\* What Traced says of stage j, from what it says of the stage before.
TraceStep(below, j, x) ==
  [i \in Nat |-> \/ j = Source
                 \/ /\ SubjectOf(j, i) = x
                    /\ below[arenas[j][i].parent]]
TracedTo(f, n, x) == f = [j \in 0..n |-> TraceStep(f[j - 1], j, x)]

LEMMA TraceAt ==
  ASSUME NEW n \in Nat, NEW x, NEW f, TracedTo(f, n, x), NEW j \in 0..n
  PROVE  f[j] = TraceStep(f[j - 1], j, x)
<1> DEFINE h == [i \in 0..n |-> TraceStep(f[i - 1], i, x)]
<1>1. f = h
  BY DEF TracedTo
<1>2. h[j] = TraceStep(f[j - 1], j, x)
  OBVIOUS
<1> HIDE DEF h
<1> QED BY <1>1, <1>2

LEMMA TraceExists == ASSUME NEW x PROVE \A n \in Nat : \E f : TracedTo(f, n, x)
<1> DEFINE T == {n \in Nat : \E f : TracedTo(f, n, x)}
<1>0. ASSUME NEW f, NEW g PROVE TraceStep(f, 0, x) = TraceStep(g, 0, x)
  BY DEF TraceStep, Source
<1>1. 0 \in T
  <2> DEFINE g == [j \in 0..0 |-> TraceStep(x, 0, x)]
  <2>1. \A j \in 0..0 : TraceStep(g[j - 1], j, x) = TraceStep(x, 0, x)
    BY <1>0
  <2>2. g = [j \in 0..0 |-> TraceStep(g[j - 1], j, x)]
    <3> DEFINE h == [j \in 0..0 |-> TraceStep(g[j - 1], j, x)]
    <3>1. \A j \in 0..0 : g[j] = h[j]
      BY <2>1
    <3> QED BY <3>1
  <2>3. TracedTo(g, 0, x)
    BY <2>2 DEF TracedTo
  <2> QED BY <2>3
<1>2. ASSUME NEW n \in T PROVE n + 1 \in T
  <2>1. n \in Nat
    OBVIOUS
  <2>2. PICK f : TracedTo(f, n, x)
    BY <1>2
  <2> DEFINE e == [j \in 0..(n + 1) |-> IF j = n + 1 THEN TraceStep(f[n], n + 1, x) ELSE f[j]]
  <2>3. ASSUME NEW j \in 0..(n + 1) PROVE e[j] = TraceStep(e[j - 1], j, x)
    <3>1. CASE j = n + 1
      <4>1. e[j - 1] = f[n]
        BY <2>1, <3>1
      <4> QED BY <2>1, <3>1, <4>1
    <3>2. CASE j # n + 1
      <4>1. j \in 0..n /\ e[j] = f[j] /\ (j # 0 => e[j - 1] = f[j - 1])
        BY <2>1, <3>2
      <4>2. f[j] = TraceStep(f[j - 1], j, x)
        BY <2>1, <2>2, <4>1, TraceAt
      <4> HIDE DEF e
      <4>3. CASE j = 0
        BY <1>0, <4>1, <4>2, <4>3
      <4>4. CASE j # 0
        BY <4>1, <4>2, <4>4
      <4> QED BY <4>3, <4>4
    <3> QED BY <3>1, <3>2
  <2>4. e = [j \in 0..(n + 1) |-> TraceStep(e[j - 1], j, x)]
    <3> DEFINE h == [j \in 0..(n + 1) |-> TraceStep(e[j - 1], j, x)]
    <3>1. \A j \in 0..(n + 1) : e[j] = h[j]
      BY <2>3
    <3> QED BY <3>1
  <2>5. TracedTo(e, n + 1, x)
    BY <2>4 DEF TracedTo
  <2> QED BY <2>1, <2>5
<1>3. T = Nat
  <2> HIDE DEF T
  <2>1. T \in SUBSET Nat
    BY DEF T
  <2> QED BY <1>1, <1>2, <2>1, AllNumbers
<1> QED BY <1>3

\* The end of a chain is traced.
LEMMA ChainTraced ==
  ASSUME arenas \in [Stages -> Seq(Slot)], NEW x \in Paths \X Texts, NEW j \in Stages,
         NEW c, Chain(arenas, x, j, c)
  PROVE  Traced(x, j, c[j])
<1> DEFINE body(f) == [i \in 0..Depth |->
                         [y \in Nat |-> \/ i = Source
                                        \/ /\ SubjectOf(i, y) = x
                                           /\ f[i - 1][arenas[i][y].parent]]]
           sound == CHOOSE f : f = body(f)
<1>1. Traced(x, j, c[j]) = sound[j][c[j]]
  BY DEF Traced
<1>2. \A f : f = body(f) <=> TracedTo(f, Depth, x)
  BY DEF TracedTo, TraceStep
<1>3. TracedTo(sound, Depth, x)
  <2>1. \E f : TracedTo(f, Depth, x)
    BY Order, TraceExists
  <2> HIDE DEF body
  <2> QED BY <1>2, <2>1
<1> HIDE DEF sound
<1>4. \A i \in 0..Depth : sound[i] = TraceStep(sound[i - 1], i, x)
  BY <1>3, Order, TraceAt
<1>5. \A i \in 1..j : /\ i \in Stages /\ i \in 0..Depth /\ c[i] \in Nat
                      /\ c[i] \in DOMAIN arenas[i] /\ arenas[i][c[i]].parent \in Nat
                      /\ i # Lex => i - 1 \in 1..j /\ arenas[i][c[i]].parent = c[i - 1]
  <2> SUFFICES ASSUME NEW i \in 1..j
               PROVE  /\ i \in Stages /\ i \in 0..Depth /\ c[i] \in Nat
                      /\ c[i] \in DOMAIN arenas[i] /\ arenas[i][c[i]].parent \in Nat
                      /\ i # Lex => i - 1 \in 1..j /\ arenas[i][c[i]].parent = c[i - 1]
    OBVIOUS
  <2>1. i \in Stages /\ i \in 0..Depth /\ (i # Lex => i - 1 \in 1..j)
    BY Order
  <2>2. c[i] \in Nat /\ c[i] \in DOMAIN arenas[i]
        /\ (i # Lex => arenas[i][c[i]].parent = c[i - 1])
    BY DEF Chain
  <2>3. arenas[i][c[i]] \in Slot
    BY <2>1, <2>2
  <2> QED BY <2>1, <2>2, <2>3 DEF Slot
<1>6. ASSUME NEW i \in 1..j PROVE SubjectOf(i, c[i]) = x
  <2>1. CASE i # Expand
    BY <1>5, <2>1 DEF Chain, SubjectOf
  <2>2. CASE i = Expand
    <3>1. Parse \in 1..j /\ arenas[Expand][c[Expand]].parent = c[Parse]
      <4>1. i # Lex /\ i - 1 = Parse
        BY <2>2, Order
      <4> QED BY <1>5, <2>2, <4>1
    <3>2. c[Parse] \in DOMAIN arenas[Parse] /\ arenas[Parse][c[Parse]].subject = x
      BY <3>1, Order DEF Chain
    <3> QED BY <1>5, <2>2, <3>1, <3>2 DEF SubjectOf
  <2> QED BY <2>1, <2>2
<1> DEFINE T == {n \in Nat : n \in 1..j => sound[n][c[n]]}
<1>7. 0 \in T
  OBVIOUS
<1>8. ASSUME NEW n \in T PROVE n + 1 \in T
  <2>0. n \in Nat /\ n + 1 \in Nat /\ n + 1 # Source
    BY DEF Source
  <2> SUFFICES ASSUME n + 1 \in 1..j PROVE sound[n + 1][c[n + 1]]
    BY <2>0
  <2> DEFINE i == n + 1
  <2>1. i \in 1..j /\ i - 1 = n /\ i # Source /\ n \in 0..Depth
    BY <1>5, <2>0, Order
  <2>2. sound[n][arenas[i][c[i]].parent]
    <3>1. CASE n = 0
      <4>1. sound[n] = TraceStep(sound[n - 1], n, x)
        BY <1>4, <2>1
      <4>2. arenas[i][c[i]].parent \in Nat
        BY <1>5, <2>1
      <4> HIDE DEF i
      <4> QED BY <3>1, <4>1, <4>2 DEF TraceStep, Source
    <3>2. CASE n # 0
      <4>1. i # Lex
        BY <2>0, <3>2, Order
      <4>2. n \in 1..j /\ arenas[i][c[i]].parent = c[n]
        BY <1>5, <2>1, <4>1
      <4> QED BY <4>2
    <3> QED BY <3>1, <3>2
  <2> HIDE DEF i
  <2>3. sound[i] = TraceStep(sound[n], i, x)
    BY <1>4, <1>5, <2>1
  <2>4. c[i] \in Nat /\ SubjectOf(i, c[i]) = x
    BY <1>5, <1>6, <2>1
  <2>5. TraceStep(sound[n], i, x)[c[i]]
    BY <2>2, <2>4 DEF TraceStep
  <2>6. sound[i][c[i]]
    BY <2>3, <2>5
  <2> QED BY <2>6 DEF i
<1>9. T = Nat
  <2>1. T \in SUBSET Nat
    OBVIOUS
  <2> HIDE DEF T
  <2> QED BY <1>7, <1>8, <2>1, AllNumbers
<1>10. j \in Nat /\ j \in 1..j
  BY Order
<1>11. sound[j][c[j]]
  BY <1>9, <1>10
<1> QED BY <1>1, <1>11
-----------------------------------------------------------------------------
(* What is promised *)

\* The types of SemanticCache: a path has one file id, and a dependency leads
\* from a stage to the one before it.
THEOREM TypeCorrect == Spec => []TypeOK
<1>1. Shape => TypeOK
  <2> SUFFICES ASSUME Shape PROVE TypeOK
    OBVIOUS
  <2>1. ASSUME NEW i \in DOMAIN sources
        PROVE  \/ sources[i] = Cleared
               \/ /\ sources[i] \in [path : Paths, text : Texts]
                  /\ FileOf(sources, sources[i].path) = i
    <3>1. sources[i] \in File \cup {Cleared}
      BY DEF Shape, SourcesOK
    <3>2. ASSUME sources[i] \in File PROVE FileOf(sources, sources[i].path) = i
      BY <3>2, FileOfFacts DEF Shape, File
    <3> QED BY <3>1, <3>2 DEF File
  <2>2. DOMAIN arenas = Stages /\ \A j \in Stages : \A i \in DOMAIN arenas[j] : arenas[j][i] \in Slot
    BY DEF Shape
  <2>3. /\ DOMAIN entries = Cache!Slots
        /\ \A x \in Cache!Slots : entries[x] \in Cache!Entry \cup {None}
    BY DEF Shape, Cache!Table
  <2>4. \A d \in deps : d[1][2] = d[2][2] /\ d[1][1] = d[2][1] + 1
    BY DEF Shape, GraphOK
  <2>5. lineage \in Nat /\ matched \in BOOLEAN
    BY DEF Shape
  <2> QED BY <2>1, <2>2, <2>3, <2>4, <2>5 DEF TypeOK
<1> QED BY <1>1, ShapeHolds, PTL

\* However often arenas are replaced, slots reused, entries restored, dirtied and
\* confirmed, a cached answer is the analysis of the text it is asked for, down
\* to its stream.
THEOREM AnswersAreFaithful == Careful /\ Spec => []ValidIsFaithful
<1> SUFFICES ASSUME Careful PROVE Spec => []ValidIsFaithful
  OBVIOUS
<1>1. Shape /\ Content => ValidIsFaithful
  <2> SUFFICES ASSUME Shape, Content, NEW p \in Paths, NEW t \in Texts, NEW j \in Stages,
                      Cache!Hit(entries, <<<<j, p>>, t>>)
               PROVE  LET x == <<<<j, p>>, t>> IN
                      /\ Traced(<<p, t>>, j, entries[x].output)
                      /\ arenas[j][entries[x].output].file = FileOf(sources, p)
    BY DEF ValidIsFaithful
  <2>1. Right(arenas, entries, sources, j, p, t)
    BY DEF Content, Faithful
  <2>2. PICK c : /\ Chain(arenas, <<p, t>>, j, c)
                 /\ c[j] = entries[<<<<j, p>>, t>>].output
                 /\ arenas[j][c[j]].file = FileOf(sources, p)
    BY <2>1 DEF Right
  <2>3. Traced(<<p, t>>, j, c[j])
    BY <2>2, ChainTraced DEF Shape
  <2> QED BY <2>2, <2>3
<1> QED BY <1>1, ShapeHolds, ContentHolds, PTL

\* An edit leaves no valid answer about its document at any stage, also when the
\* graph it walks came from a checkpoint.
THEOREM ChangesReach == Spec => ChangeReachesEveryStage
<1>1. Shape /\ [Next]_vars =>
        [\A p \in Paths : (\E t \in Texts : Change(p, t)) =>
           \A j \in Stages, t \in Texts : ~Cache!Hit(entries', <<<<j, p>>, t>>)]_vars
  <2> SUFFICES ASSUME Shape, NEW p \in Paths, NEW u \in Texts, Change(p, u),
                      NEW j \in Stages, NEW t \in Texts,
                      Cache!Hit(entries', <<<<j, p>>, t>>)
               PROVE  FALSE
    OBVIOUS
  <2> DEFINE roots == {<<Source, p>>}
  <2>1. entries' = Cache!DependentsDirtied(entries, deps, roots)
    BY DEF Change
  <2>2. <<Source, p>> \in Keys /\ Source \in 0..Depth /\ j > Source
    BY Order DEF Keys, Source
  <2>3. <<<<j, p>>, t>> \in Cache!Slots
    BY SlotsOf
  <2>4. roots \in SUBSET Keys /\ <<Source, p>> \in roots
    BY <2>2
  <2> HIDE DEF roots
  <2>5. /\ Cache!Hit(entries, <<<<j, p>>, t>>)
        /\ <<j, p>> \notin Cache!Dependents(deps, Cache!Reached(deps, roots))
    BY <2>1, <2>3, InvalidatedFacts DEF Shape
  <2>6. entries[<<<<j, p>>, t>>] # None
    BY <2>5 DEF Cache!Hit
  <2>7. <<j, p>> \in Cache!Dependents(deps, Cache!Reached(deps, roots))
    BY <2>2, <2>4, <2>6, ReachesUp DEF Shape
  <2> QED BY <2>5, <2>7
<1> QED BY <1>1, ShapeHolds, PTL DEF Spec, ChangeReachesEveryStage

\* Validation writes every live slot back.
THEOREM ValidationWritesBack == Careful /\ Spec => ValidationIsPure
<1> SUFFICES ASSUME Careful PROVE Spec => ValidationIsPure
  OBVIOUS
<1>1. Shape /\ [Next]_vars =>
        [\A i \in DOMAIN saved : Validate(i) =>
           \A j \in Stages : \A slot \in DOMAIN arenas[j] :
             slot \in DOMAIN arenas'[j] /\ arenas'[j][slot] = arenas[j][slot]]_vars
  BY ValidateContinues DEF Continues
<1> QED BY <1>1, ShapeHolds, PTL DEF Spec, ValidationIsPure

\* Links stay where slots do.
LEMMA LinkedKept ==
  ASSUME NEW table, NEW table2, SameOutputs(table, table2), NEW ars, NEW ars2,
         \A j \in Stages : Continues(ars[j], ars2[j]),
         NEW j \in Stages, NEW p \in Paths, NEW t \in Texts, NEW file,
         Linked(table, ars, j, p, t, file)
  PROVE  Linked(table2, ars2, j, p, t, file)
<1> SUFFICES ASSUME NEW i \in 1..j
             PROVE  LET e == table2[<<<<i, p>>, t>>] IN
                    /\ e # None
                    /\ e.output \in DOMAIN ars2[i]
                    /\ ars2[i][e.output].file = file
                    /\ i > Lex /\ table2[<<<<i - 1, p>>, t>>] # None =>
                         ars2[i][e.output].parent = table2[<<<<i - 1, p>>, t>>].output
  BY DEF Linked
<1>1. /\ i \in Stages /\ <<<<i, p>>, t>> \in Cache!Slots
      /\ i > Lex => i # Lex /\ <<<<i - 1, p>>, t>> \in Cache!Slots
  <2>1. i \in Stages /\ (i > Lex => i # Lex)
    BY Order
  <2> QED BY <2>1, SlotsOf
<1>2. LET e == table[<<<<i, p>>, t>>] IN
      /\ e # None
      /\ e.output \in DOMAIN ars[i]
      /\ ars[i][e.output].file = file
      /\ i > Lex /\ table[<<<<i - 1, p>>, t>>] # None =>
           ars[i][e.output].parent = table[<<<<i - 1, p>>, t>>].output
  BY DEF Linked
<1>3. /\ table2[<<<<i, p>>, t>>] # None
      /\ table2[<<<<i, p>>, t>>].output = table[<<<<i, p>>, t>>].output
  BY <1>1, <1>2 DEF SameOutputs
<1>4. i > Lex /\ table2[<<<<i - 1, p>>, t>>] # None =>
        /\ table[<<<<i - 1, p>>, t>>] # None
        /\ table2[<<<<i - 1, p>>, t>>].output = table[<<<<i - 1, p>>, t>>].output
  BY <1>1 DEF SameOutputs
<1>5. LET y == table[<<<<i, p>>, t>>].output IN
      y \in DOMAIN ars2[i] /\ ars2[i][y] = ars[i][y]
  BY <1>1, <1>2 DEF Continues
<1> QED BY <1>2, <1>3, <1>4, <1>5

\* What is installed answers all that was linked and valid before.
LEMMA InstalledAnswers ==
  ASSUME NEW c, NEW live \in [Stages -> Seq(Slot)], c.arenas \in [Stages -> Seq(Slot)],
         c.entries \in Cache!Table, SourcesOK(c.sources), Installed(c, live)
  PROVE  StillAnswered(c.entries, c.arenas, c.sources)
<1> DEFINE all == WithStages(live, c.arenas, Stages)
           restored == Cache!Restored(c.entries)
           allowed == Promotable(restored, all, c.sources, PathsOf(c.sources))
<1>1. entries' = Cache!Confirmed(restored, allowed)
  BY DEF Installed
<1>2. ASSUME NEW j \in Stages PROVE Continues(c.arenas[j], all[j])
  <2>1. CASE j \in Replaced
    <3>1. all[j] = c.arenas[j]
      BY <2>1, WithStagesAt
    <3> QED BY <3>1, ContinuesFacts
  <2>2. CASE j \notin Replaced
    <3>1. all[j] = Overlay(live[j], c.arenas[j])
      BY <2>2, WithStagesAt
    <3> QED BY <3>1, OverlayFacts
  <2> QED BY <2>1, <2>2
<1>3. /\ restored \in Cache!Table /\ SameOutputs(c.entries, restored)
      /\ \A x \in Cache!Slots : c.entries[x] # None => restored[x].state = "restored"
  BY RestoredFacts
<1> HIDE DEF all, restored
<1> SUFFICES ASSUME NEW i \in DOMAIN c.sources, NEW j \in Stages, c.sources[i] # Cleared,
                    Cache!Hit(c.entries, <<<<j, c.sources[i].path>>, c.sources[i].text>>),
                    Linked(c.entries, c.arenas, j, c.sources[i].path, c.sources[i].text, i)
             PROVE  Cache!Hit(entries', <<<<j, c.sources[i].path>>, c.sources[i].text>>)
  BY DEF StillAnswered
<1> DEFINE p == c.sources[i].path
           t == c.sources[i].text
           x == <<<<j, p>>, t>>
<1>4. p \in Paths /\ t \in Texts /\ FileOf(c.sources, p) = i /\ i # 0
  <2>1. c.sources[i] \in File
    BY DEF SourcesOK
  <2>2. p \in Paths /\ t \in Texts
    BY <2>1 DEF File
  <2>3. i # 0
    BY DEF SourcesOK
  <2> QED BY <2>2, <2>3, FileOfFacts
<1>5. x \in Cache!Slots
  BY <1>4, SlotsOf
<1>6. Linked(restored, all, j, p, t, i)
  <2> HIDE DEF p, t
  <2>1. Linked(c.entries, c.arenas, j, p, t, i)
    BY DEF p, t
  <2>2. SameOutputs(c.entries, restored) /\ p \in Paths /\ t \in Texts
    BY <1>3, <1>4
  <2>3. \A k \in Stages : Continues(c.arenas[k], all[k])
    BY <1>2
  <2> QED BY <2>1, <2>2, <2>3, LinkedKept
<1>7. x \in allowed
  <2>1. p \in PathsOf(c.sources)
    <3>1. p # None
      BY <1>4, NotNone
    <3> QED BY <3>1 DEF PathsOf
  <2>2. c.sources[FileOf(c.sources, p)].text = t
    BY <1>4
  <2> HIDE DEF p, t
  <2>3. x[1] = <<j, p>> /\ x[2] = t
    OBVIOUS
  <2>4. FileOf(c.sources, p) = i /\ FileOf(c.sources, p) # 0
    BY <1>4
  <2>5. Linked(restored, all, j, p, x[2], FileOf(c.sources, p))
    BY <1>6, <2>3, <2>4
  <2> HIDE DEF x
  <2> QED BY <1>5, <2>1, <2>2, <2>3, <2>4, <2>5 DEF Promotable
<1>8. c.entries[x] # None /\ restored[x] # None /\ restored[x].state = "restored"
  BY <1>3, <1>5 DEF SameOutputs, Cache!Hit
<1> HIDE DEF x, allowed
<1>9. Cache!Hit(entries', x)
  BY <1>1, <1>3, <1>5, <1>7, <1>8, ConfirmedFacts
<1> QED BY <1>9 DEF x, p, t

\* A restored checkpoint answers all that it answered and had linked when it was
\* taken, for every document of it.
THEOREM RestoresAreWarm == Spec => RestoreIsWarm
<1>1. Shape /\ [Next]_vars =>
        [\A i \in DOMAIN saved : UnitRestore(i) =>
           StillAnswered(saved[i].entries, saved[i].arenas, saved[i].sources)]_vars
  <2> SUFFICES ASSUME Shape, NEW i \in DOMAIN saved, UnitRestore(i)
               PROVE  StillAnswered(saved[i].entries, saved[i].arenas, saved[i].sources)
    OBVIOUS
  <2>1. Installed(saved[i], arenas) /\ arenas \in [Stages -> Seq(Slot)]
    BY DEF UnitRestore, Shape
  <2>2. /\ saved[i].arenas \in [Stages -> Seq(Slot)] /\ saved[i].entries \in Cache!Table
        /\ SourcesOK(saved[i].sources)
    BY SavedFacts, ShapeParts
  <2> QED BY <2>1, <2>2, InstalledAnswers
<1> QED BY <1>1, ShapeHolds, PTL DEF Spec, RestoreIsWarm

\* A refused restore keeps all the linked answers about the current texts,
\* whether its roll-back succeeds or not.
THEOREM RefusalsAreHarmless == Spec => RefusalIsHarmless
<1>1. Shape /\ [Next]_vars =>
        [\A i \in DOMAIN saved : UnitRestoreFails(i) =>
           StillAnswered(entries, arenas, sources)]_vars
  <2> SUFFICES ASSUME Shape, NEW i \in DOMAIN saved, UnitRestoreFails(i)
               PROVE  StillAnswered(entries, arenas, sources)
    OBVIOUS
  <2> DEFINE live == Trailing(saved[i].arenas, {Lex, Parse})
             c == [arenas |-> arenas, entries |-> entries, deps |-> deps,
                   sources |-> sources]
  <2>1. Installed(c, live) \/ UNCHANGED <<entries, deps>>
    BY DEF UnitRestoreFails
  <2>2. live \in [Stages -> Seq(Slot)] /\ arenas \in [Stages -> Seq(Slot)]
    <3>1. saved[i].arenas \in [Stages -> Seq(Slot)] /\ arenas \in [Stages -> Seq(Slot)]
      BY SavedFacts, ShapeParts DEF Shape
    <3> QED BY <3>1, TrailingFacts
  <2>3. c.arenas = arenas /\ c.entries = entries /\ c.sources = sources
    OBVIOUS
  <2> HIDE DEF live, c
  <2>4. CASE Installed(c, live)
    BY <2>2, <2>3, <2>4, InstalledAnswers DEF Shape
  <2>5. CASE UNCHANGED <<entries, deps>>
    BY <2>5 DEF StillAnswered
  <2> QED BY <2>1, <2>4, <2>5
<1> QED BY <1>1, ShapeHolds, PTL DEF Spec, RefusalIsHarmless
=============================================================================
