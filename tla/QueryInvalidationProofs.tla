----------------------- MODULE QueryInvalidationProofs -----------------------
(***************************************************************************)
(* What one invalidation reaches, for every dependency graph and table,    *)
(* and that it is what QueryCache computes in one step.                    *)
(***************************************************************************)
EXTENDS QueryInvalidation, FiniteSetTheorems, WellFoundedInduction, TLAPS

Listed == {work[i] : i \in 1..Len(work)}
Walked == {work[i] : i \in 1..(workId - 1)}

\* The list holds what was seen; it is below every closed set that holds the
\* root; what was computed from its walked part is listed and dirty, and so is
\* what was visited of the key in hand.
Inv ==
  /\ TypeOK
  /\ seen = Listed /\ root \in seen
  /\ \A S \in SUBSET Keys : root \in S /\ Closed(S) => seen \subseteq S
  /\ Dependents(graph, Walked) \subseteq seen /\ visited \subseteq seen
  /\ visited # {} => ~Done /\ visited \subseteq Dependents(graph, {Target})
  /\ table = Dirtied(was, Dependents(graph, Walked) \cup visited)
-----------------------------------------------------------------------------
\* The union in Dependents, unfolded.
LEMMA DependentsElements ==
  ASSUME NEW g, NEW S
  PROVE  Dependents(g, S) = {k \in Keys : \E to \in S : <<k, to>> \in g}
<1> DEFINE of(to) == {k \in Keys : <<k, to>> \in g}
<1>1. \A k : k \in UNION {of(to) : to \in S} <=> \E to \in S : k \in of(to)
  <2> HIDE DEF of
  <2> QED OBVIOUS
<1> QED BY <1>1 DEF Dependents

\* Dirtying one set of keys after another is dirtying their union.
LEMMA DirtiedTwice ==
  ASSUME NEW t \in Table, NEW A, NEW B
  PROVE  Dirtied(Dirtied(t, A), B) = Dirtied(t, A \cup B)
<1>1. ASSUME NEW x \in Slots
      PROVE  Dirtied(Dirtied(t, A), B)[x] = Dirtied(t, A \cup B)[x]
  <2>1. t[x] \in Entry \cup {None}
    BY DEF Table
  <2>3. \A K : Dirtied(t, K)[x] = IF x[1] \in K /\ Hit(t, x)
                                  THEN [t[x] EXCEPT !.state = "dirty"] ELSE t[x]
    BY DEF Dirtied
  <2>4. Dirtied(Dirtied(t, A), B)[x]
          = IF x[1] \in B /\ Hit(Dirtied(t, A), x)
            THEN [Dirtied(t, A)[x] EXCEPT !.state = "dirty"] ELSE Dirtied(t, A)[x]
    BY DEF Dirtied
  <2>5. CASE x[1] \in A /\ Hit(t, x)
    <3>1. t[x] \in Entry
      BY <2>1, <2>5 DEF Hit
    <3>2. Dirtied(t, A)[x] = [t[x] EXCEPT !.state = "dirty"]
      BY <2>3, <2>5
    <3>3. Dirtied(t, A)[x].state = "dirty"
      BY <3>1, <3>2 DEF Entry
    <3>4. ~Hit(Dirtied(t, A), x)
      BY <3>3 DEF Hit
    <3> QED BY <2>3, <2>4, <2>5, <3>2, <3>4
  <2>6. CASE ~(x[1] \in A /\ Hit(t, x))
    <3>1. Dirtied(t, A)[x] = t[x]
      BY <2>3, <2>6
    <3>2. Hit(Dirtied(t, A), x) <=> Hit(t, x)
      BY <3>1 DEF Hit
    <3> QED BY <2>3, <2>4, <2>6, <3>1, <3>2
  <2> QED BY <2>5, <2>6
<1> QED BY <1>1 DEF Dirtied

LEMMA DirtiedType ==
  ASSUME NEW t \in Table, NEW K
  PROVE  Dirtied(t, K) \in Table
<1>1. ASSUME NEW x \in Slots PROVE Dirtied(t, K)[x] \in Entry \cup {None}
  <2>1. CASE x[1] \in K /\ Hit(t, x)
    <3>1. t[x] \in Entry
      BY <2>1 DEF Table, Hit
    <3>2. Dirtied(t, K)[x] = [t[x] EXCEPT !.state = "dirty"]
      BY <2>1 DEF Dirtied
    <3> QED BY <3>1, <3>2 DEF Entry
  <2>2. CASE ~(x[1] \in K /\ Hit(t, x))
    BY <2>2 DEF Dirtied, Table
  <2> QED BY <2>1, <2>2
<1> QED BY <1>1 DEF Dirtied, Table
-----------------------------------------------------------------------------
(* Every step keeps the invariant *)

LEMMA InitInv == Init => Inv
<1> SUFFICES ASSUME Init PROVE Inv
  OBVIOUS
<1>1. work = <<root>> /\ Len(work) = 1 /\ work[1] = root /\ work \in Seq(Keys)
  BY DEF Init
<1>2. TypeOK
  BY <1>1 DEF Init, TypeOK
<1>3. Listed = {root} /\ Walked = {}
  BY <1>1 DEF Init, Listed, Walked
<1>4. Dependents(graph, Walked) = {}
  BY <1>3, DependentsElements
<1>5. Dirtied(was, {}) = was
  <2>1. was \in Table
    BY DEF Init
  <2> QED BY <2>1 DEF Dirtied, Table
<1> QED BY <1>2, <1>3, <1>4, <1>5 DEF Init, Inv

\* What an append does to the list.
LEMMA AppendFacts ==
  ASSUME NEW s \in Seq(Keys), NEW k \in Keys
  PROVE  /\ Append(s, k) \in Seq(Keys) /\ Len(Append(s, k)) = Len(s) + 1
         /\ \A i \in 1..Len(s) : Append(s, k)[i] = s[i]
         /\ Append(s, k)[Len(s) + 1] = k
OBVIOUS

LEMMA VisitInv ==
  ASSUME Inv, NEW k \in Keys, Visit(k)
  PROVE  Inv'
<1> USE DEF Inv
<1>1. /\ ~Done /\ <<k, Target>> \in graph /\ k \notin visited
      /\ table' = Dirtied(table, {k})
      /\ work' = IF k \in seen THEN work ELSE Append(work, k)
      /\ seen' = seen \cup {k} /\ visited' = visited \cup {k}
      /\ UNCHANGED <<graph, root, was, workId>>
  BY DEF Visit
<1>2. /\ work \in Seq(Keys) /\ Len(work) \in Nat
      /\ workId \in 1..Len(work) /\ Target \in Keys /\ Target \in seen
  BY <1>1 DEF TypeOK, Done, Target, Listed
<1>3. /\ work' \in Seq(Keys) /\ Len(work') \in Nat /\ Len(work') >= Len(work)
      /\ \A i \in 1..Len(work) : work'[i] = work[i]
  BY <1>1, <1>2, AppendFacts
<1>4. Walked' = Walked /\ Target' = Target /\ ~Done'
  BY <1>1, <1>2, <1>3 DEF Walked, Target, Done
<1>5. Listed' = seen'
  <2>1. CASE k \in seen
    BY <1>1, <2>1 DEF Listed
  <2>2. CASE k \notin seen
    <3>1. work' = Append(work, k) /\ Len(work') = Len(work) + 1
      BY <1>1, <1>2, <2>2, AppendFacts
    <3>2. work'[Len(work) + 1] = k
      BY <1>1, <1>2, <2>2, AppendFacts
    <3>3. 1..Len(work') = 1..Len(work) \cup {Len(work) + 1}
      BY <1>2, <3>1
    <3> QED BY <1>1, <1>3, <3>2, <3>3 DEF Listed
  <2> QED BY <2>1, <2>2
<1>6. \A S \in SUBSET Keys : root \in S /\ Closed(S) => seen' \subseteq S
  <2> SUFFICES ASSUME NEW S \in SUBSET Keys, root \in S, Closed(S)
               PROVE  k \in S
    BY <1>1
  <2>1. Target \in S
    BY <1>2
  <2>2. k \in Dependents(graph, S)
    BY <1>1, <2>1, DependentsElements
  <2> QED BY <2>2 DEF Closed
<1>7. k \in Dependents(graph, {Target})
  BY <1>1, DependentsElements
<1>8. table' = Dirtied(was, (Dependents(graph, Walked) \cup visited) \cup {k})
  BY <1>1, DirtiedTwice DEF TypeOK
<1>9. (Dependents(graph, Walked) \cup visited) \cup {k}
        = Dependents(graph', Walked') \cup visited'
  BY <1>1, <1>4
<1>10. TypeOK'
  BY <1>1, <1>2, <1>3, DirtiedType DEF TypeOK
<1>11. \A S \in SUBSET Keys : (Dependents(graph', S) \subseteq S) = Closed(S)
  BY <1>1 DEF Closed
<1>12. Dependents(graph, Walked)' = Dependents(graph, Walked)
       /\ Dependents(graph, {Target})' = Dependents(graph, {Target})
  BY <1>1, <1>4
<1>13. table' = Dirtied(was', Dependents(graph', Walked') \cup visited')
  BY <1>1, <1>8, <1>9
<1>14. (\A S \in SUBSET Keys : root \in S /\ Closed(S) => seen \subseteq S)'
  BY <1>1, <1>6, <1>11 DEF Closed
<1> QED BY <1>1, <1>4, <1>5, <1>7, <1>10, <1>12, <1>13, <1>14

LEMMA AdvanceInv ==
  ASSUME Inv, Advance
  PROVE  Inv'
<1> USE DEF Inv
<1>1. /\ ~Done /\ Dependents(graph, {Target}) \subseteq visited
      /\ workId' = workId + 1 /\ visited' = {}
      /\ UNCHANGED <<graph, root, was, table, work, seen>>
  BY DEF Advance
<1>2. workId \in 1..Len(work) /\ Len(work) \in Nat
  BY <1>1 DEF TypeOK, Done
<1>3. TypeOK' /\ Listed' = Listed
  BY <1>1, <1>2 DEF TypeOK, Listed
<1>4. Walked' = Walked \cup {Target}
  <2>1. 1..(workId' - 1) = 1..(workId - 1) \cup {workId}
    BY <1>1, <1>2
  <2> QED BY <1>1, <2>1 DEF Walked, Target
<1>5. Dependents(graph, Walked \cup {Target}) = Dependents(graph, Walked) \cup visited
  <2>1. Dependents(graph, Walked \cup {Target})
          = Dependents(graph, Walked) \cup Dependents(graph, {Target})
    BY DependentsElements
  <2> QED BY <1>1, <2>1
<1>6. Dependents(graph, Walked)' = Dependents(graph, Walked) \cup visited
  BY <1>1, <1>4, <1>5
<1>7. (\A S \in SUBSET Keys : root \in S /\ Closed(S) => seen \subseteq S)'
  BY <1>1 DEF Closed
<1> QED BY <1>1, <1>3, <1>6, <1>7

LEMMA InvStep == Inv /\ [Next]_vars => Inv'
<1>1. ASSUME Inv, UNCHANGED vars PROVE Inv'
  <2>1. UNCHANGED <<graph, root, was, table, work, seen, workId, visited>>
    BY <1>1 DEF vars
  <2>2. TypeOK' = TypeOK /\ Listed' = Listed /\ Walked' = Walked /\ Done' = Done
        /\ Target' = Target
    BY <2>1 DEF TypeOK, Listed, Walked, Done, Target
  <2>3. (\A S \in SUBSET Keys : root \in S /\ Closed(S) => seen \subseteq S)'
    BY <1>1, <2>1 DEF Inv, Closed
  <2> QED BY <1>1, <2>1, <2>2, <2>3 DEF Inv
<1> QED BY <1>1, VisitInv, AdvanceInv DEF Next

\* When the whole list was walked, the walked part is all that was seen.
LEMMA InvReaches == Inv => ExactlyDependents
<1> SUFFICES ASSUME Inv, Done PROVE ExactlyDependents
  BY DEF ExactlyDependents
<1>1. workId = Len(work) + 1 /\ Len(work) \in Nat
  BY DEF Inv, TypeOK, Done
<1>2. Walked = Listed
  BY <1>1 DEF Walked, Listed
<1>3. visited = {}
  BY DEF Inv
<1>4. Dependents(graph, seen) = Dependents(graph, Walked)
  BY <1>2 DEF Inv
<1> QED BY <1>3, <1>4 DEF Inv, ExactlyDependents, Closed

\* An invalidation reaches the least set of keys that holds its root and is
\* closed under what was computed from its keys, and dirties every answer that
\* was computed from one of them and no other, for every graph and table.
THEOREM DirtiesExactlyDependents == Spec => []ExactlyDependents
BY InitInv, InvStep, InvReaches, PTL DEF Spec

LEMMA NoKeyTwiceStep == Inv /\ NoKeyTwice /\ [Next]_vars => NoKeyTwice'
<1> SUFFICES ASSUME Inv, NoKeyTwice, [Next]_vars PROVE NoKeyTwice'
  OBVIOUS
<1>1. CASE work' = work
  BY <1>1 DEF NoKeyTwice
<1>2. ASSUME NEW k \in Keys, k \notin seen, work' = Append(work, k)
      PROVE  NoKeyTwice'
  <2>1. work \in Seq(Keys) /\ Len(work) \in Nat /\ DOMAIN work = 1..Len(work)
    BY DEF Inv, TypeOK
  <2>2. /\ work' \in Seq(Keys) /\ Len(work') = Len(work) + 1
        /\ \A i \in 1..Len(work) : work'[i] = work[i]
        /\ work'[Len(work) + 1] = k
    BY <1>2, <2>1, AppendFacts
  <2>3. DOMAIN work' = 1..(Len(work) + 1)
    BY <2>2
  <2>4. \A i \in 1..Len(work) : work[i] # k
    BY <1>2 DEF Inv, Listed
  <2>5. ASSUME NEW i \in 1..(Len(work) + 1), NEW j \in 1..(Len(work) + 1),
               work'[i] = work'[j]
        PROVE  i = j
    <3>1. CASE i \in 1..Len(work) /\ j \in 1..Len(work)
      BY <2>1, <2>2, <2>5, <3>1 DEF NoKeyTwice
    <3>2. CASE i = Len(work) + 1 \/ j = Len(work) + 1
      BY <2>1, <2>2, <2>4, <2>5, <3>2
    <3> QED BY <2>1, <3>1, <3>2
  <2> QED BY <2>3, <2>5 DEF NoKeyTwice
<1>3. CASE Next
  BY <1>1, <1>2, <1>3 DEF Next, Visit, Advance
<1> QED BY <1>1, <1>3 DEF vars

\* No graph, cyclic or not, makes the list hold a key twice: with finitely many
\* keys it is walked in finitely many rounds.
THEOREM ListsEachKeyOnce == Spec => []NoKeyTwice
<1>1. Init => NoKeyTwice
  BY DEF Init, NoKeyTwice
<1> QED BY <1>1, InitInv, InvStep, NoKeyTwiceStep, PTL DEF Spec
-----------------------------------------------------------------------------
(* What QueryCache reaches in one step *)

\* A set of numbers that is not empty has a least one.
LEMMA LeastNumber ==
  ASSUME NEW T \in SUBSET Nat, T # {}
  PROVE  \E m \in T : \A n \in T : m <= n
<1> DEFINE below == {ss \in Nat \X Nat : ss[1] < ss[2]}
<1>1. IsWellFoundedOn(below, Nat)
  BY NatLessThanWellFounded DEF OpToRel
<1>2. \A i, j \in Nat : i < j => <<i, j>> \in below
  OBVIOUS
<1> HIDE DEF below
<1>3. PICK m \in T : \A n \in T : <<n, m>> \notin below
  BY <1>1, WFMin
<1>4. ASSUME NEW n \in T PROVE m <= n
  <2>1. n \in Nat /\ m \in Nat
    OBVIOUS
  <2>2. ~(n < m)
    BY <1>2, <1>3, <2>1
  <2> QED BY <2>1, <2>2
<1> QED BY <1>4

\* A set of numbers that holds 0 and with a number the next one holds them all.
LEMMA AllNumbers ==
  ASSUME NEW T \in SUBSET Nat, 0 \in T, \A n \in T : n + 1 \in T
  PROVE  T = Nat
<1> SUFFICES ASSUME Nat \ T # {} PROVE FALSE
  OBVIOUS
<1>1. PICK m \in Nat \ T : \A n \in Nat \ T : m <= n
  BY LeastNumber
<1>2. m # 0 /\ m - 1 \in Nat
  BY <1>1
<1>3. m - 1 \in T
  BY <1>1, <1>2
<1> QED BY <1>1, <1>2, <1>3

\* One round of Reached.
Grown(g, S) == S \cup Dependents(g, S)

\* f is the rounds of Reached up to number n.
Rounds(f, n, g, S) == f = [i \in 0..n |-> IF i = 0 THEN S ELSE Grown(g, f[i - 1])]

LEMMA RoundsExist ==
  ASSUME NEW g, NEW S
  PROVE  \A n \in Nat : \E f : Rounds(f, n, g, S)
<1> DEFINE T == {n \in Nat : \E f : Rounds(f, n, g, S)}
<1>1. 0 \in T
  <2> DEFINE f == [i \in 0..0 |-> S]
  <2>1. f = [i \in 0..0 |-> IF i = 0 THEN S ELSE Grown(g, f[i - 1])]
    OBVIOUS
  <2> QED BY <2>1 DEF Rounds
<1>2. ASSUME NEW n \in T PROVE n + 1 \in T
  <2>1. n \in Nat
    OBVIOUS
  <2>2. PICK f : Rounds(f, n, g, S)
    BY <1>2
  <2>3. \A i \in 0..n : f[i] = IF i = 0 THEN S ELSE Grown(g, f[i - 1])
    <3> DEFINE h == [i \in 0..n |-> IF i = 0 THEN S ELSE Grown(g, f[i - 1])]
    <3>1. f = h
      BY <2>2 DEF Rounds
    <3>2. \A i \in 0..n : h[i] = IF i = 0 THEN S ELSE Grown(g, f[i - 1])
      OBVIOUS
    <3> HIDE DEF h
    <3> QED BY <3>1, <3>2
  <2> DEFINE e == [i \in 0..(n + 1) |-> IF i = n + 1 THEN Grown(g, f[n]) ELSE f[i]]
  <2>4. ASSUME NEW i \in 0..(n + 1)
        PROVE  e[i] = IF i = 0 THEN S ELSE Grown(g, e[i - 1])
    <3>1. CASE i = n + 1
      BY <2>1, <3>1
    <3>2. CASE i # n + 1
      BY <2>1, <2>3, <3>2
    <3> QED BY <3>1, <3>2
  <2>5. e = [i \in 0..(n + 1) |-> IF i = 0 THEN S ELSE Grown(g, e[i - 1])]
    <3> DEFINE h == [i \in 0..(n + 1) |-> IF i = 0 THEN S ELSE Grown(g, e[i - 1])]
    <3>1. \A i \in 0..(n + 1) : e[i] = h[i]
      BY <2>4
    <3> QED BY <3>1
  <2>6. Rounds(e, n + 1, g, S)
    BY <2>5 DEF Rounds
  <2> QED BY <2>1, <2>6
<1>3. T = Nat
  <2> HIDE DEF T
  <2>1. T \in SUBSET Nat
    BY DEF T
  <2> QED BY <1>1, <1>2, <2>1, AllNumbers
<1> QED BY <1>3

ClosedIn(g, S) == Dependents(g, S) \subseteq S

\* One round of the definition adds what was computed from the keys reached.
LEMMA OneRound ==
  ASSUME NEW g, NEW S
  PROVE  UNION {{to} \cup Dependents(g, {to}) : to \in S} = Grown(g, S)
<1> DEFINE of(to) == {to} \cup Dependents(g, {to})
<1>1. \A to, k : k \in of(to) <=> k = to \/ (k \in Keys /\ <<k, to>> \in g)
  BY DependentsElements
<1>2. \A k : k \in Dependents(g, S) <=> k \in Keys /\ \E to \in S : <<k, to>> \in g
  BY DependentsElements
<1>3. \A k : k \in UNION {of(to) : to \in S} <=> \E to \in S : k \in of(to)
  <2> HIDE DEF of
  <2> QED OBVIOUS
<1>4. ASSUME NEW k PROVE (\E to \in S : k \in of(to)) <=> k \in Grown(g, S)
  <2> HIDE DEF of
  <2>1. k \in Grown(g, S) <=> k \in S \/ k \in Dependents(g, S)
    BY DEF Grown
  <2>2. ASSUME NEW to \in S, k \in of(to) PROVE k \in S \/ k \in Dependents(g, S)
    BY <1>1, <1>2, <2>2
  <2>3. ASSUME k \in S PROVE \E to \in S : k \in of(to)
    BY <1>1, <2>3
  <2>4. ASSUME k \in Dependents(g, S) PROVE \E to \in S : k \in of(to)
    BY <1>1, <1>2, <2>4
  <2> QED BY <2>1, <2>2, <2>3, <2>4
<1>5. \A k : k \in UNION {of(to) : to \in S} <=> k \in Grown(g, S)
  <2> HIDE DEF of
  <2> QED BY <1>3, <1>4
<1> QED BY <1>5

\* What every round has reached; one that is not closed has found a key more.
LEMMA RoundsReach ==
  ASSUME IsFiniteSet(Keys), NEW g, NEW S \in SUBSET Keys, NEW C \in Nat, NEW f,
         Rounds(f, C, g, S)
  PROVE  \A i \in 0..C : /\ S \subseteq f[i] /\ f[i] \subseteq Keys
                         /\ \A U \in SUBSET Keys :
                              S \subseteq U /\ ClosedIn(g, U) => f[i] \subseteq U
                         /\ ClosedIn(g, f[i]) \/ Cardinality(f[i]) >= i
<1> DEFINE Fine(i) == /\ S \subseteq f[i] /\ f[i] \subseteq Keys
                      /\ \A U \in SUBSET Keys :
                           S \subseteq U /\ ClosedIn(g, U) => f[i] \subseteq U
                      /\ ClosedIn(g, f[i]) \/ Cardinality(f[i]) >= i
           T == {i \in Nat : i <= C => Fine(i)}
<1>1. \A i \in 0..C : f[i] = IF i = 0 THEN S ELSE Grown(g, f[i - 1])
  <2> DEFINE h == [i \in 0..C |-> IF i = 0 THEN S ELSE Grown(g, f[i - 1])]
  <2>1. f = h
    BY DEF Rounds
  <2>2. \A i \in 0..C : h[i] = IF i = 0 THEN S ELSE Grown(g, f[i - 1])
    OBVIOUS
  <2> HIDE DEF h
  <2> QED BY <2>1, <2>2
<1>2. 0 \in T
  <2>1. f[0] = S
    BY <1>1
  <2>2. Cardinality(S) \in Nat
    BY FS_Subset, FS_CardinalityType
  <2> QED BY <2>1, <2>2
<1>3. ASSUME NEW n \in T PROVE n + 1 \in T
  <2> SUFFICES ASSUME n + 1 <= C PROVE Fine(n + 1)
    OBVIOUS
  <2>1. n \in Nat /\ n \in 0..C /\ n + 1 \in 0..C /\ Fine(n)
    OBVIOUS
  <2>2. f[n + 1] = f[n] \cup Dependents(g, f[n])
    <3>1. n + 1 # 0 /\ (n + 1) - 1 = n
      BY <2>1
    <3> QED BY <1>1, <2>1, <3>1 DEF Grown
  <2>3. Dependents(g, f[n]) \subseteq Keys
    BY DependentsElements
  <2>4. S \subseteq f[n + 1] /\ f[n + 1] \subseteq Keys
    BY <2>1, <2>2, <2>3
  <2>5. ASSUME NEW U \in SUBSET Keys, S \subseteq U, ClosedIn(g, U)
        PROVE  f[n + 1] \subseteq U
    <3>1. f[n] \subseteq U
      BY <2>1, <2>5
    <3>2. Dependents(g, f[n]) \subseteq Dependents(g, U)
      BY <3>1, DependentsElements
    <3> QED BY <2>2, <2>5, <3>1, <3>2 DEF ClosedIn
  <2>6. ClosedIn(g, f[n + 1]) \/ Cardinality(f[n + 1]) >= n + 1
    <3>1. CASE ClosedIn(g, f[n])
      <4>1. f[n + 1] = f[n]
        BY <2>2, <3>1 DEF ClosedIn
      <4> QED BY <3>1, <4>1
    <3>2. CASE ~ClosedIn(g, f[n])
      <4>1. f[n] \subseteq f[n + 1] /\ f[n] # f[n + 1]
        BY <2>2, <3>2 DEF ClosedIn
      <4>2. IsFiniteSet(f[n + 1])
        BY <2>4, FS_Subset
      <4>3. /\ Cardinality(f[n]) <= Cardinality(f[n + 1])
            /\ Cardinality(f[n]) # Cardinality(f[n + 1])
        BY <4>1, <4>2, FS_Subset
      <4>4. Cardinality(f[n]) \in Nat /\ Cardinality(f[n + 1]) \in Nat
        BY <4>1, <4>2, FS_Subset, FS_CardinalityType
      <4> QED BY <2>1, <3>2, <4>3, <4>4
    <3> QED BY <3>1, <3>2
  <2> QED BY <2>4, <2>5, <2>6
<1>4. T = Nat
  <2> HIDE DEF T
  <2>1. T \in SUBSET Nat
    BY DEF T
  <2> QED BY <1>2, <1>3, <2>1, AllNumbers
<1>5. ASSUME NEW i \in 0..C PROVE Fine(i)
  BY <1>4
<1> QED BY <1>5

\* Reached is the least set that holds the roots and, with a key, all that was
\* computed from it.
LEMMA ReachedIsLeast ==
  ASSUME IsFiniteSet(Keys), NEW g, NEW S \in SUBSET Keys
  PROVE  /\ S \subseteq Reached(g, S) /\ Reached(g, S) \subseteq Keys
         /\ ClosedIn(g, Reached(g, S))
         /\ \A U \in SUBSET Keys :
              S \subseteq U /\ ClosedIn(g, U) => Reached(g, S) \subseteq U
<1> DEFINE C == Cardinality(Keys)
           body(f) == [n \in 0..C |->
                        IF n = 0 THEN S
                        ELSE UNION {{to} \cup Dependents(g, {to}) : to \in f[n - 1]}]
           reach == CHOOSE f : f = body(f)
<1>1. Reached(g, S) = reach[C]
  BY DEF Reached
<1>2. C \in Nat
  BY FS_CardinalityType
<1>3. \A f : body(f) = [n \in 0..C |-> IF n = 0 THEN S ELSE Grown(g, f[n - 1])]
  BY OneRound
<1>4. PICK f : f = body(f)
  <2>1. PICK f : Rounds(f, C, g, S)
    BY <1>2, RoundsExist
  <2>2. f = body(f)
    BY <1>3, <2>1 DEF Rounds
  <2> HIDE DEF body
  <2> QED BY <2>2
<1>5. reach = body(reach)
  <2> HIDE DEF body
  <2> QED BY <1>4
<1>6. Rounds(reach, C, g, S)
  BY <1>3, <1>5 DEF Rounds
<1> HIDE DEF reach
<1>7. C \in 0..C
  BY <1>2
<1>8. /\ S \subseteq reach[C] /\ reach[C] \subseteq Keys
      /\ \A U \in SUBSET Keys : S \subseteq U /\ ClosedIn(g, U) => reach[C] \subseteq U
      /\ ClosedIn(g, reach[C]) \/ Cardinality(reach[C]) >= C
  BY <1>2, <1>6, <1>7, RoundsReach
<1>9. ClosedIn(g, reach[C])
  <2>1. CASE Cardinality(reach[C]) >= C
    <3>1. reach[C] = Keys
      BY <1>2, <1>8, <2>1, FS_Subset, FS_CardinalityType
    <3> QED BY <3>1, DependentsElements DEF ClosedIn
  <2> QED BY <1>8, <2>1
<1> QED BY <1>1, <1>8, <1>9
-----------------------------------------------------------------------------
(* The walk does what QueryCache takes for one step *)

\* The number returned so far is that of the answers taken away so far.
Counted == dirtied = Cardinality(Answers(was, Keys) \ Answers(table, Keys))

\* Dirtying one key takes away its answers and no other.
LEMMA AnswersDirtied ==
  ASSUME NEW t \in Table, NEW k \in Keys
  PROVE  Answers(Dirtied(t, {k}), Keys) = Answers(t, Keys) \ Answers(t, {k})
<1>1. ASSUME NEW x \in Slots PROVE Hit(Dirtied(t, {k}), x) <=> Hit(t, x) /\ x[1] # k
  <2>1. Dirtied(t, {k})[x] = IF x[1] \in {k} /\ Hit(t, x)
                             THEN [t[x] EXCEPT !.state = "dirty"] ELSE t[x]
    BY DEF Dirtied
  <2>2. CASE x[1] = k /\ Hit(t, x)
    <3>1. t[x] \in Entry
      BY <2>2 DEF Table, Hit
    <3>2. Dirtied(t, {k})[x].state = "dirty"
      BY <2>1, <2>2, <3>1 DEF Entry
    <3> QED BY <2>2, <3>2 DEF Hit
  <2>3. CASE ~(x[1] = k /\ Hit(t, x))
    BY <2>1, <2>3 DEF Hit
  <2> QED BY <2>2, <2>3
<1> QED BY <1>1 DEF Answers

LEMMA CountedStep ==
  ASSUME FiniteAssumption, Inv, Counted, [Next]_vars,
         Answers(table, Keys) \subseteq Answers(was, Keys)
  PROVE  Counted' /\ Answers(table', Keys) \subseteq Answers(was', Keys)
<1>1. CASE UNCHANGED <<was, table, dirtied>>
  BY <1>1 DEF Counted, Answers, Hit
<1>2. ASSUME NEW k \in Keys, Visit(k)
      PROVE  Counted' /\ Answers(table', Keys) \subseteq Answers(was', Keys)
  <2> DEFINE A == Answers(was, Keys)
             B == Answers(table, Keys)
             D == Answers(table, {k})
  <2>1. /\ table' = Dirtied(table, {k}) /\ was' = was
        /\ dirtied' = dirtied + Cardinality(D)
    BY <1>2 DEF Visit
  <2>2. Answers(table', Keys) = B \ D
    BY <2>1, AnswersDirtied DEF Inv, TypeOK
  <2>3. Answers(was', Keys) = A
    BY <2>1
  <2>4. D \subseteq B /\ B \subseteq A /\ A \subseteq Slots
    BY DEF Answers
  <2>5. IsFiniteSet(Slots)
    BY FS_Product DEF FiniteAssumption, Slots
  <2>6. IsFiniteSet(A) /\ IsFiniteSet(D) /\ IsFiniteSet(A \ B)
    <3>1. A \in SUBSET Slots /\ D \in SUBSET Slots /\ A \ B \in SUBSET Slots
      BY <2>4
    <3> HIDE DEF A, B, D
    <3> QED BY <2>5, <3>1, FS_Subset
  <2> HIDE DEF A, B, D
  <2>7. A \ (B \ D) = (A \ B) \cup D /\ (A \ B) \cap D = {}
    BY <2>4
  <2>8. Cardinality((A \ B) \cup D)
          = Cardinality(A \ B) + Cardinality(D) - Cardinality({})
    BY <2>6, <2>7, FS_Union
  <2>9. /\ Cardinality({}) = 0 /\ Cardinality(A \ B) \in Nat
        /\ Cardinality(D) \in Nat
    BY <2>6, FS_EmptySet, FS_CardinalityType
  <2>10. dirtied = Cardinality(A \ B)
    BY DEF Counted, A, B
  <2>11. dirtied' = Cardinality(A \ (B \ D))
    <3>1. Cardinality((A \ B) \cup D) = Cardinality(A \ B) + Cardinality(D)
      BY <2>8, <2>9
    <3>2. Cardinality(A \ (B \ D)) = Cardinality(A \ B) + Cardinality(D)
      BY <2>7, <3>1
    <3> QED BY <2>1, <2>10, <3>2
  <2>12. Counted'
    BY <2>2, <2>3, <2>11 DEF Counted
  <2>13. Answers(table', Keys) \subseteq Answers(was', Keys)
    BY <2>2, <2>3, <2>4
  <2> QED BY <2>12, <2>13
<1> QED BY <1>1, <1>2 DEF Next, Advance, vars

\* When the walk is over, it has done to the table what QueryCache says of the
\* whole call, whose rounds it never computes, and returns the number of the
\* answers taken away: for all finite sets of keys and inputs, and every graph.
THEOREM WalksAsOneStep == Spec => []AsOneStep
<1> DEFINE Inside == Answers(table, Keys) \subseteq Answers(was, Keys)
<1>1. Init => Counted /\ Inside
  <2>1. ASSUME Init PROVE Answers(was, Keys) \ Answers(table, Keys) = {}
    BY <2>1 DEF Init
  <2> QED BY <2>1, FS_EmptySet DEF Init, Counted
<1>2. Inv /\ Counted /\ Inside /\ [Next]_vars => Counted' /\ Inside'
  BY FiniteAssumption, CountedStep
<1>3. Inv /\ Counted => AsOneStep
  <2> SUFFICES ASSUME Inv, Counted, Done PROVE AsOneStep
    BY DEF AsOneStep
  <2>1. /\ root \in seen /\ Closed(seen) /\ seen \subseteq Keys /\ root \in Keys
        /\ \A S \in SUBSET Keys : root \in S /\ Closed(S) => seen \subseteq S
        /\ table = Dirtied(was, Dependents(graph, seen))
    BY InvReaches DEF ExactlyDependents, Inv, TypeOK
  <2>2. \A S : ClosedIn(graph, S) = Closed(S)
    BY DEF ClosedIn, Closed
  <2>3. Reached(graph, {root}) = seen
    BY <2>1, <2>2, FiniteAssumption, ReachedIsLeast DEF FiniteAssumption
  <2>4. table = DependentsDirtied(was, graph, {root})
    BY <2>1, <2>3 DEF DependentsDirtied
  <2> QED BY <2>4 DEF AsOneStep, Counted
<1> QED BY <1>1, <1>2, <1>3, InitInv, InvStep, PTL DEF Spec
=============================================================================
