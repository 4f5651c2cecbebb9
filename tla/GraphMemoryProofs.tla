-------------------------- MODULE GraphMemoryProofs --------------------------
(* The order of DecisionGraph and the traces of its evaluations, for every     *)
(* graph of any number of nodes and any number of evaluations; and what the    *)
(* memory behind one of the dashboard's nodes knows of a game, for every       *)
(* sequence of frames, saves and restarts.                                     *)
EXTENDS DecisionGraph, ExperienceMemory,
        FiniteSetTheorems, SequenceTheorems, WellFoundedInduction, TLAPS

\* The first k entries of a sequence.
Entries(s, k) == {s[i] : i \in 1..k}

\* What the constructor's loop has taken from the order, and what is in it.
Done == Entries(order, cursor - 1)
Ordered == Entries(order, Len(order))

\* A node is in the order as soon as its dependencies have been taken, and not before;
\* remaining counts those that have not.
OrderInv ==
  /\ dependencies \in Dependencies
  /\ order \in Seq(Nodes) /\ IsInjective(order)
  /\ cursor \in 1..(Len(order) + 1)
  /\ remaining = [n \in Nodes |-> Cardinality(dependencies[n] \ Done)]
  /\ \A n \in Nodes : n \in Ordered <=> dependencies[n] \subseteq Done
  /\ \A i \in 1..Len(order) : dependencies[order[i]] \subseteq Entries(order, i - 1)
  /\ at \in {"building", "refused", "ready", "visiting", "callback"}
  /\ at = "refused" => cursor = Len(order) + 1 /\ Len(order) # N
  /\ at \notin {"building", "refused"} => Len(order) = N

\* A node has no record before its turn, and a demanding one that runs has found only
\* successes.
TraceInv ==
  /\ snapshot \in 0..MaxSnapshot /\ expired \in BOOLEAN /\ position \in 1..(N + 1)
  /\ trace \in [Nodes -> [status : Statuses \cup {"none"}, snapshot : 0..MaxSnapshot]]
  /\ at \in {"visiting", "callback"} =>
       /\ position <= N /\ snapshot # 0
       /\ \A i \in position..N : trace[order[i]] = NoRecord
  /\ at = "callback" /\ Visited \in Demanding => Unavailable = {}
  /\ ActionableIsCurrent

GInv == OrderInv /\ TraceInv

-----------------------------------------------------------------------------
LEMMA SetsOfNodes ==
  ASSUME NEW S \in SUBSET Nodes
  PROVE  /\ IsFiniteSet(S) /\ S \in SUBSET Nat
         /\ Cardinality(S) \in 0..N
<1>1. N \in Nat /\ IsFiniteSet(Nodes) /\ Cardinality(Nodes) = N /\ Nodes \in SUBSET Nat
  BY GraphAssumption, FS_Interval DEF Nodes
<1>2. IsFiniteSet(S) /\ Cardinality(S) <= Cardinality(Nodes)
  BY <1>1, FS_Subset
<1> QED
  BY <1>1, <1>2, FS_CardinalityType

\* InOrder lists every element of a finite set of numbers once.
LEMMA InOrderLists ==
  ASSUME NEW S \in SUBSET Nat, IsFiniteSet(S)
  PROVE  /\ Cardinality(S) \in Nat
         /\ InOrder(S) \in [1..Cardinality(S) -> S]
         /\ \A i, j \in 1..Cardinality(S) : InOrder(S)[i] = InOrder(S)[j] => i = j
         /\ \A n \in S : \E i \in 1..Cardinality(S) : InOrder(S)[i] = n
<1> DEFINE Below(n) == {l \in S : l <= n}
           rank == [n \in S |-> Cardinality(Below(n))]
<1>1. Cardinality(S) \in Nat
  BY FS_CardinalityType
<1>2. ASSUME NEW n \in S
      PROVE  IsFiniteSet(Below(n)) /\ Cardinality(Below(n)) \in 1..Cardinality(S)
  <2>1. Below(n) \in SUBSET S /\ n \in Below(n)
    OBVIOUS
  <2> HIDE DEF Below
  <2>2. IsFiniteSet(Below(n)) /\ Cardinality(Below(n)) <= Cardinality(S)
    BY <2>1, FS_Subset
  <2>3. Cardinality(Below(n)) \in Nat /\ Cardinality(Below(n)) # 0
    BY <2>1, <2>2, FS_CardinalityType, FS_EmptySet
  <2> QED
    BY <1>1, <2>2, <2>3
<1>3. ASSUME NEW l \in S, NEW n \in S, l < n
      PROVE  Cardinality(Below(l)) # Cardinality(Below(n))
  <2>1. Below(l) \in SUBSET Below(n) /\ n \in Below(n) /\ n \notin Below(l)
    <3>1. \A k \in S : k <= l => k <= n
      BY <1>3
    <3>2. n <= n /\ ~(n <= l)
      BY <1>3
    <3> QED
      BY <3>1, <3>2
  <2>2. IsFiniteSet(Below(n))
    BY <1>2
  <2> HIDE DEF Below
  <2> QED
    BY <2>1, <2>2, FS_Subset
<1>4. rank \in [S -> 1..Cardinality(S)]
  BY <1>2
<1>5. \A l, n \in S : rank[l] = rank[n] => l = n
  <2>1. \A l, n \in S : l < n => rank[l] # rank[n]
    BY <1>3
  <2> HIDE DEF rank
  <2> QED
    BY <2>1
<1>6. \A i \in 1..Cardinality(S) : \E n \in S : rank[n] = i
  <2> HIDE DEF rank
  <2>1. rank \in Injection(S, 1..Cardinality(S))
    BY <1>4, <1>5 DEF Injection, IsInjective
  <2>2. IsFiniteSet(1..Cardinality(S)) /\ Cardinality(1..Cardinality(S)) = Cardinality(S)
    BY <1>1, FS_Interval
  <2>3. rank \in Surjection(S, 1..Cardinality(S))
    BY <2>1, <2>2, FS_Injection
  <2> QED
    BY <2>3 DEF Surjection
<1>7. \A i \in 1..Cardinality(S) :
        InOrder(S)[i] = CHOOSE n \in S : Cardinality(Below(n)) = i
  BY DEF InOrder
<1>8. \A i \in 1..Cardinality(S) : InOrder(S)[i] \in S /\ rank[InOrder(S)[i]] = i
  <2> SUFFICES ASSUME NEW i \in 1..Cardinality(S)
               PROVE  InOrder(S)[i] \in S /\ rank[InOrder(S)[i]] = i
    OBVIOUS
  <2>1. \E n \in S : Cardinality(Below(n)) = i
    BY <1>6
  <2>2. InOrder(S)[i] \in S /\ Cardinality(Below(InOrder(S)[i])) = i
    BY <1>7, <2>1
  <2> QED
    BY <2>2
<1>9. InOrder(S) \in [1..Cardinality(S) -> S]
  <2>1. InOrder(S) = [i \in 1..Cardinality(S) |-> InOrder(S)[i]]
    BY DEF InOrder
  <2> QED
    BY <1>8, <2>1
<1> HIDE DEF rank
<1> QED
  BY <1>1, <1>4, <1>5, <1>8, <1>9

\* p is o with the elements of S behind it, each of them once.
Extended(o, S, p) ==
  /\ p \in Seq(Nodes) /\ IsInjective(p) /\ Len(o) <= Len(p)
  /\ \A i \in 1..Len(o) : p[i] = o[i]
  /\ \A i \in (Len(o) + 1)..Len(p) : p[i] \in S
  /\ Entries(p, Len(p)) = Entries(o, Len(o)) \cup S

\* Nodes that are not in the order are put behind it.
LEMMA PutBehind ==
  ASSUME NEW o, NEW S, NEW p, o \in Seq(Nodes), IsInjective(o), S \in SUBSET Nodes,
         Entries(o, Len(o)) \cap S = {}, p = o \o InOrder(S)
  PROVE  Extended(o, S, p)
<1> DEFINE q == InOrder(S)
<1>1. /\ Cardinality(S) \in Nat /\ q \in [1..Cardinality(S) -> S]
      /\ \A i, j \in 1..Cardinality(S) : q[i] = q[j] => i = j
      /\ \A n \in S : \E i \in 1..Cardinality(S) : q[i] = n
  BY SetsOfNodes, InOrderLists
<1> HIDE DEF q
<1>2. q \in Seq(S) /\ Len(q) = Cardinality(S)
  BY <1>1
<1>3. p = o \o q
  BY DEF q
<1>4. q \in Seq(Nodes)
  BY <1>2
<1>5. p \in Seq(Nodes) /\ Len(p) = Len(o) + Len(q)
  BY <1>3, <1>4
<1>6. \A i \in 1..Len(p) : p[i] = IF i <= Len(o) THEN o[i] ELSE q[i - Len(o)]
  BY <1>3, <1>4
<1>7. \A i \in 1..Len(o) : p[i] = o[i]
  BY <1>2, <1>5, <1>6
<1>8. \A i \in (Len(o) + 1)..Len(p) : i - Len(o) \in 1..Len(q) /\ p[i] = q[i - Len(o)]
  BY <1>5, <1>6
<1>9. \A i \in (Len(o) + 1)..Len(p) : p[i] \in S
  BY <1>1, <1>2, <1>8
<1>10. \A i \in 1..Len(o) : p[i] \notin S
  BY <1>7 DEF Entries
<1>11. ASSUME NEW i \in 1..Len(p), NEW j \in 1..Len(p), p[i] = p[j]
       PROVE  i = j
  <2>1. CASE i <= Len(o) /\ j <= Len(o)
    BY <1>7, <1>11, <2>1 DEF IsInjective
  <2>2. CASE ~(i <= Len(o)) /\ ~(j <= Len(o))
    <3>1. i \in (Len(o) + 1)..Len(p) /\ j \in (Len(o) + 1)..Len(p)
      BY <1>5, <2>2
    <3>2. i - Len(o) = j - Len(o)
      BY <1>1, <1>2, <1>8, <1>11, <3>1
    <3> QED
      BY <3>2
  <2>3. CASE (i <= Len(o)) # (j <= Len(o))
    <3>1. \/ i \in 1..Len(o) /\ j \in (Len(o) + 1)..Len(p)
          \/ j \in 1..Len(o) /\ i \in (Len(o) + 1)..Len(p)
      BY <1>5, <2>3
    <3> QED
      BY <1>9, <1>10, <1>11, <3>1
  <2> QED
    BY <2>1, <2>2, <2>3
<1>12. IsInjective(p)
  BY <1>5, <1>11 DEF IsInjective
<1>13. Entries(p, Len(p)) = Entries(o, Len(o)) \cup S
  <2>1. ASSUME NEW n \in Entries(p, Len(p)) PROVE n \in Entries(o, Len(o)) \cup S
    <3>1. PICK i \in 1..Len(p) : n = p[i]
      BY DEF Entries
    <3>2. i \in 1..Len(o) \/ i \in (Len(o) + 1)..Len(p)
      BY <1>5
    <3> QED
      BY <1>7, <1>9, <3>1, <3>2 DEF Entries
  <2>2. ASSUME NEW n \in Entries(o, Len(o)) PROVE n \in Entries(p, Len(p))
    <3>1. PICK i \in 1..Len(o) : n = o[i]
      BY DEF Entries
    <3>2. i \in 1..Len(p) /\ p[i] = n
      BY <1>2, <1>5, <1>7, <3>1
    <3> QED
      BY <3>2 DEF Entries
  <2>3. ASSUME NEW n \in S PROVE n \in Entries(p, Len(p))
    <3>1. PICK i \in 1..Len(q) : q[i] = n
      BY <1>1, <1>2
    <3>2. i + Len(o) \in 1..Len(p) /\ i + Len(o) \in (Len(o) + 1)..Len(p)
          /\ (i + Len(o)) - Len(o) = i
      BY <1>5
    <3>3. p[i + Len(o)] = n
      BY <1>8, <3>1, <3>2
    <3> QED
      BY <3>2, <3>3 DEF Entries
  <2> QED
    BY <2>1, <2>2, <2>3
<1> QED
  BY <1>2, <1>5, <1>7, <1>9, <1>12, <1>13 DEF Extended

-----------------------------------------------------------------------------
(* The constructor *)

LEMMA DependenciesAreNodes ==
  ASSUME OrderInv, NEW n \in Nodes
  PROVE  dependencies[n] \in SUBSET Nodes
BY GraphAssumption DEF OrderInv

LEMMA InitOrder == Init => GInv
<1> SUFFICES ASSUME Init PROVE GInv
  OBVIOUS
<1> DEFINE free == {n \in Nodes : dependencies[n] = {}}
<1>1. /\ dependencies \in Dependencies /\ order = InOrder(free)
      /\ remaining = [n \in Nodes |-> Cardinality(dependencies[n])]
      /\ cursor = 1 /\ at = "building" /\ snapshot = 0 /\ expired = FALSE /\ position = 1
      /\ trace = [n \in Nodes |-> NoRecord]
  BY DEF Init
<1>2. /\ order \in Seq(Nodes) /\ IsInjective(order)
      /\ \A i \in 1..Len(order) : order[i] \in free
      /\ Entries(order, Len(order)) = free
  <2>1. free \in SUBSET Nodes
    OBVIOUS
  <2> HIDE DEF free
  <2>2. /\ Cardinality(free) \in Nat /\ order \in [1..Cardinality(free) -> free]
        /\ \A i, j \in 1..Cardinality(free) : order[i] = order[j] => i = j
        /\ \A n \in free : \E i \in 1..Cardinality(free) : order[i] = n
    BY <1>1, <2>1, SetsOfNodes, InOrderLists
  <2>3. order \in Seq(Nodes) /\ Len(order) = Cardinality(free)
        /\ DOMAIN order = 1..Len(order)
    BY <2>1, <2>2
  <2> QED
    BY <2>2, <2>3 DEF IsInjective, Entries
<1>3. Done = {}
  BY <1>1 DEF Done, Entries
<1>4. OrderInv
  <2>1. remaining = [n \in Nodes |-> Cardinality(dependencies[n] \ Done)]
    BY <1>1, <1>3
  <2>2. \A n \in Nodes : n \in Ordered <=> dependencies[n] \subseteq Done
    BY <1>2, <1>3 DEF Ordered
  <2>3. \A i \in 1..Len(order) : dependencies[order[i]] = {}
    BY <1>2
  <2>4. cursor \in 1..(Len(order) + 1)
    BY <1>1, <1>2
  <2> QED
    BY <1>1, <1>2, <2>1, <2>2, <2>3, <2>4 DEF OrderInv
<1>5. TraceInv
  <2>1. 0 \in 0..MaxSnapshot /\ 1 \in 1..(N + 1)
    BY GraphAssumption
  <2>2. NoRecord \in [status : Statuses \cup {"none"}, snapshot : 0..MaxSnapshot]
        /\ NoRecord.status # "succeeded"
    BY <2>1 DEF NoRecord
  <2>3. trace \in [Nodes -> [status : Statuses \cup {"none"}, snapshot : 0..MaxSnapshot]]
        /\ \A n \in Nodes : trace[n].status # "succeeded"
    BY <1>1, <2>2
  <2> QED
    BY <1>1, <2>1, <2>3 DEF TraceInv, ActionableIsCurrent
<1> QED
  BY <1>4, <1>5 DEF GInv

LEMMA OrderStep ==
  ASSUME OrderInv, OrderNext
  PROVE  OrderInv'
<1> DEFINE n == order[cursor]
           free == {l \in Consumers(n) : remaining[l] = 1}
<1>1. /\ at = "building" /\ at' = at /\ dependencies' = dependencies
      /\ cursor \in 1..Len(order) /\ cursor' = cursor + 1
      /\ remaining' = [l \in Nodes |->
                         IF l \in Consumers(n) THEN remaining[l] - 1 ELSE remaining[l]]
      /\ order' = order \o InOrder(free)
  BY DEF OrderNext, OrderInv
<1>2. n \in Nodes /\ n \notin Done
  <2>1. \A i \in 1..(cursor - 1) : order[i] # order[cursor]
    BY <1>1 DEF OrderInv, IsInjective
  <2> QED
    BY <1>1, <2>1 DEF OrderInv, Done, Entries
\* A node that is freed depended on the node taken, and on nothing else that is left.
<1>3. \A l \in Nodes :
        /\ l \in free <=> n \in dependencies[l] /\ dependencies[l] \subseteq Done \cup {n}
        /\ Cardinality(dependencies[l] \ (Done \cup {n})) =
             IF l \in Consumers(n) THEN remaining[l] - 1 ELSE remaining[l]
  <2> SUFFICES ASSUME NEW l \in Nodes
               PROVE  /\ l \in free <=>
                           n \in dependencies[l] /\ dependencies[l] \subseteq Done \cup {n}
                      /\ Cardinality(dependencies[l] \ (Done \cup {n})) =
                           IF l \in Consumers(n) THEN remaining[l] - 1 ELSE remaining[l]
    OBVIOUS
  <2> DEFINE left == dependencies[l] \ Done
             rest == dependencies[l] \ (Done \cup {n})
  <2>1. left \in SUBSET Nodes /\ remaining[l] = Cardinality(left)
    BY DependenciesAreNodes DEF OrderInv
  <2>2. rest = left \ {n} /\ (n \in left <=> n \in dependencies[l])
    BY <1>2
  <2>3. l \in Consumers(n) <=> n \in dependencies[l]
    BY DEF Consumers
  <2>4. l \in free <=> n \in dependencies[l] /\ remaining[l] = 1
    BY <2>3
  <2>5. dependencies[l] \subseteq Done \cup {n} <=> rest = {}
    OBVIOUS
  <2> HIDE DEF left, rest
  <2>6. IsFiniteSet(left) /\ Cardinality(left) \in Nat
    BY <2>1, SetsOfNodes
  <2>7. /\ IsFiniteSet(rest)
        /\ Cardinality(rest) = IF n \in left THEN Cardinality(left) - 1 ELSE Cardinality(left)
    BY <2>2, <2>6, FS_RemoveElement
  <2>8. rest = {} <=> Cardinality(rest) = 0
    BY <2>7, FS_EmptySet
  <2>9. n \in left => (remaining[l] = 1 <=> rest = {})
    BY <2>1, <2>6, <2>7, <2>8
  <2>10. Cardinality(rest) =
           IF l \in Consumers(n) THEN remaining[l] - 1 ELSE remaining[l]
    BY <2>1, <2>2, <2>3, <2>7
  <2>11. Cardinality(rest) = Cardinality(dependencies[l] \ (Done \cup {n}))
    BY DEF rest
  <2> HIDE DEF free
  <2> QED
    BY <2>2, <2>4, <2>5, <2>9, <2>10, <2>11
<1>4. free \in SUBSET Nodes /\ Ordered \cap free = {}
  <2>1. free \in SUBSET Nodes
    BY DEF Consumers
  <2>2. \A l \in free : l \notin Ordered
    BY <1>2, <1>3, <2>1 DEF OrderInv
  <2> QED
    BY <2>1, <2>2
<1> HIDE DEF free
<1>5. PICK o : o = order
  OBVIOUS
<1>6. PICK p : p = order'
  OBVIOUS
<1>7. /\ p \in Seq(Nodes) /\ IsInjective(p) /\ Len(o) <= Len(p)
      /\ \A i \in 1..Len(o) : p[i] = o[i]
      /\ \A i \in (Len(o) + 1)..Len(p) : p[i] \in free
      /\ Entries(p, Len(p)) = Entries(o, Len(o)) \cup free
  <2>1. PICK S : S = free
    OBVIOUS
  <2>2. /\ o \in Seq(Nodes) /\ IsInjective(o) /\ S \in SUBSET Nodes
        /\ Entries(o, Len(o)) \cap S = {} /\ p = o \o InOrder(S)
    BY <1>1, <1>4, <1>5, <1>6, <2>1 DEF OrderInv, Ordered
  <2>3. Extended(o, S, p)
    BY <2>2, PutBehind
  <2> QED
    BY <2>1, <2>3 DEF Extended
<1>8. Len(o) \in Nat /\ Len(p) \in Nat
  BY <1>5, <1>7 DEF OrderInv
<1>9. \A k \in 0..Len(o) : Entries(p, k) = Entries(o, k)
  <2> SUFFICES ASSUME NEW k \in 0..Len(o) PROVE Entries(p, k) = Entries(o, k)
    OBVIOUS
  <2>1. \A i \in 1..k : p[i] = o[i]
    BY <1>7, <1>8
  <2> QED
    BY <2>1 DEF Entries
<1>10. Done' = Done \cup {n}
  <2>1. Done' = Entries(p, cursor)
    BY <1>1, <1>6 DEF Done, Entries, OrderInv
  <2>2. Done' = Entries(o, cursor)
    BY <1>1, <1>5, <1>9, <2>1
  <2>3. 1..cursor = (1..(cursor - 1)) \cup {cursor}
    BY <1>1
  <2> QED
    BY <1>5, <2>2, <2>3 DEF Done, Entries
<1>11. Ordered' = Ordered \cup free
  BY <1>5, <1>6, <1>7 DEF Ordered, Entries
<1>12. remaining' = [l \in Nodes |-> Cardinality(dependencies'[l] \ Done')]
  BY <1>1, <1>3, <1>10
<1>13. \A l \in Nodes : l \in Ordered' <=> dependencies'[l] \subseteq Done'
  BY <1>1, <1>3, <1>10, <1>11 DEF OrderInv
<1>14. \A i \in 1..Len(p) : dependencies[p[i]] \subseteq Entries(p, i - 1)
  <2> SUFFICES ASSUME NEW i \in 1..Len(p)
               PROVE  dependencies[p[i]] \subseteq Entries(p, i - 1)
    OBVIOUS
  <2>1. CASE i <= Len(o)
    <3>1. i \in 1..Len(o) /\ i - 1 \in 0..Len(o)
      BY <1>8, <2>1
    <3> QED
      BY <1>5, <1>7, <1>9, <3>1 DEF OrderInv
  <2>2. CASE ~(i <= Len(o))
    <3>1. i \in (Len(o) + 1)..Len(p) /\ p[i] \in Nodes
      BY <1>7, <1>8, <2>2
    <3>2. dependencies[p[i]] \subseteq Done \cup {n}
      BY <1>3, <1>7, <3>1
    <3>3. Done \cup {n} = Entries(p, cursor)
      BY <1>1, <1>6, <1>10 DEF Done, Entries, OrderInv
    <3>4. cursor <= i - 1
      BY <1>1, <1>5, <1>8, <3>1
    <3>5. Entries(p, cursor) \subseteq Entries(p, i - 1)
      BY <1>1, <3>4 DEF Entries
    <3> QED
      BY <3>2, <3>3, <3>5
  <2> QED
    BY <2>1, <2>2
<1>15. cursor' \in 1..(Len(p) + 1)
  BY <1>1, <1>5, <1>7, <1>8
<1> QED
  BY <1>1, <1>6, <1>7, <1>12, <1>13, <1>14, <1>15 DEF OrderInv

\* The loop is over: the order holds every node, or those it misses form a circle.
LEMMA RefusedIsCyclic ==
  ASSUME OrderInv, at = "refused"
  PROVE  Cyclic
<1> DEFINE S == Nodes \ Ordered
<1>1. Done = Ordered
  BY DEF OrderInv, Done, Ordered
<1>2. S # {}
  <2> SUFFICES ASSUME S = {} PROVE FALSE
    OBVIOUS
  <2>1. /\ Len(order) \in Nat /\ order \in [1..Len(order) -> Nodes] /\ IsInjective(order)
    BY DEF OrderInv
  <2>2. order \in Injection(1..Len(order), Nodes)
    BY <2>1 DEF Injection
  <2>3. order \in Surjection(1..Len(order), Nodes)
    BY <2>1 DEF Surjection, Ordered, Entries
  <2>4. IsFiniteSet(Nodes) /\ Cardinality(Nodes) = N
    BY GraphAssumption, FS_Interval DEF Nodes
  <2>5. Cardinality(1..Len(order)) = Len(order)
    <3>1. PICK k \in Nat : k = Len(order)
      BY <2>1
    <3>2. Cardinality(1..k) = k
      BY FS_Interval
    <3> QED
      BY <3>1, <3>2
  <2>6. Len(order) = N
    BY <2>2, <2>3, <2>4, <2>5, FS_Injection
  <2> QED
    BY <2>6 DEF OrderInv
<1>3. \A n \in S : dependencies[n] \cap S # {}
  <2> SUFFICES ASSUME NEW n \in S PROVE dependencies[n] \cap S # {}
    OBVIOUS
  <2>1. ~(dependencies[n] \subseteq Ordered)
    BY <1>1 DEF OrderInv
  <2> QED
    BY <2>1, DependenciesAreNodes
<1> QED
  BY <1>2, <1>3 DEF Cyclic

\* The constructor's result.
LEMMA BuiltOrder == ASSUME OrderInv, Built PROVE OrderInv'
<1>1. /\ UNCHANGED <<dependencies, order, remaining, cursor>>
      /\ at' = IF Len(order) = N THEN "ready" ELSE "refused"
      /\ cursor > Len(order)
  BY DEF Built, graph
<1>2. cursor = Len(order) + 1
  BY <1>1 DEF OrderInv
<1>3. at' \in {"ready", "refused"} /\ (at' = "refused" => Len(order) # N)
      /\ (at' = "ready" => Len(order) = N)
  BY <1>1
<1> QED
  BY <1>1, <1>2, <1>3 DEF OrderInv, Done, Ordered, Entries

\* evaluate() leaves the order alone.
LEMMA EvaluateOrder ==
  ASSUME OrderInv, UNCHANGED graph,
         at \in {"ready", "visiting", "callback"}, at' \in {"ready", "visiting", "callback"}
  PROVE  OrderInv'
<1>1. UNCHANGED <<dependencies, order, remaining, cursor>> /\ Len(order) = N
  BY DEF graph, OrderInv
<1>2. UNCHANGED <<Done, Ordered>>
  BY <1>1 DEF Done, Ordered, Entries
<1>3. \A i \in 1..Len(order') : dependencies'[order'[i]] \subseteq Entries(order', i - 1)
  BY <1>1 DEF OrderInv
<1> QED
  BY <1>1, <1>2, <1>3 DEF OrderInv

-----------------------------------------------------------------------------
(* evaluate *)

Records == [status : Statuses \cup {"none"}, snapshot : 0..MaxSnapshot]

LEMMA VisitedNode ==
  ASSUME GInv, at \in {"visiting", "callback"}
  PROVE  /\ position \in 1..N /\ Visited \in Nodes /\ Visited \notin dependencies[Visited]
         /\ trace[Visited] = NoRecord
         /\ \A i \in (position + 1)..N : order[i] \in Nodes /\ order[i] # Visited
<1>1. position \in 1..N /\ Len(order) = N
  BY DEF GInv, OrderInv, TraceInv
<1>2. \A i \in 1..N : order[i] \in Nodes
  BY <1>1 DEF GInv, OrderInv
<1>3. \A i \in 1..N : i # position => order[i] # order[position]
  BY <1>1 DEF GInv, OrderInv, IsInjective
<1>4. \A i \in (position + 1)..N : i \in 1..N /\ i # position
  BY <1>1, GraphAssumption
<1>5. order[position] \notin dependencies[order[position]]
  <2>1. dependencies[order[position]] \subseteq Entries(order, position - 1)
    BY <1>1 DEF GInv, OrderInv
  <2>2. \A i \in 1..(position - 1) : i \in 1..N /\ i # position
    BY <1>1, GraphAssumption
  <2> QED
    BY <1>3, <2>1, <2>2 DEF Entries
<1>6. trace[order[position]] = NoRecord
  BY <1>1, GraphAssumption DEF GInv, TraceInv
<1> QED
  BY <1>1, <1>2, <1>3, <1>4, <1>5, <1>6 DEF Visited

\* A record goes to the node being visited and to no other, and a success keeps to what
\* its consumers rely on.
LEMMA RecordStep ==
  ASSUME GInv, at \in {"visiting", "callback"}, UNCHANGED <<graph, snapshot, expired>>,
         NEW status \in Statuses, NEW source \in 0..MaxSnapshot, Record(status, source),
         status = "succeeded" =>
           source = snapshot /\ (Visited \in Demanding => Unavailable = {})
  PROVE  /\ GInv' /\ trace'[Visited].status = status
         /\ \A n \in Nodes : n # Visited => trace'[n] = trace[n]
<1> DEFINE record == [status |-> status, snapshot |-> source]
<1>1. /\ trace' = [trace EXCEPT ![Visited] = record]
      /\ at' = IF position = N THEN "ready" ELSE "visiting"
      /\ position' = position + 1
  BY DEF Record
<1>2. /\ position \in 1..N /\ Visited \in Nodes /\ Visited \notin dependencies[Visited]
      /\ trace[Visited] = NoRecord
      /\ \A i \in (position + 1)..N : order[i] \in Nodes /\ order[i] # Visited
  BY VisitedNode
<1>3. trace \in [Nodes -> Records] /\ snapshot \in 0..MaxSnapshot
  BY DEF GInv, TraceInv, Records
<1>4. trace' \in [Nodes -> Records] /\ trace'[Visited] = record
      /\ \A n \in Nodes : n # Visited => trace'[n] = trace[n]
  BY <1>1, <1>2, <1>3 DEF Records
<1>5. at' \in {"ready", "visiting"} /\ (at' = "visiting" => position + 1 <= N)
  BY <1>1, <1>2, GraphAssumption
<1>6. OrderInv'
  BY <1>5, EvaluateOrder DEF GInv
<1>7. order' = order /\ dependencies' = dependencies
  BY DEF graph
<1>8. \A i \in position'..N : trace'[order'[i]] = NoRecord
  <2>1. \A i \in position..N : trace[order[i]] = NoRecord
    BY DEF GInv, TraceInv
  <2>2. \A i \in (position + 1)..N : i \in position..N
    BY <1>2
  <2> QED
    BY <1>1, <1>2, <1>4, <1>7, <2>1, <2>2
<1>9. ActionableIsCurrent'
  <2> SUFFICES ASSUME NEW n \in Nodes, trace'[n].status = "succeeded"
               PROVE  /\ trace'[n].snapshot = snapshot
                      /\ n \in Demanding =>
                           \A d \in dependencies[n] : trace'[d].status = "succeeded"
    BY <1>7 DEF ActionableIsCurrent
  <2>1. dependencies[n] \in SUBSET Nodes
    BY DependenciesAreNodes DEF GInv
  <2>2. CASE n = Visited
    <3>1. status = "succeeded" /\ source = snapshot
      BY <1>4, <2>2
    <3>2. n \in Demanding => \A d \in dependencies[n] : trace[d].status = "succeeded"
      BY <2>2, <3>1 DEF Unavailable
    <3>3. \A d \in dependencies[n] : trace'[d] = trace[d]
      BY <1>2, <1>4, <2>1, <2>2
    <3> QED
      BY <1>4, <2>2, <3>1, <3>2, <3>3
  <2>3. CASE n # Visited
    <3>1. trace'[n] = trace[n]
      BY <1>4, <2>3
    <3>2. /\ trace[n].snapshot = snapshot
          /\ n \in Demanding => \A d \in dependencies[n] : trace[d].status = "succeeded"
      BY <3>1 DEF GInv, TraceInv, ActionableIsCurrent
    <3>3. NoRecord.status # "succeeded"
      BY DEF NoRecord
    <3>4. n \in Demanding => \A d \in dependencies[n] : d # Visited
      BY <1>2, <3>2, <3>3
    <3> QED
      BY <1>4, <2>1, <3>1, <3>2, <3>4
  <2> QED
    BY <2>2, <2>3
<1>10. TraceInv'
  <2>1. snapshot # 0
    BY DEF GInv, TraceInv
  <2>2. position' \in 1..(N + 1)
    BY <1>1, <1>2, GraphAssumption
  <2>3. expired' \in BOOLEAN /\ snapshot' \in 0..MaxSnapshot
    BY DEF GInv, TraceInv
  <2>4. at' \in {"visiting", "callback"} => position' <= N /\ snapshot' # 0
    BY <1>1, <1>5, <2>1
  <2>5. at' # "callback"
    BY <1>5
  <2> QED
    BY <1>4, <1>8, <1>9, <2>2, <2>3, <2>4, <2>5 DEF TraceInv, Records
<1> QED
  BY <1>4, <1>6, <1>10 DEF GInv

\* Before the constructor has accepted the graph there are no records.
LEMMA ConstructorStep ==
  ASSUME GInv, OrderNext \/ Built
  PROVE  GInv'
<1>1. OrderInv'
  BY OrderStep, BuiltOrder DEF GInv
<1>2. /\ at = "building" /\ at' \in {"building", "refused", "ready"}
      /\ UNCHANGED <<snapshot, expired, trace, position, dependencies>>
  BY DEF OrderNext, Built, graph
<1>3. TraceInv'
  BY <1>2 DEF GInv, TraceInv, ActionableIsCurrent
<1> QED
  BY <1>1, <1>3 DEF GInv

LEMMA EvaluateStep == ASSUME GInv, Evaluate PROVE GInv'
<1>1. /\ at = "ready" /\ snapshot < MaxSnapshot /\ snapshot' = snapshot + 1
      /\ expired' \in BOOLEAN /\ trace' = [n \in Nodes |-> NoRecord] /\ position' = 1
      /\ at' = (IF N = 0 THEN "ready" ELSE "visiting") /\ UNCHANGED graph
  BY DEF Evaluate
<1>2. N \in Nat /\ MaxSnapshot \in Nat
  BY GraphAssumption
<1>3. snapshot' \in 0..MaxSnapshot /\ snapshot' # 0
  BY <1>1, <1>2 DEF GInv, TraceInv
<1>4. OrderInv'
  BY <1>1, EvaluateOrder DEF GInv
<1>5. order' = order /\ Len(order) = N /\ \A i \in 1..N : order[i] \in Nodes
  BY <1>1 DEF graph, GInv, OrderInv
<1>6. NoRecord \in Records /\ NoRecord.status # "succeeded"
  BY <1>2 DEF NoRecord, Records
<1>7. trace' \in [Nodes -> Records] /\ \A i \in 1..N : trace'[order'[i]] = NoRecord
  BY <1>1, <1>5, <1>6
<1>8. ActionableIsCurrent'
  BY <1>1, <1>6 DEF ActionableIsCurrent
<1>9. position' \in 1..(N + 1) /\ (at' = "visiting" => position' <= N) /\ at' # "callback"
  BY <1>1, <1>2
<1> QED
  BY <1>1, <1>3, <1>4, <1>7, <1>8, <1>9 DEF GInv, TraceInv, Records

LEMMA PassingStep == ASSUME GInv, Run \/ Expire PROVE GInv'
<1>1. /\ at \in {"visiting", "callback"} /\ at' \in {"visiting", "callback"}
      /\ UNCHANGED <<graph, snapshot, trace, position>> /\ expired' \in BOOLEAN
      /\ at' = "callback" => at = "callback" \/ (Visited \in Demanding => Unavailable = {})
  BY DEF Run, Expire, GInv, TraceInv
<1>2. OrderInv'
  BY <1>1, EvaluateOrder DEF GInv
<1>3. UNCHANGED <<Visited, Unavailable, order, dependencies>>
  BY <1>1 DEF graph, Visited, Unavailable
<1>4. ActionableIsCurrent'
  BY <1>1, <1>3 DEF GInv, TraceInv, ActionableIsCurrent
<1>5. at' = "callback" /\ Visited' \in Demanding => Unavailable' = {}
  BY <1>1, <1>3 DEF GInv, TraceInv
<1> QED
  BY <1>1, <1>2, <1>3, <1>4, <1>5 DEF GInv, TraceInv

\* Nothing new succeeds after the deadline.
NothingNew ==
  expired => \A n \in Nodes : trace'[n].status = "succeeded" => trace[n] = trace'[n]

LEMMA BlockedStep == ASSUME GInv, Blocked PROVE GInv' /\ NothingNew
<1>1. at = "visiting" /\ UNCHANGED <<graph, snapshot, expired>>
  BY DEF Blocked
<1>2. PICK status \in {"stale", "skipped"} : Record(status, snapshot)
  BY DEF Blocked
<1>3. status \in Statuses /\ status # "succeeded" /\ snapshot \in 0..MaxSnapshot
  BY DEF Statuses, GInv, TraceInv
<1> QED
  BY <1>1, <1>2, <1>3, RecordStep DEF NothingNew

LEMMA ReturnStep ==
  ASSUME GInv, NEW status \in Statuses, NEW source \in 1..snapshot, Return(status, source)
  PROVE  GInv' /\ NothingNew
<1>1. at = "callback" /\ UNCHANGED <<graph, snapshot, expired>>
      /\ Record(StatusOf(status, source), source)
  BY DEF Return
<1>2. /\ StatusOf(status, source) \in Statuses
      /\ StatusOf(status, source) = "succeeded" => ~expired /\ source = snapshot
  BY DEF StatusOf, Statuses
<1>3. source \in 0..MaxSnapshot
  BY GraphAssumption DEF GInv, TraceInv
<1>4. Visited \in Demanding => Unavailable = {}
  BY <1>1 DEF GInv, TraceInv
<1>5. PICK result : result = StatusOf(status, source)
  OBVIOUS
<1>6. /\ GInv' /\ trace'[Visited].status = result
      /\ \A n \in Nodes : n # Visited => trace'[n] = trace[n]
  BY <1>1, <1>2, <1>3, <1>4, <1>5, RecordStep
<1> QED
  BY <1>2, <1>5, <1>6 DEF NothingNew

LEMMA StepInv == GInv /\ [Next]_vars => GInv'
<1> SUFFICES ASSUME GInv, [Next]_vars PROVE GInv'
  OBVIOUS
<1>1. CASE UNCHANGED vars
  <2>1. UNCHANGED <<dependencies, order, remaining, cursor, at, snapshot, expired, trace,
                    position>>
    BY <1>1 DEF vars, graph
  <2>2. UNCHANGED <<Done, Ordered, Visited, Unavailable>>
    BY <2>1 DEF Done, Ordered, Entries, Visited, Unavailable
  <2>3. OrderInv'
    <3>1. \A i \in 1..Len(order') :
            dependencies'[order'[i]] \subseteq Entries(order', i - 1)
      BY <2>1 DEF GInv, OrderInv
    <3> QED
      BY <2>1, <2>2, <3>1 DEF GInv, OrderInv
  <2>4. TraceInv'
    BY <2>1, <2>2 DEF GInv, TraceInv, ActionableIsCurrent
  <2> QED
    BY <2>3, <2>4 DEF GInv
<1>2. CASE Next
  BY <1>2, ConstructorStep, EvaluateStep, BlockedStep, PassingStep, ReturnStep DEF Next
<1> QED
  BY <1>1, <1>2

LEMMA Invariance == Spec => []GInv
BY InitOrder, StepInv, PTL DEF Spec

-----------------------------------------------------------------------------
LEMMA TypeInvariant == GInv => TypeOK
<1> SUFFICES ASSUME GInv PROVE TypeOK
  OBVIOUS
<1>1. /\ order \in Seq(Nodes) /\ IsInjective(order) /\ Len(order) \in Nat
      /\ order \in [1..Len(order) -> Nodes]
  BY DEF GInv, OrderInv
<1>2. Len(order) <= N
  <2>1. PICK k \in Nat : k = Len(order)
    BY <1>1
  <2>2. order \in Injection(1..k, Nodes)
    BY <1>1, <2>1 DEF Injection
  <2>3. IsFiniteSet(Nodes) /\ Cardinality(Nodes) = N
    BY GraphAssumption, FS_Interval DEF Nodes
  <2>4. Cardinality(1..k) = k
    BY FS_Interval
  <2>5. Cardinality(1..k) <= Cardinality(Nodes)
    BY <2>2, <2>3, FS_Injection
  <2> QED
    BY <2>1, <2>3, <2>4, <2>5
<1>3. \A n \in Nodes : dependencies[n] \ Done \in SUBSET Nodes
  BY DependenciesAreNodes DEF GInv
<1>4. remaining \in [Nodes -> 0..N]
  BY <1>3, SetsOfNodes DEF GInv, OrderInv
<1>5. cursor \in 1..(N + 1)
  <2>1. PICK k \in Nat : k = Len(order)
    BY <1>1
  <2>2. cursor \in 1..(k + 1) /\ k <= N
    BY <1>2, <2>1 DEF GInv, OrderInv
  <2> QED
    BY <2>1, <2>2, GraphAssumption
<1> QED
  BY <1>1, <1>2, <1>4, <1>5 DEF GInv, OrderInv, TraceInv, TypeOK

\* A graph is refused only if it has a cycle; the order of any other graph holds every
\* node once, behind its dependencies; and a success is of the snapshot evaluated, as are
\* the successes it rests on: graph.hpp:102-128 and evaluate().
THEOREM Consistent == Spec => []ResultsConsistent
<1>1. GInv => ResultsConsistent
  <2> SUFFICES ASSUME GInv PROVE ResultsConsistent
    OBVIOUS
  <2>1. at = "refused" => Cyclic
    BY RefusedIsCyclic DEF GInv
  <2>2. \A i \in DOMAIN order : dependencies[order[i]] \subseteq ToSet(SubSeq(order, 1, i - 1))
    <3> SUFFICES ASSUME NEW i \in DOMAIN order
                 PROVE  dependencies[order[i]] \subseteq ToSet(SubSeq(order, 1, i - 1))
      OBVIOUS
    <3>1. order \in Seq(Nodes) /\ i \in 1..Len(order)
      BY DEF GInv, OrderInv
    <3>2. /\ DOMAIN SubSeq(order, 1, i - 1) = 1..(i - 1)
          /\ \A j \in 1..(i - 1) : SubSeq(order, 1, i - 1)[j] = order[j]
      BY <3>1
    <3>3. Entries(order, i - 1) \subseteq ToSet(SubSeq(order, 1, i - 1))
      BY <3>2 DEF Entries, ToSet
    <3> QED
      BY <3>1, <3>3 DEF GInv, OrderInv
  <2> QED
    BY <2>1, <2>2, TypeInvariant
       DEF GInv, OrderInv, TraceInv, ResultsConsistent, Topological
<1> QED
  BY <1>1, Invariance, PTL

\* Once the deadline has passed no callback starts and no node succeeds, its own callback
\* included: expired() in graph.hpp's evaluate(), before a node and after its callback.
THEOREM NothingLate == Spec => NothingAfterDeadline
<1> DEFINE Late ==
      expired /\ snapshot' = snapshot =>
        /\ at' = "callback" => at = "callback"
        /\ \A n \in Nodes : trace'[n].status = "succeeded" => trace[n] = trace'[n]
<1>1. GInv /\ [Next]_vars => [Late]_vars
  <2> SUFFICES ASSUME GInv, Next PROVE Late
    OBVIOUS
  <2>1. CASE OrderNext \/ Built \/ Run \/ Expire
    BY <2>1 DEF OrderNext, Built, Run, Expire
  <2>2. CASE Evaluate
    BY <2>2 DEF Evaluate, GInv, TraceInv
  <2>3. CASE Blocked
    <3>1. at' # "callback"
      BY <2>3 DEF Blocked, Record
    <3> QED
      BY <2>3, <3>1, BlockedStep DEF NothingNew
  <2>4. ASSUME NEW status \in Statuses, NEW source \in 1..snapshot, Return(status, source)
        PROVE  Late
    <3>1. at' # "callback"
      BY <2>4 DEF Return, Record
    <3> QED
      BY <2>4, <3>1, ReturnStep DEF NothingNew
  <2> QED
    BY <2>1, <2>2, <2>3, <2>4 DEF Next
<1> QED
  BY <1>1, Invariance, PTL DEF Spec, NothingAfterDeadline

-----------------------------------------------------------------------------
(* KnowledgeMemory: what a memory, a file and the flights are. *)

\* What fails somewhere fails first somewhere.
LEMMA NoFirst ==
  ASSUME NEW S \in SUBSET Nat, 0 \notin S, \A k \in Nat : k + 1 \in S => k \in S
  PROVE  S = {}
<1> SUFFICES ASSUME S # {} PROVE FALSE
  OBVIOUS
<1>1. PICK k \in S : \A y \in S : ~(<<y, k>> \in OpToRel(<, Nat))
  BY NatLessThanWellFounded, WFMin
<1>2. \A y \in S : ~(y < k)
  BY <1>1, Zenon DEF OpToRel
<1>3. k \in Nat /\ k # 0
  OBVIOUS
<1>4. k - 1 \in Nat /\ k - 1 < k /\ k - 1 + 1 = k
  BY <1>3
<1> QED
  BY <1>2, <1>4

Fields == DOMAIN New

\* A column of the map, numbered by when it was seen.
Column(c, top) ==
  /\ DOMAIN c = {"rows", "observations", "changes", "order", "imported"}
  /\ c.observations \in Nat \ {0} /\ c.changes \in Nat /\ c.changes <= c.observations
  /\ c.order \in 1..top

\* No two columns were seen at the same time.
Mapped(cs, top) ==
  /\ IsFiniteSet(DOMAIN cs) /\ top \in Nat
  /\ \A x \in DOMAIN cs : Column(cs[x], top)
  /\ \A x, y \in DOMAIN cs : cs[x].order = cs[y].order => x = y

\* What a memory and a file have counted.
Tallied(f) ==
  /\ {f.observed, f.successes, f.failures, f.completed, f.bounces, f.jumps} \subseteq Nat
  /\ f.bounces <= f.completed /\ f.jumps = f.completed - f.bounces
  /\ f.successes <= f.observed /\ f.failures <= f.observed
  /\ IsFiniteSet(DOMAIN f.types) /\ Cardinality(DOMAIN f.types) <= MaxTypes

Jump == [active : BOOLEAN, bounced : BOOLEAN, start : Int, fell : BOOLEAN]

\* A memory between two lines: no flight without a frame before.
Remembers(k) ==
  /\ DOMAIN k = Fields /\ Mapped(k.columns, k.order) /\ Tallied(k)
  /\ k.epoch \in Int /\ k.frame \in Nat \cup {-1} /\ k.jump \in Jump
  /\ {k.valid, k.ground, k.recorded} \subseteq BOOLEAN
  /\ k.frame = -1 => ~k.valid
  /\ k.jump.active => k.valid

Filed(f) ==
  /\ DOMAIN f = DOMAIN Export(New) /\ Tallied(f)
  /\ \E top \in Nat : Mapped(f.columns, top)

Events == {"none", "death", "clear"}

Games == [session : BOOLEAN, run : Nat, deaths : Nat, stage : Nat, frame : Nat,
          epoch : Nat, event : Events]

\* What was seen last is where the game is.
Playing ==
  /\ game \in Games
  /\ game.event # "none" => game.session
  /\ seen = Nothing \/ \E s \in Scenes : seen = Frame(game, s)
  /\ seen # Nothing => ~Learnt(m, seen)

\* What was counted in a session is of the past; the event the memory knows is of it.
InSession ==
  /\ \A t \in counted : \E r, f \in Nat, e \in Events \ {"none"} :
       t = <<r, f, e>> /\ r <= game.run /\ (r = game.run => f <= game.frame)
  /\ m.event = Nothing \/ m.event \in counted

\* Without one it is of the past epochs, or of the one the memory knows.
NoSession ==
  /\ \A t \in counted : \E e \in Nat : t = <<e>> /\ e <= m.epoch
  /\ m.epoch <= game.epoch
  /\ m.recorded <=> <<m.epoch>> \in counted

Outcomes ==
  /\ base \in Nat /\ IsFiniteSet(counted) /\ OutcomesOnce
  /\ IF game.session THEN InSession ELSE NoSession

Trails == [start : Int, last : Int, whole : BOOLEAN, fell : BOOLEAN, bounced : BOOLEAN]

\* The memory's flight is the trail of it.
Flights ==
  /\ trail \in Trails
  /\ m.valid /\ m.ground =>
       trail = [NoTrail EXCEPT !.start = m.frame, !.last = m.frame, !.whole = TRUE]
  /\ m.jump.active =>
       /\ trail.whole /\ trail.start # -1 /\ trail.last = m.frame
       /\ trail.fell = m.jump.fell /\ trail.bounced = m.jump.bounced

Limits == torn \in BOOLEAN /\ (torn \/ Fits(m))

MemoryInv ==
  /\ Remembers(m) /\ Filed(file) /\ Limits
  /\ Playing /\ Outcomes /\ Flights

-----------------------------------------------------------------------------
(* A memory's fields. *)

LEMMA FieldsAre ==
  Fields = {"columns", "types", "order", "observed", "successes", "failures", "completed",
            "bounces", "jumps", "epoch", "frame", "identity", "event", "valid", "ground",
            "recorded", "foes", "jump"}
  BY DEF Fields, New

\* Memory a is k but for these fields.
But(k, F, a) == DOMAIN a = Fields /\ \A f \in Fields \ F : a[f] = k[f]

LEMMA SeenColumn ==
  ASSUME NEW k, NEW c, DOMAIN k = Fields
  PROVE  But(k, {"columns", "order"}, SeeColumn(k, c))
  BY FieldsAre DEF But, SeeColumn

\* One column more in the map.
AddsColumn(a, c, b) ==
  /\ But(a, {"columns", "order"}, b) /\ b.order = a.order + 1 /\ Mapped(b.columns, b.order)
  /\ DOMAIN b.columns = DOMAIN a.columns \cup {c[1]} /\ b.columns[c[1]].order = b.order
  /\ \A y \in DOMAIN a.columns : y # c[1] => b.columns[y] = a.columns[y]

LEMMA ColumnAdded ==
  ASSUME NEW a, NEW c, DOMAIN a = Fields, Mapped(a.columns, a.order)
  PROVE  AddsColumn(a, c, SeeColumn(a, c))
<1>1. PICK x, rows, cs, b : /\ x = c[1] /\ rows = c[2] /\ cs = a.columns
                            /\ b = SeeColumn(a, c)
  OBVIOUS
<1>2. PICK top \in Nat : top = a.order
  BY DEF Mapped
<1>3. PICK old : old = IF x \in DOMAIN cs THEN cs[x] ELSE Unseen
  OBVIOUS
<1>4. PICK new : new = [rows |-> rows, observations |-> old.observations + 1,
                        changes |-> IF old.observations > 0 /\ old.rows # rows
                                    THEN old.changes + 1 ELSE old.changes,
                        order |-> top + 1, imported |-> FALSE]
  OBVIOUS
<1>5. b = [a EXCEPT !.columns = [y \in DOMAIN @ \cup {x} |-> IF y = x THEN new ELSE @[y]],
                    !.order = @ + 1]
  BY <1>1, <1>2, <1>3, <1>4 DEF SeeColumn
<1>6. /\ But(a, {"columns", "order"}, b) /\ b.order = top + 1
      /\ b.columns = [y \in DOMAIN cs \cup {x} |-> IF y = x THEN new ELSE cs[y]]
  <2>1. DOMAIN a = {"columns", "order"} \cup Fields
    BY FieldsAre
  <2>2. DOMAIN b = Fields /\ \A f \in Fields \ {"columns", "order"} : b[f] = a[f]
    BY <1>5
  <2>3. b.order = top + 1
    BY <1>2, <1>5, <2>1
  <2>4. b.columns = [y \in DOMAIN cs \cup {x} |-> IF y = x THEN new ELSE cs[y]]
    BY <1>1, <1>5, <2>1
  <2> QED
    BY <2>2, <2>3, <2>4 DEF But
<1>7. old.observations \in Nat /\ old.changes \in Nat /\ old.changes <= old.observations
  BY <1>1, <1>2, <1>3 DEF Mapped, Column, Unseen
<1>8. Column(new, top + 1)
  <2>1. DOMAIN new = {"rows", "observations", "changes", "order", "imported"}
    BY <1>4
  <2>2. new.observations = old.observations + 1 /\ new.order = top + 1
    BY <1>4
  <2>3. new.changes = old.changes + 1 \/ new.changes = old.changes
    BY <1>4
  <2> QED
    BY <1>7, <2>1, <2>2, <2>3 DEF Column
<1>9. \A y \in DOMAIN cs : Column(cs[y], top) /\ cs[y].order \in 1..top
  BY <1>1, <1>2 DEF Mapped, Column
<1>10. Mapped(b.columns, top + 1)
  <2>1. DOMAIN b.columns = DOMAIN cs \cup {x} /\ b.columns[x] = new
    BY <1>6
  <2>2. \A y \in DOMAIN cs : y # x => b.columns[y] = cs[y]
    BY <1>6
  <2>3. IsFiniteSet(DOMAIN b.columns)
    BY <1>1, <2>1, FS_AddElement DEF Mapped
  <2>4. ASSUME NEW y \in DOMAIN b.columns PROVE Column(b.columns[y], top + 1)
    BY <1>8, <1>9, <2>1, <2>2 DEF Column
  <2>5. new.order = top + 1
    BY <1>4
  <2>6. ASSUME NEW y \in DOMAIN b.columns, NEW z \in DOMAIN b.columns,
               b.columns[y].order = b.columns[z].order
        PROVE  y = z
    BY <1>1, <1>9, <2>1, <2>2, <2>5, <2>6 DEF Mapped
  <2>7. top + 1 \in Nat
    OBVIOUS
  <2> QED
    BY <2>3, <2>4, <2>6, <2>7 DEF Mapped
<1>11. /\ DOMAIN b.columns = DOMAIN cs \cup {x} /\ b.columns[x].order = top + 1
       /\ \A y \in DOMAIN cs : y # x => b.columns[y] = cs[y]
  BY <1>4, <1>6
<1> QED
  BY <1>1, <1>2, <1>6, <1>10, <1>11 DEF AddsColumn

\* The loops over the columns and over the enemies, as one.
Step(columns, k, o, t, x) == IF columns THEN SeeColumn(t, x) ELSE MeetOne(k, o, t, x)
Steps(columns, k, o, xs, n, g) ==
  g = [i \in 0..n |-> IF i = 0 THEN k ELSE Step(columns, k, o, g[i - 1], xs[i])]

LEMMA StepsExist ==
  ASSUME NEW columns, NEW k, NEW o, NEW xs, NEW n \in Nat
  PROVE  \E g : Steps(columns, k, o, xs, n, g)
<1> DEFINE Missing == {j \in Nat : ~\E g : Steps(columns, k, o, xs, j, g)}
           Turn(t, i) == Step(columns, k, o, t, xs[i])
           Follows(g, j) == g = [i \in 0..j |-> IF i = 0 THEN k ELSE Turn(g[i - 1], i)]
<1>1. \A g, j : Steps(columns, k, o, xs, j, g) <=> Follows(g, j)
  BY DEF Steps
<1> HIDE DEF Turn
<1>2. ASSUME NEW j \in Nat, NEW g, Follows(g, j) PROVE \E h : Follows(h, j + 1)
  <2> DEFINE h == [i \in 0..(j + 1) |-> IF i <= j THEN g[i] ELSE Turn(g[j], i)]
  <2>1. \A i \in 0..(j + 1) : i \in 0..j \/ i = j + 1
    OBVIOUS
  <2>2. \A i \in 0..j : h[i] = g[i]
    OBVIOUS
  <2>3. \A i \in 0..j : g[i] = IF i = 0 THEN k ELSE Turn(g[i - 1], i)
    BY <1>2
  <2>4. ASSUME NEW i \in 0..(j + 1)
        PROVE  h[i] = IF i = 0 THEN k ELSE Turn(h[i - 1], i)
    <3>1. CASE i = j + 1
      <4>1. h[i] = Turn(g[j], i) /\ i # 0 /\ i - 1 = j /\ j \in 0..j
        BY <3>1
      <4> HIDE DEF h
      <4> QED
        BY <2>2, <4>1
    <3>2. CASE i \in 0..j
      <4>1. i # 0 => i - 1 \in 0..j
        BY <3>2
      <4> HIDE DEF h
      <4> QED
        BY <2>2, <2>3, <3>2, <4>1
    <3> QED
      BY <2>1, <3>1, <3>2
  <2>5. h = [i \in 0..(j + 1) |-> h[i]]
    OBVIOUS
  <2> HIDE DEF h
  <2>6. h = [i \in 0..(j + 1) |-> IF i = 0 THEN k ELSE Turn(h[i - 1], i)]
    BY <2>4, <2>5
  <2> QED
    BY <2>6
<1>3. \E g : Follows(g, 0)
  <2>1. Follows([i \in 0..0 |-> k], 0)
    OBVIOUS
  <2> QED
    BY <2>1
<1> HIDE DEF Follows
<1>4. Missing = {}
  <2>1. 0 \notin Missing
    BY <1>1, <1>3
  <2>2. ASSUME NEW j \in Nat, j + 1 \in Missing PROVE j \in Missing
    BY <1>1, <1>2, <2>2
  <2>3. Missing \in SUBSET Nat
    OBVIOUS
  <2> HIDE DEF Missing
  <2> QED
    BY <2>1, <2>2, <2>3, NoFirst
<1> QED
  BY <1>4

LEMMA SawSteps ==
  ASSUME NEW k, NEW o, NEW view, NEW n \in Nat, n = Len(view)
  PROVE  Steps(TRUE, k, o, view, n, Saw(k, view))
<1>1. Saw(k, view) = CHOOSE g : Steps(TRUE, k, o, view, n, g)
  BY DEF Saw, Steps, Step
<1> QED
  BY <1>1, StepsExist

LEMMA MetSteps ==
  ASSUME NEW k, NEW o, NEW n \in Nat, n = Len(o.scene.foes)
  PROVE  Steps(FALSE, k, o, o.scene.foes, n, Met(k, o))
<1>1. Met(k, o) = CHOOSE g : Steps(FALSE, k, o, o.scene.foes, n, g)
  BY DEF Met, Steps, Step
<1> QED
  BY <1>1, StepsExist

-----------------------------------------------------------------------------
(* The columns. *)

\* Memory a has seen the first i columns, each at its time, after those k knew.
Surveyed(k, view, i, a) ==
  /\ But(k, {"columns", "order"}, a) /\ Mapped(a.columns, a.order) /\ a.order = k.order + i
  /\ \A y \in DOMAIN a.columns :
       \/ a.columns[y].order <= k.order
       \/ \E l \in 1..i : view[l][1] = y /\ a.columns[y].order = k.order + l
  /\ \A j \in 1..i :
       view[j][1] \in DOMAIN a.columns /\ a.columns[view[j][1]].order >= k.order + j

LEMMA SurveyGoesOn ==
  ASSUME NEW k, NEW view, NEW i \in Nat, NEW a, DOMAIN k = Fields,
         Mapped(k.columns, k.order), Surveyed(k, view, i, a)
  PROVE  Surveyed(k, view, i + 1, SeeColumn(a, view[i + 1]))
<1>1. PICK x, b : x = view[i + 1][1] /\ b = SeeColumn(a, view[i + 1])
  OBVIOUS
<1>2. DOMAIN a = Fields /\ Mapped(a.columns, a.order) /\ a.order = k.order + i
  BY DEF Surveyed, But
<1>3. AddsColumn(a, view[i + 1], b)
  BY <1>1, <1>2, ColumnAdded
<1>4. PICK top \in Nat : top = k.order
  BY DEF Mapped
<1>5. a.order = top + i /\ b.order = top + i + 1
  BY <1>2, <1>3, <1>4 DEF AddsColumn
<1>6. PICK as, bs : as = a.columns /\ bs = b.columns
  OBVIOUS
<1>7. /\ But(a, {"columns", "order"}, b) /\ Mapped(bs, b.order)
      /\ DOMAIN bs = DOMAIN as \cup {x} /\ bs[x].order = top + i + 1
      /\ \A y \in DOMAIN as : y # x => bs[y] = as[y]
  BY <1>1, <1>3, <1>5, <1>6 DEF AddsColumn
<1>8. But(k, {"columns", "order"}, b)
  BY <1>7 DEF Surveyed, But
<1>9. i + 1 \in 1..(i + 1) /\ \A l \in 1..i : l \in 1..(i + 1)
  OBVIOUS
<1>10. ASSUME NEW y \in DOMAIN bs
       PROVE  \/ bs[y].order <= top
              \/ \E l \in 1..(i + 1) : view[l][1] = y /\ bs[y].order = top + l
  <2>1. CASE y = x
    <3>1. view[i + 1][1] = y /\ bs[y].order = top + (i + 1)
      BY <1>1, <1>7, <2>1
    <3> QED
      BY <1>9, <3>1
  <2>2. CASE y # x
    <3>1. y \in DOMAIN as /\ bs[y] = as[y]
      BY <1>7, <2>2
    <3>2. as[y].order <= top \/ \E l \in 1..i : view[l][1] = y /\ as[y].order = top + l
      BY <1>4, <1>6, <3>1 DEF Surveyed
    <3> QED
      BY <1>9, <3>1, <3>2
  <2> QED
    BY <2>1, <2>2
<1>11. ASSUME NEW j \in 1..(i + 1)
       PROVE  view[j][1] \in DOMAIN bs /\ bs[view[j][1]].order >= top + j
  <2>1. CASE view[j][1] = x
    <3>1. top + i + 1 >= top + j
      BY SMT
    <3> QED
      BY <1>7, <2>1, <3>1
  <2>2. CASE view[j][1] # x
    <3>1. j \in 1..i
      BY <1>1, <2>2
    <3>2. view[j][1] \in DOMAIN as /\ as[view[j][1]].order >= top + j
      BY <1>4, <1>6, <3>1 DEF Surveyed
    <3> QED
      BY <1>7, <2>2, <3>2
  <2> QED
    BY <2>1, <2>2
<1>12. b.order = top + (i + 1)
  BY <1>5
<1>13. Surveyed(k, view, i + 1, b)
  BY <1>4, <1>6, <1>7, <1>8, <1>10, <1>11, <1>12 DEF Surveyed
<1> QED
  BY <1>1, <1>13

LEMMA ColumnsSurveyed ==
  ASSUME NEW k, NEW view, DOMAIN k = Fields, Mapped(k.columns, k.order),
         view \in Seq(Range(view)), NEW n, n = Len(view)
  PROVE  n \in Nat /\ \A i \in 0..n : Surveyed(k, view, i, Saw(k, view)[i])
<1>1. n \in Nat
  BY LenProperties
<1>2. PICK g : g = Saw(k, view)
  OBVIOUS
<1>3. \A i \in 0..n : g[i] = IF i = 0 THEN k ELSE SeeColumn(g[i - 1], view[i])
  <2>1. \A o : Steps(TRUE, k, o, view, n, g)
    BY <1>1, <1>2, SawSteps
  <2>2. g = [i \in 0..n |-> IF i = 0 THEN k ELSE Step(TRUE, k, 0, g[i - 1], view[i])]
    BY <2>1 DEF Steps
  <2>3. \A i \in 0..n : g[i] = IF i = 0 THEN k ELSE Step(TRUE, k, 0, g[i - 1], view[i])
    BY <2>2
  <2> QED
    BY <2>3 DEF Step
<1> DEFINE Wrong == {i \in Nat : i <= n /\ ~Surveyed(k, view, i, g[i])}
<1>4. Surveyed(k, view, 0, g[0])
  <2>1. g[0] = k
    BY <1>1, <1>3
  <2>2. k.order \in Nat /\ 1..0 = {}
    BY DEF Mapped
  <2>3. \A y \in DOMAIN k.columns : k.columns[y].order <= k.order
    BY <2>2 DEF Mapped, Column
  <2>4. But(k, {"columns", "order"}, k)
    BY DEF But
  <2>5. Surveyed(k, view, 0, k)
    BY <2>2, <2>3, <2>4 DEF Surveyed
  <2> QED
    BY <2>1, <2>5
<1>5. Wrong = {}
  <2>1. 0 \notin Wrong
    BY <1>4
  <2>2. ASSUME NEW i \in Nat, i + 1 \in Wrong PROVE i \in Wrong
    <3>1. i + 1 <= n /\ i <= n /\ ~Surveyed(k, view, i + 1, g[i + 1])
      BY <1>1, <2>2
    <3>2. i + 1 \in 0..n /\ i + 1 # 0 /\ (i + 1) - 1 = i
      BY <1>1, <3>1
    <3>3. g[i + 1] = SeeColumn(g[i], view[i + 1])
      BY <1>3, <3>2
    <3>4. ~Surveyed(k, view, i, g[i])
      BY <3>1, <3>3, SurveyGoesOn
    <3> QED
      BY <3>1, <3>4
  <2>3. Wrong \in SUBSET Nat
    OBVIOUS
  <2> HIDE DEF Wrong
  <2> QED
    BY <2>1, <2>2, <2>3, NoFirst
<1>6. \A i \in 0..n : Surveyed(k, view, i, g[i])
  BY <1>1, <1>5
<1> QED
  BY <1>1, <1>2, <1>6

\* The columns evicted leave those with fewer than MaxColumns newer ones.
Evicted(a, b) ==
  /\ But(a, {"columns"}, b) /\ Mapped(b.columns, b.order)
  /\ Cardinality(DOMAIN b.columns) <= MaxColumns
  /\ \A y \in DOMAIN a.columns :
       Cardinality(Newer(a.columns, y)) < MaxColumns => y \in DOMAIN b.columns

LEMMA ColumnsEvicted ==
  ASSUME NEW a, DOMAIN a = Fields, Mapped(a.columns, a.order)
  PROVE  Evicted(a, Evict(a))
<1>1. PICK cs, b : cs = a.columns /\ b = Evict(a)
  OBVIOUS
<1>2. PICK kept : kept = {x \in DOMAIN cs : Cardinality(Newer(cs, x)) < MaxColumns}
  OBVIOUS
<1>3. b = [a EXCEPT !.columns = [x \in kept |-> @[x]]]
  BY <1>1, <1>2 DEF Evict
<1>4. "columns" \in DOMAIN a /\ "order" \in Fields \ {"columns"}
  BY FieldsAre
<1>5. But(a, {"columns"}, b) /\ b.order = a.order
  BY <1>3, <1>4 DEF But
<1>6. b.columns = [x \in kept |-> cs[x]]
  BY <1>1, <1>3, <1>4
<1>7. DOMAIN b.columns = kept /\ \A x \in kept : b.columns[x] = cs[x]
  BY <1>6
<1>8. /\ IsFiniteSet(DOMAIN cs) /\ a.order \in Nat
      /\ \A x \in DOMAIN cs : Column(cs[x], a.order) /\ cs[x].order \in Nat
      /\ \A x, y \in DOMAIN cs : cs[x].order = cs[y].order => x = y
  BY <1>1 DEF Mapped, Column
<1>9. kept \in SUBSET DOMAIN cs /\ IsFiniteSet(kept)
  BY <1>2, <1>8, FS_Subset
<1>10. Mapped(b.columns, b.order)
  BY <1>5, <1>7, <1>8, <1>9 DEF Mapped
<1>11. Cardinality(kept) <= MaxColumns
  <2>1. ASSUME NEW x \in DOMAIN cs
        PROVE  IsFiniteSet(Newer(cs, x)) /\ Cardinality(Newer(cs, x)) \in Nat
    <3>1. Newer(cs, x) \in SUBSET DOMAIN cs
      BY DEF Newer
    <3> QED
      BY <1>8, <3>1, FS_Subset, FS_CardinalityType
  <2>2. ASSUME NEW x \in DOMAIN cs, NEW y \in DOMAIN cs, cs[x].order < cs[y].order
        PROVE  Cardinality(Newer(cs, x)) # Cardinality(Newer(cs, y))
    <3>1. Newer(cs, y) \in SUBSET Newer(cs, x)
      BY <1>8, <2>2 DEF Newer
    <3>2. y \in Newer(cs, x) /\ y \notin Newer(cs, y)
      BY <1>8, <2>2 DEF Newer
    <3> QED
      BY <2>1, <3>1, <3>2, FS_Subset
  <2> DEFINE rank == [x \in kept |-> Cardinality(Newer(cs, x))]
             T == 0..(MaxColumns - 1)
  <2>3. MaxColumns \in Nat \ {0}
    BY MemoryAssumption
  <2>4. \A x \in kept : rank[x] \in T
    BY <1>2, <2>1, <2>3
  <2>5. ASSUME NEW x \in kept, NEW y \in kept, rank[x] = rank[y] PROVE x = y
    <3>1. cs[x].order \in Nat /\ cs[y].order \in Nat
      BY <1>8, <1>9
    <3>2. ~(cs[x].order < cs[y].order) /\ ~(cs[y].order < cs[x].order)
      BY <1>9, <2>2, <2>5
    <3>3. cs[x].order = cs[y].order
      BY <3>1, <3>2
    <3> QED
      BY <1>8, <1>9, <3>3
  <2>6. rank \in [kept -> T]
    BY <2>4
  <2> HIDE DEF rank
  <2>7. rank \in Injection(kept, T)
    BY <2>5, <2>6 DEF Injection, IsInjective
  <2>8. IsFiniteSet(T) /\ Cardinality(T) = MaxColumns
    BY <2>3, FS_Interval
  <2> HIDE DEF T
  <2> QED
    BY <2>7, <2>8, FS_Injection
<1>12. Cardinality(DOMAIN b.columns) <= MaxColumns
  BY <1>7, <1>11
<1>13. \A y \in DOMAIN cs : Cardinality(Newer(cs, y)) < MaxColumns => y \in DOMAIN b.columns
  BY <1>2, <1>7
<1>14. Evicted(a, b)
  BY <1>1, <1>5, <1>10, <1>12, <1>13 DEF Evicted
<1> QED
  BY <1>1, <1>14

\* What was seen last of a view is left in the map, as far as it fits.
LEMMA NewestSurvive ==
  ASSUME NEW k, NEW view, NEW n \in Nat, NEW a, NEW b, Mapped(k.columns, k.order),
         Surveyed(k, view, n, a), Evicted(a, b), NEW i \in 1..n,
         Cardinality({view[j][1] : j \in i..n}) <= MaxColumns
  PROVE  view[i][1] \in DOMAIN b.columns
<1>1. PICK top \in Nat : top = k.order
  BY DEF Mapped
<1>2. PICK as, x : as = a.columns /\ x = view[i][1]
  OBVIOUS
<1> DEFINE U == {view[j][1] : j \in i..n}
<1>3. x \in U /\ x \in DOMAIN as
  BY <1>2 DEF Surveyed
<1>4. IsFiniteSet(U) /\ Cardinality(U) \in Nat
  <2> DEFINE f == [j \in i..n |-> view[j][1]]
  <2>1. f \in [i..n -> U] /\ \A u \in U : \E j \in i..n : f[j] = u
    OBVIOUS
  <2>2. IsFiniteSet(i..n)
    BY FS_Interval
  <2> HIDE DEF f, U
  <2>3. f \in Surjection(i..n, U)
    BY <2>1 DEF Surjection
  <2>4. IsFiniteSet(U)
    BY <2>2, <2>3, FS_Surjection
  <2> QED
    BY <2>4, FS_CardinalityType
<1>5. Newer(as, x) \in SUBSET (U \ {x})
  <2> SUFFICES ASSUME NEW y \in DOMAIN as, as[y].order > as[x].order
               PROVE  y \in U \ {x}
    BY DEF Newer
  <2>1. as[x].order >= top + i /\ as[x].order \in Nat /\ as[y].order \in Nat
    BY <1>1, <1>2, <1>3 DEF Surveyed, Mapped, Column
  <2>2. PICK ox \in Nat, oy \in Nat : ox = as[x].order /\ oy = as[y].order
    BY <2>1
  <2>3. oy > ox /\ ox >= top + i
    BY <2>1, <2>2
  <2>4. i \in Nat \ {0}
    OBVIOUS
  <2>5. oy > top
    BY <2>3, <2>4
  <2>6. as[y].order <= k.order \/ \E l \in 1..n : view[l][1] = y /\ as[y].order = k.order + l
    BY <1>2 DEF Surveyed
  <2>7. oy <= top \/ \E l \in 1..n : view[l][1] = y /\ oy = top + l
    BY <1>1, <2>2, <2>6
  <2>8. PICK l \in 1..n : view[l][1] = y /\ oy = top + l
    BY <2>5, <2>7
  <2>9. l \in i..n
    BY <2>3, <2>4, <2>8
  <2>10. y # x
    <3> SUFFICES ASSUME y = x PROVE FALSE
      OBVIOUS
    <3>1. oy = ox
      BY ONLY <2>2, y = x, Zenon
    <3> QED
      BY <2>3, <3>1
  <2> QED
    BY <2>8, <2>9, <2>10
<1> HIDE DEF U
<1>6. IsFiniteSet(U \ {x}) /\ Cardinality(U \ {x}) = Cardinality(U) - 1
  BY <1>3, <1>4, FS_RemoveElement
<1>7. IsFiniteSet(Newer(as, x)) /\ Cardinality(Newer(as, x)) <= Cardinality(U \ {x})
  BY <1>5, <1>6, FS_Subset
<1>8. Cardinality(Newer(as, x)) \in Nat /\ MaxColumns \in Nat
  BY <1>7, FS_CardinalityType, MemoryAssumption
<1>9. Cardinality(U) <= MaxColumns
  BY DEF U
<1>10. Cardinality(Newer(as, x)) < MaxColumns
  <2>1. PICK c \in Nat, r \in {Cardinality(U \ {x})}, w \in Nat :
          /\ c = Cardinality(U) /\ r = Cardinality(U \ {x})
          /\ w = Cardinality(Newer(as, x))
    BY <1>4, <1>8
  <2>2. r = c - 1 /\ w <= r /\ c <= MaxColumns
    BY <1>6, <1>7, <1>9, <2>1
  <2>3. w < MaxColumns
    BY <1>8, <2>2
  <2> QED
    BY <2>1, <2>3
<1> QED
  BY <1>2, <1>3, <1>10 DEF Evicted

-----------------------------------------------------------------------------
(* One frame. *)

\* A frame of the game.
IsFrame(o) ==
  /\ o.session \in BOOLEAN /\ o.epoch \in Nat /\ o.frame \in Nat /\ o.event \in Events
  /\ o.scene \in Scenes
  /\ ~o.session => o.event = "none" /\ o.identity = Nothing

\* The episode is not the one the memory is in.
Resets(k, o) == IF o.session THEN o.identity # k.identity ELSE o.epoch # k.epoch

Episode == {"frame", "valid", "recorded", "foes", "jump"}

\* What the choice of the episode does.
Enters(k, o, e) ==
  /\ But(k, Episode \cup {"epoch", "identity"}, e)
  /\ e.epoch = o.epoch /\ e.identity = IF o.session THEN o.identity ELSE Nothing
  /\ IF Resets(k, o) THEN /\ e.frame = -1 /\ e.valid = FALSE /\ e.recorded = FALSE
                          /\ e.jump = NoJump
     ELSE /\ e.frame = k.frame /\ e.valid = k.valid /\ e.recorded = k.recorded
          /\ e.jump = k.jump

LEMMA EpisodeEntered ==
  ASSUME NEW k, NEW o, DOMAIN k = Fields, o.session \in BOOLEAN
  PROVE  Enters(k, o, Enter(k, o))
<1>1. PICK e : e = Enter(k, o)
  OBVIOUS
<1>2. DOMAIN k = Fields \cup {"epoch", "identity", "frame", "valid", "recorded", "foes",
                              "jump"}
  BY FieldsAre
<1>3. PICK r : r = IF Resets(k, o) THEN ResetEpisode(k, o.epoch) ELSE k
  OBVIOUS
<1>4. /\ DOMAIN r = Fields /\ \A f \in Fields \ (Episode \cup {"epoch"}) : r[f] = k[f]
      /\ IF Resets(k, o) THEN /\ r.frame = -1 /\ r.valid = FALSE /\ r.recorded = FALSE
                              /\ r.jump = NoJump /\ r.epoch = o.epoch
         ELSE r = k
  BY <1>2, <1>3 DEF ResetEpisode, Episode
<1>5. e = IF o.session THEN [r EXCEPT !.epoch = o.epoch, !.identity = o.identity]
          ELSE [r EXCEPT !.identity = Nothing]
  BY <1>1, <1>3 DEF Enter, Resets
<1>6. /\ DOMAIN e = Fields /\ \A f \in Fields \ {"epoch", "identity"} : e[f] = r[f]
      /\ e.identity = IF o.session THEN o.identity ELSE Nothing
      /\ e.epoch = IF o.session THEN o.epoch ELSE r.epoch
  BY <1>2, <1>4, <1>5
<1>7. ~o.session => r.epoch = o.epoch
  BY <1>4 DEF Resets
<1>8. e.epoch = o.epoch
  BY <1>6, <1>7
<1>9. /\ e.frame = r.frame /\ e.valid = r.valid /\ e.recorded = r.recorded
      /\ e.jump = r.jump
  BY <1>2, <1>6
<1>10. But(k, Episode \cup {"epoch", "identity"}, e)
  BY <1>4, <1>6 DEF But, Episode
<1> QED
  BY <1>1, <1>4, <1>6, <1>8, <1>9, <1>10 DEF Enters

\* The next one of the same episode goes on.
LEMMA EpisodeGoesOn ==
  ASSUME NEW k, NEW o, o.session \in BOOLEAN, k.epoch = o.epoch,
         k.identity = IF o.session THEN o.identity ELSE Nothing
  PROVE  ~Resets(k, o)
  BY DEF Resets

\* The loop over the enemies keeps the types within their limit.
LEMMA EnemyMet ==
  ASSUME NEW k, NEW o, NEW t, NEW f, But(k, {"types"}, t), "types" \in Fields,
         IsFiniteSet(DOMAIN t.types), Cardinality(DOMAIN t.types) <= MaxTypes
  PROVE  LET u == MeetOne(k, o, t, f)
         IN  /\ But(k, {"types"}, u) /\ IsFiniteSet(DOMAIN u.types)
             /\ Cardinality(DOMAIN u.types) <= MaxTypes
<1>1. PICK u : u = MeetOne(k, o, t, f)
  OBVIOUS
<1>2. CASE ~Kept(t, f)
  <2>1. u = t
    BY <1>1, <1>2 DEF MeetOne
  <2> QED
    BY <1>1, <2>1
<1>3. CASE Kept(t, f)
  <2>1. PICK new : u = [t EXCEPT !.types = [y \in DOMAIN t.types \cup {f[2]} |->
                                               IF y = f[2] THEN new ELSE t.types[y]]]
    BY <1>1, <1>3 DEF MeetOne
  <2>2. But(k, {"types"}, u) /\ DOMAIN u.types = DOMAIN t.types \cup {f[2]}
    BY <2>1 DEF But
  <2>3. /\ IsFiniteSet(DOMAIN t.types \cup {f[2]})
        /\ Cardinality(DOMAIN t.types \cup {f[2]})
             = IF f[2] \in DOMAIN t.types THEN Cardinality(DOMAIN t.types)
               ELSE Cardinality(DOMAIN t.types) + 1
    BY FS_AddElement
  <2>4. Cardinality(DOMAIN t.types) \in Nat /\ MaxTypes \in Nat
    BY FS_CardinalityType, MemoryAssumption
  <2>5. f[2] \in DOMAIN t.types \/ Cardinality(DOMAIN t.types) < MaxTypes
    BY <1>3 DEF Kept
  <2>6. Cardinality(DOMAIN t.types \cup {f[2]}) <= MaxTypes
    BY <2>3, <2>4, <2>5
  <2> QED
    BY <1>1, <2>2, <2>3, <2>6
<1> QED
  BY <1>2, <1>3

Meets(k, u) ==
  /\ But(k, {"types", "foes"}, u) /\ IsFiniteSet(DOMAIN u.types)
  /\ Cardinality(DOMAIN u.types) <= MaxTypes

LEMMA EnemiesMet ==
  ASSUME NEW k, NEW o, DOMAIN k = Fields, o.scene.foes \in Seq(Range(o.scene.foes)),
         IsFiniteSet(DOMAIN k.types), Cardinality(DOMAIN k.types) <= MaxTypes
  PROVE  Meets(k, Meet(k, o))
<1>1. PICK n \in Nat : n = Len(o.scene.foes)
  BY LenProperties
<1>2. PICK g, xs : g = Met(k, o) /\ xs = o.scene.foes
  OBVIOUS
<1>3. \A i \in 0..n : g[i] = IF i = 0 THEN k ELSE MeetOne(k, o, g[i - 1], xs[i])
  BY <1>1, <1>2, MetSteps DEF Steps, Step
<1>4. "types" \in Fields /\ "foes" \in Fields
  BY FieldsAre
<1> DEFINE Right(t) == /\ But(k, {"types"}, t) /\ IsFiniteSet(DOMAIN t.types)
                       /\ Cardinality(DOMAIN t.types) <= MaxTypes
           Wrong == {i \in Nat : i <= n /\ ~Right(g[i])}
<1>5. Right(g[0])
  <2>1. g[0] = k
    BY <1>3
  <2>2. But(k, {"types"}, k)
    BY DEF But
  <2> QED
    BY <2>1, <2>2
<1>6. Wrong = {}
  <2>1. 0 \notin Wrong
    BY <1>5
  <2>2. ASSUME NEW i \in Nat, i + 1 \in Wrong PROVE i \in Wrong
    <3>1. i + 1 <= n /\ i <= n /\ ~Right(g[i + 1])
      BY <2>2
    <3>2. i + 1 \in 0..n /\ i + 1 # 0 /\ (i + 1) - 1 = i
      BY <3>1
    <3>3. g[i + 1] = MeetOne(k, o, g[i], xs[i + 1])
      BY <1>3, <3>2
    <3>4. ~Right(g[i])
      BY <1>4, <3>1, <3>3, EnemyMet
    <3> QED
      BY <3>1, <3>4
  <2>3. Wrong \in SUBSET Nat
    OBVIOUS
  <2> HIDE DEF Wrong
  <2> QED
    BY <2>1, <2>2, <2>3, NoFirst
<1>7. n \notin Wrong
  BY <1>6
<1>8. PICK t : t = g[n] /\ Right(t)
  BY <1>7
<1>9. PICK foes : Meet(k, o) = [t EXCEPT !.foes = foes]
  BY <1>1, <1>2, <1>8 DEF Meet
<1>10. PICK u : u = Meet(k, o)
  OBVIOUS
<1>11. DOMAIN u = Fields /\ u.types = t.types /\ \A f \in Fields \ {"foes"} : u[f] = t[f]
  BY <1>4, <1>8, <1>9, <1>10 DEF But
<1>12. But(k, {"types", "foes"}, u)
  BY <1>8, <1>11 DEF But
<1> QED
  BY <1>8, <1>10, <1>11, <1>12 DEF Meets

\* A frame goes from the columns to the enemies, the flight, the outcome and its end.
Looks(e, o, a) ==
  /\ But(e, {"columns", "order", "observed", "types", "foes"}, a)
  /\ a.observed = e.observed + 1 /\ Mapped(a.columns, a.order)
  /\ IsFiniteSet(DOMAIN a.types) /\ Cardinality(DOMAIN a.types) <= MaxTypes
  /\ IF Dead(o) THEN a.columns = e.columns
     ELSE /\ Cardinality(DOMAIN a.columns) <= MaxColumns
          /\ \A i \in DOMAIN o.scene.view :
               Cardinality({o.scene.view[j][1] : j \in i..Len(o.scene.view)}) <= MaxColumns
                 => o.scene.view[i][1] \in DOMAIN a.columns

\* What the columns in view leave, all of them or those before the one that throws.
Scans(e, o, s) ==
  /\ But(e, {"columns", "order", "observed"}, s)
  /\ s.observed = e.observed + 1 /\ Mapped(s.columns, s.order)
  /\ Dead(o) => s.columns = e.columns

Seen(e, o) == See([e EXCEPT !.observed = @ + 1], o)

LEMMA SceneIs ==
  ASSUME NEW o, IsFrame(o)
  PROVE  /\ o.scene.view \in Seq(Range(o.scene.view))
         /\ o.scene.foes \in Seq(Range(o.scene.foes))
         /\ o.scene.motion \in {"up", "down", "level"}
         /\ {o.scene.known, o.scene.ground, o.scene.leaps, o.scene.dead, o.scene.clear,
              o.scene.torn} \subseteq BOOLEAN
  BY MemoryAssumption DEF IsFrame

LEMMA FrameScanned ==
  ASSUME NEW e, NEW o, DOMAIN e = Fields, Mapped(e.columns, e.order), IsFrame(o)
  PROVE  /\ Scans(e, o, Seen(e, o))
         /\ ~Dead(o) => \E k : /\ DOMAIN k = Fields /\ Mapped(k.columns, k.order)
                               /\ Surveyed(k, o.scene.view, Len(o.scene.view), Seen(e, o))
<1>1. PICK k : k = [e EXCEPT !.observed = @ + 1]
  OBVIOUS
<1>2. PICK view, n : view = o.scene.view /\ n = Len(view)
  OBVIOUS
<1>3. "observed" \in Fields /\ "columns" \in Fields /\ "order" \in Fields
  BY FieldsAre
<1>4. /\ DOMAIN k = Fields /\ k.observed = e.observed + 1
      /\ \A f \in Fields \ {"observed"} : k[f] = e[f]
  BY <1>1, <1>3
<1>5. k.columns = e.columns /\ k.order = e.order
  BY <1>3, <1>4
<1>6. Mapped(k.columns, k.order)
  BY <1>5
<1>7. CASE Dead(o)
  <2>1. Seen(e, o) = k
    BY <1>1, <1>7 DEF Seen, See
  <2>2. Scans(e, o, k)
    BY <1>4, <1>5, <1>6 DEF Scans, But
  <2> QED
    BY <1>7, <2>1, <2>2
<1>8. CASE ~Dead(o)
  <2>1. PICK s : s = Saw(k, view)[n]
    OBVIOUS
  <2>2. Seen(e, o) = s
    BY <1>1, <1>2, <1>8, <2>1 DEF Seen, See
  <2>3. view \in Seq(Range(view))
    BY <1>2, SceneIs
  <2>4. n \in Nat /\ Surveyed(k, view, n, s)
    <3>1. n \in Nat /\ \A i \in 0..n : Surveyed(k, view, i, Saw(k, view)[i])
      BY <1>2, <1>4, <1>6, <2>3, ColumnsSurveyed
    <3> QED
      BY <2>1, <3>1
  <2>5. But(k, {"columns", "order"}, s) /\ Mapped(s.columns, s.order)
    BY <2>4 DEF Surveyed
  <2>6. DOMAIN s = Fields /\ \A f \in Fields \ {"columns", "order"} : s[f] = k[f]
    BY <2>5 DEF But
  <2>7. s.observed = e.observed + 1
    BY <1>3, <1>4, <2>6
  <2>8. But(e, {"columns", "order", "observed"}, s)
    BY <1>4, <2>6 DEF But
  <2>9. Scans(e, o, s)
    BY <1>8, <2>5, <2>7, <2>8 DEF Scans
  <2> QED
    BY <1>2, <1>4, <1>6, <2>2, <2>4, <2>9
<1> QED
  BY <1>7, <1>8

LEMMA FrameLooked ==
  ASSUME NEW e, NEW o, DOMAIN e = Fields, Mapped(e.columns, e.order), IsFrame(o),
         IsFiniteSet(DOMAIN e.types), Cardinality(DOMAIN e.types) <= MaxTypes
  PROVE  Looks(e, o, Meet(IF Dead(o) THEN Seen(e, o) ELSE Evict(Seen(e, o)), o))
<1>1. PICK s : s = Seen(e, o)
  OBVIOUS
<1>2. Scans(e, o, s)
  BY <1>1, FrameScanned
<1>3. PICK v : v = IF Dead(o) THEN s ELSE Evict(s)
  OBVIOUS
<1>4. PICK a : a = Meet(v, o)
  OBVIOUS
<1>5. /\ DOMAIN s = Fields /\ Mapped(s.columns, s.order) /\ s.observed = e.observed + 1
      /\ \A f \in Fields \ {"columns", "order", "observed"} : s[f] = e[f]
  BY <1>2 DEF Scans, But
<1>6. ~Dead(o) => Evicted(s, v)
  BY <1>3, <1>5, ColumnsEvicted
<1>7. {"columns", "order", "observed", "types", "foes"} \subseteq Fields
  BY FieldsAre
<1>8. But(s, {"columns"}, v) /\ Mapped(v.columns, v.order)
  <2>1. CASE Dead(o)
    BY <1>3, <1>5, <2>1 DEF But
  <2>2. CASE ~Dead(o)
    BY <1>6, <2>2 DEF Evicted
  <2> QED
    BY <2>1, <2>2
<1>9. /\ DOMAIN v = Fields /\ v.observed = s.observed /\ v.types = e.types
      /\ \A f \in Fields \ {"columns"} : v[f] = s[f]
  BY <1>5, <1>7, <1>8 DEF But
<1>10. Meets(v, a)
  BY <1>4, <1>9, SceneIs, EnemiesMet
<1>11. /\ DOMAIN a = Fields /\ \A f \in Fields \ {"types", "foes"} : a[f] = v[f]
       /\ IsFiniteSet(DOMAIN a.types) /\ Cardinality(DOMAIN a.types) <= MaxTypes
  BY <1>10 DEF Meets, But
<1>12. a.columns = v.columns /\ a.order = v.order /\ a.observed = e.observed + 1
  BY <1>5, <1>7, <1>9, <1>11
<1>13. But(e, {"columns", "order", "observed", "types", "foes"}, a)
  BY <1>5, <1>9, <1>11 DEF But
<1>14. Mapped(a.columns, a.order)
  BY <1>8, <1>12
<1>15. Dead(o) => a.columns = e.columns
  BY <1>2, <1>3, <1>12 DEF Scans
<1>16. ASSUME ~Dead(o)
       PROVE  /\ Cardinality(DOMAIN a.columns) <= MaxColumns
              /\ \A i \in DOMAIN o.scene.view :
                   Cardinality({o.scene.view[j][1] : j \in i..Len(o.scene.view)}) <= MaxColumns
                     => o.scene.view[i][1] \in DOMAIN a.columns
  <2>1. Evicted(s, v)
    BY <1>6, <1>16
  <2>2. PICK view, n : view = o.scene.view /\ n = Len(view)
    OBVIOUS
  <2>3. n \in Nat /\ DOMAIN view = 1..n
    BY <2>2, SceneIs, LenProperties
  <2>4. PICK k : Mapped(k.columns, k.order) /\ Surveyed(k, view, n, s)
    BY <1>1, <1>16, <2>2, FrameScanned
  <2>5. ASSUME NEW i \in 1..n, Cardinality({view[j][1] : j \in i..n}) <= MaxColumns
        PROVE  view[i][1] \in DOMAIN v.columns
    BY <2>1, <2>3, <2>4, <2>5, NewestSurvive
  <2>6. Cardinality(DOMAIN a.columns) <= MaxColumns
    BY <1>12, <2>1 DEF Evicted
  <2> QED
    BY <1>12, <2>2, <2>3, <2>5, <2>6
<1>17. Looks(e, o, a)
  BY <1>11, <1>12, <1>13, <1>14, <1>15, <1>16 DEF Looks
<1> QED
  BY <1>1, <1>3, <1>4, <1>17

-----------------------------------------------------------------------------
(* The flight and the outcome of a frame. *)

InTime(k, o) == o.frame - k.frame <= Gap
TakesOff(k, o) == InTime(k, o) /\ k.ground /\ ~o.scene.ground /\ o.scene.leaps

\* The jump a frame finds, or begins, and as the frame leaves it.
JumpOf(k, o) ==
  IF TakesOff(k, o) THEN [NoJump EXCEPT !.active = TRUE, !.start = k.frame] ELSE k.jump
Sampled(k, o) ==
  LET j == JumpOf(k, o)
  IN  [j EXCEPT !.bounced = @ \/ (j.fell /\ o.scene.motion = "up"),
                !.fell = IF o.scene.motion = "level" THEN @ ELSE o.scene.motion = "down"]

Flies(k, o) == k.valid /\ ~Dead(o) /\ ~Cleared(o) /\ JumpOf(k, o).active
Lands(k, o) == Flies(k, o) /\ InTime(k, o) /\ o.scene.ground

Flown(k, o, y) ==
  /\ But(k, {"jump", "completed", "bounces", "jumps"}, y)
  /\ y.completed = k.completed + (IF Lands(k, o) THEN 1 ELSE 0)
  /\ y.bounces = k.bounces + (IF Lands(k, o) /\ Sampled(k, o).bounced THEN 1 ELSE 0)
  /\ y.jumps = k.jumps + (IF Lands(k, o) /\ ~Sampled(k, o).bounced THEN 1 ELSE 0)
  /\ y.jump = IF ~Flies(k, o) THEN k.jump
              ELSE IF InTime(k, o) /\ ~o.scene.ground THEN Sampled(k, o) ELSE NoJump

LEMMA FlightFlown ==
  ASSUME NEW k, NEW o, DOMAIN k = Fields, {k.completed, k.bounces, k.jumps} \subseteq Nat
  PROVE  Flown(k, o, Fly(k, o))
<1>1. PICK y : y = Fly(k, o)
  OBVIOUS
<1>2. {"jump", "completed", "bounces", "jumps"} \subseteq Fields
  BY FieldsAre
<1>3. PICK j : j = Sampled(k, o)
  OBVIOUS
<1>4. y = IF ~Flies(k, o) THEN k
          ELSE IF ~InTime(k, o) THEN [k EXCEPT !.jump = NoJump]
          ELSE IF o.scene.ground THEN Land(k, j)
          ELSE [k EXCEPT !.jump = j]
  BY <1>1, <1>3 DEF Fly, Flies, InTime, TakesOff, JumpOf, Sampled
<1>5. CASE ~Flies(k, o)
  <2>1. y = k /\ ~Lands(k, o)
    BY <1>4, <1>5 DEF Lands
  <2>2. Flown(k, o, y)
    BY <1>5, <2>1 DEF Flown, But
  <2> QED
    BY <1>1, <2>2
<1>6. CASE Flies(k, o) /\ ~(InTime(k, o) /\ o.scene.ground)
  <2>1. PICK z : y = [k EXCEPT !.jump = z] /\ ~Lands(k, o)
                 /\ z = IF InTime(k, o) /\ ~o.scene.ground THEN j ELSE NoJump
    BY <1>4, <1>6 DEF Lands
  <2>2. /\ DOMAIN y = Fields /\ y.jump = z
        /\ \A f \in Fields \ {"jump"} : y[f] = k[f]
    BY <1>2, <2>1
  <2>3. y.completed = k.completed /\ y.bounces = k.bounces /\ y.jumps = k.jumps
    BY <1>2, <2>2
  <2>4. But(k, {"jump", "completed", "bounces", "jumps"}, y)
    BY <2>2 DEF But
  <2>5. Flown(k, o, y)
    BY <1>3, <1>6, <2>1, <2>2, <2>3, <2>4 DEF Flown
  <2> QED
    BY <1>1, <2>5
<1>7. CASE Flies(k, o) /\ InTime(k, o) /\ o.scene.ground
  <2>1. y = Land(k, j) /\ Lands(k, o)
    BY <1>4, <1>7 DEF Lands
  <2>2. /\ DOMAIN y = Fields /\ y.jump = NoJump /\ y.completed = k.completed + 1
        /\ y.bounces = (IF j.bounced THEN k.bounces + 1 ELSE k.bounces)
        /\ y.jumps = (IF j.bounced THEN k.jumps ELSE k.jumps + 1)
    BY <1>2, <2>1 DEF Land
  <2>3. But(k, {"jump", "completed", "bounces", "jumps"}, y)
    BY <2>1 DEF Land, But
  <2>4. Flown(k, o, y)
    BY <1>3, <1>7, <2>1, <2>2, <2>3 DEF Flown
  <2> QED
    BY <1>1, <2>4
<1> QED
  BY <1>5, <1>6, <1>7

\* An outcome that is shown is counted when it is a new one.
Fresh(k, o) ==
  /\ OutcomeOf(o) # "none"
  /\ IF o.session THEN EventId(o) # Nothing /\ EventId(o) # k.event ELSE ~k.recorded

Judges(k, o, j) ==
  /\ But(k, {"successes", "failures", "event", "recorded"}, j)
  /\ j.successes = k.successes + (IF Fresh(k, o) /\ OutcomeOf(o) = "clear" THEN 1 ELSE 0)
  /\ j.failures = k.failures + (IF Fresh(k, o) /\ OutcomeOf(o) = "death" THEN 1 ELSE 0)
  /\ j.event = (IF OutcomeOf(o) # "none" /\ EventId(o) # Nothing THEN EventId(o) ELSE k.event)
  /\ j.recorded = (IF OutcomeOf(o) # "none" THEN TRUE ELSE k.recorded)

LEMMA OutcomeJudged ==
  ASSUME NEW k, NEW o, DOMAIN k = Fields, {k.successes, k.failures} \subseteq Nat
  PROVE  Judges(k, o, Judge(k, o))
<1>1. PICK j : j = Judge(k, o)
  OBVIOUS
<1>2. {"successes", "failures", "event", "recorded"} \subseteq Fields
  BY FieldsAre
<1>3. CASE OutcomeOf(o) = "none"
  <2>1. j = k /\ ~Fresh(k, o)
    BY <1>1, <1>3 DEF Judge, Fresh
  <2>2. Judges(k, o, j)
    BY <1>3, <2>1 DEF Judges, But
  <2> QED
    BY <1>1, <2>2
<1>4. CASE OutcomeOf(o) # "none"
  <2>1. j = [k EXCEPT !.successes = IF Fresh(k, o) /\ OutcomeOf(o) = "clear" THEN @ + 1 ELSE @,
                      !.failures = IF Fresh(k, o) /\ OutcomeOf(o) = "death" THEN @ + 1 ELSE @,
                      !.event = IF EventId(o) # Nothing THEN EventId(o) ELSE @,
                      !.recorded = TRUE]
    BY <1>1, <1>4 DEF Judge, Fresh
  <2>2. /\ DOMAIN j = Fields /\ j.recorded = TRUE
        /\ j.successes = IF Fresh(k, o) /\ OutcomeOf(o) = "clear" THEN k.successes + 1
                         ELSE k.successes
        /\ j.failures = IF Fresh(k, o) /\ OutcomeOf(o) = "death" THEN k.failures + 1
                        ELSE k.failures
        /\ j.event = IF EventId(o) # Nothing THEN EventId(o) ELSE k.event
    BY <1>2, <2>1
  <2>3. But(k, {"successes", "failures", "event", "recorded"}, j)
    BY <2>1 DEF But
  <2>4. k.successes \in Nat /\ k.failures \in Nat
    OBVIOUS
  <2>5. /\ j.successes = k.successes
             + (IF Fresh(k, o) /\ OutcomeOf(o) = "clear" THEN 1 ELSE 0)
        /\ j.failures = k.failures
             + (IF Fresh(k, o) /\ OutcomeOf(o) = "death" THEN 1 ELSE 0)
    BY <2>2, <2>4
  <2>6. /\ j.event = (IF OutcomeOf(o) # "none" /\ EventId(o) # Nothing THEN EventId(o)
                      ELSE k.event)
        /\ j.recorded = (IF OutcomeOf(o) # "none" THEN TRUE ELSE k.recorded)
    BY <1>4, <2>2
  <2>7. Judges(k, o, j)
    BY <2>3, <2>5, <2>6 DEF Judges
  <2> QED
    BY <1>1, <2>7
<1> QED
  BY <1>3, <1>4

-----------------------------------------------------------------------------
(* What observe() makes of a memory. *)

LandingOf(e, o, b) ==
  /\ b.completed = e.completed + (IF Lands(e, o) THEN 1 ELSE 0)
  /\ b.bounces = e.bounces + (IF Lands(e, o) /\ Sampled(e, o).bounced THEN 1 ELSE 0)
  /\ b.jumps = e.jumps + (IF Lands(e, o) /\ ~Sampled(e, o).bounced THEN 1 ELSE 0)
  /\ b.jump = IF Dead(o) \/ Cleared(o) THEN [e.jump EXCEPT !.active = FALSE]
              ELSE IF ~Flies(e, o) THEN e.jump
              ELSE IF InTime(e, o) /\ ~o.scene.ground THEN Sampled(e, o) ELSE NoJump

EventOf(e, o, b) ==
  /\ b.successes = e.successes + (IF Fresh(e, o) /\ OutcomeOf(o) = "clear" THEN 1 ELSE 0)
  /\ b.failures = e.failures + (IF Fresh(e, o) /\ OutcomeOf(o) = "death" THEN 1 ELSE 0)
  /\ b.event = (IF OutcomeOf(o) # "none" /\ EventId(o) # Nothing THEN EventId(o) ELSE e.event)
  /\ b.recorded = (IF OutcomeOf(o) # "none" THEN TRUE ELSE e.recorded)

Learns(e, o, b) ==
  /\ DOMAIN b = Fields /\ Mapped(b.columns, b.order) /\ b.observed = e.observed + 1
  /\ IsFiniteSet(DOMAIN b.types) /\ Cardinality(DOMAIN b.types) <= MaxTypes
  /\ IF Dead(o) THEN b.columns = e.columns
     ELSE /\ Cardinality(DOMAIN b.columns) <= MaxColumns
          /\ \A i \in DOMAIN o.scene.view :
               Cardinality({o.scene.view[j][1] : j \in i..Len(o.scene.view)}) <= MaxColumns
                 => o.scene.view[i][1] \in DOMAIN b.columns
  /\ b.epoch = e.epoch /\ b.identity = e.identity
  /\ b.frame = o.frame /\ b.valid = TRUE /\ b.ground = o.scene.ground
  /\ LandingOf(e, o, b) /\ EventOf(e, o, b)

LEMMA FrameLearnt ==
  ASSUME NEW e, NEW o, DOMAIN e = Fields, Mapped(e.columns, e.order), IsFrame(o), Tallied(e),
         e.jump \in Jump
  PROVE  LET a == Meet(IF Dead(o) THEN Seen(e, o) ELSE Evict(Seen(e, o)), o)
         IN  Learns(e, o, Finish(Judge(Fly(a, o), o), o))
<1>1. PICK a : a = Meet(IF Dead(o) THEN Seen(e, o) ELSE Evict(Seen(e, o)), o)
  OBVIOUS
<1>2. Looks(e, o, a)
  BY <1>1, FrameLooked DEF Tallied
<1>3. PICK y, j, b : y = Fly(a, o) /\ j = Judge(y, o) /\ b = Finish(j, o)
  OBVIOUS
<1>4. /\ DOMAIN a = Fields
      /\ a.frame = e.frame /\ a.ground = e.ground /\ a.valid = e.valid /\ a.jump = e.jump
      /\ a.completed = e.completed /\ a.bounces = e.bounces /\ a.jumps = e.jumps
      /\ a.successes = e.successes /\ a.failures = e.failures
      /\ a.event = e.event /\ a.recorded = e.recorded
      /\ a.epoch = e.epoch /\ a.identity = e.identity
  BY <1>2, FieldsAre DEF Looks, But
<1>5. {a.completed, a.bounces, a.jumps, a.successes, a.failures} \subseteq Nat
  BY <1>4 DEF Tallied
<1>6. Flown(a, o, y)
  BY <1>3, <1>4, <1>5, FlightFlown
<1>7. /\ TakesOff(a, o) = TakesOff(e, o) /\ InTime(a, o) = InTime(e, o)
      /\ JumpOf(a, o) = JumpOf(e, o)
  BY <1>4 DEF TakesOff, InTime, JumpOf
<1>8. Sampled(a, o) = Sampled(e, o) /\ (Flies(a, o) <=> Flies(e, o))
  BY <1>4, <1>7 DEF Sampled, Flies
<1>9. Lands(a, o) <=> Lands(e, o)
  BY <1>7, <1>8 DEF Lands
<1>10. /\ DOMAIN y = Fields
       /\ \A f \in Fields \ {"jump", "completed", "bounces", "jumps"} : y[f] = a[f]
  BY <1>6 DEF Flown, But
<1>11. /\ y.columns = a.columns /\ y.order = a.order /\ y.observed = a.observed
       /\ y.types = a.types /\ y.successes = e.successes /\ y.failures = e.failures
       /\ y.event = e.event /\ y.recorded = e.recorded
       /\ y.epoch = e.epoch /\ y.identity = e.identity
  BY <1>4, <1>10, FieldsAre
<1>12. Judges(y, o, j)
  BY <1>3, <1>5, <1>4, <1>10, <1>11, OutcomeJudged
<1>13. Fresh(y, o) <=> Fresh(e, o)
  BY <1>11 DEF Fresh
<1>14. /\ DOMAIN j = Fields
       /\ \A f \in Fields \ {"successes", "failures", "event", "recorded"} : j[f] = y[f]
  BY <1>12 DEF Judges, But
<1>15. /\ j.columns = a.columns /\ j.order = a.order /\ j.observed = a.observed
       /\ j.types = a.types /\ j.epoch = e.epoch /\ j.identity = e.identity
       /\ j.completed = y.completed /\ j.bounces = y.bounces /\ j.jumps = y.jumps
       /\ j.jump = y.jump
  BY <1>11, <1>14, FieldsAre
<1>16. b = [j EXCEPT !.jump = IF Dead(o) \/ Cleared(o) THEN [@ EXCEPT !.active = FALSE] ELSE @,
                     !.ground = o.scene.ground, !.valid = TRUE, !.frame = o.frame]
  BY <1>3 DEF Finish
<1>17. {"jump", "ground", "valid", "frame"} \subseteq DOMAIN j
  BY <1>14, FieldsAre
<1>18. /\ DOMAIN b = Fields /\ \A f \in Fields \ {"jump", "ground", "valid", "frame"} :
                                 b[f] = j[f]
  BY <1>14, <1>16
<1>19. /\ b.frame = o.frame /\ b.valid = TRUE /\ b.ground = o.scene.ground
       /\ b.jump = IF Dead(o) \/ Cleared(o) THEN [j.jump EXCEPT !.active = FALSE] ELSE j.jump
  BY <1>16, <1>17
<1>20. /\ b.columns = a.columns /\ b.order = a.order /\ b.observed = a.observed
       /\ b.types = a.types /\ b.epoch = e.epoch /\ b.identity = e.identity
       /\ b.completed = y.completed /\ b.bounces = y.bounces /\ b.jumps = y.jumps
       /\ b.successes = j.successes /\ b.failures = j.failures
       /\ b.event = j.event /\ b.recorded = j.recorded
  BY <1>15, <1>18, FieldsAre
<1>21. EventOf(e, o, b)
  BY <1>11, <1>12, <1>13, <1>20 DEF Judges, EventOf
<1>22. LandingOf(e, o, b)
  <2>1. /\ y.completed = e.completed + (IF Lands(e, o) THEN 1 ELSE 0)
        /\ y.bounces = e.bounces + (IF Lands(e, o) /\ Sampled(e, o).bounced THEN 1 ELSE 0)
        /\ y.jumps = e.jumps + (IF Lands(e, o) /\ ~Sampled(e, o).bounced THEN 1 ELSE 0)
    BY <1>4, <1>6, <1>8, <1>9 DEF Flown
  <2>2. y.jump = IF ~Flies(e, o) THEN e.jump
                 ELSE IF InTime(e, o) /\ ~o.scene.ground THEN Sampled(e, o) ELSE NoJump
    BY <1>4, <1>6, <1>7, <1>8 DEF Flown
  <2>3. Dead(o) \/ Cleared(o) => ~Flies(e, o)
    BY DEF Flies
  <2>4. b.jump = IF Dead(o) \/ Cleared(o) THEN [e.jump EXCEPT !.active = FALSE] ELSE y.jump
    BY <1>15, <1>19, <2>2, <2>3
  <2> QED
    BY <1>20, <2>1, <2>2, <2>4 DEF LandingOf
<1>23. Learns(e, o, b)
  BY <1>2, <1>18, <1>19, <1>20, <1>21, <1>22 DEF Looks, Learns
<1> QED
  BY <1>1, <1>3, <1>23

\* An unknown level leaves a gap.
Skips(e, o, b) ==
  /\ But(e, {"valid", "foes", "jump", "frame"}, b)
  /\ b.valid = FALSE /\ b.jump = NoJump /\ b.frame = o.frame

Observed(k, o, e, b) ==
  /\ Enters(k, o, e) /\ Remembers(e) /\ (Accepted(k, o) <=> o.frame > e.frame)
  /\ \/ ~Accepted(k, o) /\ b = e /\ ~Resets(k, o)
     \/ Accepted(k, o) /\ ~o.scene.known /\ Skips(e, o, b)
     \/ Accepted(k, o) /\ o.scene.known /\ Throws(o) /\ ~Dead(o) /\ Scans(e, o, b)
     \/ Learnt(k, o) /\ Learns(e, o, b)

LEMMA EntersRemembering ==
  ASSUME NEW k, NEW o, NEW e, Remembers(k), IsFrame(o), Enters(k, o, e)
  PROVE  Remembers(e)
<1>1. /\ DOMAIN e = Fields
      /\ \A f \in Fields \ (Episode \cup {"epoch", "identity"}) : e[f] = k[f]
  BY DEF Enters, But
<1>2. /\ e.columns = k.columns /\ e.order = k.order /\ e.observed = k.observed
      /\ e.successes = k.successes /\ e.failures = k.failures /\ e.completed = k.completed
      /\ e.bounces = k.bounces /\ e.jumps = k.jumps /\ e.types = k.types
      /\ e.ground = k.ground
  BY <1>1, FieldsAre DEF Episode
<1>3. Mapped(e.columns, e.order) /\ Tallied(e)
  BY <1>2 DEF Remembers, Tallied
<1>4. e.epoch \in Int
  BY DEF Enters, IsFrame
<1>5. CASE Resets(k, o)
  <2>1. e.frame = -1 /\ e.valid = FALSE /\ e.recorded = FALSE /\ e.jump = NoJump
    BY <1>5 DEF Enters
  <2>2. NoJump \in Jump /\ ~NoJump.active
    BY DEF NoJump, Jump
  <2> QED
    BY <1>1, <1>2, <1>3, <1>4, <2>1, <2>2 DEF Remembers
<1>6. CASE ~Resets(k, o)
  <2>1. /\ e.frame = k.frame /\ e.valid = k.valid /\ e.recorded = k.recorded
        /\ e.jump = k.jump
    BY <1>6 DEF Enters
  <2> QED
    BY <1>1, <1>2, <1>3, <1>4, <2>1 DEF Remembers
<1> QED
  BY <1>5, <1>6

LEMMA Observing ==
  ASSUME NEW k, NEW o, Remembers(k), IsFrame(o)
  PROVE  Observed(k, o, Enter(k, o), Observe(k, o))
<1>1. PICK e, b : e = Enter(k, o) /\ b = Observe(k, o)
  OBVIOUS
<1>2. Enters(k, o, e) /\ Remembers(e)
  BY <1>1, EpisodeEntered, EntersRemembering DEF Remembers, IsFrame
<1>3. Accepted(k, o) <=> o.frame > e.frame
  BY <1>1 DEF Accepted
<1>4. DOMAIN e = Fields /\ Mapped(e.columns, e.order) /\ Tallied(e) /\ e.jump \in Jump
  BY <1>2 DEF Remembers
<1>5. CASE ~Accepted(k, o)
  <2>1. b = e
    BY <1>1, <1>5 DEF Observe
  <2>2. ~Resets(k, o)
    <3> SUFFICES ASSUME Resets(k, o) PROVE FALSE
      OBVIOUS
    <3>1. e.frame = -1 /\ o.frame \in Nat
      BY <1>2 DEF Enters, IsFrame
    <3> QED
      BY <1>3, <1>5, <3>1
  <2> QED
    BY <1>1, <1>2, <1>3, <1>5, <2>1, <2>2 DEF Observed
<1>6. CASE Accepted(k, o) /\ ~o.scene.known
  <2>1. b = Unknown(e, o)
    BY <1>1, <1>6 DEF Observe
  <2>2. {"valid", "foes", "jump", "frame"} \subseteq Fields
    BY FieldsAre
  <2>3. Skips(e, o, b)
    BY <1>4, <2>1, <2>2 DEF Unknown, Skips, But
  <2> QED
    BY <1>1, <1>2, <1>3, <1>6, <2>3 DEF Observed
<1>7. CASE Accepted(k, o) /\ o.scene.known /\ Throws(o)
  <2>1. b = Seen(e, o)
    BY <1>1, <1>7 DEF Observe, Seen
  <2>2. Scans(e, o, b) /\ ~Dead(o)
    BY <1>4, <1>7, <2>1, FrameScanned DEF Throws
  <2> QED
    BY <1>1, <1>2, <1>3, <1>7, <2>2 DEF Observed
<1>8. CASE Accepted(k, o) /\ o.scene.known /\ ~Throws(o)
  <2>1. Learnt(k, o)
    BY <1>8 DEF Learnt
  <2>2. PICK a : a = Meet(IF Dead(o) THEN Seen(e, o) ELSE Evict(Seen(e, o)), o)
    OBVIOUS
  <2>3. b = Finish(Judge(Fly(a, o), o), o)
    BY <1>1, <1>8, <2>2 DEF Observe, Seen
  <2>4. Learns(e, o, b)
    BY <1>4, <2>2, <2>3, FrameLearnt
  <2> QED
    BY <1>1, <1>2, <1>3, <2>1, <2>4 DEF Observed
<1> QED
  BY <1>5, <1>6, <1>7, <1>8

\* A jump that a frame finds is one.
LEMMA JumpsAre ==
  ASSUME NEW e, NEW o, e.jump \in Jump, e.frame \in Int, IsFrame(o)
  PROVE  JumpOf(e, o) \in Jump /\ Sampled(e, o) \in Jump
<1>1. JumpOf(e, o) \in Jump
  BY DEF JumpOf, Jump, NoJump
<1>2. PICK j \in Jump : j = JumpOf(e, o)
  BY <1>1
<1>3. [j EXCEPT !.bounced = @ \/ (j.fell /\ o.scene.motion = "up"),
                !.fell = IF o.scene.motion = "level" THEN @ ELSE o.scene.motion = "down"]
        \in Jump
  BY DEF Jump
<1> QED
  BY <1>2, <1>3 DEF Sampled

LEMMA LearntTallied ==
  ASSUME NEW e, NEW o, NEW b, Tallied(e), Learns(e, o, b)
  PROVE  Tallied(b)
<1>1. /\ e.observed \in Nat /\ e.successes \in Nat /\ e.failures \in Nat
      /\ e.completed \in Nat /\ e.bounces \in Nat /\ e.jumps \in Nat
      /\ e.bounces <= e.completed /\ e.jumps = e.completed - e.bounces
      /\ e.successes <= e.observed /\ e.failures <= e.observed
  BY DEF Tallied
<1>2. /\ b.observed = e.observed + 1
      /\ b.successes = e.successes + (IF Fresh(e, o) /\ OutcomeOf(o) = "clear" THEN 1 ELSE 0)
      /\ b.failures = e.failures + (IF Fresh(e, o) /\ OutcomeOf(o) = "death" THEN 1 ELSE 0)
  BY DEF Learns, EventOf
<1>3. /\ b.completed = e.completed + (IF Lands(e, o) THEN 1 ELSE 0)
      /\ b.bounces = e.bounces + (IF Lands(e, o) /\ Sampled(e, o).bounced THEN 1 ELSE 0)
      /\ b.jumps = e.jumps + (IF Lands(e, o) /\ ~Sampled(e, o).bounced THEN 1 ELSE 0)
  BY DEF Learns, LandingOf
<1>4. /\ b.observed \in Nat /\ b.successes \in Nat /\ b.failures \in Nat
      /\ b.successes <= b.observed /\ b.failures <= b.observed
  BY <1>1, <1>2
<1>5. /\ b.completed \in Nat /\ b.bounces \in Nat /\ b.jumps \in Nat
      /\ b.bounces <= b.completed /\ b.jumps = b.completed - b.bounces
  <2>1. CASE ~Lands(e, o)
    <3>1. /\ b.completed = e.completed + 0 /\ b.bounces = e.bounces + 0
          /\ b.jumps = e.jumps + 0
      BY <1>3, <2>1
    <3> QED
      BY <1>1, <3>1
  <2>2. CASE Lands(e, o) /\ Sampled(e, o).bounced
    <3>1. /\ b.completed = e.completed + 1 /\ b.bounces = e.bounces + 1
          /\ b.jumps = e.jumps + 0
      BY <1>3, <2>2
    <3> QED
      BY <1>1, <3>1
  <2>3. CASE Lands(e, o) /\ ~Sampled(e, o).bounced
    <3>1. /\ b.completed = e.completed + 1 /\ b.bounces = e.bounces + 0
          /\ b.jumps = e.jumps + 1
      BY <1>3, <2>3
    <3> QED
      BY <1>1, <3>1
  <2> QED
    BY <2>1, <2>2, <2>3
<1>6. IsFiniteSet(DOMAIN b.types) /\ Cardinality(DOMAIN b.types) <= MaxTypes
  BY DEF Learns
<1> QED
  BY <1>4, <1>5, <1>6 DEF Tallied

LEMMA ObservedRemembers ==
  ASSUME NEW k, NEW o, NEW e, NEW b, IsFrame(o), Observed(k, o, e, b)
  PROVE  Remembers(b)
<1>1. Remembers(e) /\ DOMAIN e = Fields
  BY DEF Observed, Remembers
<1>2. o.frame \in Nat /\ {o.scene.ground} \subseteq BOOLEAN
  BY SceneIs DEF IsFrame
<1>3. CASE Skips(e, o, b)
  <2>1. /\ DOMAIN b = Fields /\ b.valid = FALSE /\ b.jump = NoJump /\ b.frame = o.frame
        /\ \A f \in Fields \ {"valid", "foes", "jump", "frame"} : b[f] = e[f]
    BY <1>3 DEF Skips, But
  <2>2. /\ b.columns = e.columns /\ b.order = e.order /\ b.observed = e.observed
        /\ b.successes = e.successes /\ b.failures = e.failures /\ b.completed = e.completed
        /\ b.bounces = e.bounces /\ b.jumps = e.jumps /\ b.types = e.types
        /\ b.ground = e.ground /\ b.recorded = e.recorded /\ b.epoch = e.epoch
    BY <2>1, FieldsAre
  <2>3. Mapped(b.columns, b.order) /\ Tallied(b)
    BY <1>1, <2>2 DEF Remembers, Tallied
  <2>4. NoJump \in Jump /\ ~NoJump.active
    BY DEF NoJump, Jump
  <2> QED
    BY <1>1, <1>2, <2>1, <2>2, <2>3, <2>4 DEF Remembers
<1>4. CASE Scans(e, o, b)
  <2>1. /\ DOMAIN b = Fields /\ b.observed = e.observed + 1 /\ Mapped(b.columns, b.order)
        /\ \A f \in Fields \ {"columns", "order", "observed"} : b[f] = e[f]
    BY <1>4 DEF Scans, But
  <2>2. /\ b.successes = e.successes /\ b.failures = e.failures /\ b.completed = e.completed
        /\ b.bounces = e.bounces /\ b.jumps = e.jumps /\ b.types = e.types
        /\ b.ground = e.ground /\ b.recorded = e.recorded /\ b.epoch = e.epoch
        /\ b.valid = e.valid /\ b.jump = e.jump /\ b.frame = e.frame
    BY <2>1, FieldsAre
  <2>3. /\ {e.observed, e.successes, e.failures} \subseteq Nat
        /\ e.successes <= e.observed /\ e.failures <= e.observed
    BY <1>1 DEF Remembers, Tallied
  <2>4. /\ b.observed \in Nat /\ e.successes <= b.observed /\ e.failures <= b.observed
    BY <2>1, <2>3
  <2>5. Tallied(b)
    BY <1>1, <2>2, <2>4 DEF Remembers, Tallied
  <2> QED
    BY <1>1, <2>1, <2>2, <2>5 DEF Remembers
<1>5. CASE Learns(e, o, b)
  <2>1. /\ DOMAIN b = Fields /\ Mapped(b.columns, b.order) /\ b.epoch = e.epoch
        /\ b.frame = o.frame /\ b.valid = TRUE /\ b.ground = o.scene.ground
    BY <1>5 DEF Learns
  <2>2. Tallied(b)
    BY <1>1, <1>5, LearntTallied DEF Remembers
  <2>3. b.recorded = TRUE \/ b.recorded = e.recorded
    BY <1>5 DEF Learns, EventOf
  <2>4. e.frame \in Int /\ e.jump \in Jump
    BY <1>1 DEF Remembers
  <2>5. Sampled(e, o) \in Jump
    BY <2>4, JumpsAre
  <2>11. \A j \in Jump : [j EXCEPT !.active = FALSE] \in Jump
    BY DEF Jump
  <2>12. NoJump \in Jump
    BY DEF NoJump, Jump
  <2>10. NoJump \in Jump /\ [e.jump EXCEPT !.active = FALSE] \in Jump
    BY <2>4, <2>11, <2>12
  <2>6. b.jump \in Jump
    BY <1>5, <2>4, <2>5, <2>10 DEF Learns, LandingOf
  <2>7. e.recorded \in BOOLEAN /\ e.epoch \in Int
    BY <1>1 DEF Remembers
  <2>8. {b.valid, b.ground, b.recorded} \subseteq BOOLEAN
    BY <1>2, <2>1, <2>3, <2>7
  <2>9. b.frame # -1
    BY <1>2, <2>1
  <2> QED
    BY <1>2, <2>1, <2>2, <2>6, <2>7, <2>8, <2>9 DEF Remembers
<1>6. CASE b = e
  BY <1>1, <1>6
<1> QED
  BY <1>3, <1>4, <1>5, <1>6 DEF Observed

-----------------------------------------------------------------------------
(* A frame is shown. *)

\* In the episode a frame leaves the memory in, it is not learnt from again.
LEMMA LearntOnce ==
  ASSUME NEW k, NEW o, NEW e, NEW b, IsFrame(o), Observed(k, o, e, b)
  PROVE  ~Learnt(b, o)
<1>1. Enters(k, o, e) /\ Remembers(b) /\ Remembers(e)
  BY ObservedRemembers DEF Observed
<1>2. o.session \in BOOLEAN /\ o.frame \in Nat
  BY DEF IsFrame
<1>3. e.epoch = o.epoch /\ e.identity = IF o.session THEN o.identity ELSE Nothing
  BY <1>1 DEF Enters
<1>4. b.epoch = e.epoch /\ b.identity = e.identity
  <2>1. {"epoch", "identity"} \subseteq Fields
    BY FieldsAre
  <2>2. CASE b = e
    BY <2>2
  <2>3. CASE Skips(e, o, b)
    BY <2>1, <2>3 DEF Skips, But
  <2>4. CASE Scans(e, o, b)
    BY <2>1, <2>4 DEF Scans, But
  <2>5. CASE Learns(e, o, b)
    BY <2>5 DEF Learns
  <2> QED
    BY <2>2, <2>3, <2>4, <2>5 DEF Observed
<1>5. ~Resets(b, o)
  BY <1>2, <1>3, <1>4, EpisodeGoesOn
<1>6. PICK e2 : e2 = Enter(b, o)
  OBVIOUS
<1>7. Enters(b, o, e2)
  BY <1>1, <1>2, <1>6, EpisodeEntered DEF Remembers
<1>8. e2.frame = b.frame
  BY <1>5, <1>7 DEF Enters
<1>9. Accepted(b, o) => o.frame > b.frame
  BY <1>6, <1>8 DEF Accepted
<1>10. CASE ~Accepted(k, o) /\ b = e
  <2>1. ~(o.frame > b.frame)
    BY <1>10 DEF Observed
  <2> QED
    BY <1>9, <2>1 DEF Learnt
<1>11. CASE Learns(e, o, b)
  <2>1. b.frame = o.frame
    BY <1>11 DEF Learns
  <2> QED
    BY <1>2, <1>9, <2>1 DEF Learnt
<1>12. CASE ~o.scene.known \/ Throws(o)
  BY <1>12 DEF Learnt
<1> QED
  BY <1>10, <1>11, <1>12 DEF Observed

\* With the memory that goes with it.
LEMMA ShownIs ==
  ASSUME NEW o, IsFrame(o), Remembers(m), Show(o)
  PROVE  /\ Observed(m, o, Enter(m, o), m') /\ Remembers(m)' /\ ~Learnt(m', o)
         /\ seen' = o /\ file' = file /\ base' = base
<1>1. m' = Observe(m, o) /\ seen' = o /\ file' = file /\ base' = base
  BY DEF Show
<1>2. Observed(m, o, Enter(m, o), m')
  BY <1>1, Observing
<1>3. Remembers(m')
  BY <1>2, ObservedRemembers
<1>4. ~Learnt(m', o)
  BY <1>2, LearntOnce
<1> QED
  BY <1>1, <1>2, <1>3, <1>4

LEMMA ShowLimited ==
  ASSUME NEW o, IsFrame(o), Remembers(m), Show(o), Limits
  PROVE  Limits'
<1>1. PICK e : e = Enter(m, o)
  OBVIOUS
<1>2. Observed(m, o, e, m') /\ Enters(m, o, e)
  BY <1>1, ShownIs DEF Observed
<1>3. e.columns = m.columns
  BY <1>2, FieldsAre DEF Enters, But, Episode
<1>4. torn' = IF Accepted(m, o) /\ o.scene.known /\ ~Dead(o) THEN Throws(o) ELSE torn
  BY DEF Show
<1>5. torn' \in BOOLEAN
  BY <1>4, Zenon DEF Throws, Limits
<1>6. m'.columns = m.columns => (Fits(m') <=> Fits(m))
  BY DEF Fits
<1>7. CASE ~Accepted(m, o) /\ m' = e
  BY <1>3, <1>4, <1>5, <1>6, <1>7 DEF Limits
<1>8. CASE ~o.scene.known /\ Skips(e, o, m')
  <2>1. m'.columns = e.columns
    BY <1>8, FieldsAre DEF Skips, But
  <2> QED
    BY <1>3, <1>4, <1>5, <1>6, <1>8, <2>1 DEF Limits
<1>9. CASE Accepted(m, o) /\ o.scene.known /\ Throws(o) /\ ~Dead(o)
  BY <1>4, <1>5, <1>9 DEF Limits
<1>10. CASE Learns(e, o, m') /\ Dead(o)
  <2>1. m'.columns = e.columns
    BY <1>10 DEF Learns
  <2> QED
    BY <1>3, <1>4, <1>5, <1>6, <1>10, <2>1 DEF Limits
<1>11. CASE Learns(e, o, m') /\ ~Dead(o)
  BY <1>5, <1>11 DEF Limits, Learns, Fits
<1> QED
  BY <1>2, <1>7, <1>8, <1>9, <1>10, <1>11 DEF Observed

\* What is counted is one outcome more, when it is a new one.
LEMMA CountedOnce ==
  ASSUME NEW o, IsFrame(o), Remembers(m), Show(o),
         base \in Nat, IsFiniteSet(counted), OutcomesOnce,
         Learnt(m, o) /\ OutcomeOf(o) # "none" =>
           (Fresh(Enter(m, o), o) <=> Terminal(o) \notin counted)
  PROVE  base' \in Nat /\ IsFiniteSet(counted') /\ OutcomesOnce'
<1>1. PICK e : e = Enter(m, o)
  OBVIOUS
<1>2. Observed(m, o, e, m') /\ Enters(m, o, e) /\ base' = base /\ Remembers(m')
  BY <1>1, ShownIs DEF Observed
<1>3. e.successes = m.successes /\ e.failures = m.failures
  BY <1>2, FieldsAre DEF Enters, But, Episode
<1>4. m.successes \in Nat /\ m.failures \in Nat
  BY DEF Remembers, Tallied
<1>5. counted' = IF Learnt(m, o) /\ OutcomeOf(o) # "none" THEN counted \cup {Terminal(o)}
                 ELSE counted
  BY DEF Show
<1>6. PICK c \in Nat : c = Cardinality(counted)
  BY FS_CardinalityType
<1>7. m.successes + m.failures = base + c
  BY <1>6 DEF OutcomesOnce
<1>8. CASE Learnt(m, o) /\ OutcomeOf(o) # "none" /\ Fresh(e, o)
  <2>1. Terminal(o) \notin counted
    BY <1>1, <1>8
  <2>2. counted' = counted \cup {Terminal(o)}
    BY <1>5, <1>8
  <2>3. IsFiniteSet(counted') /\ Cardinality(counted') = c + 1
    BY <1>6, <2>1, <2>2, FS_AddElement
  <2>4. OutcomeOf(o) = "clear" \/ OutcomeOf(o) = "death"
    BY <1>8 DEF OutcomeOf, IsFrame, Events
  <2>5. Accepted(m, o) /\ o.scene.known /\ ~Throws(o)
    BY <1>8 DEF Learnt
  <2>6. Learns(e, o, m')
    BY <1>2, <2>5 DEF Observed
  <2>7. \/ m'.successes = m.successes + 1 /\ m'.failures = m.failures + 0
        \/ m'.successes = m.successes + 0 /\ m'.failures = m.failures + 1
    BY <1>3, <1>8, <2>4, <2>6 DEF Learns, EventOf
  <2>8. m'.successes + m'.failures = base + (c + 1)
    BY <1>4, <1>7, <2>7
  <2> QED
    BY <1>2, <2>3, <2>8 DEF OutcomesOnce
<1>9. CASE ~(Learnt(m, o) /\ OutcomeOf(o) # "none" /\ Fresh(e, o))
  <2>1. counted' = counted
    <3>1. CASE Learnt(m, o) /\ OutcomeOf(o) # "none"
      <4>1. Terminal(o) \in counted
        BY <1>1, <1>9, <3>1
      <4> QED
        BY <1>5, <4>1
    <3>2. CASE ~(Learnt(m, o) /\ OutcomeOf(o) # "none")
      BY <1>5, <3>2
    <3> QED
      BY <3>1, <3>2
  <2>2. m'.successes = e.successes /\ m'.failures = e.failures
    <3>1. {"successes", "failures"} \subseteq Fields
      BY FieldsAre
    <3>2. CASE m' = e
      BY <3>2
    <3>3. CASE Skips(e, o, m')
      BY <3>1, <3>3 DEF Skips, But
    <3>4. CASE Scans(e, o, m')
      BY <3>1, <3>4 DEF Scans, But
    <3>5. CASE Learnt(m, o) /\ Learns(e, o, m')
      <4>1. ~Fresh(e, o)
        BY <1>9, <3>5 DEF Fresh
      <4>2. m'.successes = e.successes + 0 /\ m'.failures = e.failures + 0
        BY <3>5, <4>1 DEF Learns, EventOf
      <4> QED
        BY <1>3, <1>4, <4>2
    <3> QED
      BY <1>2, <3>2, <3>3, <3>4, <3>5 DEF Observed
  <2>3. m'.successes + m'.failures = m.successes + m.failures
    BY <1>3, <2>2
  <2> QED
    BY <1>2, <1>7, <1>6, <2>1, <2>3 DEF OutcomesOnce
<1> QED
  BY <1>8, <1>9

\* The frame is the game's.
Of(o, g) ==
  /\ IsFrame(o) /\ o.session = g.session /\ o.epoch = g.epoch
  /\ o.frame = g.frame /\ o.event = g.event
  /\ g.session => o.identity[1] = g.run

\* The game has gone on to the frame that is shown, or shows it again in vain.
GoesOn(o) ==
  /\ game \in Games /\ game' \in Games /\ Of(o, game')
  /\ game'.session = game.session /\ game'.run = game.run /\ game'.epoch = game.epoch
  /\ game'.frame > game.frame \/ (game'.frame = game.frame /\ ~Learnt(m, o))

LEMMA ShowInSession ==
  ASSUME NEW o, Remembers(m), Show(o), Outcomes, GoesOn(o), game.session
  PROVE  Outcomes'
<1>1. PICK e : e = Enter(m, o)
  OBVIOUS
<1>2. IsFrame(o) /\ o.session
  BY DEF GoesOn, Of
<1>3. Observed(m, o, e, m') /\ Enters(m, o, e)
  BY <1>1, <1>2, ShownIs DEF Observed
<1>4. e.event = m.event
  BY <1>3, FieldsAre DEF Enters, But, Episode
<1>5. InSession /\ base \in Nat /\ IsFiniteSet(counted) /\ OutcomesOnce
  BY DEF Outcomes
<1>6. PICK run, now, last : run = game.run /\ now = game'.frame /\ last = game.frame
  OBVIOUS
<1>7. /\ run \in Nat /\ now \in Nat /\ last \in Nat /\ game'.run = run
      /\ now >= last /\ (Learnt(m, o) => now > last)
  BY <1>6 DEF GoesOn, Games
<1>8. OutcomeOf(o) = o.event
  BY <1>2 DEF OutcomeOf
<1>9. Terminal(o) = <<run, now, o.event>>
  BY <1>2, <1>6, <1>7 DEF Terminal, GoesOn, Of
<1>10. o.event # "none" => EventId(o) = Terminal(o)
  BY <1>2 DEF EventId, Terminal
<1>11. \A t \in counted : \E r, f \in Nat, v \in Events \ {"none"} :
         t = <<r, f, v>> /\ r <= run /\ (r = run => f <= last)
  BY <1>5, <1>6 DEF InSession
<1>12. Learnt(m, o) => Terminal(o) \notin counted
  BY <1>7, <1>9, <1>11
<1>13. Terminal(o) # Nothing
  BY <1>9 DEF Nothing
<1>14. ASSUME Learnt(m, o), o.event # "none" PROVE Fresh(e, o)
  <2>1. EventId(o) # Nothing /\ EventId(o) # e.event
    BY <1>4, <1>5, <1>10, <1>12, <1>13, <1>14 DEF InSession
  <2> QED
    BY <1>2, <1>8, <1>14, <2>1 DEF Fresh
<1>15. base' \in Nat /\ IsFiniteSet(counted') /\ OutcomesOnce'
  <2>1. Learnt(m, o) /\ OutcomeOf(o) # "none" =>
          (Fresh(Enter(m, o), o) <=> Terminal(o) \notin counted)
    BY <1>1, <1>8, <1>12, <1>14
  <2> QED
    BY <1>2, <1>5, <2>1, CountedOnce
<1>16. counted' = IF Learnt(m, o) /\ o.event # "none" THEN counted \cup {Terminal(o)}
                  ELSE counted
  BY <1>8 DEF Show
<1>17. \A t \in counted' : \E r, f \in Nat, v \in Events \ {"none"} :
         t = <<r, f, v>> /\ r <= run /\ (r = run => f <= now)
  <2> SUFFICES ASSUME NEW t \in counted'
               PROVE  \E r, f \in Nat, v \in Events \ {"none"} :
                        t = <<r, f, v>> /\ r <= run /\ (r = run => f <= now)
    OBVIOUS
  <2>1. CASE t \in counted
    <3>1. PICK r \in Nat, f \in Nat, v \in Events \ {"none"} :
            t = <<r, f, v>> /\ r <= run /\ (r = run => f <= last)
      BY <1>11, <2>1
    <3>2. r = run => f <= now
      BY <1>7, <3>1
    <3> QED
      BY <3>1, <3>2
  <2>2. CASE t = Terminal(o) /\ o.event # "none"
    <3>1. o.event \in Events \ {"none"}
      BY <1>2, <2>2 DEF IsFrame
    <3>2. run <= run /\ now <= now
      BY <1>7
    <3> QED
      BY <1>7, <1>9, <2>2, <3>1, <3>2
  <2> QED
    BY <1>16, <2>1, <2>2
<1>18. m'.event = Nothing \/ m'.event \in counted'
  <2>1. "event" \in Fields
    BY FieldsAre
  <2>2. CASE m' = e \/ Skips(e, o, m') \/ Scans(e, o, m')
    <3>1. m'.event = m.event
      BY <1>4, <2>1, <2>2 DEF Skips, Scans, But
    <3>2. m.event = Nothing \/ m.event \in counted
      BY <1>5 DEF InSession
    <3> QED
      BY <1>16, <3>1, <3>2
  <2>3. CASE Learnt(m, o) /\ Learns(e, o, m')
    <3>1. m'.event = (IF o.event # "none" /\ EventId(o) # Nothing THEN EventId(o)
                      ELSE e.event)
      BY <1>8, <2>3 DEF Learns, EventOf
    <3>2. m.event = Nothing \/ m.event \in counted
      BY <1>5 DEF InSession
    <3>3. CASE o.event # "none"
      <4>1. m'.event = Terminal(o)
        BY <1>10, <1>13, <3>1, <3>3
      <4>2. Terminal(o) \in counted'
        BY <1>16, <2>3, <3>3
      <4> QED
        BY <4>1, <4>2
    <3>4. CASE o.event = "none"
      BY <1>4, <1>16, <3>1, <3>2, <3>4
    <3> QED
      BY <3>3, <3>4
  <2> QED
    BY <1>3, <2>2, <2>3 DEF Observed
<1>19. InSession'
  BY <1>6, <1>7, <1>17, <1>18 DEF InSession
<1>20. game'.session
  BY DEF GoesOn
<1> QED
  BY <1>15, <1>19, <1>20 DEF Outcomes

LEMMA ShowNoSession ==
  ASSUME NEW o, Remembers(m), Show(o), Outcomes, GoesOn(o), ~game.session
  PROVE  Outcomes'
<1>1. PICK e : e = Enter(m, o)
  OBVIOUS
<1>2. IsFrame(o) /\ ~o.session
  BY DEF GoesOn, Of
<1>3. Observed(m, o, e, m') /\ Enters(m, o, e) /\ Remembers(e)
  BY <1>1, <1>2, ShownIs DEF Observed
<1>4. NoSession /\ base \in Nat /\ IsFiniteSet(counted) /\ OutcomesOnce
  BY DEF Outcomes
<1>5. PICK now \in Nat, was \in Int : now = o.epoch /\ was = m.epoch
  BY <1>2 DEF IsFrame, Remembers
<1>6. was <= now /\ e.epoch = now /\ game'.epoch = now
  BY <1>3, <1>4, <1>5 DEF NoSession, GoesOn, Of, Enters
<1>7. \A t \in counted : \E x \in Nat : t = <<x>> /\ x <= was
  BY <1>4, <1>5 DEF NoSession
<1>8. e.recorded <=> <<now>> \in counted
  <2>1. CASE now = was
    <3>1. ~Resets(m, o)
      BY <1>2, <1>5, <2>1 DEF Resets
    <3>2. e.recorded = m.recorded
      BY <1>3, <3>1 DEF Enters
    <3> QED
      BY <1>4, <1>5, <2>1, <3>2 DEF NoSession
  <2>2. CASE now # was
    <3>1. Resets(m, o)
      BY <1>2, <1>5, <2>2 DEF Resets
    <3>2. e.recorded = FALSE
      BY <1>3, <3>1 DEF Enters
    <3>3. <<now>> \notin counted
      BY <1>5, <1>6, <1>7, <2>2
    <3> QED
      BY <3>2, <3>3
  <2> QED
    BY <2>1, <2>2
<1>9. Terminal(o) = <<now>>
  BY <1>2, <1>5 DEF Terminal
<1>10. Fresh(e, o) <=> OutcomeOf(o) # "none" /\ ~e.recorded
  BY <1>2 DEF Fresh
<1>11. base' \in Nat /\ IsFiniteSet(counted') /\ OutcomesOnce'
  <2>1. Learnt(m, o) /\ OutcomeOf(o) # "none" =>
          (Fresh(Enter(m, o), o) <=> Terminal(o) \notin counted)
    BY <1>1, <1>8, <1>9, <1>10, Zenon
  <2> QED
    BY <1>2, <1>4, <2>1, CountedOnce
<1>12. counted' = IF Learnt(m, o) /\ OutcomeOf(o) # "none" THEN counted \cup {Terminal(o)}
                  ELSE counted
  BY DEF Show
<1>13. {"epoch", "recorded"} \subseteq Fields
  BY FieldsAre
<1>14. m'.epoch = now
  <2>1. CASE m' = e \/ Skips(e, o, m') \/ Scans(e, o, m')
    BY <1>6, <1>13, <2>1 DEF Skips, Scans, But
  <2>2. CASE Learns(e, o, m')
    BY <1>6, <2>2 DEF Learns
  <2> QED
    BY <1>3, <2>1, <2>2 DEF Observed
<1>15. m'.recorded <=> <<now>> \in counted'
  <2>1. CASE ~Learnt(m, o)
    <3>1. m' = e \/ Skips(e, o, m') \/ Scans(e, o, m')
      BY <1>3, <2>1 DEF Observed
    <3>2. m'.recorded = e.recorded
      BY <1>13, <3>1 DEF Skips, Scans, But
    <3> QED
      BY <1>8, <1>12, <2>1, <3>2
  <2>2. CASE Learnt(m, o)
    <3>1. Learns(e, o, m')
      BY <1>3, <2>2 DEF Observed, Learnt
    <3>2. m'.recorded = (IF OutcomeOf(o) # "none" THEN TRUE ELSE e.recorded)
      BY <3>1 DEF Learns, EventOf
    <3>3. CASE OutcomeOf(o) # "none"
      <4>1. <<now>> \in counted'
        BY <1>9, <1>12, <2>2, <3>3
      <4> QED
        BY <3>2, <3>3, <4>1
    <3>4. CASE OutcomeOf(o) = "none"
      BY <1>8, <1>12, <3>2, <3>4
    <3> QED
      BY <3>3, <3>4
  <2> QED
    BY <2>1, <2>2
<1>16. \A t \in counted' : \E x \in Nat : t = <<x>> /\ x <= now
  <2> SUFFICES ASSUME NEW t \in counted' PROVE \E x \in Nat : t = <<x>> /\ x <= now
    OBVIOUS
  <2>1. CASE t \in counted
    <3>1. PICK x \in Nat : t = <<x>> /\ x <= was
      BY <1>7, <2>1
    <3>2. x <= now
      BY <1>6, <3>1
    <3> QED
      BY <3>1, <3>2
  <2>2. CASE t = Terminal(o)
    <3>1. now <= now
      OBVIOUS
    <3> QED
      BY <1>9, <2>2, <3>1
  <2> QED
    BY <1>12, <2>1, <2>2
<1>17. NoSession'
  <2>1. now <= game'.epoch
    BY <1>6
  <2> QED
    BY <1>14, <1>15, <1>16, <2>1 DEF NoSession
<1>18. ~game'.session
  BY DEF GoesOn
<1> QED
  BY <1>11, <1>17, <1>18 DEF Outcomes

-----------------------------------------------------------------------------
(* The flight of the frame that is shown. *)

\* An active jump that a frame goes on with is the memory's, in the same episode, and
\* its trail.
LEMMA FlightIsTrail ==
  ASSUME NEW o, NEW e, Remembers(m), Flights, IsFrame(o), Observed(m, o, e, m'),
         Flies(e, o), InTime(e, o)
  PROVE  /\ e.frame = m.frame /\ trail.last = e.frame /\ e.frame # -1
         /\ trail.whole /\ trail.start # -1
         /\ trail.fell = JumpOf(e, o).fell /\ trail.bounced = JumpOf(e, o).bounced
<1>1. Enters(m, o, e) /\ Remembers(e) /\ e.valid /\ e.frame # -1
  BY DEF Observed, Remembers, Flies
<1>2. ~Resets(m, o)
  BY <1>1 DEF Enters
<1>3. /\ e.frame = m.frame /\ e.valid = m.valid /\ e.jump = m.jump
      /\ e.ground = m.ground
  BY <1>1, <1>2, FieldsAre DEF Enters, But, Episode
<1>4. CASE TakesOff(e, o)
  <2>1. m.valid /\ m.ground
    BY <1>1, <1>3, <1>4 DEF TakesOff
  <2>2. trail = [NoTrail EXCEPT !.start = m.frame, !.last = m.frame, !.whole = TRUE]
    BY <2>1 DEF Flights
  <2>3. /\ trail.start = m.frame /\ trail.last = m.frame /\ trail.whole = TRUE
        /\ trail.fell = FALSE /\ trail.bounced = FALSE
    BY <2>2 DEF NoTrail
  <2>4. JumpOf(e, o).fell = FALSE /\ JumpOf(e, o).bounced = FALSE
    BY <1>4 DEF JumpOf, NoJump
  <2> QED
    BY <1>1, <1>3, <2>3, <2>4
<1>5. CASE ~TakesOff(e, o)
  <2>1. JumpOf(e, o) = m.jump /\ m.jump.active
    BY <1>3, <1>5 DEF JumpOf, Flies
  <2>2. /\ trail.whole /\ trail.start # -1 /\ trail.last = m.frame
        /\ trail.fell = m.jump.fell /\ trail.bounced = m.jump.bounced
    BY <2>1 DEF Flights
  <2> QED
    BY <1>1, <1>3, <2>1, <2>2
<1> QED
  BY <1>4, <1>5

LEMMA TrailsAre ==
  ASSUME NEW o, trail \in Trails, IsFrame(o)
  PROVE  /\ NoTrail \in Trails /\ Trail(o) \in Trails
         /\ Trail(o) = IF o.scene.ground
                       THEN [NoTrail EXCEPT !.start = o.frame, !.last = o.frame, !.whole = TRUE]
                       ELSE Trail(o)
         /\ ~o.scene.ground =>
              /\ Trail(o).start = trail.start /\ Trail(o).last = o.frame
              /\ Trail(o).whole <=> /\ trail.whole /\ ~Dead(o) /\ ~Cleared(o)
                                    /\ o.frame - trail.last <= Gap
              /\ Trail(o).bounced <=> trail.bounced \/ (trail.fell /\ o.scene.motion = "up")
              /\ Trail(o).fell <=> IF o.scene.motion = "level" THEN trail.fell
                                   ELSE o.scene.motion = "down"
<1>1. NoTrail \in Trails
  BY DEF NoTrail, Trails
<1>2. o.frame \in Int
  BY DEF IsFrame
<1>3. CASE o.scene.ground
  <2>1. Trail(o) = [NoTrail EXCEPT !.start = o.frame, !.last = o.frame, !.whole = TRUE]
    BY <1>3 DEF Trail
  <2>2. [NoTrail EXCEPT !.start = o.frame, !.last = o.frame, !.whole = TRUE] \in Trails
    BY <1>2 DEF NoTrail, Trails
  <2> QED
    BY <1>1, <1>3, <2>1, <2>2
<1>4. CASE ~o.scene.ground
  <2> DEFINE whole == trail.whole /\ ~Dead(o) /\ ~Cleared(o) /\ o.frame - trail.last <= Gap
             bounced == trail.bounced \/ (trail.fell /\ o.scene.motion = "up")
             fell == IF o.scene.motion = "level" THEN trail.fell ELSE o.scene.motion = "down"
  <2>1. /\ DOMAIN trail = {"start", "last", "whole", "fell", "bounced"}
        /\ trail.start \in Int /\ trail.last \in Int
        /\ trail.whole \in BOOLEAN /\ trail.fell \in BOOLEAN /\ trail.bounced \in BOOLEAN
    BY DEF Trails
  <2>2. Trail(o) = [trail EXCEPT !.last = o.frame, !.whole = whole, !.bounced = bounced,
                                 !.fell = fell]
    BY <1>4, Zenon DEF Trail
  <2>3. whole \in BOOLEAN /\ bounced \in BOOLEAN /\ fell \in BOOLEAN
    <3>1. whole \in BOOLEAN
      BY Zenon
    <3>2. bounced \in BOOLEAN
      BY Zenon
    <3>3. fell \in BOOLEAN
      <4>1. trail.fell \in BOOLEAN /\ (o.scene.motion = "down") \in BOOLEAN
        BY <2>1, Zenon
      <4> QED
        BY <4>1, Zenon
    <3> QED
      BY <3>1, <3>2, <3>3
  <2> HIDE DEF whole, bounced, fell
  <2>4. Trail(o) \in Trails
    BY <1>2, <2>2, <2>3 DEF Trails
  <2>5. /\ Trail(o).start = trail.start /\ Trail(o).last = o.frame
        /\ Trail(o).whole = whole /\ Trail(o).bounced = bounced /\ Trail(o).fell = fell
    BY <2>1, <2>2
  <2> QED
    BY <1>1, <1>4, <2>4, <2>5 DEF whole, bounced, fell
<1> QED
  BY <1>3, <1>4

\* A flight that is not flying is not active after the frame either.
LEMMA FlightEnds ==
  ASSUME NEW o, NEW e, NEW b, Remembers(e), Learns(e, o, b), b.jump.active
  PROVE  /\ Flies(e, o) /\ InTime(e, o) /\ ~o.scene.ground /\ ~Dead(o) /\ ~Cleared(o)
         /\ b.jump = Sampled(e, o)
<1>1. e.jump \in Jump /\ (e.jump.active => e.valid)
  BY DEF Remembers
<1>2. b.jump = IF Dead(o) \/ Cleared(o) THEN [e.jump EXCEPT !.active = FALSE]
               ELSE IF ~Flies(e, o) THEN e.jump
               ELSE IF InTime(e, o) /\ ~o.scene.ground THEN Sampled(e, o) ELSE NoJump
  BY DEF Learns, LandingOf
<1>3. ~NoJump.active
  BY DEF NoJump
<1>4. \A j \in Jump : ~[j EXCEPT !.active = FALSE].active
  BY DEF Jump
<1>5. ~Dead(o) /\ ~Cleared(o)
  BY <1>1, <1>2, <1>4
<1>6. Flies(e, o)
  <2> SUFFICES ASSUME ~Flies(e, o) PROVE FALSE
    OBVIOUS
  <2>1. e.jump.active
    BY <1>2, <1>5
  <2>2. ~JumpOf(e, o).active
    BY <1>1, <1>5, <2>1 DEF Flies
  <2>3. [NoJump EXCEPT !.active = TRUE, !.start = e.frame].active
    BY DEF NoJump
  <2> QED
    BY <2>1, <2>2, <2>3 DEF JumpOf
<1> QED
  BY <1>2, <1>3, <1>5, <1>6

\* What keeps the memory's flight keeps its trail.
LEMMA FlightsKept ==
  ASSUME Flights, m'.valid = m.valid, m'.ground = m.ground, m'.frame = m.frame,
         m'.jump = m.jump, trail' = trail
  PROVE  Flights'
  BY DEF Flights

\* Without a frame there is no flight.
LEMMA NoFlights ==
  ASSUME trail' \in Trails, ~m'.valid, ~m'.jump.active
  PROVE  Flights'
  BY DEF Flights, Trails

LEMMA ShowFlights ==
  ASSUME NEW o, IsFrame(o), Remembers(m), Show(o), Flights
  PROVE  Flights'
<1>1. PICK e : e = Enter(m, o)
  OBVIOUS
<1>2. Observed(m, o, e, m') /\ Enters(m, o, e) /\ Remembers(e)
  BY <1>1, ShownIs DEF Observed
<1>4. trail' = IF Learnt(m, o)
               THEN IF e.frame = -1 /\ ~o.scene.ground THEN NoTrail ELSE Trail(o)
               ELSE IF e.frame = -1 \/ (Accepted(m, o) /\ ~o.scene.known)
                    THEN NoTrail ELSE trail
  BY <1>1, Zenon DEF Show
<1>5. trail \in Trails
  BY DEF Flights, Trails
<1>6. trail' \in Trails
  BY <1>4, <1>5, TrailsAre
<1>7. e.frame # -1 => ~Resets(m, o)
  BY <1>2 DEF Enters
<1>8. ~Resets(m, o) => /\ e.frame = m.frame /\ e.valid = m.valid /\ e.jump = m.jump
                       /\ e.ground = m.ground
  BY <1>2, FieldsAre DEF Enters, But, Episode
<1>9. e.frame = -1 => ~e.valid /\ ~e.jump.active
  BY <1>2 DEF Remembers
<1>10. {"valid", "ground", "frame", "jump"} \subseteq Fields
  BY FieldsAre
<1>11. CASE (~Accepted(m, o) /\ m' = e) \/ (Throws(o) /\ o.scene.known /\ Scans(e, o, m'))
  <2>1. /\ m'.valid = e.valid /\ m'.jump = e.jump /\ m'.frame = e.frame
        /\ m'.ground = e.ground
    BY <1>10, <1>11 DEF Scans, But
  <2>2. ~Learnt(m, o) /\ ~(Accepted(m, o) /\ ~o.scene.known)
    BY <1>11 DEF Learnt
  <2>3. CASE e.frame = -1
    BY <1>6, <1>9, <2>1, <2>3, NoFlights
  <2>4. CASE e.frame # -1
    <3>1. trail' = trail
      BY <1>4, <2>2, <2>4
    <3> QED
      BY <1>7, <1>8, <2>1, <2>4, <3>1, FlightsKept
  <2> QED
    BY <2>3, <2>4
<1>12. CASE Skips(e, o, m')
  <2>1. ~m'.valid /\ ~m'.jump.active
    BY <1>12 DEF Skips, NoJump
  <2> QED
    BY <1>6, <2>1, NoFlights
<1>13. CASE Learnt(m, o) /\ Learns(e, o, m')
  <2>1. m'.valid = TRUE /\ m'.ground = o.scene.ground /\ m'.frame = o.frame
    BY <1>13 DEF Learns
  <2>2. CASE o.scene.ground
    <3>1. trail' = [NoTrail EXCEPT !.start = o.frame, !.last = o.frame, !.whole = TRUE]
      BY <1>4, <1>5, <1>13, <2>2, TrailsAre
    <3>2. ~m'.jump.active
      BY <1>2, <1>13, <2>2, FlightEnds
    <3> QED
      BY <1>6, <2>1, <3>1, <3>2 DEF Flights, Trails
  <2>3. CASE ~o.scene.ground
    <3>1. ~m'.ground
      BY <2>1, <2>3
    <3>2. m'.jump.active =>
            /\ trail'.whole /\ trail'.start # -1 /\ trail'.last = m'.frame
            /\ trail'.fell = m'.jump.fell /\ trail'.bounced = m'.jump.bounced
      <4> SUFFICES ASSUME m'.jump.active
                   PROVE  /\ trail'.whole /\ trail'.start # -1 /\ trail'.last = m'.frame
                          /\ trail'.fell = m'.jump.fell /\ trail'.bounced = m'.jump.bounced
        OBVIOUS
      <4>1. /\ Flies(e, o) /\ InTime(e, o) /\ ~Dead(o) /\ ~Cleared(o)
            /\ m'.jump = Sampled(e, o)
        BY <1>2, <1>13, FlightEnds
      <4>2. /\ e.frame = m.frame /\ trail.last = e.frame /\ e.frame # -1
            /\ trail.whole /\ trail.start # -1
            /\ trail.fell = JumpOf(e, o).fell /\ trail.bounced = JumpOf(e, o).bounced
        BY <1>2, <4>1, FlightIsTrail
      <4>3. trail' = Trail(o)
        BY <1>4, <1>13, <4>2
      <4>4. /\ trail'.start = trail.start /\ trail'.last = o.frame
            /\ trail'.whole <=> /\ trail.whole /\ ~Dead(o) /\ ~Cleared(o)
                                /\ o.frame - trail.last <= Gap
            /\ trail'.bounced <=> trail.bounced \/ (trail.fell /\ o.scene.motion = "up")
            /\ trail'.fell <=> IF o.scene.motion = "level" THEN trail.fell
                               ELSE o.scene.motion = "down"
        BY <1>5, <2>3, <4>3, TrailsAre
      <4>5. trail'.whole
        BY <4>1, <4>2, <4>4 DEF InTime
      <4>6. e.frame \in Int /\ e.jump \in Jump
        BY <1>2 DEF Remembers
      <4>7. JumpOf(e, o) \in Jump /\ Sampled(e, o) \in Jump
        BY <4>6, JumpsAre
      <4>8. PICK j \in Jump : j = JumpOf(e, o)
        BY <4>7
      <4>9. /\ m'.jump.bounced <=> j.bounced \/ (j.fell /\ o.scene.motion = "up")
            /\ m'.jump.fell <=> IF o.scene.motion = "level" THEN j.fell
                                ELSE o.scene.motion = "down"
        <5>1. m'.jump = [j EXCEPT !.bounced = @ \/ (j.fell /\ o.scene.motion = "up"),
                                  !.fell = IF o.scene.motion = "level" THEN @
                                           ELSE o.scene.motion = "down"]
          BY <4>1, <4>8 DEF Sampled
        <5>2. DOMAIN j = {"active", "bounced", "start", "fell"}
          BY DEF Jump
        <5> QED
          BY <5>1, <5>2
      <4>10. (trail'.fell <=> m'.jump.fell) /\ (trail'.bounced <=> m'.jump.bounced)
        BY <4>2, <4>4, <4>8, <4>9
      <4>11. /\ trail'.fell \in BOOLEAN /\ trail'.bounced \in BOOLEAN
             /\ m'.jump.fell \in BOOLEAN /\ m'.jump.bounced \in BOOLEAN
        BY <1>6, <4>1, <4>7 DEF Trails, Jump
      <4>12. trail'.fell = m'.jump.fell /\ trail'.bounced = m'.jump.bounced
        BY <4>10, <4>11, Zenon
      <4> QED
        BY <2>1, <4>2, <4>4, <4>5, <4>12
    <3> QED
      BY <1>6, <3>1, <3>2 DEF Flights, Trails
  <2> QED
    BY <2>2, <2>3
<1> QED
  BY <1>2, <1>11, <1>12, <1>13 DEF Observed

\* A flight that a frame ends was whole.
LEMMA ShowWhole ==
  ASSUME NEW o, IsFrame(o), Remembers(m), Show(o), Flights
  PROVE  WholeFlights
<1> SUFFICES ASSUME m'.completed > m.completed
             PROVE  /\ trail.whole /\ trail.start # -1
                    /\ o.frame - trail.last \in 1..Gap
                    /\ m'.jumps > m.jumps => ~trail.bounced
  BY ShownIs DEF WholeFlights
<1>1. PICK e : e = Enter(m, o)
  OBVIOUS
<1>2. Observed(m, o, e, m') /\ Enters(m, o, e) /\ Remembers(e)
  BY <1>1, ShownIs DEF Observed
<1>3. e.completed = m.completed /\ e.jumps = m.jumps
  BY <1>2, FieldsAre DEF Enters, But, Episode
<1>4. m.completed \in Nat /\ m.jumps \in Nat
  BY DEF Remembers, Tallied
<1>5. m'.completed # e.completed
  BY <1>3, <1>4
<1>6. Learnt(m, o) /\ Learns(e, o, m')
  <2>1. "completed" \in Fields
    BY FieldsAre
  <2>2. ~(m' = e) /\ ~Skips(e, o, m') /\ ~Scans(e, o, m')
    BY <1>5, <2>1 DEF Skips, Scans, But
  <2> QED
    BY <1>2, <2>2 DEF Observed
<1>7. Lands(e, o)
  <2> SUFFICES ASSUME ~Lands(e, o) PROVE FALSE
    OBVIOUS
  <2>1. m'.completed = e.completed + 0
    BY <1>6 DEF Learns, LandingOf
  <2> QED
    BY <1>3, <1>4, <1>5, <2>1
<1>8. Flies(e, o) /\ InTime(e, o) /\ o.scene.ground
  BY <1>7 DEF Lands
<1>9. /\ e.frame = m.frame /\ trail.last = e.frame /\ e.frame # -1
      /\ trail.whole /\ trail.start # -1
      /\ trail.fell = JumpOf(e, o).fell /\ trail.bounced = JumpOf(e, o).bounced
  BY <1>2, <1>8, FlightIsTrail
<1>10. o.frame - trail.last \in 1..Gap
  <2>1. o.frame > e.frame
    BY <1>2, <1>6 DEF Observed, Learnt
  <2>2. o.frame \in Nat /\ e.frame \in Int /\ Gap \in Nat
    BY <1>2 DEF IsFrame, Remembers, Gap
  <2>3. o.frame - e.frame <= Gap
    BY <1>8 DEF InTime
  <2> QED
    BY <1>9, <2>1, <2>2, <2>3
<1>11. ASSUME m'.jumps > m.jumps PROVE ~trail.bounced
  <2>1. ~Sampled(e, o).bounced
    <3> SUFFICES ASSUME Sampled(e, o).bounced PROVE FALSE
      OBVIOUS
    <3>1. m'.jumps = e.jumps + 0
      BY <1>6 DEF Learns, LandingOf
    <3> QED
      BY <1>3, <1>4, <1>11, <3>1
  <2>2. e.frame \in Int /\ e.jump \in Jump
    BY <1>2 DEF Remembers
  <2>3. PICK j \in Jump : j = JumpOf(e, o)
    BY <2>2, JumpsAre
  <2>4. Sampled(e, o).bounced <=> j.bounced \/ (j.fell /\ o.scene.motion = "up")
    <3>1. Sampled(e, o) = [j EXCEPT !.bounced = @ \/ (j.fell /\ o.scene.motion = "up"),
                              !.fell = IF o.scene.motion = "level" THEN @
                                       ELSE o.scene.motion = "down"]
      BY <2>3 DEF Sampled
    <3>2. DOMAIN j = {"active", "bounced", "start", "fell"}
      BY DEF Jump
    <3> QED
      BY <3>1, <3>2
  <2> QED
    BY <1>9, <2>1, <2>3, <2>4
<1> QED
  BY <1>9, <1>10, <1>11

-----------------------------------------------------------------------------
(* What is saved and loaded. *)

\* A finite set of numbers has a largest one.
LEMMA Largest ==
  ASSUME NEW S \in SUBSET Nat, S # {}, NEW top \in Nat, \A y \in S : y <= top
  PROVE  Max(S) \in S /\ \A y \in S : y <= Max(S)
<1> DEFINE Above == {n \in Nat : \A y \in S : y <= n}
<1>1. PICK n \in Above : \A z \in Above : ~(<<z, n>> \in OpToRel(<, Nat))
  <2>1. top \in Above /\ Above \in SUBSET Nat
    OBVIOUS
  <2> QED
    BY <2>1, NatLessThanWellFounded, WFMin
<1>2. \A z \in Above : ~(z < n)
  BY <1>1 DEF OpToRel
<1>3. n \in Nat /\ \A y \in S : y <= n
  OBVIOUS
<1>4. n \in S
  <2> SUFFICES ASSUME n \notin S PROVE FALSE
    OBVIOUS
  <2>1. \A y \in S : y < n
    BY <1>3
  <2>2. n # 0
    <3>1. PICK y \in S : y < n
      BY <2>1
    <3>2. y \in Nat
      OBVIOUS
    <3> QED
      BY <3>1, <3>2
  <2>3. n - 1 \in Nat /\ \A y \in S : y <= n - 1
    BY <1>3, <2>1, <2>2
  <2>4. n - 1 \in Above
    BY <2>3
  <2> QED
    BY <1>2, <1>3, <2>4
<1>5. n \in S /\ \A y \in S : n >= y
  BY <1>3, <1>4
<1>6. Max(S) = CHOOSE x \in S : \A y \in S : x >= y
  BY DEF Max
<1>7. Max(S) \in S /\ \A y \in S : Max(S) >= y
  BY <1>5, <1>6
<1> QED
  BY <1>7

LEMMA NewRemembers == Remembers(New) /\ Fits(New) /\ Filed(Export(New))
<1>1. /\ New.columns = Nothing /\ New.types = Nothing /\ New.order = 0 /\ New.observed = 0
      /\ New.successes = 0 /\ New.failures = 0 /\ New.completed = 0 /\ New.bounces = 0
      /\ New.jumps = 0 /\ New.epoch = -1 /\ New.frame = -1 /\ New.valid = FALSE
      /\ New.ground = FALSE /\ New.recorded = FALSE /\ New.jump = NoJump
  BY DEF New
<1>2. DOMAIN Nothing = {}
  BY DEF Nothing
<1>3. IsFiniteSet({}) /\ Cardinality({}) = 0
  BY FS_EmptySet
<1>4. Mapped(New.columns, New.order)
  BY <1>1, <1>2, <1>3 DEF Mapped
<1>5. MaxTypes \in Nat /\ MaxColumns \in Nat
  BY MemoryAssumption
<1>6. Tallied(New)
  BY <1>1, <1>2, <1>3, <1>5 DEF Tallied
<1>7. NoJump \in Jump /\ ~NoJump.active
  BY DEF NoJump, Jump
<1>8. Remembers(New)
  <2>1. DOMAIN New = Fields
    BY DEF Fields
  <2>2. New.epoch \in Int /\ New.frame \in Nat \cup {-1} /\ New.jump \in Jump
    BY <1>1, <1>7
  <2>3. {New.valid, New.ground, New.recorded} \subseteq BOOLEAN
    BY <1>1
  <2>4. (New.frame = -1 => ~New.valid) /\ ~New.jump.active
    BY <1>1, <1>7
  <2> QED
    BY <1>4, <1>6, <2>1, <2>2, <2>3, <2>4 DEF Remembers
<1>9. Fits(New)
  BY <1>1, <1>2, <1>3, <1>5 DEF Fits
<1>10. Filed(Export(New))
  <2>1. /\ Export(New).columns = New.columns /\ Export(New).types = New.types
        /\ Export(New).observed = 0 /\ Export(New).successes = 0
        /\ Export(New).failures = 0 /\ Export(New).completed = 0
        /\ Export(New).bounces = 0 /\ Export(New).jumps = 0
    BY <1>1 DEF Export
  <2>2. Mapped(Export(New).columns, 0)
    BY <1>1, <1>4, <2>1
  <2>3. Tallied(Export(New))
    BY <1>1, <1>2, <1>3, <1>5, <2>1 DEF Tallied
  <2> QED
    BY <2>2, <2>3 DEF Filed
<1> QED
  BY <1>8, <1>9, <1>10

LEMMA ExportsFiled ==
  ASSUME NEW k, Remembers(k)
  PROVE  Filed(Export(k))
<1>1. /\ DOMAIN Export(k) = DOMAIN Export(New)
      /\ Export(k).columns = k.columns /\ Export(k).types = k.types
      /\ Export(k).observed = k.observed /\ Export(k).successes = k.successes
      /\ Export(k).failures = k.failures /\ Export(k).completed = k.completed
      /\ Export(k).bounces = k.bounces /\ Export(k).jumps = k.jumps
  BY DEF Export
<1>2. Tallied(Export(k))
  BY <1>1 DEF Remembers, Tallied
<1>3. k.order \in Nat /\ Mapped(Export(k).columns, k.order)
  BY <1>1 DEF Remembers, Mapped
<1> QED
  BY <1>1, <1>2, <1>3 DEF Filed

\* The fields of a memory that is loaded.
LoadedFrom(f, k) ==
  /\ But(New, {"columns", "order", "types", "observed", "successes", "failures",
               "completed", "bounces", "jumps"}, k)
  /\ k.columns = [x \in DOMAIN f.columns |-> [f.columns[x] EXCEPT !.imported = TRUE]]
  /\ k.order = Max({0} \cup {f.columns[x].order : x \in DOMAIN f.columns})
  /\ k.types = f.types /\ k.observed = f.observed /\ k.successes = f.successes
  /\ k.failures = f.failures /\ k.completed = f.completed /\ k.bounces = f.bounces
  /\ k.jumps = f.jumps

LEMMA LoadedIs ==
  ASSUME NEW f
  PROVE  LoadedFrom(f, Loaded(f))
<1>1. PICK k, cs, top : /\ k = Loaded(f)
        /\ cs = [x \in DOMAIN f.columns |-> [f.columns[x] EXCEPT !.imported = TRUE]]
        /\ top = Max({0} \cup {f.columns[x].order : x \in DOMAIN f.columns})
  OBVIOUS
<1>2. k = [New EXCEPT !.columns = cs, !.order = top,
              !.types = f.types, !.observed = f.observed,
              !.successes = f.successes, !.failures = f.failures,
              !.completed = f.completed, !.bounces = f.bounces, !.jumps = f.jumps]
  BY <1>1 DEF Loaded
<1>3. DOMAIN New = Fields /\ {"columns", "order", "types", "observed", "successes",
        "failures", "completed", "bounces", "jumps"} \subseteq DOMAIN New
  BY FieldsAre DEF Fields
<1>4. /\ k.columns = cs /\ k.order = top
      /\ k.types = f.types /\ k.observed = f.observed /\ k.successes = f.successes
      /\ k.failures = f.failures /\ k.completed = f.completed /\ k.bounces = f.bounces
      /\ k.jumps = f.jumps
  BY <1>2, <1>3
<1>5. But(New, {"columns", "order", "types", "observed", "successes", "failures",
                "completed", "bounces", "jumps"}, k)
  BY <1>2, <1>3 DEF But
<1>6. LoadedFrom(f, k)
  BY <1>1, <1>4, <1>5 DEF LoadedFrom
<1> QED
  BY <1>1, <1>6

LEMMA LoadedRemembers ==
  ASSUME NEW f, Filed(f)
  PROVE  Remembers(Loaded(f)) /\ (Fits(f) => Fits(Loaded(f)))
<1>1. PICK k, cs, as : k = Loaded(f) /\ cs = f.columns /\ as = k.columns
  OBVIOUS
<1>2. LoadedFrom(f, k)
  BY <1>1, LoadedIs
<1>3. /\ as = [x \in DOMAIN cs |-> [cs[x] EXCEPT !.imported = TRUE]]
      /\ k.order = Max({0} \cup {cs[x].order : x \in DOMAIN cs})
  BY <1>1, <1>2 DEF LoadedFrom
<1>4. PICK top \in Nat : Mapped(cs, top)
  BY <1>1 DEF Filed
<1> DEFINE S == {0} \cup {cs[x].order : x \in DOMAIN cs}
<1>5. \A x \in DOMAIN cs : cs[x].order \in Nat /\ cs[x].order <= top /\ cs[x].order # 0
  BY <1>4 DEF Mapped, Column
<1>6. Max(S) \in S /\ \A y \in S : y <= Max(S)
  <2>1. S \in SUBSET Nat /\ S # {} /\ \A y \in S : y <= top
    BY <1>5
  <2> HIDE DEF S
  <2> QED
    BY <2>1, Largest
<1>7. k.order \in Nat /\ \A x \in DOMAIN cs : cs[x].order \in 1..k.order
  BY <1>3, <1>5, <1>6
<1>8. DOMAIN as = DOMAIN cs
  BY <1>3
<1>9. ASSUME NEW x \in DOMAIN cs PROVE Column(as[x], k.order) /\ as[x].order = cs[x].order
  <2>1. as[x] = [cs[x] EXCEPT !.imported = TRUE]
    BY <1>3
  <2>2. Column(cs[x], top)
    BY <1>4 DEF Mapped
  <2>3. /\ DOMAIN as[x] = DOMAIN cs[x] /\ as[x].observations = cs[x].observations
        /\ as[x].changes = cs[x].changes /\ as[x].order = cs[x].order
    BY <2>1, <2>2 DEF Column
  <2> QED
    BY <1>7, <2>2, <2>3 DEF Column
<1>10. Mapped(as, k.order)
  BY <1>4, <1>7, <1>8, <1>9 DEF Mapped
<1>11. Tallied(k)
  BY <1>2 DEF LoadedFrom, Filed, Tallied
<1>12. /\ DOMAIN k = Fields /\ k.epoch = New.epoch /\ k.frame = New.frame
       /\ k.valid = New.valid /\ k.ground = New.ground /\ k.recorded = New.recorded
       /\ k.jump = New.jump
  BY <1>2, FieldsAre DEF LoadedFrom, But
<1>13. Remembers(k)
  BY <1>1, <1>10, <1>11, <1>12, NewRemembers DEF Remembers
<1>14. Fits(f) => Fits(k)
  BY <1>1, <1>8 DEF Fits
<1> QED
  BY <1>1, <1>13, <1>14

\* Of the memory of a process that starts, nothing is in an episode.
Starts(k) ==
  /\ Remembers(k) /\ Fits(k) /\ ~k.valid /\ ~k.jump.active
  /\ k.epoch = -1 /\ ~k.recorded /\ k.event = Nothing

LEMMA ImportStarts ==
  ASSUME NEW f, Filed(f)
  PROVE  Starts(Import(New, f))
<1>1. Starts(New)
  BY NewRemembers DEF Starts, New, NoJump
<1>2. CASE Fits(f) /\ Valid(f)
  <2>1. PICK k : k = Loaded(f)
    OBVIOUS
  <2>2. Import(New, f) = k
    BY <1>2, <2>1 DEF Import
  <2>3. LoadedFrom(f, k) /\ Remembers(k) /\ Fits(k)
    BY <1>2, <2>1, LoadedIs, LoadedRemembers
  <2>4. /\ k.valid = New.valid /\ k.jump = New.jump /\ k.epoch = New.epoch
        /\ k.recorded = New.recorded /\ k.event = New.event
    BY <2>3, FieldsAre DEF LoadedFrom, But
  <2> QED
    BY <1>1, <2>2, <2>3, <2>4 DEF Starts
<1>3. CASE ~(Fits(f) /\ Valid(f))
  BY <1>1, <1>3 DEF Import
<1> QED
  BY <1>2, <1>3

-----------------------------------------------------------------------------
(* The steps. *)

\* The frame of a game and a scene.
LEMMA FrameOf ==
  ASSUME NEW g \in Games, NEW s \in Scenes, g.event # "none" => g.session
  PROVE  Of(Frame(g, s), g)
<1>1. PICK o : o = Frame(g, s)
  OBVIOUS
<1>2. /\ o.session = g.session /\ o.epoch = g.epoch /\ o.frame = g.frame
      /\ o.event = g.event /\ o.scene = s
      /\ o.identity = IF g.session THEN <<g.run, g.deaths, g.stage>> ELSE Nothing
  BY <1>1 DEF Frame
<1>3. /\ g.session \in BOOLEAN /\ g.epoch \in Nat /\ g.frame \in Nat /\ g.event \in Events
  BY DEF Games
<1>4. IsFrame(o)
  BY <1>2, <1>3 DEF IsFrame
<1>5. g.session => o.identity[1] = g.run
  BY <1>2
<1>6. Of(o, g)
  BY <1>2, <1>4, <1>5 DEF Of
<1> QED
  BY <1>1, <1>6

LEMMA ShowKeeps ==
  ASSUME NEW o, MemoryInv, Show(o), GoesOn(o), Playing'
  PROVE  MemoryInv' /\ WholeFlights
<1>1. IsFrame(o)
  BY DEF GoesOn, Of
<1>2. Remembers(m) /\ Filed(file) /\ Limits /\ Outcomes /\ Flights
  BY DEF MemoryInv
<1>3. Remembers(m') /\ file' = file
  BY <1>1, <1>2, ShownIs
<1>4. Limits' /\ Flights' /\ WholeFlights
  BY <1>1, <1>2, ShowLimited, ShowFlights, ShowWhole
<1>5. Outcomes'
  BY <1>2, ShowInSession, ShowNoSession
<1> QED
  BY <1>2, <1>3, <1>4, <1>5 DEF MemoryInv

LEMMA PlayKeeps ==
  ASSUME MemoryInv, NEW s \in Scenes, Play(s)
  PROVE  MemoryInv' /\ WholeFlights
<1>1. PICK e \in Events :
        /\ e # "none" => game.session
        /\ game' = [game EXCEPT !.frame = @ + s.after, !.event = e,
                                !.deaths = IF e = "death" THEN @ + 1 ELSE @,
                                !.stage = IF e = "clear" THEN @ + 1 ELSE @]
        /\ Show(Frame(game', s))
  BY DEF Play, Events
<1>2. game \in Games /\ s.after \in Nat \ {0}
  BY MemoryAssumption DEF MemoryInv, Playing
<1>3. /\ game' \in Games /\ game'.frame = game.frame + s.after /\ game'.event = e
      /\ game'.session = game.session /\ game'.run = game.run /\ game'.epoch = game.epoch
  <2>1. PICK g \in Games : g = game
    BY <1>2
  <2>2. PICK d \in Nat, st \in Nat, f \in Nat :
          /\ d = IF e = "death" THEN g.deaths + 1 ELSE g.deaths
          /\ st = IF e = "clear" THEN g.stage + 1 ELSE g.stage
          /\ f = g.frame + s.after
    BY <1>2 DEF Games
  <2>3. game' = [g EXCEPT !.frame = f, !.event = e, !.deaths = d, !.stage = st]
    BY <1>1, <2>1, <2>2
  <2> QED
    BY <2>1, <2>2, <2>3 DEF Games
<1>4. PICK o : o = Frame(game', s)
  OBVIOUS
<1>5. Of(o, game')
  BY <1>1, <1>3, <1>4, FrameOf
<1>6. game'.frame > game.frame
  BY <1>2, <1>3 DEF Games
<1>7. GoesOn(o)
  BY <1>2, <1>3, <1>5, <1>6 DEF GoesOn
<1>8. ~Learnt(m', o) /\ seen' = o
  BY <1>1, <1>4, <1>5, ShownIs DEF MemoryInv, Of
<1>9. Playing'
  BY <1>1, <1>3, <1>4, <1>8 DEF Playing
<1> QED
  BY <1>1, <1>4, <1>7, <1>9, ShowKeeps

LEMMA AgainKeeps ==
  ASSUME MemoryInv, Again
  PROVE  MemoryInv' /\ WholeFlights
<1>1. PICK o : o = seen
  OBVIOUS
<1>2. seen # Nothing /\ Show(o) /\ game' = game
  BY <1>1 DEF Again
<1>3. /\ game \in Games /\ (game.event # "none" => game.session) /\ ~Learnt(m, o)
      /\ \E s \in Scenes : o = Frame(game, s)
  BY <1>1, <1>2 DEF MemoryInv, Playing
<1>4. Of(o, game)
  BY <1>3, FrameOf
<1>5. GoesOn(o)
  BY <1>2, <1>3, <1>4 DEF GoesOn
<1>6. ~Learnt(m', o) /\ seen' = o
  BY <1>2, <1>4, ShownIs DEF MemoryInv, Of
<1>7. Playing'
  BY <1>2, <1>3, <1>6 DEF Playing
<1> QED
  BY <1>2, <1>5, <1>7, ShowKeeps

\* Where a game starts over there is nothing to show.
LEMMA PlayingAnew ==
  ASSUME game' \in Games, game'.event = "none", seen' = Nothing
  PROVE  Playing'
  BY DEF Playing

\* A memory that starts: nothing was counted but what it was loaded with.
LEMMA Starting ==
  ASSUME Starts(m)', base' = m'.successes + m'.failures, counted' = {}, torn' = FALSE,
         trail' = NoTrail, game' \in Games
  PROVE  Remembers(m)' /\ Limits' /\ Outcomes' /\ Flights'
<1>1. Remembers(m') /\ Fits(m') /\ ~m'.valid /\ ~m'.jump.active
  BY DEF Starts
<1>2. m'.epoch = -1 /\ ~m'.recorded /\ m'.event = Nothing
  BY DEF Starts
<1>3. Limits'
  BY <1>1 DEF Limits
<1>4. Flights'
  BY <1>1, NoFlights DEF NoTrail, Trails
<1>5. IsFiniteSet({}) /\ Cardinality({}) = 0
  BY FS_EmptySet
<1>6. m'.successes \in Nat /\ m'.failures \in Nat
  BY <1>1 DEF Remembers, Tallied
<1>7. base' \in Nat /\ IsFiniteSet(counted') /\ OutcomesOnce'
  BY <1>5, <1>6 DEF OutcomesOnce
<1>8. InSession'
  BY <1>2 DEF InSession
<1>9. NoSession'
  BY <1>2 DEF NoSession, Games
<1> QED
  BY <1>1, <1>3, <1>4, <1>7, <1>8, <1>9 DEF Outcomes

\* The game starts over, and the memory is as it was.
LEMMA GoingOn ==
  ASSUME MemoryInv, UNCHANGED <<m, base, counted, torn, trail>>, game' \in Games,
         game'.session = game.session, game'.epoch >= game.epoch,
         game.session => \/ game'.run > game.run
                         \/ game'.run = game.run /\ game'.frame = game.frame
  PROVE  Remembers(m)' /\ Limits' /\ Outcomes' /\ Flights'
<1>1. /\ Remembers(m) /\ Limits /\ Outcomes /\ Flights /\ game \in Games
      /\ m' = m /\ base' = base /\ counted' = counted /\ torn' = torn /\ trail' = trail
  BY DEF MemoryInv, Playing
<1>2. Remembers(m') /\ Limits' /\ Flights'
  BY <1>1 DEF Limits, Flights
<1>3. base' \in Nat /\ IsFiniteSet(counted') /\ OutcomesOnce'
  BY <1>1 DEF Outcomes, OutcomesOnce
<1>4. ASSUME game.session PROVE InSession'
  <2>1. InSession
    BY <1>1, <1>4 DEF Outcomes
  <2>2. PICK a \in Nat, b \in Nat, f \in Nat, f2 \in Nat :
          a = game.run /\ b = game'.run /\ f = game.frame /\ f2 = game'.frame
    BY <1>1 DEF Games
  <2>3. b > a \/ (b = a /\ f2 = f)
    BY <1>4, <2>2
  <2>4. \A t \in counted : \E r, n \in Nat, v \in Events \ {"none"} :
          t = <<r, n, v>> /\ r <= a /\ (r = a => n <= f)
    BY <2>1, <2>2 DEF InSession
  <2>5. \A r, n \in Nat : r <= a /\ (r = a => n <= f) => r <= b /\ (r = b => n <= f2)
    BY <2>3
  <2>6. \A t \in counted' : \E r, n \in Nat, v \in Events \ {"none"} :
          t = <<r, n, v>> /\ r <= b /\ (r = b => n <= f2)
    BY <1>1, <2>4, <2>5
  <2>7. m'.event = Nothing \/ m'.event \in counted'
    BY <1>1, <2>1 DEF InSession
  <2> QED
    BY <2>2, <2>6, <2>7 DEF InSession
<1>5. ASSUME ~game.session PROVE NoSession'
  <2>1. NoSession /\ m.epoch \in Int /\ game.epoch \in Nat /\ game'.epoch \in Nat
    BY <1>1, <1>5 DEF Outcomes, Remembers, Games
  <2>2. m.epoch <= game'.epoch
    BY <2>1 DEF NoSession
  <2> QED
    BY <1>1, <2>1, <2>2 DEF NoSession
<1> QED
  BY <1>2, <1>3, <1>4, <1>5 DEF Outcomes

\* Nothing is learnt where nothing is shown.
LEMMA NothingFlown ==
  ASSUME Remembers(m), m' = m \/ seen' = Nothing
  PROVE  WholeFlights
<1>1. m.completed \in Nat
  BY DEF Remembers, Tallied
<1> QED
  BY <1>1 DEF WholeFlights

LEMMA GameOverKeeps ==
  ASSUME MemoryInv, NEW retain \in BOOLEAN, GameOver(retain)
  PROVE  MemoryInv' /\ WholeFlights
<1>1. /\ game.session /\ file' = file /\ seen' = Nothing
      /\ game' = [game EXCEPT !.run = @ + 1, !.deaths = 0, !.stage = 1, !.frame = 0,
                              !.epoch = @ + 1, !.event = "none"]
  BY DEF GameOver
<1>2. game \in Games /\ Filed(file) /\ Remembers(m)
  BY DEF MemoryInv, Playing
<1>3. /\ game' \in Games /\ game'.event = "none" /\ game'.session = game.session
      /\ game'.run = game.run + 1 /\ game'.epoch = game.epoch + 1
  <2>1. PICK g \in Games : g = game
    BY <1>2
  <2>2. PICK r \in Nat, x \in Nat : r = g.run + 1 /\ x = g.epoch + 1
    BY DEF Games
  <2>3. game' = [g EXCEPT !.run = r, !.deaths = 0, !.stage = 1, !.frame = 0, !.epoch = x,
                          !.event = "none"]
    BY <1>1, <2>1, <2>2
  <2>4. game' \in Games
    BY <2>3 DEF Games, Events
  <2>5. DOMAIN g = {"session", "run", "deaths", "stage", "frame", "epoch", "event"}
    BY DEF Games
  <2>6. /\ game'.event = "none" /\ game'.session = g.session /\ game'.run = r
        /\ game'.epoch = x
    BY <2>3, <2>5
  <2> QED
    BY <2>1, <2>2, <2>4, <2>6
<1>4. Playing'
  BY <1>1, <1>3, PlayingAnew
<1>5. Remembers(m)' /\ Limits' /\ Outcomes' /\ Flights'
  <2>1. CASE retain
    <3>1. UNCHANGED <<m, base, counted, torn, trail>>
      BY <2>1 DEF GameOver
    <3>2. game'.epoch >= game.epoch /\ game'.run > game.run
      BY <1>2, <1>3 DEF Games
    <3> QED
      BY <1>3, <3>1, <3>2, GoingOn
  <2>2. CASE ~retain
    <3>1. m' = New /\ base' = 0 /\ counted' = {} /\ torn' = FALSE /\ trail' = NoTrail
      BY <2>2 DEF GameOver, Clear
    <3>2. Starts(m') /\ base' = m'.successes + m'.failures
      BY <3>1, NewRemembers DEF Starts, New, NoJump
    <3> QED
      BY <1>3, <3>1, <3>2, Starting
  <2> QED
    BY <2>1, <2>2
<1>6. WholeFlights
  BY <1>1, <1>2, NothingFlown
<1> QED
  BY <1>1, <1>2, <1>4, <1>5, <1>6 DEF MemoryInv

LEMMA NextEpochKeeps ==
  ASSUME MemoryInv, NEW restart \in BOOLEAN, NextEpoch(restart)
  PROVE  MemoryInv' /\ WholeFlights
<1>1. /\ UNCHANGED <<m, base, counted, torn, trail>> /\ file' = file /\ seen' = Nothing
      /\ game' = IF restart
                 THEN [game EXCEPT !.epoch = @ + 1, !.frame = 0, !.event = "none",
                                   !.deaths = 0, !.stage = 1,
                                   !.run = IF game.session THEN @ + 1 ELSE @]
                 ELSE [game EXCEPT !.epoch = @ + 1]
  BY DEF NextEpoch
<1>2. game \in Games /\ Filed(file) /\ Remembers(m) /\ (game.event # "none" => game.session)
  BY DEF MemoryInv, Playing
<1>3. /\ game' \in Games /\ game'.session = game.session /\ game'.epoch = game.epoch + 1
      /\ game'.event = "none" \/ game'.event = game.event
      /\ game.session => \/ game'.run > game.run
                         \/ game'.run = game.run /\ game'.frame = game.frame
  <2>1. PICK g \in Games : g = game
    BY <1>2
  <2>2. CASE restart
    <3>1. PICK r \in Nat : r = IF g.session THEN g.run + 1 ELSE g.run
      BY DEF Games
    <3>2. PICK x \in Nat : x = g.epoch + 1
      BY DEF Games
    <3>6. game' = [g EXCEPT !.epoch = x, !.frame = 0, !.event = "none",
                            !.deaths = 0, !.stage = 1, !.run = r]
      BY <1>1, <2>1, <2>2, <3>1, <3>2
    <3>7. game' \in Games
      BY <3>6 DEF Games, Events
    <3>8. DOMAIN g = {"session", "run", "deaths", "stage", "frame", "epoch", "event"}
      BY DEF Games
    <3>3. /\ game' \in Games /\ game'.session = g.session /\ game'.epoch = g.epoch + 1
          /\ game'.event = "none" /\ game'.run = r
      BY <3>2, <3>6, <3>7, <3>8
    <3>4. g.run \in Nat
      BY DEF Games
    <3>5. g.session => game'.run > g.run
      BY <3>1, <3>3, <3>4
    <3> QED
      BY <2>1, <3>3, <3>5
  <2>3. CASE ~restart
    <3>1. game' = [g EXCEPT !.epoch = @ + 1]
      BY <1>1, <2>1, <2>3
    <3> QED
      BY <2>1, <3>1 DEF Games
  <2> QED
    BY <2>2, <2>3
<1>4. Playing'
  BY <1>1, <1>2, <1>3 DEF Playing
<1>5. game'.epoch >= game.epoch
  BY <1>2, <1>3 DEF Games
<1>6. Remembers(m)' /\ Limits' /\ Outcomes' /\ Flights'
  BY <1>1, <1>3, <1>5, GoingOn
<1>7. WholeFlights
  BY <1>1, <1>2, NothingFlown
<1> QED
  BY <1>1, <1>2, <1>4, <1>6, <1>7 DEF MemoryInv

LEMMA SaveKeeps ==
  ASSUME MemoryInv, Save
  PROVE  MemoryInv' /\ WholeFlights
<1>1. /\ file' = Export(m) /\ m' = m /\ game' = game /\ seen' = seen /\ base' = base
      /\ counted' = counted /\ torn' = torn /\ trail' = trail
  BY DEF Save
<1>2. Remembers(m) /\ Limits /\ Playing /\ Outcomes /\ Flights
  BY DEF MemoryInv
<1>3. Remembers(m') /\ Filed(file')
  BY <1>1, <1>2, ExportsFiled
<1>4. Limits' /\ Playing' /\ Flights'
  BY <1>1, <1>2 DEF Limits, Playing, Flights
<1>5. Outcomes'
  BY <1>1, <1>2 DEF Outcomes, OutcomesOnce, InSession, NoSession
<1>6. WholeFlights
  BY <1>1, <1>2, NothingFlown
<1> QED
  BY <1>3, <1>4, <1>5, <1>6 DEF MemoryInv

LEMMA RestartKeeps ==
  ASSUME MemoryInv, Restart
  PROVE  MemoryInv' /\ WholeFlights
<1>1. /\ m' = Import(New, file) /\ base' = m'.successes + m'.failures /\ counted' = {}
      /\ torn' = FALSE /\ trail' = NoTrail /\ seen' = Nothing /\ file' = file
      /\ game' = [game EXCEPT !.run = 1, !.deaths = 0, !.stage = 1, !.frame = 0, !.epoch = 1,
                              !.event = "none"]
  BY DEF Restart
<1>2. game \in Games /\ Filed(file) /\ Remembers(m)
  BY DEF MemoryInv, Playing
<1>3. game' \in Games /\ game'.event = "none"
  BY <1>1, <1>2 DEF Games, Events
<1>4. Playing'
  BY <1>1, <1>3, PlayingAnew
<1>5. Starts(m')
  BY <1>1, <1>2, ImportStarts
<1>6. Remembers(m)' /\ Limits' /\ Outcomes' /\ Flights'
  BY <1>1, <1>3, <1>5, Starting
<1>7. WholeFlights
  BY <1>1, <1>2, NothingFlown
<1> QED
  BY <1>1, <1>2, <1>4, <1>6, <1>7 DEF MemoryInv

LEMMA MemoryInitInv ==
  ASSUME MemoryInit
  PROVE  MemoryInv
<1>1. /\ m = New /\ file = Export(New) /\ seen = Nothing /\ base = 0 /\ counted = {}
      /\ torn = FALSE /\ trail = NoTrail
      /\ game \in [session : Sessions, run : {1}, deaths : {0}, stage : {1}, frame : {0},
                   epoch : {1}, event : {"none"}]
  BY DEF MemoryInit
<1>2. game \in Games /\ game.event = "none"
  BY <1>1, MemoryAssumption DEF Games, Events
<1>3. Playing
  BY <1>1, <1>2 DEF Playing
<1>4. Remembers(m) /\ Filed(file) /\ Fits(m)
  BY <1>1, NewRemembers
<1>5. /\ m.successes = 0 /\ m.failures = 0 /\ m.epoch = -1 /\ ~m.recorded
      /\ m.event = Nothing /\ ~m.valid /\ ~m.jump.active
  BY <1>1 DEF New, NoJump
<1>6. IsFiniteSet(counted) /\ Cardinality(counted) = 0
  BY <1>1, FS_EmptySet
<1>7. InSession /\ NoSession
  BY <1>1, <1>2, <1>5 DEF InSession, NoSession, Games
<1>8. OutcomesOnce /\ base \in Nat
  BY <1>1, <1>5, <1>6 DEF OutcomesOnce
<1>9. Flights
  BY <1>1, <1>5 DEF Flights, NoTrail, Trails
<1> QED
  BY <1>1, <1>3, <1>4, <1>6, <1>7, <1>8, <1>9 DEF MemoryInv, Limits, Outcomes

LEMMA MemoryNextInv ==
  ASSUME MemoryInv, MemoryNext
  PROVE  MemoryInv' /\ WholeFlights
<1>1. ASSUME NEW s \in Scenes, Play(s) PROVE MemoryInv' /\ WholeFlights
  BY <1>1, PlayKeeps
<1>2. ASSUME NEW b \in BOOLEAN, GameOver(b) \/ NextEpoch(b) PROVE MemoryInv' /\ WholeFlights
  BY <1>2, GameOverKeeps, NextEpochKeeps
<1>3. CASE Again
  BY <1>3, AgainKeeps
<1>4. CASE Save
  BY <1>4, SaveKeeps
<1>5. CASE Restart
  BY <1>5, RestartKeeps
<1> QED
  BY <1>1, <1>2, <1>3, <1>4, <1>5 DEF MemoryNext

LEMMA MemoryStutterInv ==
  ASSUME MemoryInv, UNCHANGED memory_vars
  PROVE  MemoryInv' /\ WholeFlights
<1>1. /\ m' = m /\ game' = game /\ seen' = seen /\ file' = file /\ base' = base
      /\ counted' = counted /\ torn' = torn /\ trail' = trail
  BY DEF memory_vars
<1>2. /\ Remembers(m) /\ Filed(file) /\ Limits /\ Playing /\ Outcomes /\ Flights
  BY DEF MemoryInv
<1>3. Remembers(m') /\ Filed(file')
  BY <1>1, <1>2
<1>4. Limits' /\ Playing' /\ Flights'
  BY <1>1, <1>2 DEF Limits, Playing, Flights
<1>5. Outcomes'
  BY <1>1, <1>2 DEF Outcomes, OutcomesOnce, InSession, NoSession
<1>6. WholeFlights
  BY <1>1, <1>2, NothingFlown
<1> QED
  BY <1>3, <1>4, <1>5, <1>6 DEF MemoryInv

-----------------------------------------------------------------------------
(* The theorems. *)

LEMMA MemoryInvIsKept == MemorySpec => []MemoryInv
<1>1. MemoryInit => MemoryInv
  BY MemoryInitInv
<1>2. MemoryInv /\ [MemoryNext]_memory_vars => MemoryInv'
  BY MemoryNextInv, MemoryStutterInv
<1> QED
  BY <1>1, <1>2, PTL DEF MemorySpec

LEMMA LoadableSaved ==
  ASSUME MemoryInv
  PROVE  SavedIsLoadable
<1>1. Remembers(m) /\ Limits
  BY DEF MemoryInv
<1>2. PICK f : f = Export(m)
  OBVIOUS
<1>3. /\ DOMAIN f = {"columns", "types", "observed", "successes", "failures", "completed",
                     "bounces", "jumps"}
      /\ f.columns = m.columns /\ f.types = m.types /\ f.observed = m.observed
      /\ f.successes = m.successes /\ f.failures = m.failures
      /\ f.completed = m.completed /\ f.bounces = m.bounces /\ f.jumps = m.jumps
  BY <1>2 DEF Export
<1>4. /\ \A x \in DOMAIN m.columns :
           /\ m.columns[x].observations \in Nat \ {0}
           /\ m.columns[x].changes <= m.columns[x].observations
  BY <1>1 DEF Remembers, Mapped, Column
<1>5. Valid(f)
  <2>1. \A x \in DOMAIN m.columns : m.columns[x].observations > 0
    BY <1>4
  <2> QED
    BY <1>1, <1>3, <1>4, <2>1 DEF Valid, Remembers, Tallied
<1>6. torn \/ Fits(f)
  BY <1>1, <1>3 DEF Limits, Fits
<1>7. PICK k, again : k = Loaded(f) /\ again = Export(k)
  OBVIOUS
<1>8. LoadedFrom(f, k)
  BY <1>7, LoadedIs
<1>9. /\ DOMAIN again = DOMAIN f
      /\ again.columns = k.columns /\ again.types = k.types /\ again.observed = k.observed
      /\ again.successes = k.successes /\ again.failures = k.failures
      /\ again.completed = k.completed /\ again.bounces = k.bounces /\ again.jumps = k.jumps
  BY <1>3, <1>7 DEF Export
<1>10. DOMAIN again.columns = DOMAIN m.columns
  BY <1>3, <1>8, <1>9 DEF LoadedFrom
<1>11. \A n \in DOMAIN f \ {"columns"} : again[n] = f[n]
  BY <1>3, <1>8, <1>9 DEF LoadedFrom
<1>12. /\ again = [n \in DOMAIN f |-> again[n]] /\ f = [n \in DOMAIN f |-> f[n]]
  BY <1>2, <1>7, <1>9 DEF Export
<1>13. [again EXCEPT !.columns = Nothing] = [f EXCEPT !.columns = Nothing]
  BY <1>9, <1>11
<1> QED
  BY <1>2, <1>5, <1>6, <1>7, <1>10, <1>13 DEF SavedIsLoadable

\* Whatever was shown to a memory, the game that goes on or starts over: what it saves is
\* what import_json() accepts, unless a frame failed between its columns, and is loaded
\* as it was.
THEOREM WhatIsSavedIsLoaded == MemorySpec => []SavedIsLoadable
<1>1. MemoryInv => SavedIsLoadable
  BY LoadableSaved
<1> QED
  BY <1>1, MemoryInvIsKept, PTL

\* Every outcome that a client shows is counted once, however often it is shown, and every
\* flight that is counted was shown from the ground to the ground without a gap.
THEOREM OnlyWhatWasPlayed == MemorySpec => SamplesHonest
<1>1. MemoryInv /\ [MemoryNext]_memory_vars => OutcomesOnce' /\ WholeFlights
  <2>1. MemoryInv' => OutcomesOnce'
    BY DEF MemoryInv, Outcomes
  <2> QED
    BY <2>1, MemoryNextInv, MemoryStutterInv
<1>2. MemoryInv /\ [MemoryNext]_memory_vars => [OutcomesOnce' /\ WholeFlights]_memory_vars
  BY <1>1
<1> QED
  BY <1>2, MemoryInvIsKept, PTL DEF MemorySpec, SamplesHonest

\* What NewestKept says of a step.
Newest ==
  seen' # Nothing /\ Learnt(m, seen') /\ ~Dead(seen') =>
    LET view == seen'.scene.view
        last == {i \in DOMAIN view :
                   Cardinality({view[j][1] : j \in i..Len(view)}) <= MaxColumns}
    IN  \A i \in last : view[i][1] \in DOMAIN m'.columns

LEMMA NewestShown ==
  ASSUME NEW o, IsFrame(o), Remembers(m), Show(o)
  PROVE  Newest
<1>1. Observed(m, o, Enter(m, o), m') /\ seen' = o
  BY ShownIs
<1>2. PICK view, n : view = o.scene.view /\ n = Len(view)
  OBVIOUS
<1>3. ASSUME Learnt(m, o), ~Dead(o),
             NEW i \in DOMAIN view, Cardinality({view[j][1] : j \in i..n}) <= MaxColumns
      PROVE  view[i][1] \in DOMAIN m'.columns
  <2>1. Learns(Enter(m, o), o, m')
    BY <1>1, <1>3 DEF Observed, Learnt
  <2> QED
    BY <1>2, <1>3, <2>1 DEF Learns
<1>4. Learnt(m, o) /\ ~Dead(o) =>
        \A i \in {i \in DOMAIN view : Cardinality({view[j][1] : j \in i..n}) <= MaxColumns} :
          view[i][1] \in DOMAIN m'.columns
  BY <1>3
<1> QED
  BY <1>1, <1>2, <1>4 DEF Newest

\* After a frame the map has what was seen last, as much of it as fits, whatever it was
\* loaded with and in whatever order that was seen.
THEOREM TheNewestStay == MemorySpec => NewestKept
<1>1. MemoryInv /\ MemoryNext => Newest
  <2> SUFFICES ASSUME MemoryInv, MemoryNext PROVE Newest
    OBVIOUS
  <2>1. Remembers(m) /\ Playing
    BY DEF MemoryInv
  <2>2. ASSUME NEW s \in Scenes, Play(s) PROVE Newest
    <3>1. PICK e \in Events :
            /\ e # "none" => game.session
            /\ game' = [game EXCEPT !.frame = @ + s.after, !.event = e,
                                    !.deaths = IF e = "death" THEN @ + 1 ELSE @,
                                    !.stage = IF e = "clear" THEN @ + 1 ELSE @]
            /\ Show(Frame(game', s))
      BY <2>2 DEF Play, Events
    <3>2. game' \in Games /\ (game'.event # "none" => game'.session)
      BY <2>2, PlayKeeps DEF MemoryInv, Playing
    <3>3. IsFrame(Frame(game', s))
      BY <3>2, FrameOf DEF Of
    <3> QED
      BY <2>1, <3>1, <3>3, NewestShown
  <2>3. CASE Again
    <3>1. IsFrame(seen)
      BY <2>1, <2>3, FrameOf DEF Again, Playing, Of
    <3> QED
      BY <2>1, <2>3, <3>1, NewestShown DEF Again
  <2>4. CASE Save
    <3>1. seen' = seen /\ (seen # Nothing => ~Learnt(m, seen))
      BY <2>1, <2>4 DEF Save, Playing
    <3> QED
      BY <3>1 DEF Newest
  <2>5. ASSUME NEW b \in BOOLEAN, GameOver(b) \/ NextEpoch(b) PROVE Newest
    <3>1. seen' = Nothing
      BY <2>5 DEF GameOver, NextEpoch
    <3> QED
      BY <3>1 DEF Newest
  <2>6. CASE Restart
    BY <2>6 DEF Restart, Newest
  <2> QED
    BY <2>2, <2>3, <2>4, <2>5, <2>6 DEF MemoryNext
<1>2. MemoryInv /\ [MemoryNext]_memory_vars => [Newest]_memory_vars
  BY <1>1
<1> QED
  BY <1>2, MemoryInvIsKept, PTL DEF MemorySpec, NewestKept, Newest
=============================================================================
