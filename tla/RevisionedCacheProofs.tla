----------------------- MODULE RevisionedCacheProofs -----------------------
(* The ticket fence of RevisionedCache and the agreement of its map, its    *)
(* recency list and its byte count, for any tasks, keys and limits.         *)
EXTENDS RevisionedCache, FiniteSetTheorems, SequenceTheorems, WellFoundedInduction, TLAPS

FenceTypes ==
  /\ generation \in Nat /\ initialized \in BOOLEAN
  /\ entries \in [Keys -> [rev : Nat, bytes : Nat, expires : Nat]]
  /\ now \in Nat
  /\ task \in [Tasks -> [ticket : Nat, rev : Revisions \cup {0}]]

\* A ticket in force was issued for the revisions in force, and every entry was
\* prepared under them.  The first part is what the second needs of put.
FenceInv ==
  /\ FenceTypes
  /\ initialized => generation # 0
  /\ initialized => \A t \in Tasks : task[t].ticket = generation => task[t].rev = revisions
  /\ \A k \in Live : initialized /\ entries[k].rev = revisions

LEMMA FenceInit == Init => FenceInv
<1> SUFFICES ASSUME Init PROVE FenceInv
  OBVIOUS
<1>1. FenceTypes
  BY DEF Init, FenceTypes, Absent, NoTask
<1>2. Live = {}
  BY DEF Init, Live
<1> QED
  BY <1>1, <1>2 DEF Init, FenceInv

\* advance() and invalidate() empty the store; the ticket they move to is nobody's.
LEMMA FenceMoves ==
  ASSUME FenceInv,
         Invalidate \/ \E t \in Tasks, r \in Revisions : Advance(t, r)
  PROVE  FenceInv'
<1> USE CacheAssumption DEF ClearLocked, NotRecycled
<1>1. NextTicket \in Nat \ {0}
  BY DEF FenceInv, FenceTypes, NextTicket
<1>2. CASE Invalidate
  <2>1. FenceTypes'
    BY <1>1, <1>2 DEF FenceInv, FenceTypes, Invalidate, Absent
  <2>2. Live' = {}
    BY <1>2 DEF Invalidate, Live
  <2>3. initialized' = FALSE
    BY <1>2 DEF Invalidate
  <2> QED
    BY <2>1, <2>2, <2>3 DEF FenceInv
<1>3. ASSUME NEW t \in Tasks, NEW r \in Revisions, Advance(t, r)
      PROVE  FenceInv'
  <2>1. FenceTypes'
    BY <1>1, <1>3 DEF FenceInv, FenceTypes, Advance, Absent
  <2>2. Live' = {}
    BY <1>3 DEF Advance, Live
  <2>3. \A u \in Tasks : task'[u].ticket = generation' => task'[u].rev = revisions'
    BY <1>3 DEF FenceInv, FenceTypes, Advance
  <2>4. generation' # 0
    BY <1>1, <1>3 DEF Advance
  <2> QED
    BY <2>1, <2>2, <2>3, <2>4 DEF FenceInv
<1> QED
  BY <1>2, <1>3

\* A put that passes the fence writes a value of the revisions in force.
LEMMA FencePut ==
  ASSUME FenceInv, NEW t \in Tasks, NEW k \in Keys, NEW b \in Sizes, ~Fenced(t),
         NEW kept, NEW ttl \in Lifetimes,
         entries' = [x \in Keys |->
              IF x = k THEN [rev |-> task[t].rev, bytes |-> b, expires |-> now + ttl]
              ELSE IF x \in kept THEN entries[x] ELSE Absent],
         UNCHANGED <<fence, now, task>>
  PROVE  FenceInv'
<1> USE CacheAssumption DEF fence
<1>1. b \in Nat /\ ttl \in Nat /\ task[t].rev \in Nat
  <2>1. task[t].rev \in Revisions \cup {0}
    BY DEF FenceInv, FenceTypes
  <2>2. Revisions \cup {0} \subseteq Nat
    BY CacheAssumption
  <2>3. b \in Nat /\ ttl \in Nat
    BY CacheAssumption
  <2> QED
    BY <2>1, <2>2, <2>3
<1>2. FenceTypes'
  BY <1>1 DEF FenceInv, FenceTypes, Absent
<1>3. initialized /\ task[t].rev = revisions
  BY DEF FenceInv, Fenced
<1>4. \A x \in Live' : entries'[x].rev = revisions
  BY <1>1, <1>3 DEF FenceInv, FenceTypes, Live
<1> QED
  BY <1>2, <1>3, <1>4 DEF FenceInv

\* Dropping entries, and steps of the tasks alone, keep the fence.
LEMMA FenceDrop ==
  ASSUME FenceInv, NEW kept,
         entries' = [x \in Keys |-> IF x \in kept THEN entries[x] ELSE Absent],
         UNCHANGED <<fence, now, task>>
  PROVE  FenceInv'
<1> USE DEF fence
<1>1. FenceTypes'
  BY DEF FenceInv, FenceTypes, Absent
<1>2. Live' \subseteq Live /\ \A x \in Live' : entries'[x] = entries[x]
  BY DEF Live
<1> QED
  BY <1>1, <1>2 DEF FenceInv

LEMMA FenceStep == FenceInv /\ [Next]_vars => FenceInv'
<1> SUFFICES ASSUME FenceInv, [Next]_vars PROVE FenceInv'
  OBVIOUS
<1>1. CASE Invalidate \/ \E t \in Tasks, r \in Revisions : Advance(t, r)
  BY <1>1, FenceMoves
<1>2. ASSUME NEW t \in Tasks, NEW r \in Revisions, Join(t, r) PROVE FenceInv'
  <2>1. FenceTypes'
    BY <1>2 DEF FenceInv, FenceTypes, Join, fence, store
  <2> QED
    BY <1>2, <2>1 DEF FenceInv, FenceTypes, Join, fence, store, Live
<1>3. ASSUME NEW t \in Tasks, Done(t) PROVE FenceInv'
  <2>1. FenceTypes'
    BY <1>3 DEF FenceInv, FenceTypes, Done, fence, store, NoTask
  <2> QED
    BY <1>3, <2>1 DEF FenceInv, FenceTypes, Done, fence, store, Live, NoTask
<1>4. ASSUME Tick \/ UNCHANGED vars PROVE FenceInv'
  <2>1. FenceTypes'
    BY <1>4 DEF FenceInv, FenceTypes, Tick, fence, store, vars
  <2>2. UNCHANGED <<fence, entries, task>>
    BY <1>4 DEF Tick, fence, store, vars
  <2> QED
    BY <2>1, <2>2 DEF FenceInv, fence, Live
<1>5. ASSUME NEW t \in Tasks, NEW k \in Keys, GetExpired(t, k) PROVE FenceInv'
  <2>1. entries' = [x \in Keys |-> IF x \in Keys \ {k} THEN entries[x] ELSE Absent]
    BY <1>5 DEF GetExpired, FenceInv, FenceTypes
  <2> QED
    BY <1>5, <2>1, FenceDrop DEF GetExpired
<1>6. ASSUME NEW t \in Tasks, NEW k \in Keys, GetHit(t, k) PROVE FenceInv'
  BY <1>6 DEF FenceInv, FenceTypes, GetHit, fence, Live
<1>7. ASSUME NEW t \in Tasks, NEW k \in Keys, NEW b \in Sizes, PutThrows(t, k, b)
      PROVE  FenceInv'
  BY <1>7, FenceDrop DEF PutThrows
<1>8. ASSUME NEW t \in Tasks, NEW k \in Keys, NEW b \in Sizes, NEW ttl \in Lifetimes,
             Put(t, k, b, ttl)
      PROVE  FenceInv'
  <2>1. /\ ~Fenced(t) /\ UNCHANGED <<fence, now, task>>
        /\ entries' = [x \in Keys |->
              IF x = k THEN [rev |-> task[t].rev, bytes |-> b, expires |-> now + ttl]
              ELSE IF x \in ToSet(Kept(k, b)) THEN entries[x] ELSE Absent]
    BY <1>8 DEF Put
  <2> QED
    BY <2>1, FencePut
<1> QED
  BY <1>1, <1>2, <1>3, <1>4, <1>5, <1>6, <1>7, <1>8 DEF Next

\* The promise of cache.hpp:43-46: no lookup hits a value prepared under revisions
\* other than those its ticket was issued for.
THEOREM FenceHolds == Spec => []HitIsFresh
<1>1. FenceInv => HitIsFresh
  BY DEF FenceInv, HitIsFresh, Hits, Fenced
<1>2. Init => FenceInv
  BY FenceInit
<1>3. FenceInv /\ [Next]_vars => FenceInv'
  BY FenceStep
<1> QED
  BY <1>1, <1>2, <1>3, PTL DEF Spec

-----------------------------------------------------------------------------
(* Bytes *)

Entry == [rev : Nat, bytes : Nat, expires : Nat]

\* BytesOf for any map from keys to entries.
BytesIn(es, S) == Cardinality({x \in S \X (1..MaxBytes) : x[2] <= es[x[1]].bytes})

LEMMA BytesFinite ==
  ASSUME NEW es, NEW S, IsFiniteSet(S)
  PROVE  /\ IsFiniteSet({x \in S \X (1..MaxBytes) : x[2] <= es[x[1]].bytes})
         /\ BytesIn(es, S) \in Nat
<1>1. IsFiniteSet(1..MaxBytes)
  BY CacheAssumption, FS_Interval
<1>2. IsFiniteSet(S \X (1..MaxBytes))
  BY <1>1, FS_Product
<1>3. IsFiniteSet({x \in S \X (1..MaxBytes) : x[2] <= es[x[1]].bytes})
  BY <1>2, FS_Subset
<1> QED
  BY <1>3, FS_CardinalityType DEF BytesIn

LEMMA BytesOfBoth ==
  ASSUME NEW es, NEW S, NEW T, IsFiniteSet(S), IsFiniteSet(T), S \cap T = {}
  PROVE  BytesIn(es, S \cup T) = BytesIn(es, S) + BytesIn(es, T)
<1> DEFINE Part(U) == {x \in U \X (1..MaxBytes) : x[2] <= es[x[1]].bytes}
<1>1. IsFiniteSet(Part(S)) /\ IsFiniteSet(Part(T))
  BY BytesFinite
<1>2. Part(S \cup T) = Part(S) \cup Part(T)
  OBVIOUS
<1>3. Part(S) \cap Part(T) = {}
  OBVIOUS
<1>4. /\ BytesIn(es, S) = Cardinality(Part(S)) /\ BytesIn(es, T) = Cardinality(Part(T))
      /\ BytesIn(es, S \cup T) = Cardinality(Part(S \cup T))
  BY DEF BytesIn
<1> HIDE DEF Part
<1>5. Cardinality(Part(S) \cup Part(T)) =
        Cardinality(Part(S)) + Cardinality(Part(T)) - Cardinality(Part(S) \cap Part(T))
  BY <1>1, FS_Union
<1>6. Cardinality(Part(S) \cap Part(T)) = 0
  BY <1>3, FS_EmptySet
<1>7. Cardinality(Part(S)) \in Nat /\ Cardinality(Part(T)) \in Nat
  BY <1>1, FS_CardinalityType
<1>8. Cardinality(Part(S) \cup Part(T)) = Cardinality(Part(S)) + Cardinality(Part(T))
  BY <1>5, <1>6, <1>7
<1>9. Cardinality(Part(S \cup T)) = Cardinality(Part(S)) + Cardinality(Part(T))
  BY <1>2, <1>8
<1> QED
  BY <1>4, <1>9

LEMMA BytesOfOne ==
  ASSUME NEW es, NEW k, es[k].bytes \in 0..MaxBytes
  PROVE  BytesIn(es, {k}) = es[k].bytes
<1> DEFINE n == es[k].bytes
<1>1. n \in Nat /\ n <= MaxBytes /\ MaxBytes \in Nat
  BY CacheAssumption
<1>2. {x \in {k} \X (1..MaxBytes) : x[2] <= es[x[1]].bytes} = {k} \X (1..n)
  <2>1. ASSUME NEW x \in {k} \X (1..MaxBytes), x[2] <= es[x[1]].bytes
        PROVE  x \in {k} \X (1..n)
    BY <1>1, <2>1
  <2>2. ASSUME NEW x \in {k} \X (1..n)
        PROVE  x \in {k} \X (1..MaxBytes) /\ x[2] <= es[x[1]].bytes
    BY <1>1, <2>2
  <2> QED
    BY <2>1, <2>2
<1> HIDE DEF n
<1>3. IsFiniteSet({k}) /\ Cardinality({k}) = 1
  BY FS_Singleton
<1>4. IsFiniteSet(1..n) /\ Cardinality(1..n) = n
  <2>1. PICK m \in Nat : m = n
    BY <1>1
  <2>2. IsFiniteSet(1..m) /\ Cardinality(1..m) = m
    BY FS_Interval
  <2> QED
    BY <2>1, <2>2
<1>5. Cardinality({k} \X (1..n)) = Cardinality({k}) * Cardinality(1..n)
  BY <1>3, <1>4, FS_Product
<1>6. BytesIn(es, {k}) = Cardinality({k} \X (1..n))
  BY <1>2 DEF BytesIn
<1>7. BytesIn(es, {k}) = n
  BY <1>1, <1>3, <1>4, <1>5, <1>6
<1> QED
  BY <1>7 DEF n

LEMMA BytesOfSame ==
  ASSUME NEW es, NEW fs, NEW S, \A k \in S : es[k] = fs[k]
  PROVE  BytesIn(es, S) = BytesIn(fs, S)
BY DEF BytesIn

LEMMA BytesOfNone == ASSUME NEW es PROVE BytesIn(es, {}) = 0
<1>1. {x \in {} \X (1..MaxBytes) : x[2] <= es[x[1]].bytes} = {}
  OBVIOUS
<1> QED
  BY <1>1, FS_EmptySet DEF BytesIn

-----------------------------------------------------------------------------
(* The recency list *)

\* A sequence of keys, each at most once.
Listed(s) == s \in Seq(Keys) /\ IsInjective(s)

LEMMA ListedCount ==
  ASSUME NEW s, Listed(s)
  PROVE  Len(s) \in Nat /\ IsFiniteSet(ToSet(s)) /\ Cardinality(ToSet(s)) = Len(s)
<1>1. PICK n \in Nat : n = Len(s)
  BY DEF Listed
<1>2. s \in [1..n -> ToSet(s)] /\ IsInjective(s) /\ DOMAIN s = 1..n
  BY <1>1 DEF Listed, ToSet
<1>3. s \in Surjection(1..n, ToSet(s)) /\ s \in Injection(1..n, ToSet(s))
  BY <1>2 DEF Surjection, Injection, ToSet
<1>4. IsFiniteSet(1..n) /\ Cardinality(1..n) = n
  BY FS_Interval
<1> QED
  BY <1>1, <1>3, <1>4, FS_Surjection

\* Erasing a key leaves the others in their order.
LEMMA EraseKey ==
  ASSUME NEW s, Listed(s), NEW k, NEW r, r = RemoveFirst(s, k)
  PROVE  Listed(r) /\ ToSet(r) = ToSet(s) \ {k} /\ Len(r) <= Len(s)
<1>1. s \in Seq(Keys) /\ Len(s) \in Nat /\ DOMAIN s = 1..Len(s)
  BY DEF Listed
<1>2. CASE \A i \in 1..Len(s) : s[i] # k
  <2>1. r = s
    BY <1>2 DEF RemoveFirst
  <2> QED
    BY <1>1, <1>2, <2>1 DEF ToSet
<1>3. CASE \E i \in 1..Len(s) : s[i] = k
  <2>1. PICK i \in 1..Len(s) : s[i] = k
    BY <1>3
  <2>2. {j \in 1..Len(s) : s[j] = k} = {i}
    BY <1>1, <2>1 DEF Listed, IsInjective
  <2>3. Min({i}) = i
    BY <1>1 DEF Min
  <2>4. r = SubSeq(s, 1, i - 1) \o SubSeq(s, i + 1, Len(s))
    BY <1>3, <2>2, <2>3 DEF RemoveFirst, RemoveAt, SelectInSeq
  <2>5. PICK p, q : p = SubSeq(s, 1, i - 1) /\ q = SubSeq(s, i + 1, Len(s))
    OBVIOUS
  <2>6. /\ r \in Seq(Keys) /\ Len(r) = Len(s) - 1 /\ DOMAIN r = 1..(Len(s) - 1)
        /\ \A j \in 1..(Len(s) - 1) : r[j] = IF j <= i - 1 THEN s[j] ELSE s[j + 1]
    <3>1. p \in Seq(Keys) /\ Len(p) = i - 1 /\ \A j \in 1..(i - 1) : p[j] = s[j]
      <4>1. \A j \in 1..(i - 1) : s[j] \in Keys
        BY <1>1
      <4>2. i - 1 \in Int
        BY <1>1
      <4> QED
        BY <1>1, <2>5, <4>1, <4>2, SubSeqProperties
    <3>2. /\ q \in Seq(Keys) /\ Len(q) = Len(s) - i
          /\ \A j \in 1..(Len(s) - i) : q[j] = s[i + j]
      <4>1. \A j \in (i + 1)..Len(s) : s[j] \in Keys
        BY <1>1
      <4>2. i + 1 \in Int /\ Len(s) \in Int
        BY <1>1
      <4>3. /\ q \in Seq(Keys) /\ Len(q) = IF i + 1 <= Len(s) THEN Len(s) - (i + 1) + 1 ELSE 0
            /\ \A j \in 1..(Len(s) - (i + 1) + 1) : q[j] = s[i + 1 + j - 1]
        BY <2>5, <4>1, <4>2, SubSeqProperties
      <4>4. Len(q) = Len(s) - i
        <5>1. PICK n \in Nat : n = Len(s)
          BY <1>1
        <5>2. Len(q) = IF i + 1 <= n THEN n - (i + 1) + 1 ELSE 0
          BY <4>3, <5>1
        <5>3. i \in 1..n
          BY <5>1
        <5>4. i + 1 <= n \/ i = n
          BY <5>3
        <5>5. CASE i + 1 <= n
          BY <5>1, <5>2, <5>3, <5>5
        <5>6. CASE i = n
          BY <5>1, <5>2, <5>3, <5>6
        <5> QED
          BY <5>4, <5>5, <5>6
      <4>5. ASSUME NEW j \in 1..(Len(s) - i) PROVE q[j] = s[i + j]
        <5>1. j \in 1..(Len(s) - (i + 1) + 1) /\ i + 1 + j - 1 = i + j
          BY <1>1
        <5> QED
          BY <4>3, <5>1
      <4> QED
        BY <4>3, <4>4, <4>5
    <3>3. /\ r \in Seq(Keys) /\ Len(r) = Len(p) + Len(q)
          /\ \A j \in 1..(Len(p) + Len(q)) :
               r[j] = IF j <= Len(p) THEN p[j] ELSE q[j - Len(p)]
      <4>1. r = p \o q
        BY <2>4, <2>5
      <4>2. p \in Seq(Keys) /\ q \in Seq(Keys)
        BY <3>1, <3>2
      <4>3. /\ p \o q \in Seq(Keys) /\ Len(p \o q) = Len(p) + Len(q)
            /\ \A j \in 1..(Len(p) + Len(q)) :
                 (p \o q)[j] = IF j <= Len(p) THEN p[j] ELSE q[j - Len(p)]
        BY <4>2, ConcatProperties
      <4> QED
        BY <4>1, <4>3
    <3>4. Len(r) = Len(s) - 1
      BY <1>1, <3>1, <3>2, <3>3
    <3>5. ASSUME NEW j \in 1..(Len(s) - 1)
          PROVE  r[j] = IF j <= i - 1 THEN s[j] ELSE s[j + 1]
      <4>1. j \in 1..(Len(p) + Len(q))
        BY <1>1, <3>1, <3>2
      <4>2. CASE j <= i - 1
        BY <1>1, <3>1, <3>3, <4>1, <4>2
      <4>3. CASE j > i - 1
        <5>1. j - (i - 1) \in 1..(Len(s) - i) /\ i + (j - (i - 1)) = j + 1
          BY <1>1, <4>3
        <5>2. r[j] = q[j - (i - 1)]
          BY <1>1, <3>1, <3>3, <4>1, <4>3
        <5> QED
          BY <1>1, <3>2, <4>3, <5>1, <5>2
      <4> QED
        BY <1>1, <4>2, <4>3
    <3>6. DOMAIN r = 1..(Len(s) - 1)
      <4>1. DOMAIN r = 1..Len(r)
        BY <3>3
      <4> QED
        BY <3>4, <4>1
    <3> QED
      BY <3>3, <3>4, <3>5, <3>6
  <2>7. IsInjective(r)
    <3>1. \A a, b \in 1..Len(s) : s[a] = s[b] => a = b
      BY <1>1 DEF Listed, IsInjective
    <3>2. \A a, b \in 1..(Len(s) - 1) : r[a] = r[b] => a = b
      BY <1>1, <2>6, <3>1
    <3> QED
      BY <2>6, <3>2 DEF IsInjective
  <2>8. ToSet(r) = ToSet(s) \ {k}
    <3>1. \A j \in 1..(Len(s) - 1) : r[j] \in ToSet(s) /\ r[j] # k
      BY <1>1, <2>1, <2>2, <2>6 DEF ToSet
    <3>2. ASSUME NEW j \in 1..Len(s), s[j] # k PROVE s[j] \in ToSet(r)
      <4>1. CASE j < i
        <5>1. j \in 1..(Len(s) - 1) /\ r[j] = s[j]
          BY <1>1, <2>6, <4>1
        <5> QED
          BY <2>6, <5>1 DEF ToSet
      <4>2. CASE j > i
        <5>1. j - 1 \in 1..(Len(s) - 1) /\ r[j - 1] = s[j]
          BY <1>1, <2>6, <4>2
        <5> QED
          BY <2>6, <5>1 DEF ToSet
      <4> QED
        BY <2>1, <3>2, <4>1, <4>2
    <3> QED
      BY <1>1, <2>6, <3>1, <3>2 DEF ToSet
  <2> QED
    BY <1>1, <2>6, <2>7, <2>8 DEF Listed
<1> QED
  BY <1>2, <1>3

\* Putting a key the list has not got at its front.
LEMMA PushKey ==
  ASSUME NEW r, Listed(r), NEW k \in Keys, k \notin ToSet(r), NEW f, f = <<k>> \o r
  PROVE  Listed(f) /\ ToSet(f) = ToSet(r) \cup {k} /\ Len(f) = Len(r) + 1
<1>1. r \in Seq(Keys) /\ Len(r) \in Nat /\ DOMAIN r = 1..Len(r)
  BY DEF Listed
<1>2. /\ f \in Seq(Keys) /\ Len(f) = Len(r) + 1 /\ f[1] = k
      /\ \A i \in 2..(Len(r) + 1) : f[i] = r[i - 1]
  BY <1>1
<1>3. DOMAIN f = 1..(Len(r) + 1)
  BY <1>1, <1>2
<1>4. \A i \in 1..Len(r) : f[i + 1] = r[i]
  BY <1>1, <1>2
<1>5. IsInjective(f)
  <2>1. \A i \in 2..(Len(r) + 1) : f[i] # k
    BY <1>1, <1>2 DEF ToSet
  <2>2. \A i, j \in 1..Len(r) : r[i] = r[j] => i = j
    BY <1>1 DEF Listed, IsInjective
  <2>3. ASSUME NEW i \in 1..(Len(r) + 1), NEW j \in 1..(Len(r) + 1), f[i] = f[j]
        PROVE  i = j
    <3>1. CASE i = 1 \/ j = 1
      BY <1>1, <1>2, <2>1, <2>3, <3>1
    <3>2. CASE i # 1 /\ j # 1
      <4>1. i - 1 \in 1..Len(r) /\ j - 1 \in 1..Len(r)
        BY <1>1, <3>2
      <4>2. r[i - 1] = r[j - 1]
        BY <1>1, <1>2, <2>3, <3>2
      <4> QED
        BY <2>2, <4>1, <4>2
    <3> QED
      BY <3>1, <3>2
  <2> QED
    BY <1>3, <2>3 DEF IsInjective
<1>6. ToSet(f) = ToSet(r) \cup {k}
  <2>1. ASSUME NEW i \in 1..(Len(r) + 1) PROVE f[i] \in ToSet(r) \cup {k}
    <3>1. CASE i = 1
      BY <1>2, <3>1
    <3>2. CASE i # 1
      <4>1. i \in 2..(Len(r) + 1) /\ i - 1 \in 1..Len(r)
        BY <1>1, <3>2
      <4> QED
        BY <1>1, <1>2, <4>1 DEF ToSet
    <3> QED
      BY <3>1, <3>2
  <2>2. ASSUME NEW i \in 1..Len(r) PROVE r[i] \in ToSet(f)
    <3>1. i + 1 \in DOMAIN f /\ f[i + 1] = r[i]
      BY <1>1, <1>3, <1>4
    <3> QED
      BY <3>1 DEF ToSet
  <2>3. k \in ToSet(f)
    BY <1>1, <1>2, <1>3 DEF ToSet
  <2> QED
    BY <1>1, <1>3, <2>1, <2>2, <2>3 DEF ToSet
<1> QED
  BY <1>2, <1>5, <1>6 DEF Listed

\* The m most recent keys.
LEMMA MostRecent ==
  ASSUME NEW r, Listed(r), NEW m \in 0..Len(r), NEW p, p = SubSeq(r, 1, m)
  PROVE  Listed(p) /\ ToSet(p) \subseteq ToSet(r) /\ Len(p) = m
<1>1. r \in Seq(Keys) /\ Len(r) \in Nat /\ DOMAIN r = 1..Len(r) /\ m \in Nat
  BY DEF Listed
<1>2. p \in Seq(Keys) /\ Len(p) = m /\ \A i \in 1..m : p[i] = r[i]
  <2>1. \A i \in 1..m : r[i] \in Keys
    BY <1>1
  <2>2. m \in Int /\ 1 \in Int
    BY <1>1
  <2>3. /\ SubSeq(r, 1, m) \in Seq(Keys)
        /\ Len(SubSeq(r, 1, m)) = IF 1 <= m THEN m - 1 + 1 ELSE 0
        /\ \A i \in 1..(m - 1 + 1) : SubSeq(r, 1, m)[i] = r[1 + i - 1]
    BY <2>1, <2>2, SubSeqProperties
  <2> QED
    BY <1>1, <2>3
<1>3. DOMAIN p = 1..m
  BY <1>2
<1>4. \A i, j \in 1..Len(r) : r[i] = r[j] => i = j
  BY <1>1 DEF Listed, IsInjective
<1>5. \A i, j \in 1..m : p[i] = p[j] => i = j
  BY <1>1, <1>2, <1>4
<1>6. ToSet(p) \subseteq ToSet(r)
  BY <1>1, <1>2, <1>3 DEF ToSet
<1> QED
  BY <1>2, <1>3, <1>5, <1>6 DEF Listed, IsInjective

\* A set of numbers up to n has a greatest.
LEMMA MaxIn ==
  ASSUME NEW n \in Nat, NEW S, S \subseteq 0..n, 0 \in S
  PROVE  Max(S) \in S
<1> DEFINE Gaps == {n - x : x \in S}
<1>1. Gaps \subseteq Nat /\ n \in Gaps
  BY DEF Gaps
<1>2. PICK g \in Gaps : \A y \in Gaps : ~(<<y, g>> \in OpToRel(<, Nat))
  <2> HIDE DEF Gaps
  <2>1. Gaps # {}
    BY <1>1
  <2> QED
    BY <1>1, <2>1, NatLessThanWellFounded, WFMin
<1>3. \A y \in Gaps : ~(y < g)
  BY <1>1, <1>2, Zenon DEF OpToRel
<1>4. PICK x \in S : g = n - x
  BY DEF Gaps
<1>5. ASSUME NEW y \in S PROVE x >= y
  <2>1. ~(n - y < g)
    BY <1>3 DEF Gaps
  <2>2. x \in Nat /\ y \in Nat
    BY <1>4
  <2> QED
    BY <1>4, <2>1, <2>2
<1> QED
  BY <1>5 DEF Max

-----------------------------------------------------------------------------
(* The map, the recency list and the byte count *)

\* A map es, a recency list l and a byte count n that belong together, within the
\* limits.
Sound(es, l, n) ==
  /\ es \in [Keys -> Entry] /\ Listed(l)
  /\ ToSet(l) = {k \in Keys : es[k] # Absent}
  /\ \A k \in ToSet(l) : es[k].bytes \in 1..MaxBytes
  /\ n = BytesIn(es, ToSet(l))
  /\ Len(l) <= MaxEntries /\ n <= MaxBytes

\* Evicting down to the keys in kept.
LEMMA Evicting ==
  ASSUME NEW es, NEW l, NEW n, Sound(es, l, n),
         NEW kept, Listed(kept), ToSet(kept) \subseteq ToSet(l),
         NEW fs, fs = [x \in Keys |-> IF x \in ToSet(kept) THEN es[x] ELSE Absent],
         NEW m, m = n - BytesIn(es, ToSet(l) \ ToSet(kept))
  PROVE  Sound(fs, kept, m) /\ m = BytesIn(es, ToSet(kept))
<1>1. /\ IsFiniteSet(ToSet(l)) /\ IsFiniteSet(ToSet(kept))
      /\ Len(l) \in Nat /\ Len(kept) \in Nat
      /\ Len(l) = Cardinality(ToSet(l)) /\ Len(kept) = Cardinality(ToSet(kept))
  BY ListedCount DEF Sound
<1>2. Len(kept) <= Len(l)
  BY <1>1, FS_Subset
<1>3. IsFiniteSet(ToSet(l) \ ToSet(kept))
  BY <1>1, FS_Subset
<1>4. BytesIn(es, ToSet(kept) \cup (ToSet(l) \ ToSet(kept))) =
        BytesIn(es, ToSet(kept)) + BytesIn(es, ToSet(l) \ ToSet(kept))
  BY <1>1, <1>3, BytesOfBoth
<1>5. ToSet(kept) \cup (ToSet(l) \ ToSet(kept)) = ToSet(l)
  OBVIOUS
<1>6. BytesIn(es, ToSet(kept)) \in Nat /\ BytesIn(es, ToSet(l) \ ToSet(kept)) \in Nat
  BY <1>1, <1>3, BytesFinite
<1>7. n = BytesIn(es, ToSet(l))
  BY DEF Sound
<1>8. m = BytesIn(es, ToSet(kept)) /\ m <= n /\ n \in Nat
  <2>1. PICK a \in Nat, b \in Nat :
          a = BytesIn(es, ToSet(kept)) /\ b = BytesIn(es, ToSet(l) \ ToSet(kept))
    BY <1>6
  <2>2. BytesIn(es, ToSet(l)) = BytesIn(es, ToSet(kept)) + BytesIn(es, ToSet(l) \ ToSet(kept))
    BY <1>4, <1>5
  <2>3. n = a + b
    BY <1>7, <2>1, <2>2
  <2>4. m = n - b
    BY <2>1
  <2>5. m = a /\ m <= n /\ n \in Nat
    BY <2>3, <2>4
  <2> QED
    BY <2>1, <2>5
<1>9. ToSet(kept) \subseteq Keys
  BY DEF Sound
<1>10. \A k \in ToSet(kept) : fs[k] = es[k]
  BY <1>9
<1>11. BytesIn(fs, ToSet(kept)) = m
  <2>1. \A k \in ToSet(kept) : es[k] = fs[k]
    BY <1>10
  <2> QED
    BY <1>8, <2>1, BytesOfSame
<1>12. fs \in [Keys -> Entry]
  BY DEF Sound, Entry, Absent
<1>13. ToSet(kept) = {k \in Keys : fs[k] # Absent}
  BY <1>9, <1>10 DEF Sound
<1>14. \A k \in ToSet(kept) : fs[k].bytes \in 1..MaxBytes
  BY <1>10 DEF Sound
<1>15. Len(kept) <= MaxEntries /\ m <= MaxBytes
  BY <1>1, <1>2, <1>8, CacheAssumption DEF Sound
<1> QED
  BY <1>8, <1>11, <1>12, <1>13, <1>14, <1>15 DEF Sound

\* Inserting an entry there is room for.
LEMMA Inserting ==
  ASSUME NEW es, NEW l, NEW n, Sound(es, l, n), NEW k \in Keys, k \notin ToSet(l),
         NEW e \in Entry, e.bytes \in 1..MaxBytes,
         Len(l) < MaxEntries, n + e.bytes <= MaxBytes,
         NEW fs, fs = [es EXCEPT ![k] = e], NEW f, f = <<k>> \o l
  PROVE  Sound(fs, f, n + e.bytes)
<1>1. Listed(f) /\ ToSet(f) = ToSet(l) \cup {k} /\ Len(f) = Len(l) + 1
  BY PushKey DEF Sound
<1>2. IsFiniteSet(ToSet(l)) /\ Len(l) \in Nat
  BY ListedCount DEF Sound
<1>3. es \in [Keys -> Entry] /\ fs \in [Keys -> Entry] /\ fs[k] = e
  BY DEF Sound
<1>4. \A x \in ToSet(l) : es[x] = fs[x]
  BY DEF Sound
<1>5. BytesIn(fs, ToSet(l)) = n
  <2>1. BytesIn(es, ToSet(l)) = BytesIn(fs, ToSet(l))
    <3>1. PICK S : S = ToSet(l)
      OBVIOUS
    <3>2. \A x \in S : es[x] = fs[x]
      BY <1>4, <3>1
    <3>3. BytesIn(es, S) = BytesIn(fs, S)
      BY ONLY <3>2, BytesOfSame
    <3> QED
      BY <3>1, <3>3
  <2>2. n = BytesIn(es, ToSet(l))
    BY DEF Sound
  <2> QED
    BY <2>1, <2>2
<1>6. BytesIn(fs, {k}) = e.bytes
  <2>1. fs[k].bytes \in 0..MaxBytes
    BY <1>3
  <2>2. BytesIn(fs, {k}) = fs[k].bytes
    BY <2>1, BytesOfOne
  <2> QED
    BY <1>3, <2>2
<1>7. BytesIn(fs, ToSet(l) \cup {k}) = BytesIn(fs, ToSet(l)) + BytesIn(fs, {k})
  <2>1. IsFiniteSet({k}) /\ ToSet(l) \cap {k} = {}
    BY FS_Singleton
  <2> QED
    BY <1>2, <2>1, BytesOfBoth
<1>8. BytesIn(fs, ToSet(f)) = n + e.bytes
  BY <1>1, <1>5, <1>6, <1>7
<1>9. e # Absent
  BY DEF Absent
<1>10. ToSet(f) = {x \in Keys : fs[x] # Absent}
  BY <1>1, <1>3, <1>9 DEF Sound
<1>11. \A x \in ToSet(f) : fs[x].bytes \in 1..MaxBytes
  BY <1>1, <1>3, <1>4 DEF Sound
<1>12. Len(f) <= MaxEntries
  BY <1>1, <1>2, CacheAssumption
<1> QED
  BY <1>1, <1>3, <1>8, <1>10, <1>11, <1>12 DEF Sound

Tickets ==
  /\ revisions \in Revisions \cup {0} /\ initialized \in BOOLEAN
  /\ generation \in 0..MaxTicket /\ now \in Nat
  /\ task \in [Tasks -> [ticket : 0..MaxTicket, rev : Revisions \cup {0}]]

CacheInv == Tickets /\ Sound(entries, lru, retained_bytes)

\* The byte counts that BytesOf and BytesIn give are the same.
LEMMA BytesAreIn == Live = {k \in Keys : entries[k] # Absent} /\ \A S : BytesOf(S) = BytesIn(entries, S)
BY DEF Live, BytesOf, BytesIn

\* After the evictions of put() there is room for the value.
LEMMA KeptLeavesRoom ==
  ASSUME Sound(entries, lru, retained_bytes), NEW k \in Keys, NEW b \in 1..MaxBytes,
         NEW kept, kept = Kept(k, b)
  PROVE  /\ Listed(kept) /\ ToSet(kept) \subseteq ToSet(lru) \ {k}
         /\ Len(kept) < MaxEntries /\ BytesIn(entries, ToSet(kept)) + b <= MaxBytes
<1>1. PICK others : others = RemoveFirst(lru, k)
  OBVIOUS
<1>2. Listed(lru) /\ ToSet(lru) = Live
  BY DEF Sound, Live
<1>3. Listed(others) /\ ToSet(others) = ToSet(lru) \ {k}
  <2>1. PICK l : l = lru
    OBVIOUS
  <2> QED
    BY <1>1, <1>2, <2>1, EraseKey
<1>4. PICK top \in Nat : top = Len(others)
  BY <1>3 DEF Listed
<1>5. PICK S : S = {0} \cup {n \in 1..top : Fits(k, b, n)}
  OBVIOUS
<1>6. S \subseteq 0..top /\ 0 \in S
  BY <1>5
<1>7. PICK m \in S : m = Max(S)
  BY <1>6, MaxIn
<1>8. m \in 0..Len(others)
  BY <1>4, <1>6
<1>9. kept = SubSeq(others, 1, m)
  BY <1>1, <1>4, <1>5, <1>7 DEF Kept
<1>10. Listed(kept) /\ ToSet(kept) \subseteq ToSet(others) /\ Len(kept) = m
  BY <1>3, <1>8, <1>9, MostRecent
<1>11. CASE m = 0
  <2>1. ToSet(kept) = {}
    BY <1>10, <1>11 DEF ToSet, Listed
  <2>2. BytesIn(entries, ToSet(kept)) = 0
    <3>1. PICK es : es = entries
      OBVIOUS
    <3> QED
      BY <2>1, <3>1, BytesOfNone
  <2>3. Len(kept) < MaxEntries
    BY <1>10, <1>11, CacheAssumption
  <2>4. b \in Nat /\ b <= MaxBytes
    BY CacheAssumption
  <2> QED
    BY <1>3, <1>10, <2>2, <2>3, <2>4
<1>12. CASE m # 0
  <2>1. m \in 1..top /\ Fits(k, b, m)
    BY <1>5, <1>7, <1>12
  <2>2. /\ m < MaxEntries
        /\ b <= MaxBytes - (retained_bytes - BytesOf(Live \ ToSet(kept)))
    BY <1>1, <1>9, <2>1 DEF Fits
  <2>3. BytesOf(Live \ ToSet(kept)) = BytesIn(entries, ToSet(lru) \ ToSet(kept))
    BY <1>2, BytesAreIn
  <2>4. retained_bytes - BytesIn(entries, ToSet(lru) \ ToSet(kept)) =
          BytesIn(entries, ToSet(kept))
    <3>1. PICK es, l, n : es = entries /\ l = lru /\ n = retained_bytes
      OBVIOUS
    <3>2. Sound(es, l, n)
      BY <3>1
    <3>3. ToSet(kept) \subseteq ToSet(l)
      BY <1>3, <1>10, <3>1
    <3>4. PICK left : left = n - BytesIn(es, ToSet(l) \ ToSet(kept))
      OBVIOUS
    <3>5. PICK fs : fs = [x \in Keys |-> IF x \in ToSet(kept) THEN es[x] ELSE Absent]
      OBVIOUS
    <3>6. left = BytesIn(es, ToSet(kept))
      BY <1>10, <3>2, <3>3, <3>4, <3>5, Evicting
    <3> QED
      BY <3>1, <3>4, <3>6
  <2>5. BytesIn(entries, ToSet(kept)) \in Nat
    <3>1. PICK es, U : es = entries /\ U = ToSet(kept)
      OBVIOUS
    <3>2. IsFiniteSet(U)
      BY <1>10, <3>1, ListedCount
    <3> QED
      BY <3>1, <3>2, BytesFinite
  <2>6. BytesIn(entries, ToSet(kept)) + b <= MaxBytes
    <3>1. PICK a \in Nat : a = BytesIn(entries, ToSet(kept))
      BY <2>5
    <3>2. b <= MaxBytes - a
      BY <2>2, <2>3, <2>4, <3>1
    <3> QED
      BY <3>1, <3>2, CacheAssumption
  <2> QED
    BY <1>3, <1>10, <2>2, <2>6
<1> QED
  BY <1>11, <1>12

LEMMA NothingStored ==
  ASSUME NEW es, es = [k \in Keys |-> Absent]
  PROVE  Sound(es, <<>>, 0)
<1>1. ToSet(<<>>) = {}
  BY DEF ToSet
<1>2. BytesIn(es, ToSet(<<>>)) = 0
  BY <1>1, BytesOfNone
<1>3. Listed(<<>>)
  BY DEF Listed, IsInjective
<1>4. es \in [Keys -> Entry]
  BY DEF Entry, Absent
<1> QED
  BY <1>1, <1>2, <1>3, <1>4, CacheAssumption DEF Sound

\* An expired entry is dropped from the map, the list and the count.
LEMMA ExpiredDropped ==
  ASSUME Sound(entries, lru, retained_bytes), NEW t \in Tasks, NEW k \in Keys,
         GetExpired(t, k)
  PROVE  Sound(entries', lru', retained_bytes')
<1>1. PICK es, l, n : es = entries /\ l = lru /\ n = retained_bytes
  OBVIOUS
<1>2. PICK kept, fs, m : kept = lru' /\ fs = entries' /\ m = retained_bytes'
  OBVIOUS
<1>3. Sound(es, l, n)
  BY <1>1
<1>4. kept = RemoveFirst(l, k)
  BY <1>1, <1>2 DEF GetExpired
<1>5. Listed(kept) /\ ToSet(kept) = ToSet(l) \ {k}
  BY <1>3, <1>4, EraseKey DEF Sound
<1>6. k \in ToSet(l) /\ ToSet(l) \ ToSet(kept) = {k}
  BY <1>1, <1>3, <1>5 DEF Sound, GetExpired, Live
<1>7. BytesIn(es, {k}) = es[k].bytes
  <2>1. es[k].bytes \in 0..MaxBytes
    BY <1>3, <1>6, CacheAssumption DEF Sound
  <2> QED
    BY <2>1, BytesOfOne
<1>8. m = n - BytesIn(es, ToSet(l) \ ToSet(kept))
  BY <1>1, <1>2, <1>6, <1>7 DEF GetExpired
<1>9. fs = [x \in Keys |-> IF x \in ToSet(kept) THEN es[x] ELSE Absent]
  <2>1. fs = [es EXCEPT ![k] = Absent]
    BY <1>1, <1>2 DEF GetExpired
  <2>2. es \in [Keys -> Entry] /\ ToSet(l) = {x \in Keys : es[x] # Absent}
    BY <1>3 DEF Sound
  <2> QED
    BY <1>5, <2>1, <2>2
<1>10. ToSet(kept) \subseteq ToSet(l)
  BY <1>5
<1>11. Sound(fs, kept, m)
  BY <1>3, <1>5, <1>8, <1>9, <1>10, Evicting
<1> QED
  BY <1>2, <1>11

\* A hit moves its key to the front of the list.
LEMMA HitMoves ==
  ASSUME Sound(entries, lru, retained_bytes), NEW t \in Tasks, NEW k \in Keys,
         GetHit(t, k)
  PROVE  Sound(entries', lru', retained_bytes')
<1>1. PICK l, r, f : l = lru /\ r = RemoveFirst(l, k) /\ f = lru'
  OBVIOUS
<1>2. Listed(l) /\ ToSet(l) = Live
  BY <1>1 DEF Sound, Live
<1>3. Listed(r) /\ ToSet(r) = ToSet(l) \ {k}
  BY <1>1, <1>2, EraseKey
<1>4. f = <<k>> \o r
  BY <1>1 DEF GetHit
<1>5. k \notin ToSet(r)
  BY <1>3
<1>6. Listed(f) /\ ToSet(f) = ToSet(r) \cup {k}
  BY <1>3, <1>4, <1>5, PushKey
<1>7. k \in Live
  BY DEF GetHit, Hits
<1>8. ToSet(f) = ToSet(l)
  BY <1>2, <1>3, <1>6, <1>7
<1>9. Len(f) = Len(l)
  BY <1>2, <1>6, <1>8, ListedCount
<1> QED
  BY <1>1, <1>6, <1>8, <1>9 DEF Sound, GetHit

\* The evictions of put(), which is all of it when the allocation fails.
LEMMA PutEvicts ==
  ASSUME Sound(entries, lru, retained_bytes), NEW k \in Keys, NEW b \in 1..MaxBytes,
         NEW kept, kept = Kept(k, b),
         NEW fs, fs = [x \in Keys |-> IF x \in ToSet(kept) THEN entries[x] ELSE Absent],
         NEW m, m = retained_bytes - BytesOf(Live \ ToSet(kept))
  PROVE  Sound(fs, kept, m) /\ m + b <= MaxBytes
<1>1. /\ Listed(kept) /\ ToSet(kept) \subseteq ToSet(lru) \ {k}
      /\ BytesIn(entries, ToSet(kept)) + b <= MaxBytes
  BY KeptLeavesRoom
<1>2. PICK es, l, n : es = entries /\ l = lru /\ n = retained_bytes
  OBVIOUS
<1>3. Sound(es, l, n) /\ ToSet(kept) \subseteq ToSet(l)
  BY <1>1, <1>2
<1>4. m = n - BytesIn(es, ToSet(l) \ ToSet(kept))
  <2>1. ToSet(lru) = Live
    BY DEF Sound, Live
  <2>2. BytesOf(Live \ ToSet(kept)) = BytesIn(entries, Live \ ToSet(kept))
    BY BytesAreIn
  <2> QED
    BY <1>2, <2>1, <2>2
<1>5. fs = [x \in Keys |-> IF x \in ToSet(kept) THEN es[x] ELSE Absent]
  BY <1>2
<1>6. Sound(fs, kept, m) /\ m = BytesIn(es, ToSet(kept))
  BY <1>1, <1>3, <1>4, <1>5, Evicting
<1> QED
  BY <1>1, <1>2, <1>6

LEMMA PutSound ==
  ASSUME Tickets, Sound(entries, lru, retained_bytes), NEW t \in Tasks, NEW k \in Keys,
         NEW b \in Sizes, NEW ttl \in Lifetimes, Put(t, k, b, ttl)
  PROVE  Sound(entries', lru', retained_bytes')
<1>1. b \in 1..MaxBytes /\ ttl \in Nat /\ now \in Nat /\ now + ttl \in Nat
  BY CacheAssumption DEF Put, Tickets
<1>2. PICK kept : kept = Kept(k, b)
  OBVIOUS
<1>3. PICK fs : fs = [x \in Keys |-> IF x \in ToSet(kept) THEN entries[x] ELSE Absent]
  OBVIOUS
<1>4. PICK m : m = retained_bytes - BytesOf(Live \ ToSet(kept))
  OBVIOUS
<1>5. Sound(fs, kept, m) /\ m + b <= MaxBytes
  BY <1>1, <1>2, <1>3, <1>4, PutEvicts
<1>6. k \notin ToSet(kept) /\ Len(kept) < MaxEntries
  BY <1>1, <1>2, KeptLeavesRoom
<1>7. task[t].rev \in Nat
  <2>1. task[t].rev \in Revisions \cup {0}
    BY DEF Tickets
  <2>2. Revisions \cup {0} \subseteq Nat
    BY CacheAssumption
  <2> QED
    BY <2>1, <2>2
<1>8. PICK e \in Entry : e = [rev |-> task[t].rev, bytes |-> b, expires |-> now + ttl]
  <2>1. b \in Nat
    BY <1>1, CacheAssumption
  <2>2. [rev |-> task[t].rev, bytes |-> b, expires |-> now + ttl] \in Entry
    BY <1>1, <1>7, <2>1 DEF Entry
  <2> QED
    BY <2>2, Zenon
<1>9. e.bytes = b
  BY <1>8
<1>10. PICK gs, f : gs = entries' /\ f = lru'
  OBVIOUS
<1>11. f = <<k>> \o kept
  BY <1>2, <1>10 DEF Put
<1>12. gs = [fs EXCEPT ![k] = e]
  <2>1. entries' = [x \in Keys |->
              IF x = k THEN e ELSE IF x \in ToSet(kept) THEN entries[x] ELSE Absent]
    BY <1>2, <1>8 DEF Put
  <2> QED
    BY <1>3, <1>10, <2>1
<1>13. Sound(gs, f, m + e.bytes)
  BY <1>1, <1>5, <1>6, <1>9, <1>11, <1>12, Inserting
<1>14. retained_bytes' = m + b
  BY <1>2, <1>4 DEF Put
<1> QED
  BY <1>9, <1>10, <1>13, <1>14

LEMMA CacheInit == Init => CacheInv
<1> SUFFICES ASSUME Init PROVE CacheInv
  OBVIOUS
<1>1. Tickets
  <2>1. 0 \in 0..MaxTicket /\ 0 \in Nat
    BY CacheAssumption
  <2>2. NoTask \in [ticket : 0..MaxTicket, rev : Revisions \cup {0}]
    BY <2>1 DEF NoTask
  <2>3. task \in [Tasks -> [ticket : 0..MaxTicket, rev : Revisions \cup {0}]]
    BY <2>2 DEF Init
  <2> QED
    BY <2>1, <2>3, Zenon DEF Init, Tickets
<1>2. PICK es : es = entries
  OBVIOUS
<1>3. es = [k \in Keys |-> Absent]
  BY <1>2 DEF Init
<1>4. Sound(es, <<>>, 0)
  BY <1>3, NothingStored
<1> QED
  BY <1>1, <1>2, <1>4 DEF Init, CacheInv

LEMMA CacheStep == CacheInv /\ [Next]_vars => CacheInv'
<1> SUFFICES ASSUME CacheInv, [Next]_vars PROVE CacheInv'
  OBVIOUS
<1> USE DEF fence, store
<1>1. Tickets /\ Sound(entries, lru, retained_bytes)
  BY DEF CacheInv
<1>2. NextTicket \in 0..MaxTicket
  BY <1>1, CacheAssumption DEF Tickets, NextTicket
<1>3. ASSUME ClearLocked PROVE Sound(entries', lru', retained_bytes')
  <2>1. PICK es : es = entries'
    OBVIOUS
  <2>2. Sound(es, <<>>, 0)
    BY <1>3, <2>1, NothingStored DEF ClearLocked
  <2> QED
    BY <1>3, <2>1, <2>2 DEF ClearLocked
<1>4. ASSUME UNCHANGED store PROVE Sound(entries', lru', retained_bytes')
  BY <1>1, <1>4
<1>5. ASSUME UNCHANGED <<fence, now, task>> PROVE Tickets'
  BY <1>1, <1>5 DEF Tickets
<1>6. CASE Invalidate
  <2>1. Tickets'
    BY <1>1, <1>2, <1>6 DEF Invalidate, Tickets
  <2> QED
    BY <1>3, <1>6, <2>1 DEF Invalidate, CacheInv
<1>7. ASSUME NEW t \in Tasks, NEW r \in Revisions, Advance(t, r) PROVE CacheInv'
  <2>1. Tickets'
    BY <1>1, <1>2, <1>7 DEF Advance, Tickets
  <2> QED
    BY <1>3, <1>7, <2>1 DEF Advance, CacheInv
<1>8. ASSUME NEW t \in Tasks, NEW r \in Revisions, Join(t, r) PROVE CacheInv'
  <2>1. Tickets'
    BY <1>1, <1>8 DEF Join, Tickets
  <2> QED
    BY <1>4, <1>8, <2>1 DEF Join, CacheInv
<1>9. ASSUME NEW t \in Tasks, Done(t) PROVE CacheInv'
  <2>1. Tickets'
    BY <1>1, <1>9, CacheAssumption DEF Done, Tickets, NoTask
  <2> QED
    BY <1>4, <1>9, <2>1 DEF Done, CacheInv
<1>10. ASSUME Tick \/ UNCHANGED vars PROVE CacheInv'
  <2>1. Tickets'
    BY <1>1, <1>10 DEF Tick, vars, Tickets
  <2>2. UNCHANGED store
    BY <1>10 DEF Tick, vars
  <2> QED
    BY <1>4, <2>1, <2>2 DEF CacheInv
<1>11. ASSUME NEW t \in Tasks, NEW k \in Keys, GetExpired(t, k) PROVE CacheInv'
  <2>1. Sound(entries', lru', retained_bytes')
    BY <1>1, <1>11, ExpiredDropped
  <2> QED
    BY <1>5, <1>11, <2>1 DEF GetExpired, CacheInv
<1>12. ASSUME NEW t \in Tasks, NEW k \in Keys, GetHit(t, k) PROVE CacheInv'
  <2>1. Sound(entries', lru', retained_bytes')
    BY <1>1, <1>12, HitMoves
  <2> QED
    BY <1>5, <1>12, <2>1 DEF GetHit, CacheInv
<1>13. ASSUME NEW t \in Tasks, NEW k \in Keys, NEW b \in Sizes, PutThrows(t, k, b)
       PROVE  CacheInv'
  <2>1. b \in 1..MaxBytes
    BY <1>13, CacheAssumption DEF PutThrows
  <2>2. PICK kept, fs, m : kept = lru' /\ fs = entries' /\ m = retained_bytes'
    OBVIOUS
  <2>3. kept = Kept(k, b) /\ m = retained_bytes - BytesOf(Live \ ToSet(kept))
    BY <1>13, <2>2 DEF PutThrows
  <2>4. fs = [x \in Keys |-> IF x \in ToSet(kept) THEN entries[x] ELSE Absent]
    BY <1>13, <2>2 DEF PutThrows
  <2>5. Sound(fs, kept, m)
    BY <1>1, <2>1, <2>3, <2>4, PutEvicts
  <2>6. Sound(entries', lru', retained_bytes')
    BY <2>2, <2>5
  <2> QED
    BY <1>5, <1>13, <2>6 DEF PutThrows, CacheInv
<1>14. ASSUME NEW t \in Tasks, NEW k \in Keys, NEW b \in Sizes, NEW ttl \in Lifetimes,
              Put(t, k, b, ttl)
       PROVE  CacheInv'
  <2>1. Sound(entries', lru', retained_bytes')
    BY <1>1, <1>14, PutSound
  <2> QED
    BY <1>5, <1>14, <2>1 DEF Put, CacheInv
<1> QED
  BY <1>6, <1>7, <1>8, <1>9, <1>10, <1>11, <1>12, <1>13, <1>14 DEF Next

\* Whatever the limits, and whatever the order of lookups, writes and failed writes,
\* the map and the recency list (cache.hpp, entries_ and lru_) hold the same keys, each
\* once, within both limits, and retained_bytes is the sum over the entries.
THEOREM StoreConsistent == Spec => []Consistent
<1>1. CacheInv => Consistent
  <2> SUFFICES ASSUME CacheInv PROVE Consistent
    OBVIOUS
  <2>1. Tickets /\ Sound(entries, lru, retained_bytes)
    BY DEF CacheInv
  <2>2. PICK es, l, n : es = entries /\ l = lru /\ n = retained_bytes
    OBVIOUS
  <2>3. Sound(es, l, n)
    BY <2>1, <2>2
  <2>4. /\ Len(l) = Cardinality(ToSet(l)) /\ IsFiniteSet(ToSet(l))
    BY <2>3, ListedCount DEF Sound
  <2>5. BytesIn(es, ToSet(l)) \in Nat
    BY <2>4, BytesFinite
  <2>6. n \in Nat /\ n = BytesIn(es, ToSet(l))
    BY <2>3, <2>5 DEF Sound
  <2>7. ToSet(l) = Live
    BY <2>2, <2>3 DEF Sound, Live
  <2>8. BytesOf(Live) = BytesIn(entries, Live)
    BY BytesAreIn
  <2>9. TypeOK
    BY <2>1, <2>2, <2>6 DEF TypeOK, Tickets, Sound, Listed, Entry
  <2> QED
    BY <2>1, <2>2, <2>3, <2>4, <2>6, <2>7, <2>8, <2>9 DEF Consistent, Sound
<1>2. Init => CacheInv
  BY CacheInit
<1>3. CacheInv /\ [Next]_vars => CacheInv'
  BY CacheStep
<1> QED
  BY <1>1, <1>2, <1>3, PTL DEF Spec
=============================================================================
