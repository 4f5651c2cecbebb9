------------------------------ MODULE LayaProofs ------------------------------
(* What concurrent predict_batch() calls share, for any callers, batches and *)
(* limits: the cache of prepared heads and the pool of tensor buffers.       *)
EXTENDS Laya, FiniteSetTheorems, SequenceTheorems, WellFoundedInduction, TLAPS

-----------------------------------------------------------------------------
(* Sequences without repetition *)

\* s cut after its i-th element into p and q.
CutAt(S, s, i, p, q) ==
  /\ p \in Seq(S) /\ IsInjective(p) /\ Len(p) = i
  /\ q \in Seq(S) /\ IsInjective(q) /\ Len(q) = Len(s) - i
  /\ ToSet(p) \cup ToSet(q) = ToSet(s) /\ ToSet(p) \cap ToSet(q) = {}
  /\ \A j \in 1..(Len(s) - i) : q[j] = s[i + j]

LEMMA Cutting ==
  ASSUME NEW S, NEW s \in Seq(S), IsInjective(s), NEW i \in 0..Len(s),
         NEW p, p = SubSeq(s, 1, i), NEW q, q = SubSeq(s, i + 1, Len(s))
  PROVE  CutAt(S, s, i, p, q)
<1>1. PICK n \in Nat : n = Len(s)
  OBVIOUS
<1>2. DOMAIN s = 1..n /\ \A j \in 1..n : s[j] \in S
  BY <1>1
<1>3. i \in 0..n
  BY <1>1
<1>4. p \in Seq(S) /\ Len(p) = i /\ \A j \in 1..i : p[j] = s[j]
  <2>1. \A j \in 1..i : s[j] \in S
    BY <1>2, <1>3
  <2>2. i \in Int /\ 1 \in Int
    BY <1>3
  <2>3. /\ SubSeq(s, 1, i) \in Seq(S)
        /\ Len(SubSeq(s, 1, i)) = IF 1 <= i THEN i - 1 + 1 ELSE 0
        /\ \A j \in 1..(i - 1 + 1) : SubSeq(s, 1, i)[j] = s[1 + j - 1]
    BY <2>1, <2>2, SubSeqProperties
  <2> QED
    BY <1>3, <2>3
<1>5. q \in Seq(S) /\ Len(q) = n - i /\ \A j \in 1..(n - i) : q[j] = s[i + j]
  <2>1. \A j \in (i + 1)..n : s[j] \in S
    BY <1>2, <1>3
  <2>2. i + 1 \in Int /\ n \in Int
    BY <1>3
  <2>3. /\ q \in Seq(S) /\ Len(q) = IF i + 1 <= n THEN n - (i + 1) + 1 ELSE 0
        /\ \A j \in 1..(n - (i + 1) + 1) : q[j] = s[i + 1 + j - 1]
    BY <1>1, <2>1, <2>2, SubSeqProperties
  <2>4. Len(q) = n - i
    <3>1. i + 1 <= n \/ i = n
      BY <1>3
    <3>2. CASE i + 1 <= n
      BY <1>3, <2>3, <3>2
    <3>3. CASE i = n
      BY <1>3, <2>3, <3>3
    <3> QED
      BY <3>1, <3>2, <3>3
  <2>5. ASSUME NEW j \in 1..(n - i) PROVE q[j] = s[i + j]
    <3>1. j \in 1..(n - (i + 1) + 1) /\ i + 1 + j - 1 = i + j
      BY <1>3
    <3> QED
      BY <2>3, <3>1
  <2> QED
    BY <2>3, <2>4, <2>5
<1>6. DOMAIN p = 1..i /\ DOMAIN q = 1..(n - i)
  <2>1. DOMAIN p = 1..Len(p) /\ DOMAIN q = 1..Len(q)
    BY <1>4, <1>5
  <2> QED
    BY <1>4, <1>5, <2>1
<1>7. \A j, k \in 1..n : s[j] = s[k] => j = k
  BY <1>2 DEF IsInjective
<1>8. IsInjective(p)
  <2>1. \A j, k \in 1..i : p[j] = p[k] => j = k
    BY <1>3, <1>4, <1>7
  <2> QED
    BY <1>6, <2>1 DEF IsInjective
<1>9. \A j \in 1..(n - i) : i + j \in 1..n
  BY <1>3
<1>10. IsInjective(q)
  <2>1. ASSUME NEW j \in 1..(n - i), NEW k \in 1..(n - i), q[j] = q[k] PROVE j = k
    <3>1. s[i + j] = s[i + k]
      BY <1>5, <2>1
    <3>2. i + j = i + k
      BY <1>7, <1>9, <3>1
    <3> QED
      BY <1>3, <3>2
  <2> QED
    BY <1>6, <2>1 DEF IsInjective
<1>11. ToSet(p) = {s[j] : j \in 1..i}
  BY <1>4, <1>6 DEF ToSet
<1>12. ToSet(q) = {s[i + j] : j \in 1..(n - i)}
  BY <1>5, <1>6 DEF ToSet
<1>13. ToSet(s) = {s[j] : j \in 1..n}
  BY <1>2 DEF ToSet
<1>14. ASSUME NEW j \in 1..n PROVE s[j] \in ToSet(p) \cup ToSet(q)
  <2>1. CASE j <= i
    <3>1. j \in 1..i
      BY <1>3, <2>1
    <3> QED
      BY <1>11, <3>1
  <2>2. CASE i < j
    <3>1. j - i \in 1..(n - i) /\ i + (j - i) = j
      BY <1>3, <2>2
    <3> QED
      BY <1>12, <3>1
  <2> QED
    BY <1>3, <2>1, <2>2
<1>15. ToSet(p) \subseteq ToSet(s) /\ ToSet(q) \subseteq ToSet(s)
  <2>1. \A j \in 1..i : j \in 1..n
    BY <1>3
  <2> QED
    BY <1>9, <1>11, <1>12, <1>13, <2>1
<1>16. ToSet(p) \cap ToSet(q) = {}
  <2>1. ASSUME NEW j \in 1..i, NEW k \in 1..(n - i) PROVE s[j] # s[i + k]
    <3>1. j \in 1..n /\ i + k \in 1..n /\ j # i + k
      BY <1>3
    <3> QED
      BY <1>7, <3>1
  <2> QED
    BY <1>11, <1>12, <2>1
<1>17. ToSet(p) \cup ToSet(q) = ToSet(s)
  BY <1>13, <1>14, <1>15
<1> QED
  BY <1>1, <1>4, <1>5, <1>8, <1>10, <1>16, <1>17 DEF CutAt

\* t is s with the new element x at its end.
Extends(S, s, x, t) ==
  /\ t \in Seq(S) /\ IsInjective(t)
  /\ ToSet(t) = ToSet(s) \cup {x} /\ Len(t) = Len(s) + 1

LEMMA AppendNew ==
  ASSUME NEW S, NEW s \in Seq(S), IsInjective(s), NEW x \in S, x \notin ToSet(s),
         NEW t, t = Append(s, x)
  PROVE  Extends(S, s, x, t)
<1>1. PICK n \in Nat : n = Len(s)
  OBVIOUS
<1>2. DOMAIN s = 1..n
  BY <1>1
<1>3. /\ t \in Seq(S) /\ Len(t) = n + 1 /\ t[n + 1] = x /\ DOMAIN t = 1..(n + 1)
      /\ \A j \in 1..n : t[j] = s[j]
  BY <1>1, <1>2
<1>4. \A j, k \in 1..n : s[j] = s[k] => j = k
  BY <1>2 DEF IsInjective
<1>5. \A j \in 1..n : s[j] # x
  BY <1>2 DEF ToSet
<1>6. \A j \in 1..(n + 1) : j \in 1..n \/ j = n + 1
  OBVIOUS
<1>7. IsInjective(t)
  <2>1. \A j, k \in 1..(n + 1) : t[j] = t[k] => j = k
    BY <1>3, <1>4, <1>5, <1>6
  <2> QED
    BY <1>3, <2>1 DEF IsInjective
<1>8. ToSet(t) = ToSet(s) \cup {x}
  <2>1. n + 1 \in 1..(n + 1) /\ \A j \in 1..n : j \in 1..(n + 1)
    OBVIOUS
  <2>2. ToSet(t) = {t[j] : j \in 1..(n + 1)} /\ ToSet(s) = {s[j] : j \in 1..n}
    BY <1>2, <1>3 DEF ToSet
  <2> QED
    BY <1>3, <1>6, <2>1, <2>2
<1> QED
  BY <1>1, <1>3, <1>7, <1>8 DEF Extends

\* The last element taken off.
LEMMA TakeLast ==
  ASSUME NEW S, NEW s \in Seq(S), IsInjective(s), s # <<>>,
         NEW t, t = Front(s), NEW x, x = Last(s)
  PROVE  /\ t \in Seq(S) /\ IsInjective(t) /\ Len(t) = Len(s) - 1
         /\ x \in S /\ x \notin ToSet(t) /\ ToSet(s) = ToSet(t) \cup {x}
<1>1. PICK n \in Nat : n = Len(s)
  OBVIOUS
<1>2. n > 0
  BY <1>1
<1>3. PICK i : i = n - 1
  OBVIOUS
<1>4. i \in 0..Len(s) /\ i + 1 = n /\ n - i = 1
  BY <1>1, <1>2, <1>3
<1>5. t = SubSeq(s, 1, i)
  BY <1>1, <1>3 DEF Front
<1>6. PICK q : q = SubSeq(s, i + 1, Len(s))
  OBVIOUS
<1>7. CutAt(S, s, i, t, q)
  BY <1>4, <1>5, <1>6, Cutting
<1>8. q \in Seq(S) /\ Len(q) = 1 /\ q[1] = x
  BY <1>1, <1>4, <1>7 DEF CutAt, Last
<1>9. ToSet(q) = {x}
  BY <1>8 DEF ToSet
<1>10. x \in S
  BY <1>8
<1> QED
  BY <1>1, <1>3, <1>7, <1>9, <1>10 DEF CutAt

LEMMA CountOnce ==
  ASSUME NEW S, NEW s \in Seq(S), IsInjective(s)
  PROVE  IsFiniteSet(ToSet(s))
<1>1. PICK n \in Nat : n = Len(s)
  OBVIOUS
<1>2. s \in [1..n -> ToSet(s)] /\ DOMAIN s = 1..n
  BY <1>1 DEF ToSet
<1>3. s \in Surjection(1..n, ToSet(s))
  BY <1>2 DEF Surjection, ToSet
<1>4. IsFiniteSet(1..n)
  BY FS_Interval
<1> QED
  BY <1>3, <1>4, FS_Surjection

-----------------------------------------------------------------------------
(* Bytes *)

LEMMA BytesFinite ==
  ASSUME NEW S, IsFiniteSet(S)
  PROVE  /\ IsFiniteSet({x \in S \X (1..ByteLimit) : x[2] <= Bytes[x[1]]})
         /\ BytesOf(S) \in Nat
<1>1. IsFiniteSet(1..ByteLimit)
  BY LayaAssumption, FS_Interval
<1>2. IsFiniteSet(S \X (1..ByteLimit))
  BY <1>1, FS_Product
<1>3. IsFiniteSet({x \in S \X (1..ByteLimit) : x[2] <= Bytes[x[1]]})
  BY <1>2, FS_Subset
<1> QED
  BY <1>3, FS_CardinalityType DEF BytesOf

LEMMA BytesOfBoth ==
  ASSUME NEW S, NEW T, IsFiniteSet(S), IsFiniteSet(T), S \cap T = {}
  PROVE  BytesOf(S \cup T) = BytesOf(S) + BytesOf(T)
<1> DEFINE Part(U) == {x \in U \X (1..ByteLimit) : x[2] <= Bytes[x[1]]}
<1>1. IsFiniteSet(Part(S)) /\ IsFiniteSet(Part(T))
  BY BytesFinite
<1>2. Part(S \cup T) = Part(S) \cup Part(T)
  OBVIOUS
<1>3. Part(S) \cap Part(T) = {}
  OBVIOUS
<1>4. /\ BytesOf(S) = Cardinality(Part(S)) /\ BytesOf(T) = Cardinality(Part(T))
      /\ BytesOf(S \cup T) = Cardinality(Part(S \cup T))
  BY DEF BytesOf
<1> HIDE DEF Part
<1>5. Cardinality(Part(S) \cup Part(T)) =
        Cardinality(Part(S)) + Cardinality(Part(T)) - Cardinality(Part(S) \cap Part(T))
  BY <1>1, FS_Union
<1>6. Cardinality(Part(S) \cap Part(T)) = 0
  BY <1>3, FS_EmptySet
<1>7. Cardinality(Part(S)) \in Nat /\ Cardinality(Part(T)) \in Nat
  BY <1>1, FS_CardinalityType
<1>8. Cardinality(Part(S) \cup Part(T)) = Cardinality(Part(S)) + Cardinality(Part(T))
  BY <1>5, <1>6, <1>7
<1>9. Cardinality(Part(S \cup T)) = Cardinality(Part(S)) + Cardinality(Part(T))
  BY <1>2, <1>8
<1> QED
  BY <1>4, <1>9

LEMMA BytesOfOne ==
  ASSUME NEW k, Bytes[k] \in 0..ByteLimit
  PROVE  BytesOf({k}) = Bytes[k]
<1>1. PICK m \in Nat : m = Bytes[k] /\ m <= ByteLimit
  OBVIOUS
<1>2. {x \in {k} \X (1..ByteLimit) : x[2] <= Bytes[x[1]]} = {k} \X (1..m)
  <2>1. ASSUME NEW x \in {k} \X (1..ByteLimit), x[2] <= Bytes[x[1]]
        PROVE  x \in {k} \X (1..m)
    BY <1>1, <2>1
  <2>2. ASSUME NEW x \in {k} \X (1..m)
        PROVE  x \in {k} \X (1..ByteLimit) /\ x[2] <= Bytes[x[1]]
    BY <1>1, <2>2, LayaAssumption
  <2> QED
    BY <2>1, <2>2
<1>3. IsFiniteSet({k}) /\ Cardinality({k}) = 1
  BY FS_Singleton
<1>4. IsFiniteSet(1..m) /\ Cardinality(1..m) = m
  BY FS_Interval
<1>5. Cardinality({k} \X (1..m)) = Cardinality({k}) * Cardinality(1..m)
  BY <1>3, <1>4, FS_Product
<1>6. BytesOf({k}) = Cardinality({k} \X (1..m))
  BY <1>2 DEF BytesOf
<1>7. BytesOf({k}) = m
  BY <1>3, <1>4, <1>5, <1>6
<1> QED
  BY <1>1, <1>7

LEMMA BytesOfNone == BytesOf({}) = 0
<1>1. {x \in {} \X (1..ByteLimit) : x[2] <= Bytes[x[1]]} = {}
  OBVIOUS
<1> QED
  BY <1>1, FS_EmptySet DEF BytesOf

\* A nonempty set of numbers has a least.
LEMMA MinIn ==
  ASSUME NEW S, S \subseteq Nat, S # {}
  PROVE  Min(S) \in S
<1>1. PICK g \in S : \A y \in S : ~(<<y, g>> \in OpToRel(<, Nat))
  BY NatLessThanWellFounded, WFMin
<1>2. \A y \in S : ~(y < g)
  BY <1>1, Zenon DEF OpToRel
<1>3. ASSUME NEW y \in S PROVE g <= y
  <2>1. g \in Nat /\ y \in Nat /\ ~(y < g)
    BY <1>1, <1>2
  <2> QED
    BY <2>1
<1> QED
  BY <1>1, <1>3 DEF Min

-----------------------------------------------------------------------------
(* The cache of prepared heads *)

\* Keys h, an insertion order o and a byte count n that belong together, within the
\* limits.
Sound(h, o, n) ==
  /\ o \in Seq(Keys) /\ IsInjective(o) /\ ToSet(o) = h
  /\ \A k \in h : Bytes[k] <= ByteLimit
  /\ n = BytesOf(h)
  /\ Len(o) <= Entries /\ n <= ByteLimit

\* Keys kept, with their byte count m, when the i oldest heads of o are evicted.
Remains(h, o, i, kept, m) ==
  Sound(ToSet(kept), kept, m) /\ ToSet(kept) \subseteq h /\ Len(kept) = Len(o) - i

LEMMA Evicting ==
  ASSUME NEW h, NEW o, NEW n, Sound(h, o, n), NEW i \in 0..Len(o),
         NEW kept, kept = SubSeq(o, i + 1, Len(o)),
         NEW m, m = n - BytesOf(ToSet(SubSeq(o, 1, i)))
  PROVE  Remains(h, o, i, kept, m)
<1>1. PICK gone : gone = SubSeq(o, 1, i)
  OBVIOUS
<1>2. CutAt(Keys, o, i, gone, kept)
  BY <1>1, Cutting DEF Sound
<1>3. /\ gone \in Seq(Keys) /\ IsInjective(gone) /\ kept \in Seq(Keys) /\ IsInjective(kept)
      /\ Len(kept) = Len(o) - i
      /\ ToSet(gone) \cup ToSet(kept) = h /\ ToSet(gone) \cap ToSet(kept) = {}
  BY <1>2 DEF CutAt, Sound
<1>4. IsFiniteSet(ToSet(gone)) /\ IsFiniteSet(ToSet(kept))
  BY <1>3, CountOnce
<1>5. BytesOf(ToSet(gone) \cup ToSet(kept)) = BytesOf(ToSet(gone)) + BytesOf(ToSet(kept))
  BY <1>3, <1>4, BytesOfBoth
<1>6. PICK a \in Nat, b \in Nat : a = BytesOf(ToSet(gone)) /\ b = BytesOf(ToSet(kept))
  BY <1>4, BytesFinite
<1>7. n = a + b
  BY <1>3, <1>5, <1>6 DEF Sound
<1>8. m = n - a
  BY <1>1, <1>6
<1>9. m = b /\ m <= n /\ n \in Nat
  BY <1>7, <1>8
<1>10. m <= ByteLimit
  BY <1>6, <1>9, LayaAssumption DEF Sound
<1>11. Len(kept) <= Entries
  BY <1>3, LayaAssumption DEF Sound
<1>12. \A k \in ToSet(kept) : Bytes[k] <= ByteLimit
  BY <1>3 DEF Sound
<1> QED
  BY <1>3, <1>6, <1>9, <1>10, <1>11, <1>12 DEF Sound, Remains

\* Inserting a head there is room for.
LEMMA Inserting ==
  ASSUME NEW h, NEW o, NEW n, Sound(h, o, n), NEW k \in Keys, k \notin h,
         Len(o) < Entries, n <= ByteLimit - Bytes[k],
         NEW p, p = Append(o, k)
  PROVE  Sound(h \cup {k}, p, n + Bytes[k])
<1>1. p \in Seq(Keys) /\ IsInjective(p) /\ ToSet(p) = h \cup {k} /\ Len(p) = Len(o) + 1
  <2>1. o \in Seq(Keys) /\ IsInjective(o) /\ ToSet(o) = h /\ k \notin ToSet(o)
    BY DEF Sound
  <2>2. Extends(Keys, o, k, p)
    BY <2>1, AppendNew
  <2> QED
    BY <2>1, <2>2 DEF Extends
<1>2. IsFiniteSet(h)
  BY CountOnce DEF Sound
<1>3. n \in Nat
  BY <1>2, BytesFinite DEF Sound
<1>4. Bytes[k] \in Nat
  BY LayaAssumption
<1>5. Bytes[k] \in 0..ByteLimit /\ n + Bytes[k] <= ByteLimit
  BY <1>3, <1>4, LayaAssumption
<1>6. BytesOf({k}) = Bytes[k]
  BY <1>5, BytesOfOne
<1>7. BytesOf(h \cup {k}) = BytesOf(h) + BytesOf({k})
  <2>1. IsFiniteSet({k}) /\ h \cap {k} = {}
    BY FS_Singleton
  <2> QED
    BY <1>2, <2>1, BytesOfBoth
<1>8. BytesOf(h \cup {k}) = n + Bytes[k]
  BY <1>6, <1>7 DEF Sound
<1>9. Len(p) <= Entries
  BY <1>1, LayaAssumption DEF Sound
<1>10. \A x \in h \cup {k} : Bytes[x] <= ByteLimit
  BY <1>5 DEF Sound
<1> QED
  BY <1>1, <1>5, <1>8, <1>9, <1>10 DEF Sound

\* The eviction loop of prepare_head ends with room for the head.
LEMMA EvictionsLeaveRoom ==
  ASSUME Sound(head_cache, cache_order, cached_bytes), NEW k \in Keys,
         Bytes[k] <= ByteLimit, Entries > 0, NEW n, n = Evictions(k)
  PROVE  /\ n \in 0..Len(cache_order) /\ Len(cache_order) - n < Entries
         /\ cached_bytes - Oldest(n) <= ByteLimit - Bytes[k]
<1>1. PICK top \in Nat : top = Len(cache_order)
  BY DEF Sound
<1>2. PICK S : S = {i \in 0..Len(cache_order) : Enough(i, k)}
  OBVIOUS
<1>3. S \subseteq Nat /\ top \in S
  BY <1>1, <1>2 DEF Enough
<1>4. n \in S
  <2>1. S # {}
    BY <1>3
  <2>2. Min(S) \in S
    BY <1>3, <2>1, MinIn
  <2> QED
    BY <1>2, <2>2 DEF Evictions
<1>5. n \in 0..top /\ Enough(n, k)
  BY <1>1, <1>2, <1>4
<1>6. CASE n # top
  BY <1>1, <1>5, <1>6 DEF Enough
<1>7. CASE n = top
  <2>1. SubSeq(cache_order, 1, n) = cache_order
    BY <1>1, <1>7, SubSeqFull DEF Sound
  <2>2. Oldest(n) = cached_bytes
    BY <2>1 DEF Oldest, Sound
  <2>3. cached_bytes \in Nat
    <3>1. IsFiniteSet(head_cache)
      <4>1. PICK o : o = cache_order
        OBVIOUS
      <4> QED
        BY <4>1, CountOnce DEF Sound
    <3>2. PICK h : h = head_cache
      OBVIOUS
    <3> QED
      BY <3>1, <3>2, BytesFinite DEF Sound
  <2>4. Bytes[k] \in Nat
    BY LayaAssumption
  <2>5. 0 <= ByteLimit - Bytes[k]
    BY <2>4, LayaAssumption
  <2>6. cached_bytes - Oldest(n) = 0
    BY <2>2, <2>3
  <2> QED
    BY <1>1, <1>5, <1>7, <2>5, <2>6, LayaAssumption
<1> QED
  BY <1>6, <1>7

-----------------------------------------------------------------------------
(* The calls and the pool *)

Places == {"idle", "lookup", "prepare", "insert", "acquire", "fill",
           "check", "run", "release"}
Holding == {"fill", "check", "run", "release"}

CallTypes ==
  /\ pool \in Seq(Buffers) /\ tokens \in [Buffers -> Callers \cup {None}]
  /\ at \in [Callers -> Places] /\ rows \in [Callers -> Seq(Keys)]
  /\ lease \in [Callers -> Buffers \cup {None}]
  /\ answer \in [Callers -> Callers \cup {None, "error"}]
  /\ stopped \in [Callers -> BOOLEAN]

\* A call that is at a row has one, and inserts its head only when heads are cached.
RowsLeft ==
  \A c \in Callers :
    /\ at[c] \in {"lookup", "prepare", "insert"} => rows[c] # <<>>
    /\ at[c] = "insert" => Entries > 0

\* A call has a buffer from acquire to release, and its own tokens are in it when the
\* model runs.
Leases ==
  \A c \in Callers :
    /\ at[c] \in Holding <=> lease[c] # None
    /\ at[c] \in {"check", "run"} => tokens[lease[c]] = c

CallInv == CallTypes /\ RowsLeft /\ Leases /\ PoolClean
CacheInv == Sound(head_cache, cache_order, cached_bytes)

\* The buffers stay where they are; the tokens of a call are laid out in its own.
LEMMA PoolStays ==
  ASSUME CallInv, NEW c \in Callers, UNCHANGED <<pool, lease>>,
         \/ UNCHANGED tokens
         \/ at[c] \in Holding /\ tokens' = [tokens EXCEPT ![lease[c]] = c]
  PROVE  PoolClean'
<1>1. CallTypes /\ Leases /\ PoolClean
  BY DEF CallInv
<1>2. Leased' = Leased
  BY DEF Leased
<1>3. ASSUME NEW b \in ToSet(pool) PROVE tokens'[b] = None
  <2>1. tokens[b] = None /\ b \notin Leased
    BY <1>1 DEF PoolClean
  <2>2. b \in Buffers
    BY <1>1 DEF CallTypes, ToSet
  <2>3. CASE at[c] \in Holding /\ tokens' = [tokens EXCEPT ![lease[c]] = c]
    <3>1. lease[c] \in Leased
      BY <1>1, <2>3 DEF Leases, Leased
    <3>2. b # lease[c]
      BY <2>1, <3>1
    <3> QED
      BY <1>1, <2>1, <2>2, <2>3, <3>2 DEF CallTypes
  <2> QED
    BY <2>1, <2>3
<1> QED
  BY <1>1, <1>2, <1>3 DEF PoolClean

\* The tokens of the other calls stay where they are too.
LEMMA TokensStay ==
  ASSUME CallInv, NEW c \in Callers, NEW v, at[c] \in Holding,
         tokens' = [tokens EXCEPT ![lease[c]] = v],
         NEW d \in Callers, d # c, at[d] \in {"check", "run"}
  PROVE  tokens'[lease[d]] = d
<1>1. CallTypes /\ Leases /\ PoolClean
  BY DEF CallInv
<1>2. lease[d] # None /\ tokens[lease[d]] = d
  BY <1>1 DEF Leases, Holding
<1>3. lease[d] \in Buffers /\ lease[d] # lease[c]
  BY <1>1, <1>2 DEF CallTypes, PoolClean
<1> QED
  BY <1>1, <1>2, <1>3 DEF CallTypes

LEMMA FailKeeps ==
  ASSUME CallInv, NEW c \in Callers, Fail(c), UNCHANGED <<pool, lease, stopped>>,
         \/ UNCHANGED tokens
         \/ at[c] \in Holding /\ tokens' = [tokens EXCEPT ![lease[c]] = c]
  PROVE  CallInv'
<1>1. CallTypes /\ RowsLeft /\ Leases
  BY DEF CallInv
<1>2. PoolClean'
  BY PoolStays
<1>3. tokens' \in [Buffers -> Callers \cup {None}]
  BY <1>1 DEF CallTypes, Leases
<1>4. /\ at' \in [Callers -> Places] /\ rows' \in [Callers -> Seq(Keys)]
      /\ answer' \in [Callers -> Callers \cup {None, "error"}]
  BY <1>1 DEF CallTypes, Fail, Places
<1>5. /\ at'[c] = IF lease[c] = None THEN "idle" ELSE "release"
      /\ \A d \in Callers \ {c} : at'[d] = at[d] /\ rows'[d] = rows[d]
  BY <1>1 DEF CallTypes, Fail
<1>6. RowsLeft'
  BY <1>1, <1>5 DEF RowsLeft
<1>7. ASSUME NEW d \in Callers
      PROVE  /\ at'[d] \in Holding <=> lease'[d] # None
             /\ at'[d] \in {"check", "run"} => tokens'[lease'[d]] = d
  <2>1. CASE d = c
    BY <1>5, <2>1 DEF Holding
  <2>2. CASE d # c
    BY <1>1, <1>5, <2>2, TokensStay DEF Leases
  <2> QED
    BY <2>1, <2>2
<1>8. Leases'
  BY <1>7 DEF Leases
<1> QED
  BY <1>1, <1>2, <1>3, <1>4, <1>6, <1>8 DEF CallInv, CallTypes

\* A call goes on to p with its buffer, or without one, as it was.
LEMMA MoveKeeps ==
  ASSUME CallInv, NEW c \in Callers, NEW p \in Places,
         at' = [at EXCEPT ![c] = p],
         p \in Holding <=> at[c] \in Holding,
         p \in {"lookup", "prepare", "insert"} => rows'[c] # <<>>,
         p = "insert" => Entries > 0,
         p \in {"check", "run"} => tokens'[lease[c]] = c,
         rows' \in [Callers -> Seq(Keys)], \A d \in Callers \ {c} : rows'[d] = rows[d],
         answer' \in [Callers -> Callers \cup {None, "error"}],
         stopped' \in [Callers -> BOOLEAN],
         UNCHANGED <<pool, lease>>,
         \/ UNCHANGED tokens
         \/ at[c] \in Holding /\ tokens' = [tokens EXCEPT ![lease[c]] = c]
  PROVE  CallInv'
<1>1. CallTypes /\ RowsLeft /\ Leases
  BY DEF CallInv
<1>2. PoolClean'
  BY PoolStays
<1>3. tokens' \in [Buffers -> Callers \cup {None}]
  BY <1>1 DEF CallTypes, Leases
<1>4. at' \in [Callers -> Places]
  BY <1>1 DEF CallTypes
<1>5. at'[c] = p /\ \A d \in Callers \ {c} : at'[d] = at[d]
  BY <1>1 DEF CallTypes
<1>6. RowsLeft'
  BY <1>1, <1>5 DEF RowsLeft
<1>7. ASSUME NEW d \in Callers
      PROVE  /\ at'[d] \in Holding <=> lease'[d] # None
             /\ at'[d] \in {"check", "run"} => tokens'[lease'[d]] = d
  <2>1. CASE d = c
    BY <1>1, <1>5, <2>1 DEF Leases
  <2>2. CASE d # c
    BY <1>1, <1>5, <2>2, TokensStay DEF Leases
  <2> QED
    BY <2>1, <2>2
<1>8. Leases'
  BY <1>7 DEF Leases
<1> QED
  BY <1>1, <1>2, <1>3, <1>4, <1>6, <1>8 DEF CallInv, CallTypes

LEMMA RowBuiltKeeps ==
  ASSUME CallInv, NEW c \in Callers, RowBuilt(c),
         at[c] \in {"lookup", "prepare", "insert"},
         UNCHANGED <<pool, tokens, lease, stopped>>
  PROVE  CallInv'
<1>1. CASE ~Fits(Head(rows[c]))
  BY <1>1, FailKeeps DEF RowBuilt
<1>2. CASE Fits(Head(rows[c]))
  <2>1. PICK p : p = IF Len(rows[c]) = 1 THEN "acquire" ELSE "lookup"
    OBVIOUS
  <2>2. /\ at' = [at EXCEPT ![c] = p] /\ UNCHANGED answer
        /\ rows' = [rows EXCEPT ![c] = Tail(@)]
    BY <1>2, <2>1 DEF RowBuilt
  <2>3. rows[c] \in Seq(Keys) /\ rows[c] # <<>> /\ rows \in [Callers -> Seq(Keys)]
    BY DEF CallInv, CallTypes, RowsLeft
  <2>4. Tail(rows[c]) \in Seq(Keys) /\ Len(Tail(rows[c])) = Len(rows[c]) - 1
    BY <2>3
  <2>5. p \in Places /\ p \notin Holding /\ at[c] \notin Holding
    BY <2>1 DEF Places, Holding
  <2>6. p = "lookup" => rows'[c] # <<>>
    <3>1. PICK t : t = Tail(rows[c])
      OBVIOUS
    <3>2. rows'[c] = t
      BY <2>2, <2>3, <3>1
    <3>3. Len(rows[c]) # 0 /\ Len(rows[c]) \in Nat
      BY <2>3
    <3>4. p = "lookup" => Len(t) # 0
      BY <2>1, <2>4, <3>1, <3>3
    <3>5. t = <<>> => Len(t) = 0
      OBVIOUS
    <3> QED
      BY <3>2, <3>4, <3>5
  <2>7. rows' \in [Callers -> Seq(Keys)] /\ \A d \in Callers \ {c} : rows'[d] = rows[d]
    BY <2>2, <2>3, <2>4
  <2>8. p \notin {"prepare", "insert", "check", "run"}
    BY <2>1
  <2>9. /\ answer' \in [Callers -> Callers \cup {None, "error"}]
        /\ stopped' \in [Callers -> BOOLEAN]
    BY <2>2 DEF CallInv, CallTypes
  <2> QED
    BY <2>2, <2>5, <2>6, <2>7, <2>8, <2>9, MoveKeeps
<1> QED
  BY <1>1, <1>2

-----------------------------------------------------------------------------
(* The steps *)

LEMMA CallKeeps ==
  ASSUME CallInv, NEW c \in Callers, NEW batch \in Batches, Call(c, batch)
  PROVE  CallInv'
<1>1. CallTypes /\ RowsLeft /\ Leases
  BY DEF CallInv
<1>2. PICK s \in BOOLEAN : stopped' = [stopped EXCEPT ![c] = s]
  BY DEF Call
<1>3. stopped' \in [Callers -> BOOLEAN] /\ stopped'[c] = s
  BY <1>1, <1>2 DEF CallTypes
<1>4. answer' \in [Callers -> Callers \cup {None, "error"}]
  BY <1>1 DEF Call, CallTypes
<1>5. CASE s
  <2>1. UNCHANGED <<at, rows, pool, tokens, lease>>
    BY <1>3, <1>5 DEF Call
  <2>2. PoolClean'
    BY <2>1, PoolStays
  <2> QED
    BY <1>1, <1>3, <1>4, <2>1, <2>2 DEF CallInv, CallTypes, RowsLeft, Leases
<1>6. CASE ~s
  <2>1. /\ at' = [at EXCEPT ![c] = "lookup"] /\ rows' = [rows EXCEPT ![c] = batch]
        /\ UNCHANGED <<pool, tokens, lease>> /\ at[c] = "idle"
    BY <1>3, <1>6 DEF Call
  <2>2. batch \in Seq(Keys) /\ batch # <<>>
    BY LayaAssumption
  <2>3. /\ rows' \in [Callers -> Seq(Keys)] /\ rows'[c] # <<>>
        /\ \A d \in Callers \ {c} : rows'[d] = rows[d]
    BY <1>1, <2>1, <2>2 DEF CallTypes
  <2>4. /\ "lookup" \in Places /\ ("lookup" \in Holding <=> at[c] \in Holding)
        /\ "lookup" \notin {"insert", "check", "run"}
    BY <2>1 DEF Places, Holding
  <2> QED
    BY <1>3, <1>4, <2>1, <2>3, <2>4, MoveKeeps
<1> QED
  BY <1>5, <1>6

LEMMA StopKeeps ==
  ASSUME CallInv, NEW c \in Callers, Stop(c)
  PROVE  CallInv'
<1>1. UNCHANGED <<pool, tokens, at, rows, lease, answer>>
  BY DEF Stop
<1>2. PoolClean'
  BY <1>1, PoolStays
<1>3. CallTypes'
  BY <1>1 DEF CallInv, CallTypes, Stop
<1> QED
  BY <1>1, <1>2, <1>3 DEF CallInv, RowsLeft, Leases

LEMMA RowKeeps ==
  ASSUME CallInv, NEW c \in Callers,
         Refuse(c) \/ Lookup(c) \/ Prepare(c) \/ Insert(c)
  PROVE  CallInv'
<1>1. /\ UNCHANGED <<pool, tokens, lease, stopped>>
      /\ at[c] \in {"lookup", "prepare", "insert"}
  BY DEF Refuse, Lookup, Prepare, Insert
<1>2. CASE Fail(c)
  BY <1>1, <1>2, FailKeeps
<1>3. CASE RowBuilt(c)
  BY <1>1, <1>3, RowBuiltKeeps
<1>4. ASSUME NEW p \in {"prepare", "insert"}, at' = [at EXCEPT ![c] = p],
             UNCHANGED <<rows, answer>>, p = "insert" => Entries > 0
      PROVE  CallInv'
  <2>1. rows' \in [Callers -> Seq(Keys)] /\ rows'[c] # <<>>
    BY <1>1, <1>4 DEF CallInv, CallTypes, RowsLeft
  <2>2. /\ answer' \in [Callers -> Callers \cup {None, "error"}]
        /\ stopped' \in [Callers -> BOOLEAN]
    BY <1>1, <1>4 DEF CallInv, CallTypes
  <2>3. p \in Places /\ (p \in Holding <=> at[c] \in Holding) /\ p \notin {"check", "run"}
    BY <1>1 DEF Places, Holding
  <2> QED
    BY <1>1, <1>4, <2>1, <2>2, <2>3, MoveKeeps
<1>5. \/ Fail(c) \/ RowBuilt(c)
      \/ at' = [at EXCEPT ![c] = "prepare"] /\ UNCHANGED <<rows, answer>>
      \/ Entries > 0 /\ at' = [at EXCEPT ![c] = "insert"] /\ UNCHANGED <<rows, answer>>
  BY DEF Refuse, Lookup, Prepare, Insert, Cacheable
<1> QED
  BY <1>2, <1>3, <1>4, <1>5

LEMMA AcquireKeeps ==
  ASSUME CallInv, NEW c \in Callers, Acquire(c)
  PROVE  CallInv'
<1>1. CallTypes /\ RowsLeft /\ Leases /\ PoolClean
  BY DEF CallInv
<1>2. at[c] = "acquire" /\ lease[c] = None /\ UNCHANGED <<tokens, stopped>>
  BY <1>1 DEF Acquire, Leases, Holding
<1>3. ASSUME NEW b \in Buffers, b \notin Leased, b \notin ToSet(pool'),
             lease' = [lease EXCEPT ![c] = b], at' = [at EXCEPT ![c] = "fill"],
             UNCHANGED <<rows, answer>>,
             pool' \in Seq(Buffers), IsInjective(pool'),
             ToSet(pool') \subseteq ToSet(pool), Len(pool') <= Reusable
      PROVE  CallInv'
  <2>1. b # None
    BY LayaAssumption
  <2>2. lease' \in [Callers -> Buffers \cup {None}] /\ at' \in [Callers -> Places]
    BY <1>1, <1>3 DEF CallTypes, Places
  <2>3. CallTypes'
    BY <1>1, <1>2, <1>3, <2>2 DEF CallTypes
  <2>4. /\ lease'[c] = b /\ at'[c] = "fill"
        /\ \A d \in Callers \ {c} : lease'[d] = lease[d] /\ at'[d] = at[d]
    BY <1>1, <1>3 DEF CallTypes
  <2>5. RowsLeft'
    BY <1>1, <1>3, <2>4 DEF RowsLeft
  <2>6. Leases'
    BY <1>1, <1>2, <2>1, <2>4 DEF Leases, Holding
  <2>7. \A d \in Callers \ {c} : lease'[d] # b
    BY <1>3, <2>1, <2>4 DEF Leased
  <2>8. \A d, e \in Callers : lease'[d] = lease'[e] /\ lease'[d] # None => d = e
    BY <1>1, <2>4, <2>7 DEF PoolClean
  <2>9. Leased' \subseteq Leased \cup {b}
    BY <2>4 DEF Leased
  <2>10. ToSet(pool') \cap Leased' = {}
    BY <1>1, <1>3, <2>9 DEF PoolClean
  <2>11. \A x \in ToSet(pool') : tokens'[x] = None
    BY <1>1, <1>2, <1>3 DEF PoolClean
  <2> QED
    BY <1>3, <2>3, <2>5, <2>6, <2>8, <2>10, <2>11 DEF CallInv, PoolClean
<1>4. CASE /\ pool # <<>> /\ lease' = [lease EXCEPT ![c] = Last(pool)]
           /\ pool' = Front(pool) /\ at' = [at EXCEPT ![c] = "fill"]
           /\ UNCHANGED <<rows, answer>>
  <2>1. PICK s, t, x : s = pool /\ t = pool' /\ x = Last(pool)
    OBVIOUS
  <2>2. /\ s \in Seq(Buffers) /\ IsInjective(s) /\ s # <<>>
        /\ t = Front(s) /\ x = Last(s)
    BY <1>1, <1>4, <2>1 DEF CallTypes, PoolClean
  <2>3. /\ t \in Seq(Buffers) /\ IsInjective(t) /\ Len(t) = Len(s) - 1
        /\ x \in Buffers /\ x \notin ToSet(t) /\ ToSet(s) = ToSet(t) \cup {x}
    BY <2>2, TakeLast
  <2>4. x \notin Leased
    BY <1>1, <2>1, <2>3 DEF PoolClean
  <2>5. Len(t) <= Reusable
    <3>1. Len(s) \in Nat /\ Len(s) <= Reusable
      BY <1>1, <2>1, <2>2 DEF PoolClean
    <3> QED
      BY <2>3, <3>1, LayaAssumption
  <2> QED
    BY <1>3, <1>4, <2>1, <2>3, <2>4, <2>5
<1>5. ASSUME pool = <<>>, NEW b \in Buffers \ Leased,
             lease' = [lease EXCEPT ![c] = b], at' = [at EXCEPT ![c] = "fill"],
             UNCHANGED <<pool, rows, answer>>
      PROVE  CallInv'
  <2>1. b \notin ToSet(pool')
    BY <1>5 DEF ToSet
  <2> QED
    BY <1>1, <1>3, <1>5, <2>1 DEF CallTypes, PoolClean
<1>6. CASE Fail(c) /\ UNCHANGED <<pool, lease>>
  BY <1>2, <1>6, FailKeeps
<1> QED
  BY <1>4, <1>5, <1>6 DEF Acquire

LEMMA ModelKeeps ==
  ASSUME CallInv, NEW c \in Callers, Fill(c) \/ Check(c) \/ Run(c)
  PROVE  CallInv'
<1>1. CallTypes /\ Leases
  BY DEF CallInv
<1>2. /\ UNCHANGED <<pool, lease, stopped>> /\ at[c] \in {"fill", "check", "run"}
      /\ \/ UNCHANGED tokens
         \/ at[c] \in Holding /\ tokens' = [tokens EXCEPT ![lease[c]] = c]
  BY DEF Fill, Check, Run, Holding
<1>3. CASE Fail(c)
  BY <1>2, <1>3, FailKeeps
<1>4. ASSUME NEW p \in {"check", "run", "release"}, at' = [at EXCEPT ![c] = p],
             UNCHANGED rows, answer' \in [Callers -> Callers \cup {None, "error"}],
             p \in {"check", "run"} => tokens'[lease[c]] = c
      PROVE  CallInv'
  <2>1. rows' \in [Callers -> Seq(Keys)] /\ stopped' \in [Callers -> BOOLEAN]
    BY <1>1, <1>2, <1>4 DEF CallTypes
  <2>2. /\ p \in Places /\ (p \in Holding <=> at[c] \in Holding)
        /\ p \notin {"lookup", "prepare", "insert"}
    BY <1>2 DEF Places, Holding
  <2>3. \A d \in Callers \ {c} : rows'[d] = rows[d]
    BY <1>4
  <2> QED
    BY <1>2, <1>4, <2>1, <2>2, <2>3, MoveKeeps
<1>5. lease[c] \in Buffers
  BY <1>1, <1>2 DEF CallTypes, Leases, Holding
<1>6. CASE Fill(c)
  <2>1. tokens'[lease[c]] = c
    BY <1>1, <1>5, <1>6 DEF Fill, CallTypes
  <2> QED
    BY <1>1, <1>3, <1>4, <1>6, <2>1 DEF Fill, CallTypes
<1>7. CASE Check(c)
  <2>1. tokens'[lease[c]] = c
    BY <1>1, <1>7 DEF Check, Leases
  <2> QED
    BY <1>1, <1>3, <1>4, <1>7, <2>1 DEF Check, CallTypes
<1>8. CASE Run(c)
  <2>1. answer' = [answer EXCEPT ![c] = tokens[lease[c]]] =>
          answer' \in [Callers -> Callers \cup {None, "error"}]
    BY <1>1, <1>5 DEF CallTypes
  <2> QED
    BY <1>3, <1>4, <1>8, <2>1 DEF Run
<1> QED
  BY <1>6, <1>7, <1>8

LEMMA ReleaseKeeps ==
  ASSUME CallInv, NEW c \in Callers, Release(c)
  PROVE  CallInv'
<1>1. CallTypes /\ RowsLeft /\ Leases /\ PoolClean
  BY DEF CallInv
<1>2. PICK b \in Buffers : b = lease[c]
  BY <1>1 DEF Release, CallTypes, Leases, Holding
<1>3. /\ at[c] = "release" /\ b # None /\ b \in Leased
      /\ tokens' = [tokens EXCEPT ![b] = None]
      /\ lease' = [lease EXCEPT ![c] = None] /\ at' = [at EXCEPT ![c] = "idle"]
      /\ UNCHANGED <<rows, answer, stopped>>
  BY <1>2, LayaAssumption DEF Release, Leased
<1>4. b \notin ToSet(pool)
  BY <1>1, <1>3 DEF PoolClean
<1>5. /\ pool' \in Seq(Buffers) /\ IsInjective(pool') /\ Len(pool') <= Reusable
      /\ ToSet(pool') \subseteq ToSet(pool) \cup {b}
  <2>1. PICK s, t : s = pool /\ t = pool'
    OBVIOUS
  <2>2. s \in Seq(Buffers) /\ IsInjective(s) /\ Len(s) <= Reusable /\ b \notin ToSet(s)
    BY <1>1, <1>4, <2>1 DEF CallTypes, PoolClean
  <2>3. CASE t = s
    BY <2>1, <2>2, <2>3
  <2>4. CASE Len(s) < Reusable /\ t = Append(s, b)
    <3>1. Extends(Buffers, s, b, t)
      BY <2>2, <2>4, AppendNew
    <3>2. Len(s) \in Nat
      BY <2>2
    <3> QED
      BY <2>1, <2>4, <3>1, <3>2, LayaAssumption DEF Extends
  <2> QED
    BY <1>2, <2>1, <2>3, <2>4 DEF Release
<1>6. tokens' \in [Buffers -> Callers \cup {None}]
  BY <1>1, <1>3 DEF CallTypes
<1>7. lease' \in [Callers -> Buffers \cup {None}] /\ at' \in [Callers -> Places]
  BY <1>1, <1>3 DEF CallTypes, Places
<1>8. CallTypes'
  BY <1>1, <1>3, <1>5, <1>6, <1>7 DEF CallTypes
<1>9. /\ lease'[c] = None /\ at'[c] = "idle"
      /\ \A d \in Callers \ {c} : lease'[d] = lease[d] /\ at'[d] = at[d]
  BY <1>1, <1>3 DEF CallTypes
<1>10. RowsLeft'
  BY <1>1, <1>3, <1>9 DEF RowsLeft
<1>11. ASSUME NEW d \in Callers
       PROVE  /\ at'[d] \in Holding <=> lease'[d] # None
              /\ at'[d] \in {"check", "run"} => tokens'[lease'[d]] = d
  <2>1. CASE d = c
    BY <1>9, <2>1 DEF Holding
  <2>2. CASE d # c
    <3>1. at[c] \in Holding /\ tokens' = [tokens EXCEPT ![lease[c]] = None]
      BY <1>2, <1>3 DEF Holding
    <3> QED
      BY <1>1, <1>9, <2>2, <3>1, TokensStay DEF Leases
  <2> QED
    BY <2>1, <2>2
<1>12. Leases'
  BY <1>11 DEF Leases
<1>13. \A d, e \in Callers : lease'[d] = lease'[e] /\ lease'[d] # None => d = e
  BY <1>1, <1>9 DEF PoolClean
<1>14. Leased' \subseteq Leased \ {b}
  <2>1. \A d \in Callers \ {c} : lease[d] # b
    BY <1>1, <1>2, <1>3 DEF PoolClean
  <2> QED
    BY <1>9, <2>1 DEF Leased
<1>15. ToSet(pool') \cap Leased' = {}
  BY <1>1, <1>5, <1>14 DEF PoolClean
<1>16. ASSUME NEW x \in ToSet(pool') PROVE tokens'[x] = None
  <2>1. x \in Buffers
    BY <1>5 DEF ToSet
  <2>2. CASE x = b
    BY <1>1, <1>3, <2>2 DEF CallTypes
  <2>3. CASE x # b
    BY <1>1, <1>3, <1>5, <2>1, <2>3 DEF CallTypes, PoolClean
  <2> QED
    BY <2>2, <2>3
<1> QED
  BY <1>5, <1>8, <1>10, <1>12, <1>13, <1>15, <1>16 DEF CallInv, PoolClean

\* Insert evicts what it must and then inserts, or fails after the evictions.
LEMMA InsertKeeps ==
  ASSUME CallInv, CacheInv, NEW c \in Callers, Insert(c)
  PROVE  CacheInv'
<1>1. PICK k \in Keys : k = Head(rows[c])
  BY DEF CallInv, CallTypes, RowsLeft, Insert
<1>2. Entries > 0
  BY DEF CallInv, RowsLeft, Insert
<1>3. CASE UNCHANGED cache
  BY <1>3 DEF CacheInv, cache
<1>4. CASE Bytes[k] <= ByteLimit /\ k \notin head_cache
  <2>1. PICK h, o, n : h = head_cache /\ o = cache_order /\ n = cached_bytes
    OBVIOUS
  <2>2. PICK i : i = Evictions(k)
    OBVIOUS
  <2>3. PICK kept, m : /\ kept = SubSeq(o, i + 1, Len(o))
                       /\ m = n - BytesOf(ToSet(SubSeq(o, 1, i)))
    OBVIOUS
  <2>4. Sound(h, o, n)
    BY <2>1 DEF CacheInv
  <2>5. i \in 0..Len(o) /\ Len(o) - i < Entries /\ m <= ByteLimit - Bytes[k]
    BY <1>2, <1>4, <2>1, <2>2, <2>3, EvictionsLeaveRoom DEF Oldest, CacheInv
  <2>6. Sound(ToSet(kept), kept, m) /\ ToSet(kept) \subseteq h /\ Len(kept) = Len(o) - i
    <3>1. Remains(h, o, i, kept, m)
      BY <2>3, <2>4, <2>5, Evicting
    <3> QED
      BY <3>1 DEF Remains
  <2>7. k \notin ToSet(kept) /\ Len(kept) < Entries
    BY <1>4, <2>1, <2>5, <2>6
  <2>8. PICK p : p = Append(kept, k)
    OBVIOUS
  <2>9. PICK g : g = ToSet(kept)
    OBVIOUS
  <2>10. Sound(g \cup {k}, p, m + Bytes[k])
    BY <2>5, <2>6, <2>7, <2>8, <2>9, Inserting
  <2>11. \/ /\ cache_order' = p /\ head_cache' = g \cup {k}
            /\ cached_bytes' = m + Bytes[k]
         \/ cache_order' = kept /\ head_cache' = g /\ cached_bytes' = m
    BY <1>1, <1>4, <2>1, <2>2, <2>3, <2>8, <2>9 DEF Insert, Oldest
  <2> QED
    BY <2>6, <2>9, <2>10, <2>11 DEF CacheInv
<1> QED
  BY <1>1, <1>3, <1>4 DEF Insert

LEMMA LayaInit == Init => CallInv /\ CacheInv
<1> SUFFICES ASSUME Init PROVE CallInv /\ CacheInv
  OBVIOUS
<1>1. CallTypes
  BY DEF Init, CallTypes, Places
<1>2. RowsLeft /\ Leases
  BY DEF Init, RowsLeft, Leases, Holding
<1>3. PoolClean
  <2>1. ToSet(<<>>) = {} /\ IsInjective(<<>>)
    BY DEF ToSet, IsInjective
  <2> QED
    BY <2>1, LayaAssumption DEF Init, PoolClean
<1>4. Sound({}, <<>>, 0)
  <2>1. ToSet(<<>>) = {} /\ IsInjective(<<>>)
    BY DEF ToSet, IsInjective
  <2> QED
    BY <2>1, BytesOfNone, LayaAssumption DEF Sound
<1> QED
  BY <1>1, <1>2, <1>3, <1>4 DEF Init, CallInv, CacheInv

LEMMA LayaStep == CallInv /\ CacheInv /\ [Next]_vars => CallInv' /\ CacheInv'
<1> SUFFICES ASSUME CallInv, CacheInv, [Next]_vars PROVE CallInv' /\ CacheInv'
  OBVIOUS
<1>1. ASSUME UNCHANGED cache PROVE CacheInv'
  BY <1>1 DEF cache, CacheInv
<1>2. CASE UNCHANGED vars
  <2>1. UNCHANGED <<head_cache, cache_order, cached_bytes, pool, tokens, at, rows,
                    lease, answer, stopped>>
    BY <1>2 DEF vars, cache
  <2>2. CacheInv'
    BY <1>1, <2>1 DEF cache
  <2>3. PoolClean'
    BY <2>1 DEF CallInv, PoolClean, Leased
  <2>4. CallTypes' /\ RowsLeft' /\ Leases'
    BY <2>1 DEF CallInv, CallTypes, RowsLeft, Leases
  <2> QED
    BY <2>2, <2>3, <2>4 DEF CallInv
<1>3. ASSUME NEW c \in Callers, Refuse(c) \/ Lookup(c) \/ Prepare(c)
      PROVE  CallInv' /\ CacheInv'
  BY <1>1, <1>3, RowKeeps DEF Refuse, Lookup, Prepare
<1>4. ASSUME NEW c \in Callers, Insert(c) PROVE CallInv' /\ CacheInv'
  BY <1>4, RowKeeps, InsertKeeps
<1>5. ASSUME NEW c \in Callers, Acquire(c) PROVE CallInv' /\ CacheInv'
  BY <1>1, <1>5, AcquireKeeps DEF Acquire
<1>6. ASSUME NEW c \in Callers, Fill(c) \/ Check(c) \/ Run(c)
      PROVE  CallInv' /\ CacheInv'
  BY <1>1, <1>6, ModelKeeps DEF Fill, Check, Run
<1>7. ASSUME NEW c \in Callers, Release(c) PROVE CallInv' /\ CacheInv'
  BY <1>1, <1>7, ReleaseKeeps DEF Release
<1>8. ASSUME NEW c \in Callers, Stop(c) PROVE CallInv' /\ CacheInv'
  BY <1>1, <1>8, StopKeeps DEF Stop
<1>9. ASSUME NEW c \in Callers, NEW batch \in Batches, Call(c, batch)
      PROVE  CallInv' /\ CacheInv'
  BY <1>1, <1>9, CallKeeps DEF Call
<1> QED
  BY <1>2, <1>3, <1>4, <1>5, <1>6, <1>7, <1>8, <1>9 DEF Next, Step

\* Whatever calls run at once and wherever they fail, the cached heads, their order and
\* their byte count agree within both limits (laya.cpp, prepare_head), and every buffer
\* is leased once or pooled once, wiped (buffer_lease).
THEOREM InOrder == Spec => []SharedInOrder
<1>1. CallInv /\ CacheInv => SharedInOrder
  <2> SUFFICES ASSUME CallInv, CacheInv PROVE SharedInOrder
    OBVIOUS
  <2>1. PICK h, o, n : h = head_cache /\ o = cache_order /\ n = cached_bytes
    OBVIOUS
  <2>2. Sound(h, o, n)
    BY <2>1 DEF CacheInv
  <2>3. IsFiniteSet(h)
    BY <2>2, CountOnce DEF Sound
  <2>4. BytesOf(h) \in Nat
    BY <2>3, BytesFinite
  <2>5. n \in Nat /\ h \subseteq Keys /\ o \in Seq(Keys)
    BY <2>2, <2>4 DEF Sound, ToSet
  <2>6. TypeOK
    BY <2>1, <2>5 DEF TypeOK, CallInv, CallTypes, Places
  <2>7. CacheAgrees
    BY <2>1, <2>2, <2>6 DEF CacheAgrees, Sound
  <2> QED
    BY <2>7 DEF SharedInOrder, CallInv
<1>2. Init => CallInv /\ CacheInv
  BY LayaInit
<1>3. CallInv /\ CacheInv /\ [Next]_vars => CallInv' /\ CacheInv'
  BY LayaStep
<1> QED
  BY <1>1, <1>2, <1>3, PTL DEF Spec

\* Run answers with the tokens in the buffer the call holds, which are its own.
LEMMA AnswerStep ==
  ASSUME CallInv, [Next]_vars, NEW c \in Callers, answer'[c] # answer[c]
  PROVE  answer'[c] \in {None, "error"} \/ (answer'[c] = c /\ ~stopped[c])
<1>1. CallTypes /\ RowsLeft /\ Leases
  BY DEF CallInv
<1>2. ASSUME NEW d \in Callers, Fail(d)
      PROVE  answer'[c] \in {None, "error"} \/ (answer'[c] = c /\ ~stopped[c])
  BY <1>1, <1>2 DEF Fail, CallTypes
<1>3. ASSUME NEW d \in Callers, NEW batch \in Batches, Call(d, batch)
      PROVE  answer'[c] \in {None, "error"} \/ (answer'[c] = c /\ ~stopped[c])
  BY <1>1, <1>3 DEF Call, CallTypes
<1>4. ASSUME NEW d \in Callers, Run(d)
      PROVE  answer'[c] \in {None, "error"} \/ (answer'[c] = c /\ ~stopped[c])
  <2>1. tokens[lease[d]] = d
    BY <1>1, <1>4 DEF Run, Leases
  <2> QED
    BY <1>1, <1>2, <1>4, <2>1 DEF Run, CallTypes
<1>5. ASSUME NEW d \in Callers, RowBuilt(d)
      PROVE  answer'[c] \in {None, "error"} \/ (answer'[c] = c /\ ~stopped[c])
  BY <1>2, <1>5 DEF RowBuilt
<1>6. ASSUME NEW d \in Callers,
             Refuse(d) \/ Lookup(d) \/ Prepare(d) \/ Insert(d) \/ Acquire(d) \/ Fill(d)
             \/ Check(d) \/ Release(d) \/ Stop(d)
      PROVE  Fail(d) \/ RowBuilt(d) \/ UNCHANGED answer
  BY <1>6 DEF Refuse, Lookup, Prepare, Insert, Acquire, Fill, Check, Release, Stop
<1>7. CASE UNCHANGED vars
  BY <1>7 DEF vars
<1> QED
  BY <1>2, <1>3, <1>4, <1>5, <1>6, <1>7 DEF Next, Step

\* A call is answered from its own rows and before it is cancelled or late, whoever had
\* the buffer before and however the calls interleave.
THEOREM OwnRows == Spec => OwnAnswer
<1>1. Init => CallInv /\ CacheInv
  BY LayaInit
<1>2. CallInv /\ CacheInv /\ [Next]_vars => CallInv' /\ CacheInv'
  BY LayaStep
<1>3. CallInv /\ [Next]_vars =>
        [\A c \in Callers :
           answer'[c] # answer[c] =>
             answer'[c] \in {None, "error"} \/ (answer'[c] = c /\ ~stopped[c])]_vars
  BY AnswerStep
<1> QED
  BY <1>1, <1>2, <1>3, PTL DEF Spec, OwnAnswer
=============================================================================
