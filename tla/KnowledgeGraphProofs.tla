------------------------ MODULE KnowledgeGraphProofs ------------------------
(* What no order of completions, runs and snapshots does to a knowledge_graph, *)
(* for every set of facts and every limit.                                     *)
EXTENDS KnowledgeContext, FiniteSetTheorems, WellFoundedInduction, SequenceTheorems, TLAPS

Held == [tick : Nat, evidence : DOMAIN Rank]

\* A snapshot the application keeps came from session_snapshot().
GoodSnapshot ==
  /\ saved.stored \subseteq Versions
  /\ saved.record \in [Versions -> Held]
  /\ \A v \in saved.stored : IsSession(v) /\ saved.record[v] # NoRecord
  /\ \A u, v \in saved.stored : Identity(u) = Identity(v) => u = v

Typed ==
  /\ stored \subseteq Versions /\ superseded \subseteq Versions
  /\ record \in [Versions -> Held]

IInv ==
  /\ Typed /\ GoodSnapshot
  /\ NothingDangles /\ OneCurrentVersion /\ NewestIsCurrent

-----------------------------------------------------------------------------
\* Keeping only some of the stored versions disturbs nothing, whatever becomes of
\* the run, as long as temporary facts that stay belong to it.
LEMMA Dropping ==
  ASSUME IInv, NEW K, K \subseteq stored,
         stored' = K, record' = Only(K), superseded' = superseded \cap K,
         UNCHANGED saved, \A v \in K : ~IsSession(v) => v[1] = run'
  PROVE  IInv'
<1>1. Typed'
  BY DEF IInv, Typed, Only, Held, NoRecord, Rank
<1>2. GoodSnapshot'
  BY DEF IInv, GoodSnapshot
<1>3. NothingDangles'
  BY DEF IInv, Typed, NothingDangles, Only, IsSession
<1>4. OneCurrentVersion'
  BY DEF IInv, OneCurrentVersion, Current
<1>5. NewestIsCurrent'
  <2> SUFFICES ASSUME NEW v \in Current', NEW u \in SameIdentity(v)'
               PROVE  record'[u].tick <= record'[v].tick
    BY DEF NewestIsCurrent
  <2>1. v \in Current /\ u \in SameIdentity(v) /\ v \in K /\ u \in K
    BY DEF Current, SameIdentity
  <2> QED
    BY <2>1 DEF IInv, Typed, NewestIsCurrent, Only
<1> QED
  BY <1>1, <1>2, <1>3, <1>4, <1>5 DEF IInv

\* A version becomes the current one of its identity, over a set of kept ones.
LEMMA Activating ==
  ASSUME IInv, NEW v \in Versions, NEW K, K \subseteq stored,
         NEW tick \in Nat, NEW f \in DOMAIN Rank \ {"none"},
         Admissible(v, tick),
         stored' = K \cup {v},
         superseded' = ((superseded \cup SameIdentity(v)) \cap K) \ {v},
         record' = [Only(K) EXCEPT ![v] = [tick |-> tick, evidence |-> f]],
         UNCHANGED <<run, saved>>
  PROVE  IInv'
<1>1. [tick |-> tick, evidence |-> f] \in Held \ {NoRecord}
  BY DEF Rank, Held, NoRecord
<1>2. /\ record' \in [Versions -> Held]
      /\ record'[v] = [tick |-> tick, evidence |-> f]
      /\ \A u \in K \ {v} : record'[u] = record[u]
      /\ \A u \in Versions \ (K \cup {v}) : record'[u] = NoRecord
  <2>1. Only(K) \in [Versions -> Held]
    BY DEF IInv, Typed, Only, Held, NoRecord, Rank
  <2> QED
    BY <1>1, <2>1 DEF IInv, Typed, Only
<1>3. Typed'
  BY <1>2 DEF IInv, Typed
<1>4. GoodSnapshot'
  BY DEF IInv, GoodSnapshot
<1>5. NothingDangles'
  <2>1. superseded' \subseteq stored'
    OBVIOUS
  <2>2. \A u \in stored' : ~IsSession(u) => u[1] = run'
    BY DEF IInv, NothingDangles, Admissible
  <2>3. \A u \in Versions : record'[u] = NoRecord <=> u \notin stored'
    BY <1>1, <1>2 DEF IInv, NothingDangles, Typed
  <2> QED
    BY <2>1, <2>2, <2>3 DEF NothingDangles
<1>6. Current' \subseteq (Current \cap K) \cup {v}
  BY DEF Current
<1>7. \A u \in Current' : u # v => Identity(u) # Identity(v)
  BY DEF Current, SameIdentity
<1>8. OneCurrentVersion'
  BY <1>6, <1>7 DEF IInv, OneCurrentVersion
<1>9. NewestIsCurrent'
  <2> SUFFICES ASSUME NEW u \in Current', NEW x \in stored', Identity(x) = Identity(u)
               PROVE  record'[x].tick <= record'[u].tick
    BY DEF NewestIsCurrent, SameIdentity
  <2>1. CASE u = v
    <3>1. CASE x = v
      BY <2>1, <3>1, <1>2
    <3>2. CASE x # v
      BY <2>1, <3>2, <1>2 DEF Admissible, SameIdentity
    <3> QED
      BY <3>1, <3>2
  <2>2. CASE u # v
    BY <2>2, <1>2, <1>6, <1>7 DEF IInv, NewestIsCurrent, SameIdentity
  <2> QED
    BY <2>1, <2>2
<1> QED
  BY <1>3, <1>4, <1>5, <1>8, <1>9 DEF IInv

-----------------------------------------------------------------------------
LEMMA InitInv == Init => IInv
BY DEF Init, IInv, Typed, GoodSnapshot, NothingDangles, OneCurrentVersion,
       NewestIsCurrent, Current, SameIdentity, NoSnapshot, Held, NoRecord, Rank

LEMMA BeginRunInv ==
  ASSUME IInv, NEW r \in Runs, NEW retain \in BOOLEAN, BeginRun(r, retain)
  PROVE  IInv'
<1> DEFINE K == IF retain THEN stored \ Temporary ELSE {}
<1>1. /\ K \subseteq stored /\ stored' = K /\ record' = Only(K)
      /\ superseded' = superseded \cap K /\ UNCHANGED saved
  BY DEF BeginRun
<1>2. \A v \in K : IsSession(v)
  BY DEF Temporary
<1> QED
  BY <1>1, <1>2, Dropping

LEMMA RefreshInv ==
  ASSUME IInv, NEW v \in Versions, NEW tick \in Nat, NEW e \in Evidence,
         NEW ev \in Events, Refresh(v, tick, e, ev)
  PROVE  IInv'
<1> DEFINE f == EvidenceOf(v, e)
<1>1. f \in DOMAIN Rank \ {"none"}
  <2>1. record[v] # NoRecord /\ record[v] \in Held
    BY DEF Refresh, IInv, Typed, NothingDangles
  <2>2. record[v].evidence \in DOMAIN Rank /\ e \in DOMAIN Rank \ {"none"}
    BY <2>1, KnowledgeAssumption DEF Held
  <2>3. CASE record[v].evidence = "none"
    BY <2>2, <2>3 DEF EvidenceOf, Rank
  <2> QED
    BY <2>2, <2>3 DEF EvidenceOf
<1>2. record' = [Only(stored) EXCEPT ![v] = [tick |-> tick, evidence |-> f]]
  <2>1. Only(stored) = record
    BY DEF IInv, Typed, NothingDangles, Only
  <2> QED
    BY <2>1 DEF Refresh
<1>3. /\ stored' = stored \cup {v}
      /\ superseded' = ((superseded \cup SameIdentity(v)) \cap stored) \ {v}
  BY DEF Refresh, IInv, NothingDangles, SameIdentity
<1>4. Admissible(v, tick) /\ UNCHANGED <<run, saved>>
  BY DEF Refresh
<1> QED
  BY <1>1, <1>2, <1>3, <1>4, Activating

LEMMA InsertInv ==
  ASSUME IInv, NEW v \in Versions, NEW tick \in Nat, NEW e \in Evidence,
         NEW ev \in Events, Insert(v, tick, e, ev)
  PROVE  IInv'
<1> DEFINE K == stored \ Evicted
<1>1. /\ stored' = K \cup {v}
      /\ superseded' = ((superseded \cup SameIdentity(v)) \cap K) \ {v}
      /\ record' = [Only(K) EXCEPT ![v] = [tick |-> tick, evidence |-> e]]
      /\ Admissible(v, tick) /\ UNCHANGED <<run, saved>>
  BY DEF Insert
<1>2. e \in DOMAIN Rank \ {"none"}
  BY KnowledgeAssumption
<1> QED
  BY <1>1, <1>2, Activating

LEMMA SaveInv == ASSUME IInv, Save PROVE IInv'
<1>1. Typed' /\ NothingDangles' /\ OneCurrentVersion' /\ NewestIsCurrent'
  BY DEF Save, content, IInv, Typed, NothingDangles, OneCurrentVersion, NewestIsCurrent,
         Current, SameIdentity, IsSession
<1>2. /\ saved'.stored = SessionFacts
      /\ saved'.record = Only(SessionFacts)
  BY DEF Save
<1>3. GoodSnapshot'
  <2>1. SessionFacts \subseteq Current /\ Current \subseteq stored
    BY DEF SessionFacts, Current
  <2>2. Only(SessionFacts) \in [Versions -> Held]
    BY DEF IInv, Typed, Only, Held, NoRecord, Rank
  <2>3. \A v \in SessionFacts : IsSession(v) /\ Only(SessionFacts)[v] # NoRecord
    BY <2>1 DEF SessionFacts, Only, IInv, Typed, NothingDangles
  <2>4. \A u, v \in SessionFacts : Identity(u) = Identity(v) => u = v
    BY <2>1 DEF IInv, OneCurrentVersion
  <2> QED
    BY <1>2, <2>1, <2>2, <2>3, <2>4 DEF GoodSnapshot, IInv, Typed, IsSession
<1> QED
  BY <1>1, <1>3 DEF IInv

LEMMA RestoreInv == ASSUME IInv, Restore PROVE IInv'
<1> DEFINE S == saved.stored
<1>1. /\ stored' = Temporary \cup S /\ superseded' = superseded \cap Temporary
      /\ Temporary \subseteq stored /\ S \subseteq Versions
      /\ \A v \in Temporary : ~IsSession(v)
      /\ \A v \in S : IsSession(v)
      /\ UNCHANGED <<run, saved>>
  BY DEF Restore, Temporary, IInv, GoodSnapshot
<1>2. /\ record' \in [Versions -> Held]
      /\ \A v \in S : record'[v] = saved.record[v]
      /\ \A v \in Temporary : record'[v] = record[v]
      /\ \A v \in Versions \ (Temporary \cup S) : record'[v] = NoRecord
  BY <1>1 DEF Restore, IInv, Typed, GoodSnapshot, Only, Held, NoRecord, Rank
<1>3. Typed'
  BY <1>1, <1>2 DEF IInv, Typed
<1>4. GoodSnapshot'
  BY <1>1 DEF IInv, GoodSnapshot, IsSession
<1>5. NothingDangles'
  BY <1>1, <1>2 DEF IInv, Typed, GoodSnapshot, NothingDangles, IsSession
<1>6. \A u, v \in stored' : Identity(u) = Identity(v) =>
          (u \in Temporary /\ v \in Temporary) \/ (u \in S /\ v \in S /\ u = v)
  <2> SUFFICES ASSUME NEW u \in stored', NEW v \in stored', Identity(u) = Identity(v)
               PROVE  (u \in Temporary /\ v \in Temporary) \/ (u \in S /\ v \in S /\ u = v)
    OBVIOUS
  <2>1. IsSession(u) <=> IsSession(v)
    BY DEF Identity, IsSession
  <2> QED
    BY <1>1, <2>1 DEF IInv, GoodSnapshot
<1>7. OneCurrentVersion'
  BY <1>1, <1>6 DEF IInv, OneCurrentVersion, Current
<1>8. NewestIsCurrent'
  <2> SUFFICES ASSUME NEW v \in Current', NEW u \in stored', Identity(u) = Identity(v)
               PROVE  record'[u].tick <= record'[v].tick
    BY DEF NewestIsCurrent, SameIdentity
  <2>1. v \in stored'
    BY DEF Current
  <2>2. CASE u = v
    <3>1. record'[v].tick \in Nat
      BY <1>1, <1>2, <2>1 DEF IInv, Typed, Held
    <3> QED
      BY <2>2, <3>1
  <2>3. CASE u \in Temporary /\ v \in Temporary
    <3>1. v \in Current /\ u \in SameIdentity(v)
      BY <1>1, <2>3 DEF Current, SameIdentity
    <3> QED
      BY <1>2, <2>3, <3>1 DEF IInv, NewestIsCurrent
  <2> QED
    BY <1>6, <2>1, <2>2, <2>3
<1> QED
  BY <1>3, <1>4, <1>5, <1>7, <1>8 DEF IInv

LEMMA ClearInv == ASSUME IInv, Clear PROVE IInv'
<1>1. /\ stored' = {} /\ record' = Only({}) /\ superseded' = superseded \cap {}
      /\ UNCHANGED saved
  BY DEF Clear, Only
<1> QED
  BY <1>1, Dropping

LEMMA StepInv == IInv /\ [Next]_vars => IInv'
<1> SUFFICES ASSUME IInv, [Next]_vars PROVE IInv'
  OBVIOUS
<1>1. CASE UNCHANGED vars
  BY <1>1 DEF vars, content, IInv, Typed, GoodSnapshot, NothingDangles, OneCurrentVersion,
              NewestIsCurrent, Current, SameIdentity, IsSession
<1>2. ASSUME NEW r \in Runs, NEW retain \in BOOLEAN, BeginRun(r, retain) PROVE IInv'
  BY <1>2, BeginRunInv
<1>3. ASSUME NEW v \in Versions, NEW tick \in 0..MaxTick, NEW e \in Evidence,
             NEW ev \in Events, Refresh(v, tick, e, ev) \/ Insert(v, tick, e, ev)
      PROVE  IInv'
  BY <1>3, RefreshInv, InsertInv
<1> QED
  BY <1>1, <1>2, <1>3, SaveInv, RestoreInv, ClearInv DEF Next

\* Whatever completions arrive in whatever order, and whatever snapshot is restored,
\* a proposition has at most one current version, no key dangles, and the current
\* version is the most recent one: knowledge.hpp:142-160, 174-176 and 243-277.
THEOREM Invariance == Spec => []IInv
<1>1. Init => IInv
  BY InitInv
<1>2. IInv /\ [Next]_vars => IInv'
  BY StepInv
<1> QED
  BY <1>1, <1>2, PTL DEF Spec

\* At most one version of a proposition is current, it is the newest one (an older tick
\* never supersedes a newer one), and superseded_ only holds keys of stored facts.
THEOREM Consistency == Spec => []FactsConsistent
<1>1. IInv => FactsConsistent
  BY DEF IInv, FactsConsistent
<1> QED
  BY <1>1, Invariance, PTL

-----------------------------------------------------------------------------
Counted == generation \in 0..(Wrap - 1)

LEMMA BumpMoves ==
  ASSUME Counted, Bump
  PROVE  Counted' /\ generation' # generation
<1>1. Wrap \in Nat /\ Wrap > 1
  BY KnowledgeAssumption
<1>2. CASE generation + 1 < Wrap
  BY <1>1, <1>2 DEF Bump, Counted
<1>3. CASE generation + 1 = Wrap
  BY <1>1, <1>3 DEF Bump, Counted
<1> QED
  BY <1>1, <1>2, <1>3 DEF Counted

LEMMA StepMoves ==
  ASSUME Typed, NothingDangles, Counted, [Next]_vars
  PROVE  Counted' /\ (UNCHANGED content \/ generation' # generation)
<1>1. CASE UNCHANGED vars
  BY <1>1 DEF vars, Counted
<1>2. ASSUME NEW r \in Runs, NEW retain \in BOOLEAN, BeginRun(r, retain)
      PROVE  Counted' /\ (UNCHANGED content \/ generation' # generation)
  <2> DEFINE K == IF retain THEN stored \ Temporary ELSE {}
  <2>1. CASE K = stored
    <3>1. UNCHANGED generation
      BY <1>2, <2>1 DEF BeginRun
    <3>2. Only(stored) = record /\ superseded \cap stored = superseded
      BY DEF Typed, NothingDangles, Only
    <3>3. UNCHANGED content
      BY <1>2, <2>1, <3>2 DEF BeginRun, content
    <3> QED
      BY <3>1, <3>3 DEF Counted
  <2>2. CASE K # stored
    BY <1>2, <2>2, BumpMoves DEF BeginRun
  <2> QED
    BY <2>1, <2>2
<1>3. ASSUME NEW v \in Versions, NEW tick \in 0..MaxTick, NEW e \in Evidence,
             NEW ev \in Events, Refresh(v, tick, e, ev) \/ Insert(v, tick, e, ev)
      PROVE  Counted' /\ (UNCHANGED content \/ generation' # generation)
  BY <1>3, BumpMoves DEF Refresh, Insert
<1>4. CASE Save
  BY <1>4 DEF Save, Counted
<1>5. CASE Restore \/ Clear
  BY <1>5, BumpMoves DEF Restore, Clear
<1> QED
  BY <1>1, <1>2, <1>3, <1>4, <1>5 DEF Next

\* A change of what a query can return always comes with another generation().
THEOREM GenerationTracks == Spec => GenerationMoves
<1>1. Init => Counted
  BY KnowledgeAssumption DEF Init, Counted
<1>2. IInv /\ Counted /\ [Next]_vars => Counted'
  BY StepMoves DEF IInv
<1>3. IInv /\ Counted /\ [Next]_vars => [UNCHANGED content \/ generation' # generation]_vars
  BY StepMoves DEF IInv
<1> QED
  BY <1>1, <1>2, <1>3, Invariance, PTL DEF Spec, GenerationMoves

-----------------------------------------------------------------------------
(* Bounded storage *)

\* R is the order the elements of S stand in.
Ordered(S, R) ==
  /\ R \subseteq S \X S
  /\ \A u \in S : <<u, u>> \notin R
  /\ \A u, v, w \in S : <<u, v>> \in R /\ <<v, w>> \in R => <<u, w>> \in R
  /\ \A u, v \in S : u # v => <<u, v>> \in R \/ <<v, u>> \in R

\* The deduplication window.
RunEvents == Runs \X Events
WindowOnce == seen \in Seq(RunEvents) /\ Len(seen) <= MaxSeen /\ IsInjective(seen)

SInv ==
  /\ run \in Runs \cup {NoRun}
  /\ saved \in [stored : SUBSET Versions, older : SUBSET (Versions \X Versions),
                record : [Versions -> Held]]
  /\ WindowOnce
  /\ Cardinality(stored) <= MaxFacts
  /\ Ordered(stored, older) /\ Ordered(saved.stored, saved.older)

\* Some element of a part of an ordered finite set stands before all others: the one
\* with the fewest before it.
LEMMA FirstOfPart ==
  ASSUME NEW T, NEW R, Ordered(T, R), NEW S, S \subseteq T, IsFiniteSet(S), S # {}
  PROVE  \E v \in S : \A u \in S \ {v} : <<v, u>> \in R
<1> DEFINE before(v) == {u \in S : <<u, v>> \in R}
           all == {before(v) : v \in S}
<1>1. all \subseteq FiniteSubsetsOf(S) /\ all # {}
  <2>1. FiniteSubsetsOf(S) = SUBSET S
    BY FS_FiniteSubsetsOfFinite
  <2>2. all \subseteq SUBSET S
    OBVIOUS
  <2>3. PICK v \in S : TRUE
    OBVIOUS
  <2>4. before(v) \in all
    OBVIOUS
  <2> HIDE DEF all
  <2> QED
    BY <2>1, <2>2, <2>4
<1>2. IsWellFoundedOn(StrictSubsetOrdering(S), FiniteSubsetsOf(S))
  BY FS_StrictSubsetOrderingWellFounded
<1> HIDE DEF all
<1>3. PICK least \in all : \A b \in all : <<b, least>> \notin StrictSubsetOrdering(S)
  BY <1>1, <1>2, WFMin
<1>4. PICK v \in S : least = before(v)
  BY <1>3 DEF all
<1>5. before(v) = {}
  <2> SUFFICES ASSUME NEW u \in before(v) PROVE FALSE
    OBVIOUS
  <2>1. before(u) \subseteq before(v) /\ u \notin before(u)
    BY DEF Ordered
  <2>2. <<before(u), before(v)>> \in StrictSubsetOrdering(S)
    BY <2>1 DEF StrictSubsetOrdering
  <2>3. before(u) \in all
    BY DEF all
  <2> QED
    BY <1>3, <1>4, <2>2, <2>3
<1> QED
  BY <1>5 DEF Ordered

\* What eviction, insertion at the end and concatenation make of the order.
LEMMA OrderOfPart ==
  ASSUME NEW T, NEW R, Ordered(T, R), NEW K, K \subseteq T
  PROVE  Ordered(K, {p \in R : p[1] \in K /\ p[2] \in K})
BY DEF Ordered

LEMMA OrderOfAll ==
  ASSUME NEW A, NEW Q, Ordered(A, Q), NEW B, NEW P, Ordered(B, P), A \cap B = {}
  PROVE  Ordered(A \cup B, Q \cup (A \X B) \cup P)
<1> DEFINE R == Q \cup (A \X B) \cup P
<1>1. \A u, v : <<u, v>> \in R <=> \/ <<u, v>> \in Q \/ <<u, v>> \in P
                                  \/ (u \in A /\ v \in B)
  OBVIOUS
<1>2. R \subseteq (A \cup B) \X (A \cup B)
  BY DEF Ordered
<1>3. \A u, v : /\ <<u, v>> \in Q => u \in A /\ v \in A
                /\ <<u, v>> \in P => u \in B /\ v \in B
  BY DEF Ordered
<1> HIDE DEF R
<1> QED
  BY <1>1, <1>2, <1>3 DEF Ordered, R

LEMMA OrderOfOne == ASSUME NEW v PROVE Ordered({v}, {})
BY DEF Ordered

LEMMA RememberedOnce ==
  ASSUME WindowOnce, NEW e \in RunEvents, Remember(e)
  PROVE  WindowOnce'
<1> DEFINE longer == Append(seen, e)
<1>1. /\ longer \in Seq(RunEvents) /\ longer # <<>> /\ Len(longer) = Len(seen) + 1
      /\ longer[Len(seen) + 1] = e
      /\ \A i \in 1..Len(seen) : longer[i] = seen[i]
  BY AppendProperties DEF WindowOnce
<1>2. Len(seen) \in Nat /\ MaxSeen \in Nat /\ DOMAIN seen = 1..Len(seen)
  BY LenProperties, KnowledgeAssumption DEF WindowOnce
<1>3. \A i \in 1..Len(seen) : seen[i] # e
  BY <1>2 DEF Remember, ToSet
<1> HIDE DEF longer
<1>4. \A i, j \in 1..(Len(seen) + 1) : longer[i] = longer[j] => i = j
  <2> SUFFICES ASSUME NEW i \in 1..(Len(seen) + 1), NEW j \in 1..(Len(seen) + 1),
                      longer[i] = longer[j]
               PROVE  i = j
    OBVIOUS
  <2>1. CASE i \in 1..Len(seen) /\ j \in 1..Len(seen)
    BY <1>1, <1>2, <2>1 DEF WindowOnce, IsInjective
  <2>2. CASE i = Len(seen) + 1 \/ j = Len(seen) + 1
    BY <1>1, <1>2, <1>3, <2>2
  <2> QED
    BY <1>2, <2>1, <2>2
<1>5. CASE Len(seen) < MaxSeen
  <2>1. seen' = longer
    BY <1>5 DEF Remember, longer
  <2>2. DOMAIN seen' = 1..(Len(seen) + 1)
    BY <1>1, <2>1, LenProperties
  <2> QED
    BY <1>1, <1>2, <1>4, <1>5, <2>1, <2>2 DEF WindowOnce, IsInjective
<1>6. CASE ~(Len(seen) < MaxSeen)
  <2>1. seen' = Tail(longer)
    BY <1>6 DEF Remember, longer
  <2>2. /\ seen' \in Seq(RunEvents) /\ Len(seen') = Len(seen)
        /\ \A i \in 1..Len(seen) : seen'[i] = longer[i + 1]
    BY <1>1, <1>2, <2>1, HeadTailProperties
  <2>3. DOMAIN seen' = 1..Len(seen)
    BY <2>2, LenProperties
  <2>4. ASSUME NEW i \in 1..Len(seen), NEW j \in 1..Len(seen), seen'[i] = seen'[j]
        PROVE  i = j
    <3>1. i + 1 \in 1..(Len(seen) + 1) /\ j + 1 \in 1..(Len(seen) + 1)
      BY <1>2
    <3>2. i + 1 = j + 1
      BY <1>4, <2>2, <2>4, <3>1
    <3> QED
      BY <1>2, <3>2
  <2> QED
    BY <2>2, <2>3, <2>4 DEF WindowOnce, IsInjective
<1> QED
  BY <1>5, <1>6

\* Sets of versions are finite, and their sizes are numbers that grow with them.
LEMMA Sizes ==
  ASSUME NEW S \in SUBSET Versions, NEW T \in SUBSET S
  PROVE  /\ IsFiniteSet(S) /\ IsFiniteSet(T)
         /\ Cardinality(S) \in Nat /\ Cardinality(T) \in Nat
         /\ Cardinality(T) <= Cardinality(S)
<1>1. IsFiniteSet(S)
  BY KnowledgeAssumption, FS_Subset
<1> QED
  BY <1>1, FS_Subset, FS_CardinalityType

\* Whatever goes, the rest stays ordered.
LEMMA DroppingBounded ==
  ASSUME IInv, SInv, NEW K, K \subseteq stored, stored' = K, older' = Among(K)
  PROVE  Cardinality(stored') <= MaxFacts /\ Ordered(stored', older')
<1>1. /\ Cardinality(K) <= Cardinality(stored)
      /\ Cardinality(K) \in Nat /\ Cardinality(stored) \in Nat
  BY Sizes DEF IInv, Typed
<1>2. Ordered(K, Among(K))
  BY OrderOfPart DEF SInv, Among
<1> QED
  BY <1>1, <1>2, KnowledgeAssumption DEF SInv

\* Eviction always finds a fact to make room with.
LEMMA InsertBounded ==
  ASSUME IInv, SInv, NEW v \in Versions, NEW tick \in Nat, NEW e \in Evidence,
         NEW ev \in Events, Insert(v, tick, e, ev)
  PROVE  Cardinality(stored') <= MaxFacts /\ Ordered(stored', older')
<1> DEFINE K == stored \ Evicted
<1>1. /\ v \notin K /\ stored' = K \cup {v} /\ older' = Among(K) \cup (K \X {v})
      /\ K \in SUBSET stored /\ stored \in SUBSET Versions
  BY DEF Insert, IInv, Typed
<1>2. MaxFacts \in Nat \ {0}
  BY KnowledgeAssumption
<1>3. IsFiniteSet(stored) /\ Cardinality(stored) \in Nat
  BY <1>1, Sizes
<1>4. IsFiniteSet(K) /\ Cardinality(K) \in Nat /\ Cardinality(K) <= Cardinality(stored)
  BY <1>1, Sizes
<1>5. Cardinality(K) + 1 <= MaxFacts
  <2>1. CASE Cardinality(stored) < MaxFacts
    BY <1>2, <1>3, <1>4, <2>1
  <2>2. CASE ~(Cardinality(stored) < MaxFacts)
    <3> DEFINE candidates == IF Temporary # {} THEN Temporary ELSE stored
    <3>1. Cardinality(stored) = MaxFacts /\ stored # {}
      BY <1>2, <1>3, <2>2, FS_EmptySet DEF SInv
    <3>2. candidates \subseteq stored /\ candidates # {} /\ IsFiniteSet(candidates)
      BY <1>1, <3>1, Sizes DEF Temporary
    <3>3. PICK f \in candidates : \A u \in candidates \ {f} : <<f, u>> \in older
      BY <3>2, FirstOfPart DEF SInv
    <3>4. f \in Evicted /\ f \in stored
      BY <2>2, <3>2, <3>3 DEF Evicted
    <3>5. /\ stored \ {f} \in SUBSET Versions /\ K \in SUBSET (stored \ {f})
          /\ Cardinality(stored \ {f}) = Cardinality(stored) - 1
      BY <1>1, <1>3, <3>4, FS_RemoveElement
    <3>6. Cardinality(K) <= Cardinality(stored \ {f})
      BY <3>5, Sizes
    <3> QED
      BY <1>2, <1>4, <3>1, <3>5, <3>6
  <2> QED
    BY <2>1, <2>2
<1>6. Cardinality(stored') = Cardinality(K) + 1
  BY <1>1, <1>4, FS_AddElement
<1>7. Ordered(K, Among(K))
  BY <1>1, OrderOfPart DEF SInv, Among
<1>8. Ordered(stored', older')
  <2> DEFINE Q == Among(K)
  <2>1. Ordered(K, Q) /\ Ordered({v}, {}) /\ K \cap {v} = {}
    BY <1>1, <1>7, OrderOfOne
  <2>2. stored' = K \cup {v} /\ older' = Q \cup (K \X {v}) \cup {}
    BY <1>1
  <2> HIDE DEF K, Q
  <2> QED
    BY <2>1, <2>2, OrderOfAll
<1> QED
  BY <1>2, <1>4, <1>5, <1>6, <1>8

\* A restored snapshot fits, after the facts of the run.
LEMMA RestoreBounded ==
  ASSUME IInv, SInv, Restore
  PROVE  Cardinality(stored') <= MaxFacts /\ Ordered(stored', older')
<1> DEFINE S == saved.stored
           T == Temporary
           Q == Among(T)
<1>1. /\ stored' = T \cup S /\ older' = Q \cup (T \X S) \cup saved.older
      /\ Cardinality(S) + Cardinality(T) <= MaxFacts
  BY DEF Restore, Accepts
<1>2. T \in SUBSET stored /\ stored \in SUBSET Versions /\ S \in SUBSET Versions
  BY DEF IInv, Typed, GoodSnapshot, Temporary
<1>3. T \cap S = {}
  BY DEF Temporary, IInv, GoodSnapshot
<1>4. Ordered(T, Q) /\ Ordered(S, saved.older)
  BY <1>2, OrderOfPart DEF SInv, Among
<1>5. /\ IsFiniteSet(S) /\ IsFiniteSet(T)
      /\ Cardinality(S) \in Nat /\ Cardinality(T) \in Nat
  BY <1>2, Sizes
<1> HIDE DEF S, T, Q
<1>6. Ordered(stored', older')
  BY <1>1, <1>3, <1>4, OrderOfAll
<1>7. Cardinality(T \cup S) = Cardinality(T) + Cardinality(S)
  BY <1>3, <1>5, FS_Union, FS_EmptySet
<1> QED
  BY <1>1, <1>5, <1>6, <1>7

\* What session_snapshot() hands out is a snapshot.
LEMMA SaveTyped ==
  ASSUME IInv, SInv, Save
  PROVE  /\ saved' \in [stored : SUBSET Versions, older : SUBSET (Versions \X Versions),
                        record : [Versions -> Held]]
         /\ Ordered(saved'.stored, saved'.older)
<1>1. /\ saved'.stored = SessionFacts /\ saved'.older = Among(SessionFacts)
      /\ SessionFacts \in SUBSET stored /\ stored \in SUBSET Versions
  BY DEF Save, SessionFacts, Current, IInv, Typed
<1>2. Ordered(SessionFacts, Among(SessionFacts))
  BY <1>1, OrderOfPart DEF SInv, Among
<1>3. Only(SessionFacts) \in [Versions -> Held]
  BY DEF IInv, Typed, Only, Held, NoRecord, Rank
<1>4. Among(SessionFacts) \in SUBSET (Versions \X Versions)
  BY <1>1, <1>2 DEF Ordered
<1> QED
  BY <1>1, <1>2, <1>3, <1>4 DEF Save

LEMMA InitBounded == Init => SInv
<1> SUFFICES ASSUME Init PROVE SInv
  OBVIOUS
<1>1. WindowOnce
  BY KnowledgeAssumption DEF Init, WindowOnce, IsInjective
<1>2. Cardinality({}) = 0
  BY FS_EmptySet
<1>3. Ordered(stored, older) /\ Ordered(saved.stored, saved.older)
  BY DEF Init, NoSnapshot, Ordered
<1>4. saved \in [stored : SUBSET Versions, older : SUBSET (Versions \X Versions),
                 record : [Versions -> Held]]
  BY DEF Init, NoSnapshot, Held, NoRecord, Rank
<1> QED
  BY <1>1, <1>2, <1>3, <1>4, KnowledgeAssumption DEF Init, SInv

LEMMA StepBounded == IInv /\ SInv /\ [Next]_vars => SInv'
<1> SUFFICES ASSUME IInv, SInv, [Next]_vars PROVE SInv'
  OBVIOUS
<1>1. CASE UNCHANGED vars
  BY <1>1 DEF vars, content, SInv, WindowOnce, Ordered
<1>2. ASSUME seen' = <<>> PROVE WindowOnce'
  BY <1>2, KnowledgeAssumption DEF WindowOnce, IsInjective
<1>3. ASSUME NEW r \in Runs, NEW retain \in BOOLEAN, BeginRun(r, retain) PROVE SInv'
  <2> DEFINE K == IF retain THEN stored \ Temporary ELSE {}
  <2>1. K \subseteq stored /\ stored' = K /\ older' = Among(K)
    BY <1>3 DEF BeginRun
  <2>2. Cardinality(stored') <= MaxFacts /\ Ordered(stored', older')
    BY <2>1, DroppingBounded
  <2> QED
    BY <1>2, <1>3, <2>2 DEF BeginRun, SInv
<1>4. ASSUME NEW v \in Versions, NEW tick \in 0..MaxTick, NEW e \in Evidence,
             NEW ev \in Events, Refresh(v, tick, e, ev) \/ Insert(v, tick, e, ev)
      PROVE  SInv'
  <2>1. <<v[1], ev>> \in RunEvents /\ Remember(<<v[1], ev>>)
    BY <1>4 DEF Versions, RunEvents, Refresh, Insert
  <2>2. WindowOnce'
    BY <2>1, RememberedOnce DEF SInv
  <2>3. Cardinality(stored') <= MaxFacts /\ Ordered(stored', older')
    <3>1. CASE Refresh(v, tick, e, ev)
      BY <3>1 DEF Refresh, SInv
    <3>2. CASE Insert(v, tick, e, ev)
      BY <3>2, InsertBounded
    <3> QED
      BY <1>4, <3>1, <3>2
  <2>4. UNCHANGED <<run, saved>>
    BY <1>4 DEF Refresh, Insert
  <2> QED
    BY <2>2, <2>3, <2>4 DEF SInv
<1>5. CASE Save
  <2>1. UNCHANGED <<run, stored, older, seen>>
    BY <1>5 DEF Save, content
  <2> QED
    BY <1>5, <2>1, SaveTyped DEF SInv, WindowOnce
<1>6. CASE Restore
  <2>1. UNCHANGED <<run, seen, saved>>
    BY <1>6 DEF Restore
  <2> QED
    BY <1>6, <2>1, RestoreBounded DEF SInv, WindowOnce
<1>7. CASE Clear
  <2>1. {} \subseteq stored /\ stored' = {} /\ older' = Among({})
    BY <1>7 DEF Clear, Among
  <2>2. Cardinality(stored') <= MaxFacts /\ Ordered(stored', older')
    BY <2>1, DroppingBounded
  <2> QED
    BY <1>2, <1>7, <2>2 DEF Clear, SInv
<1> QED
  BY <1>1, <1>3, <1>4, <1>5, <1>6, <1>7 DEF Next

\* The session facts and the facts of the run share the stored ones.
LEMMA Restorable ==
  ASSUME IInv, SInv, run # NoRun
  PROVE  Accepts(SessionFacts)
<1>1. /\ SessionFacts \in SUBSET stored /\ Temporary \in SUBSET stored
      /\ SessionFacts \cup Temporary \in SUBSET stored /\ stored \in SUBSET Versions
      /\ SessionFacts \cap Temporary = {} /\ SessionFacts \subseteq Current
  BY DEF SessionFacts, Temporary, Current, IInv, Typed
<1>2. /\ IsFiniteSet(SessionFacts) /\ IsFiniteSet(Temporary)
      /\ Cardinality(SessionFacts) \in Nat /\ Cardinality(Temporary) \in Nat
      /\ Cardinality(stored) \in Nat
      /\ Cardinality(SessionFacts \cup Temporary) <= Cardinality(stored)
  BY <1>1, Sizes
<1>3. Cardinality(SessionFacts \cup Temporary)
        = Cardinality(SessionFacts) + Cardinality(Temporary)
  <2>1. Cardinality(SessionFacts \cup Temporary)
          = Cardinality(SessionFacts) + Cardinality(Temporary)
            - Cardinality(SessionFacts \cap Temporary)
    BY <1>2, FS_Union
  <2>2. Cardinality(SessionFacts \cap Temporary) = 0
    BY <1>1, FS_EmptySet
  <2> QED
    BY <1>2, <2>1, <2>2
<1>4. \A u, v \in SessionFacts : Identity(u) = Identity(v) => u = v
  BY <1>1 DEF IInv, OneCurrentVersion
<1>5. Cardinality(SessionFacts) + Cardinality(Temporary) <= MaxFacts
  <2>1. Cardinality(stored) <= MaxFacts /\ MaxFacts \in Nat
    BY KnowledgeAssumption DEF SInv
  <2> QED
    BY <1>2, <1>3, <2>1
<1> QED
  BY <1>4, <1>5 DEF Accepts

LEMMA Snapshots ==
  ASSUME IInv, SInv, Counted
  PROVE  SnapshotRestorable
<1>1. TypeOK
  <2>1. older \subseteq Versions \X Versions
    BY DEF SInv, Ordered, IInv, Typed
  <2> QED
    BY <2>1 DEF TypeOK, SInv, WindowOnce, RunEvents, Counted, IInv, Typed, Held
<1>2. StorageBounded
  BY DEF StorageBounded, SInv, WindowOnce
<1> QED
  BY <1>1, <1>2, Restorable DEF SnapshotRestorable

\* Storage stays bounded whatever is ingested and restored (knowledge.hpp:153-156 and
\* 185-194), because eviction always finds the one fact that stands before the others; and
\* restore_session_snapshot (250-277) refuses nothing session_snapshot hands out: the
\* session facts and the facts of the run fit together because they are all stored now.
THEOREM SnapshotsRestorable == Spec => []SnapshotRestorable
<1>1. Init => SInv /\ Counted
  BY InitBounded, KnowledgeAssumption DEF Init, Counted
<1>2. IInv /\ SInv /\ Counted /\ [Next]_vars => SInv' /\ Counted'
  BY StepBounded, StepMoves DEF IInv
<1>3. IInv /\ SInv /\ Counted => SnapshotRestorable
  BY Snapshots
<1> QED
  BY <1>1, <1>2, <1>3, Invariance, PTL DEF Spec

-----------------------------------------------------------------------------
(* What is read out of the graph *)

\* What std::stable_sort compares facts with orders the stored ones.
LEMMA BeforeOrders ==
  ASSUME IInv, SInv
  PROVE  /\ \A u \in stored : ~Before(u, u)
         /\ \A u, v, w \in stored : Before(u, v) /\ Before(v, w) => Before(u, w)
         /\ \A u, v \in stored : u # v => Before(u, v) \/ Before(v, u)
<1>1. \A v \in stored : Priority[v[2]] \in Nat /\ record[v].tick \in Nat
  <2>1. \A v \in stored : v \in Versions
    BY DEF IInv, Typed
  <2>2. \A v \in Versions : v[2] \in Ids
    BY DEF Versions
  <2> QED
    BY <2>1, <2>2, ContextAssumption DEF IInv, Typed, Held
<1>2. /\ \A u \in stored : <<u, u>> \notin older
      /\ \A u, v, w \in stored :
           <<u, v>> \in older /\ <<v, w>> \in older => <<u, w>> \in older
      /\ \A u, v \in stored : u # v => <<u, v>> \in older \/ <<v, u>> \in older
  BY DEF SInv, Ordered
<1>3. ASSUME NEW u \in stored PROVE ~Before(u, u)
  BY <1>1, <1>2 DEF Before
<1>4. ASSUME NEW u \in stored, NEW v \in stored, NEW w \in stored,
             Before(u, v), Before(v, w)
      PROVE  Before(u, w)
  BY <1>1, <1>2, <1>4 DEF Before
<1>5. ASSUME NEW u \in stored, NEW v \in stored, u # v
      PROVE  Before(u, v) \/ Before(v, u)
  BY <1>1, <1>2, <1>5 DEF Before
<1> QED
  BY <1>3, <1>4, <1>5

\* r lists the elements of S in that order.
Lists(r, S) ==
  /\ Cardinality(S) \in Nat
  /\ r \in [1..Cardinality(S) -> S]
  /\ \A v \in S : \E i \in 1..Cardinality(S) : r[i] = v
  /\ \A i, j \in 1..Cardinality(S) : i < j => Before(r[i], r[j])

LEMMA RankedLists ==
  ASSUME IInv, SInv, NEW S \in SUBSET stored
  PROVE  Lists(Ranked(S), S)
<1> DEFINE Below(v) == {u \in S : Before(u, v)}
           rank == [v \in S |-> Cardinality(Below(v)) + 1]
<1>1. S \in SUBSET Versions /\ IsFiniteSet(S) /\ Cardinality(S) \in Nat
  <2>1. S \in SUBSET Versions
    BY DEF IInv, Typed
  <2> QED
    BY <2>1, Sizes
<1>2. PICK n \in Nat : n = Cardinality(S)
  BY <1>1
<1>3. /\ \A u \in S : ~Before(u, u)
      /\ \A u, v, w \in S : Before(u, v) /\ Before(v, w) => Before(u, w)
      /\ \A u, v \in S : u # v => Before(u, v) \/ Before(v, u)
  BY BeforeOrders
<1>4. ASSUME NEW v \in S
      PROVE  /\ IsFiniteSet(Below(v))
             /\ Cardinality(Below(v)) \in Nat /\ Cardinality(Below(v)) + 1 <= n
  <2>1. Below(v) \in SUBSET S /\ Below(v) # S
    BY <1>3
  <2> HIDE DEF Below
  <2>2. /\ IsFiniteSet(Below(v)) /\ Cardinality(Below(v)) <= Cardinality(S)
        /\ Cardinality(Below(v)) # Cardinality(S)
    BY <1>1, <2>1, FS_Subset
  <2>3. Cardinality(Below(v)) \in Nat
    BY <2>2, FS_CardinalityType
  <2> QED
    BY <1>2, <2>2, <2>3
<1>5. ASSUME NEW u \in S, NEW v \in S, Before(u, v)
      PROVE  Cardinality(Below(u)) < Cardinality(Below(v))
  <2>1. Below(u) \in SUBSET Below(v) /\ Below(u) # Below(v)
    BY <1>3, <1>5
  <2>2. /\ IsFiniteSet(Below(v))
        /\ Cardinality(Below(u)) \in Nat /\ Cardinality(Below(v)) \in Nat
    BY <1>4
  <2> HIDE DEF Below
  <2>3. /\ Cardinality(Below(u)) <= Cardinality(Below(v))
        /\ Cardinality(Below(u)) # Cardinality(Below(v))
    BY <2>1, <2>2, FS_Subset
  <2> QED
    BY <2>2, <2>3
<1>6. rank \in [S -> 1..n]
  <2> HIDE DEF Below
  <2>1. \A v \in S : Cardinality(Below(v)) + 1 \in 1..n
    BY <1>2, <1>4
  <2> QED
    BY <2>1
<1>7. \A u, v \in S : Before(u, v) => rank[u] < rank[v]
  <2> HIDE DEF Below
  <2> QED
    BY <1>4, <1>5
<1>8. \A u, v \in S : rank[u] = rank[v] => u = v
  <2> HIDE DEF rank
  <2>1. \A v \in S : rank[v] \in Nat
    BY <1>2, <1>6
  <2> QED
    BY <1>3, <1>7, <2>1
<1>9. \A i \in 1..n : \E v \in S : rank[v] = i
  <2> HIDE DEF rank
  <2>1. rank \in Injection(S, 1..n)
    BY <1>6, <1>8 DEF Injection, IsInjective
  <2>2. IsFiniteSet(1..n) /\ Cardinality(1..n) = n
    BY <1>2, FS_Interval
  <2>3. rank \in Surjection(S, 1..n)
    BY <1>2, <2>1, <2>2, FS_Injection
  <2> QED
    BY <2>3 DEF Surjection
<1>10. PICK r : r = Ranked(S)
  OBVIOUS
<1>11. r = [i \in 1..n |-> CHOOSE v \in S : Cardinality(Below(v)) = i - 1]
  BY <1>2, <1>10 DEF Ranked
<1>12. ASSUME NEW i \in 1..n PROVE r[i] \in S /\ rank[r[i]] = i
  <2>1. PICK v \in S : rank[v] = i
    BY <1>9
  <2>2. Cardinality(Below(v)) = i - 1
    <3>1. rank[v] = Cardinality(Below(v)) + 1
      OBVIOUS
    <3>2. Cardinality(Below(v)) \in Nat
      BY <1>4
    <3> HIDE DEF Below, rank
    <3> QED
      BY <2>1, <3>1, <3>2
  <2> HIDE DEF Below
  <2>3. r[i] \in S /\ Cardinality(Below(r[i])) = i - 1
    BY <1>11, <2>2
  <2>4. rank[r[i]] = i - 1 + 1
    BY <2>3
  <2> HIDE DEF rank
  <2> QED
    BY <2>3, <2>4
<1> HIDE DEF rank
<1>13. r \in [1..n -> S]
  BY <1>11, <1>12
<1>14. \A v \in S : \E i \in 1..n : r[i] = v
  BY <1>6, <1>8, <1>12
<1>15. ASSUME NEW i \in 1..n, NEW j \in 1..n, i < j PROVE Before(r[i], r[j])
  <2>1. /\ r[i] \in S /\ r[j] \in S /\ rank[r[i]] = i /\ rank[r[j]] = j
    BY <1>12
  <2>2. r[i] # r[j] /\ ~(j < i)
    BY <1>2, <1>15, <2>1
  <2> QED
    BY <1>3, <1>7, <2>1, <2>2
<1> QED
  BY <1>2, <1>10, <1>13, <1>14, <1>15 DEF Lists

\* A query shows the first facts of such a list.
Shows(q, r, limit, S) ==
  LET n == Cardinality(S)
      m == IF limit < n THEN limit ELSE n
  IN  /\ Lists(r, S) /\ m \in Nat /\ m <= n
      /\ q \in Seq(S) /\ Len(q) = m /\ \A i \in 1..m : q[i] = r[i]

LEMMA QueryShows ==
  ASSUME IInv, SInv, NEW now \in Nat, NEW limit \in Nat
  PROVE  LET S == {v \in Current : ~Expired(v, now)}
         IN  Shows(Query(now, limit), Ranked(S), limit, S)
<1>1. PICK S : S = {v \in Current : ~Expired(v, now)}
  OBVIOUS
<1>2. S \in SUBSET stored
  BY <1>1 DEF Current
<1>3. PICK r : r = Ranked(S)
  OBVIOUS
<1>4. Lists(r, S)
  BY <1>2, <1>3, RankedLists
<1>5. PICK n \in Nat : n = Cardinality(S)
  BY <1>4 DEF Lists
<1>6. r \in Seq(S) /\ Len(r) = n
  BY <1>4, <1>5 DEF Lists
<1>7. PICK m \in Nat : m = IF limit < n THEN limit ELSE n
  OBVIOUS
<1>8. m <= n
  BY <1>7
<1>9. Query(now, limit) = SubSeq(r, 1, m)
  BY <1>1, <1>3, <1>6, <1>7 DEF Query
<1>10. \A j \in 1..m : r[j] \in S
  BY <1>6, <1>8
<1>11. PICK q : q = SubSeq(r, 1, m)
  OBVIOUS
<1>12. /\ q \in Seq(S)
       /\ Len(q) = IF 1 <= m THEN m - 1 + 1 ELSE 0
       /\ \A i \in 1..(m - 1 + 1) : q[i] = r[1 + i - 1]
  BY <1>10, <1>11, SubSeqProperties
<1>13. Len(q) = m /\ \A i \in 1..m : q[i] = r[i]
  BY <1>12
<1>14. Shows(q, r, limit, S)
  BY <1>4, <1>5, <1>7, <1>8, <1>12, <1>13 DEF Shows
<1> QED
  BY <1>1, <1>3, <1>9, <1>11, <1>14

\* What a query shows is current, newest first, and all that ranks as high.
LEMMA QueriesSound ==
  ASSUME IInv, SInv
  PROVE  QuerySound
<1> SUFFICES ASSUME NEW now \in 0..(MaxTick + 1), NEW limit \in 1..MaxFacts
             PROVE
      LET shown == ToSet(Query(now, limit))
      IN  /\ Cardinality(shown) = Len(Query(now, limit))
          /\ \A v \in shown : \A u \in SameIdentity(v) \ {v} :
               u \notin shown /\ record[u].tick <= record[v].tick
          /\ \A v \in shown, u \in stored \ shown :
               \/ u \in superseded \/ Expired(u, now)
               \/ Len(Query(now, limit)) = limit /\ Before(v, u)
  BY DEF QuerySound
<1>1. now \in Nat /\ limit \in Nat
  BY KnowledgeAssumption
<1>2. PICK S : S = {v \in Current : ~Expired(v, now)}
  OBVIOUS
<1>3. PICK q : q = Query(now, limit)
  OBVIOUS
<1>4. PICK r : r = Ranked(S)
  OBVIOUS
<1>5. Shows(q, r, limit, S)
  BY <1>1, <1>2, <1>3, <1>4, QueryShows
<1>6. PICK n \in Nat : n = Cardinality(S)
  BY <1>5 DEF Shows, Lists
<1>7. PICK m \in Nat : m = IF limit < n THEN limit ELSE n
  BY <1>1
<1>8. /\ m <= n /\ q \in Seq(S) /\ Len(q) = m /\ \A i \in 1..m : q[i] = r[i]
      /\ r \in [1..n -> S] /\ \A v \in S : \E i \in 1..n : r[i] = v
      /\ \A i, j \in 1..n : i < j => Before(r[i], r[j])
  BY <1>5, <1>6, <1>7 DEF Shows, Lists
<1>9. ToSet(q) \in SUBSET S /\ \A v \in ToSet(q) : \E i \in 1..m : r[i] = v
  BY <1>8 DEF ToSet
<1>10. ASSUME NEW i \in 1..m PROVE r[i] \in ToSet(q)
  <2>1. i \in DOMAIN q /\ q[i] = r[i]
    BY <1>8
  <2> QED
    BY <2>1 DEF ToSet
<1>11. S \in SUBSET Current /\ Current \in SUBSET stored
  BY <1>2 DEF Current
<1>12. \A u \in S : ~Before(u, u)
  BY <1>11, BeforeOrders
<1>13. Cardinality(ToSet(q)) = m
  <2>1. q \in [1..m -> ToSet(q)]
    BY <1>8 DEF ToSet
  <2>2. ASSUME NEW i \in 1..m, NEW j \in 1..m, q[i] = q[j] PROVE i = j
    <3>1. i \in 1..n /\ j \in 1..n /\ r[i] = r[j] /\ r[i] \in S
      BY <1>8, <2>2
    <3>2. ~(i < j) /\ ~(j < i)
      BY <1>8, <1>12, <3>1
    <3> QED
      BY <3>2
  <2>3. q \in Surjection(1..m, ToSet(q)) /\ q \in Injection(1..m, ToSet(q))
    BY <2>1, <2>2, <1>8 DEF Surjection, Injection, IsInjective, ToSet
  <2>4. IsFiniteSet(1..m) /\ Cardinality(1..m) = m
    BY FS_Interval
  <2> QED
    BY <2>3, <2>4, FS_Surjection
<1>14. ASSUME NEW v \in ToSet(q), NEW u \in SameIdentity(v) \ {v}
       PROVE  u \notin ToSet(q) /\ record[u].tick <= record[v].tick
  <2>1. v \in Current
    BY <1>9, <1>11
  <2>2. u \notin Current
    BY <2>1 DEF IInv, OneCurrentVersion, SameIdentity
  <2> QED
    BY <1>9, <1>11, <2>1, <2>2 DEF IInv, NewestIsCurrent
<1>15. ASSUME NEW v \in ToSet(q), NEW u \in stored \ ToSet(q),
              u \notin superseded, ~Expired(u, now)
       PROVE  m = limit /\ Before(v, u)
  <2>1. u \in S
    BY <1>2, <1>15 DEF Current
  <2>2. PICK i \in 1..m : r[i] = v
    BY <1>9
  <2>3. PICK j \in 1..n : r[j] = u
    BY <1>8, <2>1
  <2>4. j \notin 1..m
    BY <1>10, <2>3
  <2>5. i \in 1..n /\ i < j /\ m < n
    BY <1>8, <2>2, <2>3, <2>4
  <2> QED
    BY <1>1, <1>7, <1>8, <2>2, <2>3, <2>5
<1> QED
  BY <1>3, <1>8, <1>13, <1>14, <1>15

\* The tokens of facts, beside the mandatory ones.
Tokens(S) == UNION {{v} \X (1..Cost[v]) : v \in S}

LEMMA OneMore ==
  ASSUME NEW S \in SUBSET Versions, NEW v \in Versions \ S, IsFiniteSet(Tokens(S))
  PROVE  /\ IsFiniteSet(Tokens(S \cup {v}))
         /\ TokensOf(S) \in Nat /\ TokensOf(S \cup {v}) \in Nat
         /\ TokensOf(S \cup {v}) = TokensOf(S) + Cost[v]
<1> DEFINE A == Tokens(S)
           B == {v} \X (1..Cost[v])
<1>1. Tokens(S \cup {v}) = A \cup B
  BY DEF Tokens
<1>2. A \cap B = {}
  BY DEF Tokens
<1>3. PICK c \in Nat : c = Cost[v]
  BY ContextAssumption
<1>4. IsFiniteSet(B) /\ Cardinality(B) = c
  <2>1. IsFiniteSet(1..c) /\ Cardinality(1..c) = c
    BY FS_Interval
  <2>2. IsFiniteSet({v}) /\ Cardinality({v}) = 1
    BY FS_Singleton
  <2>3. IsFiniteSet({v} \X (1..c)) /\ Cardinality({v} \X (1..c)) = 1 * c
    BY <2>1, <2>2, FS_Product
  <2> QED
    BY <1>3, <2>3
<1>5. IsFiniteSet(A)
  OBVIOUS
<1> HIDE DEF A, B
<1>6. PICK a \in Nat : a = Cardinality(A)
  BY <1>5, FS_CardinalityType
<1>7. /\ IsFiniteSet(A \cup B)
      /\ Cardinality(A \cup B) = Cardinality(A) + Cardinality(B) - Cardinality(A \cap B)
  BY <1>4, <1>5, FS_Union
<1>8. Cardinality(A \cap B) = 0
  BY <1>2, FS_EmptySet
<1>9. Cardinality(A \cup B) = a + c
  BY <1>4, <1>6, <1>7, <1>8
<1>10. TokensOf(S) = Prompt + a
  BY <1>6 DEF TokensOf, Tokens, A
<1>11. TokensOf(S \cup {v}) = Prompt + (a + c)
  BY <1>1, <1>9 DEF TokensOf, Tokens
<1>12. Prompt \in Nat
  BY ContextAssumption
<1>13. TokensOf(S \cup {v}) = TokensOf(S) + Cost[v]
  BY <1>3, <1>10, <1>11, <1>12
<1>14. TokensOf(S) \in Nat /\ TokensOf(S \cup {v}) \in Nat
  BY <1>10, <1>11, <1>12
<1> QED
  BY <1>1, <1>7, <1>13, <1>14

LEMMA OneBehind ==
  ASSUME NEW T, NEW s \in Seq(T), NEW v \in T
  PROVE  /\ Append(s, v) \in Seq(T) /\ Len(Append(s, v)) = Len(s) + 1
         /\ ToSet(Append(s, v)) = ToSet(s) \cup {v}
<1>1. PICK n \in Nat : n = Len(s)
  OBVIOUS
<1>2. PICK t : t = Append(s, v)
  OBVIOUS
<1>3. /\ t \in Seq(T) /\ Len(t) = n + 1
      /\ t[n + 1] = v /\ \A i \in 1..n : t[i] = s[i]
  BY <1>1, <1>2, AppendProperties
<1>4. DOMAIN s = 1..n /\ DOMAIN t = 1..(n + 1)
  BY <1>1, <1>3, LenProperties
<1>5. ToSet(t) \subseteq ToSet(s) \cup {v}
  <2> SUFFICES ASSUME NEW i \in 1..(n + 1) PROVE t[i] \in ToSet(s) \cup {v}
    BY <1>4 DEF ToSet
  <2>1. i = n + 1 \/ i \in 1..n
    OBVIOUS
  <2> QED
    BY <1>3, <1>4, <2>1 DEF ToSet
<1>6. ToSet(s) \subseteq ToSet(t)
  <2> SUFFICES ASSUME NEW i \in 1..n PROVE s[i] \in ToSet(t)
    BY <1>4 DEF ToSet
  <2>1. i \in 1..(n + 1) /\ t[i] = s[i]
    BY <1>3
  <2> QED
    BY <1>4, <2>1 DEF ToSet
<1>7. v \in ToSet(t)
  <2>1. n + 1 \in 1..(n + 1) /\ t[n + 1] = v
    BY <1>3
  <2> QED
    BY <1>4, <2>1 DEF ToSet
<1> QED
  BY <1>1, <1>2, <1>3, <1>5, <1>6, <1>7

\* A context made of the first k of the facts r lists.
Fits(c, r, k, S, budget) ==
  LET A == ToSet(c.admitted)
  IN  /\ c \in [admitted : Seq(S), omitted : Seq(S)]
      /\ Len(c.admitted) + Len(c.omitted) = k
      /\ A \cup ToSet(c.omitted) = {r[i] : i \in 1..k}
      /\ IsFiniteSet(Tokens(A)) /\ TokensOf(A) <= budget
      /\ \A v \in ToSet(c.omitted) :
           TokensOf({u \in A : Before(u, v)}) + Cost[v] > budget

\* Admitting or omitting the next fact keeps what the context is.
LEMMA AdmitFits ==
  ASSUME IInv, SInv, NEW S \in SUBSET stored, NEW r, Lists(r, S), NEW budget \in Nat,
         NEW k \in 1..Cardinality(S), NEW c, Fits(c, r, k - 1, S, budget)
  PROVE  Fits(Admit(c, r[k], budget), r, k, S, budget)
<1>1. PICK n \in Nat : n = Cardinality(S)
  BY DEF Lists
<1>2. /\ r \in [1..n -> S] /\ \A i, j \in 1..n : i < j => Before(r[i], r[j])
      /\ k \in 1..n
  BY <1>1 DEF Lists
<1>3. PICK w \in S : w = r[k]
  BY <1>2
<1>4. PICK a \in Seq(S) : a = c.admitted
  BY DEF Fits
<1>5. PICK o \in Seq(S) : o = c.omitted
  BY DEF Fits
<1> DEFINE A == ToSet(a)
           O == ToSet(o)
<1>6. /\ Len(a) + Len(o) = k - 1
      /\ A \cup O = {r[i] : i \in 1..(k - 1)}
      /\ IsFiniteSet(Tokens(A)) /\ TokensOf(A) <= budget
      /\ \A v \in O : TokensOf({u \in A : Before(u, v)}) + Cost[v] > budget
  BY <1>4, <1>5 DEF Fits
<1>7. S \in SUBSET Versions /\ A \in SUBSET S /\ O \in SUBSET S
  BY <1>4, <1>5 DEF IInv, Typed, ToSet
<1>8. \A v \in A \cup O : Before(v, w)
  <2> SUFFICES ASSUME NEW i \in 1..(k - 1) PROVE Before(r[i], w)
    BY <1>6
  <2>1. i \in 1..n /\ i < k
    BY <1>2
  <2> QED
    BY <1>2, <1>3, <2>1
<1>9. /\ \A u \in S : ~Before(u, u)
      /\ \A u, v, x \in S : Before(u, v) /\ Before(v, x) => Before(u, x)
  BY BeforeOrders
<1>10. w \notin A /\ \A v \in O : ~Before(w, v)
  BY <1>3, <1>7, <1>8, <1>9
<1>11. {r[i] : i \in 1..k} = A \cup O \cup {w}
  <2>1. \A i \in 1..k : i \in 1..(k - 1) \/ i = k
    BY <1>2
  <2>2. \A i \in 1..(k - 1) : i \in 1..k
    BY <1>2
  <2>3. k \in 1..k
    BY <1>2
  <2> HIDE DEF A, O
  <2>4. {r[i] : i \in 1..k} = {r[i] : i \in 1..(k - 1)} \cup {r[k]}
    BY <2>1, <2>2, <2>3
  <2> QED
    BY <1>3, <1>6, <2>4
<1>12. /\ IsFiniteSet(Tokens(A \cup {w}))
       /\ TokensOf(A) \in Nat /\ TokensOf(A \cup {w}) \in Nat
       /\ TokensOf(A \cup {w}) = TokensOf(A) + Cost[w]
  <2>1. A \in SUBSET Versions /\ w \in Versions \ A
    BY <1>7, <1>10
  <2> HIDE DEF A
  <2> QED
    BY <1>6, <2>1, OneMore
<1>13. Len(a) \in Nat /\ Len(o) \in Nat
  OBVIOUS
<1>14. PICK d : d = Admit(c, w, budget)
  OBVIOUS
<1>15. CASE TokensOf(A \cup {w}) > budget
  <2>1. d = [c EXCEPT !.omitted = Append(@, w)]
    BY <1>4, <1>14, <1>15 DEF Admit
  <2>2. d = [admitted |-> a, omitted |-> Append(o, w)]
    BY <1>4, <1>5, <2>1 DEF Fits
  <2> DEFINE x == Append(o, w)
  <2>3. /\ Append(o, w) \in Seq(S) /\ Len(Append(o, w)) = Len(o) + 1
        /\ ToSet(Append(o, w)) = O \cup {w}
    BY OneBehind
  <2>4. {u \in A : Before(u, w)} = A
    BY <1>8
  <2>5. TokensOf({u \in A : Before(u, w)}) + Cost[w] > budget
    BY <1>12, <1>15, <2>4
  <2>6. \A v \in O \cup {w} : TokensOf({u \in A : Before(u, v)}) + Cost[v] > budget
    BY <1>6, <2>5
  <2>7. Len(a) + Len(Append(o, w)) = k
    BY <1>2, <1>6, <1>13, <2>3
  <2>8. A \cup (O \cup {w}) = {r[i] : i \in 1..k}
    BY <1>11
  <2> HIDE DEF x
  <2>9. /\ d \in [admitted : Seq(S), omitted : Seq(S)]
        /\ d.admitted = a /\ d.omitted = x
    BY <2>2, <2>3 DEF x
  <2>10. ToSet(d.admitted) = A /\ ToSet(d.omitted) = O \cup {w}
    BY <2>3, <2>9 DEF x
  <2>11. Len(d.admitted) + Len(d.omitted) = k
    BY <2>7, <2>9 DEF x
  <2> HIDE DEF A, O
  <2>12. Fits(d, r, k, S, budget)
    BY <1>6, <2>6, <2>8, <2>9, <2>10, <2>11 DEF Fits
  <2> QED
    BY <1>3, <1>14, <2>12
<1>16. CASE ~(TokensOf(A \cup {w}) > budget)
  <2>1. d = [c EXCEPT !.admitted = Append(@, w)]
    BY <1>4, <1>14, <1>16 DEF Admit
  <2>2. d = [admitted |-> Append(a, w), omitted |-> o]
    BY <1>4, <1>5, <2>1 DEF Fits
  <2> DEFINE x == Append(a, w)
  <2>3. /\ Append(a, w) \in Seq(S) /\ Len(Append(a, w)) = Len(a) + 1
        /\ ToSet(Append(a, w)) = A \cup {w}
    BY OneBehind
  <2>4. TokensOf(A \cup {w}) <= budget
    BY <1>12, <1>16
  <2>5. ASSUME NEW v \in O
        PROVE  TokensOf({u \in A \cup {w} : Before(u, v)}) + Cost[v] > budget
    <3>1. {u \in A \cup {w} : Before(u, v)} = {u \in A : Before(u, v)}
      BY <1>10
    <3> QED
      BY <1>6, <3>1
  <2>6. Len(Append(a, w)) + Len(o) = k
    BY <1>2, <1>6, <1>13, <2>3
  <2>7. (A \cup {w}) \cup O = {r[i] : i \in 1..k}
    BY <1>11
  <2> HIDE DEF x
  <2>8. /\ d \in [admitted : Seq(S), omitted : Seq(S)]
        /\ d.admitted = x /\ d.omitted = o
    BY <2>2, <2>3 DEF x
  <2>9. ToSet(d.admitted) = A \cup {w} /\ ToSet(d.omitted) = O
    BY <2>3, <2>8 DEF x
  <2>10. Len(d.admitted) + Len(d.omitted) = k
    BY <2>6, <2>8 DEF x
  <2> HIDE DEF A, O
  <2>11. Fits(d, r, k, S, budget)
    BY <1>12, <2>4, <2>5, <2>7, <2>8, <2>9, <2>10 DEF Fits
  <2> QED
    BY <1>3, <1>14, <2>11
<1> QED
  BY <1>3, <1>14, <1>15, <1>16

\* The loop's contexts follow one another: the function that defines them exists.
LEMMA RoundsFollow ==
  ASSUME NEW S, NEW budget, NEW n \in Nat, n = Cardinality(S)
  PROVE  Rounds(S, budget) =
           [i \in 0..n |-> IF i = 0 THEN [admitted |-> <<>>, omitted |-> <<>>]
                           ELSE Admit(Rounds(S, budget)[i - 1], Ranked(S)[i], budget)]
<1> DEFINE None == [admitted |-> <<>>, omitted |-> <<>>]
           Next1(c, i) == Admit(c, Ranked(S)[i], budget)
<1> HIDE DEF None, Next1
<1> DEFINE Follows(g, k) == g = [i \in 0..k |-> IF i = 0 THEN None ELSE Next1(g[i - 1], i)]
           Missing == {k \in Nat : ~\E g : Follows(g, k)}
<1>1. ASSUME NEW k \in Nat, NEW g, Follows(g, k) PROVE \E h : Follows(h, k + 1)
  <2> DEFINE h == [i \in 0..(k + 1) |-> IF i <= k THEN g[i] ELSE Next1(g[k], i)]
  <2>1. \A i \in 0..(k + 1) : i \in 0..k \/ i = k + 1
    OBVIOUS
  <2>2. \A i \in 0..k : h[i] = g[i]
    OBVIOUS
  <2>3. \A i \in 0..k : g[i] = IF i = 0 THEN None ELSE Next1(g[i - 1], i)
    BY <1>1
  <2>4. ASSUME NEW i \in 0..(k + 1)
        PROVE  h[i] = IF i = 0 THEN None ELSE Next1(h[i - 1], i)
    <3>1. CASE i = k + 1
      <4>1. h[i] = Next1(g[k], i) /\ i # 0 /\ i - 1 = k /\ k \in 0..k
        BY <3>1
      <4> HIDE DEF h
      <4> QED
        BY <2>2, <4>1
    <3>2. CASE i \in 0..k
      <4>1. i # 0 => i - 1 \in 0..k
        BY <3>2
      <4> HIDE DEF h
      <4> QED
        BY <2>2, <2>3, <3>2, <4>1
    <3> QED
      BY <2>1, <3>1, <3>2
  <2>5. h = [i \in 0..(k + 1) |-> h[i]]
    OBVIOUS
  <2> HIDE DEF h
  <2>6. h = [i \in 0..(k + 1) |-> IF i = 0 THEN None ELSE Next1(h[i - 1], i)]
    BY <2>4, <2>5
  <2> QED
    BY <2>6
<1>2. \E g : Follows(g, 0)
  <2>1. Follows([i \in 0..0 |-> None], 0)
    OBVIOUS
  <2> QED
    BY <2>1
<1> HIDE DEF Follows
<1>3. Missing = {}
  <2> SUFFICES ASSUME Missing # {} PROVE FALSE
    OBVIOUS
  <2>1. Missing \subseteq Nat
    OBVIOUS
  <2>2. PICK k \in Missing : \A y \in Missing : ~(<<y, k>> \in OpToRel(<, Nat))
    <3> HIDE DEF Missing
    <3> QED
      BY <2>1, NatLessThanWellFounded, WFMin
  <2>3. \A y \in Missing : ~(y < k)
    BY <2>1, <2>2, Zenon DEF OpToRel
  <2>4. k \in Nat /\ k # 0
    BY <1>2
  <2>5. k - 1 \in Nat /\ k - 1 < k /\ k - 1 + 1 = k
    BY <2>4
  <2>6. PICK g : Follows(g, k - 1)
    BY <2>3, <2>5
  <2>7. \E h : Follows(h, k - 1 + 1)
    BY <1>1, <2>5, <2>6
  <2> QED
    BY <2>5, <2>7
<1>4. \E g : Follows(g, n)
  BY <1>3
<1>5. Rounds(S, budget) = CHOOSE g : Follows(g, n)
  BY DEF Rounds, Follows, None, Next1
<1>6. Follows(Rounds(S, budget), n)
  BY <1>4, <1>5
<1> QED
  BY <1>6 DEF Follows, None, Next1

\* Compiling any part of the stored facts, with room for the mandatory part, fits.
LEMMA CompileFits ==
  ASSUME IInv, SInv, NEW S \in SUBSET stored, NEW budget \in Nat, Prompt <= budget
  PROVE  Fits(Compile(S, budget), Ranked(S), Cardinality(S), S, budget)
<1>1. PICK r : r = Ranked(S)
  OBVIOUS
<1>2. Lists(r, S)
  BY <1>1, RankedLists
<1>3. PICK n \in Nat : n = Cardinality(S)
  BY <1>2 DEF Lists
<1>4. PICK f : f = Rounds(S, budget)
  OBVIOUS
<1>5. f = [i \in 0..n |-> IF i = 0 THEN [admitted |-> <<>>, omitted |-> <<>>]
                          ELSE Admit(f[i - 1], r[i], budget)]
  BY <1>1, <1>3, <1>4, RoundsFollow
<1> DEFINE Wrong == {k \in 0..n : ~Fits(f[k], r, k, S, budget)}
<1>6. Wrong = {}
  <2> SUFFICES ASSUME Wrong # {} PROVE FALSE
    OBVIOUS
  <2>1. Wrong \subseteq Nat
    OBVIOUS
  <2>2. PICK k \in Wrong : \A y \in Wrong : ~(<<y, k>> \in OpToRel(<, Nat))
    <3> HIDE DEF Wrong
    <3> QED
      BY <2>1, NatLessThanWellFounded, WFMin
  <2>3. \A y \in Wrong : ~(y < k)
    BY <2>1, <2>2, Zenon DEF OpToRel
  <2>4. k # 0
    <3>1. PICK c : c = [admitted |-> <<>>, omitted |-> <<>>]
      OBVIOUS
    <3>2. f[0] = c
      BY <1>5, <3>1
    <3>3. /\ c \in [admitted : Seq(S), omitted : Seq(S)]
          /\ c.admitted = <<>> /\ c.omitted = <<>>
          /\ Len(c.admitted) + Len(c.omitted) = 0
      BY <3>1
    <3>4. ToSet(<<>>) = {}
      BY DEF ToSet
    <3>5. Tokens({}) = {}
      BY DEF Tokens
    <3>6. IsFiniteSet({}) /\ Cardinality({}) = 0
      BY FS_EmptySet
    <3>7. TokensOf({}) = Prompt
      BY <3>5, <3>6, ContextAssumption DEF TokensOf, Tokens
    <3>8. {r[i] : i \in 1..0} = {}
      OBVIOUS
    <3>9. Fits(c, r, 0, S, budget)
      BY <3>3, <3>4, <3>5, <3>6, <3>7, <3>8 DEF Fits
    <3> QED
      BY <3>2, <3>9
  <2>5. k \in 1..n /\ k - 1 \in 0..n /\ k - 1 < k
    BY <2>4
  <2>6. PICK c : c = f[k - 1]
    OBVIOUS
  <2>7. Fits(c, r, k - 1, S, budget)
    BY <2>3, <2>5, <2>6
  <2>8. f[k] = Admit(c, r[k], budget)
    BY <1>5, <2>4, <2>5, <2>6
  <2>9. Fits(Admit(c, r[k], budget), r, k, S, budget)
    BY <1>2, <1>3, <2>5, <2>7, AdmitFits
  <2> QED
    BY <2>8, <2>9
<1>7. Fits(f[n], r, n, S, budget)
  BY <1>6
<1> QED
  BY <1>1, <1>3, <1>4, <1>7 DEF Compile

LEMMA ContextsFit ==
  ASSUME IInv, SInv
  PROVE  ContextFits
<1> SUFFICES ASSUME NEW now \in 0..(MaxTick + 1), NEW room \in 0..(MaxFacts * 2)
             PROVE
      LET facts == ToSet(Query(now, MaxFacts))
          context == Compile(facts, Prompt + room)
          admitted == ToSet(context.admitted)
      IN  /\ TokensOf(admitted) <= Prompt + room
          /\ admitted \cup ToSet(context.omitted) = facts
          /\ Len(context.admitted \o context.omitted) = Cardinality(facts)
          /\ \A v \in ToSet(context.omitted) :
               TokensOf({u \in admitted : Before(u, v)}) + Cost[v] > Prompt + room
  BY DEF ContextFits
<1>1. PICK F : F = ToSet(Query(now, MaxFacts))
  OBVIOUS
<1>2. F \in SUBSET stored
  <2>1. now \in Nat /\ MaxFacts \in Nat
    BY KnowledgeAssumption
  <2>2. PICK S : S = {v \in Current : ~Expired(v, now)}
    OBVIOUS
  <2>3. Shows(Query(now, MaxFacts), Ranked(S), MaxFacts, S)
    BY <2>1, <2>2, QueryShows
  <2>4. Query(now, MaxFacts) \in Seq(S)
    BY <2>3 DEF Shows
  <2>5. F \in SUBSET S
    BY <1>1, <2>4 DEF ToSet
  <2> QED
    BY <2>2, <2>5 DEF Current
<1>3. PICK budget \in Nat : budget = Prompt + room
  BY ContextAssumption, KnowledgeAssumption
<1>4. Prompt <= budget
  BY <1>3, ContextAssumption, KnowledgeAssumption
<1>5. PICK c : c = Compile(F, budget)
  OBVIOUS
<1>6. PICK r : r = Ranked(F)
  OBVIOUS
<1>7. Fits(c, r, Cardinality(F), F, budget)
  BY <1>2, <1>4, <1>5, <1>6, CompileFits
<1>8. Lists(r, F)
  BY <1>2, <1>6, RankedLists
<1>9. F = {r[i] : i \in 1..Cardinality(F)}
  BY <1>8 DEF Lists
<1>10. PICK a \in Seq(F) : a = c.admitted
  BY <1>7 DEF Fits
<1>11. PICK o \in Seq(F) : o = c.omitted
  BY <1>7 DEF Fits
<1>12. Len(a \o o) = Len(a) + Len(o)
  OBVIOUS
<1>13. /\ Len(a) + Len(o) = Cardinality(F) /\ ToSet(a) \cup ToSet(o) = F
       /\ TokensOf(ToSet(a)) <= budget
       /\ \A v \in ToSet(o) : TokensOf({u \in ToSet(a) : Before(u, v)}) + Cost[v] > budget
  BY <1>7, <1>9, <1>10, <1>11 DEF Fits
<1> QED
  BY <1>1, <1>3, <1>5, <1>10, <1>11, <1>12, <1>13

\* Whatever was ingested, evicted and restored, a query shows the newest value of every
\* proposition or none, in one order, and leaves out only what ranks below all it shows
\* (knowledge.hpp:200-226); and a compiled context stays within its budget, reports every
\* fact once, and leaves out only facts there was no room for beside those that rank
\* before them (381-472), for every cost of a fact and every budget.
THEOREM ContextRight == Spec => []ContextSound
<1>1. Init => SInv
  BY InitBounded
<1>2. IInv /\ SInv /\ [Next]_vars => SInv'
  BY StepBounded
<1>3. IInv /\ SInv => ContextSound
  BY QueriesSound, ContextsFit DEF ContextSound
<1> QED
  BY <1>1, <1>2, <1>3, Invariance, PTL DEF Spec
=============================================================================
