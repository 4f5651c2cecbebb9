--------------------------- MODULE RevisionedCache ---------------------------
(***************************************************************************)
(* jevt::revisioned_cache (src/include/jevt/cache.hpp): a bounded LRU whose*)
(* tickets fence late asynchronous writes.                                 *)
(*                                                                         *)
(* Tasks are the asynchronous users: a task takes a ticket for the         *)
(* revisions it knows, prepares a value under them, and later reads or     *)
(* writes with that ticket, while other tasks move the revisions on.  Each *)
(* member function is one action (mutex_ is held throughout).  A value is  *)
(* the revision it was prepared under; entries_ and lru_ are the function  *)
(* entries and the recency sequence lru, front first.  The counters only   *)
(* stats() reads are left out; retained_bytes is not, eviction reads it.   *)
(***************************************************************************)
EXTENDS Integers, SequencesExt

CONSTANTS
  Tasks, Keys, Revisions,
  Sizes,          \* key.size() + value_bytes of the values put
  MaxEntries, MaxBytes,  \* cache_limits
  MaxTicket,      \* numeric_limits<ticket>::max()
  Lifetimes,      \* the ttls of put; beyond Horizon stands for duration::max()
  Horizon         \* bound: the clock stops here

Absent == [rev |-> 0, bytes |-> 0, expires |-> 0]
NoTask == [ticket |-> 0, rev |-> 0]

ASSUME CacheAssumption ==
  /\ Revisions \subseteq Nat \ {0} /\ Sizes \subseteq Nat \ {0}
  /\ Lifetimes \subseteq Nat \ {0} /\ Horizon \in Nat
  /\ MaxEntries \in Nat \ {0} /\ MaxBytes \in Nat \ {0}
  /\ MaxTicket \in Nat \ {0}

VARIABLES
  revisions, initialized, generation,   \* revisions_, initialized_, generation_
  entries, lru, retained_bytes,         \* entries_, lru_, counters_.retained_bytes
  now,                                  \* the clock callers pass
  task                                  \* a task's ticket and the revision it is for

vars == <<revisions, initialized, generation, entries, lru, retained_bytes, now, task>>
fence == <<revisions, initialized, generation>>
store == <<entries, lru, retained_bytes>>

Live == {k \in Keys : entries[k] # Absent}

Init ==
  /\ revisions = 0 /\ initialized = FALSE /\ generation = 0
  /\ entries = [k \in Keys |-> Absent] /\ lru = <<>> /\ retained_bytes = 0
  /\ now = 0
  /\ task = [t \in Tasks |-> NoTask]

-----------------------------------------------------------------------------
(* Revisions and tickets *)

ClearLocked ==
  /\ entries' = [k \in Keys |-> Absent]
  /\ lru' = <<>>
  /\ retained_bytes' = 0

\* advance_generation_locked: ticket 0 is never issued.
NextTicket == IF generation = MaxTicket THEN 1 ELSE generation + 1

\* Bound: no task still holds a ticket when the generation comes round to it.
NotRecycled == \A t \in Tasks : task[t].ticket # NextTicket

\* Mutant: coming back to revisions after invalidate() reuses their generation.
AdvanceReusing(t, r) ==
  /\ r # revisions \/ ~initialized
  /\ NotRecycled
  /\ ClearLocked
  /\ revisions' = r /\ initialized' = TRUE
  /\ generation' = IF initialized THEN NextTicket ELSE 1
  /\ task' = [task EXCEPT ![t] = [ticket |-> generation', rev |-> r]]
  /\ UNCHANGED now

\* advance() with revisions the cache has not got.
Advance(t, r) ==
  /\ r # revisions \/ ~initialized
  /\ NotRecycled
  /\ ClearLocked
  /\ revisions' = r /\ initialized' = TRUE
  /\ generation' = NextTicket
  /\ task' = [task EXCEPT ![t] = [ticket |-> NextTicket, rev |-> r]]
  /\ UNCHANGED now

\* advance() with the revisions the cache has: the ticket in force.
Join(t, r) ==
  /\ r = revisions /\ initialized
  /\ task' = [task EXCEPT ![t] = [ticket |-> generation, rev |-> r]]
  /\ UNCHANGED <<fence, store, now>>

Invalidate ==
  /\ NotRecycled
  /\ ClearLocked
  /\ initialized' = FALSE
  /\ generation' = NextTicket
  /\ UNCHANGED <<revisions, now, task>>

Done(t) ==
  /\ task[t] # NoTask
  /\ task' = [task EXCEPT ![t] = NoTask]
  /\ UNCHANGED <<fence, store, now>>

Tick ==
  /\ now < Horizon
  /\ now' = now + 1
  /\ UNCHANGED <<fence, store, task>>

-----------------------------------------------------------------------------
(* get *)

\* A stale ticket reads nothing and writes nothing.
Fenced(t) == ~initialized \/ task[t].ticket # generation

Hits(t, k) == ~Fenced(t) /\ k \in Live /\ now < entries[k].expires

GetExpired(t, k) ==
  /\ ~Fenced(t) /\ k \in Live /\ entries[k].expires <= now
  /\ retained_bytes' = retained_bytes - entries[k].bytes
  /\ lru' = RemoveFirst(lru, k)
  /\ entries' = [entries EXCEPT ![k] = Absent]
  /\ UNCHANGED <<fence, now, task>>

GetHit(t, k) ==
  /\ Hits(t, k)
  /\ lru' = <<k>> \o RemoveFirst(lru, k)
  /\ UNCHANGED <<fence, entries, retained_bytes, now, task>>

-----------------------------------------------------------------------------
(* put *)

\* The bytes retained for the keys in S, counted one by one; no entry has more than
\* MaxBytes.
BytesOf(S) == Cardinality({x \in S \X (1..MaxBytes) : x[2] <= entries[x[1]].bytes})

\* The eviction loop stops when the n most recent of the other entries leave room.
Fits(k, b, n) ==
  LET kept == SubSeq(RemoveFirst(lru, k), 1, n)
  IN  /\ n < MaxEntries
      /\ b <= MaxBytes - (retained_bytes - BytesOf(Live \ ToSet(kept)))

Kept(k, b) ==
  LET others == RemoveFirst(lru, k)
  IN  SubSeq(others, 1, Max({0} \cup {n \in 1..Len(others) : Fits(k, b, n)}))

\* Mutant: the bytes of a replaced entry stay counted.
PutLeaking(t, k, b, ttl) ==
  /\ ~Fenced(t) /\ b <= MaxBytes
  /\ LET kept == Kept(k, b)
     IN  /\ lru' = <<k>> \o kept
         /\ retained_bytes' =
              retained_bytes - BytesOf((Live \ {k}) \ ToSet(kept)) + b
         /\ entries' = [x \in Keys |->
              IF x = k THEN [rev |-> task[t].rev, bytes |-> b, expires |-> now + ttl]
              ELSE IF x \in ToSet(kept) THEN entries[x] ELSE Absent]
  /\ UNCHANGED <<fence, now, task>>

Put(t, k, b, ttl) ==
  /\ ~Fenced(t) /\ b <= MaxBytes
  /\ LET kept == Kept(k, b)
     IN  /\ lru' = <<k>> \o kept
         /\ retained_bytes' = retained_bytes - BytesOf(Live \ ToSet(kept)) + b
         /\ entries' = [x \in Keys |->
              IF x = k THEN [rev |-> task[t].rev, bytes |-> b, expires |-> now + ttl]
              ELSE IF x \in ToSet(kept) THEN entries[x] ELSE Absent]
  /\ UNCHANGED <<fence, now, task>>

\* Allocation fails after the evictions: nothing is inserted, the rest is kept.
PutThrows(t, k, b) ==
  /\ ~Fenced(t) /\ b <= MaxBytes
  /\ LET kept == Kept(k, b)
     IN  /\ lru' = kept
         /\ retained_bytes' = retained_bytes - BytesOf(Live \ ToSet(kept))
         /\ entries' = [x \in Keys |-> IF x \in ToSet(kept) THEN entries[x] ELSE Absent]
  /\ UNCHANGED <<fence, now, task>>

-----------------------------------------------------------------------------
Next ==
  \/ Invalidate \/ Tick
  \/ \E t \in Tasks :
       \/ Done(t)
       \/ \E r \in Revisions : Advance(t, r) \/ Join(t, r)
       \/ \E k \in Keys :
            \/ GetExpired(t, k) \/ GetHit(t, k)
            \/ \E b \in Sizes : PutThrows(t, k, b)
            \/ \E b \in Sizes, ttl \in Lifetimes : Put(t, k, b, ttl)

Spec == Init /\ [][Next]_vars

-----------------------------------------------------------------------------
(* Properties *)

TypeOK ==
  /\ revisions \in Revisions \cup {0} /\ initialized \in BOOLEAN
  /\ generation \in 0..MaxTicket
  /\ entries \in [Keys -> [rev : Nat, bytes : Nat, expires : Nat]]
  /\ lru \in Seq(Keys) /\ retained_bytes \in Int /\ now \in Nat
  /\ task \in [Tasks -> [ticket : 0..MaxTicket, rev : Revisions \cup {0}]]

\* "A ticket fences late asynchronous writes" (cache.hpp:43-46): a lookup that hits
\* returns a value prepared under the revisions its ticket was issued for, however
\* late values are written, revisions are moved on and brought back, or the
\* ticket counter wraps.
HitIsFresh ==
  \A t \in Tasks, k \in Keys : Hits(t, k) => entries[k].rev = task[t].rev

\* The map and the recency list hold the same keys, each once, within both limits,
\* and the byte count eviction relies on is the sum over the entries.
Consistent ==
  /\ TypeOK
  /\ ToSet(lru) = Live /\ Len(lru) = Cardinality(Live)
  /\ retained_bytes = BytesOf(Live)
  /\ Len(lru) <= MaxEntries /\ retained_bytes <= MaxBytes
=============================================================================
