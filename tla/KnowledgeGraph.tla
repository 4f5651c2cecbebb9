---------------------------- MODULE KnowledgeGraph ----------------------------
(***************************************************************************)
(* jevt::knowledge_graph (src/include/jevt/knowledge.hpp): a bounded store *)
(* of versioned facts fed by asynchronous completions.                     *)
(*                                                                         *)
(* The graph is not synchronised: one member function runs at a time, so   *)
(* each is one action.  What comes in any order are the completions that   *)
(* are ingested, the runs that begin, and the snapshots that are restored. *)
(* A version is what key() tells apart; the vector facts_ is the set of    *)
(* its versions, what each one holds, and the order they stand in.         *)
(* Priorities, expiries and texts are left out: no state depends on them;  *)
(* KnowledgeContext has what they order and filter.  Refused calls change  *)
(* nothing and are not actions.                                            *)
(***************************************************************************)
EXTENDS Integers, SequencesExt

CONSTANTS
  Runs, Ids, Objects, Events,
  Scope,     \* the knowledge_scope of an id
  MaxFacts,  \* knowledge_limits.facts
  MaxSeen,   \* knowledge_limits.deduplication_ids
  MaxTick,   \* bound: the ticks of the facts ingested
  Evidence,  \* bound: the kinds of evidence they come with
  Wrap       \* the width of generation_

NoRun == "no run"
NoRecord == [tick |-> 0, evidence |-> "none"]

Versions == Runs \X Ids \X Objects
Identity(v) == <<v[1], v[2]>>   \* identity_key
IsSession(v) == Scope[v[2]] = "session"

\* evidence_rank
Rank == [none |-> -1, model_hypothesis |-> 0, ram_observation |-> 1,
         verified_outcome |-> 2]

ASSUME KnowledgeAssumption ==
  /\ NoRun \notin Runs
  /\ Scope \in [Ids -> {"observation", "run", "session"}]
  /\ MaxFacts \in Nat \ {0} /\ MaxSeen \in Nat \ {0} /\ MaxTick \in Nat
  /\ Wrap \in Nat \ {0, 1} /\ Evidence \subseteq DOMAIN Rank \ {"none"}
  /\ IsFiniteSet(Versions)

VARIABLES
  run,         \* current_run_
  stored,      \* the versions in facts_
  record,      \* their tick and evidence
  older,       \* pairs of versions, the first before the second in facts_
  superseded,  \* superseded_
  seen,        \* event_order_ (and seen_events_, its set)
  generation,  \* generation_
  saved        \* a session_snapshot() the application keeps

content == <<stored, record, superseded>>
vars == <<run, content, older, seen, generation, saved>>

NoSnapshot == [stored |-> {}, record |-> [v \in Versions |-> NoRecord], older |-> {}]

Init ==
  /\ run = NoRun
  /\ stored = {} /\ superseded = {} /\ older = {}
  /\ record = [v \in Versions |-> NoRecord]
  /\ seen = <<>> /\ generation = 0
  /\ saved = NoSnapshot

-----------------------------------------------------------------------------
\* ++generation_
Bump == generation' = (generation + 1) % Wrap

Among(S) == {p \in older : p[1] \in S /\ p[2] \in S}
Only(S) == [v \in Versions |-> IF v \in S THEN record[v] ELSE NoRecord]

SameIdentity(v) == {u \in stored : Identity(u) = Identity(v)}
Temporary == {v \in stored : ~IsSession(v)}
Current == stored \ superseded

\* Mutant: a run begins without a new generation.
BeginRunQuietly(r, retain) ==
  LET kept == IF retain THEN stored \ Temporary ELSE {}
  IN  /\ run' = r
      /\ stored' = kept /\ record' = Only(kept) /\ older' = Among(kept)
      /\ superseded' = superseded \cap kept
      /\ seen' = <<>>
      /\ UNCHANGED <<generation, saved>>

\* Run and observation facts go, and session facts unless they are retained; the
\* events of the run that ends may be applied again.
BeginRun(r, retain) ==
  LET kept == IF retain THEN stored \ Temporary ELSE {}
  IN  /\ run' = r
      /\ stored' = kept /\ record' = Only(kept) /\ older' = Among(kept)
      /\ superseded' = superseded \cap kept
      /\ seen' = <<>>
      /\ IF kept = stored THEN UNCHANGED generation ELSE Bump
      /\ UNCHANGED saved

-----------------------------------------------------------------------------
(* ingest_record *)

Admissible(v, tick) ==
  /\ IsSession(v) \/ v[1] = run
  /\ \A u \in SameIdentity(v) : record[u].tick <= tick

\* The event is new, and the window of events slides over it.
Remember(e) ==
  /\ e \notin ToSet(seen)
  /\ seen' = IF Len(seen) < MaxSeen THEN Append(seen, e) ELSE Tail(Append(seen, e))

EvidenceOf(v, e) == IF Rank[e] >= Rank[record[v].evidence] THEN e ELSE record[v].evidence

Refresh(v, tick, e, ev) ==
  /\ v \in stored /\ Admissible(v, tick)
  /\ Remember(<<v[1], ev>>)
  /\ superseded' = (superseded \cup SameIdentity(v)) \ {v}
  /\ record' = [record EXCEPT ![v] = [tick |-> tick, evidence |-> EvidenceOf(v, e)]]
  /\ Bump
  /\ UNCHANGED <<run, stored, older, saved>>

\* The fact that makes room: the first that is not a session fact, or the first.
Evicted ==
  LET candidates == IF Temporary # {} THEN Temporary ELSE stored
  IN  IF Cardinality(stored) < MaxFacts THEN {}
      ELSE {v \in candidates : \A u \in candidates \ {v} : <<v, u>> \in older}

\* Mutant: the key of the evicted fact stays superseded.
InsertLeaving(v, tick, e, ev) ==
  /\ v \notin stored /\ Admissible(v, tick)
  /\ Remember(<<v[1], ev>>)
  /\ LET kept == stored \ Evicted
     IN  /\ stored' = kept \cup {v}
         /\ superseded' = superseded \cup SameIdentity(v)
         /\ record' = [Only(kept) EXCEPT ![v] = [tick |-> tick, evidence |-> e]]
         /\ older' = Among(kept) \cup (kept \X {v})
  /\ Bump
  /\ UNCHANGED <<run, saved>>

Insert(v, tick, e, ev) ==
  /\ v \notin stored /\ Admissible(v, tick)
  /\ Remember(<<v[1], ev>>)
  /\ LET kept == stored \ Evicted
     IN  /\ stored' = kept \cup {v}
         /\ superseded' = (superseded \cup SameIdentity(v)) \cap kept
         /\ record' = [Only(kept) EXCEPT ![v] = [tick |-> tick, evidence |-> e]]
         /\ older' = Among(kept) \cup (kept \X {v})
  /\ Bump
  /\ UNCHANGED <<run, saved>>

-----------------------------------------------------------------------------
(* Snapshots *)

\* Mutant: a snapshot holds the superseded versions too.
SessionFactsAll == {v \in stored : IsSession(v)}

SessionFacts == {v \in Current : IsSession(v)}

\* session_snapshot(), kept by the application.
Save ==
  /\ saved' = [stored |-> SessionFacts, record |-> Only(SessionFacts),
               older  |-> Among(SessionFacts)]
  /\ UNCHANGED <<run, content, older, seen, generation>>

\* The checks of restore_session_snapshot, all of them before anything changes.
Accepts(S) ==
  /\ run # NoRun
  /\ Cardinality(S) + Cardinality(Temporary) <= MaxFacts
  /\ \A u, v \in S : Identity(u) = Identity(v) => u = v

Restore ==
  /\ Accepts(saved.stored)
  /\ stored' = Temporary \cup saved.stored
  /\ record' = [v \in Versions |->
       IF v \in saved.stored THEN saved.record[v] ELSE Only(Temporary)[v]]
  /\ older' = Among(Temporary) \cup (Temporary \X saved.stored) \cup saved.older
  /\ superseded' = superseded \cap Temporary
  /\ Bump
  /\ UNCHANGED <<run, seen, saved>>

\* clear(), and a fresh process that has the snapshot.
Clear ==
  /\ run' = NoRun
  /\ stored' = {} /\ superseded' = {} /\ older' = {}
  /\ record' = [v \in Versions |-> NoRecord]
  /\ seen' = <<>>
  /\ Bump
  /\ UNCHANGED saved

-----------------------------------------------------------------------------
Next ==
  \/ \E r \in Runs, retain \in BOOLEAN : BeginRun(r, retain)
  \/ \E v \in Versions, tick \in 0..MaxTick, e \in Evidence, ev \in Events :
       Refresh(v, tick, e, ev) \/ Insert(v, tick, e, ev)
  \/ Save \/ Restore \/ Clear

Spec == Init /\ [][Next]_vars

-----------------------------------------------------------------------------
(* Properties *)

TypeOK ==
  /\ run \in Runs \cup {NoRun}
  /\ stored \subseteq Versions /\ superseded \subseteq Versions
  /\ older \subseteq Versions \X Versions
  /\ record \in [Versions -> [tick : Nat, evidence : DOMAIN Rank]]
  /\ seen \in Seq(Runs \X Events) /\ generation \in 0..(Wrap - 1)
  /\ saved \in [stored : SUBSET Versions, older : SUBSET (Versions \X Versions),
                record : [Versions -> [tick : Nat, evidence : DOMAIN Rank]]]

\* At most one version of a proposition is current, whatever versions come, come
\* back (A -> B -> A), are evicted or restored: active context never shows two
\* values of one fact.
OneCurrentVersion ==
  \A u, v \in Current : Identity(u) = Identity(v) => u = v

\* superseded_ and facts_ do not drift apart: a key is superseded only while its
\* version is stored, so a version that is stored anew is never born superseded.
NothingDangles ==
  /\ superseded \subseteq stored
  /\ \A v \in stored : ~IsSession(v) => v[1] = run
  /\ \A v \in Versions : record[v] = NoRecord <=> v \notin stored

\* "Never let an older tick supersede a newer value for the same logical fact":
\* the current version is at least as recent as every superseded one.
NewestIsCurrent ==
  \A v \in Current : \A u \in SameIdentity(v) : record[u].tick <= record[v].tick

\* What active context can show is right: one value of a fact, the newest one, and no
\* mark left over from a fact that is gone.
FactsConsistent == NothingDangles /\ OneCurrentVersion /\ NewestIsCurrent

\* "Storage is bounded", the deduplication window too, and it holds an event once.
StorageBounded ==
  /\ Cardinality(stored) <= MaxFacts
  /\ Len(seen) <= MaxSeen /\ IsInjective(seen)

\* A snapshot the graph hands out can be restored into it: none of the checks of
\* restore_session_snapshot refuses what session_snapshot returned, its limit included.
SnapshotRestorable ==
  /\ TypeOK /\ StorageBounded
  /\ run # NoRun => Accepts(SessionFacts)

\* generation() moves with every change of what a query can return, so a cache
\* keyed by it is never stale.
GenerationMoves == [][UNCHANGED content \/ generation' # generation]_vars
=============================================================================
