----------------------------- MODULE DecisionGraph -----------------------------
(***************************************************************************)
(* jevt::decision_graph (src/include/jevt/graph.hpp): a graph of callbacks *)
(* that is put in topological order once, by its constructor, and then     *)
(* evaluated on one snapshot after the other.                              *)
(*                                                                         *)
(* Nodes are their indices in nodes_.  The constructor's loop over order_  *)
(* and the loop of evaluate() take one step per node; a callback takes a   *)
(* step of its own, so that the deadline may pass before, in or after it.  *)
(* Callbacks are external: they return or throw anything, outputs computed *)
(* from this snapshot or from an earlier one.  Snapshots are numbered.     *)
(* Outputs, messages and durations are left out.                           *)
(***************************************************************************)
EXTENDS Integers, SequencesExt

CONSTANTS
  N,             \* nodes_.size()
  Dependencies,  \* the dependencies of the nodes, in the graphs considered
  Demanding,     \* the nodes with require_successful_dependencies
  MaxSnapshot    \* bound: the evaluations of a graph

Nodes == 1..N

ASSUME GraphAssumption ==
  /\ N \in Nat /\ MaxSnapshot \in Nat /\ Demanding \subseteq Nodes
  /\ Dependencies \subseteq [Nodes -> SUBSET Nodes]

VARIABLES
  dependencies,  \* dependency_indices_
  order,         \* order_
  remaining, cursor,  \* locals of the constructor
  at,            \* "building", "refused", "ready", "visiting", "callback"
  snapshot,      \* the snapshot evaluated, or evaluated last
  expired,       \* its deadline has passed
  trace,         \* the status of the nodes recorded, and the snapshot of their output
  position       \* the place in order_ of the node being visited

graph == <<dependencies, order, remaining, cursor>>
vars == <<graph, at, snapshot, expired, trace, position>>

NoRecord == [status |-> "none", snapshot |-> 0]
Statuses == {"succeeded", "skipped", "error", "stale"}

\* The nodes of a set in the order of their indices.
InOrder(S) ==
  [i \in 1..Cardinality(S) |-> CHOOSE n \in S : Cardinality({m \in S : m <= n}) = i]

\* Dependencies that are missing or repeated are refused at once and not considered.
Init ==
  /\ dependencies \in Dependencies
  /\ remaining = [n \in Nodes |-> Cardinality(dependencies[n])]
  /\ order = InOrder({n \in Nodes : dependencies[n] = {}})
  /\ cursor = 1 /\ at = "building"
  /\ snapshot = 0 /\ expired = FALSE /\ position = 1
  /\ trace = [n \in Nodes |-> NoRecord]

-----------------------------------------------------------------------------
(* The constructor *)

Consumers(n) == {m \in Nodes : n \in dependencies[m]}

\* Mutant: a node is ordered when any of its dependencies has been.
OrderNextEach ==
  /\ at = "building" /\ cursor <= Len(order)
  /\ LET n == order[cursor]
         free == Consumers(n)
     IN  /\ remaining' = [m \in Nodes |->
              IF m \in Consumers(n) THEN remaining[m] - 1 ELSE remaining[m]]
         /\ order' = order \o InOrder(free)
  /\ cursor' = cursor + 1
  /\ UNCHANGED <<dependencies, at, snapshot, expired, trace, position>>

OrderNext ==
  /\ at = "building" /\ cursor <= Len(order)
  /\ LET n == order[cursor]
         free == {m \in Consumers(n) : remaining[m] = 1}
     IN  /\ remaining' = [m \in Nodes |->
              IF m \in Consumers(n) THEN remaining[m] - 1 ELSE remaining[m]]
         /\ order' = order \o InOrder(free)
  /\ cursor' = cursor + 1
  /\ UNCHANGED <<dependencies, at, snapshot, expired, trace, position>>

Built ==
  /\ at = "building" /\ cursor > Len(order)
  /\ at' = IF Len(order) = N THEN "ready" ELSE "refused"
  /\ UNCHANGED <<graph, snapshot, expired, trace, position>>

-----------------------------------------------------------------------------
(* evaluate *)

Evaluate ==
  /\ at = "ready" /\ snapshot < MaxSnapshot
  /\ snapshot' = snapshot + 1
  /\ expired' \in BOOLEAN
  /\ trace' = [n \in Nodes |-> NoRecord]
  /\ position' = 1
  /\ at' = IF N = 0 THEN "ready" ELSE "visiting"
  /\ UNCHANGED graph

\* The deadline passes.
Expire ==
  /\ at \in {"visiting", "callback"} /\ ~expired
  /\ expired' = TRUE
  /\ UNCHANGED <<graph, at, snapshot, trace, position>>

Visited == order[position]

Unavailable == {d \in dependencies[Visited] : trace[d].status # "succeeded"}

\* The node's record is added, and the next node is visited or the trace is returned.
Record(status, source) ==
  /\ trace' = [trace EXCEPT ![Visited] = [status |-> status, snapshot |-> source]]
  /\ at' = IF position = N THEN "ready" ELSE "visiting"
  /\ position' = position + 1

\* The deadline has passed, or a demanding node's first dependency that has not
\* succeeded decides: dependencies may be listed in any order.
Blocked ==
  /\ at = "visiting"
  /\ \/ expired /\ Record("stale", snapshot)
     \/ /\ ~expired /\ Visited \in Demanding
        /\ \E d \in Unavailable :
             Record(IF trace[d].status = "stale" THEN "stale" ELSE "skipped", snapshot)
  /\ UNCHANGED <<graph, snapshot, expired>>

\* The condition is true: the evaluator runs.
Run ==
  /\ at = "visiting" /\ ~expired
  /\ Visited \in Demanding => Unavailable = {}
  /\ at' = "callback"
  /\ UNCHANGED <<graph, snapshot, expired, trace, position>>

\* Mutant: a late result is not told from one in time.
StatusInTime(status, source) ==
  IF status = "succeeded" /\ source # snapshot THEN "stale" ELSE status

\* Mutant: a result of an earlier snapshot is taken.
StatusAnySource(status, source) ==
  IF status = "succeeded" /\ expired THEN "stale" ELSE status

\* A late success and one computed from another snapshot are stale.
StatusOf(status, source) ==
  IF status = "succeeded" /\ (expired \/ source # snapshot) THEN "stale" ELSE status

\* The condition is false, or the callback returns or throws.
Return(status, source) ==
  /\ at = "callback"
  /\ Record(StatusOf(status, source), source)
  /\ UNCHANGED <<graph, snapshot, expired>>

-----------------------------------------------------------------------------
Next ==
  \/ OrderNext \/ Built
  \/ Evaluate \/ Blocked \/ Run \/ Expire
  \/ \E status \in Statuses, source \in 1..snapshot : Return(status, source)

Spec == Init /\ [][Next]_vars

-----------------------------------------------------------------------------
(* Properties *)

TypeOK ==
  /\ dependencies \in Dependencies
  /\ order \in Seq(Nodes) /\ Len(order) <= N
  /\ remaining \in [Nodes -> 0..N] /\ cursor \in 1..(N + 1)
  /\ at \in {"building", "refused", "ready", "visiting", "callback"}
  /\ snapshot \in 0..MaxSnapshot /\ expired \in BOOLEAN
  /\ trace \in [Nodes -> [status : Statuses \cup {"none"}, snapshot : 0..MaxSnapshot]]
  /\ position \in 1..(N + 1)

\* Reference: some nodes depend on one another in a circle.
Cyclic ==
  \E S \in SUBSET Nodes \ {{}} : \A n \in S : dependencies[n] \cap S # {}

\* "Construction rejects ... cycles (including self-dependencies)" and nothing else, and
\* "registration order need not be topological": an accepted graph's order holds every
\* node once, behind its dependencies, so that evaluate() finds their records.
Topological ==
  /\ TypeOK
  /\ at = "refused" => Cyclic
  /\ at \notin {"building", "refused"} => Len(order) = N
  /\ IsInjective(order)
  /\ \A i \in DOMAIN order : dependencies[order[i]] \subseteq ToSet(SubSeq(order, 1, i - 1))

\* "Only succeeded is actionable": a success is of this snapshot, and so is, for a
\* demanding node, every success it rests on.
ActionableIsCurrent ==
  \A n \in Nodes : trace[n].status = "succeeded" =>
    /\ trace[n].snapshot = snapshot
    /\ n \in Demanding => \A d \in dependencies[n] : trace[d].status = "succeeded"

\* A consumer finds its dependencies' records, and they are of the same snapshot.
ResultsConsistent == Topological /\ ActionableIsCurrent

\* "Late outputs are stale": nothing starts and nothing succeeds once the deadline
\* has passed.
NothingAfterDeadline ==
  [][expired /\ snapshot' = snapshot =>
       /\ at' = "callback" => at = "callback"
       /\ \A n \in Nodes : trace'[n].status = "succeeded" => trace[n] = trace'[n]]_vars
=============================================================================
