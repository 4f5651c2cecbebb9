------------------------------ MODULE Diagnostics ------------------------------
(***************************************************************************)
(* jevt::Diagnostics (src/src/diagnostics.cpp): counters, a latency        *)
(* histogram per decision and a sample of recent calls.                    *)
(*                                                                         *)
(* mutex is held throughout record_call() and reset(), so each is one      *)
(* action; record_call() may be cut short by a failing allocation, and     *)
(* what it did before stays.  snapshot() holds it too and reads one state. *)
(* Latencies are integers in units the bounds share.  Means, tags,         *)
(* wall-clock times and the layout of the JSON and Prometheus texts are    *)
(* left out.                                                               *)
(***************************************************************************)
EXTENDS Integers, SequencesExt

CONSTANTS
  Decisions,
  MaxDecisions, RecentCapacity, SampleEvery,  \* DiagnosticsOptions
  Bounds,      \* histogram_bounds_ms
  Latencies,   \* what a clock may measure
  MaxCalls     \* bound: the calls recorded between resets

ASSUME DiagnosticsAssumption ==
  /\ MaxDecisions \in Nat /\ RecentCapacity \in Nat /\ SampleEvery \in Nat
  /\ Bounds \in Seq(Nat \ {0}) /\ Bounds # <<>>
  /\ \A i, j \in DOMAIN Bounds : i < j => Bounds[i] < Bounds[j]
  /\ Latencies \subseteq Int /\ MaxCalls \in Nat

CallOutcome == {"success", "error", "abstain"}
Buckets == 1..(Len(Bounds) + 1)   \* the last one is for what exceeds every bound

VARIABLES
  total, decisions, recent, dropped_decisions,
  log          \* history: the calls of this reset window and how far each was recorded

diagnostics == <<total, decisions, recent, dropped_decisions, log>>

NoCalls == [calls |-> 0, outcomes |-> [o \in CallOutcome |-> 0], max |-> 0, tokens |-> 0,
            buckets |-> [b \in Buckets |-> 0]]

DiagnosticsInit ==
  /\ total = NoCalls /\ decisions = <<>> /\ recent = <<>> /\ dropped_decisions = 0
  /\ log = <<>>

-----------------------------------------------------------------------------
(* record_call *)

Larger(a, b) == IF a < b THEN b ELSE a

\* lower_bound: the first bucket whose bound is not below the latency.
BucketOf(latency) == 1 + Cardinality({i \in DOMAIN Bounds : Bounds[i] < latency})

Update(c, outcome, latency, tokens) ==
  [calls    |-> c.calls + 1,
   outcomes |-> [c.outcomes EXCEPT ![outcome] = @ + 1],
   max      |-> Larger(c.max, latency),
   tokens   |-> c.tokens + tokens,
   buckets  |-> [c.buckets EXCEPT ![BucketOf(latency)] = @ + 1]]

Tracked(d) == d \in DOMAIN decisions
HasRoom == Cardinality(DOMAIN decisions) < MaxDecisions

\* Mutant: the first call of a decision is not in its counters.
CountDecisionLate(d, outcome, latency, tokens) ==
  decisions' = [x \in DOMAIN decisions \cup {d} |->
    IF x # d THEN decisions[x]
    ELSE IF Tracked(d) THEN Update(decisions[d], outcome, latency, tokens) ELSE NoCalls]

CountDecision(d, outcome, latency, tokens) ==
  decisions' = [x \in DOMAIN decisions \cup {d} |->
    IF x # d THEN decisions[x]
    ELSE Update(IF Tracked(d) THEN decisions[d] ELSE NoCalls, outcome, latency, tokens)]

\* Calls 1, 1 + N, 1 + 2N, ... of the window are retained.
Sampled == RecentCapacity # 0 /\ SampleEvery # 0 /\ total.calls % SampleEvery = 0

\* Mutant: the ring is full one call late.
RetainOneMore(call) ==
  LET kept == <<call>> \o recent
  IN  recent' = IF Len(recent) > RecentCapacity THEN Front(kept) ELSE kept

Retain(call) ==
  LET kept == <<call>> \o recent
  IN  recent' = IF Len(kept) > RecentCapacity THEN Front(kept) ELSE kept

\* Where it stops: "total" when the decision's counters cannot be allocated, "decision"
\* when the retained call cannot, else "all" of it is done.
Record(d, outcome, measured, tokens, reach) ==
  LET latency == Larger(0, measured)
  IN  /\ reach = "total" => ~Tracked(d) /\ HasRoom
      /\ reach = "decision" => Sampled
      /\ total' = Update(total, outcome, latency, tokens)
      /\ IF reach # "total" /\ (Tracked(d) \/ HasRoom)
         THEN CountDecision(d, outcome, latency, tokens)
         ELSE UNCHANGED decisions
      /\ dropped_decisions' = dropped_decisions + (IF Tracked(d) \/ HasRoom THEN 0 ELSE 1)
      /\ IF reach = "all" /\ Sampled
         THEN Retain([sequence |-> total'.calls, decision |-> d, outcome |-> outcome])
         ELSE UNCHANGED recent
      /\ log' = Append(log, [decision |-> d, outcome |-> outcome, latency |-> latency,
                             reach |-> reach])

Reset ==
  /\ total' = NoCalls /\ decisions' = <<>> /\ recent' = <<>> /\ dropped_decisions' = 0
  /\ log' = <<>>

-----------------------------------------------------------------------------
(* percentile, make_snapshot, to_prometheus *)

\* ceil(quantile * calls), the quantile in per cent.
Rank(q, calls) == (q * calls + 99) \div 100

\* The running count of the calls up to each bucket.
Cumulative(counts) ==
  LET upTo[b \in 0..(Len(Bounds) + 1)] == IF b = 0 THEN 0 ELSE upTo[b - 1] + counts[b]
  IN  upTo

\* Mutant: the rank is rounded down.
PercentileFloor(c, q) ==
  LET reached == {b \in Buckets : Cumulative(c.buckets)[b] >= (q * c.calls) \div 100}
  IN  IF c.calls = 0 THEN 0
      ELSE IF Min(reached) \in DOMAIN Bounds THEN Bounds[Min(reached)] ELSE c.max

\* The bound of the bucket the rank falls into; the maximum stands for the last.
Percentile(c, q) ==
  LET reached == {b \in Buckets : Cumulative(c.buckets)[b] >= Rank(q, c.calls)}
  IN  IF c.calls = 0 THEN 0
      ELSE IF Min(reached) \in DOMAIN Bounds THEN Bounds[Min(reached)] ELSE c.max

Quantiles == {50, 95, 99}

\* make_snapshot, of which percentiles and histogram are more than copies.
Stats(c) ==
  [calls   |-> c.calls, outcomes |-> c.outcomes, tokens |-> c.tokens,
   latency |-> [q \in Quantiles |-> Percentile(c, q)], counts |-> c.buckets]

Snapshot ==
  [total |-> Stats(total), decisions |-> [d \in DOMAIN decisions |-> Stats(decisions[d])],
   recent_calls |-> recent, dropped_decisions |-> dropped_decisions]

\* The buckets to_prometheus labels with their bounds, and the last one with +Inf.
Exported(s) == [b \in Buckets |-> Cumulative(s.counts)[b]]

-----------------------------------------------------------------------------
(* Properties *)

\* What counters c are of, as a set of positions in the log.
Summarises(c, calls) ==
  /\ c.calls = Cardinality(calls)
  /\ \A o \in CallOutcome : c.outcomes[o] = Cardinality({i \in calls : log[i].outcome = o})
  /\ \A b \in Buckets :
       c.buckets[b] = Cardinality({i \in calls : BucketOf(log[i].latency) = b})
  /\ \A i \in calls : log[i].latency <= c.max

Of(d) == {i \in DOMAIN log : log[i].decision = d /\ log[i].reach # "total"}

\* "Call counts and histogram bucket counts include every recorded call", "the same
\* counters grouped by decision ID", snapshots "are internally consistent"
\* (docs/OBSERVABILITY.md): whatever recorders, resets and failing allocations
\* interleave, the total and each decision's counters are of the calls of this window,
\* and a call that is in no decision's is counted as dropped or threw.
CountersTrue ==
  /\ Summarises(total, DOMAIN log)
  /\ \A d \in DOMAIN decisions : Summarises(decisions[d], Of(d))
  /\ Cardinality(DOMAIN decisions) <= MaxDecisions
  /\ dropped_decisions
       = Cardinality(UNION {Of(d) : d \in Decisions \ DOMAIN decisions})

\* Reference: the call of rank ceil(q * n) among the latencies.
NearestRank(calls, q) ==
  Min({log[i].latency : i \in {j \in calls :
         Cardinality({k \in calls : log[k].latency <= log[j].latency})
           >= Rank(q, Cardinality(calls))}})

Conservative(s, calls) ==
  /\ \A q \in Quantiles : calls # {} => s.latency[q] >= NearestRank(calls, q)
  /\ \A p, q \in Quantiles : p <= q => s.latency[p] <= s.latency[q]

\* "These conservative estimates": a percentile never understates the one of the calls
\* recorded, and a higher percentile is never the smaller number; the buckets exported
\* count the calls up to their label, a latency equal to it included, and end with all.
PercentilesConservative ==
  /\ Conservative(Snapshot.total, DOMAIN log)
  /\ \A d \in DOMAIN Snapshot.decisions : Conservative(Snapshot.decisions[d], Of(d))
  /\ \A b \in Buckets :
       Exported(Snapshot.total)[b]
         = Cardinality({i \in DOMAIN log : b \in DOMAIN Bounds => log[i].latency <= Bounds[b]})

\* "Retain calls 1, 1 + N, 1 + 2N, ... in each reset window", newest first, at most
\* recent_capacity of them.
RecentSampled ==
  LET due == {i \in DOMAIN log : /\ SampleEvery # 0 /\ log[i].reach = "all"
                                 /\ (i - 1) % SampleEvery = 0}
      newest == {i \in due : Cardinality({j \in due : j > i}) < RecentCapacity}
  IN  /\ {recent[k].sequence : k \in DOMAIN recent} = newest
      /\ \A k \in DOMAIN recent : recent[k].outcome = log[recent[k].sequence].outcome
      /\ \A j, k \in DOMAIN recent : j < k => recent[j].sequence > recent[k].sequence

\* What an operator reads, counters, percentiles and samples, is of the same calls.
StatsTrue == CountersTrue /\ PercentilesConservative /\ RecentSampled
=============================================================================
