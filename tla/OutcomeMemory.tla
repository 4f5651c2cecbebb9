---------------------------- MODULE OutcomeMemory ----------------------------
(***************************************************************************)
(* jevt::experience::outcome_memory (src/include/jevt/experience.hpp):     *)
(* what came of attempts, counted per context, in bounded space.  It has   *)
(* no lock and one owner, so record() is one action.  Classes of failures  *)
(* are counted like failures and left out.                                 *)
(***************************************************************************)
EXTENDS Integers, SequencesExt

CONSTANTS
  Capacity,   \* capacity_
  Window,     \* how many attempts seen_ holds: capacity_ * 4 in the code
  MaxLabels   \* bound: how many labels are counted

ASSUME MemoryAssumption ==
  Capacity \in Nat \ {0} /\ Window \in Nat \ {0} /\ MaxLabels \in Nat

Outcome == {"succeeded", "failed", "unknown"}
NoEvidenceYet == [o \in Outcome |-> 0]

VARIABLES
  records, insertion_order, seen,  \* records_, insertion_order_, seen_
  labels                           \* history: the labels counted, in their order

memory == <<records, insertion_order, seen, labels>>

MemoryInit == records = <<>> /\ insertion_order = <<>> /\ seen = <<>> /\ labels = <<>>

-----------------------------------------------------------------------------
\* Mutant: an attempt is known by its context, too.
DuplicateLabel(c, a) ==
  \E i \in DOMAIN labels : labels[i].context = c /\ labels[i].attempt = a /\ Contains(seen, a)

Duplicate(c, a) == Contains(seen, a)

Remembered(a) ==
  IF Len(seen) + 1 > Window THEN Tail(Append(seen, a)) ELSE Append(seen, a)

\* Mutant: room is made one context too late.
OrderOneMore(c) ==
  IF c \in DOMAIN records THEN insertion_order
  ELSE Append(IF Cardinality(DOMAIN records) > Capacity THEN Tail(insertion_order)
              ELSE insertion_order, c)

\* The contexts kept when c is recorded: the first one gives way when there are too many.
Order(c) ==
  IF c \in DOMAIN records THEN insertion_order
  ELSE Append(IF Cardinality(DOMAIN records) >= Capacity THEN Tail(insertion_order)
              ELSE insertion_order, c)

\* record() that returns true; false changes nothing.
Label(c, a, o) ==
  /\ ~Duplicate(c, a)
  /\ Len(labels) < MaxLabels
  /\ seen' = Remembered(a)
  /\ insertion_order' = Order(c)
  /\ records' = [x \in ToSet(Order(c)) |->
       LET kept == IF x \in DOMAIN records THEN records[x] ELSE NoEvidenceYet
       IN  IF x = c THEN [kept EXCEPT ![o] = @ + 1] ELSE kept]
  /\ labels' = Append(labels, [context |-> c, attempt |-> a, outcome |-> o])

\* clear()
Forget == records' = <<>> /\ insertion_order' = <<>> /\ seen' = <<>> /\ labels' = <<>>

-----------------------------------------------------------------------------
(* Properties *)

\* "One completed attempt contributes at most one label within the bounded
\* deduplication window" (experience.hpp), whatever context a repeated report names.
LabelledOnce ==
  \A i, j \in DOMAIN labels :
    i < j /\ labels[i].attempt = labels[j].attempt => j - i > Window

\* Map and order hold the same contexts, no more than capacity, and the evidence of a
\* context is made of its most recent labels: of all since it was inserted, and the
\* order of insertion is that of the oldest label counted.
RecordsAgree ==
  LET Total(c) == records[c]["succeeded"] + records[c]["failed"] + records[c]["unknown"]
      Of(c) == {i \in DOMAIN labels : labels[i].context = c}
      Counted(c) == {i \in Of(c) : Cardinality({j \in Of(c) : j >= i}) <= Total(c)}
  IN  /\ IsInjective(insertion_order) /\ ToSet(insertion_order) = DOMAIN records
      /\ Cardinality(DOMAIN records) <= Capacity
      /\ \A c \in DOMAIN records :
           /\ Total(c) \in 1..Cardinality(Of(c))
           /\ \A o \in Outcome :
                records[c][o] = Cardinality({i \in Counted(c) : labels[i].outcome = o})
      /\ \A k \in 1..(Len(insertion_order) - 1) :
           Min(Counted(insertion_order[k])) < Min(Counted(insertion_order[k + 1]))
=============================================================================
