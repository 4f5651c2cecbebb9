--------------------------- MODULE BoundedExecutor ---------------------------
(***************************************************************************)
(* What batching_backend promises its callers, with no worker, batch,      *)
(* delay or counter in sight (include/jevt/batching.hpp, docs/BATCHING.md):*)
(* calls are admitted or refused whole, an admitted row is answered exactly*)
(* once, a call returns its first failure in caller order, and shutdown    *)
(* returns only when everything admitted has been answered.                *)
(***************************************************************************)
EXTENDS Integers, FiniteSets

CONSTANTS Calls, Callbacks, Width, Closers,
          Capacity,  \* rows that can always wait
          Limit      \* rows that can be unanswered at once

VARIABLES pending,   \* admitted rows without an answer
          outcome, reply, dead, open, drained

RowsOf(c) == {c} \X (1..Width[c])
Rows == UNION {RowsOf(c) : c \in Calls}
None == "none"
Refusals == {"overloaded", "shutting_down"}
Results == {"ok", "cancelled", "timeout", "error", "invalid_backend_output",
            "backend_failure"}

Init ==
  /\ pending = {} /\ dead = {} /\ open = TRUE /\ drained = {}
  /\ outcome = [r \in Rows |-> None]
  /\ reply = [c \in Calls |-> None]

Called(c) == reply' = [reply EXCEPT ![c] = IF c \in Callbacks THEN "detached" ELSE "pending"]

Admit(c) ==
  /\ reply[c] = None /\ open
  /\ Cardinality(pending) + Width[c] <= Limit
  /\ pending' = pending \cup RowsOf(c)
  /\ Called(c)
  /\ UNCHANGED <<outcome, dead, open, drained>>

\* Overload is real: a call that fits beside what is unanswered is admitted.
Refuse(c) ==
  /\ reply[c] = None
  /\ \E o \in Refusals :
       /\ IF o = "overloaded" THEN open /\ Cardinality(pending) + Width[c] > Capacity
                              ELSE ~open
       /\ outcome' = [r \in Rows |-> IF r \in RowsOf(c) THEN o ELSE outcome[r]]
  /\ Called(c)
  /\ UNCHANGED <<pending, dead, open, drained>>

\* The caller gives up on a row: cancellation or deadline.
GiveUp(r) ==
  /\ r \in Rows \ dead
  /\ dead' = dead \cup {r}
  /\ UNCHANGED <<pending, outcome, reply, open, drained>>

Answer(r) ==
  /\ r \in pending
  /\ \E o \in Results :
       /\ IF r \in dead THEN o \in {"cancelled", "timeout"}
                        ELSE o \notin {"cancelled", "timeout"}
       /\ outcome' = [outcome EXCEPT ![r] = o]
  /\ pending' = pending \ {r}
  /\ UNCHANGED <<reply, dead, open, drained>>

Return(c) ==
  /\ reply[c] = "pending" /\ RowsOf(c) \cap pending = {}
  /\ LET failed == {i \in 1..Width[c] : outcome[<<c, i>>] # "ok"}
     IN  reply' = [reply EXCEPT ![c] =
           IF failed = {} THEN "ok"
           ELSE outcome[<<c, CHOOSE i \in failed : \A j \in failed : i <= j>>]]
  /\ UNCHANGED <<pending, outcome, dead, open, drained>>

Close ==
  /\ open' = FALSE
  /\ UNCHANGED <<pending, outcome, reply, dead, drained>>

Drained(k) ==
  /\ ~open /\ pending = {}
  /\ drained' = drained \cup {k}
  /\ UNCHANGED <<pending, outcome, reply, dead, open>>

Next ==
  \/ \E c \in Calls : Admit(c) \/ Refuse(c) \/ Return(c)
  \/ \E r \in Rows : GiveUp(r) \/ Answer(r)
  \/ Close
  \/ \E k \in Closers : Drained(k)

vars == <<pending, outcome, reply, dead, open, drained>>
Spec == Init /\ [][Next]_vars
=============================================================================
