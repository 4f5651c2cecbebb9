------------------------------- MODULE Evaluation -------------------------------
(***************************************************************************)
(* Evaluations that are recorded: bound_decision::choose and               *)
(* bound_predicate::evaluate (src/include/jevt/runtime.hpp), and           *)
(* bound_system_one::evaluate (src/include/jevt/system_one.hpp), called    *)
(* from several threads that share a Diagnostics.                          *)
(*                                                                         *)
(* The first two ask predict() for one row, the last predict_batch() for a *)
(* row per field.  A row is invalid (its size, a negative or non-finite    *)
(* score, no mass), below the threshold or above it, and points to a usage *)
(* report that other rows may share.  The backend is external: it answers  *)
(* with an error, with rows (predict_batch() maybe too few or too many) or *)
(* throws.                                                                 *)
(***************************************************************************)
EXTENDS Diagnostics

CONSTANTS
  Evaluators,
  Models,    \* the decisions that System One models make
  Fields,    \* how many rows a decision asks for
  Tokens,    \* the tokens of each usage report
  NoReport, Unset

Rows == [kind : {"invalid", "unsure", "sure"}, report : DOMAIN Tokens \cup {NoReport}]

ASSUME EvaluationAssumption ==
  /\ Models \subseteq Decisions /\ Fields \in [Decisions -> Nat \ {0}]
  /\ \A d \in Decisions \ Models : Fields[d] = 1
  /\ \A r \in DOMAIN Tokens : Tokens[r] \in Nat
  /\ NoReport \notin DOMAIN Tokens /\ Unset \notin Decisions

VARIABLES
  stage, decision, stopped,  \* of an evaluation; stopped: cancelled or past its deadline
  outcome,     \* what is recorded
  usage,       \* the local of that name
  reports,     \* history: the reports its response had
  late,        \* history: it was stopped when the backend returned
  consumed     \* history: the reports of each call in the log

evaluations == <<stage, decision, stopped, outcome, usage, reports, late>>
evaluation_vars == <<diagnostics, evaluations, consumed>>

EvaluationInit ==
  /\ DiagnosticsInit
  /\ stage = [e \in Evaluators |-> "idle"] /\ decision = [e \in Evaluators |-> Unset]
  /\ stopped = [e \in Evaluators |-> FALSE]
  /\ outcome = [e \in Evaluators |-> Unset] /\ usage = [e \in Evaluators |-> 0]
  /\ reports = [e \in Evaluators |-> {}] /\ late = [e \in Evaluators |-> FALSE]
  /\ consumed = <<>>

-----------------------------------------------------------------------------
Conclude(e, what, tokens) ==
  /\ stage' = [stage EXCEPT ![e] = "record"]
  /\ outcome' = [outcome EXCEPT ![e] = what]
  /\ usage' = [usage EXCEPT ![e] = tokens]

\* The call, as far as its first execution_error; it may be made with a token that is
\* stopped already.
Call(e, d) ==
  /\ stage[e] = "idle"
  /\ Len(log) + Cardinality({f \in Evaluators : stage[f] # "idle"}) < MaxCalls
  /\ decision' = [decision EXCEPT ![e] = d]
  /\ \E s \in BOOLEAN :
       /\ stopped' = [stopped EXCEPT ![e] = s]
       /\ IF s THEN Conclude(e, "error", 0)
          ELSE stage' = [stage EXCEPT ![e] = "predict"] /\ UNCHANGED <<outcome, usage>>
  /\ UNCHANGED <<diagnostics, reports, late, consumed>>

Stop(e) ==
  /\ stage[e] = "predict" /\ ~stopped[e]
  /\ stopped' = [stopped EXCEPT ![e] = TRUE]
  /\ UNCHANGED <<diagnostics, stage, decision, outcome, usage, reports, late, consumed>>

\* The call is over; what it held is gone.
Leave(e) ==
  /\ stage' = [stage EXCEPT ![e] = "idle"] /\ decision' = [decision EXCEPT ![e] = Unset]
  /\ stopped' = [stopped EXCEPT ![e] = FALSE]
  /\ outcome' = [outcome EXCEPT ![e] = Unset] /\ usage' = [usage EXCEPT ![e] = 0]
  /\ reports' = [reports EXCEPT ![e] = {}] /\ late' = [late EXCEPT ![e] = FALSE]

Reports(rows) == {rows[i].report : i \in DOMAIN rows} \ {NoReport}

\* Mutant: a report several rows share is counted for each of them.
UsageOfEach(rows) ==
  LET sum[i \in 0..Len(rows)] ==
        IF i = 0 THEN 0
        ELSE IF rows[i].report = NoReport THEN sum[i - 1]
        ELSE sum[i - 1] + Tokens[rows[i].report]
  IN  sum[Len(rows)]

\* A report is added the first time one of the rows points to it.
UsageOf(rows) ==
  LET sum[i \in 0..Len(rows)] ==
        IF i = 0 THEN 0
        ELSE IF rows[i].report \in {NoReport} \cup {rows[j].report : j \in 1..(i - 1)}
        THEN sum[i - 1]
        ELSE sum[i - 1] + Tokens[rows[i].report]
  IN  sum[Len(rows)]

OutcomeOf(d, isStopped, rows) ==
  IF \/ isStopped \/ Len(rows) # Fields[d]
     \/ \E i \in DOMAIN rows : rows[i].kind = "invalid"
  THEN "error"
  ELSE IF \E i \in DOMAIN rows : rows[i].kind = "unsure" THEN "abstain" ELSE "success"

Answers(d) == IF d \in Models THEN SeqOf(Rows, Fields[d] + 1) ELSE [1..1 -> Rows]

\* predict() or predict_batch() returns rows, and they are judged; the caller may cancel,
\* or the deadline pass, before execution_error looks again.
PredictRows(e) ==
  /\ stage[e] = "predict"
  /\ \E rows \in Answers(decision[e]), now \in {stopped[e], TRUE} :
       /\ Conclude(e, OutcomeOf(decision[e], now, rows), UsageOf(rows))
       /\ reports' = [reports EXCEPT ![e] = Reports(rows)]
  /\ late' = [late EXCEPT ![e] = stopped[e]]
  /\ UNCHANGED <<diagnostics, decision, stopped, consumed>>

\* It returns an error.
PredictFails(e) ==
  /\ stage[e] = "predict"
  /\ Conclude(e, "error", 0)
  /\ late' = [late EXCEPT ![e] = stopped[e]]
  /\ UNCHANGED <<diagnostics, decision, stopped, reports, consumed>>

\* It throws: the exception passes through and nothing is recorded.
PredictThrows(e) ==
  /\ stage[e] = "predict"
  /\ Leave(e)
  /\ UNCHANGED <<diagnostics, consumed>>

\* record() and the return that follows it.
Finish(e) ==
  /\ stage[e] = "record"
  /\ \E l \in Latencies, reach \in {"total", "decision", "all"} :
       Record(decision[e], outcome[e], l, usage[e], reach)
  /\ consumed' = Append(consumed, reports[e])
  /\ Leave(e)

Clear == Reset /\ consumed' = <<>> /\ UNCHANGED evaluations

EvaluationNext ==
  \/ Clear
  \/ \E e \in Evaluators :
       \/ \E d \in Decisions : Call(e, d)
       \/ Stop(e) \/ PredictRows(e) \/ PredictFails(e) \/ PredictThrows(e) \/ Finish(e)

EvaluationSpec == EvaluationInit /\ [][EvaluationNext]_evaluation_vars

-----------------------------------------------------------------------------
(* Properties *)

EvaluationTypeOK ==
  /\ stage \in [Evaluators -> {"idle", "predict", "record"}]
  /\ decision \in [Evaluators -> Decisions \cup {Unset}]
  /\ stopped \in [Evaluators -> BOOLEAN] /\ late \in [Evaluators -> BOOLEAN]
  /\ outcome \in [Evaluators -> CallOutcome \cup {Unset}]
  /\ usage \in [Evaluators -> Nat]
  /\ reports \in [Evaluators -> SUBSET DOMAIN Tokens]
  /\ DOMAIN decisions \subseteq Decisions /\ Len(recent) <= RecentCapacity
  /\ dropped_decisions \in Nat /\ Len(log) <= MaxCalls

\* The tokens of these reports, one by one.
TokensOf(rs) == UNION {{r} \X (1..Tokens[r]) : r \in rs}

\* "One shared object identifies one usage report (possibly a whole batch)" (core.hpp):
\* the token counters hold each report of an evaluation once, also of one that failed;
\* and one whose backend came back after the caller gave up, or after the deadline, did
\* fail, for the caller and in the counters.
UsageOnce ==
  /\ EvaluationTypeOK
  /\ total.tokens = Cardinality(UNION {{i} \X TokensOf(consumed[i]) : i \in DOMAIN consumed})
  /\ \A e \in Evaluators : late[e] /\ stage[e] = "record" => outcome[e] = "error"
=============================================================================
