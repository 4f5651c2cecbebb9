--------------------------- MODULE BatchingProofs ---------------------------
(* The inductive invariant of Batching and what follows from it, for any     *)
(* number of callers, workers and closers and any sizes; then who destroys   *)
(* the pool under an asio_backend, for any number of operations.             *)
EXTENDS AsioBackend, FiniteSetTheorems, TLAPS

\* Who holds a row: the deque or one worker, and only admitted rows are held.
Owned ==
  /\ \A w \in Workers : batch[w] \cap queue = {}
  /\ \A v, w \in Workers : v # w => batch[v] \cap batch[w] = {}
  /\ queue \subseteq Admitted
  /\ \A w \in Workers : batch[w] \subseteq Admitted
  /\ \A c \in Calls : reply[c] = None => arrival[c] = 0

\* The counters measure finite sets, so that taking a batch out of in_flight is
\* a subtraction within Nat.
Counted ==
  /\ IsFiniteSet(queue) /\ IsFiniteSet(Executing)
  /\ in_flight = Cardinality(Executing)
  /\ accepted = Cardinality(queue) + in_flight + completed
  /\ Cardinality(queue) <= Capacity

\* What a worker still owes, by the place it has reached in run().
Owes(w) ==
  /\ todo[w] \subseteq batch[w] /\ active[w] \subseteq batch[w]
  /\ pc[w] \in {"idle", "waiting", "exited"} => batch[w] = {}
  /\ pc[w] = "preflight" =>
       \A r \in batch[w] : outcome[r] = None => r \in todo[w] \cup active[w]
  /\ pc[w] = "predicting" =>
       \A r \in batch[w] : outcome[r] = None => r \in active[w]
  /\ pc[w] = "finishing" =>
       /\ \A r \in batch[w] : outcome[r] = None => r \in todo[w]
       /\ todo[w] # {} => answer[w] \in Answers

Answered ==
  \A r \in Admitted : outcome[r] = None =>
    r \in queue \/ \E w \in Workers : r \in batch[w]

Stopped ==
  /\ \A w \in Workers : pc[w] = "exited" => stopping /\ queue = {}
  /\ \A k \in Closers : closer[k] = "returned" => \A w \in Workers : pc[w] = "exited"

IInv ==
  /\ TypeOK
  /\ Owned
  /\ Counted
  /\ \A w \in Workers : Owes(w)
  /\ Answered
  /\ Stopped

-----------------------------------------------------------------------------
(* Facts about sizes *)

\* A call contributes exactly Width[c] rows.
LEMMA RowsOfSize ==
  ASSUME NEW c \in Calls
  PROVE  IsFiniteSet(RowsOf(c)) /\ Cardinality(RowsOf(c)) = Width[c]
<1>1. Width[c] \in Nat
  BY BatchingAssumption
<1>2. IsFiniteSet(1..Width[c]) /\ Cardinality(1..Width[c]) = Width[c]
  BY <1>1, FS_Interval
<1> DEFINE f == [i \in 1..Width[c] |-> <<c, i>>]
<1>3. f \in Bijection(1..Width[c], RowsOf(c))
  <2>1. f \in [1..Width[c] -> RowsOf(c)]
    BY DEF RowsOf
  <2>2. \A i, j \in 1..Width[c] : f[i] = f[j] => i = j
    OBVIOUS
  <2>3. \A r \in RowsOf(c) : \E i \in 1..Width[c] : f[i] = r
    BY DEF RowsOf
  <2> QED
    BY <2>1, <2>2, <2>3 DEF Bijection, Injection, Surjection, IsInjective
<1>4. ExistsBijection(1..Width[c], RowsOf(c))
  BY <1>3 DEF ExistsBijection
<1> QED
  BY <1>2, <1>4, FS_Bijection

\* Taking a part out of a finite set takes its size off.
LEMMA RemovePart ==
  ASSUME NEW S, IsFiniteSet(S), NEW T \in SUBSET S
  PROVE  /\ IsFiniteSet(T) /\ IsFiniteSet(S \ T)
         /\ Cardinality(S) \in Nat /\ Cardinality(T) \in Nat
         /\ Cardinality(S \ T) \in Nat
         /\ Cardinality(S) = Cardinality(S \ T) + Cardinality(T)
<1>1. IsFiniteSet(T) /\ IsFiniteSet(S \ T)
  BY FS_Subset
<1>2. /\ Cardinality(S) \in Nat /\ Cardinality(T) \in Nat
      /\ Cardinality(S \ T) \in Nat
  BY <1>1, FS_CardinalityType
<1>3. (S \ T) \cup T = S /\ (S \ T) \cap T = {}
  OBVIOUS
<1>4. Cardinality(S) = Cardinality(S \ T) + Cardinality(T) - Cardinality({})
  BY <1>1, <1>3, FS_Union
<1> QED
  BY <1>1, <1>2, <1>4, FS_EmptySet

\* Adding a disjoint part adds its size.
LEMMA AddPart ==
  ASSUME NEW S, IsFiniteSet(S), NEW T, IsFiniteSet(T), S \cap T = {}
  PROVE  /\ IsFiniteSet(S \cup T)
         /\ Cardinality(S) \in Nat /\ Cardinality(T) \in Nat
         /\ Cardinality(S \cup T) = Cardinality(S) + Cardinality(T)
<1>1. Cardinality(S) \in Nat /\ Cardinality(T) \in Nat
  BY FS_CardinalityType
<1>2. /\ IsFiniteSet(S \cup T)
      /\ Cardinality(S \cup T) = Cardinality(S) + Cardinality(T) - Cardinality({})
  BY FS_Union
<1> QED
  BY <1>1, <1>2, FS_EmptySet

-----------------------------------------------------------------------------
LEMMA InitInv == Init => IInv
<1> SUFFICES ASSUME Init PROVE IInv
  OBVIOUS
<1>1. TypeOK
  BY DEF Init, TypeOK
<1>2. Owned
  BY DEF Init, Owned, Admitted
<1>3. Executing = {}
  BY DEF Init, Executing
<1>4. Counted
  BY <1>3, FS_EmptySet, BatchingAssumption DEF Init, Counted
<1>5. \A w \in Workers : Owes(w)
  BY DEF Init, Owes
<1>6. Answered
  BY DEF Init, Answered, Admitted, Rows
<1>7. Stopped
  BY DEF Init, Stopped
<1> QED
  BY <1>1, <1>2, <1>4, <1>5, <1>6, <1>7 DEF IInv

-----------------------------------------------------------------------------
(* One lemma per action, or per group of actions that leave the rows alone *)

\* What a call that is refused or admitted does to the rows.
LEMMA RejectInv ==
  ASSUME IInv, NEW c \in Calls, reply[c] = None, Reject(c),
         NEW p \in {"pending", "detached"}, reply' = [reply EXCEPT ![c] = p],
         UNCHANGED <<world, closers, counts, pc, due, locals>>
  PROVE  IInv'
<1> USE DEF world, closers, counts, locals
<1>1. TypeOK'
  <2>1. Width[c] \in Nat
    BY BatchingAssumption
  <2> QED
    BY <2>1 DEF IInv, TypeOK, Reject, Outcomes, Failures
<1>2. Owned'
  BY DEF IInv, TypeOK, Owned, Reject, Admitted, None
<1>3. Counted'
  BY DEF IInv, Counted, Reject, Executing
<1>4. \A r \in Rows : outcome'[r] = None => outcome[r] = None
  BY DEF Reject, None
<1>5. \A w \in Workers : Owes(w)'
  BY <1>4 DEF IInv, TypeOK, Owes, Reject
<1>6. Answered'
  BY <1>4 DEF IInv, Answered, Reject, Admitted
<1>7. Stopped'
  BY DEF IInv, Stopped, Reject
<1> QED
  BY <1>1, <1>2, <1>3, <1>5, <1>6, <1>7 DEF IInv

LEMMA AdmitInv ==
  ASSUME IInv, NEW c \in Calls, reply[c] = None, Admit(c),
         ~stopping, Width[c] <= Capacity - Cardinality(queue),
         NEW p \in {"pending", "detached"}, reply' = [reply EXCEPT ![c] = p],
         UNCHANGED <<world, closers, counts, pc, due, locals>>
  PROVE  IInv'
<1> USE DEF world, closers, counts, locals
<1>1. TypeOK'
  <2>1. Width[c] \in Nat
    BY BatchingAssumption
  <2>2. RowsOf(c) \subseteq Rows
    BY DEF Rows, RowsOf
  <2> QED
    BY <2>1, <2>2 DEF IInv, TypeOK, Admit, NotifyAll
<1>2. /\ \A r \in RowsOf(c) : r \in Rows /\ r[1] = c
      /\ RowsOf(c) \cap Admitted = {}
  BY DEF IInv, Owned, Admitted, Rows, RowsOf
<1>3. Admitted' = Admitted \cup RowsOf(c)
  BY <1>2 DEF IInv, TypeOK, Admit, Admitted, Rows, RowsOf
<1>4. Owned'
  BY <1>2, <1>3 DEF IInv, TypeOK, Owned, Admit, None
<1>5. Counted'
  <2>1. IsFiniteSet(RowsOf(c)) /\ Cardinality(RowsOf(c)) = Width[c]
    BY RowsOfSize
  <2>2. queue \cap RowsOf(c) = {}
    BY <1>2 DEF IInv, Owned
  <2>3. /\ IsFiniteSet(queue') /\ Cardinality(queue) \in Nat
        /\ Cardinality(queue') = Cardinality(queue) + Width[c]
    BY <2>1, <2>2, AddPart DEF IInv, Counted, Admit
  <2>4. Width[c] \in Nat /\ Capacity \in Nat
    BY BatchingAssumption
  <2>5. Executing' = Executing
    BY DEF Executing
  <2> QED
    BY <2>3, <2>4, <2>5 DEF IInv, TypeOK, Counted, Admit
<1>6. \A w \in Workers : Owes(w)'
  BY DEF IInv, Owes, Admit
<1>7. Answered'
  BY <1>3 DEF IInv, Answered, Admit
<1>8. Stopped'
  BY DEF IInv, Stopped, Admit
<1> QED
  BY <1>1, <1>4, <1>5, <1>6, <1>7, <1>8 DEF IInv

LEMMA CallerInv ==
  ASSUME IInv, NEW c \in Calls, CallerStep(c)
  PROVE  IInv'
<1>1. CASE Enqueue(c)
  <2>1. CASE stopping \/ Full(Width[c])
    BY <1>1, <2>1, RejectInv DEF Enqueue, workers, counts, None
  <2>2. CASE ~(stopping \/ Full(Width[c]))
    <3>1. Cardinality(queue) \in Nat /\ Width[c] \in Nat /\ Capacity \in Nat
      BY BatchingAssumption, FS_CardinalityType DEF IInv, Counted
    <3>2. Width[c] <= Capacity - Cardinality(queue)
      BY <2>2, <3>1 DEF Full
    <3> QED
      BY <1>1, <2>2, <3>2, AdmitInv DEF Enqueue, workers, counts, None
  <2> QED
    BY <2>1, <2>2
<1>2. CASE EnqueueCallback(c)
  <2>1. CASE stopping \/ Cardinality(queue) = Capacity
    BY <1>2, <2>1, RejectInv DEF EnqueueCallback, workers, counts, None
  <2>2. CASE ~(stopping \/ Cardinality(queue) = Capacity)
    <3>1. Cardinality(queue) \in Nat /\ Width[c] = 1 /\ Capacity \in Nat
      BY <1>2, BatchingAssumption, FS_CardinalityType DEF IInv, Counted, EnqueueCallback
    <3>2. Width[c] <= Capacity - Cardinality(queue)
      BY <2>2, <3>1 DEF IInv, Counted
    <3> QED
      BY <1>2, <2>2, <3>2, AdmitInv DEF EnqueueCallback, workers, counts, None
  <2> QED
    BY <2>1, <2>2
<1>3. CASE Return(c)
  <2> USE <1>3 DEF Return, world, closers, workers, counts, locals
  <2>1. TypeOK'
    BY DEF IInv, TypeOK
  <2>2. Owned'
    BY DEF IInv, TypeOK, Owned, Admitted, Outcomes, Failures, None
  <2>3. Counted' /\ (\A w \in Workers : Owes(w)') /\ Answered' /\ Stopped'
    BY DEF IInv, Counted, Executing, Owes, Answered, Admitted, Stopped
  <2> QED
    BY <2>1, <2>2, <2>3 DEF IInv
<1> QED
  BY <1>1, <1>2, <1>3 DEF CallerStep

\* The steps of the clock and of callers' tokens.
LEMMA WorldInv ==
  ASSUME IInv, Elapse \/ \E r \in Rows : Cancel(r) \/ Expire(r)
  PROVE  IInv'
<1> USE DEF Elapse, Cancel, Expire, callers, closers, workers, counts, locals
<1>1. TypeOK'
  BY DEF IInv, TypeOK
<1>2. Owned' /\ Counted'
  BY DEF IInv, Owned, Admitted, Counted, Executing
<1>3. (\A w \in Workers : Owes(w)') /\ Answered' /\ Stopped'
  BY DEF IInv, Owes, Answered, Admitted, Stopped
<1> QED
  BY <1>1, <1>2, <1>3 DEF IInv

\* Steps of a worker and of shutdown() that touch no row.
LEMMA ControlInv ==
  ASSUME IInv,
         \/ \E w \in Workers : Sleep(w) \/ Exit(w) \/ Anchor(w) \/ Wake(w)
         \/ \E k \in Closers : CloserStep(k)
  PROVE  IInv'
<1> USE DEF callers, world, others, counts, locals, workers
<1>1. CASE \E w \in Workers : Sleep(w) \/ Wake(w)
  <2> USE <1>1 DEF Sleep, Wake, closers
  <2>1. TypeOK'
    BY DEF IInv, TypeOK
  <2>2. Owned' /\ Answered'
    BY DEF IInv, Owned, Admitted, Answered
  <2>3. Counted'
    BY DEF IInv, Counted, Executing
  <2>4. (\A v \in Workers : Owes(v)') /\ Stopped'
    BY DEF IInv, Owes, Stopped
  <2> QED
    BY <2>1, <2>2, <2>3, <2>4 DEF IInv
<1>2. ASSUME NEW w \in Workers, Exit(w) \/ Anchor(w)
      PROVE  IInv'
  <2> USE <1>2 DEF Exit, Anchor, closers
  <2>1. TypeOK'
    <3>1. \A r \in queue : arrival[r[1]] \in Nat
      BY DEF IInv, TypeOK, Rows
    <3> QED
      BY <3>1 DEF IInv, TypeOK
  <2>2. Owned' /\ Answered'
    BY DEF IInv, Owned, Admitted, Answered
  <2>5. Counted'
    <3>1. UNCHANGED <<queue, batch, accepted, in_flight, completed>>
      OBVIOUS
    <3> QED
      BY ONLY <3>1, IInv DEF IInv, Counted, Executing
  <2>3. \A v \in Workers : Owes(v)'
    BY DEF IInv, TypeOK, Owes
  <2>4. Stopped'
    BY DEF IInv, TypeOK, Stopped
  <2> QED
    BY <2>1, <2>2, <2>3, <2>4, <2>5 DEF IInv
<1>3. ASSUME NEW k \in Closers, CloserStep(k)
      PROVE  IInv'
  <2> USE <1>3 DEF CloserStep, Shutdown, LockJoin, Joined, NotifyAll
  <2>1. TypeOK'
    BY DEF IInv, TypeOK
  <2>2. Owned' /\ Answered' /\ \A v \in Workers : Owes(v)'
    BY DEF IInv, Owned, Admitted, Answered, Owes
  <2>5. Counted'
    <3>1. UNCHANGED <<queue, batch, accepted, in_flight, completed>>
      OBVIOUS
    <3> QED
      BY ONLY <3>1, IInv DEF IInv, Counted, Executing
  <2>3. Stopped'
    BY DEF IInv, TypeOK, Stopped
  <2> QED
    BY <2>1, <2>2, <2>3, <2>5 DEF IInv
<1> QED
  BY <1>1, <1>2, <1>3

\* A worker moves a batch out of the deque, or finds the deque empty.
LEMMA CollectInv ==
  ASSUME IInv, NEW w \in Workers, Collect(w), pc[w] \in {"idle", "waiting"}
  PROVE  IInv'
<1> USE DEF callers, world, closers, others
<1>1. batch[w] = {} /\ todo[w] = {} /\ active[w] = {}
  BY DEF IInv, Owes
<1>2. CASE /\ queue = {} /\ pc' = [pc EXCEPT ![w] = "idle"]
           /\ UNCHANGED <<queue, batch, todo, in_flight, asleep>>
  <2> USE <1>2 DEF Collect
  <2>1. TypeOK'
    BY DEF IInv, TypeOK
  <2>2. Owned' /\ Counted' /\ Answered'
    BY DEF IInv, Owned, Admitted, Counted, Executing, Answered
  <2>3. (\A v \in Workers : Owes(v)') /\ Stopped'
    BY <1>1 DEF IInv, TypeOK, Owes, Stopped
  <2> QED
    BY <2>1, <2>2, <2>3 DEF IInv
<1>3. ASSUME NEW b \in SUBSET queue, queue' = queue \ b,
             batch' = [batch EXCEPT ![w] = b], todo' = [todo EXCEPT ![w] = b],
             in_flight' = in_flight + Cardinality(b),
             pc' = [pc EXCEPT ![w] = "preflight"], NotifyAll
      PROVE  IInv'
  <2> USE <1>3 DEF Collect, NotifyAll
  <2>1. /\ IsFiniteSet(b) /\ IsFiniteSet(queue \ b)
        /\ Cardinality(b) \in Nat /\ Cardinality(queue \ b) \in Nat
        /\ Cardinality(queue) = Cardinality(queue \ b) + Cardinality(b)
    BY RemovePart DEF IInv, Counted
  <2>2. TypeOK'
    BY <2>1 DEF IInv, TypeOK
  <2>3. Owned'
    BY DEF IInv, TypeOK, Owned, Admitted
  <2>4. Counted'
    <3>1. Executing \cap b = {}
      BY DEF IInv, Owned, Executing
    <3>2. Executing' = Executing \cup b
      BY <1>1 DEF IInv, TypeOK, Executing
    <3>3. /\ IsFiniteSet(Executing')
          /\ Cardinality(Executing') = Cardinality(Executing) + Cardinality(b)
      BY <2>1, <3>1, <3>2, AddPart DEF IInv, Counted
    <3>4. Capacity \in Nat
      BY BatchingAssumption
    <3> QED
      BY <2>1, <3>3, <3>4 DEF IInv, TypeOK, Counted
  <2>5. \A v \in Workers : Owes(v)'
    BY <1>1 DEF IInv, TypeOK, Owes
  <2>6. Answered'
    BY <1>1 DEF IInv, TypeOK, Answered, Admitted
  <2>7. Stopped'
    BY DEF IInv, TypeOK, Stopped
  <2> QED
    BY <2>2, <2>3, <2>4, <2>5, <2>6, <2>7 DEF IInv
<1> QED
  BY <1>2, <1>3 DEF Collect

\* Giving a row its outcome leaves every other row alone and settles this one.
LEMMA FinishSettles ==
  ASSUME TypeOK, NEW r \in Rows, NEW o \in Outcomes, Finish(r, o)
  PROVE  /\ outcome' \in [Rows -> Outcomes \cup {None}]
         /\ outcome'[r] # None
         /\ \A s \in Rows : s # r => outcome'[s] = outcome[s]
BY DEF TypeOK, Finish, ExecutionError, Outcomes, Failures, None

\* A worker checks, runs or answers the rows it holds.
LEMMA HoldingInv ==
  ASSUME IInv, NEW w \in Workers,
         Preflight(w) \/ Predict(w) \/ Respond(w) \/ FinishNext(w)
  PROVE  IInv'
<1> USE DEF callers, world, closers, others, counts, locals
<1>1. CASE Preflight(w)
  <2>1. PICK r \in todo[w] :
          /\ todo' = [todo EXCEPT ![w] = @ \ {r}]
          /\ IF ExecutionError(r) # None
             THEN Finish(r, ExecutionError(r)) /\ UNCHANGED active
             ELSE active' = [active EXCEPT ![w] = @ \cup {r}] /\ UNCHANGED outcome
    BY <1>1 DEF Preflight
  <2>2. r \in Rows /\ r \in batch[w]
    BY DEF IInv, TypeOK, Owes
  <2>3. /\ outcome' \in [Rows -> Outcomes \cup {None}]
        /\ \A s \in Rows : s # r => outcome'[s] = outcome[s]
        /\ outcome'[r] # None \/ (outcome'[r] = outcome[r] /\ r \in active'[w])
    <3>1. CASE ExecutionError(r) # None
      <4>1. ExecutionError(r) \in Outcomes
        BY <3>1 DEF ExecutionError, Outcomes, Failures
      <4> QED
        BY <2>1, <2>2, <3>1, <4>1, FinishSettles DEF IInv
    <3>2. CASE ExecutionError(r) = None
      BY <2>1, <3>2 DEF IInv, TypeOK
    <3> QED
      BY <3>1, <3>2
  <2>4. /\ active' \in [Workers -> SUBSET Rows] /\ active[w] \subseteq active'[w]
        /\ active'[w] \subseteq batch[w]
        /\ \A v \in Workers : v # w => active'[v] = active[v]
    BY <2>1, <2>2 DEF IInv, TypeOK, Owes
  <2> USE <1>1 DEF Preflight
  <2>5. TypeOK'
    BY <2>1, <2>3, <2>4 DEF IInv, TypeOK
  <2>6. Owned' /\ Counted' /\ Stopped'
    BY DEF IInv, Owned, Admitted, Counted, Executing, Stopped
  <2>7. \A v \in Workers : Owes(v)'
    <3>1. Owes(w)'
      BY <2>1, <2>3, <2>4 DEF IInv, TypeOK, Owes
    <3>2. ASSUME NEW v \in Workers, v # w
          PROVE  Owes(v)'
      <4>1. r \notin batch[v]
        BY <2>2, <3>2 DEF IInv, Owned
      <4> QED
        BY <2>1, <2>3, <2>4, <3>2, <4>1 DEF IInv, TypeOK, Owes
    <3> QED
      BY <3>1, <3>2
  <2>8. Answered'
    BY <2>2, <2>3 DEF IInv, Answered, Admitted
  <2> QED
    BY <2>5, <2>6, <2>7, <2>8 DEF IInv
<1>2. CASE Predict(w)
  <2> USE <1>2 DEF Predict
  <2>1. TypeOK'
    BY DEF IInv, TypeOK
  <2>2. Owned' /\ Counted' /\ Answered'
    BY DEF IInv, Owned, Admitted, Counted, Executing, Answered
  <2>3. \A v \in Workers : Owes(v)'
    BY DEF IInv, TypeOK, Owes
  <2>4. Stopped'
    BY DEF IInv, TypeOK, Stopped
  <2> QED
    BY <2>1, <2>2, <2>3, <2>4 DEF IInv
<1>3. CASE Respond(w)
  <2> USE <1>3 DEF Respond
  <2>1. TypeOK'
    BY DEF IInv, TypeOK
  <2>2. Owned' /\ Counted' /\ Answered'
    BY DEF IInv, Owned, Admitted, Counted, Executing, Answered
  <2>3. \A v \in Workers : Owes(v)'
    BY DEF IInv, TypeOK, Owes
  <2>4. Stopped'
    BY DEF IInv, TypeOK, Stopped
  <2> QED
    BY <2>1, <2>2, <2>3, <2>4 DEF IInv
<1>4. CASE FinishNext(w)
  <2>1. PICK r \in todo[w] : /\ Finish(r, OutcomeOf(answer[w]))
                             /\ todo' = [todo EXCEPT ![w] = @ \ {r}]
    BY <1>4 DEF FinishNext
  <2>2. r \in Rows /\ r \in batch[w]
    BY DEF IInv, TypeOK, Owes
  <2>3. OutcomeOf(answer[w]) \in Outcomes
    <3>1. answer[w] \in {"ok", "error", "mismatch", "throw"}
      BY <1>4, <2>1, BatchingAssumption DEF IInv, Owes, FinishNext
    <3> QED
      BY <3>1 DEF OutcomeOf, Outcomes, Failures
  <2>4. /\ outcome' \in [Rows -> Outcomes \cup {None}]
        /\ outcome'[r] # None
        /\ \A s \in Rows : s # r => outcome'[s] = outcome[s]
    BY <2>1, <2>2, <2>3, FinishSettles DEF IInv
  <2> USE <1>4 DEF FinishNext
  <2>5. TypeOK'
    BY <2>1, <2>4 DEF IInv, TypeOK
  <2>6. Owned' /\ Counted' /\ Stopped'
    BY DEF IInv, Owned, Admitted, Counted, Executing, Stopped
  <2>7. \A v \in Workers : Owes(v)'
    <3>1. Owes(w)'
      BY <2>1, <2>4 DEF IInv, TypeOK, Owes
    <3>2. ASSUME NEW v \in Workers, v # w
          PROVE  Owes(v)'
      <4>1. r \notin batch[v]
        BY <2>2, <3>2 DEF IInv, Owned
      <4> QED
        BY <2>1, <2>4, <3>2, <4>1 DEF IInv, TypeOK, Owes
    <3> QED
      BY <3>1, <3>2
  <2>8. Answered'
    BY <2>2, <2>4 DEF IInv, Answered, Admitted
  <2> QED
    BY <2>5, <2>6, <2>7, <2>8 DEF IInv
<1> QED
  BY <1>1, <1>2, <1>3, <1>4

LEMMA RetireInv ==
  ASSUME IInv, NEW w \in Workers, Retire(w)
  PROVE  IInv'
<1> USE DEF Retire, callers, world, closers, others
<1>1. batch[w] \subseteq Executing /\ Executing' = Executing \ batch[w]
  BY DEF IInv, TypeOK, Owned, Executing
<1>2. /\ IsFiniteSet(Executing') /\ Cardinality(batch[w]) \in Nat
      /\ Cardinality(Executing') \in Nat
      /\ Cardinality(Executing) = Cardinality(Executing') + Cardinality(batch[w])
  BY <1>1, RemovePart DEF IInv, Counted
<1>3. in_flight' = Cardinality(Executing')
  BY <1>2 DEF IInv, TypeOK, Counted
<1>4. TypeOK'
  BY <1>2, <1>3 DEF IInv, TypeOK
<1>5. Owned'
  BY DEF IInv, TypeOK, Owned, Admitted
<1>6. Counted'
  BY <1>2, <1>3, FS_CardinalityType DEF IInv, TypeOK, Counted
<1>7. \A v \in Workers : Owes(v)'
  BY DEF IInv, TypeOK, Owes
<1>8. Answered'
  BY DEF IInv, TypeOK, Answered, Admitted, Owes
<1>9. Stopped'
  BY DEF IInv, TypeOK, Stopped
<1> QED
  BY <1>4, <1>5, <1>6, <1>7, <1>8, <1>9 DEF IInv

-----------------------------------------------------------------------------
(* The theorems *)

LEMMA StepInv == IInv /\ [Next]_vars => IInv'
<1> SUFFICES ASSUME IInv, [Next]_vars PROVE IInv'
  OBVIOUS
<1>1. ASSUME NEW c \in Calls, CallerStep(c) PROVE IInv'
  BY <1>1, CallerInv
<1>2. CASE Elapse \/ \E r \in Rows : Cancel(r) \/ Expire(r)
  BY <1>2, WorldInv
<1>3. ASSUME NEW w \in Workers, WorkerStep(w) PROVE IInv'
  <2>1. CASE Sleep(w) \/ Exit(w) \/ Anchor(w) \/ Wake(w)
    BY <2>1, ControlInv
  <2>2. CASE CollectNow(w)
    BY <2>2, CollectInv DEF CollectNow
  <2>3. CASE Recheck(w)
    <3>1. CASE Collect(w)
      BY <2>3, <3>1, CollectInv DEF Recheck
    <3>2. CASE /\ asleep' = asleep \cup {w}
               /\ UNCHANGED <<others, queue, outcome, workers>>
      <4> USE <3>2 DEF others, callers, world, closers, workers, counts, locals
      <4>1. TypeOK'
        BY DEF IInv, TypeOK
      <4>2. Owned' /\ Answered'
        BY DEF IInv, Owned, Admitted, Answered
      <4>3. Counted'
        BY DEF IInv, Counted, Executing
      <4>4. (\A v \in Workers : Owes(v)') /\ Stopped'
        BY DEF IInv, Owes, Stopped
      <4> QED
        BY <4>1, <4>2, <4>3, <4>4 DEF IInv
    <3> QED
      BY <2>3, <3>1, <3>2 DEF Recheck
  <2>4. CASE Preflight(w) \/ Predict(w) \/ Respond(w) \/ FinishNext(w)
    BY <2>4, HoldingInv
  <2>5. CASE Retire(w)
    BY <2>5, RetireInv
  <2> QED
    BY <1>3, <2>1, <2>2, <2>3, <2>4, <2>5 DEF WorkerStep
<1>4. CASE \E k \in Closers : CloserStep(k)
  BY <1>4, ControlInv
<1>5. CASE UNCHANGED vars
  <2> USE <1>5 DEF vars, others, callers, world, closers, workers, counts, locals
  <2>1. TypeOK'
    BY DEF IInv, TypeOK
  <2>2. Owned' /\ Answered'
    BY DEF IInv, Owned, Admitted, Answered
  <2>3. Counted'
    BY DEF IInv, Counted, Executing
  <2>4. (\A v \in Workers : Owes(v)') /\ Stopped'
    BY DEF IInv, Owes, Stopped
  <2> QED
    BY <2>1, <2>2, <2>3, <2>4 DEF IInv
<1> QED
  BY <1>1, <1>2, <1>3, <1>4, <1>5 DEF Next

\* The inductive invariant holds throughout: the pool of batching.cpp with any
\* number of callers, workers and concurrent shutdowns.
THEOREM Invariance == Spec => []IInv
<1>1. Init => IInv
  BY InitInv
<1>2. IInv /\ [Next]_vars => IInv'
  BY StepInv
<1> QED
  BY <1>1, <1>2, PTL DEF Spec

\* Every variable keeps its type; in_flight in particular never underflows.
THEOREM TypeCorrect == Spec => []TypeOK
<1>1. IInv => TypeOK
  BY DEF IInv
<1> QED
  BY <1>1, Invariance, PTL

\* No admitted row is lost or held twice, from its admission to its answer.
THEOREM RowsAreKept == Spec => []NoRowLost
<1>1. IInv => NoRowLost
  <2> SUFFICES ASSUME IInv PROVE NoRowLost
    OBVIOUS
  <2>1. /\ \A w \in Workers : batch[w] \cap queue = {}
        /\ \A v, w \in Workers : v # w => batch[v] \cap batch[w] = {}
    BY DEF IInv, Owned
  <2>2. ASSUME NEW r \in Admitted, outcome[r] = None
        PROVE  \/ r \in queue
               \/ \E w \in Workers :
                    /\ r \in batch[w]
                    /\ r \in todo[w] \/ (r \in active[w] /\ pc[w] # "finishing")
    <3>1. CASE r \in queue
      BY <3>1
    <3>2. ASSUME NEW w \in Workers, r \in batch[w]
          PROVE  r \in todo[w] \/ (r \in active[w] /\ pc[w] # "finishing")
      <4>1. pc[w] \in {"preflight", "predicting", "finishing"}
        BY <3>2 DEF IInv, TypeOK, Owes
      <4> QED
        BY <2>2, <3>2, <4>1 DEF IInv, Owes
    <3>3. r \in queue \/ \E w \in Workers : r \in batch[w]
      BY <2>2 DEF IInv, Answered
    <3> QED
      BY <3>1, <3>2, <3>3
  <2> QED
    BY <2>1, <2>2 DEF NoRowLost
<1> QED
  BY <1>1, Invariance, PTL

\* stats() always adds up, and the deque respects queue_capacity.
THEOREM CountersAddUp == Spec => [](Conservation /\ Cardinality(queue) <= Capacity)
<1>1. IInv => Conservation /\ Cardinality(queue) <= Capacity
  BY DEF IInv, Counted, Conservation
<1> QED
  BY <1>1, Invariance, PTL

\* A row's place, its answer and the counters of stats() agree at every moment.
THEOREM RowsAndCounters == Spec => []RowsAccounted
<1>1. NoRowLost /\ Conservation => RowsAccounted
  BY DEF RowsAccounted
<1> QED
  BY <1>1, RowsAreKept, CountersAddUp, PTL

\* Once any caller of shutdown() has returned, everything admitted is answered.
THEOREM Draining == Spec => []ShutdownDrains
<1>1. IInv => ShutdownDrains
  <2> SUFFICES ASSUME IInv, NEW k \in Closers, closer[k] = "returned"
               PROVE  /\ queue = {} /\ in_flight = 0 /\ accepted = completed
                      /\ \A w \in Workers : pc[w] = "exited"
                      /\ \A r \in Admitted : outcome[r] # None
    BY DEF ShutdownDrains
  <2>1. \A w \in Workers : pc[w] = "exited" /\ batch[w] = {}
    BY DEF IInv, Stopped, Owes
  <2>2. queue = {}
    BY <2>1, BatchingAssumption DEF IInv, Stopped
  <2>3. Executing = {}
    BY <2>1 DEF Executing
  <2>4. in_flight = 0 /\ accepted = completed
    BY <2>2, <2>3, FS_EmptySet DEF IInv, TypeOK, Counted
  <2>5. \A r \in Admitted : outcome[r] # None
    BY <2>1, <2>2 DEF IInv, Answered
  <2> QED
    BY <2>1, <2>2, <2>4, <2>5
<1> QED
  BY <1>1, Invariance, PTL

-----------------------------------------------------------------------------
(* The order of the deque *)

\* Only collecting fills an empty batch, and it takes what the loop may move.
LEMMA FilledByCollect ==
  ASSUME IInv, NEW w \in Workers, Next, batch[w] = {}, batch'[w] # {}
  PROVE  /\ Collectable(batch'[w]) /\ batch'[w] \subseteq queue
         /\ queue' = queue \ batch'[w]
<1>1. ~UNCHANGED batch
  OBVIOUS
<1>2. PICK v \in Workers : WorkerStep(v)
  BY <1>1 DEF Next, CallerStep, Enqueue, EnqueueCallback, Return, Cancel, Expire, Elapse,
              CloserStep, Shutdown, LockJoin, Joined, workers, locals
<1>3. Collect(v) \/ Retire(v)
  BY <1>1, <1>2 DEF WorkerStep, Sleep, Exit, Anchor, CollectNow, Recheck, Wake, Preflight,
                    Predict, Respond, FinishNext, workers, locals
<1>4. CASE Retire(v)
  BY <1>4 DEF Retire, IInv, TypeOK
<1>5. CASE Collect(v)
  <2>1. PICK b \in SUBSET queue : /\ Collectable(b) /\ queue' = queue \ b
                                 /\ batch' = [batch EXCEPT ![v] = b]
    BY <1>1, <1>5 DEF Collect
  <2>2. batch'[w] = b
    BY <2>1 DEF IInv, TypeOK
  <2> QED
    BY <2>1, <2>2
<1> QED
  BY <1>3, <1>4, <1>5

\* A batch is finished before the worker collects another.
LEMMA FilledOnce ==
  ASSUME IInv, NEW w \in Workers, Next, batch'[w] # {}, batch'[w] # batch[w]
  PROVE  batch[w] = {}
<1>1. ~UNCHANGED batch
  OBVIOUS
<1>2. PICK v \in Workers : WorkerStep(v)
  BY <1>1 DEF Next, CallerStep, Enqueue, EnqueueCallback, Return, Cancel, Expire, Elapse,
              CloserStep, Shutdown, LockJoin, Joined, workers, locals
<1>3. CASE Retire(v)
  BY <1>3 DEF Retire, IInv, TypeOK
<1>4. CASE CollectNow(v) \/ Recheck(v)
  <2>1. pc[v] \in {"idle", "waiting"}
    BY <1>4 DEF CollectNow, Recheck
  <2>2. \A u \in Workers : u # v => batch'[u] = batch[u]
    BY <1>1, <1>4 DEF CollectNow, Recheck, Collect, IInv, TypeOK, workers, locals
  <2> QED
    BY <2>1, <2>2 DEF IInv, Owes
<1> QED
  BY <1>1, <1>2, <1>3, <1>4 DEF WorkerStep, Sleep, Exit, Anchor, Wake, Preflight, Predict,
                                Respond, FinishNext, workers, locals

\* Before orders the rows of the deque strictly.
LEMMA BeforeStrict ==
  ASSUME TypeOK, NEW r \in Rows, NEW s \in Rows, Before(r, s)
  PROVE  ~Before(s, r)
<1>1. /\ r[1] \in Calls /\ s[1] \in Calls /\ r[2] \in Nat /\ s[2] \in Nat
  BY BatchingAssumption DEF Rows
<1>2. arrival[r[1]] \in Nat /\ arrival[s[1]] \in Nat
  BY <1>1 DEF TypeOK
<1> QED
  BY <1>1, <1>2 DEF Before

\* A batch is the oldest rows of the bucket the oldest row is in, and fits one call of the
\* backend, for any number of workers and any lengths (batching.cpp:130-145).
THEOREM OldestRowsFirst == Spec => OldestFirst
<1> DEFINE Taken(w) ==
      /\ Cardinality(batch'[w]) <= MaxBatch
      /\ \A r, s \in batch'[w] : Bucket[r] = Bucket[s]
      /\ \A s \in queue' : \E r \in batch'[w] : Before(r, s)
      /\ \A r \in batch'[w], s \in queue' : Bucket[r] = Bucket[s] => Before(r, s)
    Step == \A w \in Workers : batch[w] = {} /\ batch'[w] # {} => Taken(w)
<1>1. IInv /\ [Next]_vars => [Step]_vars
  <2> SUFFICES ASSUME IInv, Next, NEW w \in Workers, batch[w] = {}, batch'[w] # {}
               PROVE  Taken(w)
    BY DEF vars, workers, locals
  <2> DEFINE b == batch'[w]
  <2>1. Collectable(b) /\ b \subseteq queue /\ queue' = queue \ b
    BY FilledByCollect
  <2>2. PICK front \in queue :
          /\ IsFront(front, queue) /\ b \subseteq SameBucket(front)
          /\ Cardinality(b) <= MaxBatch
          /\ Cardinality(b) < MaxBatch => b = SameBucket(front)
          /\ \A x \in b, y \in SameBucket(front) \ b : Before(x, y)
    BY <2>1 DEF Collectable
  <2>3. front \in b
    <3> SUFFICES ASSUME front \notin b PROVE FALSE
      OBVIOUS
    <3>1. front \in SameBucket(front) \ b
      BY DEF SameBucket
    <3>2. PICK x \in b : TRUE
      OBVIOUS
    <3>3. Before(x, front) /\ Before(front, x)
      BY <2>1, <2>2, <3>1, <3>2 DEF IsFront
    <3> QED
      BY <2>1, <3>2, <3>3, BeforeStrict DEF IInv, TypeOK
  <2>4. \A r, s \in b : Bucket[r] = Bucket[s]
    BY <2>2 DEF SameBucket
  <2>5. \A s \in queue' : Before(front, s)
    BY <2>1, <2>2, <2>3 DEF IsFront
  <2>6. \A r \in b, s \in queue' : Bucket[r] = Bucket[s] => Before(r, s)
    <3> SUFFICES ASSUME NEW r \in b, NEW s \in queue', Bucket[r] = Bucket[s]
                 PROVE  Before(r, s)
      OBVIOUS
    <3>1. s \in SameBucket(front) \ b
      BY <2>1, <2>2 DEF SameBucket
    <3> QED
      BY <2>2, <3>1
  <2> QED
    BY <2>2, <2>3, <2>4, <2>5, <2>6
<1> QED
  BY <1>1, Invariance, PTL DEF Spec, OldestFirst

-----------------------------------------------------------------------------
(* When rows are answered *)

\* A row is answered by the worker that has it: not before its call, not in the deque.
Unanswered ==
  /\ \A c \in Calls : reply[c] = None => \A r \in RowsOf(c) : outcome[r] = None
  /\ \A r \in queue : outcome[r] = None

LEMMA RowFacts ==
  /\ \A c \in Calls : RowsOf(c) \subseteq Rows /\ \A r \in RowsOf(c) : r[1] = c
  /\ \A c \in Callbacks : <<c, 1>> \in RowsOf(c) /\ \A r \in RowsOf(c) : r = <<c, 1>>
  /\ \A r \in Rows : r[1] \in Calls /\ r \in RowsOf(r[1])
<1>1. \A c \in Calls : RowsOf(c) \subseteq Rows /\ \A r \in RowsOf(c) : r[1] = c
  BY DEF RowsOf, Rows
<1>2. ASSUME NEW c \in Callbacks
      PROVE  <<c, 1>> \in RowsOf(c) /\ \A r \in RowsOf(c) : r = <<c, 1>>
  <2>1. Width[c] = 1 /\ 1..1 = {1}
    BY BatchingAssumption
  <2> QED
    BY <2>1 DEF RowsOf
<1>3. \A r \in Rows : r[1] \in Calls /\ r \in RowsOf(r[1])
  BY DEF RowsOf, Rows
<1> QED
  BY <1>1, <1>2, <1>3

\* Only what a worker has taken is answered, and only a call fills the deque.
LEMMA AnswersTaken ==
  ASSUME IInv,
         \/ \E c \in Calls : Return(c)
         \/ \E r \in Rows : Cancel(r) \/ Expire(r)
         \/ Elapse
         \/ \E w \in Workers : WorkerStep(w)
         \/ \E k \in Closers : CloserStep(k)
  PROVE  /\ queue' \subseteq queue
         /\ \A c \in Calls : reply'[c] = None => reply[c] = None
         /\ \A r \in Rows : (\A w \in Workers : r \notin batch[w]) => outcome'[r] = outcome[r]
<1> USE DEF callers, closers, workers, others, world, counts, locals
<1>1. CASE \E c \in Calls : Return(c)
  <2>1. PICK c \in Calls : Return(c)
    BY <1>1
  <2>2. PICK o \in Outcomes : reply' = [reply EXCEPT ![c] = o]
    BY <2>1 DEF Return
  <2>3. None \notin Outcomes
    BY DEF Outcomes, Failures, None
  <2> QED
    BY <2>1, <2>2, <2>3 DEF Return, IInv, TypeOK
<1>2. CASE (\E r \in Rows : Cancel(r) \/ Expire(r)) \/ Elapse
  BY <1>2 DEF Cancel, Expire, Elapse
<1>3. CASE \E k \in Closers : CloserStep(k)
  BY <1>3 DEF CloserStep, Shutdown, LockJoin, Joined
<1>4. ASSUME NEW w \in Workers, WorkerStep(w)
      PROVE  /\ queue' \subseteq queue /\ UNCHANGED reply
             /\ \A r \in Rows \ batch[w] : outcome'[r] = outcome[r]
  <2>1. CASE Sleep(w) \/ Exit(w) \/ Anchor(w) \/ Wake(w)
    BY <2>1 DEF Sleep, Exit, Anchor, Wake
  <2>2. CASE CollectNow(w) \/ Recheck(w)
    BY <2>2 DEF CollectNow, Recheck, Collect
  <2>3. CASE Predict(w) \/ Respond(w) \/ Retire(w)
    BY <2>3 DEF Predict, Respond, Retire
  <2>4. CASE Preflight(w) \/ FinishNext(w)
    <3>1. UNCHANGED <<queue, reply>>
      BY <2>4 DEF Preflight, FinishNext
    <3>2. todo[w] \subseteq batch[w]
      BY DEF IInv, Owes
    <3>3. ASSUME NEW r \in todo[w], NEW o, Finish(r, o)
          PROVE  \A x \in Rows \ batch[w] : outcome'[x] = outcome[x]
      BY <3>2, <3>3 DEF Finish, IInv, TypeOK
    <3>4. CASE Preflight(w)
      BY <3>3, <3>4 DEF Preflight
    <3>5. CASE FinishNext(w)
      BY <3>3, <3>5 DEF FinishNext
    <3> QED
      BY <2>4, <3>1, <3>4, <3>5
  <2> QED
    BY <1>4, <2>1, <2>2, <2>3, <2>4 DEF WorkerStep
<1> QED
  BY <1>1, <1>2, <1>3, <1>4

LEMMA UnansweredStep ==
  ASSUME IInv, Unanswered, [Next]_vars
  PROVE  Unanswered'
<1> USE RowFacts
<1>1. CASE UNCHANGED vars
  BY <1>1 DEF vars, others, callers, Unanswered
<1>2. ASSUME NEW c \in Calls, Enqueue(c) \/ EnqueueCallback(c) PROVE Unanswered'
  <2>1. reply[c] = None /\ \E p \in {"pending", "detached"} : reply' = [reply EXCEPT ![c] = p]
    BY <1>2 DEF Enqueue, EnqueueCallback
  <2>2. /\ reply'[c] # None
        /\ \A d \in Calls : d # c => reply'[d] = reply[d]
    BY <2>1 DEF IInv, TypeOK, None
  <2>3. CASE Reject(c)
    <3>1. queue' = queue /\ \A r \in Rows \ RowsOf(c) : outcome'[r] = outcome[r]
      BY <2>3 DEF Reject
    <3>2. \A r \in queue : r \in Rows \ RowsOf(c)
      BY <2>1 DEF IInv, TypeOK, Owned, Admitted
    <3> QED
      BY <2>2, <3>1, <3>2 DEF Unanswered
  <2>4. CASE Admit(c)
    BY <2>1, <2>2, <2>4 DEF Admit, Unanswered
  <2> QED
    BY <1>2, <2>3, <2>4 DEF Enqueue, EnqueueCallback
<1>3. CASE \/ \E c \in Calls : Return(c)
           \/ \E r \in Rows : Cancel(r) \/ Expire(r)
           \/ Elapse
           \/ \E w \in Workers : WorkerStep(w)
           \/ \E k \in Closers : CloserStep(k)
  <2>1. /\ queue' \subseteq queue
        /\ \A c \in Calls : reply'[c] = None => reply[c] = None
        /\ \A r \in Rows : (\A w \in Workers : r \notin batch[w]) => outcome'[r] = outcome[r]
    BY <1>3, AnswersTaken
  <2>2. \A r \in queue : r \in Rows /\ \A w \in Workers : r \notin batch[w]
    BY DEF IInv, TypeOK, Owned
  <2>3. \A c \in Calls : reply[c] = None =>
          \A r \in RowsOf(c), w \in Workers : r \notin batch[w]
    BY DEF IInv, Owned, Admitted
  <2> QED
    BY <2>1, <2>2, <2>3 DEF Unanswered
<1> QED
  BY <1>1, <1>2, <1>3 DEF Next, CallerStep
-----------------------------------------------------------------------------
(* The pool implements BoundedExecutor *)

\* What runs at once fits into the workers' batches.
Bounded == \A w \in Workers : Cardinality(batch[w]) <= MaxBatch

RInv == Unanswered /\ Bounded

LEMMA InitMapped == Init => RInv
<1> SUFFICES ASSUME Init PROVE RInv
  OBVIOUS
<1>1. Unanswered
  BY RowFacts DEF Init, Unanswered
<1>2. Bounded
  BY FS_EmptySet, BatchingAssumption DEF Init, Bounded
<1> QED
  BY <1>1, <1>2 DEF RInv

LEMMA StepMapped == IInv /\ RInv /\ [Next]_vars => RInv'
<1> SUFFICES ASSUME IInv, RInv, [Next]_vars PROVE RInv'
  OBVIOUS
<1>1. Unanswered'
  BY UnansweredStep DEF RInv
<1>2. Bounded'
  <2> SUFFICES ASSUME NEW w \in Workers PROVE Cardinality(batch'[w]) <= MaxBatch
    BY DEF Bounded
  <2>1. CASE batch'[w] = {}
    BY <2>1, FS_EmptySet, BatchingAssumption
  <2>2. CASE batch'[w] = batch[w]
    BY <2>2 DEF RInv, Bounded
  <2>3. CASE batch'[w] # {} /\ batch'[w] # batch[w]
    <3>1. Next
      BY <2>3 DEF vars, workers, locals
    <3>2. batch[w] = {}
      BY <2>3, <3>1, FilledOnce
    <3> QED
      BY <2>3, <3>1, <3>2, FilledByCollect DEF Collectable
  <2> QED
    BY <2>1, <2>2, <2>3
<1> QED
  BY <1>1, <1>2 DEF RInv

\* No more rows run at once than the workers' batches hold.
LEMMA ExecutingFits ==
  ASSUME IInv, RInv
  PROVE  /\ Cardinality(Executing) <= Cardinality(Workers) * MaxBatch
         /\ Cardinality(Workers) \in Nat /\ Cardinality(Workers) * MaxBatch \in Nat
<1>1. MaxBatch \in Nat /\ Cardinality(Workers) \in Nat /\ IsFiniteSet(Workers)
  BY BatchingAssumption, FS_CardinalityType
<1>2. /\ IsFiniteSet(1..MaxBatch) /\ Cardinality(1..MaxBatch) = MaxBatch
  BY <1>1, FS_Interval
<1>3. /\ IsFiniteSet(Workers \X (1..MaxBatch))
      /\ Cardinality(Workers \X (1..MaxBatch)) = Cardinality(Workers) * MaxBatch
  BY <1>1, <1>2, FS_Product
<1>4. ASSUME NEW w \in Workers
      PROVE  \E f : f \in Injection(batch[w], 1..MaxBatch)
  <2> DEFINE n == Cardinality(batch[w])
  <2>1. batch[w] \subseteq Executing
    BY DEF Executing
  <2>2. IsFiniteSet(batch[w]) /\ n \in Nat /\ n <= MaxBatch
    BY <2>1, FS_Subset, FS_CardinalityType DEF IInv, Counted, RInv, Bounded
  <2>3. IsFiniteSet(1..n) /\ Cardinality(1..n) = n
    BY <2>2, FS_Interval
  <2>4. ExistsBijection(batch[w], 1..n)
    BY <2>2, <2>3, FS_SameCardinalityBij
  <2>5. PICK f : f \in Bijection(batch[w], 1..n)
    BY <2>4 DEF ExistsBijection
  <2>6. 1..n \subseteq 1..MaxBatch
    BY <1>1, <2>2
  <2>7. f \in Injection(batch[w], 1..MaxBatch)
    BY <2>5, <2>6 DEF Bijection, Injection
  <2> QED
    BY <2>7
<1> DEFINE place == [w \in Workers |-> CHOOSE f : f \in Injection(batch[w], 1..MaxBatch)]
           owner(r) == CHOOSE w \in Workers : r \in batch[w]
           g == [r \in Executing |-> <<owner(r), place[owner(r)][r]>>]
<1>5. \A w \in Workers : place[w] \in Injection(batch[w], 1..MaxBatch)
  BY <1>4
<1>6. \A r \in Executing : owner(r) \in Workers /\ r \in batch[owner(r)]
  BY DEF Executing
<1>7. g \in Injection(Executing, Workers \X (1..MaxBatch))
  <2> HIDE DEF place, owner
  <2>1. g \in [Executing -> Workers \X (1..MaxBatch)]
    BY <1>5, <1>6 DEF Injection
  <2>2. ASSUME NEW r \in Executing, NEW s \in Executing, g[r] = g[s]
        PROVE  r = s
    <3>1. owner(r) = owner(s) /\ place[owner(r)][r] = place[owner(s)][s]
      BY <2>2
    <3> QED
      BY <3>1, <1>5, <1>6 DEF Injection, IsInjective
  <2> QED
    BY <2>1, <2>2 DEF Injection, IsInjective
<1> HIDE DEF g
<1>8. Cardinality(Executing) <= Cardinality(Workers \X (1..MaxBatch))
  BY <1>3, <1>7, FS_Injection
<1> QED
  BY <1>1, <1>3, <1>8

\* The rows a caller waits for, which the executor calls pending.
Pending == {r \in Admitted : outcome[r] = None}

LEMMA PendingSize ==
  ASSUME IInv, RInv
  PROVE  /\ IsFiniteSet(Pending) /\ Cardinality(Pending) \in Nat
         /\ Cardinality(queue) \in Nat /\ Cardinality(queue) <= Cardinality(Pending)
         /\ Cardinality(Pending) <= Cardinality(queue) + Cardinality(Workers) * MaxBatch
<1>1. Pending \subseteq queue \cup Executing
  BY DEF IInv, Answered, Pending, Executing
<1>2. queue \cap Executing = {}
  BY DEF IInv, Owned, Executing
<1>3. /\ IsFiniteSet(queue \cup Executing)
      /\ Cardinality(queue) \in Nat /\ Cardinality(Executing) \in Nat
      /\ Cardinality(queue \cup Executing) = Cardinality(queue) + Cardinality(Executing)
  BY <1>2, AddPart DEF IInv, Counted
<1>4. /\ IsFiniteSet(Pending)
      /\ Cardinality(Pending) <= Cardinality(queue) + Cardinality(Executing)
  BY <1>1, <1>3, FS_Subset
<1>5. Cardinality(Pending) \in Nat
  BY <1>4, FS_CardinalityType
<1>6. queue \subseteq Pending
  BY DEF IInv, Owned, RInv, Unanswered, Pending
<1>7. Cardinality(queue) <= Cardinality(Pending)
  BY <1>4, <1>6, FS_Subset
<1>8. /\ Cardinality(Executing) <= Cardinality(Workers) * MaxBatch
      /\ Cardinality(Workers) * MaxBatch \in Nat
  BY ExecutingFits
<1> QED
  BY <1>3, <1>4, <1>5, <1>7, <1>8

LEMMA InitExecutor == Init => Executor!Init
<1> SUFFICES ASSUME Init PROVE Executor!Init
  OBVIOUS
<1>1. Admitted = {}
  BY DEF Init, Admitted, Rows
<1>2. {k \in Closers : closer[k] = "returned"} = {}
  BY DEF Init
<1>3. Executor!Rows = Rows
  BY DEF Executor!Rows, Executor!RowsOf, Rows
<1> QED
  BY <1>1, <1>2, <1>3 DEF Init, Executor!Init, Executor!None, None

\* The executor counts as the pool does.
LEMMA SameCount == ASSUME NEW S PROVE Executor!Cardinality(S) = Cardinality(S)
BY DEF Executor!Cardinality, Cardinality

\* A call is admitted when the executor may admit it.
LEMMA AdmitMaps ==
  ASSUME IInv, RInv, NEW c \in Calls, reply[c] = None, Admit(c),
         ~stopping, Width[c] <= Capacity - Cardinality(queue),
         reply' = [reply EXCEPT ![c] = IF c \in Callbacks THEN "detached" ELSE "pending"],
         UNCHANGED <<world, closers>>
  PROVE  Executor!Admit(c)
<1>1. Cardinality(Pending) + Width[c] <= Capacity + Cardinality(Workers) * MaxBatch
  <2>1. Width[c] \in Nat /\ Capacity \in Nat
    BY BatchingAssumption
  <2>2. Cardinality(Workers) * MaxBatch \in Nat
    BY ExecutingFits
  <2> QED
    BY <2>1, <2>2, PendingSize
<1>2. Pending' = Pending \cup RowsOf(c)
  <2>1. Admitted' = Admitted \cup RowsOf(c)
    BY RowFacts DEF IInv, TypeOK, Admit, Admitted
  <2> QED
    BY <2>1, RowFacts DEF Admit, RInv, Unanswered, Pending
<1>3. /\ UNCHANGED <<outcome, cancelled, expired, stopping, closer>>
  BY DEF Admit, world, closers
<1> QED
  BY <1>1, <1>2, <1>3, SameCount
     DEF Executor!Admit, Executor!Called, Executor!None, None, Executor!RowsOf, RowsOf, Pending

\* A call is refused only when the executor may refuse it.
LEMMA RefuseMaps ==
  ASSUME IInv, RInv, NEW c \in Calls, reply[c] = None, Reject(c),
         stopping \/ Cardinality(queue) + Width[c] > Capacity,
         reply' = [reply EXCEPT ![c] = IF c \in Callbacks THEN "detached" ELSE "pending"],
         UNCHANGED <<world, closers>>
  PROVE  Executor!Refuse(c)
<1> DEFINE o == IF stopping THEN "shutting_down" ELSE "overloaded"
<1>1. stopping \/ Cardinality(Pending) + Width[c] > Capacity
  <2>1. Width[c] \in Nat /\ Capacity \in Nat
    BY BatchingAssumption
  <2> QED
    BY <2>1, PendingSize
<1>2. outcome' = [r \in Executor!Rows |-> IF r \in Executor!RowsOf(c) THEN o ELSE outcome[r]]
  BY DEF Reject, Executor!Rows, Executor!RowsOf, Rows, RowsOf
<1>3. Pending' = Pending
  <2>1. Admitted' = Admitted /\ Admitted \cap RowsOf(c) = {} /\ Admitted \subseteq Rows
    BY RowFacts DEF Reject, Admitted, IInv, Owned
  <2> QED
    BY <2>1 DEF Reject, Pending
<1>4. UNCHANGED <<cancelled, expired, stopping, closer>>
  BY DEF world, closers
<1>5. /\ o \in Executor!Refusals
      /\ IF o = "overloaded" THEN ~stopping /\ Cardinality(Pending) + Width[c] > Capacity
                             ELSE stopping
  BY <1>1 DEF Executor!Refusals
<1> QED
  BY <1>2, <1>3, <1>4, <1>5, SameCount
     DEF Executor!Refuse, Executor!Called, Executor!None, None, Pending

\* What a call returns is what the executor returns.
LEMMA ReturnMaps ==
  ASSUME IInv, NEW c \in Calls, Return(c)
  PROVE  Executor!Return(c)
<1> DEFINE failed == {i \in 1..Width[c] : outcome[<<c, i>>] # "ok"}
           least == CHOOSE i \in failed : \A j \in failed : i <= j
           result == IF failed = {} THEN "ok" ELSE outcome[<<c, least>>]
<1>1. PICK o \in Outcomes :
        /\ \/ o = "ok" /\ \A r \in RowsOf(c) : outcome[r] = "ok"
           \/ FirstFailure(c, o)
        /\ reply' = [reply EXCEPT ![c] = o]
  BY DEF Return
<1>2. o = result
  <2>1. CASE o = "ok" /\ \A r \in RowsOf(c) : outcome[r] = "ok"
    <3>1. failed = {}
      BY <2>1 DEF RowsOf
    <3> QED
      BY <2>1, <3>1
  <2>2. CASE FirstFailure(c, o)
    <3>1. PICK i \in 1..Width[c] :
            /\ o = outcome[<<c, i>>] /\ o # "ok"
            /\ \A j \in 1..(i - 1) : outcome[<<c, j>>] = "ok"
      BY <2>2 DEF FirstFailure
    <3>2. Width[c] \in Nat
      BY BatchingAssumption
    <3>3. i \in failed /\ \A j \in failed : i <= j
      BY <3>1, <3>2
    <3>4. least \in failed /\ \A j \in failed : least <= j
      BY <3>3
    <3>5. least = i
      BY <3>2, <3>3, <3>4
    <3> QED
      BY <3>1, <3>3, <3>5
  <2> QED
    BY <1>1, <2>1, <2>2
<1>3. reply[c] = "pending" /\ RowsOf(c) \cap Pending = {}
  BY DEF Return, Pending
<1>4. UNCHANGED <<queue, arrival, outcome, cancelled, expired, stopping, closer>>
  BY DEF Return, world, closers
<1>5. Pending' = Pending
  BY <1>4 DEF Pending, Admitted
<1> QED
  BY <1>1, <1>2, <1>3, <1>4, <1>5 DEF Executor!Return, Executor!RowsOf, RowsOf, Pending

\* Answering a row is one answer of the executor, or none when it has one already.
LEMMA FinishMaps ==
  ASSUME IInv, NEW w \in Workers, NEW r \in todo[w], NEW o,
         Finish(r, o), o = ExecutionError(r) \/ o \in Executor!Results \ {"cancelled", "timeout"},
         ExecutionError(r) = None => o # None,
         UNCHANGED <<arrival, reply, cancelled, expired, stopping, closer>>
  PROVE  Executor!Answer(r) \/ UNCHANGED Executor!vars
<1>1. r \in Rows /\ r \in Admitted
  BY DEF IInv, Owes, Owned, Admitted
<1>2. Admitted' = Admitted
  BY DEF Admitted
<1>3. CASE outcome[r] # None
  <2>1. UNCHANGED outcome
    BY <1>3 DEF Finish
  <2> QED
    BY <1>2, <2>1 DEF Executor!vars
<1>4. CASE outcome[r] = None
  <2> DEFINE a == IF ExecutionError(r) # None THEN ExecutionError(r) ELSE o
  <2>1. outcome' = [outcome EXCEPT ![r] = a]
    BY <1>4 DEF Finish
  <2>2. /\ a \in Executor!Results
        /\ IF r \in cancelled \cup expired THEN a \in {"cancelled", "timeout"}
                                         ELSE a \notin {"cancelled", "timeout"}
    BY DEF ExecutionError, Executor!Results, None
  <2>3. a # None
    BY <2>2 DEF Executor!Results, None
  <2>4. r \in Pending
    BY <1>1, <1>4 DEF Pending
  <2>5. Pending' = Pending \ {r}
    BY <1>1, <1>2, <2>1, <2>3 DEF Pending, Admitted, IInv, TypeOK
  <2>6. UNCHANGED <<reply, cancelled \cup expired, ~stopping,
                    {k \in Closers : closer[k] = "returned"}>>
    OBVIOUS
  <2>7. Executor!Answer(r)
    BY <2>1, <2>2, <2>4, <2>5, <2>6 DEF Executor!Answer, Pending
  <2> QED
    BY <2>7
<1> QED
  BY <1>3, <1>4

\* A step that leaves the rows' answers, the calls and shutdown() alone is not seen.
LEMMA Unseen ==
  ASSUME UNCHANGED <<arrival, outcome, reply, cancelled, expired, stopping>>,
         {k \in Closers : closer'[k] = "returned"} = {k \in Closers : closer[k] = "returned"}
  PROVE  UNCHANGED Executor!vars
<1>1. Admitted' = Admitted
  BY DEF Admitted
<1> QED
  BY <1>1 DEF Executor!vars

LEMMA WorkerMaps ==
  ASSUME IInv, NEW w \in Workers, WorkerStep(w)
  PROVE  (\E r \in Rows : Executor!Answer(r)) \/ UNCHANGED Executor!vars
<1>1. UNCHANGED <<arrival, reply, cancelled, expired, stopping, closer>>
  BY DEF WorkerStep, Sleep, Exit, Anchor, CollectNow, Recheck, Wake, Preflight, Predict,
         Respond, FinishNext, Retire, Collect, others, callers, world, closers
<1>2. todo[w] \subseteq Rows
  BY DEF IInv, TypeOK
<1>3. CASE UNCHANGED outcome
  BY <1>1, <1>3, Unseen
<1>4. CASE Preflight(w) /\ ~UNCHANGED outcome
  <2>1. PICK r \in todo[w] : Finish(r, ExecutionError(r)) /\ ExecutionError(r) # None
    BY <1>4 DEF Preflight
  <2> QED
    BY <1>1, <1>2, <2>1, FinishMaps
<1>5. CASE FinishNext(w)
  <2>1. PICK r \in todo[w] : Finish(r, OutcomeOf(answer[w]))
    BY <1>5 DEF FinishNext
  <2>2. answer[w] \in {"ok", "error", "mismatch", "throw"}
    BY <1>5, <2>1, BatchingAssumption DEF IInv, Owes, FinishNext
  <2>3. /\ OutcomeOf(answer[w]) \in Executor!Results \ {"cancelled", "timeout"}
        /\ OutcomeOf(answer[w]) # None
    BY <2>2 DEF OutcomeOf, Executor!Results, None
  <2> QED
    BY <1>1, <1>2, <2>1, <2>3, FinishMaps
<1> QED
  BY <1>3, <1>4, <1>5 DEF WorkerStep, Sleep, Exit, Anchor, CollectNow, Recheck, Wake, Predict,
                          Respond, Retire, Collect, workers

LEMMA CloserMaps ==
  ASSUME IInv, NEW k \in Closers, CloserStep(k)
  PROVE  Executor!Close \/ Executor!Drained(k) \/ UNCHANGED Executor!vars
<1> USE DEF callers, world
<1>1. UNCHANGED <<arrival, outcome, reply, cancelled, expired>>
  BY DEF CloserStep, Shutdown, LockJoin, Joined
<1>2. Pending' = Pending
  BY <1>1 DEF Pending, Admitted
<1>3. CASE Shutdown(k)
  <2>1. {j \in Closers : closer'[j] = "returned"} = {j \in Closers : closer[j] = "returned"}
    BY <1>3 DEF Shutdown, IInv, TypeOK
  <2> QED
    BY <1>1, <1>2, <1>3, <2>1 DEF Shutdown, Executor!Close, Pending
<1>4. CASE LockJoin(k)
  <2>1. {j \in Closers : closer'[j] = "returned"} = {j \in Closers : closer[j] = "returned"}
    BY <1>4 DEF LockJoin, IInv, TypeOK
  <2> QED
    BY <1>1, <1>4, <2>1, Unseen DEF LockJoin
<1>5. CASE Joined(k)
  <2>1. {j \in Closers : closer'[j] = "returned"}
          = {j \in Closers : closer[j] = "returned"} \cup {k}
    BY <1>5 DEF Joined, IInv, TypeOK
  <2>2. stopping /\ queue = {}
    BY <1>5, BatchingAssumption DEF Joined, IInv, Stopped
  <2>3. Pending = {}
    BY <1>5, <2>2 DEF Joined, IInv, Answered, Owes, Pending
  <2>4. UNCHANGED stopping
    BY <1>5 DEF Joined
  <2> QED
    BY <1>1, <1>2, <2>1, <2>2, <2>3, <2>4 DEF Executor!Drained, Pending
<1> QED
  BY <1>3, <1>4, <1>5 DEF CloserStep

LEMMA CallerMaps ==
  ASSUME IInv, RInv, NEW c \in Calls, CallerStep(c)
  PROVE  Executor!Admit(c) \/ Executor!Refuse(c) \/ Executor!Return(c)
<1>1. /\ Width[c] \in Nat /\ Capacity \in Nat /\ Cardinality(queue) \in Nat
      /\ c \in Callbacks => Width[c] = 1
      /\ Cardinality(queue) <= Capacity
  BY BatchingAssumption, FS_CardinalityType DEF IInv, Counted
<1>2. CASE Enqueue(c)
  <2>1. /\ reply[c] = None /\ UNCHANGED <<world, closers>>
        /\ reply' = [reply EXCEPT ![c] = IF c \in Callbacks THEN "detached" ELSE "pending"]
    BY <1>2 DEF Enqueue
  <2>2. CASE stopping \/ Full(Width[c])
    <3>1. Reject(c)
      BY <1>2, <2>2 DEF Enqueue
    <3>2. stopping \/ Cardinality(queue) + Width[c] > Capacity
      BY <1>1, <2>2 DEF Full
    <3> QED
      BY <2>1, <3>1, <3>2, RefuseMaps
  <2>3. CASE ~(stopping \/ Full(Width[c]))
    <3>1. Admit(c)
      BY <1>2, <2>3 DEF Enqueue
    <3>2. Width[c] <= Capacity - Cardinality(queue)
      BY <1>1, <2>3 DEF Full
    <3> QED
      BY <2>1, <2>3, <3>1, <3>2, AdmitMaps
  <2> QED
    BY <2>2, <2>3
<1>3. CASE EnqueueCallback(c)
  <2>1. /\ reply[c] = None /\ UNCHANGED <<world, closers>> /\ Width[c] = 1
        /\ reply' = [reply EXCEPT ![c] = IF c \in Callbacks THEN "detached" ELSE "pending"]
    BY <1>1, <1>3 DEF EnqueueCallback
  <2>2. CASE stopping \/ Cardinality(queue) = Capacity
    <3>1. Reject(c)
      BY <1>3, <2>2 DEF EnqueueCallback
    <3>2. stopping \/ Cardinality(queue) + Width[c] > Capacity
      BY <1>1, <2>1, <2>2
    <3> QED
      BY <2>1, <3>1, <3>2, RefuseMaps
  <2>3. CASE ~(stopping \/ Cardinality(queue) = Capacity)
    <3>1. Admit(c)
      BY <1>3, <2>3 DEF EnqueueCallback
    <3>2. Width[c] <= Capacity - Cardinality(queue)
      BY <1>1, <2>1, <2>3
    <3> QED
      BY <2>1, <2>3, <3>1, <3>2, AdmitMaps
  <2> QED
    BY <2>2, <2>3
<1>4. CASE Return(c)
  BY <1>4, ReturnMaps
<1> QED
  BY <1>2, <1>3, <1>4 DEF CallerStep

LEMMA GiveUpMaps ==
  ASSUME NEW r \in Rows, Cancel(r) \/ Expire(r)
  PROVE  Executor!GiveUp(r) \/ UNCHANGED Executor!vars
<1>1. /\ UNCHANGED <<arrival, outcome, reply, stopping, closer>>
      /\ cancelled' \cup expired' = (cancelled \cup expired) \cup {r}
  BY DEF Cancel, Expire, callers, closers
<1>2. Admitted' = Admitted /\ Executor!Rows = Rows
  BY <1>1 DEF Admitted, Executor!Rows, Executor!RowsOf, Rows
<1>3. CASE r \in cancelled \cup expired
  BY <1>1, <1>2, <1>3 DEF Executor!vars
<1>4. CASE r \notin cancelled \cup expired
  BY <1>1, <1>2, <1>4 DEF Executor!GiveUp
<1> QED
  BY <1>3, <1>4

LEMMA StepExecutor == IInv /\ RInv /\ [Next]_vars => [Executor!Next]_(Executor!vars)
<1> SUFFICES ASSUME IInv, RInv, [Next]_vars PROVE Executor!Next \/ UNCHANGED Executor!vars
  OBVIOUS
<1>1. Executor!Rows = Rows
  BY DEF Executor!Rows, Executor!RowsOf, Rows
<1>2. ASSUME NEW c \in Calls, CallerStep(c) PROVE Executor!Next
  BY <1>2, CallerMaps DEF Executor!Next
<1>3. ASSUME NEW r \in Rows, Cancel(r) \/ Expire(r)
      PROVE  Executor!Next \/ UNCHANGED Executor!vars
  BY <1>1, <1>3, GiveUpMaps DEF Executor!Next
<1>4. CASE Elapse
  BY <1>4, Unseen DEF Elapse, callers, closers
<1>5. ASSUME NEW w \in Workers, WorkerStep(w)
      PROVE  Executor!Next \/ UNCHANGED Executor!vars
  BY <1>1, <1>5, WorkerMaps DEF Executor!Next
<1>6. ASSUME NEW k \in Closers, CloserStep(k)
      PROVE  Executor!Next \/ UNCHANGED Executor!vars
  BY <1>6, CloserMaps DEF Executor!Next
<1>7. CASE UNCHANGED vars
  BY <1>7, Unseen DEF vars, others, callers, world, closers
<1> QED
  BY <1>2, <1>3, <1>4, <1>5, <1>6, <1>7 DEF Next

\* Callers cannot tell the pool from the executor that include/jevt/batching.hpp:85-110
\* promises: whole calls are admitted or refused, a row is answered once and by its
\* contract, a call returns its first failure, shutdown() drains; whatever the workers,
\* microbatches and delays.
THEOREM PoolIsExecutor == Spec => ImplementsExecutor
<1>1. Init => IInv /\ RInv /\ Executor!Init
  BY InitInv, InitMapped, InitExecutor
<1>2. IInv /\ RInv /\ [Next]_vars => IInv' /\ RInv' /\ [Executor!Next]_(Executor!vars)
  BY StepInv, StepMapped, StepExecutor
<1> QED
  BY <1>1, <1>2, PTL DEF Spec, ImplementsExecutor, Executor!Spec

-----------------------------------------------------------------------------
(* asio_backend *)

\* A queued row's operation is still held by its job's callback, an operation is a
\* callback call, no callback keeps a
\* reference after its post, and a pool used directly has neither handle nor operation.
References ==
  /\ use \in Uses /\ handle \in BOOLEAN /\ inside \subseteq Calls /\ kept = {}
  /\ stage \in [Calls -> {"none", "pending", "posted", "delivered"}]
  /\ Undelivered(stage) \subseteq Callbacks
  /\ use.owned => \A r \in queue : stage[r[1]] = "pending"
  /\ ~use.owned => destroyer = "nobody" /\ ~handle /\ Undelivered(stage) = {}
  /\ destroyer \in {"nobody", "executor", "owner"}
  /\ destroyer # "nobody" => ~handle /\ Undelivered(stage) = {}

AInv == IInv /\ Unanswered /\ References

-----------------------------------------------------------------------------
LEMMA AsioInitInv == AsioInit => AInv
<1> SUFFICES ASSUME AsioInit PROVE AInv
  OBVIOUS
<1>1. IInv /\ queue = {} /\ outcome = [r \in Rows |-> None]
  BY InitInv DEF AsioInit, Init
<1>2. Unanswered
  BY <1>1, RowFacts DEF Unanswered
<1>3. use \in Uses /\ use.owned \in BOOLEAN
  BY AsioAssumption DEF AsioInit
<1> QED
  BY <1>1, <1>2, <1>3 DEF AsioInit, AInv, References, Undelivered

-----------------------------------------------------------------------------
\* A step of the operations is a step of the pool, or none.
LEMMA PoolSteps ==
  ASSUME References, AsioNext
  PROVE  [Next]_vars
<1>1. use.calls \subseteq Calls /\ use.closers \subseteq Closers
  BY AsioAssumption DEF References
<1>2. CASE PoolStep
  BY <1>1, <1>2 DEF PoolStep, Next, CallerStep, CloserStep
<1>3. ASSUME NEW c \in use.calls, Initiate(c) \/ Post(c) \/ PostReturns(c) \/ Deliver(c)
      PROVE  [Next]_vars
  BY <1>1, <1>3 DEF Initiate, Post, PostReturns, Deliver, Next, CallerStep
<1>4. CASE DropHandle
  BY <1>4 DEF DropHandle
<1>5. ASSUME NEW k \in Closers, Close(k) PROVE [Next]_vars
  BY <1>5 DEF Close, Next, CloserStep
<1> QED
  BY <1>2, <1>3, <1>4, <1>5 DEF AsioNext

LEMMA ReferencesStep ==
  ASSUME AInv, AsioNext
  PROVE  References'
<1>1. use.calls \subseteq Calls /\ use.owned \in BOOLEAN
  BY AsioAssumption DEF AInv, References
<1>2. CASE PoolStep
  <2>1. UNCHANGED asio
    BY <1>2 DEF PoolStep
  <2>2. use.owned => queue' \subseteq queue
    BY <1>1, <1>2, AnswersTaken DEF PoolStep, AInv, CloserStep
  <2> QED
    BY <2>1, <2>2 DEF asio, AInv, References, Undelivered
<1>3. ASSUME NEW c \in use.calls, Initiate(c) PROVE References'
  <2>1. c \in Calls /\ c \in Callbacks /\ use.owned /\ handle /\ destroyer = "nobody"
    BY <1>1, <1>3 DEF Initiate, EnqueueCallback, AInv, References
  <2>2. stage' = [stage EXCEPT ![c] = "pending"] /\ UNCHANGED <<use, handle, inside, kept, destroyer>>
    BY <1>3 DEF Initiate
  <2>3. \A r \in queue' : r \in queue \/ r[1] = c
    BY <1>3, <2>1, RowFacts DEF Initiate, EnqueueCallback, Reject, Admit
  <2>4. \A r \in queue : r[1] \in Calls
    BY RowFacts DEF AInv, IInv, TypeOK
  <2>5. Undelivered(stage') \subseteq Undelivered(stage) \cup {c}
    BY <2>1, <2>2 DEF Undelivered, AInv, References
  <2> QED
    BY <2>1, <2>2, <2>3, <2>4, <2>5 DEF AInv, References
<1>4. ASSUME NEW c \in use.calls, Post(c) PROVE References'
  <2>1. c \in Calls /\ stage[c] = "pending" /\ outcome[<<c, 1>>] # None
    BY <1>1, <1>4 DEF Post
  <2>2. /\ stage' = [stage EXCEPT ![c] = "posted"] /\ inside' = inside \cup {c} /\ kept' = kept
        /\ UNCHANGED <<queue, use, handle, destroyer>>
    BY <1>4 DEF Post, Kept, vars
  <2>3. c \in Undelivered(stage)
    BY <2>1 DEF Undelivered
  <2>4. destroyer = "nobody" /\ use.owned
    BY <1>1, <2>3 DEF AInv, References
  <2>5. \A r \in queue : r[1] # c
    <3> SUFFICES ASSUME NEW r \in queue, r[1] = c PROVE FALSE
      OBVIOUS
    <3>1. c \in Callbacks /\ r \in RowsOf(c)
      BY <2>3, RowFacts DEF AInv, IInv, TypeOK, References
    <3>2. r = <<c, 1>>
      BY <3>1, RowFacts
    <3> QED
      BY <2>1, <3>2 DEF AInv, Unanswered
  <2>6. Undelivered(stage') = Undelivered(stage)
    BY <2>1, <2>2 DEF Undelivered, AInv, References
  <2> QED
    BY <2>1, <2>2, <2>4, <2>5, <2>6 DEF AInv, References
<1>5. ASSUME NEW c \in use.calls, PostReturns(c) PROVE References'
  <2>1. /\ inside' = inside \ {c} /\ kept' = kept \ {c} /\ c \notin kept
        /\ UNCHANGED <<queue, use, handle, stage>>
    BY <1>5 DEF PostReturns, vars, AInv, References
  <2>2. UNCHANGED destroyer
    BY <1>5, <2>1 DEF PostReturns
  <2> QED
    BY <2>1, <2>2 DEF AInv, References, Undelivered
<1>6. ASSUME NEW c \in use.calls, Deliver(c) PROVE References'
  <2>1. /\ c \in Calls /\ stage[c] = "posted" /\ stage' = [stage EXCEPT ![c] = "delivered"]
        /\ UNCHANGED <<queue, use, handle, inside, kept>>
    BY <1>1, <1>6 DEF Deliver, vars
  <2>2. /\ destroyer' \in {"nobody", "executor"}
        /\ destroyer' # "nobody" => ~handle' /\ Undelivered(stage') = {}
    BY <1>6 DEF Deliver, Dropped
  <2>3. use.owned
    BY <1>1, <2>1 DEF AInv, References, Undelivered
  <2>4. \A r \in queue : r[1] # c
    BY <2>1, <2>3 DEF AInv, References
  <2> QED
    BY <2>1, <2>2, <2>3, <2>4 DEF AInv, References, Undelivered
<1>7. CASE DropHandle
  <2>1. use.owned /\ handle' = FALSE /\ UNCHANGED <<queue, use, stage, inside, kept>>
    BY <1>7 DEF DropHandle, vars
  <2>2. /\ destroyer' \in {"nobody", "owner"}
        /\ destroyer' # "nobody" => ~handle' /\ Undelivered(stage') = {}
    BY <1>7 DEF DropHandle, Dropped
  <2> QED
    BY <2>1, <2>2 DEF AInv, References, Undelivered
<1>8. ASSUME NEW k \in Closers, Close(k) PROVE References'
  BY <1>8 DEF Close, Shutdown, asio, AInv, References, Undelivered
<1> QED
  BY <1>2, <1>3, <1>4, <1>5, <1>6, <1>7, <1>8 DEF AsioNext

LEMMA AsioStepInv == AInv /\ [AsioNext]_allVars => AInv'
<1> SUFFICES ASSUME AInv, [AsioNext]_allVars PROVE AInv'
  OBVIOUS
<1>1. CASE UNCHANGED allVars
  <2>1. UNCHANGED vars /\ UNCHANGED asio
    BY <1>1 DEF allVars
  <2>2. References'
    BY <2>1 DEF vars, asio, AInv, References, Undelivered
  <2> QED
    BY <2>1, <2>2, StepInv, UnansweredStep DEF AInv
<1>2. CASE AsioNext
  BY <1>2, PoolSteps, StepInv, UnansweredStep, ReferencesStep DEF AInv
<1> QED
  BY <1>1, <1>2

-----------------------------------------------------------------------------
\* No worker drops the last reference to its own pool, which it would join itself, and
\* nobody drops it while an operation is not delivered (asio.hpp:20-59).
THEOREM PoolOutlives == AsioSpec => []PoolOutlivesOperations
<1>1. AInv => PoolOutlivesOperations
  <2> SUFFICES ASSUME AInv PROVE PoolOutlivesOperations
    OBVIOUS
  <2>1. use.owned \in BOOLEAN
    BY AsioAssumption DEF AInv, References
  <2>2. destroyer # "nobody" => queue = {}
    <3> SUFFICES ASSUME destroyer # "nobody", NEW r \in queue PROVE FALSE
      OBVIOUS
    <3>1. use.owned /\ Undelivered(stage) = {} /\ stage[r[1]] = "pending"
      BY <2>1 DEF AInv, References
    <3>2. r[1] \in Calls
      BY RowFacts DEF AInv, IInv, TypeOK
    <3> QED
      BY <3>1, <3>2 DEF Undelivered
  <2> QED
    BY <2>2 DEF AInv, References, PoolOutlivesOperations, AsioTypeOK
<1> QED
  BY <1>1, AsioInitInv, AsioStepInv, PTL DEF AsioSpec

\* What Batching's theorems say of a pool holds of one that an asio_backend uses: rows and
\* counters agree, and a shutdown drains it (batching.cpp, asio.hpp:20-59).
THEOREM PoolOverAsio == AsioSpec => [](RowsAccounted /\ ShutdownDrains)
<1>1. AsioInit => Init
  BY DEF AsioInit
<1>2. References /\ [AsioNext]_allVars => [Next]_vars
  BY PoolSteps DEF allVars
<1>3. AInv => References
  BY DEF AInv
<1>4. AsioSpec => Spec
  BY <1>1, <1>2, <1>3, AsioInitInv, AsioStepInv, PTL DEF AsioSpec, Spec
<1> QED
  BY <1>4, RowsAndCounters, Draining, PTL
=============================================================================
