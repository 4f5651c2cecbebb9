------------------------------ MODULE Batching ------------------------------
(***************************************************************************)
(* jevt::batching_backend (src/src/batching.cpp): a pool of workers that   *)
(* drains a bounded deque of inference rows in microbatches.               *)
(*                                                                         *)
(* Threads are the callers (one element of Calls per API call), the        *)
(* workers running impl::run, and the closers that run shutdown().  An     *)
(* action is one critical section of impl::mutex, or one step taken        *)
(* outside it that another thread can observe.  The deque is the set of    *)
(* its rows: the arrival stamp of a call and the index of a row in its     *)
(* call give the order std::deque gives it.                                *)
(*                                                                         *)
(* notify_all follows the unlock of the critical section that changed the  *)
(* state; here it is the same step.  A worker the code would leave asleep  *)
(* in between is here an awake worker that has not been scheduled.         *)
(***************************************************************************)
EXTENDS Integers, FiniteSets

CONSTANTS
  Calls,        \* the API calls made on the pool, each made at most once
  Callbacks,    \* those that are submit_callback; the others wait for futures
  Width,        \* rows of a call (a predict_batch has several)
  Bucket,       \* length bucket of a row: bytes / length_bucket_width
  Cancellable,  \* rows whose caller may request cancellation
  Timed,        \* rows that carry a deadline
  Workers, Closers,
  Answers,      \* how the wrapped backend may answer
  Capacity,     \* options.queue_capacity
  MaxBatch      \* options.max_batch_size

Rows == UNION {{c} \X (1..Width[c]) : c \in Calls}
RowsOf(c) == {c} \X (1..Width[c])

ASSUME BatchingAssumption ==
  /\ IsFiniteSet(Calls) /\ IsFiniteSet(Workers) /\ Workers # {}
  /\ Callbacks \subseteq Calls
  /\ Width \in [Calls -> Nat \ {0}]
  /\ \A c \in Callbacks : Width[c] = 1
  /\ Bucket \in [Rows -> Nat]
  /\ Answers \subseteq {"ok", "error", "mismatch", "throw"}
  /\ Capacity \in Nat \ {0} /\ MaxBatch \in Nat \ {0}

VARIABLES
  queue,      \* impl::queue
  arrival,    \* stamp of a call's admission (job::arrival); 0 before it
  admissions, \* stamps given so far
  elapsed,    \* max_delay has passed for the calls stamped at most this
  stopping, accepted, rejected, in_flight, completed,
  asleep,     \* workers blocked on the condition variable
  pc, due,    \* where a worker is in run(); the stamp its wait_until is for
  batch, todo, active, answer,  \* run()'s locals
  outcome,    \* what a row's promise or callback was given
  reply,      \* what a call returned to its caller
  cancelled, expired,
  closer, joiner  \* shutdown() callers; the one that holds join_mutex

callers == <<arrival, admissions, reply, accepted, rejected>>
world == <<elapsed, cancelled, expired>>
closers == <<stopping, closer, joiner>>
others == <<callers, world, closers>>  \* what no worker changes
counts == <<in_flight, completed>>
locals == <<batch, todo, active, answer>>
workers == <<counts, pc, due, locals>>
vars == <<queue, asleep, outcome, others, workers>>

None == "none"
Failures == {"cancelled", "timeout", "overloaded", "shutting_down", "error",
             "invalid_backend_output", "backend_failure"}
Outcomes == Failures \cup {"ok"}

Init ==
  /\ queue = {} /\ asleep = {}
  /\ arrival = [c \in Calls |-> 0] /\ admissions = 0 /\ elapsed = 0
  /\ stopping = FALSE
  /\ accepted = 0 /\ rejected = 0 /\ in_flight = 0 /\ completed = 0
  /\ pc = [w \in Workers |-> "idle"] /\ due = [w \in Workers |-> 0]
  /\ batch = [w \in Workers |-> {}] /\ todo = [w \in Workers |-> {}]
  /\ active = [w \in Workers |-> {}] /\ answer = [w \in Workers |-> None]
  /\ outcome = [r \in Rows |-> None] /\ reply = [c \in Calls |-> None]
  /\ cancelled = {} /\ expired = {}
  /\ closer = [k \in Closers |-> "out"] /\ joiner = {}

-----------------------------------------------------------------------------
(* Order and buckets *)

Before(r, s) ==
  \/ arrival[r[1]] < arrival[s[1]]
  \/ r[1] = s[1] /\ r[2] < s[2]

IsFront(r, S) == r \in S /\ \A s \in S \ {r} : Before(r, s)

SameBucket(r) == {s \in queue : Bucket[s] = Bucket[r]}

\* The predicate of wait_until: the front's bucket fills a batch.
Ready ==
  \/ stopping \/ queue = {}
  \/ \E r \in queue : IsFront(r, queue) /\ Cardinality(SameBucket(r)) >= MaxBatch

\* Mutant: any row selects the bucket, not the oldest one.
CollectableAny(b) ==
  \E r \in queue :
    /\ b \subseteq SameBucket(r)
    /\ Cardinality(b) <= MaxBatch
    /\ Cardinality(b) < MaxBatch => b = SameBucket(r)
    /\ \A x \in b, y \in SameBucket(r) \ b : Before(x, y)

\* The rows the collect loop moves: the oldest MaxBatch of the front's bucket.
Collectable(b) ==
  \E r \in queue :
    /\ IsFront(r, queue)
    /\ b \subseteq SameBucket(r)
    /\ Cardinality(b) <= MaxBatch
    /\ Cardinality(b) < MaxBatch => b = SameBucket(r)
    /\ \A x \in b, y \in SameBucket(r) \ b : Before(x, y)

-----------------------------------------------------------------------------
(* Callers *)

\* Mutant: changed.notify_one.
NotifyOne == asleep' = {} \/ \E w \in asleep : asleep' = asleep \ {w}

NotifyAll == asleep' = {}

Full(n) == n > Capacity - Cardinality(queue)

Reject(c) ==
  /\ rejected' = rejected + Width[c]
  /\ outcome' = [r \in Rows |->
       IF r \in RowsOf(c) THEN IF stopping THEN "shutting_down" ELSE "overloaded"
                          ELSE outcome[r]]
  /\ UNCHANGED <<queue, arrival, admissions, accepted, asleep>>

Admit(c) ==
  /\ queue' = queue \cup RowsOf(c)
  /\ admissions' = admissions + 1
  /\ arrival' = [arrival EXCEPT ![c] = admissions + 1]
  /\ accepted' = accepted + Width[c]
  /\ NotifyAll
  /\ UNCHANGED <<rejected, outcome>>

\* enqueue: submit (one row), predict and predict_batch.
Enqueue(c) ==
  /\ c \notin Callbacks /\ reply[c] = None
  /\ IF stopping \/ Full(Width[c]) THEN Reject(c) ELSE Admit(c)
  /\ reply' = [reply EXCEPT ![c] = "pending"]
  /\ UNCHANGED <<world, closers, workers>>

\* enqueue_callback: the caller keeps no future; a rejection calls back inline.
EnqueueCallback(c) ==
  /\ c \in Callbacks /\ reply[c] = None
  /\ IF stopping \/ Cardinality(queue) = Capacity THEN Reject(c) ELSE Admit(c)
  /\ reply' = [reply EXCEPT ![c] = "detached"]
  /\ UNCHANGED <<world, closers, workers>>

FirstFailure(c, o) ==
  \E i \in 1..Width[c] :
    /\ o = outcome[<<c, i>>] /\ o # "ok"
    /\ \A j \in 1..(i - 1) : outcome[<<c, j>>] = "ok"

\* predict / predict_batch: every future is awaited, the first failure in
\* caller order is the result.
Return(c) ==
  /\ reply[c] = "pending"
  /\ \A r \in RowsOf(c) : outcome[r] # None
  /\ \E o \in Outcomes :
       /\ \/ o = "ok" /\ \A r \in RowsOf(c) : outcome[r] = "ok"
          \/ FirstFailure(c, o)
       /\ reply' = [reply EXCEPT ![c] = o]
  /\ UNCHANGED <<world, closers, queue, arrival, admissions, accepted, rejected, asleep,
                 outcome, workers>>

Admitted == {r \in Rows : arrival[r[1]] # 0}
Executing == UNION {batch[w] : w \in Workers}

\* The caller's stop_source, the request's deadline, the batching delay.  Only
\* while the job exists: earlier is the same as right after its admission, and
\* later nothing looks.
Cancel(r) ==
  /\ r \in Cancellable \ cancelled /\ r \in queue \cup Executing
  /\ cancelled' = cancelled \cup {r}
  /\ UNCHANGED <<callers, closers, queue, elapsed, expired, asleep, outcome, workers>>

Expire(r) ==
  /\ r \in Timed \ expired /\ r \in queue \cup Executing
  /\ expired' = expired \cup {r}
  /\ UNCHANGED <<callers, closers, queue, elapsed, cancelled, asleep, outcome, workers>>

Elapse ==
  /\ elapsed < admissions
  /\ elapsed' = elapsed + 1
  /\ UNCHANGED <<callers, closers, queue, cancelled, expired, asleep, outcome, workers>>

-----------------------------------------------------------------------------
(* Workers: impl::run *)

\* execution_error: cancellation is looked at before the deadline.
ExecutionError(r) ==
  IF r \in cancelled THEN "cancelled" ELSE IF r \in expired THEN "timeout" ELSE None

\* Mutant: a late answer escapes the request's contract.
FinishLate(r, o) ==
  outcome' = IF outcome[r] # None THEN outcome ELSE [outcome EXCEPT ![r] = o]

\* job::finish: once only, and a late answer yields to cancellation or deadline.
Finish(r, o) ==
  outcome' = IF outcome[r] # None THEN outcome
             ELSE [outcome EXCEPT ![r] =
                     IF ExecutionError(r) # None THEN ExecutionError(r) ELSE o]

\* changed.wait with a false predicate.
Sleep(w) ==
  /\ pc[w] = "idle" /\ w \notin asleep
  /\ ~stopping /\ queue = {}
  /\ asleep' = asleep \cup {w}
  /\ UNCHANGED <<others, queue, outcome, workers>>

\* Mutant: shutdown ends a worker although rows are queued.
ExitEarly(w) ==
  /\ pc[w] = "idle" /\ w \notin asleep
  /\ stopping
  /\ pc' = [pc EXCEPT ![w] = "exited"]
  /\ UNCHANGED <<others, queue, asleep, due, outcome, counts, locals>>

Exit(w) ==
  /\ pc[w] = "idle" /\ w \notin asleep
  /\ stopping /\ queue = {}
  /\ pc' = [pc EXCEPT ![w] = "exited"]
  /\ UNCHANGED <<others, queue, asleep, due, outcome, counts, locals>>

\* Collect a batch, or start over when another worker emptied the queue.
Collect(w) ==
  /\ \/ /\ queue = {}
        /\ pc' = [pc EXCEPT ![w] = "idle"]
        /\ UNCHANGED <<queue, batch, todo, in_flight, asleep>>
     \/ \E b \in SUBSET queue :
        /\ Collectable(b)
        /\ queue' = queue \ b
        /\ batch' = [batch EXCEPT ![w] = b]
        /\ todo' = [todo EXCEPT ![w] = b]
        /\ in_flight' = in_flight + Cardinality(b)
        /\ pc' = [pc EXCEPT ![w] = "preflight"]
        /\ NotifyAll
  /\ due' = [due EXCEPT ![w] = 0]
  /\ UNCHANGED <<others, completed, active, answer, outcome>>

\* wait_until finds its predicate false and blocks until the anchor's deadline.
Anchor(w) ==
  /\ pc[w] = "idle" /\ w \notin asleep
  /\ queue # {} /\ ~Ready
  /\ \E r \in queue : /\ IsFront(r, queue)
                      /\ due' = [due EXCEPT ![w] = arrival[r[1]]]
  /\ pc' = [pc EXCEPT ![w] = "waiting"]
  /\ asleep' = asleep \cup {w}
  /\ UNCHANGED <<others, queue, outcome, counts, locals>>

\* A full bucket (or shutdown) needs no delay.
CollectNow(w) ==
  /\ pc[w] = "idle" /\ w \notin asleep
  /\ queue # {} /\ Ready
  /\ Collect(w)

\* Awake inside wait_until: it returns when its predicate holds or when the
\* deadline of the anchor it was called for has passed, whoever took the anchor.
Recheck(w) ==
  /\ pc[w] = "waiting" /\ w \notin asleep
  /\ \/ /\ Ready \/ due[w] <= elapsed
        /\ Collect(w)
     \/ /\ ~Ready /\ elapsed < due[w]
        /\ asleep' = asleep \cup {w}
        /\ UNCHANGED <<others, queue, outcome, workers>>

\* The timer of wait_until, or a spurious wakeup.
Wake(w) ==
  /\ w \in asleep
  /\ asleep' = asleep \ {w}
  /\ UNCHANGED <<others, queue, outcome, workers>>

Preflight(w) ==
  /\ pc[w] = "preflight"
  /\ \E r \in todo[w] :
       /\ IsFront(r, todo[w])
       /\ todo' = [todo EXCEPT ![w] = @ \ {r}]
       /\ IF ExecutionError(r) # None
          THEN Finish(r, ExecutionError(r)) /\ UNCHANGED active
          ELSE active' = [active EXCEPT ![w] = @ \cup {r}] /\ UNCHANGED outcome
  /\ UNCHANGED <<others, queue, asleep, pc, due, batch, answer, counts>>

\* The wrapped backend is called, unless no row is left for it.
Predict(w) ==
  /\ pc[w] = "preflight" /\ todo[w] = {}
  /\ IF active[w] = {}
     THEN pc' = [pc EXCEPT ![w] = "finishing"]
     ELSE pc' = [pc EXCEPT ![w] = "predicting"]
  /\ UNCHANGED <<others, queue, asleep, due, outcome, counts, locals>>

\* Mutant: a response of the wrong size is dropped.
RespondDropping(w) ==
  /\ pc[w] = "predicting"
  /\ \E a \in Answers :
       /\ answer' = [answer EXCEPT ![w] = a]
       /\ todo' = [todo EXCEPT ![w] = IF a = "throw" THEN batch[w]
                                     ELSE IF a = "mismatch" THEN {} ELSE active[w]]
  /\ pc' = [pc EXCEPT ![w] = "finishing"]
  /\ UNCHANGED <<others, queue, asleep, due, batch, active, outcome, counts>>

\* predict_batch of the wrapped backend returns.  A backend that re-enters its own
\* pool gets an error result from predict (executing_pool) or an exception from
\* shutdown, and both come back here.  An exception is answered for
\* the whole batch, everything else for the rows the backend was given.
Respond(w) ==
  /\ pc[w] = "predicting"
  /\ \E a \in Answers :
       /\ answer' = [answer EXCEPT ![w] = a]
       /\ todo' = [todo EXCEPT ![w] = IF a = "throw" THEN batch[w] ELSE active[w]]
  /\ pc' = [pc EXCEPT ![w] = "finishing"]
  /\ UNCHANGED <<others, queue, asleep, due, batch, active, outcome, counts>>

OutcomeOf(a) == CASE a = "ok"       -> "ok"
                  [] a = "error"    -> "error"
                  [] a = "mismatch" -> "invalid_backend_output"
                  [] a = "throw"    -> "backend_failure"

FinishNext(w) ==
  /\ pc[w] = "finishing"
  /\ \E r \in todo[w] :
       /\ IsFront(r, todo[w])
       /\ Finish(r, OutcomeOf(answer[w]))
       /\ todo' = [todo EXCEPT ![w] = @ \ {r}]
  /\ UNCHANGED <<others, queue, asleep, pc, due, batch, active, answer, counts>>

Retire(w) ==
  /\ pc[w] = "finishing" /\ todo[w] = {}
  /\ in_flight' = in_flight - Cardinality(batch[w])
  /\ completed' = completed + Cardinality(batch[w])
  /\ batch' = [batch EXCEPT ![w] = {}]
  /\ active' = [active EXCEPT ![w] = {}]
  /\ answer' = [answer EXCEPT ![w] = None]
  /\ pc' = [pc EXCEPT ![w] = "idle"]
  /\ UNCHANGED <<others, queue, asleep, due, todo, outcome>>

-----------------------------------------------------------------------------
(* shutdown() and the destructor *)

Shutdown(k) ==
  /\ closer[k] = "out"
  /\ stopping' = TRUE
  /\ NotifyAll
  /\ closer' = [closer EXCEPT ![k] = "locking"]
  /\ UNCHANGED <<callers, world, queue, joiner, outcome, workers>>

LockJoin(k) ==
  /\ closer[k] = "locking" /\ joiner = {}
  /\ joiner' = {k}
  /\ closer' = [closer EXCEPT ![k] = "joining"]
  /\ UNCHANGED <<callers, world, queue, stopping, asleep, outcome, workers>>

Joined(k) ==
  /\ closer[k] = "joining"
  /\ \A w \in Workers : pc[w] = "exited"
  /\ joiner' = {}
  /\ closer' = [closer EXCEPT ![k] = "returned"]
  /\ UNCHANGED <<callers, world, queue, stopping, asleep, outcome, workers>>

-----------------------------------------------------------------------------
CallerStep(c) == Enqueue(c) \/ EnqueueCallback(c) \/ Return(c)
WorkerStep(w) ==
  \/ Sleep(w) \/ Exit(w) \/ Anchor(w) \/ CollectNow(w) \/ Recheck(w) \/ Wake(w)
  \/ Preflight(w) \/ Predict(w) \/ Respond(w) \/ FinishNext(w) \/ Retire(w)
CloserStep(k) == Shutdown(k) \/ LockJoin(k) \/ Joined(k)

Next ==
  \/ \E c \in Calls : CallerStep(c)
  \/ \E r \in Rows : Cancel(r) \/ Expire(r)
  \/ Elapse
  \/ \E w \in Workers : WorkerStep(w)
  \/ \E k \in Closers : CloserStep(k)

Spec == Init /\ [][Next]_vars

\* What a worker does unless it is blocked: a spurious wakeup may never come.
Progress(w) ==
  \/ pc[w] = "waiting" /\ due[w] <= elapsed /\ Wake(w)
  \/ Exit(w) \/ Anchor(w) \/ CollectNow(w) \/ Recheck(w)
  \/ Preflight(w) \/ Predict(w) \/ Respond(w) \/ FinishNext(w) \/ Retire(w)

\* Threads that can run do, a clock advances, and the wrapped backend returns;
\* nobody is obliged to submit, to cancel or to shut down.
Fairness ==
  /\ WF_vars(Elapse)
  /\ \A c \in Calls : WF_vars(Return(c))
  /\ \A w \in Workers : WF_vars(Progress(w))
  /\ \A k \in Closers : WF_vars(LockJoin(k) \/ Joined(k))

FairSpec == Spec /\ Fairness

-----------------------------------------------------------------------------
(* Properties *)

TypeOK ==
  /\ queue \subseteq Rows /\ asleep \subseteq Workers
  /\ arrival \in [Calls -> Nat] /\ admissions \in Nat /\ elapsed \in Nat
  /\ stopping \in BOOLEAN
  /\ accepted \in Nat /\ rejected \in Nat /\ completed \in Nat
  /\ in_flight \in Nat
  /\ pc \in [Workers -> {"idle", "waiting", "preflight", "predicting", "finishing",
                         "exited"}]
  /\ due \in [Workers -> Nat]
  /\ batch \in [Workers -> SUBSET Rows] /\ todo \in [Workers -> SUBSET Rows]
  /\ active \in [Workers -> SUBSET Rows] /\ answer \in [Workers -> Answers \cup {None}]
  /\ outcome \in [Rows -> Outcomes \cup {None}]
  /\ reply \in [Calls -> Outcomes \cup {None, "pending", "detached"}]
  /\ cancelled \subseteq Rows /\ expired \subseteq Rows
  /\ closer \in [Closers -> {"out", "locking", "joining", "returned"}]
  /\ joiner \subseteq Closers

\* A row admitted and not yet answered is in the deque, or held by exactly one
\* worker that still has it to look at, to run or to answer: no interleaving of
\* collecting, preflight and finishing loses or duplicates a row.
NoRowLost ==
  /\ \A w \in Workers : batch[w] \cap queue = {}
  /\ \A v, w \in Workers : v # w => batch[v] \cap batch[w] = {}
  /\ \A r \in Admitted : outcome[r] = None =>
       \/ r \in queue
       \/ \E w \in Workers :
            /\ r \in batch[w]
            /\ r \in todo[w] \/ (r \in active[w] /\ pc[w] # "finishing")

\* stats() taken at any moment adds up: what was accepted is queued, in flight
\* or completed, whatever the workers' counters lag behind the promises.
Conservation ==
  /\ TypeOK
  /\ accepted = Cardinality(queue) + in_flight + completed
  /\ in_flight = Cardinality(Executing)

\* Between its admission and its answer a row is in one place, and the counters,
\* which move under other locks than the rows do, never say anything else.
RowsAccounted == NoRowLost /\ Conservation

\* shutdown() "drains accepted work": when any caller of it has returned, from
\* then on no worker runs, nothing is queued and every admitted row is answered.
ShutdownDrains ==
  (\E k \in Closers : closer[k] = "returned") =>
    /\ queue = {} /\ in_flight = 0 /\ accepted = completed
    /\ \A w \in Workers : pc[w] = "exited"
    /\ \A r \in Admitted : outcome[r] # None

\* "The oldest queued row selects the next bucket" (docs/BATCHING.md): a microbatch
\* fits one backend call, holds rows of one length bucket, and leaves behind neither the
\* oldest row nor, of its bucket, a row older than one it takes.
OldestFirst ==
  [][\A w \in Workers : batch[w] = {} /\ batch'[w] # {} =>
       /\ Cardinality(batch'[w]) <= MaxBatch
       /\ \A r, s \in batch'[w] : Bucket[r] = Bucket[s]
       /\ \A s \in queue' : \E r \in batch'[w] : Before(r, s)
       /\ \A r \in batch'[w], s \in queue' : Bucket[r] = Bucket[s] => Before(r, s)]_vars

\* Every blocking call returns, and so does every caller of shutdown(), however many
\* call it at once: no wakeup is lost, no row is left behind unanswered.
CallsReturn ==
  /\ \A c \in Calls \ Callbacks : reply[c] = "pending" ~> reply[c] \in Outcomes
  /\ \A k \in Closers : closer[k] = "locking" ~> closer[k] = "returned"

\* The promise of include/jevt/batching.hpp: callers cannot tell the pool from
\* an executor that admits whole calls, answers each row once and drains.
Executor == INSTANCE BoundedExecutor WITH
  pending <- {r \in Admitted : outcome[r] = None},
  dead    <- cancelled \cup expired,
  open    <- ~stopping,
  drained <- {k \in Closers : closer[k] = "returned"},
  Limit   <- Capacity + Cardinality(Workers) * MaxBatch
ImplementsExecutor == Executor!Spec
=============================================================================
