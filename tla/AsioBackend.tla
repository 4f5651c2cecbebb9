----------------------------- MODULE AsioBackend -----------------------------
(***************************************************************************)
(* jevt::asio_backend (src/include/jevt/asio.hpp) over the pool of         *)
(* Batching: who keeps the pool alive, and which thread destroys it.       *)
(*                                                                         *)
(* The pool is shared by the asio_backend object (the handle) and by every *)
(* operation not yet delivered.  An operation is submit_callback() with a  *)
(* callback that posts the caller's handler to an executor (external): it  *)
(* runs the handler later, on a thread of its own.  Whoever drops the last *)
(* reference runs the pool's destructor, that is shutdown().               *)
(*                                                                         *)
(* `use` says how the pool is used: directly by its callers, or through    *)
(* an asio_backend, which makes callback calls only.                       *)
(***************************************************************************)
EXTENDS Batching

CONSTANTS
  Uses,       \* records: calls made, closers (threads that call shutdown()), owned, and
              \* the answers the backend may give
  Destructor  \* the closer that stands for ~batching_backend

ASSUME AsioAssumption ==
  \A u \in Uses : /\ u.calls \subseteq Calls /\ u.closers \subseteq Closers
                  /\ u.owned \in BOOLEAN /\ u.answers \subseteq Answers

VARIABLES
  use,
  handle,     \* the asio_backend exists
  stage,      \* of a call's operation: its state is held by the job's callback
              \* ("pending"), by the handler posted ("posted"), by nobody
  inside,     \* callbacks a thread is executing, after the post
  kept,       \* those that still hold a reference
  destroyer   \* the thread that dropped the last reference

asio == <<use, handle, stage, inside, kept, destroyer>>
allVars == <<vars, asio>>

AsioInit ==
  /\ Init
  /\ use \in Uses /\ handle = use.owned
  /\ stage = [c \in Calls |-> "none"] /\ inside = {} /\ kept = {}
  /\ destroyer = "nobody"

Undelivered(s) == {c \in Calls : s[c] \in {"pending", "posted"}}

\* A thread dropped a reference; it destroys the pool if that was the last one.
Dropped(thread) ==
  destroyer' = IF handle' \/ kept' # {} \/ Undelivered(stage') # {} THEN "nobody" ELSE thread

\* A worker is in a callback: it called it and it has not returned.
Calling(c) == c \in inside \/ (stage[c] = "pending" /\ outcome[<<c, 1>>] # None)
Busy(w) == \E r \in batch[w] : Calling(r[1])

-----------------------------------------------------------------------------
\* async_predict: the operation holds the pool from here on.
Initiate(c) ==
  /\ use.owned /\ handle
  /\ EnqueueCallback(c)
  /\ stage' = [stage EXCEPT ![c] = "pending"]
  /\ UNCHANGED <<use, handle, inside, kept, destroyer>>

\* Mutant: the callback posts a copy of the state.
KeptCopy(c) == kept \cup {c}

Kept(c) == kept

\* The callback, on a worker or inline when the pool rejects the row: the last
\* reference it has moves into the handler it posts.
Post(c) ==
  /\ stage[c] = "pending" /\ outcome[<<c, 1>>] # None
  /\ stage' = [stage EXCEPT ![c] = "posted"]
  /\ kept' = Kept(c) /\ inside' = inside \cup {c}
  /\ UNCHANGED <<vars, use, handle, destroyer>>

PostReturns(c) ==
  /\ c \in inside
  /\ inside' = inside \ {c} /\ kept' = kept \ {c}
  /\ UNCHANGED <<vars, use, handle, stage>>
  /\ IF c \in kept THEN Dropped("worker") ELSE UNCHANGED destroyer

\* The executor runs the handler and destroys it, and the state with it.
Deliver(c) ==
  /\ stage[c] = "posted"
  /\ stage' = [stage EXCEPT ![c] = "delivered"]
  /\ UNCHANGED <<vars, use, handle, inside, kept>>
  /\ Dropped("executor")

\* ~asio_backend, when its owner is in none of its calls.
DropHandle ==
  /\ use.owned /\ handle
  /\ \A k \in Closers : closer[k] \in {"out", "returned"}
  /\ \A c \in Calls : Calling(c) => arrival[c] # 0
  /\ handle' = FALSE
  /\ UNCHANGED <<vars, use, stage, inside, kept>>
  /\ Dropped("owner")

\* shutdown() through the handle, or by the destructor; a worker may not.
Close(k) ==
  /\ k \in use.closers
  /\ use.owned => IF k = Destructor THEN destroyer \notin {"nobody", "worker"} ELSE handle
  /\ Shutdown(k)
  /\ UNCHANGED asio

-----------------------------------------------------------------------------
PoolStep ==
  /\ \/ \E c \in use.calls : (~use.owned /\ (Enqueue(c) \/ EnqueueCallback(c))) \/ Return(c)
     \/ \E r \in Rows : Cancel(r) \/ Expire(r)
     \/ Elapse
     \/ \E w \in Workers : ~Busy(w) /\ WorkerStep(w)
     \/ \E k \in Closers : LockJoin(k) \/ Joined(k)
  /\ answer' \in [Workers -> use.answers \cup {None}]  \* of the backend in this use
  /\ UNCHANGED asio

AsioNext ==
  \/ PoolStep
  \/ \E c \in use.calls : Initiate(c) \/ Post(c) \/ PostReturns(c) \/ Deliver(c)
  \/ DropHandle
  \/ \E k \in Closers : Close(k)

\* Besides Batching!Fairness: callbacks return, the executor runs what is posted.
AsioFairness ==
  /\ WF_allVars(Elapse /\ UNCHANGED asio)
  /\ \A c \in Calls : /\ WF_allVars(Return(c) /\ UNCHANGED asio)
                      /\ WF_allVars(Post(c) \/ PostReturns(c)) /\ WF_allVars(Deliver(c))
  /\ \A w \in Workers : WF_allVars(~Busy(w) /\ Progress(w) /\ UNCHANGED asio)
  /\ \A k \in Closers : WF_allVars((LockJoin(k) \/ Joined(k)) /\ UNCHANGED asio)

AsioSpec == AsioInit /\ [][AsioNext]_allVars /\ AsioFairness

-----------------------------------------------------------------------------
AsioTypeOK ==
  /\ use \in Uses /\ handle \in BOOLEAN
  /\ stage \in [Calls -> {"none", "pending", "posted", "delivered"}]
  /\ inside \subseteq Calls /\ kept \subseteq inside
  /\ destroyer \in {"nobody", "worker", "executor", "owner"}

\* "Keeping a worker-side copy could destroy/join the pool on its own worker", "each
\* operation retains the pool until its posted completion is delivered" (asio.hpp:40,
\* 53): the pool is destroyed by no worker of its own, and never under an operation.
PoolOutlivesOperations ==
  /\ AsioTypeOK
  /\ destroyer # "worker"
  /\ destroyer # "nobody" => ~handle /\ Undelivered(stage) = {} /\ queue = {}

\* Every asynchronous operation calls its handler, also one that is rejected, and one
\* whose handle is gone, and one that is running when the pool is shut down.
HandlersCalled == \A c \in Callbacks : stage[c] = "pending" ~> stage[c] = "delivered"

\* The pool owes everyone who waits an answer: those who block in predict_batch or in
\* shutdown(), on whatever thread, and those who left a handler.
EveryoneAnswered == CallsReturn /\ HandlersCalled
=============================================================================
