# A verification development of jevtpp

`jevtpp` is a C++20 library that puts typed decisions ("which of these
options?", "is this predicate true?") in front of inference backends: a local
ONNX model (Laya), a remote HTTP service, or anything that implements
`jevt::backend`.  Around that it has a batching worker pool, caches, a bounded
knowledge store, a decision graph, a skill lifecycle with verified outcomes,
and a diagnostics object with an HTTP server.  Its largest example, a game
dashboard, puts a learning agent and a slow model on top of it.

This directory holds TLA+ models of the parts of the library that keep state,
the TLC configurations that check them on small instances, and TLAPS proofs of
theorems about seventeen of them.  Every module is translated from the C++ source;
the comments name the member function, the field or the line of a document that
a definition or a property is about.  `PROJECT.json` lists the components, the
runs, the mutants each property must reject, the hazards, the theorems, and the
source lines of every definition.

Contents: [1. The system](#1-the-system) ·
[2. Modules](#2-modules) · [3. Runs](#3-runs) ·
[4. Fairness](#4-fairness) · [5. Proofs](#5-proofs) ·
[6. Disagreements found](#6-disagreements-found) ·
[7. What is left out](#7-what-is-left-out) · [8. Plan](#8-plan) ·
[9. Running it](#9-running-it)

## 1. The system

```
 application ── runtime / system_one ──► backend interface
                    │                      ├─ batching_backend ◄── asio_backend
                    │                      │       └─► wrapped backend
                    │                      ├─ laya_backend (head cache, buffer pool)
                    │                      └─ typesafe_backend ──► http_transport (curl)
                    └─► Diagnostics ◄── HttpServer
 decision_graph · skills · experience · knowledge_graph · revisioned_cache

 mario_dashboard:  runner ──► control process: KnowledgeMemory, AdaptiveAgent
                     │  ▲         (a line a frame)       └─► arbitrate
                     ▼  └── plan ranking, intent gate
                   StrategyWorker ──► a model, frames later
```

### batching_backend — `src/batching.cpp`

*State*: a deque of jobs, `stopping`, four counters, and per worker thread the
batch it is running; one mutex and one condition variable.
*Operations*: `submit`, `predict`, `predict_batch` (futures), `submit_callback`,
`shutdown` (and the destructor), `stats`; the workers' loop `run`.
*Interacts*: callers block on futures or are called back from workers; workers
call the wrapped backend without the lock; the caller's stop tokens and
deadlines are read at preflight and when a job finishes.
*Hard*: workers wait with a deadline taken from one row and may find another one
at the front; rows of other length buckets are skipped; a batch can fail as a
whole after some of its rows were answered; several threads shut down at once.
*Correct means*: a call is admitted whole or refused; an admitted row is
answered once, in time or not at all; counters add up at any moment; the oldest
row picks the bucket and nothing overtakes it; no worker sleeps through work;
`shutdown()` returns to every caller, with everything drained.

### asio_backend — `include/jevt/asio.hpp`

*State*: a shared reference to the pool, held by the object and by every
operation that is not delivered.  *Operations*: `async_predict`, `shutdown`,
destruction.  *Interacts*: the pool's callback posts the handler to an executor.
*Hard*: which thread drops the last reference; a worker that did would join
itself.  *Correct means*: no worker destroys its pool, no operation loses its
pool, every handler is called.

### revisioned_cache — `include/jevt/cache.hpp`

*State*: map, recency list, byte count, the current revisions, a ticket counter.
*Operations*: `advance`, `invalidate`, `put`, `get`, `stats`; all under one
mutex.  *Interacts*: asynchronous tasks keep a ticket while they
prepare a value.  *Hard*: values that come late, revisions that come back to
what they were, the counter's wrap, an allocation that fails half-way through
`put`.  *Correct means*: a hit is never of other revisions than the ticket's;
map, list and byte count agree and stay within both limits.

### knowledge_graph — `include/jevt/knowledge.hpp`

*State*: facts with a key, the set of superseded keys, a window of event ids,
the current run, `generation()`.  *Operations*: `ingest` and its variants,
`begin_run`, `session_snapshot` / `restore_session_snapshot`, `clear`; `query` and
`compile_knowledge_context` read.  Not synchronised.
*Hard*: completions come in any order and repeatedly; values alternate
(A, B, A); facts are evicted while their keys are in other containers; a
snapshot has to be acceptable to the graph that restores it; callers cache by
`generation()`.  *Correct means*: one current version per identity, the newest;
no key of a fact that is gone; no change without a new generation; what a query or a
token budget leaves out had to be left out.

### runtime, system_one and Diagnostics — `include/jevt/{runtime,system_one,diagnostics}.hpp`, `src/diagnostics.cpp`

*State*: `Diagnostics` has a total, counters per decision (bounded), a latency
histogram, and a ring of sampled calls; evaluations have locals only.
*Operations*: `choose`, `evaluate` (predicate and System One), `record_call`,
`reset`, `snapshot`.  *Interacts*: several evaluating threads share one
`Diagnostics`; rows of an answer share usage reports.  *Hard*: a backend that
answers late, short, invalid or by throwing; an allocation that fails inside
`record_call`; more decisions than there is room for; resets between calls.
*Correct means*: counters, percentiles and samples are of the calls recorded; a
late answer is an error; a shared usage report is counted once.

### HttpServer — `src/http_server.cpp`

*State*: atomics for the running flag and the listening socket, the active
client under a mutex, a lifecycle mutex, the accept thread.  *Operations*:
`start`, `stop`, `port`, `url`; the accept loop and one client's service.
*Interacts*: with the process's descriptor table, which it shares with every
other server.  *Hard*: descriptor numbers are reused at once; a client is
accepted while `stop()` runs; clients stall.  *Correct means*: what it shuts
down or closes is its own; a stopped server has no thread and no descriptor;
every client is dealt with; `stop()` returns.

### laya_backend — `src/laya.cpp`

*State*: a cache of prepared question heads (map, insertion order, bytes) under
one mutex, a pool of tensor buffers under another, one model session.
*Operation*: `predict_batch` (and `predict`).  *Hard*: two calls miss the same
head; a failing allocation in the middle of an insertion; buffers that carry
one call's tokens to the next; cancellation while the session runs.
*Correct means*: cache bookkeeping agrees; a pooled buffer is clean and a leased
one exclusive; an answer is of the call's own rows and never late.
`src/laya_native.cpp` is a numerical forward pass over mapped weights.

### typesafe_backend and the transport — `src/remote.cpp`, `src/curl_transport.cpp`

*State*: none between calls; within one, the groups of rows that share a state,
the retry counter, the backoff and deadlines.  The transport keeps a pool of
connections under a mutex.  *Operations*: `predict_batch`, `list_models`;
`perform`.  *Interacts*: calls of several threads share the pool; the retry loop
relies on `perform` to keep the deadline it is given.
*Hard*: retries, `Retry-After`, per-attempt and total deadlines, cancellation
during a wait, answers to be put back in the caller's order; data that keeps
arriving, early returns with a connection leased or a transfer attached.
*Correct means*: only what may be retried is, not before its time, and never
past the budget; each row gets the answer to its own state; a connection is one
caller's at a time.

### decision_graph, operator_registry — `include/jevt/{graph,operator_registry,graph_json}.hpp`

*State*: nodes, dependencies and an order computed once; an evaluation has a
trace.  *Operations*: construction, `evaluate`.  *Hard*: cycles beside
orderable nodes, a deadline that passes inside a callback, outputs made for
another snapshot.  *Correct means*: exactly the cyclic graphs are refused, every
node comes after its dependencies, only a current success is actionable.  The
registry is a map of factories in front of it.

### skills and experience — `include/jevt/{skill,experience}.hpp`

*State*: the status, attempt and evidence of one `skill_execution`;
`outcome_memory` has records per context, an insertion order and a window of
attempt ids.  *Operations*: `arbitrate` (keeps nothing); `start`, `begin_verification`,
`verify`, `interrupt`; `record`, `clear`.  *Interacts*: an adapter starts
attempts, a verifier supplies evidence, the adapter reports outcomes to the
memory (docs/SKILLS.md); proposals are made asynchronously and arbitrated
later.  *Hard*: proposals overtaken by a run, facts or candidates; evidence late,
repeated, out of order, of
another attempt or run; reports repeated under another context.
*Correct means*: only an admitted proposal is executed, and the best of them; an
outcome rests on evidence of its own attempt and is final;
an attempt is labelled once; the records are those of the labels.

### The dashboard's memory — `examples/mario_dashboard/experience_memory.hpp`

*State* of `KnowledgeMemory`: episodes and their identities, map columns and enemy
types (both bounded), the flight the player is in, counts of outcomes.
*Operations*: `observe` a frame, `export`, `import`, `reset`.  *Interacts*: the
control process feeds it, saves it, restores it.  *Hard*: frames repeated,
missing, failing half-way; a death seen in RAM and again in the session; flights
across gaps; a saved memory that grew past what a load accepts.
*Correct means*: an outcome and a flight are counted once, the newest columns
stay, what is saved can be loaded.

### The dashboard's agent — `adaptive_agent.hpp`

*State* of `AdaptiveAgent`: the flight and its context, forecasts, holds learnt
from deaths, tracked enemies and the target, an attack with its phases, a crossing,
a committed landing.  *Operations*: `observe`, `tasks`, `engage`, `execute`, once
a frame, through the nodes of a `decision_graph` (`fast_graph.cpp`).
*Hard*: outcomes that arrive a life or a stage after their cause; slots that RAM
reuses for other enemies; phases that outlive what they rested on.
*Correct means*: one outcome per life and flight, credited to the flight that
earned it; tracked = discovered − archived − confirmed; attacks, crossings and
landings only while their evidence lasts.

### The dashboard's model — `async_runner.py`, `plan_ranking.hpp`, `mario_demo.cpp`

*State*: the runner's epoch and mode, the request in flight, the latest judgment.
*Operations*: poll, step and submit in a loop; commands switch the model or the
mode, or start a run again.  *Hard*: an answer comes back frames later, after the
life, the stage, the run, the mode or the model has changed, for plans that no longer
exist.  *Correct means*: no stale judgment shapes a line.

### The rest

`core.hpp` (value types, `execution_error`), `testing.hpp` (a scripted backend),
`fast_controller.hpp` (the dashboard's reactive controller: geometry over one
frame), benchmarks, build files, scripts and the website.

## 2. Modules

Names are the source's wherever TLA+ allows it.  In every module an action is one
critical section, one atomic access, or one step outside of a lock that somebody
else can observe; what is private to a thread between two such points is part of
the step before it.  Operators whose comment starts with *Mutant:* are never used
by a specification: each is a plausible bug in the definition that follows it, and
`PROJECT.json` says which property it breaks.

| Module | Code | Kind |
|---|---|---|
| `Batching` | `src/batching.cpp` | component; refines `BoundedExecutor` |
| `AsioBackend` | `include/jevt/asio.hpp` | extends and composes `Batching` |
| `BoundedExecutor` | the promise of `include/jevt/batching.hpp` | abstract specification |
| `RevisionedCache` | `include/jevt/cache.hpp` | component |
| `KnowledgeGraph` | `include/jevt/knowledge.hpp` | component |
| `KnowledgeContext` | `include/jevt/knowledge.hpp`, `query` and `compile_knowledge_context` | operators over a state of `KnowledgeGraph` |
| `Diagnostics` | `src/diagnostics.cpp` | component without a `Next` of its own |
| `Evaluation` | `include/jevt/{runtime,system_one}.hpp` | extends and composes `Diagnostics` |
| `HttpServer` | `src/http_server.cpp` | component with its kernel objects |
| `Laya` | `src/laya.cpp` | component |
| `RemoteBackend` | `src/remote.cpp` | component with a clock and any transport |
| `RemoteOverCurl` | `src/curl_transport.cpp` | extends `RemoteBackend`, and refines it |
| `DecisionGraph` | `include/jevt/graph.hpp` | component |
| `SkillExecution` | `include/jevt/skill.hpp`, `skill_execution` | component |
| `OutcomeMemory` | `include/jevt/experience.hpp` | component without a `Next` of its own |
| `SkillRuntime` | docs/SKILLS.md | composes `SkillExecution` and `OutcomeMemory` |
| `SkillArbitration` | `include/jevt/skill.hpp`, `arbitrate` | operators |
| `SkillDispatch` | docs/SKILLS.md | composes `SkillRuntime` and `SkillArbitration`, and refines the former |
| `ExperienceMemory` | `mario_dashboard/experience_memory.hpp` | component with the game that feeds it |
| `AgentTracks` | `mario_dashboard/adaptive_agent.hpp`, enemies and attacks | operators on the agent |
| `AdaptiveAgent` | `mario_dashboard/adaptive_agent.hpp` | extends `AgentTracks` and `SkillArbitration`; component with its game |
| `PlanJudgment` | `async_runner.py`, `plan_ranking.hpp`, `mario_demo.cpp`, `fast_graph.cpp` | extends and composes `AdaptiveAgent` |
| `MC*` | | instances for TLC |
| `*Proofs` | | theorems: of `Batching` and `AsioBackend`, `RevisionedCache`, `KnowledgeGraph` and `KnowledgeContext`, `SkillRuntime` and `SkillDispatch`, `RemoteBackend` and `RemoteOverCurl`, `HttpServer`, `Diagnostics` and `Evaluation` (`ObservabilityProofs`), `Laya`, `DecisionGraph` and `ExperienceMemory` (`GraphMemoryProofs`), `AdaptiveAgent` with `AgentTracks` and `PlanJudgment` (in `SkillRuntimeProofs`, with the arbiter they share) |

**Batching.**  The deque is the set `queue` of rows; `arrival`, the stamp of a
call's admission, gives it its order.  `Enqueue` and `EnqueueCallback` are the two
ways in, `Return` is `predict` / `predict_batch` collecting futures.  A worker goes
through `Sleep`, `Exit`, `Anchor` (it starts `wait_until` with the deadline of the
front), `CollectNow`, `Recheck` and `Wake`, then `Preflight` row by row, `Predict`,
`Respond`, `FinishNext` row by row and `Retire`: exactly the critical sections of
`run()` and the points where a promise is set.  Time is one number: `elapsed` says
for which admissions `max_delay` has passed.  `Shutdown`, `LockJoin` and `Joined`
are `shutdown()`, which any number of threads may call.  Under the mapping at the
end of the module the pool is a `BoundedExecutor`: rows admitted whole or refused,
a row answered once and never `ok` after its caller gave up, shutdown returning
only once everything is answered.  The executor's admission bounds are stated from
both sides: it never holds more than `Capacity` plus what workers can run, and it
never refuses what fits beside the unanswered rows.

**AsioBackend.**  `Initiate` is `async_predict`; from then on `stage` says who holds
the operation's state and the reference to the pool in it: the job's callback
(`Post`, on a worker or inline), the handler in the executor (`Deliver`), nobody.
`inside` and `kept` are callbacks that have posted and not returned, and those
that still hold something.  `DropHandle` is the object's destruction, and `Dropped`
finds the thread that runs the pool's destructor.  `use` chooses between a pool used
directly and one owned by an `asio_backend`, so that one module serves both.

**RevisionedCache.**  `entries` and `lru` are the map and the list; a value is the
revision it was prepared under, so that a stale hit can be seen.  `Advance` and
`Join` are `advance()` with new and with current revisions, `Invalidate`, `GetHit`
and `GetExpired` (the outcomes of `get` that change something), `Put` and
`PutThrows` (the map's allocation fails) the rest.  Tasks keep a ticket together
with the revisions they know.  What the code sums entry by entry (`retained_bytes`) is
compared with a count: `BytesOf` of a set of keys is the number of their bytes, and
`Laya` does the same for the heads it caches.

**KnowledgeGraph.**  A version is what `key()` tells apart; `facts_` is the set
`stored` with the order `older`.  `Refresh` and `Insert` are the two ways out of
`ingest_record`, `BeginRun`, `Save`, `Restore` and `Clear` the other operations.
`Clear` together with `Restore` is also a fresh process restoring a snapshot of
an earlier one.

**KnowledgeContext.**  `Query` ranks what is current and not expired at a tick by
priority and recency; `Compile` goes through a set of facts in that order and admits
each whole, or omits it when the tokens of what is admitted so far leave no room.
Both are functions of one state: nothing else may run on the graph meanwhile.  The
loop is a recursive function of the round (`Rounds`), and the tokens of a set of
facts are counted one by one.

**Diagnostics and Evaluation.**  `Record` is `record_call` up to the point its
`reach` argument names: an allocation may fail after the total, or after the
decision's counters.  `Snapshot` is `snapshot()`, `Exported` the cumulative
buckets of `to_prometheus`.  `log` is a history of the calls of this reset window.
Percentiles and sums go through the histogram and the log by recursive functions.
Evaluations call, may be stopped, get rows, an error or an exception, and record.

**HttpServer.**  The descriptor table `fd` is shared by all servers of the process
and hands out the lowest free number, which is what makes stale numbers
dangerous.  `StopCall`, `Unlisten`, `CloseListener`, `Interrupt` and `Join` are
`stop()`; `Loop`, `Load`, `Accept`, `Accepted`, `Failed`, `Admit` and `Release` are
the accept loop, with the load of the number and the call of `accept()` on it apart,
as in the code; `Receive`, `GiveUp`, `Quit` and `Respond` are one client's service.

**Laya.**  A call looks each head up, prepares it without the lock and inserts it,
leases a buffer, fills it, checks for cancellation, runs the session and releases
the buffer, on every path.  Any step outside a lock may fail.  A buffer's content
is the caller whose tokens it holds, and so is an answer.

**RemoteBackend.**  `PredictBatch` and `ListModels` start a call; `Build`, `Send`,
`Perform`, `Judge`, `Wake` and `Parse` are its course; `Cancel` and `Tick` may happen
at any point.  The groups of a batch are a set of sets of rows; `Current` is the one
the code's vector has next.  In half of the initial states (`punctual`) threads are prompt and
the transport keeps its deadline, and only transfers and waits take time.

**RemoteOverCurl** puts `curl_transport::perform()` where `RemoteBackend` has an
arbitrary `Perform`: `Lease`, `Setup`, `Poll`, `PollReturns`, `Finished`, `Detach`
and `Leave`, for the backend's call and for `Peers` that share the pool of
connections.  `CurlTick` lets time pass in `curl_multi_poll()` only when threads are
prompt.  That `RemoteBackend`'s specification still holds is the property
`ImplementsTransport`: what that module assumes of a transport this one delivers.

**DecisionGraph.**  The constructor's queue runs one node per step (`OrderNext`),
`Evaluate` starts an evaluation, `Blocked`, `Run` and `Return` treat one node;
`Expire` may come before, in and after a callback.

**SkillExecution, OutcomeMemory, SkillRuntime.**  `Verify` takes any evidence that
could have been observed by now, of any attempt and any run, as often as it likes.
`Report` labels an attempt that is over in the memory, under any context, again and
again.  `SkillRuntime` is the adapter docs/SKILLS.md describes.

**SkillArbitration, SkillDispatch.**  `Propose` records the snapshot a proposal was
made for; frames, runs, facts and candidates move on (`World`, `Changes`) until
`Decide` calls `arbitrate` and `Dispatch` starts what it selected.  The snapshot it
decides on (`Basis`) may be `behind` the frames a source has seen.  The loop of
`arbitrate` is a recursive function of the round (`Rounds`, by `Better`).  `Arbitration`
does not repeat the code's comparisons: it is stated over each proposal's history
(`age`, `replaced`) and as an order on all of them.  The arbiter keeps nothing, so
it is put in front of the first attempt only.

**ExperienceMemory.**  One line to the control process is one action (`Show`,
`Again`, `GameOver`, `NextEpoch`, `Save`, `Restart`), and the memory is one value.
`Play` shows the next frame of the game, `Again` the last one; `Restart` loads the file.
A frame is what `observe` tells apart of it: the level, the player's motion, the columns in view,
the enemies by slot, whether the frame fails half-way.  `base`, `counted`, `trail`
are histories the samples are compared with.  The loops over columns and enemies are
recursive functions of the place (`Saw`, `Met`).

**AgentTracks, AdaptiveAgent.**  The agent `k` is one value; a line is
`Execute(Engage(Tasks(Observe(k, o), o), o), o)`, the order of the graph's nodes.
Positions are cells on a line; what geometry says (a pose, a window, a support, a
plan and where it lands) is part of the scene, so that every answer the geometry
could give is tried; `Scene` says what it may be.  `told` is what the frames have shown
since the agent's reset, the reference its learning is compared with.

**PlanJudgment.**  `Turn` is one turn of the runner's loop (poll, step, submit);
`Answer` is the worker's thread; `SwitchModel`, `SetMode`, `StartAgain` and
`GiveUp` are the commands.  `Offered`, `Validated`, `Ranked` and `Intent` are
`offer()`, `validate()`, `apply()` and the intent gate.

## 3. Runs

Each passing run finishes within three minutes with two workers.

| Run | States | Question |
|---|---:|---|
| `batching` | 79,330 | Is every admitted row kept, answered once, counted and not overtaken; is the pool a bounded executor; who destroys it; is everyone who waits answered? |
| `cache` | 28,407 | Can a late value be hit under other revisions; do map, list and bytes agree? |
| `knowledge` | 86,972 | One current version, the newest; no dangling key; snapshots restorable; generation moves; queries current and contexts full. |
| `http` | 262,363 | Is what a server shuts down, closes or serves its own, is nothing left, are clients released, does `stop()` return? |
| `http_reuse` | – | Does `stop()` return in every process? (Not with a second server.) |
| `laya` | 17,681 | Cache bookkeeping, buffers, answers and returns under concurrent calls. |
| `remote` | 259,208 | What is retried and when, rows and answers, the budget, leased connections, and whether the curl transport is the transport the backend assumes. |
| `skill` | 483,240 | Which proposal is executed, what an outcome rests on, that it is final, and what the memory makes of reports. |
| `graph` | 12,410 | Topological order, refusal of cycles, provenance, lateness. |
| `evaluation` | 197,556 | Counters, percentiles, samples and usage under concurrent, failing recordings. |
| `memory` | 188,866 | Outcomes and flights counted once and whole, the newest columns kept, saves loadable. |
| `agent` | 360,060 | One credit per life and flight, the hunt's books, phases after their evidence, landings over their support, no stale judgment. |

*Bounds and why they are enough.*

* **batching**: a two-row `predict_batch` and two callback requests, a queue and a
  batch of two, two workers.  Overload, partial admission (which must not happen) and
  mixed batches are possible; the rows of the pair are in different buckets, so rows
  are skipped; one can be cancelled and the other expires.  Two workers are needed
  for one to hold what another could lose.  The pool is used in four ways, each with
  answers of its own: by the pair and a callback with one closer, the backend throwing;
  by a callback with two closers that join at once, and by the pair without a closer,
  the backend answering, failing or throwing; and through an `asio_backend` with both
  callbacks and two closers, one of which is the destructor, the backend answering
  with the wrong number of rows, the longest way through `finish`.  All answers in all
  of them are left to the theorems: the run would take longer than five minutes.
* **cache**: two tasks are needed for a late write; three keys overflow two entries,
  and sizes 1–3 against 4 bytes make the two limits bind separately; two revisions
  can come back; four tickets wrap.
* **knowledge**: two objects of one identity alternate (A, B, A), in two runs and
  two scopes (observation facts that outlive their tick by one, session facts), over
  three ticks; a session fact takes two tokens and the other one, under budgets with
  room for none to four, so that a fact that fits stands behind one that does not;
  two facts and a window of one event make eviction and forgetting happen at once.
  The generation wraps at 2: a change is seen by `GenerationMoves` only if it moves
  the counter, whatever its width.  Evidence has one kind here; ranks change no
  property of the run.
* **http**: two servers over three numbers make every number reusable at once; the
  one peer may stall, trickle or finish; one server may be unable to create its
  thread.  **http_reuse** has no peers: the hang needs nobody to connect.
* **laya**: three heads of which one fills the cache, one does not fit in the
  model's head and two share a batch; one buffer may be kept, two callers need one.
* **remote**: three rows of one text in two kinds, so that the last joins the first
  again; one retry, a call's budget of 3 ticks with attempts of 2, a Retry-After that
  may or may not fit, poll slices of 2 that may outlast what is left; one other
  caller and one retained connection, so that the pool is empty, full and contended.
* **skill**: three attempts against a window of two, three contexts against a
  capacity of two, two runs whose frames both start at 0; seven kinds of offers
  (two regular priorities and two utilities, an emergency above them, unknown, false
  and invalid ones), two at a time, while facts and candidates change once; the
  adapter's snapshot is one frame behind at most, which is what puts a proposal ahead
  of it.
* **graph**: all 512 graphs of three nodes, two of them demanding, two snapshots.
* **evaluation**: two decisions against a limit of one, sampling every other call
  into a ring of one, three calls between resets, a latency below zero and one
  beyond the last bound, a shared usage report.
* **memory**: games of five lines over two columns of memory and three in the level,
  a table of one enemy type, two runs and two epochs; skips of five frames against a
  longest gap of four.
* **agent**: five families of games, each with the scenes one part of the agent needs:
  flights and falls (7 lines), hunts with two tracks (5), crossings and committed
  landings, with and without their support in sight (6), and rankings (5), in which a
  model is asked while lives, modes and models change; of two plans each is scored above
  deferring or not.  The code's frame counts (a takeoff's 8, an attempt's 360, a
  judgment's 45) are constants here, and set to one or two frames so that they run
  out; the 6 cells an entity may stray (`Stray`) are more than two frames allow.

Symmetry is used where values are interchangeable and every checked formula is a
state or an action property; the runs with liveness use none.
`CHECK_DEADLOCK FALSE` is set where the modelled program really stops: a pool whose
calls are over and whose workers have exited (`batching`), graphs that were refused
or evaluated on their last snapshot (`graph`), adapters that have used up their
attempts (`skill`), and games that have used up their lines (`memory`, `agent`).

## 4. Fairness

Fairness says what the platform provides and no more; no user of a component ever
has to do anything.

* **Batching**: a clock advances (`Elapse`), a caller whose futures are ready goes
  on (`Return`), a worker that is not blocked runs and the backend it called returns
  (`Progress`), a closer that may lock or join does.  A sleeping worker is only
  woken by a notification or, in `wait_until`, by its own deadline; spurious
  wakeups may happen and are not relied on.  Weak fairness is enough because nothing
  a worker waits for is taken back under it for ever: of two workers that compete
  for a queue one succeeds.
* **AsioBackend**: besides that, callbacks return and the executor runs what is
  posted to it (`AsioFairness`).  Nobody has to drop a handle.
* **HttpServer**: operators inside `stop()` and workers run; `kIdleTimeout` passes.
  Peers owe nothing, not even a byte.  A worker blocked in `accept()` is not
  enabled until somebody connects or the socket is shut down.
* **Laya**: a call's thread runs, and `session->Run` returns.
* **RemoteBackend** over its transport: the call's thread runs, inside `perform()`,
  too, and the clock advances up to `Horizon`, which lies beyond every deadline.
  The clock's fairness is strong: data may arrive in every poll round, and time passes
  all the same.  Of the service nothing is asked; rounds end because the deadline is
  looked at in each of them.

The other modules are checked for safety only: their components make no progress
of their own.

## 5. Proofs

Every theorem holds for all values of the constants under the modules' named
assumptions (`BatchingAssumption`, `AsioAssumption`, `CacheAssumption`,
`KnowledgeAssumption` and `ContextAssumption`, `SkillAssumption`,
`DispatchAssumption` and `MemoryAssumption`, `RemoteAssumption`, `CurlAssumption`,
`HttpAssumption`, `DiagnosticsAssumption` and `EvaluationAssumption`,
`LayaAssumption`, `GraphAssumption`, `MemoryAssumption` of the dashboard's memory, and
`AgentAssumption`, `TracksAssumption`, `SceneAssumption` and `JudgmentAssumption` of
its agent), which only say what types and limits the code's constructors accept, and
of what shape a frame or a scene is.

| Theorem | Says | Argument |
|---|---|---|
| `BatchingProofs!TypeCorrect` | `TypeOK` | `IInv` below |
| `BatchingProofs!RowsAndCounters` | `RowsAccounted`: no row lost or doubled, counters add up; with it the queue's limit | |
| `BatchingProofs!Draining` | `ShutdownDrains` | |
| `BatchingProofs!OldestRowsFirst` | `OldestFirst` | `IInv` |
| `BatchingProofs!PoolIsExecutor` | `ImplementsExecutor`: the pool refines `BoundedExecutor` | `RInv`, step by step |
| `BatchingProofs!PoolOutlives` | `PoolOutlivesOperations` | `AInv` |
| `BatchingProofs!PoolOverAsio` | a pool under an `asio_backend` is a pool: `RowsAccounted`, `ShutdownDrains` | step by step |
| `RevisionedCacheProofs!FenceHolds` | `HitIsFresh` | `FenceInv` |
| `RevisionedCacheProofs!StoreConsistent` | `Consistent`: map, list, bytes and limits | `CacheInv` |
| `KnowledgeGraphProofs!Consistency` | `FactsConsistent`: one current version, the newest, nothing dangles | `IInv` |
| `KnowledgeGraphProofs!GenerationTracks` | `GenerationMoves` | `IInv` and the counter's range |
| `KnowledgeGraphProofs!SnapshotsRestorable` | `SnapshotRestorable`: types, bounded storage, a snapshot can be restored | `SInv` |
| `KnowledgeGraphProofs!ContextRight` | `ContextSound`: queries current and newest first, contexts full | `IInv`, `SInv`, least counterexample |
| `SkillRuntimeProofs!Supported` | `OutcomeSupported` | `ExecutionInv` |
| `SkillRuntimeProofs!Forward` | `AttemptForward` | |
| `SkillRuntimeProofs!Labelled` | `LabelledOnce` | `MemoryInv` |
| `SkillRuntimeProofs!Recorded` | `RecordsAgree` | `RecordsInv` |
| `SkillRuntimeProofs!Dispatched` | the four of them behind proposals and `arbitrate` | step by step |
| `SkillRuntimeProofs!Arbitrated` | `Arbitration` | `ProposalInv`, least counterexample |
| `SkillRuntimeProofs!LearnsHonestly` | `LearningHonest`: a death is learnt from once, a forecast is scored after its action was held | `AgentInv` |
| `SkillRuntimeProofs!HuntsSoundly` | `HuntSound`: entities are conserved, attacks supported | `AgentInv` |
| `SkillRuntimeProofs!CreditsItsOwn` | `CreditIsOwn` | `AgentInv` |
| `SkillRuntimeProofs!GoesInOrder` | `PhasesInOrder`: crossings after their hazard, landings over their support | `AgentInv` |
| `SkillRuntimeProofs!JudgedNow` | `JudgmentCurrent` | `JudgmentInv` |
| `RemoteBackendProofs!BudgetKept` | `WithinBudget` | `IInv` |
| `RemoteBackendProofs!RetriesJustified` | `RetriesAllowed`: after what, when and how often a group is sent again | `IInv`, `RowsInv` |
| `RemoteBackendProofs!TransportImplemented` | `ImplementsTransport` | `CInv` |
| `RemoteBackendProofs!OverCurl` | `WithinBudget`, `RetriesAllowed`, `RowsMatch` over the curl transport | the refinement |
| `RemoteBackendProofs!Exclusive` | `LeasesExclusive` | `LInv` |
| `RemoteBackendProofs!RowsAnswered` | `RowsMatch`: a call that succeeds answers every row from its own state | `RowsInv` |
| `ObservabilityProofs!DescriptorsAreKept` | `DescriptorsKept`: what is shut down, closed or served; not what `accept()` is called on | `DInv` |
| `ObservabilityProofs!StatsAreTrue` | `StatsTrue`: counters, percentiles, cumulative buckets and samples tell of the calls of this reset window | `EvaluationInv`, least counterexample |
| `ObservabilityProofs!UsageIsCountedOnce` | `UsageOnce`: each usage report counts once | `EvaluationInv` |
| `LayaProofs!InOrder` | `SharedInOrder`: head cache and pool are in order | `CallInv`, `CacheInv` |
| `LayaProofs!OwnRows` | `OwnAnswer` | `CallInv` |
| `GraphMemoryProofs!Consistent` | `ResultsConsistent`: dependencies first, successes on successes | `GInv` |
| `GraphMemoryProofs!NothingLate` | `NothingAfterDeadline` | `GInv` |
| `GraphMemoryProofs!WhatIsSavedIsLoaded` | `SavedIsLoadable` | `MemoryInv` |
| `GraphMemoryProofs!OnlyWhatWasPlayed` | `SamplesHonest`: outcomes once, flights whole | `MemoryInv` |
| `GraphMemoryProofs!TheNewestStay` | `NewestKept` | `MemoryInv`, least counterexample |

* **Batching.**  That counters add up is not inductive: a worker subtracts the size
  of its batch from `in_flight`, which stays a natural number only because the
  batches are disjoint, finite and counted.  `IInv` adds who holds a row (`Owned`),
  that the counters measure finite sets (`Counted`), what a worker owes at each
  place in `run()` (`Owes`), that an unanswered row is held (`Answered`), and that a
  worker exits only on an empty queue of a stopping pool, where nothing can be
  admitted any more (`Stopped`).  `IsFiniteSet` facts come from
  `FiniteSetTheorems`.  The refinement needs two facts more (`RInv`): that a row
  which is queued has no answer (`Unanswered`), so that what the executor has pending is
  the pool's queue and the workers' hands, and that no worker holds more than a
  batch.  That no more than |Workers| x MaxBatch rows are pending beside the queue
  follows from an injection of the rows in hands into workers and places
  (`ExecutingFits`).  Then each action of the pool is one of the executor or a
  stutter: taking a batch, waiting and waking are stutters, finishing a row is
  `Answer`.
* **AsioBackend.**  A reference is dropped by the executor or the owner because no
  callback keeps one past its post (`kept = {}`), and the last one is dropped with an
  empty deque because a queued row's operation is still pending.  For that a queued
  row must be unanswered (`Unanswered` of the pool), which rests on who holds rows
  (`IInv`): only a worker answers, and only what it has taken out of the deque.
* **RevisionedCache.**  A hit is fresh because entries are only ever of the current
  revisions *and* a ticket that equals the generation was issued for them;
  `FenceInv` states both, and that ticket 0 is never in force.  For `Consistent`,
  `CacheInv` says of map, list and byte count that they belong together (`Sound`);
  the lemmas say what removing a key, cutting the list where eviction stops and
  putting a key in front make of three that do.  Eviction always comes to a stop
  with room for the new entry: it does at the latest when nothing is left (`MaxIn`).
* **KnowledgeGraph.**  `Restore` brings back facts saved long ago, so the invariant
  has to say of `saved`, too, that it holds one version per identity
  (`GoodSnapshot`).  `Dropping` and `Activating` are the two lemmas all operations
  reduce to: forgetting some facts, and making one version the current one.  Storage
  is bounded because eviction finds exactly one fact to give up: `older` orders the
  stored facts (`Ordered`), and a part of an ordered finite set has a first element,
  by the well-foundedness of strict inclusion (`FirstOfPart`).  A snapshot fits
  because the session facts and the facts of the run are disjoint parts of what is
  stored.  A query lists what it sorts: `Before` is a strict total order on the
  stored facts (`BeforeOrders`, which needs the order of `facts_` for ties, as
  `std::stable_sort` does), so the number of facts before one is different for each,
  and `Ranked` is the inverse of that injection into as many places
  (`RankedLists`).  `Fits` is the invariant of the loop that compiles a context.
* **SkillRuntime.**  `OutcomeSupported` needs that evidence that was accepted is of
  the run the attempt started in (`Accepted`).  `LabelledOnce` rests on
  `SeenIsTail`: the window is the tail of the history of labels, so an attempt
  outside it was labelled at least `Window` labels ago.  For `RecordsAgree` the
  invariant names, for each context, the label it was inserted with (`Since`): what is
  counted is counted since, and those labels stand in the order of insertion.
  `SkillDispatch` starts attempts as any adapter does, so it refines `SkillRuntime`.
  For `Arbitration`, `ProposalInv` ties a proposal's provenance, which the code compares, to its
  history, which the property is about (`Traced`); `Winner` is the invariant of the
  loop.
* **RemoteBackend.**  The clock is bounded because an attempt's expiry and the end
  of a wait are (`Bounded`); a group that is sent again has a retried reply behind
  it and its Retry-After too, unless it is about to be refused (`Justified`).
  `RowsMatch` rests on `RowsInv`: the groups that are left are each of rows of one
  state, and every row outside them has its own answer (`Answered`).
* **RemoteOverCurl.**  A step inside `perform()` is a stutter of `RemoteBackend`,
  `Leave` is its `Perform`, and a tick is its `Tick` because a poll does not outlast
  the attempt's expiry (`CallInside`); the lemma for the slice needs the clock and
  the expiry to be numbers, which is `IInv` of the backend, kept in turn because
  the step is one of the backend's.  `LInv` says at which places of `perform()` a
  connection is held and a transfer attached; that a new connection can always be
  had is a count of the callers (`SomeUnused`).
* **HttpServer.**  Descriptor numbers are reused, so the invariant has to say in whose
  hands each one is (`Owning`), which depends on how far a `stop()` in progress has
  come (`Calling`: it holds the server's lifecycle mutex), on whether the server is
  between `start()` and the end of `stop()` (`Bound`), and on the worker, which has a
  connection from `accept()` to `close()` (`Serving`).
* **Diagnostics and Evaluation.**  `EvaluationInv` says what the log and the counters
  have in common whichever allocation failed (`DiagnosticsInv`), what each evaluation
  in progress has done (`Evaluating`), that the log's bound leaves room for those that
  will still record (`Room`), and that the tokens counted are those of the reports
  recorded (`Accounted`).  Sums over the log are cardinalities: the calls in a bucket,
  up to a bucket, of one decision are parts of the log's positions.  A percentile is
  the first bound whose cumulative bucket reaches the nearest rank, so it does not
  understate it and does not descend; the ring is the last of the calls that were due,
  counted from the newest.
* **Laya.**  `CallInv` says at which places a call holds a buffer and when the tokens
  in it are its own (`Leases`), beside a clean pool; a buffer acquired from the pool
  or made anew is then nobody else's.  `CacheInv` is the cache's half, with the
  lemmas of the revisioned cache's kind: a part of a list without repetition, cut
  where the loop stops, and the bytes that go with it.
* **DecisionGraph.**  `OrderInv` is the invariant of Kahn's algorithm: a node is in
  the order as soon as its dependencies have been taken, and `remaining` counts those
  that have not.  A graph whose order has every node is visited dependencies first,
  so a node's record is not there before its turn, and a demanding one runs on
  successes only (`TraceInv`).
* **ExperienceMemory.**  No two columns of the map have the same order, so fewer than
  `MaxColumns` have fewer than that many newer ones, and what eviction leaves fits
  (`ColumnsEvicted`); loading goes on from the greatest order in the file, which keeps
  that true of a memory that was loaded (`Mapped`).  What a frame shows last has only
  columns of the same frame above it, so it survives (`NewestSurvive`).  `Outcomes`
  says when an outcome is a new one: with a session, everything counted lies behind
  the game's frame, and the event the memory keeps is one of those; without, `recorded`
  is whether the epoch's outcome is among them.  `Playing` adds that the frame shown
  last is not learnt from again.  `Flights` ties a flight in progress, which the code
  keeps as a record of its own, to the history of what was shown since the takeoff.

* **AdaptiveAgent.**  None of the four properties is inductive: each depends on what the
  agent remembers of frames long past, and `told` on what it was really shown.
  `AgentInv` says how the two belong together, in parts that each node of the graph
  keeps or restores: lives and labels (`Books`: a life that goes on has not been counted
  yet, and the ID of an attempt is that of a flight which started earlier), forecasts
  (`Awaited`: what is due has the action in effect and as many frames behind it as it
  does not wait for), the flight (`Aired`: it takes off within the frames it is given),
  crossings and landings (`Waited`), entities (`Tracked`, `InView`).  `Synced` ties the
  agent to the game: it knows the frame before this one, or was reset, or the run is
  another.  The proof follows a line: `Observe` in its stages (boundary, flight,
  forecasts, entities), then `Tasks`, `Engage` and `Execute`, which leave what was
  learnt alone (`DoneTo`).  That the entities add up is kept by meeting, making room
  and confirming, one at a time (`Follow`, `Confirm`), and by the loop over a frame.
* **PlanJudgment.**  The code compares epochs; the property is about lives, stages, runs,
  modes and models.  `JudgmentInv` says that a request of this epoch was made in this
  life, stage and run (`Requested`), and that the latest judgment is of this epoch and
  model (`Held`).  An answer that comes back after the epoch has turned is for another
  one and is dropped.  A judgment shapes a scene into one that the invariant of the
  agent holds for all the same (`Staged`), so the four theorems above are of the
  composition, with a model that answers anything at any time.

*Loops and recursive functions.*  The library's induction theorems take an operator
as a parameter, which the provers cannot instantiate.  What a loop computes for every
input is proved by its least counterexample instead: the rounds at which the loop's
invariant fails are a set of natural numbers, a nonempty one has a least element
(`WFMin`), it is not round 0, and the round before it did not fail.  That the
recursive function a loop is written as exists, which `CHOOSE` does not promise, is
proved in the same way, extending a function on 0..k by one round (`RoundsFollow`).
Sums are stated as the cardinality of a set, which unions and products add up.

*Only model-checked*: liveness (`EveryoneAnswered`, `EveryoneReleased`, `CallsReturn`,
`CallReturns`) and anything with `ENABLED`, which are out of the prover's reach.  Every
other property of a passing run is a theorem.

## 6. Disagreements found

* **`stop()` may not return while another server runs** (`http_reuse`,
  `StopReturns`).  docs/OBSERVABILITY.md:96-97: "Server shutdown is bounded and
  joins its worker thread".  The worker loads the listening descriptor
  (`src/http_server.cpp:245`) and calls `accept()` on the number (247).  `stop()` may
  close it in between, and a second server of the process may be given the number:
  `accept()` then waits on that server's socket and `join()` waits with it.  The run
  `http` shows that this is the only way: `EveryoneReleased` has `stop()` return
  unless an `accept()` was misplaced.

Read while modelling, without a run of their own:

* docs/BATCHING.md:43-44 has workers "wait until the oldest queued row's deadline."
  A worker computes the deadline once, from the row that is oldest when it starts to
  wait (`src/batching.cpp:129`), and keeps it when another worker takes that row; it
  then wakes at that deadline and takes whatever is queued, younger than `max_delay`
  perhaps.  Rows are answered correctly, in smaller batches than configured.
  `Recheck` models it.
* docs/OBSERVABILITY.md:19 speaks of "the number of dropped decision IDs", the
  counter counts the calls dropped (`src/diagnostics.cpp:204`).  `StatsTrue` states
  what the code does.
* examples/mario_dashboard/plan_ranking.hpp:59-60 keeps the targets of each plan so
  that no "stale ranking" is accepted "when the same action IDs exchanged target
  platforms".  That is checked for the selected plan only: when the context is not
  the one that was judged, `apply()` may choose another one of the scored plans,
  whose target was exchanged or which scored below deferring.  `JudgmentCurrent`
  states what holds: the selected plan still lands where it did, and the chosen one
  is scored, sound and within the budget now.
* examples/mario_dashboard/ONLINE_LEARNING.md:41-42 has a flight keep "its takeoff
  plan until a verified landing or life loss", and README.md:147 there gives credit
  to the executed skill only.  When the frame that shows a landing does not follow
  the one before it, the flight stays, and the next landing is credited to it
  (`adaptive_agent.hpp`, `observe`).  `CreditIsOwn` is conditioned on nothing having
  hidden a landing.

## 7. What is left out

* **Batching**: the `batches` statistic; `executing_pool`, the guard against a
  backend that re-enters its own pool (it comes back as an error or an exception,
  which the backend may answer anyway); notifications happen with the unlock that
  precedes them.
* **RevisionedCache**: a task whose ticket is as old as the whole counter: the
  counter does not come round to a ticket somebody still holds (2^64 advances).
* **KnowledgeGraph**: event IDs are pairs of a run and an event.
  **KnowledgeContext**: filters by subject and relation, `status`, rendered texts
  and digests; tokens add up, which those of a real tokenizer need not do exactly;
  ids have one priority and one lifetime.
* **Evaluation**: scores are invalid, below or above the threshold; percentile ranks
  are exact arithmetic where the code multiplies doubles; `reset()` is taken to
  succeed, although its `resize` could fail.
* **HttpServer**: routes, texts, polls that find nothing.
* **Laya**: tokenisation, tensors, statistics, loading.
* **RemoteBackend**: one call at a time, as the backend keeps nothing between them;
  the clock counts from the start of the call; payloads and response formats.
* **DecisionGraph**: missing or repeated dependencies, refused before anything
  else; outputs' values.
* **AsioBackend**: cancellation slots and allocators of a handler; `stats()`.
* **RemoteOverCurl**: headers' texts; the rounding of milliseconds; the poll rounds of
  other callers, whose transfers end at some time in some way.
* **SkillRuntime**: classes of failures; the window's size is a parameter (four
  times the capacity in the code); runs are numbered in their order, which the code
  does not see; an adapter does not use an attempt ID twice.
* **SkillDispatch**: versions change once each; the arbiter is asked before the
  first attempt only.
* **ExperienceMemory**: distances, velocities and means (a statistic is the number of
  its samples), the report of the last frame.  A failing frame skips the eviction, so
  that more columns than a load accepts can be exported right after one;
  `SavedIsLoadable` excepts that state by name (`torn`).
* **AdaptiveAgent**: `plans()` (the rollout's physics), the learnt parameters of
  motion, the key of a failure, the takeoff that the game itself reports
  (`movement_state`), positions finer than a cell.  Two tracks of one slot and kind
  within a cell may be confirmed by one elimination, and a target that alternates
  resets its budget: the code has it so, and the model, too.
* **PlanJudgment**: prompts, rendering and texts of answers, the pages of the
  dashboard; what a goal changes is reduced to the controller's action.  The checks
  of epoch, generation and context overlap; the property does not say which of them
  refused an answer.
* **Not modelled**: `operator_registry` and `graph_json` (a map filled once and a
  parser); `laya_native` (numerical); `fast_controller.hpp` (one function of one
  frame, geometric thresholds; its action is an input of the agent's model);
  `testing.hpp`, other examples, benchmarks, scripts, the website.

## 8. Plan

The order follows what can go wrong most expensively: the pool first (threads and
promises), then the caches and stores that asynchronous completions feed, then the
servers and backends, then the domain logic and the application on top.

1. *Done*: the modules of section 2, the runs of section 3, the proofs of section 5.
2. *Next, to model, if it pays*: contexts of `KnowledgeContext` cached by generation
   in a `RevisionedCache`; two calls of the backend at once over one transport.

## 9. Running it

```
tlc -workers 2 -config Batching.cfg MCBatching.tla         # one run
tlapm KnowledgeGraphProofs.tla                             # one module's proofs
```

The modules use `SequencesExt`, `FiniteSetsExt`, `Folds` and `Functions` of the TLA+
community modules; the proofs use tlapm 1.4.5 with Z3, Zenon and LS4.
