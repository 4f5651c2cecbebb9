--------------------------------- MODULE Laya ---------------------------------
(***************************************************************************)
(* jevt::laya_backend (src/src/laya.cpp): concurrent predict_batch() calls *)
(* over one model session, the cache of prepared question heads            *)
(* (prepare_head) and the pool of reusable tensor buffers (buffer_lease).  *)
(*                                                                         *)
(* A caller makes one call at a time: for each row of its batch it looks   *)
(* the head up under cache_mutex, prepares it without the lock and inserts *)
(* it under a second lock, then it leases a buffer, runs the model on it   *)
(* and answers.  A head is its key; a buffer's content is the caller whose *)
(* input tokens it holds, and what the model answers is that content.      *)
(* Tokenisation, tensor shapes and the statistics counters are left out.   *)
(***************************************************************************)
EXTENDS Integers, SequencesExt

CONSTANTS
  Callers, Keys, Buffers,
  Batches,             \* the rows of the batches: sequences of keys
  KeyBytes, Bytes,     \* key.size(), and what retaining the head costs
  Unfit,               \* keys whose options do not fit inside head_max_len
  Entries, ByteLimit,  \* schema_cache_entries, schema_cache_bytes
  Reusable,            \* reusable_buffers
  None                 \* no buffer, no content

ASSUME LayaAssumption ==
  /\ Batches \subseteq Seq(Keys) \ {<<>>} /\ Unfit \subseteq Keys
  /\ Entries \in Nat /\ ByteLimit \in Nat /\ Reusable \in Nat
  /\ KeyBytes \in [Keys -> Nat] /\ Bytes \in [Keys -> Nat]
  /\ \A k \in Keys : KeyBytes[k] <= Bytes[k] /\ Bytes[k] > 0
  /\ None \notin Buffers \cup Callers
  /\ "error" \notin Callers

VARIABLES
  head_cache,     \* the keys cached
  cache_order,    \* the order of their insertion
  cached_bytes,
  pool,           \* buffers kept for reuse
  tokens,         \* whose input tokens a buffer holds
  at, rows,       \* where a call is, and its rows that are not built yet
  lease, answer,  \* the buffer it leases; what it returned
  stopped         \* a request of the batch is cancelled or past its deadline

cache == <<head_cache, cache_order, cached_bytes>>
vars == <<cache, pool, tokens, at, rows, lease, answer, stopped>>

Init ==
  /\ head_cache = {} /\ cache_order = <<>> /\ cached_bytes = 0
  /\ pool = <<>> /\ tokens = [b \in Buffers |-> None]
  /\ at = [c \in Callers |-> "idle"] /\ rows = [c \in Callers |-> <<>>]
  /\ lease = [c \in Callers |-> None] /\ answer = [c \in Callers |-> None]
  /\ stopped = [c \in Callers |-> FALSE]

-----------------------------------------------------------------------------
Leased == {lease[c] : c \in Callers} \ {None}

\* Leaving predict_batch with an error: with a buffer, by way of its destructor.
Fail(c) ==
  /\ at' = [at EXCEPT ![c] = IF lease[c] = None THEN "idle" ELSE "release"]
  /\ answer' = [answer EXCEPT ![c] = "error"]
  /\ rows' = [rows EXCEPT ![c] = <<>>]

\* A caller calls again with another batch.
Call(c, batch) ==
  /\ at[c] = "idle"
  /\ \E s \in BOOLEAN : stopped' = [stopped EXCEPT ![c] = s]
  /\ IF stopped'[c]
     THEN answer' = [answer EXCEPT ![c] = "error"] /\ UNCHANGED <<at, rows>>
     ELSE /\ answer' = [answer EXCEPT ![c] = None]
          /\ rows' = [rows EXCEPT ![c] = batch]
          /\ at' = [at EXCEPT ![c] = "lookup"]
  /\ UNCHANGED <<cache, pool, tokens, lease>>

\* Cancelled, or its deadline passes.
Stop(c) ==
  /\ at[c] # "idle" /\ ~stopped[c]
  /\ stopped' = [stopped EXCEPT ![c] = TRUE]
  /\ UNCHANGED <<cache, pool, tokens, at, rows, lease, answer>>

-----------------------------------------------------------------------------
(* prepare_head, build_sequence *)

Cacheable(k) == Entries > 0 /\ KeyBytes[k] <= ByteLimit

\* build_sequence leaves the marker of every option in the sequence.
Fits(k) == k \notin Unfit

\* Mutant: the row is not left when its head was not in the cache.
RowBuiltAgain(c) ==
  IF ~Fits(Head(rows[c])) THEN Fail(c)
  ELSE at' = [at EXCEPT ![c] = "lookup"] /\ UNCHANGED <<rows, answer>>

\* The row has its head: the next one, or the tensors when it was the last.
RowBuilt(c) ==
  IF ~Fits(Head(rows[c])) THEN Fail(c)
  ELSE /\ rows' = [rows EXCEPT ![c] = Tail(@)]
       /\ at' = [at EXCEPT ![c] = IF Len(rows[c]) = 1 THEN "acquire" ELSE "lookup"]
       /\ UNCHANGED answer

\* The row has no options, or a score not 2 to 10 levels, or encoding its state throws.
Refuse(c) ==
  /\ at[c] = "lookup"
  /\ Fail(c)
  /\ UNCHANGED <<cache, pool, tokens, lease, stopped>>

Lookup(c) ==
  /\ at[c] = "lookup"
  /\ LET k == Head(rows[c])
     IN  \/ Cacheable(k) /\ k \in head_cache /\ RowBuilt(c)
         \/ /\ ~(Cacheable(k) /\ k \in head_cache)
            /\ at' = [at EXCEPT ![c] = "prepare"]
            /\ UNCHANGED <<rows, answer>>
  /\ UNCHANGED <<cache, pool, tokens, lease, stopped>>

\* Without a lock; the tokenizer may throw.
Prepare(c) ==
  /\ at[c] = "prepare"
  /\ \/ Fail(c)
     \/ /\ Cacheable(Head(rows[c]))
        /\ at' = [at EXCEPT ![c] = "insert"]
        /\ UNCHANGED <<rows, answer>>
     \/ ~Cacheable(Head(rows[c])) /\ RowBuilt(c)
  /\ UNCHANGED <<cache, pool, tokens, lease, stopped>>

\* The bytes of the heads of the keys in S, counted one by one; no head that is cached
\* has more than ByteLimit.
BytesOf(S) == Cardinality({x \in S \X (1..ByteLimit) : x[2] <= Bytes[x[1]]})

\* What the n oldest entries hold.
Oldest(n) == BytesOf(ToSet(SubSeq(cache_order, 1, n)))

\* The eviction loop ends after n evictions.
Enough(n, k) ==
  \/ n = Len(cache_order)
  \/ /\ Len(cache_order) - n < Entries
     /\ cached_bytes - Oldest(n) <= ByteLimit - Bytes[k]

\* How many entries go, oldest first, to make room for k.
Evictions(k) == Min({n \in 0..Len(cache_order) : Enough(n, k)})

\* Mutant: a head another call has inserted meanwhile is inserted again.
InsertAgain(c) ==
  /\ at[c] = "insert"
  /\ LET k == Head(rows[c])
         kept == SubSeq(cache_order, Evictions(k) + 1, Len(cache_order))
     IN  /\ Bytes[k] <= ByteLimit
         /\ cache_order' = Append(kept, k)
         /\ head_cache' = ToSet(kept) \cup {k}
         /\ cached_bytes' = cached_bytes - Oldest(Evictions(k)) + Bytes[k]
  /\ RowBuilt(c)
  /\ UNCHANGED <<pool, tokens, lease, stopped>>

\* Under cache_mutex again; when the emplacement throws, what was evicted is gone and
\* the call fails.
Insert(c) ==
  /\ at[c] = "insert"
  /\ LET k == Head(rows[c])
         n == Evictions(k)
         kept == SubSeq(cache_order, n + 1, Len(cache_order))
         left == cached_bytes - Oldest(n)
     IN  IF Bytes[k] <= ByteLimit /\ k \notin head_cache
         THEN \/ /\ cache_order' = Append(kept, k)
                 /\ head_cache' = ToSet(kept) \cup {k}
                 /\ cached_bytes' = left + Bytes[k]
                 /\ RowBuilt(c)
              \/ /\ cache_order' = kept /\ head_cache' = ToSet(kept)
                 /\ cached_bytes' = left
                 /\ Fail(c)
         ELSE UNCHANGED cache /\ RowBuilt(c)
  /\ UNCHANGED <<pool, tokens, lease, stopped>>

-----------------------------------------------------------------------------
(* predict_batch from the buffer lease on *)

\* Mutant: the buffer taken stays in the pool.
AcquireShared(c) ==
  /\ at[c] = "acquire"
  /\ \E b \in IF pool = <<>> THEN Buffers \ Leased ELSE {Last(pool)} :
       lease' = [lease EXCEPT ![c] = b]
  /\ at' = [at EXCEPT ![c] = "fill"]
  /\ UNCHANGED <<cache, pool, tokens, rows, answer, stopped>>

\* acquire_buffers, under pool_mutex: the buffer pooled last or a new one, if there
\* is memory for one.
Acquire(c) ==
  /\ at[c] = "acquire"
  /\ \/ /\ pool # <<>>
        /\ lease' = [lease EXCEPT ![c] = Last(pool)]
        /\ pool' = Front(pool)
        /\ at' = [at EXCEPT ![c] = "fill"]
        /\ UNCHANGED <<rows, answer>>
     \/ /\ pool = <<>>
        /\ \E b \in Buffers \ Leased : lease' = [lease EXCEPT ![c] = b]
        /\ at' = [at EXCEPT ![c] = "fill"]
        /\ UNCHANGED <<pool, rows, answer>>
     \/ pool = <<>> /\ Fail(c) /\ UNCHANGED <<pool, lease>>
  /\ UNCHANGED <<cache, tokens, stopped>>

\* The tensors are laid out in the buffer; allocating them may throw half way.
Fill(c) ==
  /\ at[c] = "fill"
  /\ tokens' = [tokens EXCEPT ![lease[c]] = c]
  /\ \/ Fail(c)
     \/ at' = [at EXCEPT ![c] = "check"] /\ UNCHANGED <<rows, answer>>
  /\ UNCHANGED <<cache, pool, lease, stopped>>

\* The requests are looked at again just before the model runs.
Check(c) ==
  /\ at[c] = "check"
  /\ \/ stopped[c] /\ Fail(c)
     \/ ~stopped[c] /\ at' = [at EXCEPT ![c] = "run"] /\ UNCHANGED <<rows, answer>>
  /\ UNCHANGED <<cache, pool, tokens, lease, stopped>>

\* session->Run throws or returns, its output is used only if nothing was cancelled or
\* expired meanwhile and its shape and values are right.
Run(c) ==
  /\ at[c] = "run"
  /\ \/ Fail(c)
     \/ /\ ~stopped[c]
        /\ at' = [at EXCEPT ![c] = "release"]
        /\ answer' = [answer EXCEPT ![c] = tokens[lease[c]]]
        /\ UNCHANGED rows
  /\ UNCHANGED <<cache, pool, tokens, lease, stopped>>

\* Mutant: a buffer goes back to the pool as it is.
ReleaseDirty(c) ==
  /\ at[c] = "release"
  /\ pool' = IF Len(pool) < Reusable THEN Append(pool, lease[c]) ELSE pool
  /\ lease' = [lease EXCEPT ![c] = None]
  /\ at' = [at EXCEPT ![c] = "idle"]
  /\ UNCHANGED <<cache, tokens, rows, answer, stopped>>

\* ~buffer_lease: wiped and pooled, or freed (and gone with its content) when it has
\* grown too large, the pool is full or cannot grow.
Release(c) ==
  /\ at[c] = "release"
  /\ tokens' = [tokens EXCEPT ![lease[c]] = None]
  /\ \/ Len(pool) < Reusable /\ pool' = Append(pool, lease[c])
     \/ UNCHANGED pool
  /\ lease' = [lease EXCEPT ![c] = None]
  /\ at' = [at EXCEPT ![c] = "idle"]
  /\ UNCHANGED <<cache, rows, answer, stopped>>

-----------------------------------------------------------------------------
Step(c) ==
  \/ Refuse(c) \/ Lookup(c) \/ Prepare(c) \/ Insert(c)
  \/ Acquire(c) \/ Fill(c) \/ Check(c) \/ Run(c) \/ Release(c)

Next ==
  \E c \in Callers :
    \/ Step(c) \/ Stop(c)
    \/ \E batch \in Batches : Call(c, batch)

Spec == Init /\ [][Next]_vars

\* A call's thread runs, and session->Run returns.
FairSpec == Spec /\ \A c \in Callers : WF_vars(Step(c))

-----------------------------------------------------------------------------
(* Properties *)

TypeOK ==
  /\ head_cache \subseteq Keys /\ cache_order \in Seq(Keys) /\ cached_bytes \in Nat
  /\ pool \in Seq(Buffers) /\ tokens \in [Buffers -> Callers \cup {None}]
  /\ at \in [Callers -> {"idle", "lookup", "prepare", "insert", "acquire", "fill",
                         "check", "run", "release"}]
  /\ rows \in [Callers -> Seq(Keys)]
  /\ lease \in [Callers -> Buffers \cup {None}]
  /\ answer \in [Callers -> Callers \cup {None, "error"}]
  /\ stopped \in [Callers -> BOOLEAN]

\* The map, the insertion order and the byte count agree although two calls may miss
\* the same key at once and prepare it twice: each key is in the order once, the bytes
\* counted are those of the entries, and "Defaults cache up to 256 schema heads and
\* 4 MiB" (docs/LAYA.md): both limits hold.
CacheAgrees ==
  /\ TypeOK
  /\ ToSet(cache_order) = head_cache /\ IsInjective(cache_order)
  /\ cached_bytes = BytesOf(head_cache)
  /\ Len(cache_order) <= Entries /\ cached_bytes <= ByteLimit

\* A buffer is leased by one call or in the pool once, and "Input-token storage is
\* cleared before reuse" (docs/LAYA.md): no pooled buffer holds tokens of a call,
\* whichever way the call ended.
PoolClean ==
  /\ IsInjective(pool) /\ ToSet(pool) \cap Leased = {} /\ Len(pool) <= Reusable
  /\ \A c, d \in Callers : lease[c] = lease[d] /\ lease[c] # None => c = d
  /\ \A b \in ToSet(pool) : tokens[b] = None

\* What concurrent calls share, the cached heads and the pooled buffers, is in order
\* whenever the lock is free, whichever call failed where.
SharedInOrder == CacheAgrees /\ PoolClean

\* What a call is answered with was computed from its own rows, whoever had the buffer
\* before, and comes before the call is cancelled or its deadline passes.
OwnAnswer ==
  [][\A c \in Callers :
       answer'[c] # answer[c] =>
         answer'[c] \in {None, "error"} \/ (answer'[c] = c /\ ~stopped[c])]_vars

\* Every call returns, and its buffer is given back.
CallsReturn == \A c \in Callers : at[c] # "idle" ~> at[c] = "idle" /\ lease[c] = None
=============================================================================
