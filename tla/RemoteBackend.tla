----------------------------- MODULE RemoteBackend -----------------------------
(***************************************************************************)
(* jevt::typesafe_backend (src/src/remote.cpp): one predict_batch() or     *)
(* list_models() call against a remote service.                            *)
(*                                                                         *)
(* The rows of a batch are grouped by the state they share; each group is  *)
(* one HTTP request, sent again after transient failures.  The backend     *)
(* keeps no state between calls, so one call at a time is modelled, with   *)
(* the clock counting from its start.  The transport is external: it       *)
(* answers in any way, and within the deadline it is given or at any time, *)
(* as punctual has it.  A row is the text and the kind of its state; what  *)
(* the service answers for a group is the state it was sent.  Payload and  *)
(* response formats are left out: a reply keeps to the contract or not.    *)
(***************************************************************************)
EXTENDS Integers, SequencesExt

CONSTANTS
  Batches,                     \* sequences of <<text, kind>>
  MaxRetries, CallTimeout, AttemptTimeout,
  InitialBackoff, MaxBackoff,
  Advised,                     \* what Retry-After may say
  Deadlines,                   \* the earliest deadline among the requests
  Horizon                      \* bound: the clock stops here

ASSUME RemoteAssumption ==
  /\ \A rows \in Batches : rows \in Seq(Range(rows)) \ {<<>>}
  /\ MaxRetries \in Nat /\ CallTimeout \in Nat \ {0} /\ AttemptTimeout \in Nat \ {0}
  /\ InitialBackoff \in Nat /\ MaxBackoff \in Nat /\ InitialBackoff <= MaxBackoff
  /\ Advised \subseteq Nat /\ Deadlines \subseteq Nat /\ Horizon \in Nat

\* What perform() returns: a 2xx that keeps to the contract or does not, a body over
\* max_response_bytes, 408/429/5xx with or without Retry-After, another status, no
\* connection or a timeout (also when it throws), another error.
Unadvised == -1
Replies ==
  [kind : {"ok", "malformed", "large", "refused", "lost", "broken"}, after : {Unadvised}]
    \cup [kind : {"transient"}, after : Advised \cup {Unadvised}]
NoReply == [kind |-> "none", after |-> Unadvised]

VARIABLES
  now, at,
  batch, groups,      \* the rows; those not answered yet, as sets of row numbers
  deadline, stopped,  \* the call's; stop.stop_requested()
  attempt, delay, expiry, wake,  \* send()'s locals; request.deadline
  reply,
  punctual,           \* threads are prompt and the transport keeps its deadlines
  output,             \* the state each row was answered from
  answer,
  attempts,           \* history: how often this group was sent
  notBefore           \* history: when the last Retry-After lets it be sent again

call == <<batch, deadline, stopped, punctual>>
sending == <<attempt, delay, expiry, wake, reply>>
vars == <<now, at, call, groups, sending, output, answer, attempts, notBefore>>

Init ==
  /\ now = 0 /\ at = "idle"
  /\ batch = <<>> /\ groups = {} /\ deadline = 0 /\ stopped = FALSE
  /\ attempt = 0 /\ delay = 0 /\ expiry = 0 /\ wake = 0 /\ reply = NoReply
  /\ punctual \in BOOLEAN
  /\ output = <<>> /\ answer = "none"
  /\ attempts = 0 /\ notBefore = 0

-----------------------------------------------------------------------------
\* execution_error
Ended == stopped \/ now >= deadline

Return(what) ==
  /\ at' = "idle" /\ answer' = what

\* Mutant: rows with the same text are grouped whatever its kind.
SameText(rows, i, j) == rows[i][1] = rows[j][1]

SameState(rows, i, j) == rows[i] = rows[j]

\* Each row joins the group whose first row has its state, if there is one.
Grouped(rows) == {{j \in DOMAIN rows : SameState(rows, i, j)} : i \in DOMAIN rows}

\* The group predict_batch is at: they are made, and sent, in the order of their first
\* rows.
Current == CHOOSE g \in groups : \A h \in groups : Min(g) <= Min(h)

Begin(rows, d) ==
  /\ at = "idle"
  /\ now' = 0
  /\ batch' = rows /\ groups' = Grouped(rows)
  /\ output' = [i \in DOMAIN rows |-> <<>>]
  /\ deadline' = Min({CallTimeout, d})
  /\ stopped' \in BOOLEAN /\ UNCHANGED punctual
  /\ attempt' = 0 /\ delay' = InitialBackoff /\ expiry' = 0 /\ wake' = 0 /\ reply' = NoReply
  /\ attempts' = 0 /\ notBefore' = 0

\* predict_batch, as far as its first check.
PredictBatch(rows, d) ==
  /\ Begin(rows, d)
  /\ IF stopped' \/ deadline' = 0
     THEN Return("error")
     ELSE at' = "build" /\ answer' = "none"

\* list_models: one GET; what it answers is the catalog.
Catalog == <<"catalog", "list">>
ListModels(d) ==
  /\ Begin(<<Catalog>>, d)
  /\ at' = "send" /\ answer' = "none"

\* The group's payload; it may be invalid or too large.
Build ==
  /\ at = "build"
  /\ \/ Return("error") /\ UNCHANGED <<attempt, delay>>
     \/ at' = "send" /\ attempt' = 0 /\ delay' = InitialBackoff /\ UNCHANGED answer
  /\ UNCHANGED <<now, call, groups, expiry, wake, reply, output, attempts, notBefore>>

-----------------------------------------------------------------------------
(* send *)

\* Mutant: an attempt has its full time whatever is left of the call's.
ExpiryOfAttempt == now + AttemptTimeout

Expiry == Min({deadline, now + AttemptTimeout})

Send ==
  /\ at = "send"
  /\ \/ Ended /\ Return("error") /\ UNCHANGED <<expiry, attempts>>
     \/ /\ ~Ended
        /\ expiry' = Expiry
        /\ attempts' = attempts + 1
        /\ at' = "transfer" /\ UNCHANGED answer
  /\ UNCHANGED <<now, call, groups, attempt, delay, wake, reply, output, notBefore>>

\* transport->perform(request) returns or throws.
Perform ==
  /\ at = "transfer"
  /\ reply' \in Replies
  /\ at' = "judge"
  /\ UNCHANGED <<now, call, groups, attempt, delay, expiry, wake, output, answer, attempts,
                 notBefore>>

\* A reply after the attempt's deadline is a timeout.
Outcome == IF now >= expiry THEN [kind |-> "lost", after |-> Unadvised] ELSE reply

Retryable(r) == r.kind \in {"transient", "lost"} /\ attempt < MaxRetries

\* Mutant: the backoff is used even when the service says how long to wait.
WaitsOwn(r) == ((3 * delay) \div 4)..delay

\* Retry-After, or the backoff with its jitter.
Waits(r) == IF r.after # Unadvised THEN {r.after} ELSE ((3 * delay) \div 4)..delay

Judge ==
  /\ at = "judge"
  /\ \/ Ended /\ Return("error") /\ UNCHANGED wake
     \/ /\ ~Ended /\ Outcome.kind \in {"ok", "malformed"}
        /\ at' = "parse" /\ UNCHANGED <<answer, wake>>
     \/ /\ ~Ended /\ Outcome.kind \notin {"ok", "malformed"} /\ ~Retryable(Outcome)
        /\ Return("error") /\ UNCHANGED wake
     \/ /\ ~Ended /\ Retryable(Outcome)
        /\ \E wait \in Waits(Outcome) :
             IF wait >= deadline - now
             THEN Return("error") /\ UNCHANGED wake
             ELSE at' = "backoff" /\ wake' = now + wait /\ UNCHANGED answer
  /\ reply' = Outcome
  /\ notBefore' = IF reply'.after = Unadvised THEN 0 ELSE now + reply'.after
  /\ UNCHANGED <<now, call, groups, attempt, delay, expiry, output, attempts>>

Doubled == Min({MaxBackoff, delay * 2})

\* Mutant: the wait is for the cancellation alone.
WakeStopped ==
  /\ at = "backoff" /\ stopped
  /\ attempt' = attempt + 1 /\ delay' = Doubled
  /\ at' = "send"
  /\ UNCHANGED <<now, call, groups, expiry, wake, reply, output, answer, attempts, notBefore>>

\* The wait ends, or the cancellation interrupts it.
Wake ==
  /\ at = "backoff" /\ (stopped \/ now >= wake)
  /\ attempt' = attempt + 1 /\ delay' = Doubled
  /\ at' = "send"
  /\ UNCHANGED <<now, call, groups, expiry, wake, reply, output, answer, attempts, notBefore>>

\* The response is parsed into the rows of the group; anything out of contract fails
\* the call, and so does a cancellation or the deadline after all.
Parse ==
  /\ at = "parse"
  /\ \/ (reply.kind = "malformed" \/ Ended) /\ Return("error") /\ UNCHANGED <<groups, output>>
     \/ /\ reply.kind = "ok" /\ ~Ended
        /\ output' = [i \in DOMAIN batch |->
             IF i \in Current THEN batch[Min(Current)] ELSE output[i]]
        /\ groups' = groups \ {Current}
        /\ IF groups' = {} THEN Return("ok") ELSE at' = "build" /\ UNCHANGED answer
  /\ attempts' = 0 /\ notBefore' = 0
  /\ UNCHANGED <<now, call, sending>>

-----------------------------------------------------------------------------
(* The environment *)

\* One of the requests is cancelled.
Cancel ==
  /\ at # "idle" /\ ~stopped
  /\ stopped' = TRUE
  /\ UNCHANGED <<now, at, batch, deadline, punctual, groups, sending, output, answer, attempts, notBefore>>

\* The clock of a call.
Tick ==
  /\ at # "idle" /\ now < Horizon
  /\ punctual => \/ at = "transfer" /\ now < expiry
                 \/ at = "backoff" /\ now < wake
  /\ now' = now + 1
  /\ UNCHANGED <<at, call, groups, sending, output, answer, attempts, notBefore>>

Step == Build \/ Send \/ Judge \/ Wake \/ Parse

Next ==
  \/ \E d \in Deadlines : ListModels(d) \/ \E rows \in Batches : PredictBatch(rows, d)
  \/ Step \/ Perform \/ Cancel \/ Tick

Spec == Init /\ [][Next]_vars

\* The thread and the clock run on and the transport returns, late perhaps.
FairSpec == Spec /\ WF_vars(Step) /\ WF_vars(Perform) /\ WF_vars(Tick)

-----------------------------------------------------------------------------
(* Properties *)

TypeOK ==
  /\ now \in 0..Horizon
  /\ at \in {"idle", "build", "send", "transfer", "judge", "backoff", "parse"}
  /\ batch \in Batches \cup {<<>>, <<Catalog>>} /\ groups \subseteq SUBSET DOMAIN batch
  /\ deadline \in 0..CallTimeout /\ stopped \in BOOLEAN /\ punctual \in BOOLEAN
  /\ attempt \in 0..MaxRetries /\ delay \in 0..MaxBackoff
  /\ expiry \in Nat /\ wake \in Nat /\ reply \in Replies \cup {NoReply}
  /\ DOMAIN output = DOMAIN batch /\ answer \in {"none", "ok", "error"}
  /\ attempts \in 0..(MaxRetries + 1) /\ notBefore \in Nat

\* "Preserving caller order", "not partial success" (docs/REMOTE.md): a batch that
\* succeeds has an answer for every row, made from that row's own state, however the
\* rows were grouped.
RowsMatch == TypeOK /\ (answer = "ok" => output = batch)

\* "Total backend-call budget, including groups and retries": with a transport that
\* keeps the deadline it is given, the whole call is over by the call's deadline.
WithinBudget == punctual /\ at # "idle" => now <= deadline

\* "Authentication and ordinary request errors are not retried", "Retry-After ...
\* observed within the total deadline": a request is sent again only when its last reply
\* was a transient one or none, not before the time that reply asked for, and MaxRetries
\* times at most.
RetriesAllowed ==
  [][attempts' > attempts =>
       /\ now >= notBefore /\ attempts <= MaxRetries
       /\ attempts > 0 => reply.kind \in {"transient", "lost"}]_vars

\* Every call returns, whatever the transport does, as long as it returns.
CallReturns == at # "idle" ~> at = "idle"
=============================================================================
