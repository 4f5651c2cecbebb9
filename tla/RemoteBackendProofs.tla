-------------------------- MODULE RemoteBackendProofs --------------------------
(* The answers, the time budget and the retry rules of RemoteBackend, for      *)
(* every batch, budget, backoff, Retry-After and deadline; then that the curl  *)
(* transport does for the retry loop what those theorems take for granted, for *)
(* every timeout and slice, with any number of other callers.                  *)
EXTENDS RemoteOverCurl, FiniteSetTheorems, SequenceTheorems, WellFoundedInduction, TLAPS

Retried == {"transient", "lost"}

Times ==
  /\ now \in Nat /\ deadline \in Nat /\ expiry \in Nat /\ wake \in Nat
  /\ notBefore \in Nat /\ delay \in Nat /\ attempts \in Nat
  /\ reply \in Replies \cup {NoReply}

\* What the clock may reach is bounded by the deadline at every place where the call
\* lets time pass.
Bounded ==
  /\ at = "transfer" => expiry <= deadline
  /\ at = "backoff" => wake <= deadline

\* What a group that is sent again has behind it.
Justified ==
  /\ at = "build" => attempts = 0
  /\ at \in {"transfer", "judge"} => attempts > 0
  /\ attempts = 0 => notBefore = 0
  /\ at = "backoff" => reply.kind \in Retried /\ notBefore <= wake
  /\ at = "send" /\ attempts > 0 =>
       reply.kind \in Retried /\ (stopped \/ notBefore <= now)

IInv == Times /\ Bounded /\ Justified /\ WithinBudget

-----------------------------------------------------------------------------
LEMMA MinOfTwo ==
  ASSUME NEW a \in Nat, NEW b \in Nat
  PROVE  Min({a, b}) \in {a, b} /\ Min({a, b}) <= a /\ Min({a, b}) <= b
<1>1. \E m \in {a, b} : \A y \in {a, b} : m <= y
  <2>1. CASE a <= b
    BY <2>1
  <2>2. CASE b <= a
    BY <2>2
  <2> QED
    BY <2>1, <2>2
<1>2. Min({a, b}) = CHOOSE m \in {a, b} : \A y \in {a, b} : m <= y
  BY DEF Min
<1> QED
  BY <1>1, <1>2

LEMMA InitInv == Init => IInv
  BY DEF Init, IInv, Times, Bounded, Justified, WithinBudget

\* A call starts its own clock within its own budget.
LEMMA BeginInv ==
  ASSUME IInv, NEW rows, NEW d \in Deadlines, Begin(rows, d),
         at' \in {"idle", "build", "send"}
  PROVE  IInv'
<1>1. deadline' \in Nat
  BY MinOfTwo, RemoteAssumption DEF Begin
<1>2. /\ now' = 0 /\ attempts' = 0 /\ notBefore' = 0 /\ expiry' = 0 /\ wake' = 0
      /\ delay' = InitialBackoff /\ reply' = NoReply
  BY DEF Begin
<1>3. Times'
  BY <1>1, <1>2, RemoteAssumption DEF IInv, Times, sending
<1> QED
  BY <1>1, <1>2, <1>3 DEF IInv, Bounded, Justified, WithinBudget

LEMMA SendInv ==
  ASSUME IInv, Send
  PROVE  IInv' /\ (attempts' > attempts =>
                     now >= notBefore /\ (attempts > 0 => reply.kind \in Retried))
<1>1. AttemptTimeout \in Nat /\ now + AttemptTimeout \in Nat
  BY RemoteAssumption DEF IInv, Times
<1>2. Expiry \in Nat /\ Expiry <= deadline
  BY <1>1, MinOfTwo DEF Expiry, IInv, Times
<1>3. CASE at' = "idle"
  <2>1. attempts' = attempts
        /\ UNCHANGED <<now, deadline, punctual, wake, reply, delay, notBefore, expiry>>
    BY <1>3 DEF Send, Return, call
  <2>2. IInv'
    BY <1>3, <2>1 DEF IInv, Times, Bounded, Justified, WithinBudget
  <2>3. ~(attempts' > attempts)
    BY <2>1 DEF IInv, Times
  <2> QED
    BY <2>2, <2>3
<1>4. CASE at' = "transfer"
  <2>1. ~Ended /\ at = "send" /\ expiry' = Expiry /\ attempts' = attempts + 1
        /\ UNCHANGED <<now, deadline, punctual, wake, reply, delay, notBefore>>
    BY <1>4 DEF Send, Return, call
  <2>2. ~stopped
    BY <2>1 DEF Ended
  <2>3. IInv'
    BY <1>2, <1>4, <2>1 DEF IInv, Times, Bounded, Justified, WithinBudget
  <2> QED
    BY <2>1, <2>2, <2>3 DEF IInv, Times, Justified
<1>5. at' \in {"idle", "transfer"}
  BY DEF Send, Return
<1> QED
  BY <1>3, <1>4, <1>5

\* A wait ends by the call's deadline, and not before the service wants to be asked.
LEMMA JudgeInv == ASSUME IInv, Judge PROVE IInv'
<1>1. /\ at = "judge" /\ attempts > 0 /\ reply' = Outcome
      /\ notBefore' = IF Outcome.after = Unadvised THEN 0 ELSE now + Outcome.after
      /\ UNCHANGED <<now, deadline, stopped, punctual, delay, expiry, attempts>>
  BY DEF Judge, call, IInv, Justified
<1>2. Outcome \in Replies \cup {NoReply}
  BY DEF Outcome, Replies, IInv, Times, Unadvised
<1>3. Outcome.after = Unadvised \/ Outcome.after \in Nat
  <2>1. \A r \in Replies \cup {NoReply} : r.after \in Advised \cup {Unadvised}
    BY DEF Replies, NoReply
  <2>2. Advised \subseteq Nat
    BY RemoteAssumption
  <2> QED
    BY <1>2, <2>1, <2>2
<1>4. notBefore' \in Nat
  BY <1>1, <1>3 DEF IInv, Times
<1>5. CASE at' # "backoff"
  <2>1. wake' = wake /\ at' \in {"idle", "parse"}
    BY <1>1, <1>5 DEF Judge, Return
  <2> QED
    BY <1>1, <1>2, <1>4, <2>1 DEF IInv, Times, Bounded, Justified, WithinBudget
<1>6. CASE at' = "backoff"
  <2>1. /\ Retryable(Outcome)
        /\ \E wait \in Waits(Outcome) : ~(wait >= deadline - now) /\ wake' = now + wait
    BY <1>1, <1>6 DEF Judge, Return
  <2>2. PICK wait \in Waits(Outcome) : ~(wait >= deadline - now) /\ wake' = now + wait
    BY <2>1
  <2>3. /\ wait \in Nat
        /\ Outcome.after # Unadvised => wait = Outcome.after
    <3>1. CASE Outcome.after # Unadvised
      BY <1>3, <2>2, <3>1 DEF Waits
    <3>2. CASE Outcome.after = Unadvised
      <4>1. delay \in Nat /\ (3 * delay) \div 4 \in Nat
        BY DEF IInv, Times
      <4>2. wait \in ((3 * delay) \div 4)..delay
        BY <2>2, <3>2 DEF Waits
      <4> QED
        BY <3>2, <4>1, <4>2
    <3> QED
      BY <3>1, <3>2
  <2>4. wake' \in Nat /\ wake' <= deadline' /\ notBefore' <= wake'
    BY <1>1, <1>3, <2>2, <2>3 DEF IInv, Times
  <2>5. reply'.kind \in Retried
    BY <1>1, <2>1 DEF Retryable, Retried
  <2> QED
    BY <1>1, <1>2, <1>4, <1>6, <2>4, <2>5
       DEF IInv, Times, Bounded, Justified, WithinBudget
<1> QED
  BY <1>5, <1>6

LEMMA TickInv == ASSUME IInv, Tick PROVE IInv'
<1>1. /\ now' = now + 1
      /\ UNCHANGED <<at, deadline, stopped, punctual, expiry, wake, reply, delay, attempts,
                     notBefore>>
  BY DEF Tick, call, sending
<1>2. WithinBudget'
  BY <1>1 DEF Tick, IInv, Times, Bounded, WithinBudget
<1> QED
  BY <1>1, <1>2 DEF IInv, Times, Bounded, Justified

LEMMA WakeInv == ASSUME IInv, Wake PROVE IInv'
<1>1. delay \in Nat /\ MaxBackoff \in Nat /\ delay * 2 \in Nat
  BY RemoteAssumption DEF IInv, Times
<1>2. Doubled \in Nat
  BY <1>1, MinOfTwo DEF Doubled
<1> QED
  BY <1>2 DEF Wake, call, IInv, Times, Bounded, Justified, WithinBudget

LEMMA OtherInv ==
  ASSUME IInv, Build \/ Perform \/ Parse \/ Cancel
  PROVE  IInv'
<1> USE RemoteAssumption DEF IInv, Times, Bounded, Justified, WithinBudget, call, sending
<1>1. CASE Build
  BY <1>1 DEF Build, Return
<1>2. CASE Perform
  BY <1>2 DEF Perform
<1>3. CASE Parse
  BY <1>3 DEF Parse, Return
<1>4. CASE Cancel
  BY <1>4 DEF Cancel
<1> QED
  BY <1>1, <1>2, <1>3, <1>4

LEMMA CallInv ==
  ASSUME IInv, NEW d \in Deadlines,
         ListModels(d) \/ \E rows \in Batches : PredictBatch(rows, d)
  PROVE  IInv'
<1>1. CASE ListModels(d)
  BY <1>1, BeginInv DEF ListModels
<1>2. ASSUME NEW rows \in Batches, PredictBatch(rows, d) PROVE IInv'
  BY <1>2, BeginInv DEF PredictBatch, Return
<1> QED
  BY <1>1, <1>2

LEMMA StepInv == IInv /\ [Next]_vars => IInv'
<1> SUFFICES ASSUME IInv, [Next]_vars PROVE IInv'
  OBVIOUS
<1>1. CASE UNCHANGED vars
  BY <1>1 DEF vars, call, sending, IInv, Times, Bounded, Justified, WithinBudget
<1> QED
  BY <1>1, CallInv, SendInv, JudgeInv, WakeInv, TickInv, OtherInv DEF Next, Step

LEMMA Invariance == Spec => []IInv
  BY InitInv, StepInv, PTL DEF Spec

-----------------------------------------------------------------------------
(* The rows *)

\* The call's variables within the bounds of its options; how often the group at hand was
\* sent, by where its next attempt is.
Ranges ==
  /\ now \in 0..Horizon /\ deadline \in 0..CallTimeout
  /\ attempt \in 0..MaxRetries /\ delay \in 0..MaxBackoff
  /\ expiry \in Nat /\ wake \in Nat /\ notBefore \in Nat
  /\ reply \in Replies \cup {NoReply} /\ stopped \in BOOLEAN /\ punctual \in BOOLEAN
  /\ at \in {"idle", "build", "send", "transfer", "judge", "backoff", "parse"}
  /\ answer \in {"none", "ok", "error"}
  /\ attempts \in 0..(MaxRetries + 1)
  /\ (at = "build" => attempts = 0) /\ (at = "send" => attempts = attempt)
  /\ at \in {"transfer", "judge", "backoff"} => attempts = attempt + 1
  /\ at = "backoff" => attempt < MaxRetries

\* A row that is in no group any more has the answer of its own state.
Answered ==
  /\ batch \in Batches \cup {<<>>, <<Catalog>>}
  /\ groups \subseteq SUBSET DOMAIN batch /\ {} \notin groups
  /\ \A g \in groups : \A i, j \in g : batch[i] = batch[j]
  /\ output = [i \in DOMAIN batch |-> output[i]]
  /\ \A i \in DOMAIN batch : (\E g \in groups : i \in g) \/ output[i] = batch[i]
  /\ at \notin {"idle"} => groups # {}
  /\ answer = "ok" => groups = {}

RowsInv == Ranges /\ Answered

\* The rows of a call are a sequence of at least one.
LEMMA BatchIsSequence ==
  ASSUME NEW rows \in Batches \cup {<<Catalog>>}
  PROVE  /\ Len(rows) \in Nat \ {0} /\ DOMAIN rows = 1..Len(rows)
         /\ rows = [i \in DOMAIN rows |-> rows[i]]
<1>1. CASE rows \in Batches
  <2>1. rows \in Seq(Range(rows)) /\ rows # <<>>
    BY <1>1, RemoteAssumption
  <2> QED
    BY <2>1
<1>2. CASE rows = <<Catalog>>
  BY <1>2
<1> QED
  BY <1>1, <1>2

LEMMA LeastExists ==
  ASSUME NEW S \in SUBSET Nat, S # {}
  PROVE  Min(S) \in S /\ \A y \in S : Min(S) <= y
<1>1. PICK m \in S : \A y \in S : ~(<<y, m>> \in OpToRel(<, Nat))
  BY NatLessThanWellFounded, WFMin
<1>2. \A y \in S : ~(y < m)
  BY <1>1, Zenon DEF OpToRel
<1>3. \A y \in S : m <= y
  BY <1>2
<1> QED
  BY <1>3 DEF Min

LEMMA CurrentIsGroup ==
  ASSUME Answered, at # "idle"
  PROVE  /\ Current \in groups /\ Min(Current) \in Current
         /\ Current \subseteq DOMAIN batch
<1>1. DOMAIN batch \subseteq Nat
  <2>1. CASE batch = <<>>
    BY <2>1
  <2>2. CASE batch # <<>>
    BY <2>2, BatchIsSequence DEF Answered
  <2> QED
    BY <2>1, <2>2
<1>2. \A g \in groups : g \subseteq DOMAIN batch /\ g \in SUBSET Nat /\ g # {}
  BY <1>1 DEF Answered
<1>3. \A g \in groups : Min(g) \in g /\ Min(g) \in Nat
  BY <1>2, LeastExists
<1> DEFINE Firsts == {Min(g) : g \in groups}
<1>4. Firsts \in SUBSET Nat /\ Firsts # {}
  BY <1>3 DEF Answered
<1>5. PICK g \in groups : Min(g) = Min(Firsts)
  BY <1>4, LeastExists
<1>6. \A h \in groups : Min(g) <= Min(h)
  BY <1>4, <1>5, LeastExists
<1>7. Current \in groups
  BY <1>5, <1>6 DEF Current
<1> QED
  BY <1>2, <1>3, <1>7

LEMMA RowsInit == Init => RowsInv
<1> SUFFICES ASSUME Init PROVE RowsInv
  OBVIOUS
<1>1. Ranges
  <2>1. 0 \in 0..Horizon /\ 0 \in 0..CallTimeout /\ 0 \in 0..MaxRetries
        /\ 0 \in 0..MaxBackoff /\ 0 \in 0..(MaxRetries + 1) /\ 0 \in Nat
    BY RemoteAssumption
  <2> QED
    BY <2>1, Zenon DEF Init, Ranges
<1>2. batch = <<>> /\ groups = {} /\ output = <<>> /\ at = "idle" /\ answer = "none"
  BY DEF Init
<1>3. DOMAIN batch = {} /\ output = [i \in DOMAIN batch |-> output[i]]
  BY <1>2
<1>4. Answered
  BY <1>2, <1>3 DEF Answered
<1> QED
  BY <1>1, <1>4 DEF RowsInv

LEMMA BeginRows ==
  ASSUME RowsInv, NEW rows \in Batches \cup {<<Catalog>>}, NEW d \in Deadlines,
         Begin(rows, d), at' \in {"idle", "build", "send"}, answer' \in {"none", "error"}
  PROVE  RowsInv'
<1>1. deadline' \in 0..CallTimeout
  <2>1. d \in Nat /\ CallTimeout \in Nat /\ deadline' = Min({CallTimeout, d})
    BY RemoteAssumption DEF Begin
  <2> QED
    BY <2>1, MinOfTwo
<1>2. Ranges'
  BY <1>1, RemoteAssumption DEF RowsInv, Ranges, Begin
<1>3. groups' = Grouped(rows) /\ batch' = rows
      /\ output' = [i \in DOMAIN rows |-> <<>>]
  BY DEF Begin
<1>4. \A i \in DOMAIN rows : \E g \in Grouped(rows) : i \in g
  <2> SUFFICES ASSUME NEW i \in DOMAIN rows PROVE \E g \in Grouped(rows) : i \in g
    OBVIOUS
  <2>1. {j \in DOMAIN rows : SameState(rows, i, j)} \in Grouped(rows)
    BY DEF Grouped
  <2>2. i \in {j \in DOMAIN rows : SameState(rows, i, j)}
    BY DEF SameState
  <2> QED
    BY <2>1, <2>2
<1>5. Grouped(rows) # {}
  <2>1. 1 \in DOMAIN rows
    BY BatchIsSequence
  <2> QED
    BY <1>4, <2>1
<1>6. /\ Grouped(rows) \subseteq SUBSET DOMAIN rows /\ {} \notin Grouped(rows)
      /\ \A g \in Grouped(rows) : \A i, j \in g : rows[i] = rows[j]
  BY DEF Grouped, SameState
<1>7. Answered'
  BY <1>3, <1>4, <1>5, <1>6 DEF Answered
<1> QED
  BY <1>2, <1>7 DEF RowsInv

\* What does not touch the rows keeps what is known of them, unless it says "ok".
LEMMA RowsKept ==
  ASSUME Answered, UNCHANGED <<batch, groups, output>>, at # "idle",
         answer' \in {answer, "error"}
  PROVE  Answered'
BY DEF Answered

LEMMA BuildRows == ASSUME RowsInv, Build PROVE RowsInv'
<1>1. /\ at = "build" /\ UNCHANGED <<batch, groups, output>> /\ answer' \in {answer, "error"}
      /\ UNCHANGED <<now, deadline, expiry, wake, reply, stopped, punctual, attempts, notBefore>>
  BY DEF Build, Return, call
<1>2. \/ at' = "idle" /\ answer' = "error" /\ UNCHANGED <<attempt, delay>>
      \/ at' = "send" /\ attempt' = 0 /\ delay' = InitialBackoff /\ UNCHANGED answer
  BY DEF Build, Return
<1>3. 0 \in 0..MaxRetries /\ InitialBackoff \in 0..MaxBackoff
  BY RemoteAssumption
<1>4. attempt' \in 0..MaxRetries /\ delay' \in 0..MaxBackoff
  BY <1>2, <1>3 DEF RowsInv, Ranges
<1>5. at' = "send" => attempts' = attempt'
  BY <1>1, <1>2 DEF RowsInv, Ranges
<1>6. Ranges'
  BY <1>1, <1>2, <1>4, <1>5 DEF RowsInv, Ranges
<1> QED
  BY <1>1, <1>6, RowsKept DEF RowsInv

LEMMA SendRows == ASSUME RowsInv, Send PROVE RowsInv'
<1>1. /\ at = "send" /\ UNCHANGED <<batch, groups, output>> /\ answer' \in {answer, "error"}
      /\ UNCHANGED <<now, deadline, attempt, delay, wake, reply, stopped, punctual, notBefore>>
      /\ \/ at' = "idle" /\ answer' = "error" /\ UNCHANGED <<expiry, attempts>>
         \/ /\ at' = "transfer" /\ answer' = answer
            /\ expiry' = Expiry /\ attempts' = attempts + 1
  BY DEF Send, Return, call
<1>2. Expiry \in Nat
  <2>1. deadline \in Nat /\ now + AttemptTimeout \in Nat
    BY RemoteAssumption DEF RowsInv, Ranges
  <2> QED
    BY <2>1, MinOfTwo DEF Expiry
<1>3. Ranges'
  BY <1>1, <1>2, RemoteAssumption DEF RowsInv, Ranges
<1> QED
  BY <1>1, <1>3, RowsKept DEF RowsInv

LEMMA JudgeRows == ASSUME RowsInv, Judge PROVE RowsInv'
<1>1. /\ at = "judge" /\ UNCHANGED <<batch, groups, output>> /\ answer' \in {answer, "error"}
      /\ UNCHANGED <<now, deadline, attempt, delay, expiry, stopped, punctual, attempts>>
      /\ reply' = Outcome
      /\ notBefore' = IF reply'.after = Unadvised THEN 0 ELSE now + reply'.after
  BY DEF Judge, Return, call
<1>2. Outcome \in Replies \cup {NoReply}
  BY DEF Outcome, Replies, RowsInv, Ranges, Unadvised
<1>3. Outcome.after = Unadvised \/ Outcome.after \in Nat
  <2>1. \A r \in Replies \cup {NoReply} : r.after \in Advised \cup {Unadvised}
    BY DEF Replies, NoReply
  <2>2. Advised \subseteq Nat
    BY RemoteAssumption
  <2> QED
    BY <1>2, <2>1, <2>2
<1>4. notBefore' \in Nat
  BY <1>1, <1>3 DEF RowsInv, Ranges
<1>5. CASE at' # "backoff"
  <2>1. wake' = wake /\ at' \in {"idle", "parse"}
    BY <1>5 DEF Judge, Return
  <2>2. Ranges'
    BY <1>1, <1>2, <1>4, <2>1 DEF RowsInv, Ranges
  <2> QED
    BY <1>1, <2>2, RowsKept DEF RowsInv
<1>6. CASE at' = "backoff"
  <2>1. /\ attempt < MaxRetries /\ answer' = answer
        /\ \E wait \in Waits(Outcome) : wake' = now + wait
    BY <1>6 DEF Judge, Return, Retryable
  <2>2. Waits(Outcome) \subseteq Nat
    <3>1. delay \in Nat /\ (3 * delay) \div 4 \in Nat
      BY RemoteAssumption DEF RowsInv, Ranges
    <3>2. ((3 * delay) \div 4)..delay \subseteq Nat
      BY <3>1
    <3> QED
      BY <1>3, <3>2 DEF Waits
  <2>3. wake' \in Nat
    BY <2>1, <2>2 DEF RowsInv, Ranges
  <2>4. Ranges'
    BY <1>1, <1>2, <1>4, <1>6, <2>1, <2>3 DEF RowsInv, Ranges
  <2> QED
    BY <1>1, <2>4, RowsKept DEF RowsInv
<1> QED
  BY <1>5, <1>6

LEMMA WakeRows == ASSUME RowsInv, Wake PROVE RowsInv'
<1>1. /\ at = "backoff" /\ UNCHANGED <<batch, groups, output, answer>>
      /\ UNCHANGED <<now, deadline, expiry, wake, reply, stopped, punctual, attempts, notBefore>>
      /\ at' = "send" /\ attempt' = attempt + 1 /\ delay' = Doubled
  BY DEF Wake, call
<1>2. Doubled \in 0..MaxBackoff
  <2>1. MaxBackoff \in Nat /\ delay * 2 \in Nat
    BY RemoteAssumption DEF RowsInv, Ranges
  <2> QED
    BY <2>1, MinOfTwo DEF Doubled
<1>3. Ranges'
  BY <1>1, <1>2, RemoteAssumption DEF RowsInv, Ranges
<1> QED
  BY <1>1, <1>3, RowsKept DEF RowsInv

LEMMA OutsideRows ==
  ASSUME RowsInv, Perform \/ Cancel \/ Tick
  PROVE  RowsInv'
<1>1. at # "idle" /\ UNCHANGED <<batch, groups, output, answer>>
  BY DEF Perform, Cancel, Tick, call
<1>2. ASSUME Perform PROVE Ranges'
  BY <1>2 DEF Perform, RowsInv, Ranges, call
<1>3. ASSUME Cancel PROVE Ranges'
  BY <1>3 DEF Cancel, RowsInv, Ranges, sending
<1>4. ASSUME Tick PROVE Ranges'
  BY <1>4, RemoteAssumption DEF Tick, RowsInv, Ranges, call, sending
<1>5. Ranges'
  BY <1>2, <1>3, <1>4 DEF RowsInv
<1> QED
  BY <1>1, <1>5, RowsKept DEF RowsInv

\* The answers of a group go to the rows of that group, and each is made from the state
\* they share.
LEMMA ParseRows ==
  ASSUME RowsInv, Parse
  PROVE  RowsInv'
<1>1. at = "parse" /\ UNCHANGED <<now, call, sending>> /\ attempts' = 0 /\ notBefore' = 0
  BY DEF Parse
<1>2. at' \in {"idle", "build"} /\ answer' \in {"none", "ok", "error"}
  BY DEF Parse, Return, RowsInv, Ranges
<1>3. Ranges'
  BY <1>1, <1>2, RemoteAssumption DEF RowsInv, Ranges, call, sending
<1>4. CASE UNCHANGED <<groups, output>> /\ at' = "idle" /\ answer' = "error"
  BY <1>1, <1>3, <1>4 DEF RowsInv, Answered, call
<1>5. CASE /\ output' = [i \in DOMAIN batch |->
                           IF i \in Current THEN batch[Min(Current)] ELSE output[i]]
           /\ groups' = groups \ {Current}
           /\ IF groups' = {} THEN Return("ok") ELSE at' = "build" /\ UNCHANGED answer
  <2>1. /\ Current \in groups /\ Min(Current) \in Current /\ Current \subseteq DOMAIN batch
        /\ batch' = batch
    BY <1>1, CurrentIsGroup DEF RowsInv, call
  <2>2. \A i \in Current : output'[i] = batch[i]
    BY <1>5, <2>1 DEF RowsInv, Answered
  <2>3. \A i \in DOMAIN batch : (\E g \in groups' : i \in g) \/ output'[i] = batch[i]
    BY <1>5, <2>1, <2>2 DEF RowsInv, Answered
  <2>4. answer' = "ok" => groups' = {}
    BY <1>1, <1>5 DEF RowsInv, Answered, Return
  <2>5. at' # "idle" => groups' # {}
    BY <1>5 DEF Return
  <2> QED
    BY <1>5, <2>1, <2>3, <2>4, <2>5, <1>3 DEF RowsInv, Answered
<1> QED
  BY <1>3, <1>4, <1>5 DEF Parse, Return, RowsInv

LEMMA StepRows == RowsInv /\ [Next]_vars => RowsInv'
<1> SUFFICES ASSUME RowsInv, [Next]_vars PROVE RowsInv'
  OBVIOUS
<1>1. ASSUME NEW d \in Deadlines, ListModels(d) PROVE RowsInv'
  BY <1>1, BeginRows DEF ListModels
<1>2. ASSUME NEW d \in Deadlines, NEW rows \in Batches, PredictBatch(rows, d)
      PROVE  RowsInv'
  BY <1>2, BeginRows DEF PredictBatch, Return
<1>3. CASE UNCHANGED vars
  BY <1>3 DEF vars, call, sending, RowsInv, Ranges, Answered
<1> QED
  BY <1>1, <1>2, <1>3, BuildRows, SendRows, JudgeRows, WakeRows, ParseRows, OutsideRows
     DEF Next, Step

\* A batch that succeeds has an answer for every row, made from that row's own state,
\* however its rows were grouped and however often a group was sent:
\* remote.cpp:200-208 and the loop over the groups.
THEOREM RowsAnswered == Spec => []RowsMatch
<1>1. RowsInv => RowsMatch
  <2> SUFFICES ASSUME RowsInv PROVE RowsMatch
    OBVIOUS
  <2>1. DOMAIN output = DOMAIN batch
    BY DEF RowsInv, Answered
  <2>2. TypeOK
    BY <2>1 DEF RowsInv, Ranges, Answered, TypeOK
  <2>3. ASSUME answer = "ok" PROVE output = batch
    <3>1. \A i \in DOMAIN batch : output[i] = batch[i]
      BY <2>3 DEF RowsInv, Answered
    <3>2. batch = [i \in DOMAIN batch |-> batch[i]]
      <4>1. CASE batch = <<>>
        BY <4>1
      <4>2. CASE batch # <<>>
        BY <4>2, BatchIsSequence DEF RowsInv, Answered
      <4> QED
        BY <4>1, <4>2
    <3>3. output = [i \in DOMAIN batch |-> output[i]]
      BY DEF RowsInv, Answered
    <3> QED
      BY <3>1, <3>2, <3>3
  <2> QED
    BY <2>2, <2>3 DEF RowsMatch
<1> QED
  BY <1>1, RowsInit, StepRows, PTL DEF Spec

-----------------------------------------------------------------------------
\* With a transport that keeps the deadlines it is given, the call is over by its own
\* deadline, groups, retries and waits included: remote.cpp:148-175.
THEOREM BudgetKept == Spec => []WithinBudget
<1>1. IInv => WithinBudget
  BY DEF IInv
<1> QED
  BY <1>1, Invariance, PTL

\* A group is sent again only after a transient failure, not before the time its
\* Retry-After named, and MaxRetries times at most: remote.cpp:148-175.
THEOREM RetriesJustified == Spec => RetriesAllowed
<1> DEFINE Allowed ==
      attempts' > attempts =>
        /\ now >= notBefore /\ attempts <= MaxRetries
        /\ attempts > 0 => reply.kind \in {"transient", "lost"}
<1>1. IInv /\ RowsMatch /\ RowsMatch' /\ [Next]_vars => [Allowed]_vars
  <2> SUFFICES ASSUME IInv, RowsMatch, RowsMatch', Next PROVE Allowed
    OBVIOUS
  <2>0. attempts' > attempts => attempts <= MaxRetries
    BY RemoteAssumption DEF RowsMatch, TypeOK
  <2>1. CASE Send
    BY <2>0, <2>1, SendInv DEF Retried
  <2>2. CASE ~Send
    <3>1. attempts' = attempts \/ attempts' = 0
      BY <2>2 DEF Next, Step, ListModels, PredictBatch, Begin, Build, Judge, Wake, Parse,
                  Perform, Cancel, Tick
    <3> QED
      BY <3>1 DEF IInv, Times
  <2> QED
    BY <2>1, <2>2
<1> QED
  BY <1>1, Invariance, RowsAnswered, PTL DEF Spec, RetriesAllowed

-----------------------------------------------------------------------------
(* The curl transport *)

Stages == {"out", "leased", "polling", "waiting", "finished", "detaching", "returning"}

\* Where the call is in perform() while the backend waits for it, what it is about to
\* return, and that no poll outlasts the request's deadline.  Rounds are the call's alone.
CallInside ==
  /\ stage \in [Callers -> Stages]
  /\ stage[TheCall] # "out" => at = "transfer"
  /\ stage[TheCall] \in {"detaching", "returning"} => result \in Replies
  /\ stage[TheCall] = "waiting" => until \in Nat /\ until <= expiry
  /\ \A c \in Callers \ {TheCall} : stage[c] \notin {"waiting", "finished"}

CInv == IInv /\ CallInside

-----------------------------------------------------------------------------
LEMMA FailureIsReply ==
  \A kind \in {"large", "broken", "lost"} : Failure(kind) \in Replies
BY DEF Failure, Replies

LEMMA CurlInitInv == CurlInit => CInv
BY InitInv DEF CurlInit, CInv, CallInside, Stages, Callers

\* What the call's thread does outside of perform(), and what its peers do, leave its
\* place in perform() alone.
LEMMA BackendInside ==
  ASSUME CInv, BackendStep, UNCHANGED curl
  PROVE  Next /\ CallInside'
<1>1. Next
  BY DEF BackendStep, Next
<1>2. CASE Cancel
  BY <1>1, <1>2 DEF CInv, CallInside, Cancel, curl, sending
<1>3. CASE ~Cancel
  <2>1. at # "transfer"
    BY <1>3 DEF BackendStep, Step, ListModels, PredictBatch, Begin, Build, Send, Judge,
                Wake, Parse
  <2> QED
    BY <1>1, <2>1 DEF CInv, CallInside, curl
<1> QED
  BY <1>1, <1>2, <1>3

\* A poll of the call ends by the deadline of its request.
LEMMA SliceEnds ==
  ASSUME CInv, now < expiry
  PROVE  now + Slice \in Nat /\ now + Slice <= expiry
<1>1. now \in Nat /\ expiry \in Nat /\ PollSlice \in Nat /\ expiry - now \in Nat
  BY CurlAssumption DEF CInv, IInv, Times
<1>2. Slice = Min({PollSlice, expiry - now})
  BY DEF Slice
<1>3. Slice \in {PollSlice, expiry - now} /\ Slice <= expiry - now
  BY <1>1, <1>2, MinOfTwo
<1> QED
  BY <1>1, <1>3

LEMMA InsideInv ==
  ASSUME CInv, NEW c \in Callers, Inside(c), UNCHANGED vars
  PROVE  CallInside'
<1>1. UNCHANGED <<at, now, expiry, stopped>>
  BY DEF vars, call, sending
<1>2. TheCall \in Callers /\ stage \in [Callers -> Stages]
  BY DEF Callers, CInv, CallInside
<1>3. PICK s \in Stages : stage' = [stage EXCEPT ![c] = s]
  BY DEF Inside, Lease, Setup, Poll, PollReturns, Finished, Detach, To, Stages
<1>4. stage' \in [Callers -> Stages] /\ stage'[c] = s
  BY <1>2, <1>3
<1>5. CASE c # TheCall
  <2>1. stage'[TheCall] = stage[TheCall]
    BY <1>2, <1>3, <1>5
  <2>2. stage[c] \notin {"waiting", "finished"}
    BY <1>5 DEF CInv, CallInside
  <2>3. result' = result /\ until' = until /\ s \notin {"waiting", "finished"}
    BY <1>2, <1>4, <1>5, <2>2
       DEF Inside, Lease, Setup, Poll, PollReturns, Finished, Detach, To, Results
  <2>4. \A d \in Callers \ {TheCall} : stage'[d] \notin {"waiting", "finished"}
    BY <1>2, <1>3, <2>3 DEF CInv, CallInside
  <2> QED
    BY <1>1, <1>4, <2>1, <2>3, <2>4 DEF CInv, CallInside
<1>6. CASE c = TheCall
  <2> USE <1>6, FailureIsReply
  <2>1. at = "transfer"
    BY DEF Inside, Lease, Setup, Poll, PollReturns, Finished, Detach, CInv, CallInside
  <2>2. Overrun \in Replies
    BY DEF Overrun
  <2>3. s \in {"detaching", "returning"} => result' \in Replies
    BY <1>2, <1>4, <2>2
       DEF Inside, Lease, Setup, Poll, PollReturns, Finished, Detach, To, Results, CInv,
           CallInside, Received
  <2>4. s = "waiting" => until' \in Nat /\ until' <= expiry
    <3>1. now \in Nat /\ expiry \in Nat
      BY DEF CInv, IInv, Times
    <3>2. s = "waiting" => ~(now >= expiry) /\ until' = now + Slice
      BY <1>2, <1>4
         DEF Inside, Lease, Setup, Poll, PollReturns, Finished, Detach, To, Over
    <3> QED
      BY <3>1, <3>2, SliceEnds
  <2>5. \A d \in Callers \ {TheCall} : stage'[d] \notin {"waiting", "finished"}
    BY <1>2, <1>3 DEF CInv, CallInside
  <2> QED
    BY <1>1, <1>4, <2>1, <2>3, <2>4, <2>5 DEF CallInside
<1> QED
  BY <1>5, <1>6

\* perform() returns to the call: the transport answers.
LEMMA LeaveInv ==
  ASSUME CInv, NEW c \in Callers, Leave(c)
  PROVE  [Next]_vars /\ CallInside'
<1>1. TheCall \in Callers /\ stage' = [stage EXCEPT ![c] = "out"]
  BY DEF Leave, To, Callers
<1>2. \A d \in Callers \ {TheCall} : stage'[d] \notin {"waiting", "finished"}
  BY <1>1 DEF CInv, CallInside
<1>3. CASE c = TheCall
  <2>1. Perform
    BY <1>3 DEF Leave, Perform, CInv, CallInside
  <2>2. stage' \in [Callers -> Stages] /\ stage'[TheCall] = "out"
    BY <1>1, <1>3 DEF CInv, CallInside, Stages
  <2> QED
    BY <1>2, <2>1, <2>2 DEF Next, CallInside
<1>4. CASE c # TheCall
  <2>1. UNCHANGED vars /\ UNCHANGED <<at, expiry, result, until>>
    BY <1>4 DEF Leave, vars, sending
  <2>2. stage' \in [Callers -> Stages] /\ stage'[TheCall] = stage[TheCall]
    BY <1>1, <1>4 DEF CInv, CallInside, Stages
  <2> QED
    BY <1>2, <2>1, <2>2 DEF CInv, CallInside
<1> QED
  BY <1>3, <1>4

\* With prompt threads time passes in perform() only while a poll lasts, and so within
\* the deadline.
LEMMA CurlTickInv ==
  ASSUME CInv, CurlTick
  PROVE  Tick /\ CallInside'
<1>1. now \in Nat /\ expiry \in Nat
  BY DEF CInv, IInv, Times
<1>2. punctual /\ at = "transfer" => now < expiry
  <2>1. punctual /\ at = "transfer" => until \in Nat /\ until <= expiry /\ now < until
    BY DEF CurlTick, CInv, CallInside
  <2> QED
    BY <1>1, <2>1
<1>3. CallInside'
  BY DEF CurlTick, CInv, CallInside, curl, sending
<1> QED
  BY <1>2, <1>3 DEF CurlTick, Tick

LEMMA CurlStepInv == CInv /\ [CurlNext]_allVars => CInv' /\ [Next]_vars
<1> SUFFICES ASSUME CInv, [CurlNext]_allVars PROVE CallInside' /\ [Next]_vars
  BY StepInv DEF CInv
<1>1. CASE UNCHANGED allVars
  BY <1>1 DEF allVars, curl, vars, sending, CInv, CallInside
<1>2. ASSUME NEW c \in Callers, PerformStep(c) PROVE CallInside' /\ [Next]_vars
  BY <1>2, InsideInv, LeaveInv DEF PerformStep
<1> QED
  BY <1>1, <1>2, BackendInside, CurlTickInv DEF CurlNext, Next

-----------------------------------------------------------------------------
\* curl_transport::perform() is a transport as RemoteBackend has it: one answer to each
\* request, and within its deadline when threads are prompt (curl_transport.cpp:82-171).
THEOREM TransportImplemented == CurlSpec => ImplementsTransport
<1>1. CurlInit => Init
  BY DEF CurlInit
<1> QED
  BY <1>1, CurlInitInv, CurlStepInv, PTL DEF CurlSpec, Spec, ImplementsTransport

\* Over the curl transport, then, a batch that succeeds is answered row by row and the
\* retry loop keeps its total budget and its rules for sending again, with nothing assumed
\* of a transport (remote.cpp:148-208).
THEOREM OverCurl == CurlSpec => []RowsMatch /\ []WithinBudget /\ RetriesAllowed
BY TransportImplemented, RowsAnswered, BudgetKept, RetriesJustified, PTL
   DEF ImplementsTransport

-----------------------------------------------------------------------------
(* The pool of connections *)

Using == {"polling", "waiting", "finished", "detaching"}

\* A connection is held from the lease to the return, and a transfer is attached to it
\* from the set-up to the end of the rounds.
LInv ==
  /\ stage \in [Callers -> Stages] /\ idle \in Seq(Connections)
  /\ LeasesExclusive
  /\ \A c \in Callers : stage[c] = "out" => held[c] = NoConnection
  /\ \A c \in Callers : stage[c] \in Using \cup {"leased"} => held[c] # NoConnection

LEMMA NotAConnection == NoConnection \notin Connections
BY DEF NoConnection, Connections

\* When none is kept, the other callers cannot have all there are.
LEMMA SomeUnused ==
  ASSUME held \in [Callers -> Connections \cup {NoConnection}], idle = <<>>
  PROVE  Min(Unused) \in Connections \ {held[c] : c \in Callers}
<1> DEFINE taken == {held[c] : c \in Callers}
<1>1. IsFiniteSet(Callers) /\ Cardinality(Callers) \in Nat
  <2>1. IsFiniteSet({TheCall})
    BY FS_Singleton
  <2> QED
    BY <2>1, FS_Union, FS_CardinalityType, CurlAssumption DEF Callers
<1>2. IsFiniteSet(taken) /\ Cardinality(taken) <= Cardinality(Callers)
  <2>1. held \in Surjection(Callers, taken)
    BY DEF Surjection
  <2> QED
    BY <1>1, <2>1, FS_Surjection
<1>3. Cardinality(Connections) = Cardinality(Callers) + Retained
  BY <1>1, FS_Interval, CurlAssumption DEF Connections
<1>4. Unused # {}
  <2>1. Unused = Connections \ taken
    BY DEF Unused, ToSet
  <2> SUFFICES ASSUME Connections \subseteq taken PROVE FALSE
    BY <2>1
  <2>2. Cardinality(Connections) <= Cardinality(taken)
    BY <1>2, FS_Subset
  <2>3. Cardinality(taken) \in Nat
    BY <1>2, FS_CardinalityType
  <2> QED
    BY <1>1, <1>2, <1>3, <2>2, <2>3, CurlAssumption
<1>5. Unused \subseteq Connections \ taken /\ Connections \subseteq Nat
  BY <1>1, CurlAssumption DEF Unused, Connections
<1> QED
  BY <1>4, <1>5, LeastExists

\* What is leased is nobody else's, and leaves the pool.
LEMMA PickExclusive ==
  ASSUME LInv, NEW c \in Callers, Pick(c)
  PROVE  /\ idle' \in Seq(Connections) /\ Len(idle') <= Retained /\ IsInjective(idle')
         /\ ToSet(idle') \subseteq ToSet(idle)
         /\ \E connection \in Connections :
              /\ held' = [held EXCEPT ![c] = connection]
              /\ connection \notin ToSet(idle')
              /\ \A d \in Callers : held[d] # connection
<1>1. CASE idle = <<>>
  <2>1. idle' = idle /\ held' = [held EXCEPT ![c] = Min(Unused)]
    BY <1>1 DEF Pick
  <2>2. Min(Unused) \in Connections \ {held[d] : d \in Callers}
    BY <1>1, SomeUnused DEF LInv, LeasesExclusive
  <2>3. ToSet(idle') = {} /\ ToSet(idle) = {}
    BY <1>1, <2>1 DEF ToSet
  <2>4. idle' \in Seq(Connections) /\ Len(idle') <= Retained /\ IsInjective(idle')
    BY <2>1 DEF LInv, LeasesExclusive
  <2>5. /\ held' = [held EXCEPT ![c] = Min(Unused)]
        /\ Min(Unused) \notin ToSet(idle')
        /\ \A d \in Callers : held[d] # Min(Unused)
    BY <2>1, <2>2, <2>3
  <2> QED
    BY <2>2, <2>3, <2>4, <2>5
<1>2. CASE idle # <<>>
  <2>1. idle' = Front(idle) /\ held' = [held EXCEPT ![c] = Last(idle)]
    BY <1>2 DEF Pick
  <2>2. Len(idle) \in Nat \ {0} /\ DOMAIN idle = 1..Len(idle)
    BY <1>2 DEF LInv
  <2>3. /\ idle' \in Seq(Connections) /\ Len(idle') = Len(idle) - 1
        /\ \A i \in 1..(Len(idle) - 1) : idle'[i] = idle[i]
    BY <2>1, <2>2 DEF LInv, Front
  <2>4. Last(idle) \in ToSet(idle) /\ Last(idle) \in Connections
    BY <2>2 DEF LInv, Last, ToSet
  <2>5. DOMAIN idle' = 1..(Len(idle) - 1)
    BY <2>3
  <2>6. Retained \in Nat
    BY CurlAssumption
  <2>7. IsInjective(idle') /\ Len(idle') <= Retained
    BY <2>2, <2>3, <2>5, <2>6 DEF LInv, LeasesExclusive, IsInjective
  <2>8. ToSet(idle') \subseteq ToSet(idle) /\ Last(idle) \notin ToSet(idle')
    BY <2>2, <2>3, <2>5 DEF LInv, LeasesExclusive, IsInjective, ToSet, Last
  <2>9. \A d \in Callers : held[d] # Last(idle)
    BY <2>4 DEF LInv, LeasesExclusive
  <2> QED
    BY <2>1, <2>3, <2>4, <2>7, <2>8, <2>9
<1> QED
  BY <1>1, <1>2

LEMMA LeaseLeases == ASSUME LInv, NEW c \in Callers, Lease(c) PROVE LInv'
<1>1. CASE Pick(c) /\ To(c, "leased") /\ stage[c] = "out" /\ UNCHANGED attached
  <2>1. PICK connection \in Connections :
          /\ held' = [held EXCEPT ![c] = connection]
          /\ connection \notin ToSet(idle')
          /\ \A d \in Callers : held[d] # connection
    BY <1>1, PickExclusive
  <2>2. connection # NoConnection
    BY <2>1 DEF Connections, NoConnection
  <2>3. stage' \in [Callers -> Stages] /\ held' \in [Callers -> Connections \cup {NoConnection}]
    BY <1>1, <2>1 DEF To, LInv, LeasesExclusive, Stages
  <2>4. \A d \in Callers : d # c => stage'[d] = stage[d] /\ held'[d] = held[d]
    BY <1>1, <2>1 DEF To, LInv, LeasesExclusive
  <2>5. stage'[c] = "leased" /\ held'[c] = connection
    BY <1>1, <2>1 DEF To, LInv, LeasesExclusive
  <2>6. attached' = {held'[x] : x \in {y \in Callers : stage'[y] \in Using}}
    BY <1>1, <2>4, <2>5 DEF LInv, LeasesExclusive, Using
  <2> QED
    BY <1>1, <2>1, <2>2, <2>3, <2>4, <2>5, <2>6, PickExclusive
       DEF LInv, LeasesExclusive, Using
<1>2. CASE To(c, "returning") /\ stage[c] = "out" /\ UNCHANGED <<idle, held, attached>>
  BY <1>2 DEF To, LInv, LeasesExclusive, Using, Stages
<1> QED
  BY <1>1, <1>2 DEF Lease

\* The other steps before the return keep the connection they have.
LEMMA RoundLeases ==
  ASSUME LInv, NEW c \in Callers,
         Setup(c) \/ Poll(c) \/ PollReturns(c) \/ Finished(c) \/ Detach(c)
  PROVE  LInv'
<1>1. UNCHANGED <<idle, held>> /\ held[c] # NoConnection
  BY DEF Setup, Poll, PollReturns, Finished, Detach, LInv, Using
<1>2. PICK s \in Stages \ {"out", "leased"} : stage' = [stage EXCEPT ![c] = s]
  BY DEF Setup, Poll, PollReturns, Finished, Detach, To, Stages
<1>3. /\ stage' \in [Callers -> Stages] /\ stage'[c] = s
      /\ \A d \in Callers : d # c => stage'[d] = stage[d]
  BY <1>2 DEF LInv
<1>4. \A d \in Callers : d # c => held[d] # held[c]
  BY <1>1 DEF LInv, LeasesExclusive
<1>5. /\ s \in Using => attached' = attached \cup {held[c]}
      /\ s \notin Using => attached' = attached \ {held[c]}
  BY <1>1, <1>2, <1>3, <1>4
     DEF Setup, Poll, PollReturns, Finished, Detach, To, LInv, LeasesExclusive, Using
<1>6. attached' = {held[x] : x \in {y \in Callers : stage'[y] \in Using}}
  BY <1>3, <1>4, <1>5 DEF LInv, LeasesExclusive, Using
<1> QED
  BY <1>1, <1>2, <1>3, <1>6 DEF LInv, LeasesExclusive, Using

LEMMA LeaveLeases == ASSUME LInv, NEW c \in Callers, Leave(c) PROVE LInv'
<1>1. /\ stage[c] = "returning" /\ stage' = [stage EXCEPT ![c] = "out"]
      /\ held' = [held EXCEPT ![c] = NoConnection] /\ attached' = attached
  BY DEF Leave, To
<1>2. /\ stage' \in [Callers -> Stages] /\ stage'[c] = "out" /\ held'[c] = NoConnection
      /\ held' \in [Callers -> Connections \cup {NoConnection}]
      /\ \A d \in Callers : d # c => stage'[d] = stage[d] /\ held'[d] = held[d]
  BY <1>1 DEF LInv, LeasesExclusive, Stages
<1>3. attached' = {held'[x] : x \in {y \in Callers : stage'[y] \in Using}}
  BY <1>1, <1>2 DEF LInv, LeasesExclusive, Using
<1>4. /\ idle' \in Seq(Connections) /\ Len(idle') <= Retained /\ IsInjective(idle')
      /\ \A d \in Callers : held'[d] \notin ToSet(idle')
  <2>1. CASE idle' = idle
    <3>1. NoConnection \notin ToSet(idle)
      BY NotAConnection DEF LInv, ToSet
    <3> QED
      BY <1>2, <2>1, <3>1 DEF LInv, LeasesExclusive
  <2>2. CASE idle' = Append(idle, held[c]) /\ held[c] # NoConnection /\ Len(idle) < Retained
    <3>1. held[c] \in Connections
      BY <2>2 DEF LInv, LeasesExclusive
    <3>2. /\ idle' \in Seq(Connections) /\ Len(idle') = Len(idle) + 1
          /\ \A i \in 1..Len(idle) : idle'[i] = idle[i]
          /\ idle'[Len(idle) + 1] = held[c]
      BY <2>2, <3>1, AppendProperties DEF LInv
    <3>3. Len(idle) \in Nat /\ DOMAIN idle = 1..Len(idle) /\ DOMAIN idle' = 1..(Len(idle) + 1)
      BY <3>2 DEF LInv
    <3>4. ToSet(idle') = ToSet(idle) \cup {held[c]}
      BY <3>2, <3>3 DEF ToSet
    <3>5. IsInjective(idle')
      BY <3>2, <3>3 DEF LInv, LeasesExclusive, IsInjective, ToSet
    <3>6. Len(idle') <= Retained
      BY <2>2, <3>2, <3>3, CurlAssumption
    <3>7. \A d \in Callers : held'[d] \notin ToSet(idle')
      <4>1. NoConnection \notin ToSet(idle')
        BY <3>2, <3>3, NotAConnection DEF ToSet
      <4> QED
        BY <1>2, <2>2, <3>4, <4>1 DEF LInv, LeasesExclusive
    <3> QED
      BY <3>2, <3>5, <3>6, <3>7
  <2> QED
    BY <2>1, <2>2 DEF Leave, GiveBack
<1> QED
  BY <1>2, <1>3, <1>4 DEF LInv, LeasesExclusive, Using

LEMMA LeasesStep == LInv /\ [CurlNext]_allVars => LInv'
<1> SUFFICES ASSUME LInv, [CurlNext]_allVars PROVE LInv'
  OBVIOUS
<1>1. CASE UNCHANGED curl
  BY <1>1 DEF curl, LInv, LeasesExclusive
<1>2. ASSUME NEW c \in Callers, PerformStep(c) PROVE LInv'
  BY <1>2, LeaseLeases, RoundLeases, LeaveLeases DEF PerformStep, Inside
<1> QED
  BY <1>1, <1>2 DEF CurlNext, CurlTick, allVars

\* Whatever perform() returns early with, a connection is one caller's or idle, and no
\* connection is kept with a transfer attached (curl_transport.cpp:64-71, 82-171).
THEOREM Exclusive == CurlSpec => []LeasesExclusive
<1>1. CurlInit => LInv
  <2> SUFFICES ASSUME CurlInit PROVE LInv
    OBVIOUS
  <2>1. /\ held = [c \in Callers |-> NoConnection] /\ stage = [c \in Callers |-> "out"]
        /\ idle = <<>> /\ attached = {}
    BY DEF CurlInit
  <2>2. ToSet(idle) = {} /\ IsInjective(idle) /\ idle \in Seq(Connections)
    BY <2>1 DEF ToSet, IsInjective
  <2>3. Len(idle) <= Retained
    BY <2>1, CurlAssumption
  <2> QED
    BY <2>1, <2>2, <2>3 DEF LInv, LeasesExclusive, Stages, Using
<1>2. LInv => LeasesExclusive
  BY DEF LInv
<1> QED
  BY <1>1, <1>2, LeasesStep, PTL DEF CurlSpec
=============================================================================
