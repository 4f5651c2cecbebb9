---------------------------- MODULE RemoteOverCurl ----------------------------
(***************************************************************************)
(* jevt::curl_transport (src/src/curl_transport.cpp) under one call of     *)
(* RemoteBackend: what perform() does instead of the transport that module *)
(* takes as given.  Other threads (Peers) perform requests of their own    *)
(* over the same transport and share its pool of kept connections.         *)
(* Of a connection it matters where it is: in the pool, leased, and with a *)
(* transfer attached to its multi handle or not.  libcurl is external: a   *)
(* transfer runs on, ends in any way, or fails.  A multi-loop slice of     *)
(* 20 ms is PollSlice ticks of the clock; the rounding up to whole         *)
(* milliseconds is left out.                                               *)
(***************************************************************************)
EXTENDS RemoteBackend

CONSTANTS
  Peers,       \* the other callers
  Retained,    \* how many idle connections are kept
  PollSlice

ASSUME CurlAssumption ==
  Retained \in Nat \ {0} /\ PollSlice \in Nat \ {0} /\ IsFiniteSet(Peers)

VARIABLES
  idle,        \* idle_: kept connections, the last one returned is leased first
  held,        \* slot.value of each caller
  stage,       \* where in perform() each caller is
  attached,    \* the connections whose easy handle is attached to their multi
  result,      \* what the call's perform() is about to return
  until        \* when the call's curl_multi_poll() times out

curl == <<idle, held, stage, attached, result, until>>
allVars == <<vars, curl>>

TheCall == "call"
Callers == Peers \cup {TheCall}
NoConnection == 0
Connections == 1..(Cardinality(Callers) + Retained)

CurlInit ==
  /\ Init
  /\ idle = <<>> /\ held = [c \in Callers |-> NoConnection]
  /\ stage = [c \in Callers |-> "out"] /\ attached = {}
  /\ result = NoReply /\ until = 0

-----------------------------------------------------------------------------
Failure(kind) == [kind |-> kind, after |-> Unadvised]

To(c, s) == stage' = [stage EXCEPT ![c] = s]

\* Only the call's own result is followed.
Results(c, r) == result' = IF c = TheCall THEN r ELSE result

\* execution_error(request.deadline, request.cancellation), cancellation first; a peer
\* has limits of its own.
Over(c) == IF c = TheCall THEN {stopped \/ now >= expiry} ELSE BOOLEAN
Overrun == Failure(IF stopped THEN "broken" ELSE "lost")

Unused == Connections \ (ToSet(idle) \cup {held[c] : c \in Callers})

\* Mutant: the connection is copied out of the pool and stays there.
PickLeaving(c) ==
  /\ held' = [held EXCEPT ![c] = IF idle # <<>> THEN Last(idle) ELSE Min(Unused)]
  /\ UNCHANGED idle

\* A kept connection, or a new one.
Pick(c) ==
  IF idle # <<>>
  THEN held' = [held EXCEPT ![c] = Last(idle)] /\ idle' = Front(idle)
  ELSE held' = [held EXCEPT ![c] = Min(Unused)] /\ UNCHANGED idle

\* The first checks, and the lease; a new connection may not be had.
Lease(c) ==
  /\ stage[c] = "out" /\ (c = TheCall => at = "transfer")
  /\ \E over \in Over(c) :
       \/ over /\ To(c, "returning") /\ Results(c, Overrun) /\ UNCHANGED <<idle, held>>
       \/ \E kind \in {"broken"} \cup (IF idle = <<>> THEN {"lost"} ELSE {}) :
            /\ ~over /\ To(c, "returning") /\ Results(c, Failure(kind))
            /\ UNCHANGED <<idle, held>>
       \/ ~over /\ Pick(c) /\ To(c, "leased") /\ UNCHANGED result
  /\ UNCHANGED <<attached, until>>

\* An invalid header, no time left, an option or the handle refused: the connection goes
\* back without a transfer.
Setup(c) ==
  /\ stage[c] = "leased"
  /\ \/ \E kind \in {"broken", "lost"} :
          To(c, "returning") /\ Results(c, Failure(kind)) /\ UNCHANGED attached
     \/ /\ c = TheCall => now < expiry
        /\ attached' = attached \cup {held[c]}
        /\ To(c, "polling") /\ UNCHANGED result
  /\ UNCHANGED <<idle, held, until>>

\* Mutant: a full slice is waited whatever is left.
SliceOf == PollSlice

Slice == Min({PollSlice, IF now < expiry THEN expiry - now ELSE 0})

\* One round: the limits, curl_multi_perform(), and curl_multi_poll() if it runs on.
\* The rounds of a peer are left out: its transfer ends at some time, in some way.
Poll(c) ==
  /\ stage[c] = "polling"
  /\ \E over \in Over(c) :
       IF over THEN To(c, "detaching") /\ Results(c, Overrun) /\ UNCHANGED until
       ELSE \/ /\ c = TheCall /\ To(c, "waiting") /\ UNCHANGED result
               /\ until' = now + Slice
            \/ c = TheCall /\ To(c, "finished") /\ UNCHANGED <<result, until>>
            \/ To(c, "detaching") /\ Results(c, Failure("lost")) /\ UNCHANGED until
  /\ UNCHANGED <<idle, held, attached>>

\* Data, the time-out, or an error of the poll.
PollReturns(c) ==
  /\ stage[c] = "waiting"
  /\ \/ To(c, "polling") /\ UNCHANGED result
     \/ To(c, "detaching") /\ Results(c, Failure("lost"))
  /\ until' = 0
  /\ UNCHANGED <<idle, held, attached>>

\* The callbacks have kept the headers of the last status line and refused what is over
\* the limits; the transfer may have failed or timed out in libcurl.
Received == {r \in Replies : r.kind \in {"ok", "malformed", "refused", "transient"}}
              \cup {Failure("large"), Failure("lost")}

Finished(c) ==
  /\ stage[c] = "finished"
  /\ IF stopped \/ now >= expiry THEN result' = Overrun ELSE result' \in Received
  /\ To(c, "detaching")
  /\ UNCHANGED <<idle, held, attached, until>>

\* ~attached, before the headers are freed and the lease ends.
Detach(c) ==
  /\ stage[c] = "detaching"
  /\ attached' = attached \ {held[c]}
  /\ To(c, "returning")
  /\ UNCHANGED <<idle, held, result, until>>

\* ~lease: kept, or destroyed when enough are.
GiveBack(c) ==
  idle' = IF held[c] # NoConnection /\ Len(idle) < Retained THEN Append(idle, held[c])
          ELSE idle

Leave(c) ==
  /\ stage[c] = "returning"
  /\ GiveBack(c) /\ held' = [held EXCEPT ![c] = NoConnection]
  /\ To(c, "out")
  /\ result' = IF c = TheCall THEN NoReply ELSE result
  /\ IF c = TheCall
     THEN /\ reply' = result /\ at' = "judge"
          /\ UNCHANGED <<now, call, groups, attempt, delay, expiry, wake, output, answer,
                         attempts, notBefore>>
     ELSE UNCHANGED vars
  /\ UNCHANGED <<attached, until>>

Inside(c) == Lease(c) \/ Setup(c) \/ Poll(c) \/ PollReturns(c) \/ Finished(c) \/ Detach(c)

PerformStep(c) == (Inside(c) /\ UNCHANGED vars) \/ Leave(c)

\* A prompt thread lets no time pass in perform() but in curl_multi_poll().
CurlTick ==
  /\ punctual /\ at = "transfer" => stage[TheCall] = "waiting" /\ now < until
  /\ at # "idle" /\ now < Horizon /\ now' = now + 1
  /\ punctual => at = "transfer" \/ (at = "backoff" /\ now < wake)
  /\ UNCHANGED <<at, call, groups, sending, output, answer, attempts, notBefore, curl>>

BackendStep ==
  \/ \E d \in Deadlines : ListModels(d) \/ \E rows \in Batches : PredictBatch(rows, d)
  \/ Step \/ Cancel

CurlNext ==
  \/ BackendStep /\ UNCHANGED curl
  \/ \E c \in Callers : PerformStep(c)
  \/ CurlTick

\* Threads run on, and the clock does however often data arrives.  Nothing is asked of
\* the service: poll rounds end because of the deadline.
CurlSpec ==
  /\ CurlInit /\ [][CurlNext]_allVars
  /\ WF_allVars(Step /\ UNCHANGED curl) /\ WF_allVars(PerformStep(TheCall))
  /\ SF_allVars(CurlTick)

-----------------------------------------------------------------------------
(* Properties *)

\* The pool: whatever perform() returns early with, a connection is one caller's or
\* idle, at most `retained` are kept, and none is kept or given to another caller with
\* a transfer still attached.
LeasesExclusive ==
  /\ held \in [Callers -> Connections \cup {NoConnection}]
  /\ \A c, d \in Callers : c # d /\ held[c] = held[d] => held[c] = NoConnection
  /\ \A c \in Callers : held[c] \notin ToSet(idle)
  /\ Len(idle) <= Retained /\ IsInjective(idle)
  /\ attached = {held[c] : c \in {x \in Callers :
                   stage[x] \in {"polling", "waiting", "finished", "detaching"}}}

\* The transport is what the retry loop takes it for (http_transport::perform): it
\* answers once per request, and it keeps the request's deadline when threads are prompt.
\* RemoteBackend's specification, which leaves both to the transport, holds.
ImplementsTransport == Spec
=============================================================================
