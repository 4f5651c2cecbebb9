------------------------------ MODULE HttpServer ------------------------------
(***************************************************************************)
(* jevt::HttpServer (src/src/http_server.cpp): the diagnostics server's    *)
(* lifecycle, its accept thread and the clients it serves one at a time.   *)
(*                                                                         *)
(* Threads are the operators, which call start() and stop() on any of the  *)
(* servers of the process, and the worker of each server.  They share the  *)
(* process's descriptor table: a descriptor is a number, and the kernel    *)
(* hands out the lowest one that is free.  Steps are the atomic variables' *)
(* loads and stores, the critical sections of client_mutex, and the system *)
(* calls on descriptors.  A request is a number of chunks; routes and      *)
(* texts are left out, as are polls that find nothing.                     *)
(***************************************************************************)
EXTENDS Integers

CONSTANTS
  Servers, Operators, Peers,
  Fds,        \* the numbers of the descriptor table
  MaxChunks,  \* options.max_request_bytes, in chunks
  Threadless, \* servers whose std::thread may fail to be created
  None        \* no descriptor, no server, no thread

Free == <<"free">>
Listener(s) == <<"listen", s>>   \* a listening socket of s
Shut(s) == <<"shut", s>>         \* the same after shutdown()
Client(s) == <<"client", s>>     \* a connection the worker of s accepted

ASSUME HttpAssumption ==
  /\ Fds \subseteq Nat /\ Threadless \subseteq Servers
  /\ MaxChunks \in Nat \ {0}
  /\ None \notin Fds \cup Servers \cup Operators

VARIABLES
  running, listen_socket, active_client, port,  \* is_running, ..., bound_port # 0
  lifecycle,   \* the operator that holds lifecycle_mutex
  at, target,  \* where an operator is in stop(), and of which server
  closing,     \* the listening socket stop() has taken out
  worker,      \* where a worker is in accept_loop()
  listening, blocked, client, request,  \* its locals; the socket accept() blocks on
  fd,          \* the descriptor table
  peer, link,  \* a peer's connection; the server and descriptor at our end
  inbox        \* what it has sent that is not yet received

shared == <<running, listen_socket, active_client, port>>
opers == <<lifecycle, at, target, closing>>
locals == <<listening, blocked, client, request>>
peers == <<peer, link, inbox>>
vars == <<shared, opers, worker, locals, fd, peers>>

Init ==
  /\ running = [s \in Servers |-> FALSE] /\ port = [s \in Servers |-> FALSE]
  /\ listen_socket = [s \in Servers |-> None]
  /\ active_client = [s \in Servers |-> None]
  /\ lifecycle = [s \in Servers |-> None]
  /\ at = [o \in Operators |-> "idle"] /\ target = [o \in Operators |-> None]
  /\ closing = [o \in Operators |-> None]
  /\ worker = [s \in Servers |-> "none"]
  /\ listening = [s \in Servers |-> None] /\ blocked = [s \in Servers |-> None]
  /\ client = [s \in Servers |-> None] /\ request = [s \in Servers |-> 0]
  /\ fd = [f \in Fds |-> Free]
  /\ peer = [p \in Peers |-> "out"] /\ link = [p \in Peers |-> None]
  /\ inbox = [p \in Peers |-> None]

-----------------------------------------------------------------------------
(* The kernel *)

Lowest(f) == fd[f] = Free /\ \A g \in Fds : fd[g] = Free => f <= g

\* The peers whose connection is descriptor f.
At(f) == {p \in Peers : peer[p] = "open" /\ link[p] = f}

Close(f) ==
  /\ fd' = [fd EXCEPT ![f] = Free]
  /\ peer' = [p \in Peers |-> IF p \in At(f) THEN "closed" ELSE peer[p]]

-----------------------------------------------------------------------------
(* start() *)

\* When the thread cannot be created it throws, and what it did before stays.
Start(o, s) ==
  /\ at[o] = "idle" /\ lifecycle[s] = None
  /\ ~running[s]
  /\ \E f \in Fds :
       /\ Lowest(f)
       /\ fd' = [fd EXCEPT ![f] = Listener(s)]
       /\ listen_socket' = [listen_socket EXCEPT ![s] = f]
  /\ port' = [port EXCEPT ![s] = TRUE]
  /\ running' = [running EXCEPT ![s] = TRUE]
  /\ \/ worker' = [worker EXCEPT ![s] = "loop"]
     \/ s \in Threadless /\ UNCHANGED worker
  /\ UNCHANGED <<active_client, opers, locals, peers>>

-----------------------------------------------------------------------------
(* stop(), which the destructor calls too *)

StopCall(o, s) ==
  /\ at[o] = "idle" /\ lifecycle[s] = None
  /\ running[s]
  /\ lifecycle' = [lifecycle EXCEPT ![s] = o]
  /\ running' = [running EXCEPT ![s] = FALSE]
  /\ at' = [at EXCEPT ![o] = "unlisten"] /\ target' = [target EXCEPT ![o] = s]
  /\ UNCHANGED <<listen_socket, active_client, port, closing, worker, locals, fd, peers>>

\* Mutant: the listening socket is closed without shutdown().
UnlistenOnly(o) ==
  /\ at[o] = "unlisten"
  /\ LET s == target[o]
     IN  /\ closing' = [closing EXCEPT ![o] = listen_socket[s]]
         /\ listen_socket' = [listen_socket EXCEPT ![s] = None]
         /\ fd' = [fd EXCEPT ![listen_socket[s]] = Shut(s)]
  /\ at' = [at EXCEPT ![o] = "close"]
  /\ UNCHANGED <<running, active_client, port, lifecycle, target, worker, locals, peers>>

\* exchange and shutdown(): threads blocked in accept() on the socket wake up, and
\* connections nobody has accepted are reset.
Unlisten(o) ==
  /\ at[o] = "unlisten"
  /\ LET s == target[o]
     IN  /\ closing' = [closing EXCEPT ![o] = listen_socket[s]]
         /\ listen_socket' = [listen_socket EXCEPT ![s] = None]
         /\ fd' = [fd EXCEPT ![listen_socket[s]] = Shut(s)]
         /\ worker' = [w \in Servers |->
              IF worker[w] = "blocked" /\ blocked[w] = s THEN "failed" ELSE worker[w]]
         /\ peer' = [p \in Peers |->
              IF peer[p] = "queued" /\ link[p] = s THEN "closed" ELSE peer[p]]
  /\ at' = [at EXCEPT ![o] = "close"]
  /\ UNCHANGED <<running, active_client, port, lifecycle, target, locals, link, inbox>>

CloseListener(o) ==
  /\ at[o] = "close"
  /\ fd' = [fd EXCEPT ![closing[o]] = Free]
  /\ closing' = [closing EXCEPT ![o] = None]
  /\ at' = [at EXCEPT ![o] = "interrupt"]
  /\ UNCHANGED <<shared, lifecycle, target, worker, locals, peers>>

\* Under client_mutex: the peer's connection is shut down, a read finds its end.
Interrupt(o) ==
  /\ at[o] = "interrupt"
  /\ inbox' = [p \in Peers |->
       IF active_client[target[o]] # None /\ p \in At(active_client[target[o]])
       THEN "end" ELSE inbox[p]]
  /\ at' = [at EXCEPT ![o] = "join"]
  /\ UNCHANGED <<shared, lifecycle, target, closing, worker, locals, fd, peer, link>>

Join(o) ==
  /\ at[o] = "join"
  /\ LET s == target[o]
     IN  /\ worker[s] \in {"done", "none"}
         /\ worker' = [worker EXCEPT ![s] = "none"]
         /\ port' = [port EXCEPT ![s] = FALSE]
         /\ lifecycle' = [lifecycle EXCEPT ![s] = None]
  /\ at' = [at EXCEPT ![o] = "idle"] /\ target' = [target EXCEPT ![o] = None]
  /\ UNCHANGED <<running, listen_socket, active_client, closing, locals, fd, peers>>

-----------------------------------------------------------------------------
(* accept_loop() *)

Loop(s) ==
  /\ worker[s] = "loop"
  /\ worker' = [worker EXCEPT ![s] = IF running[s] THEN "load" ELSE "done"]
  /\ UNCHANGED <<shared, opers, locals, fd, peers>>

Load(s) ==
  /\ worker[s] = "load"
  /\ listening' = [listening EXCEPT ![s] = listen_socket[s]]
  /\ worker' = [worker EXCEPT ![s] = IF listen_socket[s] = None THEN "done" ELSE "accept"]
  /\ UNCHANGED <<shared, opers, blocked, client, request, fd, peers>>

\* accept() looks the number up: whatever listening socket it names now is the one
\* it waits on, and anything else is an error.
Accept(s) ==
  /\ worker[s] = "accept"
  /\ \/ \E q \in Servers :
          /\ fd[listening[s]] = Listener(q)
          /\ blocked' = [blocked EXCEPT ![s] = q]
          /\ worker' = [worker EXCEPT ![s] = "blocked"]
     \/ /\ \A q \in Servers : fd[listening[s]] # Listener(q)
        /\ worker' = [worker EXCEPT ![s] = "failed"]
        /\ UNCHANGED blocked
  /\ listening' = [listening EXCEPT ![s] = None]
  /\ UNCHANGED <<shared, opers, client, request, fd, peers>>

Accepted(s) ==
  /\ worker[s] = "blocked"
  /\ \E p \in Peers, f \in Fds :
       /\ peer[p] = "queued" /\ link[p] = blocked[s]
       /\ Lowest(f)
       /\ fd' = [fd EXCEPT ![f] = Client(s)]
       /\ client' = [client EXCEPT ![s] = f]
       /\ peer' = [peer EXCEPT ![p] = "open"] /\ link' = [link EXCEPT ![p] = f]
  /\ worker' = [worker EXCEPT ![s] = "admit"]
  /\ blocked' = [blocked EXCEPT ![s] = None]
  /\ UNCHANGED <<shared, opers, listening, request, inbox>>

Failed(s) ==
  /\ worker[s] = "failed"
  /\ worker' = [worker EXCEPT ![s] = IF running[s] THEN "loop" ELSE "done"]
  /\ blocked' = [blocked EXCEPT ![s] = None]
  /\ UNCHANGED <<shared, opers, listening, client, request, fd, peers>>

\* Mutant: a connection accepted while stop() runs is left open.
AdmitLeaking(s) ==
  /\ worker[s] = "admit"
  /\ IF running[s]
     THEN /\ active_client' = [active_client EXCEPT ![s] = client[s]]
          /\ worker' = [worker EXCEPT ![s] = "read"]
     ELSE /\ worker' = [worker EXCEPT ![s] = "done"]
          /\ UNCHANGED active_client
  /\ request' = [request EXCEPT ![s] = 0]
  /\ UNCHANGED <<running, listen_socket, port, opers, listening, blocked, client, fd, peers>>

\* Under client_mutex; nonblocking() may fail, and then nothing is served.
Admit(s) ==
  /\ worker[s] = "admit"
  /\ \/ /\ running[s]
        /\ active_client' = [active_client EXCEPT ![s] = client[s]]
        /\ \E next \in {"read", "release"} : worker' = [worker EXCEPT ![s] = next]
        /\ UNCHANGED <<fd, peer, client>>
     \/ /\ ~running[s]
        /\ Close(client[s])
        /\ client' = [client EXCEPT ![s] = None]
        /\ worker' = [worker EXCEPT ![s] = "done"]
        /\ UNCHANGED active_client
  /\ request' = [request EXCEPT ![s] = 0]
  /\ UNCHANGED <<running, listen_socket, port, opers, listening, blocked, link, inbox>>

-----------------------------------------------------------------------------
(* handle() *)

Receive(s) ==
  /\ worker[s] = "read" /\ running[s] /\ request[s] < MaxChunks
  /\ \E p \in At(client[s]) :
       /\ inbox[p] # None
       /\ worker' = [worker EXCEPT ![s] = IF inbox[p] = "chunk" THEN @ ELSE "respond"]
       /\ request' = [request EXCEPT ![s] = IF inbox[p] = "end" THEN @ ELSE @ + 1]
       /\ inbox' = [inbox EXCEPT ![p] = None]
  /\ UNCHANGED <<shared, opers, listening, blocked, client, fd, peer, link>>

\* Mutant: a peer that sends nothing is waited for.
GiveUpFull(s) ==
  /\ worker[s] = "read" /\ running[s] /\ request[s] = MaxChunks
  /\ worker' = [worker EXCEPT ![s] = "respond"]
  /\ UNCHANGED <<shared, opers, locals, fd, peers>>

\* The headers fill the limit (431), or kIdleTimeout passes without a byte (400).
GiveUp(s) ==
  /\ worker[s] = "read" /\ running[s]
  /\ request[s] = MaxChunks \/ \A p \in At(client[s]) : inbox[p] = None
  /\ worker' = [worker EXCEPT ![s] = "respond"]
  /\ UNCHANGED <<shared, opers, locals, fd, peers>>

\* wait_ready's slices see is_running.
Quit(s) ==
  /\ worker[s] \in {"read", "respond"} /\ ~running[s]
  /\ worker' = [worker EXCEPT ![s] = "release"]
  /\ UNCHANGED <<shared, opers, locals, fd, peers>>

\* The response is sent, or the peer does not take it for kIdleTimeout.
Respond(s) ==
  /\ worker[s] = "respond" /\ running[s]
  /\ worker' = [worker EXCEPT ![s] = "release"]
  /\ UNCHANGED <<shared, opers, locals, fd, peers>>

\* Mutant: the client is closed but still named as the active one.
ReleaseStale(s) ==
  /\ worker[s] = "release"
  /\ Close(client[s])
  /\ client' = [client EXCEPT ![s] = None]
  /\ worker' = [worker EXCEPT ![s] = "loop"]
  /\ UNCHANGED <<shared, opers, listening, blocked, request, link, inbox>>

\* Under client_mutex.
Release(s) ==
  /\ worker[s] = "release"
  /\ active_client' = [active_client EXCEPT ![s] = None]
  /\ Close(client[s])
  /\ client' = [client EXCEPT ![s] = None]
  /\ worker' = [worker EXCEPT ![s] = "loop"]
  /\ UNCHANGED <<running, listen_socket, port, opers, listening, blocked, request, link, inbox>>

-----------------------------------------------------------------------------
(* Peers *)

Connect(p, s) ==
  /\ peer[p] = "out"
  /\ \E f \in Fds : fd[f] = Listener(s)
  /\ peer' = [peer EXCEPT ![p] = "queued"] /\ link' = [link EXCEPT ![p] = s]
  /\ UNCHANGED <<shared, opers, worker, locals, fd, inbox>>

Send(p, what) ==
  /\ peer[p] = "open" /\ inbox[p] = None
  /\ inbox' = [inbox EXCEPT ![p] = what]
  /\ UNCHANGED <<shared, opers, worker, locals, fd, peer, link>>

-----------------------------------------------------------------------------
WorkerStep(s) ==
  \/ Loop(s) \/ Load(s) \/ Accept(s) \/ Accepted(s) \/ Failed(s) \/ Admit(s)
  \/ Receive(s) \/ GiveUp(s) \/ Quit(s) \/ Respond(s) \/ Release(s)
StopStep(o) == Unlisten(o) \/ CloseListener(o) \/ Interrupt(o) \/ Join(o)

Next ==
  \/ \E o \in Operators :
       \/ StopStep(o)
       \/ \E s \in Servers : Start(o, s) \/ StopCall(o, s)
  \/ \E s \in Servers : WorkerStep(s)
  \/ \E p \in Peers :
       \/ \E s \in Servers : Connect(p, s)
       \/ \E what \in {"chunk", "headers", "end"} : Send(p, what)

Spec == Init /\ [][Next]_vars

\* Threads run and timeouts pass; no peer owes anything, nobody has to start or stop.
Fairness ==
  /\ \A o \in Operators : WF_vars(StopStep(o))
  /\ \A s \in Servers : WF_vars(WorkerStep(s))
FairSpec == Spec /\ Fairness

-----------------------------------------------------------------------------
(* Properties *)

TypeOK ==
  /\ running \in [Servers -> BOOLEAN] /\ port \in [Servers -> BOOLEAN]
  /\ listen_socket \in [Servers -> Fds \cup {None}]
  /\ active_client \in [Servers -> Fds \cup {None}]
  /\ lifecycle \in [Servers -> Operators \cup {None}]
  /\ at \in [Operators -> {"idle", "unlisten", "close", "interrupt", "join"}]
  /\ target \in [Operators -> Servers \cup {None}]
  /\ closing \in [Operators -> Fds \cup {None}]
  /\ worker \in [Servers -> {"none", "loop", "load", "accept", "blocked", "failed",
                             "admit", "read", "respond", "release", "done"}]
  /\ listening \in [Servers -> Fds \cup {None}] /\ client \in [Servers -> Fds \cup {None}]
  /\ blocked \in [Servers -> Servers \cup {None}]
  /\ request \in [Servers -> 0..MaxChunks]
  /\ fd \in [Fds -> {Free} \cup UNION {{Listener(s), Shut(s), Client(s)} : s \in Servers}]
  /\ peer \in [Peers -> {"out", "queued", "open", "closed"}]
  /\ link \in [Peers -> Servers \cup Fds \cup {None}]
  /\ inbox \in [Peers -> {"chunk", "headers", "end", None}]

\* A descriptor number is reused as soon as it is closed; whatever stop() and the
\* worker shut down or close is still their own: the active client is forgotten in
\* the critical section that closes it, the listening socket is taken out first.
OwnDescriptors ==
  /\ TypeOK
  /\ \A s \in Servers :
       /\ listen_socket[s] # None => fd[listen_socket[s]] = Listener(s)
       /\ active_client[s] # None => fd[active_client[s]] = Client(s)
       /\ client[s] # None => fd[client[s]] = Client(s)
  /\ \A o \in Operators : at[o] = "close" => fd[closing[o]] = Shut(target[o])

\* A server that has stopped has no thread and no descriptor, whatever its worker
\* was doing when stop() was called; also one whose thread was never created.
NothingLeaks ==
  \A s \in Servers : ~port[s] =>
    /\ worker[s] = "none"
    /\ \A f \in Fds : fd[f] \notin {Listener(s), Shut(s), Client(s)}

\* What is shut down, closed or served is one's own, and nothing is left behind.  The
\* number that accept() is called on is not among it: loaded before stop() closes it, it
\* may name another server's socket by then (StopReturns, Misplaced).
DescriptorsKept == OwnDescriptors /\ NothingLeaks

\* "Server shutdown is bounded and joins its worker thread after interrupting the
\* active client socket" (docs/OBSERVABILITY.md).
StopReturns == \A o \in Operators : at[o] # "idle" ~> at[o] = "idle"

\* The worker of s waits for a connection to another server.
Misplaced(s) == worker[s] = "blocked" /\ blocked[s] # s

\* What shutdown comes to: stop() returns unless the descriptor it closed named
\* another server's listening socket by the time the worker called accept() on it.
StopReturnsOrMisplaced ==
  \A o \in Operators :
    at[o] # "idle" ~> at[o] = "idle" \/ \E s \in Servers : target[o] = s /\ Misplaced(s)

\* "This is a single-client-at-a-time utility": a client that stalls or trickles
\* its headers cannot keep the others out; everyone that connects to a server that
\* has a worker is dealt with.
EveryClientReleased ==
  \A p \in Peers :
    \/ peer[p] = "open"
    \/ \E s \in Servers : peer[p] = "queued" /\ link[p] = s /\ worker[s] # "none"
    ~> peer[p] = "closed"

\* Nobody waits for ever: neither who stops a server nor who connects to one.
EveryoneReleased == StopReturnsOrMisplaced /\ EveryClientReleased
=============================================================================
