------------------------- MODULE ObservabilityProofs ------------------------
(***************************************************************************)
(* What an operator sees of a runtime, and how: the listener that serves   *)
(* it (HttpServer), and the Diagnostics it serves (Evaluation).  The       *)
(* inductive invariant of each and what follows from it, for any number of *)
(* servers, operators, peers, descriptors and evaluators, and for every    *)
(* choice of bounds, capacities, decisions and usage reports.              *)
(*                                                                         *)
(* First the listener.  Then, from below: the arithmetic of one counter    *)
(* (bucket, summary, percentile, export), all the counters, the ring of    *)
(* recent calls, one record_call, and the evaluations that make it.        *)
(***************************************************************************)
EXTENDS HttpServer, Evaluation,
        FiniteSetTheorems, SequenceTheorems, WellFoundedInduction, TLAPS

-----------------------------------------------------------------------------
(* The listener. *)

\* A stop() in progress holds the lifecycle mutex of its server, and how far it has
\* come decides where the listening socket is.
Calling ==
  /\ \A o \in Operators : at[o] # "idle" => target[o] \in Servers /\ lifecycle[target[o]] = o
  /\ \A s \in Servers : lifecycle[s] # None =>
       at[lifecycle[s]] # "idle" /\ target[lifecycle[s]] = s
  /\ \A o \in Operators :
       /\ at[o] = "unlisten" => listen_socket[target[o]] # None
       /\ at[o] \in {"close", "interrupt", "join"} => listen_socket[target[o]] = None
       /\ at[o] = "close" <=> closing[o] # None

\* bound_port is set exactly from start() to the end of stop().
Bound ==
  /\ \A s \in Servers : running[s] => lifecycle[s] = None /\ listen_socket[s] # None
  /\ \A s \in Servers : port[s] <=> running[s] \/ lifecycle[s] # None
  /\ \A s \in Servers : ~port[s] => worker[s] = "none" /\ listen_socket[s] = None

\* Every descriptor of a server is in somebody's hands.
Owning ==
  \A f \in Fds, s \in Servers :
    /\ fd[f] = Listener(s) => listen_socket[s] = f
    /\ fd[f] = Shut(s) => \E o \in Operators : /\ at[o] = "close"
                                              /\ target[o] = s /\ closing[o] = f
    /\ fd[f] = Client(s) => client[s] = f

\* A worker has a connection from accept() to close(), named in active_client in between.
Serving ==
  \A s \in Servers :
    /\ client[s] # None <=> worker[s] \in {"admit", "read", "respond", "release"}
    /\ active_client[s] # None => /\ active_client[s] = client[s]
                                  /\ worker[s] \in {"read", "respond", "release"}

DInv == OwnDescriptors /\ Calling /\ Bound /\ Owning /\ Serving

-----------------------------------------------------------------------------
\* The kinds of descriptors do not overlap, and each names its server.
LEMMA Kinds ==
  /\ \A s, t : /\ Listener(s) # Shut(t) /\ Listener(s) # Client(t) /\ Shut(s) # Client(t)
               /\ Listener(s) = Listener(t) => s = t
               /\ Shut(s) = Shut(t) => s = t
               /\ Client(s) = Client(t) => s = t
  /\ \A s : Free # Listener(s) /\ Free # Shut(s) /\ Free # Client(s)
BY DEF Free, Listener, Shut, Client

\* No number is mistaken for None.
LEMMA NoneApart == None \notin Fds /\ None \notin Servers /\ None \notin Operators
BY HttpAssumption

LEMMA InitDescriptors == Init => DInv
<1> SUFFICES ASSUME Init PROVE DInv
  OBVIOUS
<1>1. TypeOK
  BY HttpAssumption DEF Init, TypeOK
<1>2. OwnDescriptors
  BY <1>1 DEF Init, OwnDescriptors
<1>3. Calling /\ Bound /\ Serving
  BY NoneApart DEF Init, Calling, Bound, Serving
<1>4. Owning
  BY Kinds DEF Init, Owning
<1> QED
  BY <1>2, <1>3, <1>4 DEF DInv

-----------------------------------------------------------------------------
(* start() and stop() *)

LEMMA StartKeeps ==
  ASSUME DInv, NEW o \in Operators, NEW s \in Servers, Start(o, s)
  PROVE  DInv'
<1>1. PICK f \in Fds : /\ fd[f] = Free
                       /\ fd' = [fd EXCEPT ![f] = Listener(s)]
                       /\ listen_socket' = [listen_socket EXCEPT ![s] = f]
  BY DEF Start, Lowest
<1>2. /\ ~running[s] /\ lifecycle[s] = None /\ worker[s] = "none"
      /\ listen_socket[s] = None /\ client[s] = None /\ f # None
  BY NoneApart DEF Start, DInv, Bound, Serving
<1>3. /\ port' = [port EXCEPT ![s] = TRUE] /\ running' = [running EXCEPT ![s] = TRUE]
      /\ worker' = worker \/ worker' = [worker EXCEPT ![s] = "loop"]
      /\ UNCHANGED <<active_client, lifecycle, at, target, closing, listening, blocked,
                     client, request, peer, link, inbox>>
  BY DEF Start, opers, locals, peers
<1>4. TypeOK'
  BY <1>1, <1>3 DEF DInv, OwnDescriptors, TypeOK
<1>5. \A t \in Servers : t # s => listen_socket'[t] = listen_socket[t]
                                /\ running'[t] = running[t] /\ port'[t] = port[t]
                                /\ worker'[t] = worker[t]
  BY <1>1, <1>3 DEF DInv, OwnDescriptors, TypeOK
<1>6. /\ listen_socket'[s] = f /\ running'[s] /\ port'[s] /\ worker'[s] \in {"none", "loop"}
      /\ fd'[f] = Listener(s)
      /\ \A g \in Fds : g # f => fd'[g] = fd[g]
  BY <1>1, <1>2, <1>3 DEF DInv, OwnDescriptors, TypeOK
<1>7. OwnDescriptors'
  <2>1. \A t \in Servers :
          /\ listen_socket[t] # None => listen_socket[t] \in Fds \ {f}
          /\ active_client[t] # None => active_client[t] \in Fds \ {f}
          /\ client[t] # None => client[t] \in Fds \ {f}
    BY <1>1, Kinds DEF DInv, OwnDescriptors, TypeOK
  <2>2. \A q \in Operators : at[q] = "close" => closing[q] \in Fds \ {f}
    BY <1>1, Kinds DEF DInv, OwnDescriptors, TypeOK, Calling
  <2> QED
    BY <1>3, <1>4, <1>5, <1>6, <2>1, <2>2 DEF DInv, OwnDescriptors
<1>8. Calling'
  <2>1. \A q \in Operators : at[q] # "idle" => target[q] \in Servers \ {s}
    BY <1>2, NoneApart DEF DInv, Calling
  <2> QED
    BY <1>3, <1>5, <2>1 DEF DInv, Calling
<1>9. Bound'
  BY <1>2, <1>3, <1>5, <1>6 DEF DInv, Bound
<1>10. Owning'
  BY <1>2, <1>3, <1>5, <1>6, Kinds, NoneApart DEF DInv, Owning
<1>11. Serving'
  BY <1>2, <1>3, <1>5, <1>6 DEF DInv, Serving
<1> QED
  BY <1>7, <1>8, <1>9, <1>10, <1>11 DEF DInv

LEMMA StopCallKeeps ==
  ASSUME DInv, NEW o \in Operators, NEW s \in Servers, StopCall(o, s)
  PROVE  DInv'
<1> USE DEF StopCall, locals, peers
<1>1. o # None /\ s # None
  BY NoneApart
<1>2. TypeOK'
  BY DEF DInv, OwnDescriptors, TypeOK
<1>3. /\ at'[o] = "unlisten" /\ target'[o] = s /\ lifecycle'[s] = o /\ ~running'[s]
      /\ \A q \in Operators : q # o => at'[q] = at[q] /\ target'[q] = target[q]
      /\ \A t \in Servers : t # s => lifecycle'[t] = lifecycle[t] /\ running'[t] = running[t]
  BY DEF DInv, OwnDescriptors, TypeOK
<1>4. OwnDescriptors'
  BY <1>2, <1>3 DEF DInv, OwnDescriptors
<1>5. \A t \in Servers : lifecycle[t] # o
  BY <1>1 DEF DInv, Calling
<1>6. Calling'
  <2>1. \A q \in Operators : q # o /\ at[q] # "idle" => target[q] # s
    BY NoneApart DEF DInv, Calling
  <2>2. listen_socket[s] # None /\ closing[o] = None
    BY DEF DInv, Calling, Bound
  <2>3. \A t \in Servers : lifecycle[t] # None => lifecycle[t] \in Operators
    BY DEF DInv, OwnDescriptors, TypeOK
  <2> QED
    BY <1>1, <1>3, <1>5, <2>1, <2>2, <2>3 DEF DInv, Calling
<1>7. Bound'
  BY <1>1, <1>3 DEF DInv, Bound
<1>8. Owning' /\ Serving'
  BY <1>3 DEF DInv, Owning, Serving
<1> QED
  BY <1>4, <1>6, <1>7, <1>8 DEF DInv

\* An operator in stop() is the only one there for its server.
LEMMA Alone ==
  ASSUME DInv, NEW o \in Operators, at[o] # "idle"
  PROVE  /\ target[o] \in Servers /\ lifecycle[target[o]] = o /\ ~running[target[o]]
         /\ port[target[o]]
         /\ \A q \in Operators : q # o /\ at[q] # "idle" => target[q] # target[o]
<1>1. target[o] \in Servers /\ lifecycle[target[o]] = o /\ o # None
  BY NoneApart DEF DInv, Calling
<1> QED
  BY <1>1 DEF DInv, Calling, Bound

LEMMA UnlistenKeeps ==
  ASSUME DInv, NEW o \in Operators, Unlisten(o)
  PROVE  DInv'
<1> DEFINE s == target[o]
           f == listen_socket[s]
<1>1. /\ s \in Servers /\ lifecycle[s] = o /\ ~running[s] /\ port[s]
      /\ \A q \in Operators : q # o /\ at[q] # "idle" => target[q] # s
  BY Alone DEF Unlisten
<1>2. f \in Fds /\ f # None /\ fd[f] = Listener(s)
  BY <1>1, NoneApart DEF Unlisten, DInv, Calling, OwnDescriptors, TypeOK
<1>3. /\ closing' = [closing EXCEPT ![o] = f]
      /\ listen_socket' = [listen_socket EXCEPT ![s] = None]
      /\ fd' = [fd EXCEPT ![f] = Shut(s)]
      /\ at[o] = "unlisten" /\ at' = [at EXCEPT ![o] = "close"]
      /\ worker' = [w \in Servers |->
            IF worker[w] = "blocked" /\ blocked[w] = s THEN "failed" ELSE worker[w]]
      /\ peer' = [p \in Peers |->
            IF peer[p] = "queued" /\ link[p] = s THEN "closed" ELSE peer[p]]
      /\ UNCHANGED <<running, active_client, port, lifecycle, target, listening, blocked,
                     client, request, link, inbox>>
  BY DEF Unlisten, locals
<1>4. TypeOK'
  BY <1>1, <1>2, <1>3 DEF DInv, OwnDescriptors, TypeOK
<1>5. /\ closing'[o] = f /\ at'[o] = "close" /\ fd'[f] = Shut(s) /\ listen_socket'[s] = None
      /\ \A q \in Operators : q # o => at'[q] = at[q] /\ closing'[q] = closing[q]
      /\ \A t \in Servers : t # s => listen_socket'[t] = listen_socket[t]
      /\ \A g \in Fds : g # f => fd'[g] = fd[g]
  BY <1>1, <1>2, <1>3 DEF DInv, OwnDescriptors, TypeOK
<1>6. \A t \in Servers :
        worker'[t] = worker[t] \/ (worker[t] = "blocked" /\ worker'[t] = "failed")
  BY <1>3
<1>7. OwnDescriptors'
  <2>1. \A t \in Servers :
          /\ t # s /\ listen_socket[t] # None => listen_socket[t] \in Fds \ {f}
          /\ active_client[t] # None => active_client[t] \in Fds \ {f}
          /\ client[t] # None => client[t] \in Fds \ {f}
    BY <1>2, Kinds DEF DInv, OwnDescriptors, TypeOK
  <2>2. \A q \in Operators : q # o /\ at[q] = "close" => closing[q] \in Fds \ {f}
    BY <1>2, Kinds DEF DInv, OwnDescriptors, TypeOK, Calling
  <2> QED
    BY <1>3, <1>4, <1>5, <2>1, <2>2 DEF DInv, OwnDescriptors
<1>8. Calling'
  BY <1>1, <1>2, <1>3, <1>5 DEF DInv, Calling
<1>9. Bound'
  BY <1>1, <1>3, <1>5, <1>6 DEF DInv, Bound
<1>10. Owning'
  BY <1>1, <1>2, <1>3, <1>5, Kinds DEF DInv, Owning
<1>11. Serving'
  BY <1>3, <1>6 DEF DInv, Serving
<1> QED
  BY <1>7, <1>8, <1>9, <1>10, <1>11 DEF DInv

LEMMA CloseListenerKeeps ==
  ASSUME DInv, NEW o \in Operators, CloseListener(o)
  PROVE  DInv'
<1> DEFINE s == target[o]
           f == closing[o]
<1>1. /\ s \in Servers
      /\ \A q \in Operators : q # o /\ at[q] # "idle" => target[q] # s
  BY Alone DEF CloseListener
<1>2. f \in Fds /\ f # None /\ fd[f] = Shut(s)
  BY NoneApart DEF CloseListener, DInv, Calling, OwnDescriptors, TypeOK
<1>3. /\ fd' = [fd EXCEPT ![f] = Free] /\ closing' = [closing EXCEPT ![o] = None]
      /\ at[o] = "close" /\ at' = [at EXCEPT ![o] = "interrupt"]
      /\ UNCHANGED <<running, listen_socket, active_client, port, lifecycle, target, worker,
                     listening, blocked, client, request, peer, link, inbox>>
  BY DEF CloseListener, shared, locals, peers
<1>4. TypeOK'
  BY <1>1, <1>2, <1>3 DEF DInv, OwnDescriptors, TypeOK
<1>5. /\ closing'[o] = None /\ at'[o] = "interrupt" /\ fd'[f] = Free
      /\ \A q \in Operators : q # o => at'[q] = at[q] /\ closing'[q] = closing[q]
      /\ \A g \in Fds : g # f => fd'[g] = fd[g]
  BY <1>2, <1>3 DEF DInv, OwnDescriptors, TypeOK
<1>6. OwnDescriptors'
  <2>1. \A t \in Servers :
          /\ listen_socket[t] # None => listen_socket[t] \in Fds \ {f}
          /\ active_client[t] # None => active_client[t] \in Fds \ {f}
          /\ client[t] # None => client[t] \in Fds \ {f}
    BY <1>2, Kinds DEF DInv, OwnDescriptors, TypeOK
  <2>2. \A q \in Operators : q # o /\ at[q] = "close" => closing[q] \in Fds \ {f}
    BY <1>1, <1>2, Kinds DEF DInv, OwnDescriptors, TypeOK, Calling
  <2> QED
    BY <1>3, <1>4, <1>5, <2>1, <2>2 DEF DInv, OwnDescriptors
<1>7. Calling' /\ Bound' /\ Serving'
  BY <1>3, <1>5 DEF DInv, Calling, Bound, Serving
<1>8. Owning'
  <2>1. \A g \in Fds, t \in Servers : fd[g] = Shut(t) /\ g # f =>
          \E q \in Operators : q # o /\ at[q] = "close" /\ target[q] = t /\ closing[q] = g
    BY DEF DInv, Owning
  <2> QED
    BY <1>3, <1>5, <2>1, Kinds DEF DInv, Owning
<1> QED
  BY <1>6, <1>7, <1>8 DEF DInv

LEMMA FinishStopKeeps ==
  ASSUME DInv, NEW o \in Operators, Interrupt(o) \/ Join(o)
  PROVE  DInv'
<1> DEFINE s == target[o]
<1>1. /\ s \in Servers /\ lifecycle[s] = o /\ ~running[s] /\ port[s]
      /\ listen_socket[s] = None /\ closing[o] = None
      /\ \A q \in Operators : q # o /\ at[q] # "idle" => target[q] # s
  <2>1. at[o] \in {"interrupt", "join"}
    BY DEF Interrupt, Join
  <2> QED
    BY <2>1, Alone DEF DInv, Calling
<1>2. CASE Interrupt(o)
  <2>1. /\ at[o] = "interrupt" /\ at' = [at EXCEPT ![o] = "join"]
        /\ inbox' = [p \in Peers |->
              IF active_client[target[o]] # None /\ p \in At(active_client[target[o]])
              THEN "end" ELSE inbox[p]]
        /\ UNCHANGED <<running, listen_socket, active_client, port, lifecycle, target, closing,
                       worker, listening, blocked, client, request, fd, peer, link>>
    BY <1>2 DEF Interrupt, shared, locals
  <2>2. TypeOK'
    BY <2>1 DEF DInv, OwnDescriptors, TypeOK
  <2>3. /\ at'[o] = "join"
        /\ \A q \in Operators : q # o => at'[q] = at[q]
    BY <2>1 DEF DInv, OwnDescriptors, TypeOK
  <2>4. OwnDescriptors' /\ Calling'
    BY <2>1, <2>2, <2>3, <1>1 DEF DInv, OwnDescriptors, Calling
  <2>5. Bound' /\ Owning' /\ Serving'
    BY <2>1, <2>3 DEF DInv, Bound, Owning, Serving
  <2> QED
    BY <2>4, <2>5 DEF DInv
<1>3. CASE Join(o)
  <2>1. /\ at[o] = "join" /\ at' = [at EXCEPT ![o] = "idle"]
        /\ target' = [target EXCEPT ![o] = None]
        /\ worker[s] \in {"done", "none"} /\ worker' = [worker EXCEPT ![s] = "none"]
        /\ port' = [port EXCEPT ![s] = FALSE] /\ lifecycle' = [lifecycle EXCEPT ![s] = None]
        /\ UNCHANGED <<running, listen_socket, active_client, closing, listening, blocked,
                       client, request, fd, peer, link, inbox>>
    BY <1>3 DEF Join, locals, peers
  <2>2. TypeOK'
    BY <1>1, <2>1 DEF DInv, OwnDescriptors, TypeOK
  <2>3. /\ at'[o] = "idle" /\ lifecycle'[s] = None /\ worker'[s] = "none" /\ ~port'[s]
        /\ \A q \in Operators : q # o => at'[q] = at[q] /\ target'[q] = target[q]
        /\ \A t \in Servers : t # s => /\ lifecycle'[t] = lifecycle[t] /\ port'[t] = port[t]
                                      /\ worker'[t] = worker[t]
    BY <1>1, <2>1 DEF DInv, OwnDescriptors, TypeOK
  <2>4. OwnDescriptors'
    BY <2>1, <2>2, <2>3 DEF DInv, OwnDescriptors
  <2>5. Calling'
    <3>1. \A t \in Servers : t # s /\ lifecycle[t] # None => lifecycle[t] # o
      BY DEF DInv, Calling
    <3>2. \A t \in Servers : lifecycle[t] # None => lifecycle[t] \in Operators
      BY DEF DInv, OwnDescriptors, TypeOK
    <3> QED
      BY <1>1, <2>1, <2>3, <3>1, <3>2 DEF DInv, Calling
  <2>6. Bound' /\ Serving'
    BY <1>1, <2>1, <2>3 DEF DInv, Bound, Serving
  <2>7. Owning'
    <3>1. \A q \in Operators : at[q] = "close" => q # o
      BY <2>1
    <3> QED
      BY <2>1, <2>3, <3>1 DEF DInv, Owning
  <2> QED
    BY <2>4, <2>5, <2>6, <2>7 DEF DInv
<1> QED
  BY <1>2, <1>3

-----------------------------------------------------------------------------
(* accept_loop() and handle() *)

\* Steps that open and close nothing: only where the worker is, and what it has read.
LEMMA LoopKeeps ==
  ASSUME DInv, NEW s \in Servers,
         \/ Loop(s) \/ Load(s) \/ Accept(s) \/ Failed(s)
         \/ Receive(s) \/ GiveUp(s) \/ Quit(s) \/ Respond(s)
  PROVE  DInv'
<1> DEFINE before == {"loop", "load", "accept", "blocked", "failed", "done"}
           serving == {"read", "respond", "release"}
<1>1. UNCHANGED <<running, listen_socket, active_client, port, lifecycle, at, target,
                  closing, client, fd, peer, link>>
  BY DEF Loop, Load, Accept, Failed, Receive, GiveUp, Quit, Respond, shared, opers, locals, peers
<1>2. PICK w \in before \cup serving :
        /\ worker' = [worker EXCEPT ![s] = w]
        /\ worker[s] # "none"
        /\ \/ w \in before /\ worker[s] \in before
           \/ w \in serving /\ worker[s] \in serving
  <2>1. CASE Loop(s) \/ Load(s) \/ Failed(s)
    BY <2>1 DEF Loop, Load, Failed
  <2>2. CASE Accept(s)
    BY <2>2 DEF Accept
  <2>3. CASE GiveUp(s) \/ Quit(s) \/ Respond(s)
    BY <2>3 DEF GiveUp, Quit, Respond
  <2>4. CASE Receive(s)
    <3>1. /\ worker[s] = "read"
          /\ \/ worker' = [worker EXCEPT ![s] = worker[s]]
             \/ worker' = [worker EXCEPT ![s] = "respond"]
      BY <2>4 DEF Receive
    <3> QED
      BY <3>1
  <2> QED
    BY <2>1, <2>2, <2>3, <2>4
<1>3. /\ listening' \in [Servers -> Fds \cup {None}] /\ blocked' \in [Servers -> Servers \cup {None}]
      /\ request' \in [Servers -> 0..MaxChunks]
      /\ inbox' \in [Peers -> {"chunk", "headers", "end", None}]
  <2>1. CASE Loop(s) \/ Load(s) \/ Accept(s) \/ Failed(s) \/ GiveUp(s) \/ Quit(s) \/ Respond(s)
    BY <2>1 DEF DInv, OwnDescriptors, TypeOK, Loop, Load, Accept, Failed, GiveUp, Quit, Respond,
                locals, peers
  <2>2. CASE Receive(s)
    <3>1. MaxChunks \in Nat
      BY HttpAssumption
    <3>2. /\ request[s] \in 0..MaxChunks /\ request[s] < MaxChunks
          /\ \/ request' = [request EXCEPT ![s] = request[s]]
             \/ request' = [request EXCEPT ![s] = request[s] + 1]
          /\ \E p \in Peers : inbox' = [inbox EXCEPT ![p] = None]
          /\ UNCHANGED <<listening, blocked>>
      BY <2>2 DEF Receive, At, DInv, OwnDescriptors, TypeOK
    <3>3. request' \in [Servers -> 0..MaxChunks]
      BY <3>1, <3>2 DEF DInv, OwnDescriptors, TypeOK
    <3> QED
      BY <3>2, <3>3 DEF DInv, OwnDescriptors, TypeOK
  <2> QED
    BY <2>1, <2>2
<1>4. TypeOK'
  BY <1>1, <1>2, <1>3 DEF DInv, OwnDescriptors, TypeOK
<1>5. worker'[s] = w /\ \A t \in Servers : t # s => worker'[t] = worker[t]
  BY <1>2 DEF DInv, OwnDescriptors, TypeOK
<1>6. OwnDescriptors' /\ Calling' /\ Owning'
  BY <1>1, <1>4 DEF DInv, OwnDescriptors, Calling, Owning
<1>7. Bound' /\ Serving'
  BY <1>1, <1>2, <1>5 DEF DInv, Bound, Serving
<1> QED
  BY <1>6, <1>7 DEF DInv

LEMMA AcceptedKeeps ==
  ASSUME DInv, NEW s \in Servers, Accepted(s)
  PROVE  DInv'
<1>1. PICK p \in Peers, f \in Fds :
        /\ fd[f] = Free /\ fd' = [fd EXCEPT ![f] = Client(s)]
        /\ client' = [client EXCEPT ![s] = f]
        /\ peer' = [peer EXCEPT ![p] = "open"] /\ link' = [link EXCEPT ![p] = f]
  BY DEF Accepted, Lowest
<1>2. /\ worker[s] = "blocked" /\ worker' = [worker EXCEPT ![s] = "admit"]
      /\ blocked' = [blocked EXCEPT ![s] = None]
      /\ UNCHANGED <<running, listen_socket, active_client, port, lifecycle, at, target,
                     closing, listening, request, inbox>>
  BY DEF Accepted, shared, opers
<1>3. client[s] = None /\ active_client[s] = None /\ f # None
  BY <1>2, NoneApart DEF DInv, Serving
<1>4. TypeOK'
  BY <1>1, <1>2 DEF DInv, OwnDescriptors, TypeOK
<1>5. /\ client'[s] = f /\ worker'[s] = "admit" /\ fd'[f] = Client(s)
      /\ \A t \in Servers : t # s => client'[t] = client[t] /\ worker'[t] = worker[t]
      /\ \A g \in Fds : g # f => fd'[g] = fd[g]
  BY <1>1, <1>2 DEF DInv, OwnDescriptors, TypeOK
<1>6. OwnDescriptors'
  <2>1. \A t \in Servers :
          /\ listen_socket[t] # None => listen_socket[t] \in Fds \ {f}
          /\ active_client[t] # None => active_client[t] \in Fds \ {f}
          /\ client[t] # None => client[t] \in Fds \ {f}
    BY <1>1, Kinds DEF DInv, OwnDescriptors, TypeOK
  <2>2. \A q \in Operators : at[q] = "close" => closing[q] \in Fds \ {f}
    BY <1>1, Kinds DEF DInv, OwnDescriptors, TypeOK, Calling
  <2> QED
    BY <1>2, <1>4, <1>5, <2>1, <2>2 DEF DInv, OwnDescriptors
<1>7. Calling' /\ Bound' /\ Serving'
  BY <1>2, <1>3, <1>5 DEF DInv, Calling, Bound, Serving
<1>8. Owning'
  BY <1>2, <1>3, <1>5, Kinds, NoneApart DEF DInv, Owning
<1> QED
  BY <1>6, <1>7, <1>8 DEF DInv

\* Closing the worker's connection, when nothing else names it.
LEMMA CloseKeeps ==
  ASSUME DInv, NEW s \in Servers, client[s] # None, Close(client[s]),
         client' = [client EXCEPT ![s] = None],
         \/ active_client' = [active_client EXCEPT ![s] = None]
         \/ active_client[s] = None /\ UNCHANGED active_client,
         NEW w \in {"loop", "done"}, worker' = [worker EXCEPT ![s] = w],
         request' \in [Servers -> 0..MaxChunks],
         UNCHANGED <<running, listen_socket, port, lifecycle, at, target, closing, listening,
                     blocked, link, inbox>>
  PROVE  DInv'
<1> DEFINE f == client[s]
<1>1. f \in Fds /\ fd[f] = Client(s)
  BY DEF DInv, OwnDescriptors, TypeOK
<1>2. /\ fd' = [fd EXCEPT ![f] = Free]
      /\ peer' = [p \in Peers |-> IF p \in At(f) THEN "closed" ELSE peer[p]]
  BY DEF Close
<1>3. TypeOK'
  BY <1>1, <1>2 DEF DInv, OwnDescriptors, TypeOK
<1>4. /\ client'[s] = None /\ active_client'[s] = None /\ worker'[s] = w /\ fd'[f] = Free
      /\ \A t \in Servers : t # s => /\ client'[t] = client[t] /\ worker'[t] = worker[t]
                                    /\ active_client'[t] = active_client[t]
      /\ \A g \in Fds : g # f => fd'[g] = fd[g]
  BY <1>1, <1>2 DEF DInv, OwnDescriptors, TypeOK
<1>5. OwnDescriptors'
  <2>1. \A t \in Servers :
          /\ listen_socket[t] # None => listen_socket[t] \in Fds \ {f}
          /\ t # s /\ active_client[t] # None => active_client[t] \in Fds \ {f}
          /\ t # s /\ client[t] # None => client[t] \in Fds \ {f}
    BY <1>1, Kinds DEF DInv, OwnDescriptors, TypeOK
  <2>2. \A q \in Operators : at[q] = "close" => closing[q] \in Fds \ {f}
    BY <1>1, Kinds DEF DInv, OwnDescriptors, TypeOK, Calling
  <2> QED
    BY <1>3, <1>4, <2>1, <2>2 DEF DInv, OwnDescriptors
<1>6. worker[s] # "none"
  BY DEF DInv, Serving
<1>7. Calling' /\ Bound' /\ Serving'
  BY <1>4, <1>6 DEF DInv, Calling, Bound, Serving
<1>8. Owning'
  BY <1>1, <1>4, Kinds DEF DInv, Owning
<1> QED
  BY <1>5, <1>7, <1>8 DEF DInv

LEMMA AdmitKeeps ==
  ASSUME DInv, NEW s \in Servers, Admit(s)
  PROVE  DInv'
<1>1. /\ worker[s] = "admit" /\ request' = [request EXCEPT ![s] = 0]
      /\ UNCHANGED <<running, listen_socket, port, lifecycle, at, target, closing, listening,
                     blocked, link, inbox>>
  BY DEF Admit, opers
<1>2. client[s] # None /\ active_client[s] = None
  BY <1>1 DEF DInv, Serving
<1>3. request' \in [Servers -> 0..MaxChunks]
  <2>1. 0 \in 0..MaxChunks
    BY HttpAssumption
  <2> QED
    BY <1>1, <2>1 DEF DInv, OwnDescriptors, TypeOK
<1>4. CASE ~running[s]
  BY <1>1, <1>2, <1>3, <1>4, CloseKeeps DEF Admit
<1>5. CASE running[s]
  <2>1. /\ active_client' = [active_client EXCEPT ![s] = client[s]]
        /\ UNCHANGED <<fd, peer, client>>
    BY <1>5 DEF Admit
  <2>2. PICK next \in {"read", "release"} : worker' = [worker EXCEPT ![s] = next]
    BY <1>5 DEF Admit
  <2>3. TypeOK'
    BY <1>1, <1>2, <1>3, <2>1, <2>2 DEF DInv, OwnDescriptors, TypeOK
  <2>4. /\ active_client'[s] = client[s] /\ worker'[s] = next
        /\ \A t \in Servers : t # s => /\ worker'[t] = worker[t]
                                      /\ active_client'[t] = active_client[t]
    BY <2>1, <2>2 DEF DInv, OwnDescriptors, TypeOK
  <2>5. OwnDescriptors'
    BY <1>1, <1>2, <2>1, <2>3, <2>4 DEF DInv, OwnDescriptors
  <2>6. Calling' /\ Bound' /\ Owning' /\ Serving'
    BY <1>1, <1>2, <2>1, <2>4 DEF DInv, Calling, Bound, Owning, Serving
  <2> QED
    BY <2>5, <2>6 DEF DInv
<1> QED
  BY <1>4, <1>5

LEMMA ReleaseKeeps ==
  ASSUME DInv, NEW s \in Servers, Release(s)
  PROVE  DInv'
<1>1. client[s] # None
  BY DEF Release, DInv, Serving
<1>2. request' \in [Servers -> 0..MaxChunks]
  BY DEF Release, DInv, OwnDescriptors, TypeOK
<1> QED
  BY <1>1, <1>2, CloseKeeps DEF Release, opers

\* Peers connect and send; no descriptor changes until the worker acts on it.
LEMMA PeerKeeps ==
  ASSUME DInv, NEW p \in Peers,
         \/ \E s \in Servers : Connect(p, s)
         \/ \E what \in {"chunk", "headers", "end"} : Send(p, what)
  PROVE  DInv'
<1>1. UNCHANGED <<running, listen_socket, active_client, port, lifecycle, at, target, closing,
                  worker, listening, blocked, client, request, fd>>
  BY DEF Connect, Send, shared, opers, locals
<1>2. TypeOK'
  BY <1>1 DEF Connect, Send, DInv, OwnDescriptors, TypeOK
<1> QED
  BY <1>1, <1>2 DEF DInv, OwnDescriptors, Calling, Bound, Owning, Serving

-----------------------------------------------------------------------------
(* The theorem *)

LEMMA StepDescriptors == DInv /\ [Next]_vars => DInv'
<1> SUFFICES ASSUME DInv, [Next]_vars PROVE DInv'
  OBVIOUS
<1>1. ASSUME NEW o \in Operators, StopStep(o) PROVE DInv'
  BY <1>1, UnlistenKeeps, CloseListenerKeeps, FinishStopKeeps DEF StopStep
<1>2. ASSUME NEW o \in Operators, NEW s \in Servers, Start(o, s) \/ StopCall(o, s) PROVE DInv'
  BY <1>2, StartKeeps, StopCallKeeps
<1>3. ASSUME NEW s \in Servers, WorkerStep(s) PROVE DInv'
  BY <1>3, LoopKeeps, AcceptedKeeps, AdmitKeeps, ReleaseKeeps DEF WorkerStep
<1>4. ASSUME NEW p \in Peers,
             \/ \E s \in Servers : Connect(p, s)
             \/ \E what \in {"chunk", "headers", "end"} : Send(p, what)
      PROVE  DInv'
  BY <1>4, PeerKeeps
<1>5. CASE UNCHANGED vars
  <2> USE <1>5 DEF vars, shared, opers, locals, peers
  <2>1. OwnDescriptors'
    BY DEF DInv, OwnDescriptors, TypeOK
  <2>2. Calling' /\ Bound' /\ Owning' /\ Serving'
    BY DEF DInv, Calling, Bound, Owning, Serving
  <2> QED
    BY <2>1, <2>2 DEF DInv
<1> QED
  BY <1>1, <1>2, <1>3, <1>4, <1>5 DEF Next

\* For any number of servers, operators and peers over any descriptor table: whatever a
\* thread shuts down, closes or serves is still its own when stop(), start() and a worker
\* race, and a server that has stopped leaves no thread and no descriptor
\* (http_server.cpp:169-272).  Nothing is said of the number accept() is called on.
THEOREM DescriptorsAreKept == Spec => []DescriptorsKept
<1>1. DInv => DescriptorsKept
  <2> SUFFICES ASSUME DInv, NEW s \in Servers, ~port[s]
               PROVE  /\ worker[s] = "none"
                      /\ \A f \in Fds : fd[f] \notin {Listener(s), Shut(s), Client(s)}
    BY DEF DInv, DescriptorsKept, NothingLeaks
  <2>1. /\ worker[s] = "none" /\ listen_socket[s] = None /\ client[s] = None
        /\ lifecycle[s] = None
    BY DEF DInv, Bound, Serving
  <2>2. ASSUME NEW f \in Fds
        PROVE  fd[f] # Listener(s) /\ fd[f] # Client(s)
    BY <2>1, NoneApart DEF DInv, Owning
  <2>3. ASSUME NEW f \in Fds, fd[f] = Shut(s)
        PROVE  FALSE
    <3>1. PICK o \in Operators : at[o] = "close" /\ target[o] = s
      BY <2>3 DEF DInv, Owning
    <3> QED
      BY <2>1, <3>1, NoneApart DEF DInv, Calling
  <2> QED
    BY <2>1, <2>2, <2>3
<1> QED
  BY <1>1, InitDescriptors, StepDescriptors, PTL DEF Spec

-----------------------------------------------------------------------------
(* Counters and evaluations. *)

\* A call in the log, and a decision's counters.
CallRecord ==
  [decision : Decisions, outcome : CallOutcome, latency : Nat,
   reach : {"total", "decision", "all"}]
Counter ==
  [calls : Nat, outcomes : [CallOutcome -> Nat], max : Nat, tokens : Nat,
   buckets : [Buckets -> Nat]]

\* Summarises, of any log.
SummarisesIn(lg, c, calls) ==
  /\ c.calls = Cardinality(calls)
  /\ \A o \in CallOutcome : c.outcomes[o] = Cardinality({i \in calls : lg[i].outcome = o})
  /\ \A b \in Buckets :
       c.buckets[b] = Cardinality({i \in calls : BucketOf(lg[i].latency) = b})
  /\ \A i \in calls : lg[i].latency <= c.max

\* Bounds are finitely many naturals in ascending order.
LEMMA BoundsAscend ==
  /\ Len(Bounds) \in Nat /\ Len(Bounds) > 0 /\ DOMAIN Bounds = 1..Len(Bounds)
  /\ \A b \in DOMAIN Bounds : Bounds[b] \in Nat
  /\ \A i, j \in DOMAIN Bounds : i < j => Bounds[i] < Bounds[j]
<1>1. Bounds \in Seq(Nat \ {0}) /\ Bounds # <<>>
  BY DiagnosticsAssumption
<1>2. Len(Bounds) \in Nat /\ Bounds \in [1..Len(Bounds) -> Nat \ {0}]
  BY <1>1, LenProperties
<1>3. Len(Bounds) > 0
  BY <1>1, <1>2, EmptySeq
<1> QED
  BY <1>2, <1>3, DiagnosticsAssumption

\* A call is in the bucket of the first bound it does not exceed.
LEMMA BucketMeans ==
  ASSUME NEW l \in Nat
  PROVE  /\ BucketOf(l) \in Buckets
         /\ \A b \in DOMAIN Bounds : BucketOf(l) <= b <=> l <= Bounds[b]
<1> DEFINE Below == {i \in DOMAIN Bounds : Bounds[i] < l}
<1>1. PICK n \in Nat : n = Len(Bounds) /\ DOMAIN Bounds = 1..n
  BY BoundsAscend
<1>2. IsFiniteSet(1..n) /\ Cardinality(1..n) = n
  BY FS_Interval
<1>3. Below \in SUBSET (1..n)
  BY <1>1
<1> HIDE DEF Below
<1>4. IsFiniteSet(Below) /\ Cardinality(Below) <= n
  BY <1>2, <1>3, FS_Subset
<1>5. PICK k \in Nat : k = Cardinality(Below)
  BY <1>4, FS_CardinalityType
<1>6. BucketOf(l) = k + 1
  BY <1>5 DEF BucketOf, Below
<1>7. ASSUME NEW b \in 1..n, l <= Bounds[b] PROVE k + 1 <= b
  <2>1. Below \in SUBSET (1..(b - 1))
    <3> SUFFICES ASSUME NEW i \in Below PROVE i \in 1..(b - 1)
      OBVIOUS
    <3>1. i \in 1..n /\ Bounds[i] < l
      BY <1>1 DEF Below
    <3>2. Bounds[i] < Bounds[b]
      BY <1>1, <1>7, <3>1, BoundsAscend
    <3>3. ~(b < i) /\ i # b
      BY <1>1, <1>7, <3>1, <3>2, BoundsAscend
    <3> QED
      BY <3>1, <3>3
  <2>2. IsFiniteSet(1..(b - 1)) /\ Cardinality(1..(b - 1)) = b - 1
    BY FS_Interval
  <2>3. Cardinality(Below) <= b - 1
    BY <2>1, <2>2, FS_Subset
  <2> QED
    BY <1>5, <2>3
<1>8. ASSUME NEW b \in 1..n, ~(l <= Bounds[b]) PROVE b <= k
  <2>1. 1..b \in SUBSET Below
    <3> SUFFICES ASSUME NEW i \in 1..b PROVE i \in Below
      OBVIOUS
    <3>1. i \in 1..n /\ Bounds[i] \in Nat /\ Bounds[b] \in Nat
      BY <1>1, BoundsAscend
    <3>2. Bounds[i] <= Bounds[b]
      BY <1>1, <3>1, BoundsAscend
    <3>3. Bounds[i] < l
      BY <1>8, <3>1, <3>2
    <3> QED
      BY <1>1, <3>1, <3>3 DEF Below
  <2>2. IsFiniteSet(1..b) /\ Cardinality(1..b) = b
    BY FS_Interval
  <2>3. Cardinality(1..b) <= Cardinality(Below)
    BY <1>4, <2>1, FS_Subset
  <2> QED
    BY <1>5, <2>2, <2>3
<1>9. k <= n
  BY <1>4, <1>5
<1>10. BucketOf(l) \in Buckets
  BY <1>1, <1>6, <1>9 DEF Buckets
<1> QED
  BY <1>1, <1>6, <1>7, <1>8, <1>10

\* A set of positions with one more that meets a condition, or does not.
LEMMA OneMoreCall ==
  ASSUME NEW S, IsFiniteSet(S), NEW n, n \notin S, NEW T, NEW c \in BOOLEAN,
         T = IF c THEN S \cup {n} ELSE S
  PROVE  /\ IsFiniteSet(T) /\ Cardinality(S) \in Nat
         /\ Cardinality(T) = IF c THEN Cardinality(S) + 1 ELSE Cardinality(S)
BY FS_AddElement, FS_CardinalityType

\* Positions of a log are finitely many.
LEMMA CallsFinite ==
  ASSUME NEW n \in Nat, NEW calls \in SUBSET (1..n)
  PROVE  /\ IsFiniteSet(calls) /\ Cardinality(calls) \in Nat
         /\ \A T \in SUBSET calls : /\ IsFiniteSet(T) /\ Cardinality(T) \in Nat
                                    /\ Cardinality(T) <= Cardinality(calls)
<1>1. IsFiniteSet(1..n)
  BY FS_Interval
<1>2. IsFiniteSet(calls)
  BY <1>1, FS_Subset
<1> QED
  BY <1>2, FS_Subset, FS_CardinalityType

\* Counters c are of these calls of a log of n, and u are updated with the next one.
Grows(n, lg, new, c, calls, tokens, u) ==
  /\ n \in Nat /\ lg \in [1..n -> CallRecord] /\ new \in [1..(n + 1) -> CallRecord]
  /\ \A i \in 1..n : new[i] = lg[i]
  /\ c \in Counter /\ calls \in SUBSET (1..n) /\ SummarisesIn(lg, c, calls)
  /\ tokens \in Nat /\ u = Update(c, new[n + 1].outcome, new[n + 1].latency, tokens)

\* Counters updated with a call are of the calls with this one.
LEMMA SummaryGrows ==
  ASSUME NEW n, NEW lg, NEW new, NEW c, NEW calls, NEW tokens, NEW u,
         Grows(n, lg, new, c, calls, tokens, u)
  PROVE  u \in Counter /\ SummarisesIn(new, u, calls \cup {n + 1})
<1> USE DEF Grows
<1> DEFINE r == new[n + 1]
<1>1. r \in CallRecord /\ r.outcome \in CallOutcome /\ r.latency \in Nat
  BY DEF CallRecord
<1> HIDE DEF r
<1>2. PICK k \in Buckets : k = BucketOf(r.latency)
  BY <1>1, BucketMeans
<1>3. /\ c.calls \in Nat /\ c.outcomes \in [CallOutcome -> Nat] /\ c.max \in Nat
      /\ c.tokens \in Nat /\ c.buckets \in [Buckets -> Nat]
  BY DEF Counter
<1>4. /\ u.calls = c.calls + 1
      /\ u.outcomes = [c.outcomes EXCEPT ![r.outcome] = @ + 1]
      /\ u.max = Larger(c.max, r.latency) /\ u.tokens = c.tokens + tokens
      /\ u.buckets = [c.buckets EXCEPT ![k] = @ + 1]
  BY <1>2 DEF Update, r
<1>5. u = [calls |-> u.calls, outcomes |-> u.outcomes, max |-> u.max,
           tokens |-> u.tokens, buckets |-> u.buckets]
  BY DEF Update
<1>6. u.max \in Nat /\ u.max >= c.max /\ u.max >= r.latency
  BY <1>1, <1>3, <1>4 DEF Larger
<1>7. u \in Counter
  <2>1. u.outcomes \in [CallOutcome -> Nat]
    <3>1. PICK f, o : f = c.outcomes /\ o = r.outcome
      OBVIOUS
    <3>2. f \in [CallOutcome -> Nat] /\ o \in CallOutcome
      BY <1>1, <1>3, <3>1
    <3>3. [f EXCEPT ![o] = @ + 1] \in [CallOutcome -> Nat]
      BY <3>2
    <3> QED
      BY <1>4, <3>1, <3>3
  <2>2. u.buckets \in [Buckets -> Nat]
    BY <1>3, <1>4
  <2>3. u.calls \in Nat /\ u.tokens \in Nat
    BY <1>3, <1>4
  <2> QED
    BY <1>5, <1>6, <2>1, <2>2, <2>3 DEF Counter
<1>8. /\ IsFiniteSet(calls) /\ n + 1 \notin calls
      /\ \A T \in SUBSET calls : IsFiniteSet(T)
  <2>1. n + 1 \notin calls
    OBVIOUS
  <2> QED
    BY <2>1, CallsFinite
<1>9. u.calls = Cardinality(calls \cup {n + 1})
  <2>1. Cardinality(calls \cup {n + 1}) = Cardinality(calls) + 1
    BY <1>8, FS_AddElement
  <2> QED
    BY <1>4, <2>1 DEF SummarisesIn
<1>10. ASSUME NEW o \in CallOutcome
       PROVE  u.outcomes[o] = Cardinality({i \in calls \cup {n + 1} : new[i].outcome = o})
  <2> DEFINE S == {i \in calls : lg[i].outcome = o}
             T == {i \in calls \cup {n + 1} : new[i].outcome = o}
             b == (r.outcome = o)
  <2>1. S \in SUBSET calls /\ n + 1 \notin S
    BY <1>8
  <2>2. T = IF b THEN S \cup {n + 1} ELSE S
    BY DEF r
  <2>3. c.outcomes[o] = Cardinality(S)
    BY DEF SummarisesIn
  <2>4. b \in BOOLEAN /\ IsFiniteSet(S)
    BY <1>8, <2>1
  <2>5. u.outcomes[o] = IF b THEN c.outcomes[o] + 1 ELSE c.outcomes[o]
    BY <1>1, <1>3, <1>4
  <2> HIDE DEF S, T, b
  <2>6. Cardinality(T) = IF b THEN Cardinality(S) + 1 ELSE Cardinality(S)
    BY <2>1, <2>2, <2>4, OneMoreCall
  <2>7. u.outcomes[o] = Cardinality(T)
    BY <2>3, <2>5, <2>6
  <2> QED
    BY <2>7 DEF T
<1>11. ASSUME NEW x \in Buckets
       PROVE  u.buckets[x] =
                Cardinality({i \in calls \cup {n + 1} : BucketOf(new[i].latency) = x})
  <2> DEFINE S == {i \in calls : BucketOf(lg[i].latency) = x}
             T == {i \in calls \cup {n + 1} : BucketOf(new[i].latency) = x}
             b == (k = x)
  <2>1. S \in SUBSET calls /\ n + 1 \notin S
    BY <1>8
  <2>2. T = IF b THEN S \cup {n + 1} ELSE S
    BY <1>2 DEF r
  <2>3. c.buckets[x] = Cardinality(S)
    BY DEF SummarisesIn
  <2>4. b \in BOOLEAN /\ IsFiniteSet(S)
    BY <1>8, <2>1
  <2>5. u.buckets[x] = IF b THEN c.buckets[x] + 1 ELSE c.buckets[x]
    BY <1>3, <1>4
  <2> HIDE DEF S, T, b
  <2>6. Cardinality(T) = IF b THEN Cardinality(S) + 1 ELSE Cardinality(S)
    BY <2>1, <2>2, <2>4, OneMoreCall
  <2>7. u.buckets[x] = Cardinality(T)
    BY <2>3, <2>5, <2>6
  <2> QED
    BY <2>7 DEF T
<1>12. ASSUME NEW i \in calls \cup {n + 1} PROVE new[i].latency <= u.max
  <2>1. CASE i = n + 1
    BY <1>6, <2>1 DEF r
  <2>2. CASE i \in calls
    <3>1. new[i] = lg[i] /\ lg[i] \in CallRecord
      BY <2>2
    <3>2. lg[i].latency \in Nat /\ lg[i].latency <= c.max
      BY <2>2, <3>1 DEF SummarisesIn, CallRecord
    <3> QED
      BY <1>3, <1>6, <3>1, <3>2
  <2> QED
    BY <2>1, <2>2
<1> QED
  BY <1>7, <1>9, <1>10, <1>11, <1>12 DEF SummarisesIn

\* Counters are of the same calls in a longer log.
LEMMA SummaryStays ==
  ASSUME NEW n \in Nat, NEW lg, NEW new, \A i \in 1..n : new[i] = lg[i],
         NEW c, NEW calls \in SUBSET (1..n), SummarisesIn(lg, c, calls)
  PROVE  SummarisesIn(new, c, calls)
<1>1. \A o : {i \in calls : new[i].outcome = o} = {i \in calls : lg[i].outcome = o}
  OBVIOUS
<1>2. \A b : {i \in calls : BucketOf(new[i].latency) = b}
               = {i \in calls : BucketOf(lg[i].latency) = b}
  OBVIOUS
<1>3. \A i \in calls : new[i].latency <= c.max
  BY DEF SummarisesIn
<1> QED
  BY <1>1, <1>2, <1>3 DEF SummarisesIn

\* No counters are of no calls.
LEMMA SummaryOfNone ==
  NoCalls \in Counter /\ \A lg : SummarisesIn(lg, NoCalls, {})
<1>1. NoCalls \in Counter
  BY DEF NoCalls, Counter
<1>2. \A lg : /\ \A o : {i \in {} : lg[i].outcome = o} = {}
              /\ \A b : {i \in {} : BucketOf(lg[i].latency) = b} = {}
  OBVIOUS
<1> QED
  BY <1>1, <1>2, FS_EmptySet DEF SummarisesIn, NoCalls

\* What fails somewhere fails first somewhere.
LEMMA NoFirst ==
  ASSUME NEW S \in SUBSET Nat, 0 \notin S, \A k \in Nat : k + 1 \in S => k \in S
  PROVE  S = {}
<1> SUFFICES ASSUME S # {} PROVE FALSE
  OBVIOUS
<1>1. PICK k \in S : \A y \in S : ~(<<y, k>> \in OpToRel(<, Nat))
  BY NatLessThanWellFounded, WFMin
<1>2. \A y \in S : ~(y < k)
  BY <1>1, Zenon DEF OpToRel
<1>3. k \in Nat /\ k # 0
  OBVIOUS
<1>4. k - 1 \in Nat /\ k - 1 < k /\ k - 1 + 1 = k
  BY <1>3
<1> QED
  BY <1>2, <1>4

\* The loop that adds f[1], f[2], ... has its running sums.
Sums(f, g, n) == g = [i \in 0..n |-> IF i = 0 THEN 0 ELSE g[i - 1] + f[i]]

LEMMA SumsExist ==
  ASSUME NEW n \in Nat, NEW f \in [1..n -> Nat]
  PROVE  \E g : Sums(f, g, n)
<1> DEFINE Missing == {k \in Nat : k <= n /\ ~\E g : Sums(f, g, k)}
<1>1. 0 \notin Missing
  <2>1. Sums(f, [i \in 0..0 |-> 0], 0)
    BY DEF Sums
  <2> QED
    BY <2>1
<1>2. ASSUME NEW k \in Nat, k + 1 \in Missing PROVE k \in Missing
  <2> SUFFICES ASSUME NEW g, Sums(f, g, k) PROVE \E h : Sums(f, h, k + 1)
    BY <1>2
  <2> DEFINE h == [i \in 0..(k + 1) |-> IF i <= k THEN g[i] ELSE g[k] + f[i]]
  <2>1. \A i \in 0..(k + 1) : i \in 0..k \/ i = k + 1
    OBVIOUS
  <2>2. \A i \in 0..k : h[i] = g[i]
    OBVIOUS
  <2>3. \A i \in 0..k : g[i] = IF i = 0 THEN 0 ELSE g[i - 1] + f[i]
    BY DEF Sums
  <2>4. ASSUME NEW i \in 0..(k + 1) PROVE h[i] = IF i = 0 THEN 0 ELSE h[i - 1] + f[i]
    <3>1. CASE i = k + 1
      <4>1. h[i] = g[k] + f[i] /\ i # 0 /\ i - 1 = k /\ k \in 0..k
        BY <3>1
      <4> HIDE DEF h
      <4> QED
        BY <2>2, <4>1
    <3>2. CASE i \in 0..k
      <4>1. i # 0 => i - 1 \in 0..k
        BY <3>2
      <4> HIDE DEF h
      <4> QED
        BY <2>2, <2>3, <3>2, <4>1
    <3> QED
      BY <2>1, <3>1, <3>2
  <2>5. h = [i \in 0..(k + 1) |-> h[i]]
    OBVIOUS
  <2> HIDE DEF h
  <2>6. h = [i \in 0..(k + 1) |-> IF i = 0 THEN 0 ELSE h[i - 1] + f[i]]
    BY <2>4, <2>5
  <2> QED
    BY <2>6 DEF Sums
<1>3. Missing \in SUBSET Nat
  OBVIOUS
<1>4. Missing = {}
  <2> HIDE DEF Missing
  <2> QED
    BY <1>1, <1>2, <1>3, NoFirst
<1>5. n \notin Missing
  BY <1>4
<1> QED
  BY <1>5

\* The calls up to a bucket, of any log.
UpTo(lg, calls, b) == {i \in calls : BucketOf(lg[i].latency) <= b}

\* The running count is of the calls up to the bucket.
LEMMA CumulativeCounts ==
  ASSUME NEW n \in Nat, NEW lg \in [1..n -> CallRecord], NEW c \in Counter,
         NEW calls \in SUBSET (1..n), SummarisesIn(lg, c, calls)
  PROVE  \A b \in Buckets : Cumulative(c.buckets)[b] = Cardinality(UpTo(lg, calls, b))
<1>1. PICK w \in Nat : w = Len(Bounds) + 1
  BY BoundsAscend
<1>2. Buckets = 1..w
  BY <1>1 DEF Buckets
<1>3. PICK f : f = c.buckets
  OBVIOUS
<1>4. f \in [1..w -> Nat]
  BY <1>2, <1>3 DEF Counter
<1>5. PICK g : g = Cumulative(f)
  OBVIOUS
<1>6. Sums(f, g, w)
  <2>1. Cumulative(f) = CHOOSE h : Sums(f, h, w)
    BY <1>1, Zenon DEF Cumulative, Sums
  <2> QED
    BY <1>4, <1>5, <2>1, SumsExist
<1>7. \A i \in 0..w : g[i] = IF i = 0 THEN 0 ELSE g[i - 1] + f[i]
  BY <1>6 DEF Sums
<1>8. \A i \in calls : BucketOf(lg[i].latency) \in 1..w
  <2> SUFFICES ASSUME NEW i \in calls PROVE BucketOf(lg[i].latency) \in 1..w
    OBVIOUS
  <2>1. lg[i].latency \in Nat
    BY DEF CallRecord
  <2> QED
    BY <1>2, <2>1, BucketMeans
<1> DEFINE Wrong == {k \in Nat : k <= w /\ g[k] # Cardinality(UpTo(lg, calls, k))}
<1>9. 0 \notin Wrong
  <2>1. UpTo(lg, calls, 0) = {}
    <3> SUFFICES ASSUME NEW i \in UpTo(lg, calls, 0) PROVE FALSE
      OBVIOUS
    <3>1. i \in calls /\ BucketOf(lg[i].latency) <= 0
      BY DEF UpTo
    <3> QED
      BY <1>8, <3>1
  <2>2. g[0] = 0
    BY <1>7
  <2> QED
    BY <2>1, <2>2, FS_EmptySet
<1>10. ASSUME NEW k \in Nat, k + 1 <= w, g[k] = Cardinality(UpTo(lg, calls, k))
       PROVE  g[k + 1] = Cardinality(UpTo(lg, calls, k + 1))
  <2> DEFINE A == UpTo(lg, calls, k)
             B == {i \in calls : BucketOf(lg[i].latency) = k + 1}
  <2>1. UpTo(lg, calls, k + 1) = A \cup B
    <3>1. \A i \in calls : \E x \in Nat : x = BucketOf(lg[i].latency)
      BY <1>8
    <3>2. ASSUME NEW i \in calls
          PROVE  i \in UpTo(lg, calls, k + 1) <=> i \in A \cup B
      <4>1. PICK x \in Nat : x = BucketOf(lg[i].latency)
        BY <3>1
      <4>2. x <= k + 1 <=> x <= k \/ x = k + 1
        OBVIOUS
      <4> QED
        BY <4>1, <4>2 DEF UpTo
    <3>3. UpTo(lg, calls, k + 1) \subseteq calls /\ A \cup B \subseteq calls
      BY DEF UpTo
    <3> QED
      BY <3>2, <3>3
  <2>2. A \cap B = {}
    BY <1>8 DEF UpTo
  <2>3. A \in SUBSET calls /\ B \in SUBSET calls
    BY DEF UpTo
  <2>4. k + 1 \in 0..w /\ k + 1 # 0 /\ (k + 1) - 1 = k /\ k + 1 \in 1..w
    BY <1>10
  <2>5. f[k + 1] = Cardinality(B)
    BY <1>2, <1>3, <2>4 DEF SummarisesIn
  <2>6. g[k + 1] = Cardinality(A) + Cardinality(B)
    BY <1>7, <1>10, <2>4, <2>5
  <2> HIDE DEF A, B
  <2>7. IsFiniteSet(A) /\ IsFiniteSet(B) /\ Cardinality(A) \in Nat /\ Cardinality(B) \in Nat
    BY <2>3, CallsFinite
  <2>8. Cardinality(A \cup B) = Cardinality(A) + Cardinality(B) - Cardinality(A \cap B)
    BY <2>7, FS_Union
  <2>9. Cardinality(A \cap B) = 0
    BY <2>2, FS_EmptySet
  <2>10. PICK p \in Nat, q \in Nat : p = Cardinality(A) /\ q = Cardinality(B)
    BY <2>7
  <2>11. Cardinality(A \cup B) = p + q
    BY <2>8, <2>9, <2>10
  <2> QED
    BY <2>1, <2>6, <2>10, <2>11
<1>11. \A k \in Nat : k + 1 \in Wrong => k \in Wrong
  BY <1>10
<1>12. Wrong = {}
  <2>1. Wrong \in SUBSET Nat
    OBVIOUS
  <2> HIDE DEF Wrong
  <2> QED
    BY <1>9, <1>11, <2>1, NoFirst
<1>13. \A b \in 1..w : g[b] = Cardinality(UpTo(lg, calls, b))
  BY <1>12
<1> QED
  BY <1>2, <1>3, <1>5, <1>13

LEMMA MinIn ==
  ASSUME NEW S \in SUBSET Nat, S # {}
  PROVE  Min(S) \in S /\ \A y \in S : Min(S) <= y
<1>1. PICK x \in S : \A y \in S : ~(<<y, x>> \in OpToRel(<, Nat))
  BY NatLessThanWellFounded, WFMin
<1>2. \A y \in S : ~(y < x)
  BY <1>1, Zenon DEF OpToRel
<1>3. \A y \in S : x <= y
  BY <1>2
<1> QED
  BY <1>3 DEF Min

\* The bucket of a bound holds, with those before it, the calls that do not exceed it.
LEMMA UpToMeans ==
  ASSUME NEW n \in Nat, NEW lg \in [1..n -> CallRecord], NEW calls \in SUBSET (1..n),
         NEW b \in Buckets
  PROVE  UpTo(lg, calls, b)
           = {i \in calls : b \in DOMAIN Bounds => lg[i].latency <= Bounds[b]}
<1> SUFFICES ASSUME NEW i \in calls
             PROVE  BucketOf(lg[i].latency) <= b
                      <=> (b \in DOMAIN Bounds => lg[i].latency <= Bounds[b])
  BY DEF UpTo
<1>1. PICK l \in Nat : l = lg[i].latency
  BY DEF CallRecord
<1>2. PICK w \in Nat : w = Len(Bounds) /\ DOMAIN Bounds = 1..w
  BY BoundsAscend
<1>3. Buckets = 1..(w + 1)
  BY <1>2 DEF Buckets
<1>4. PICK k \in Buckets : k = BucketOf(l)
  BY BucketMeans
<1>5. \A x \in DOMAIN Bounds : k <= x <=> l <= Bounds[x]
  BY <1>4, BucketMeans
<1>6. b \notin DOMAIN Bounds => b = w + 1 /\ k <= b
  BY <1>2, <1>3
<1> QED
  BY <1>1, <1>4, <1>5, <1>6

\* The ranks of the quantiles are calls, and in the order of the quantiles.
LEMMA RankIn ==
  ASSUME NEW n \in Nat, n # 0
  PROVE  /\ \A q \in Quantiles : Rank(q, n) \in 1..n
         /\ \A p, q \in Quantiles : p <= q => Rank(p, n) <= Rank(q, n)
<1>1. /\ (50 * n + 99) \div 100 \in 1..n
      /\ (95 * n + 99) \div 100 \in 1..n
      /\ (99 * n + 99) \div 100 \in 1..n
      /\ (50 * n + 99) \div 100 <= (95 * n + 99) \div 100
      /\ (95 * n + 99) \div 100 <= (99 * n + 99) \div 100
  OBVIOUS
<1>2. /\ Rank(50, n) = (50 * n + 99) \div 100
      /\ Rank(95, n) = (95 * n + 99) \div 100
      /\ Rank(99, n) = (99 * n + 99) \div 100
  BY DEF Rank
<1>3. /\ Rank(50, n) \in 1..n /\ Rank(95, n) \in 1..n /\ Rank(99, n) \in 1..n
      /\ Rank(50, n) <= Rank(95, n) /\ Rank(95, n) <= Rank(99, n)
  BY <1>1, <1>2
<1>4. Rank(50, n) <= Rank(99, n)
  BY <1>3
<1> QED
  BY <1>3, <1>4 DEF Quantiles

\* b is the bucket that the call of rank r falls into, what of these calls is reported.
FallsInto(lg, c, calls, r, b, reported) ==
  /\ b \in Buckets /\ Cardinality(UpTo(lg, calls, b)) >= r
  /\ \A x \in Buckets : Cardinality(UpTo(lg, calls, x)) >= r => b <= x
  /\ reported = IF b \in DOMAIN Bounds THEN Bounds[b] ELSE c.max

LEMMA PercentileFalls ==
  ASSUME NEW n \in Nat, NEW lg \in [1..n -> CallRecord], NEW c \in Counter,
         NEW calls \in SUBSET (1..n), SummarisesIn(lg, c, calls), calls # {},
         NEW q \in Quantiles
  PROVE  /\ \E b : FallsInto(lg, c, calls, Rank(q, c.calls), b, Percentile(c, q))
         /\ c.calls \in Nat /\ c.calls # 0
<1>1. c.calls = Cardinality(calls) /\ c.calls \in Nat
  BY CallsFinite DEF SummarisesIn
<1>2. c.calls # 0
  <2>1. IsFiniteSet(calls)
    BY CallsFinite
  <2> QED
    BY <1>1, <2>1, FS_EmptySet
<1>3. PICK r : r = Rank(q, c.calls)
  OBVIOUS
<1>4. r \in 1..c.calls
  BY <1>1, <1>2, <1>3, RankIn
<1>5. PICK w \in Nat : w = Len(Bounds) /\ DOMAIN Bounds = 1..w
  BY BoundsAscend
<1>6. Buckets = 1..(w + 1)
  BY <1>5 DEF Buckets
<1>7. UpTo(lg, calls, w + 1) = calls
  <2>1. w + 1 \in Buckets /\ w + 1 \notin DOMAIN Bounds
    BY <1>5, <1>6
  <2>2. UpTo(lg, calls, w + 1)
          = {i \in calls : w + 1 \in DOMAIN Bounds => lg[i].latency <= Bounds[w + 1]}
    BY <2>1, UpToMeans
  <2> QED
    BY <2>1, <2>2
<1> DEFINE reached == {b \in Buckets : Cumulative(c.buckets)[b] >= r}
<1>8. reached = {b \in Buckets : Cardinality(UpTo(lg, calls, b)) >= r}
  BY CumulativeCounts
<1>9. w + 1 \in reached
  BY <1>1, <1>4, <1>6, <1>7, <1>8
<1>10. reached \in SUBSET Nat
  BY <1>6
<1>11. Percentile(c, q)
         = IF Min(reached) \in DOMAIN Bounds THEN Bounds[Min(reached)] ELSE c.max
  BY <1>2, <1>3 DEF Percentile
<1> HIDE DEF reached
<1>12. Min(reached) \in reached /\ \A y \in reached : Min(reached) <= y
  BY <1>9, <1>10, MinIn
<1>13. FallsInto(lg, c, calls, r, Min(reached), Percentile(c, q))
  BY <1>8, <1>11, <1>12 DEF FallsInto
<1> QED
  BY <1>1, <1>2, <1>3, <1>13

\* The call of rank q * n, of any log.
NearestIn(lg, calls, q) ==
  Min({lg[i].latency : i \in {j \in calls :
         Cardinality({k \in calls : lg[k].latency <= lg[j].latency})
           >= Rank(q, Cardinality(calls))}})

\* The latest of the calls up to a bucket, if there is one.
LEMMA LargestIn ==
  ASSUME NEW n \in Nat, NEW lg \in [1..n -> CallRecord], NEW A \in SUBSET (1..n), A # {}
  PROVE  \E j \in A : \A i \in A : lg[i].latency <= lg[j].latency
<1> DEFINE All(m) == \A i \in A : lg[i].latency <= m
           Tops == {m \in Nat : All(m)}
<1>1. \A i \in 1..n : lg[i].latency \in Nat
  BY DEF CallRecord
<1>2. Tops # {}
  <2> DEFINE Wrong == {k \in Nat : /\ k <= n
                                   /\ ~\E m \in Nat : \A i \in 1..k : lg[i].latency <= m}
  <2>1. 0 \notin Wrong
    OBVIOUS
  <2>2. ASSUME NEW k \in Nat, k + 1 \in Wrong PROVE k \in Wrong
    <3> SUFFICES ASSUME NEW m \in Nat, \A i \in 1..k : lg[i].latency <= m
                 PROVE  \E t \in Nat : \A i \in 1..(k + 1) : lg[i].latency <= t
      BY <2>2
    <3>1. PICK l \in Nat : l = lg[k + 1].latency
      BY <1>1, <2>2
    <3>2. \A i \in 1..(k + 1) : i \in 1..k \/ i = k + 1
      OBVIOUS
    <3>3. \A i \in 1..(k + 1) : lg[i].latency <= l + m
      <4> SUFFICES ASSUME NEW i \in 1..(k + 1) PROVE lg[i].latency <= l + m
        OBVIOUS
      <4>1. lg[i].latency \in Nat
        BY <1>1, <2>2
      <4> QED
        BY <3>1, <3>2, <4>1
    <3>4. l + m \in Nat
      BY <3>1
    <3> QED
      BY <3>3, <3>4
  <2>3. Wrong = {}
    <3>1. Wrong \in SUBSET Nat
      OBVIOUS
    <3> HIDE DEF Wrong
    <3> QED
      BY <2>1, <2>2, <3>1, NoFirst
  <2>4. n \notin Wrong
    BY <2>3
  <2>5. PICK m \in Nat : \A i \in 1..n : lg[i].latency <= m
    BY <2>4
  <2> QED
    BY <2>5
<1>3. PICK m \in Tops : \A y \in Tops : m <= y
  <2>1. Tops \in SUBSET Nat
    OBVIOUS
  <2> HIDE DEF Tops
  <2> QED
    BY <1>2, <2>1, MinIn
<1>4. \A i \in A : lg[i].latency <= m
  OBVIOUS
<1>5. CASE m = 0
  <2>1. PICK j \in A : TRUE
    OBVIOUS
  <2>2. lg[j].latency \in Nat
    BY <1>1
  <2>3. \A i \in A : lg[i].latency <= lg[j].latency
    BY <1>4, <1>5, <2>2
  <2> QED
    BY <2>3
<1>6. CASE m # 0
  <2>1. m - 1 \in Nat /\ ~(m <= m - 1)
    BY <1>6
  <2>2. PICK j \in A : ~(lg[j].latency <= m - 1)
    BY <1>3, <2>1
  <2>3. lg[j].latency = m
    BY <1>1, <1>4, <2>2
  <2> QED
    BY <1>4, <2>3
<1> QED
  BY <1>5, <1>6

\* A percentile is at least the call of its rank.
LEMMA NeverUnderstates ==
  ASSUME NEW n \in Nat, NEW lg \in [1..n -> CallRecord], NEW c \in Counter,
         NEW calls \in SUBSET (1..n), SummarisesIn(lg, c, calls), calls # {},
         NEW q \in Quantiles
  PROVE  Percentile(c, q) >= NearestIn(lg, calls, q)
<1>1. c.calls = Cardinality(calls) /\ c.calls \in Nat /\ c.calls # 0
  BY PercentileFalls DEF SummarisesIn
<1>2. PICK r : r = Rank(q, c.calls)
  OBVIOUS
<1>3. r \in 1..c.calls
  BY <1>1, <1>2, RankIn
<1>4. PICK b : FallsInto(lg, c, calls, r, b, Percentile(c, q))
  BY <1>2, PercentileFalls
<1>5. PICK v : v = Percentile(c, q)
  OBVIOUS
<1>6. /\ b \in Buckets /\ Cardinality(UpTo(lg, calls, b)) >= r
      /\ v = IF b \in DOMAIN Bounds THEN Bounds[b] ELSE c.max
  BY <1>4, <1>5 DEF FallsInto
<1>7. PICK A : A = UpTo(lg, calls, b)
  OBVIOUS
<1>8. A = {i \in calls : b \in DOMAIN Bounds => lg[i].latency <= Bounds[b]}
  BY <1>6, <1>7, UpToMeans
<1>9. \A i \in 1..n : lg[i].latency \in Nat
  BY DEF CallRecord
<1>10. \A i \in A : lg[i].latency <= v
  BY <1>6, <1>8 DEF SummarisesIn
<1>11. v \in Nat
  BY <1>6, BoundsAscend DEF Counter
<1>12. A \in SUBSET calls /\ A \in SUBSET (1..n)
  BY <1>8
<1>13. A # {}
  <2>1. Cardinality(A) >= r
    BY <1>6, <1>7
  <2>2. Cardinality(A) # 0
    BY <1>3, <2>1
  <2> QED
    BY <2>2, FS_EmptySet
<1>14. PICK j \in A : \A i \in A : lg[i].latency <= lg[j].latency
  BY <1>12, <1>13, LargestIn
<1> DEFINE upTo == {k \in calls : lg[k].latency <= lg[j].latency}
           far == {i \in calls : Cardinality({k \in calls : lg[k].latency <= lg[i].latency}) >= r}
           values == {lg[i].latency : i \in far}
<1>15. Cardinality(upTo) >= r
  <2>1. A \in SUBSET upTo /\ upTo \in SUBSET calls
    BY <1>12, <1>14
  <2> HIDE DEF upTo
  <2>2. IsFiniteSet(upTo) /\ Cardinality(upTo) \in Nat
    BY <2>1, CallsFinite
  <2>3. Cardinality(A) <= Cardinality(upTo) /\ Cardinality(A) \in Nat
    BY <1>12, <2>1, <2>2, FS_Subset, CallsFinite
  <2>4. Cardinality(A) >= r
    BY <1>6, <1>7
  <2> QED
    BY <1>1, <1>3, <2>2, <2>3, <2>4
<1>16. lg[j].latency \in values
  BY <1>12, <1>15
<1>17. values \in SUBSET Nat
  BY <1>9
<1>18. NearestIn(lg, calls, q) = Min(values)
  BY <1>1, <1>2 DEF NearestIn
<1> HIDE DEF values
<1>19. Min(values) <= lg[j].latency /\ Min(values) \in Nat
  BY <1>16, <1>17, MinIn
<1>20. lg[j].latency <= v /\ lg[j].latency \in Nat
  BY <1>9, <1>10, <1>12
<1> QED
  BY <1>5, <1>11, <1>18, <1>19, <1>20

\* A higher percentile is never the smaller number.
LEMMA PercentilesAscend ==
  ASSUME NEW n \in Nat, NEW lg \in [1..n -> CallRecord], NEW c \in Counter,
         NEW calls \in SUBSET (1..n), SummarisesIn(lg, c, calls),
         NEW p \in Quantiles, NEW q \in Quantiles, p <= q
  PROVE  Percentile(c, p) <= Percentile(c, q)
<1>1. CASE calls = {}
  <2>1. c.calls = 0
    BY <1>1, FS_EmptySet DEF SummarisesIn
  <2>2. Percentile(c, p) = 0 /\ Percentile(c, q) = 0
    BY <2>1 DEF Percentile
  <2> QED
    BY <2>2
<1>2. CASE calls # {}
  <2>1. c.calls = Cardinality(calls) /\ c.calls \in Nat /\ c.calls # 0
    BY <1>2, PercentileFalls DEF SummarisesIn
  <2>2. PICK r, s : r = Rank(p, c.calls) /\ s = Rank(q, c.calls)
    OBVIOUS
  <2>3. r \in 1..c.calls /\ s \in 1..c.calls /\ r <= s
    BY <2>1, <2>2, RankIn
  <2>4. PICK x : FallsInto(lg, c, calls, r, x, Percentile(c, p))
    BY <1>2, <2>2, PercentileFalls
  <2>5. PICK y : FallsInto(lg, c, calls, s, y, Percentile(c, q))
    BY <1>2, <2>2, PercentileFalls
  <2>6. PICK w \in Nat : w = Len(Bounds) /\ DOMAIN Bounds = 1..w /\ w > 0
    BY BoundsAscend
  <2>7. Buckets = 1..(w + 1)
    BY <2>6 DEF Buckets
  <2>8. x \in 1..(w + 1) /\ y \in 1..(w + 1)
    BY <2>4, <2>5, <2>7 DEF FallsInto
  <2>9. \A b \in Buckets : Cardinality(UpTo(lg, calls, b)) \in Nat
    <3> SUFFICES ASSUME NEW b \in Buckets PROVE Cardinality(UpTo(lg, calls, b)) \in Nat
      OBVIOUS
    <3>1. UpTo(lg, calls, b) \in SUBSET calls
      BY DEF UpTo
    <3> QED
      BY <3>1, CallsFinite
  <2>10. x <= y
    <3>1. Cardinality(UpTo(lg, calls, y)) >= s
      BY <2>5 DEF FallsInto
    <3>2. Cardinality(UpTo(lg, calls, y)) >= r
      BY <2>3, <2>7, <2>8, <2>9, <3>1
    <3> QED
      BY <2>4, <2>7, <2>8, <3>2 DEF FallsInto
  <2>11. PICK v, u : v = Percentile(c, p) /\ u = Percentile(c, q)
    OBVIOUS
  <2>12. /\ v = IF x \in 1..w THEN Bounds[x] ELSE c.max
         /\ u = IF y \in 1..w THEN Bounds[y] ELSE c.max
    BY <2>4, <2>5, <2>6, <2>11 DEF FallsInto
  <2>13. c.max \in Nat /\ \A b \in 1..w : Bounds[b] \in Nat
    BY <2>6, BoundsAscend DEF Counter
  <2>14. \A a, b \in 1..w : a <= b => Bounds[a] <= Bounds[b]
    BY <2>6, <2>13, BoundsAscend
  <2>15. CASE y \in 1..w
    <3>1. x \in 1..w
      BY <2>8, <2>10, <2>15
    <3> QED
      BY <2>10, <2>11, <2>12, <2>14, <2>15, <3>1
  <2>16. CASE y = w + 1
    <3>1. w \in Buckets /\ ~(y <= w)
      BY <2>6, <2>7, <2>16
    <3>2. ~(Cardinality(UpTo(lg, calls, w)) >= s)
      BY <2>5, <3>1 DEF FallsInto
    <3>3. UpTo(lg, calls, w) # calls
      BY <2>1, <2>3, <3>2
    <3>4. UpTo(lg, calls, w) = {i \in calls : w \in DOMAIN Bounds => lg[i].latency <= Bounds[w]}
      BY <3>1, UpToMeans
    <3>5. PICK i \in calls : ~(lg[i].latency <= Bounds[w])
      BY <3>3, <3>4
    <3>6. lg[i].latency \in Nat /\ lg[i].latency <= c.max
      BY DEF SummarisesIn, CallRecord
    <3>7. w \in 1..w
      BY <2>6
    <3>8. Bounds[w] <= c.max
      BY <2>13, <3>5, <3>6, <3>7
    <3>9. x \in 1..w => Bounds[x] <= Bounds[w]
      BY <2>14, <3>7
    <3> QED
      BY <2>11, <2>12, <2>13, <2>16, <3>7, <3>8, <3>9
  <2> QED
    BY <2>8, <2>15, <2>16
<1> QED
  BY <1>1, <1>2

\* The exported buckets count the calls up to their label.
LEMMA ExportedCounts ==
  ASSUME NEW n \in Nat, NEW lg \in [1..n -> CallRecord], NEW c \in Counter,
         NEW calls \in SUBSET (1..n), SummarisesIn(lg, c, calls), NEW b \in Buckets
  PROVE  Exported(Stats(c))[b]
           = Cardinality({i \in calls : b \in DOMAIN Bounds => lg[i].latency <= Bounds[b]})
<1>1. Exported(Stats(c))[b] = Cumulative(c.buckets)[b]
  BY DEF Exported, Stats
<1>2. Cumulative(c.buckets)[b] = Cardinality(UpTo(lg, calls, b))
  BY CumulativeCounts
<1>3. UpTo(lg, calls, b) = {i \in calls : b \in DOMAIN Bounds => lg[i].latency <= Bounds[b]}
  BY UpToMeans
<1> QED
  BY <1>1, <1>2, <1>3

\* Of, of any log of n calls.
OfIn(lg, n, d) == {i \in 1..n : lg[i].decision = d /\ lg[i].reach # "total"}

\* CountersTrue of any state, and that a decision is passed over only for want of room.
Counts(lg, n, tt, ds, dropped) ==
  /\ SummarisesIn(lg, tt, 1..n)
  /\ \A d \in DOMAIN ds : SummarisesIn(lg, ds[d], OfIn(lg, n, d))
  /\ Cardinality(DOMAIN ds) <= MaxDecisions
  /\ dropped = Cardinality(UNION {OfIn(lg, n, d) : d \in Decisions \ DOMAIN ds})
  /\ \A d \in Decisions \ DOMAIN ds :
       OfIn(lg, n, d) # {} => ~(Cardinality(DOMAIN ds) < MaxDecisions)

Counted(lg, n, tt, ds, dropped) ==
  /\ n \in Nat /\ lg \in [1..n -> CallRecord] /\ tt \in Counter
  /\ ds \in [DOMAIN ds -> Counter] /\ DOMAIN ds \subseteq Decisions
  /\ IsFiniteSet(DOMAIN ds) /\ dropped \in Nat
  /\ Counts(lg, n, tt, ds, dropped)

\* The log with one call more.
Longer(lg, n, new) ==
  /\ new \in [1..(n + 1) -> CallRecord] /\ \A i \in 1..n : new[i] = lg[i]

\* The calls counted for a decision, with one call more.
OfNext(lg, n, new) ==
  \A d : /\ OfIn(lg, n, d) \in SUBSET (1..n)
         /\ OfIn(new, n + 1, d)
              = IF new[n + 1].decision = d /\ new[n + 1].reach # "total"
                THEN OfIn(lg, n, d) \cup {n + 1} ELSE OfIn(lg, n, d)

LEMMA OfGrows ==
  ASSUME NEW n \in Nat, NEW lg, NEW new, Longer(lg, n, new)
  PROVE  OfNext(lg, n, new)
<1> SUFFICES ASSUME NEW d
             PROVE  /\ OfIn(lg, n, d) \in SUBSET (1..n)
                    /\ OfIn(new, n + 1, d)
                         = IF new[n + 1].decision = d /\ new[n + 1].reach # "total"
                           THEN OfIn(lg, n, d) \cup {n + 1} ELSE OfIn(lg, n, d)
  BY DEF OfNext
<1>1. \A i \in 1..(n + 1) : i \in 1..n \/ i = n + 1
  OBVIOUS
<1>2. \A i \in 1..n : i \in 1..(n + 1)
  OBVIOUS
<1>3. n + 1 \in 1..(n + 1)
  OBVIOUS
<1> QED
  BY <1>1, <1>2, <1>3 DEF OfIn, Longer

\* The total is of one call more.
LEMMA TotalGrows ==
  ASSUME NEW n \in Nat, NEW lg \in [1..n -> CallRecord], NEW new, Longer(lg, n, new),
         NEW c \in Counter, SummarisesIn(lg, c, 1..n), NEW tokens \in Nat, NEW u,
         u = Update(c, new[n + 1].outcome, new[n + 1].latency, tokens)
  PROVE  u \in Counter /\ SummarisesIn(new, u, 1..(n + 1))
<1>1. (1..n) \cup {n + 1} = 1..(n + 1)
  OBVIOUS
<1>2. new \in [1..(n + 1) -> CallRecord] /\ \A i \in 1..n : new[i] = lg[i]
  BY DEF Longer
<1>3. 1..n \in SUBSET (1..n)
  OBVIOUS
<1>4. Grows(n, lg, new, c, 1..n, tokens, u)
  BY <1>2, <1>3 DEF Grows
<1>5. u \in Counter /\ SummarisesIn(new, u, (1..n) \cup {n + 1})
  BY <1>4, SummaryGrows
<1> QED
  BY <1>1, <1>5

\* Counters are kept by a call of another decision or of none.
LEMMA OthersKept ==
  ASSUME NEW n \in Nat, NEW lg, NEW new, Longer(lg, n, new), NEW d, NEW c,
         SummarisesIn(lg, c, OfIn(lg, n, d)),
         new[n + 1].decision # d \/ new[n + 1].reach = "total"
  PROVE  SummarisesIn(new, c, OfIn(new, n + 1, d))
<1>0. OfNext(lg, n, new)
  BY OfGrows
<1>1. OfIn(new, n + 1, d) = OfIn(lg, n, d) /\ OfIn(lg, n, d) \in SUBSET (1..n)
  BY <1>0 DEF OfNext
<1>2. \A i \in 1..n : new[i] = lg[i]
  BY DEF Longer
<1> QED
  BY <1>1, <1>2, SummaryStays

\* record_call with counters for the decision.
CountedFor(n, tt, ds, new, d, tokens, ut, us) ==
  /\ tokens \in Nat /\ d \in Decisions
  /\ new[n + 1].decision = d /\ new[n + 1].reach # "total"
  /\ d \in DOMAIN ds \/ Cardinality(DOMAIN ds) < MaxDecisions
  /\ ut = Update(tt, new[n + 1].outcome, new[n + 1].latency, tokens)
  /\ us = [x \in DOMAIN ds \cup {d} |->
             IF x # d THEN ds[x]
             ELSE Update(IF d \in DOMAIN ds THEN ds[d] ELSE NoCalls,
                         new[n + 1].outcome, new[n + 1].latency, tokens)]

LEMMA DecisionCounted ==
  ASSUME NEW n, NEW lg, NEW tt, NEW ds, NEW dropped, Counted(lg, n, tt, ds, dropped),
         NEW new, Longer(lg, n, new), NEW d, NEW tokens, NEW ut, NEW us,
         CountedFor(n, tt, ds, new, d, tokens, ut, us)
  PROVE  Counted(new, n + 1, ut, us, dropped)
<1>01. PICK old : old = IF d \in DOMAIN ds THEN ds[d] ELSE NoCalls
  OBVIOUS
<1>02. PICK ud : ud = Update(old, new[n + 1].outcome, new[n + 1].latency, tokens)
  OBVIOUS
<1>03. /\ tokens \in Nat /\ d \in Decisions
       /\ new[n + 1].decision = d /\ new[n + 1].reach # "total"
       /\ d \in DOMAIN ds \/ Cardinality(DOMAIN ds) < MaxDecisions
       /\ ut = Update(tt, new[n + 1].outcome, new[n + 1].latency, tokens)
       /\ us = [x \in DOMAIN ds \cup {d} |-> IF x # d THEN ds[x] ELSE ud]
  BY <1>01, <1>02 DEF CountedFor
<1> USE <1>01, <1>02, <1>03
<1> USE DEF Counted
<1>1. n \in Nat /\ lg \in [1..n -> CallRecord] /\ tt \in Counter
  OBVIOUS
<1>2. new \in [1..(n + 1) -> CallRecord] /\ \A i \in 1..n : new[i] = lg[i]
  BY DEF Longer
<1>3. ut \in Counter /\ SummarisesIn(new, ut, 1..(n + 1))
  BY <1>1, TotalGrows DEF Counts
<1>4. OfIn(lg, n, d) \in SUBSET (1..n) /\ OfIn(new, n + 1, d) = OfIn(lg, n, d) \cup {n + 1}
  <2>1. OfNext(lg, n, new)
    BY <1>1, OfGrows
  <2> QED
    BY <2>1 DEF OfNext
<1>5. d \notin DOMAIN ds => OfIn(lg, n, d) = {}
  BY DEF Counts
<1>6. old \in Counter /\ SummarisesIn(lg, old, OfIn(lg, n, d))
  BY <1>5, SummaryOfNone DEF Counts
<1>7. ud \in Counter /\ SummarisesIn(new, ud, OfIn(new, n + 1, d))
  <2>1. Grows(n, lg, new, old, OfIn(lg, n, d), tokens, ud)
    BY <1>1, <1>2, <1>4, <1>6 DEF Grows
  <2>2. ud \in Counter /\ SummarisesIn(new, ud, OfIn(lg, n, d) \cup {n + 1})
    BY <2>1, SummaryGrows
  <2> QED
    BY <1>4, <2>2
<1>8. DOMAIN us = DOMAIN ds \cup {d}
  OBVIOUS
<1>9. us \in [DOMAIN us -> Counter] /\ DOMAIN us \subseteq Decisions
  BY <1>7
<1>10. /\ IsFiniteSet(DOMAIN us)
       /\ Cardinality(DOMAIN us)
            = IF d \in DOMAIN ds THEN Cardinality(DOMAIN ds) ELSE Cardinality(DOMAIN ds) + 1
  BY <1>8, FS_AddElement
<1>11. Cardinality(DOMAIN ds) \in Nat /\ MaxDecisions \in Nat
  BY FS_CardinalityType, DiagnosticsAssumption
<1>12. Cardinality(DOMAIN us) <= MaxDecisions
  BY <1>10, <1>11 DEF Counts
<1>13. ASSUME NEW x \in DOMAIN us PROVE SummarisesIn(new, us[x], OfIn(new, n + 1, x))
  <2>1. CASE x = d
    BY <1>7, <2>1
  <2>2. CASE x # d
    <3>1. us[x] = ds[x] /\ SummarisesIn(lg, ds[x], OfIn(lg, n, x))
      BY <2>2 DEF Counts
    <3>2. SummarisesIn(new, ds[x], OfIn(new, n + 1, x))
      BY <1>1, <2>2, <3>1, OthersKept
    <3> QED
      BY <3>1, <3>2
  <2> QED
    BY <2>1, <2>2
<1>14. \A x \in Decisions \ DOMAIN us : OfIn(new, n + 1, x) = OfIn(lg, n, x)
  <2>1. OfNext(lg, n, new)
    BY <1>1, OfGrows
  <2> SUFFICES ASSUME NEW x \in Decisions \ DOMAIN us
               PROVE  OfIn(new, n + 1, x) = OfIn(lg, n, x)
    OBVIOUS
  <2>2. x # d
    BY <1>8
  <2> QED
    BY <2>1, <2>2 DEF OfNext
<1> DEFINE Left == UNION {OfIn(lg, n, x) : x \in Decisions \ DOMAIN ds}
           Left2 == UNION {OfIn(new, n + 1, x) : x \in Decisions \ DOMAIN us}
<1>15. Left = Left2
  <2>1. Left2 = UNION {OfIn(lg, n, x) : x \in Decisions \ DOMAIN us}
    BY <1>14
  <2>2. Left = UNION {OfIn(lg, n, x) : x \in Decisions \ DOMAIN us}
    BY <1>5, <1>8
  <2> QED
    BY <2>1, <2>2
<1>16. dropped = Cardinality(Left2)
  <2>1. dropped = Cardinality(Left)
    BY DEF Counts
  <2> QED
    BY <1>15, <2>1
<1>17. ASSUME NEW x \in Decisions \ DOMAIN us, OfIn(new, n + 1, x) # {}
       PROVE  ~(Cardinality(DOMAIN us) < MaxDecisions)
  <2>1. x \in Decisions \ DOMAIN ds /\ OfIn(lg, n, x) # {}
    BY <1>8, <1>14, <1>17
  <2>2. ~(Cardinality(DOMAIN ds) < MaxDecisions)
    BY <2>1 DEF Counts
  <2> QED
    BY <1>10, <1>11, <2>2
<1>18. Counts(new, n + 1, ut, us, dropped)
  BY <1>3, <1>12, <1>13, <1>16, <1>17 DEF Counts
<1> QED
  BY <1>1, <1>2, <1>3, <1>9, <1>10, <1>18

\* record_call that stops before it has counters for the decision.
LEMMA DecisionMissed ==
  ASSUME NEW n, NEW lg, NEW tt, NEW ds, NEW dropped, Counted(lg, n, tt, ds, dropped),
         NEW new, Longer(lg, n, new), NEW tokens \in Nat, new[n + 1].reach = "total",
         NEW ut, ut = Update(tt, new[n + 1].outcome, new[n + 1].latency, tokens)
  PROVE  Counted(new, n + 1, ut, ds, dropped)
<1> USE DEF Counted
<1>1. n \in Nat /\ lg \in [1..n -> CallRecord] /\ tt \in Counter
  OBVIOUS
<1>2. new \in [1..(n + 1) -> CallRecord]
  BY DEF Longer
<1>3. ut \in Counter /\ SummarisesIn(new, ut, 1..(n + 1))
  BY <1>1, TotalGrows DEF Counts
<1>4. \A x : OfIn(new, n + 1, x) = OfIn(lg, n, x)
  <2>1. OfNext(lg, n, new)
    BY <1>1, OfGrows
  <2> QED
    BY <2>1 DEF OfNext
<1>5. \A x \in DOMAIN ds : SummarisesIn(new, ds[x], OfIn(new, n + 1, x))
  <2> SUFFICES ASSUME NEW x \in DOMAIN ds
               PROVE  SummarisesIn(new, ds[x], OfIn(new, n + 1, x))
    OBVIOUS
  <2>1. SummarisesIn(lg, ds[x], OfIn(lg, n, x))
    BY DEF Counts
  <2> QED
    BY <1>1, <2>1, OthersKept
<1>6. {OfIn(new, n + 1, x) : x \in Decisions \ DOMAIN ds}
        = {OfIn(lg, n, x) : x \in Decisions \ DOMAIN ds}
  BY <1>4
<1>7. Counts(new, n + 1, ut, ds, dropped)
  BY <1>3, <1>4, <1>5, <1>6 DEF Counts
<1> QED
  BY <1>1, <1>2, <1>3, <1>7

\* record_call of a decision there is no room for.
LEMMA DecisionDropped ==
  ASSUME NEW n, NEW lg, NEW tt, NEW ds, NEW dropped, Counted(lg, n, tt, ds, dropped),
         NEW new, Longer(lg, n, new), NEW tokens \in Nat,
         NEW d \in Decisions \ DOMAIN ds, ~(Cardinality(DOMAIN ds) < MaxDecisions),
         new[n + 1].decision = d, new[n + 1].reach # "total",
         NEW ut, ut = Update(tt, new[n + 1].outcome, new[n + 1].latency, tokens)
  PROVE  Counted(new, n + 1, ut, ds, dropped + 1)
<1> USE DEF Counted
<1>1. n \in Nat /\ lg \in [1..n -> CallRecord] /\ tt \in Counter
  OBVIOUS
<1>2. new \in [1..(n + 1) -> CallRecord]
  BY DEF Longer
<1>3. ut \in Counter /\ SummarisesIn(new, ut, 1..(n + 1))
  BY <1>1, TotalGrows DEF Counts
<1>4. \A x : /\ OfIn(lg, n, x) \in SUBSET (1..n)
             /\ OfIn(new, n + 1, x) = IF x = d THEN OfIn(lg, n, d) \cup {n + 1}
                                              ELSE OfIn(lg, n, x)
  <2>1. OfNext(lg, n, new)
    BY <1>1, OfGrows
  <2> QED
    BY <2>1 DEF OfNext
<1>5. \A x \in DOMAIN ds : SummarisesIn(new, ds[x], OfIn(new, n + 1, x))
  <2> SUFFICES ASSUME NEW x \in DOMAIN ds
               PROVE  SummarisesIn(new, ds[x], OfIn(new, n + 1, x))
    OBVIOUS
  <2>1. SummarisesIn(lg, ds[x], OfIn(lg, n, x)) /\ x # d
    BY DEF Counts
  <2> QED
    BY <1>1, <2>1, OthersKept
<1> DEFINE Left == UNION {OfIn(lg, n, x) : x \in Decisions \ DOMAIN ds}
           Left2 == UNION {OfIn(new, n + 1, x) : x \in Decisions \ DOMAIN ds}
<1>6. Left2 = Left \cup {n + 1}
  <2>1. Left2 \subseteq Left \cup {n + 1}
    BY <1>4
  <2>2. Left \subseteq Left2
    BY <1>4
  <2>3. n + 1 \in Left2
    BY <1>4
  <2> QED
    BY <2>1, <2>2, <2>3
<1>7. Left \in SUBSET (1..n)
  BY <1>4
<1>8. dropped = Cardinality(Left)
  BY DEF Counts
<1> HIDE DEF Left, Left2
<1>9. IsFiniteSet(Left) /\ n + 1 \notin Left
  <2>1. n + 1 \notin 1..n
    BY <1>1
  <2> QED
    BY <1>1, <1>7, <2>1, CallsFinite
<1>10. dropped + 1 = Cardinality(Left2)
  BY <1>6, <1>8, <1>9, FS_AddElement
<1>11. Counts(new, n + 1, ut, ds, dropped + 1)
  BY <1>3, <1>5, <1>10 DEF Counts, Left2
<1> QED
  BY <1>1, <1>2, <1>3, <1>11

\* The calls to retain of a log of n, and those after one of them.
Due(lg, n) ==
  {i \in 1..n : /\ SampleEvery # 0 /\ lg[i].reach = "all" /\ (i - 1) % SampleEvery = 0}
After(lg, n, s) == {j \in Due(lg, n) : j > s}

Retained == [sequence : Nat, decision : Decisions, outcome : CallOutcome]

\* The ring holds the calls to retain from the last backwards, as far as it reaches.
Ring(lg, n, rs) ==
  /\ rs \in Seq(Retained)
  /\ \A k \in 1..Len(rs) :
       /\ rs[k].sequence \in Due(lg, n)
       /\ Cardinality(After(lg, n, rs[k].sequence)) = k - 1
       /\ rs[k].outcome = lg[rs[k].sequence].outcome
  /\ Len(rs) <= RecentCapacity
  /\ Len(rs) < RecentCapacity => Len(rs) = Cardinality(Due(lg, n))

LEMMA DueFinite ==
  ASSUME NEW n \in Nat, NEW lg
  PROVE  /\ Due(lg, n) \in SUBSET (1..n)
         /\ IsFiniteSet(Due(lg, n)) /\ Cardinality(Due(lg, n)) \in Nat
         /\ \A s : /\ After(lg, n, s) \in SUBSET (1..n)
                   /\ IsFiniteSet(After(lg, n, s)) /\ Cardinality(After(lg, n, s)) \in Nat
<1>1. Due(lg, n) \in SUBSET (1..n)
  BY DEF Due
<1>2. \A s : After(lg, n, s) \in SUBSET (1..n)
  BY <1>1 DEF After
<1>3. \A T \in SUBSET (1..n) : IsFiniteSet(T) /\ Cardinality(T) \in Nat
  BY CallsFinite
<1> QED
  BY <1>1, <1>2, <1>3

\* Fewer calls to retain come after a later one.
LEMMA LaterHasLess ==
  ASSUME NEW n \in Nat, NEW lg, NEW s \in Due(lg, n), NEW t \in Due(lg, n), s < t
  PROVE  Cardinality(After(lg, n, t)) < Cardinality(After(lg, n, s))
<1>1. s \in Nat /\ t \in Nat /\ \A j \in Due(lg, n) : j \in Nat
  BY DueFinite
<1>2. After(lg, n, t) \in SUBSET After(lg, n, s)
  <2>1. \A j \in Due(lg, n) : j > t => j > s
    BY <1>1
  <2> QED
    BY <2>1 DEF After
<1>3. t \in After(lg, n, s) /\ t \notin After(lg, n, t)
  BY <1>1 DEF After
<1>4. /\ IsFiniteSet(After(lg, n, s)) /\ Cardinality(After(lg, n, s)) \in Nat
      /\ Cardinality(After(lg, n, t)) \in Nat
  BY DueFinite
<1>5. /\ Cardinality(After(lg, n, t)) <= Cardinality(After(lg, n, s))
      /\ Cardinality(After(lg, n, s)) = Cardinality(After(lg, n, t))
           => After(lg, n, s) = After(lg, n, t)
  BY <1>2, <1>4, FS_Subset
<1> QED
  BY <1>3, <1>4, <1>5

\* RecentSampled, of any log and ring.
RecentIn(lg, n, rs) ==
  /\ {rs[k].sequence : k \in 1..Len(rs)}
       = {i \in Due(lg, n) : Cardinality(After(lg, n, i)) < RecentCapacity}
  /\ \A k \in 1..Len(rs) : rs[k].outcome = lg[rs[k].sequence].outcome
  /\ \A j, k \in 1..Len(rs) : j < k => rs[j].sequence > rs[k].sequence

LEMMA RingReads ==
  ASSUME NEW n \in Nat, NEW lg, NEW rs, Ring(lg, n, rs)
  PROVE  RecentIn(lg, n, rs)
<1>1. PICK m \in Nat : m = Len(rs)
  BY LenProperties DEF Ring
<1>2. RecentCapacity \in Nat
  BY DiagnosticsAssumption
<1>3. \A k \in 1..m : /\ rs[k].sequence \in Due(lg, n)
                      /\ Cardinality(After(lg, n, rs[k].sequence)) = k - 1
                      /\ rs[k].outcome = lg[rs[k].sequence].outcome
  BY <1>1 DEF Ring
<1>4. m <= RecentCapacity /\ (m < RecentCapacity => m = Cardinality(Due(lg, n)))
  BY <1>1 DEF Ring
<1>5. \A i \in Due(lg, n) : i \in Nat
  BY DueFinite
<1>6. ASSUME NEW k \in 1..m
      PROVE  rs[k].sequence \in {i \in Due(lg, n) : Cardinality(After(lg, n, i)) < RecentCapacity}
  BY <1>2, <1>3, <1>4
<1>7. ASSUME NEW i \in Due(lg, n), Cardinality(After(lg, n, i)) < RecentCapacity
      PROVE  \E k \in 1..m : rs[k].sequence = i
  <2>1. PICK c \in Nat : c = Cardinality(After(lg, n, i))
    BY DueFinite
  <2>2. c < Cardinality(Due(lg, n))
    <3>1. After(lg, n, i) \in SUBSET Due(lg, n) /\ i \notin After(lg, n, i)
      BY <1>5 DEF After
    <3>2. IsFiniteSet(Due(lg, n)) /\ Cardinality(Due(lg, n)) \in Nat
      BY DueFinite
    <3>3. /\ Cardinality(After(lg, n, i)) <= Cardinality(Due(lg, n))
          /\ Cardinality(Due(lg, n)) = Cardinality(After(lg, n, i))
               => Due(lg, n) = After(lg, n, i)
      BY <3>1, <3>2, FS_Subset
    <3> QED
      BY <2>1, <3>1, <3>2, <3>3
  <2>3. c + 1 \in 1..m
    BY <1>2, <1>4, <1>7, <2>1, <2>2
  <2>4. PICK t : t = rs[c + 1].sequence
    OBVIOUS
  <2>5. t \in Due(lg, n) /\ Cardinality(After(lg, n, t)) = c
    BY <1>3, <2>3, <2>4
  <2>6. t = i
    <3>1. t \in Nat /\ i \in Nat
      BY <1>5, <2>5
    <3>2. ~(t < i)
      BY <2>1, <2>5, LaterHasLess
    <3>3. ~(i < t)
      BY <2>1, <2>5, LaterHasLess
    <3> QED
      BY <3>1, <3>2, <3>3
  <2> QED
    BY <2>3, <2>4, <2>6
<1>8. ASSUME NEW j \in 1..m, NEW k \in 1..m, j < k
      PROVE  rs[j].sequence > rs[k].sequence
  <2>1. PICK s, t : s = rs[j].sequence /\ t = rs[k].sequence
    OBVIOUS
  <2>2. /\ s \in Due(lg, n) /\ Cardinality(After(lg, n, s)) = j - 1
        /\ t \in Due(lg, n) /\ Cardinality(After(lg, n, t)) = k - 1
    BY <1>3, <2>1
  <2>3. s \in Nat /\ t \in Nat
    BY <1>5, <2>2
  <2>4. s # t
    BY <1>8, <2>2
  <2>5. ~(s < t)
    <3> SUFFICES ASSUME s < t PROVE FALSE
      OBVIOUS
    <3>1. Cardinality(After(lg, n, t)) < Cardinality(After(lg, n, s))
      BY <2>2, LaterHasLess
    <3> QED
      BY <1>8, <2>2, <3>1
  <2> QED
    BY <2>1, <2>3, <2>4, <2>5
<1>9. {rs[k].sequence : k \in 1..m}
        = {i \in Due(lg, n) : Cardinality(After(lg, n, i)) < RecentCapacity}
  BY <1>6, <1>7
<1> QED
  BY <1>1, <1>3, <1>8, <1>9 DEF RecentIn

\* The ring stays when the next call is not to be retained.
LEMMA RingStays ==
  ASSUME NEW n \in Nat, NEW lg, NEW new, Longer(lg, n, new), NEW rs, Ring(lg, n, rs),
         new[n + 1].reach # "all" \/ SampleEvery = 0 \/ n % SampleEvery # 0
           \/ RecentCapacity = 0
  PROVE  Ring(new, n + 1, rs)
<1>1. \A i \in 1..n : new[i] = lg[i]
  BY DEF Longer
<1>2. rs \in Seq(Retained) /\ Len(rs) <= RecentCapacity /\ Len(rs) \in Nat
  BY LenProperties DEF Ring
<1>3. CASE RecentCapacity = 0
  <2>1. Len(rs) = 0
    BY <1>2, <1>3
  <2>2. \A k \in 1..Len(rs) : FALSE
    BY <2>1
  <2> QED
    BY <1>2, <1>3, <2>1, <2>2 DEF Ring
<1>4. CASE RecentCapacity # 0
  <2>1. Due(new, n + 1) = Due(lg, n)
    <3>1. (n + 1) - 1 = n
      OBVIOUS
    <3>2. n + 1 \notin Due(new, n + 1)
      BY <1>4, <3>1 DEF Due
    <3>3. \A i \in 1..(n + 1) : i \in 1..n \/ i = n + 1
      OBVIOUS
    <3>4. \A i \in 1..n : i \in 1..(n + 1)
      OBVIOUS
    <3>5. \A i \in 1..n : i \in Due(new, n + 1) <=> i \in Due(lg, n)
      BY <1>1, <3>4 DEF Due
    <3>6. Due(new, n + 1) \subseteq 1..(n + 1) /\ Due(lg, n) \subseteq 1..n
      BY DEF Due
    <3> QED
      BY <3>2, <3>3, <3>5, <3>6
  <2>2. \A s : After(new, n + 1, s) = After(lg, n, s)
    BY <2>1 DEF After
  <2>3. Due(lg, n) \in SUBSET (1..n)
    BY DueFinite
  <2>4. \A k \in 1..Len(rs) :
          /\ rs[k].sequence \in Due(new, n + 1)
          /\ Cardinality(After(new, n + 1, rs[k].sequence)) = k - 1
          /\ rs[k].outcome = new[rs[k].sequence].outcome
    BY <1>1, <2>1, <2>2, <2>3 DEF Ring
  <2> QED
    BY <1>2, <2>1, <2>4 DEF Ring
<1> QED
  BY <1>3, <1>4

\* A sequence with an element in front, without its last one if it is too long.
LEMMA OneInFront ==
  ASSUME NEW S, NEW s \in Seq(S), NEW v \in S, NEW cap \in Nat, cap # 0,
         Len(s) <= cap, NEW t,
         t = IF Len(<<v>> \o s) > cap THEN Front(<<v>> \o s) ELSE <<v>> \o s
  PROVE  /\ t \in Seq(S)
         /\ Len(t) = IF Len(s) < cap THEN Len(s) + 1 ELSE cap
         /\ t[1] = v
         /\ \A k \in 1..Len(t) : k # 1 => k - 1 \in 1..Len(s) /\ t[k] = s[k - 1]
<1>1. PICK m \in Nat : m = Len(s)
  BY LenProperties
<1>2. PICK u : u = <<v>> \o s
  OBVIOUS
<1>3. <<v>> \in Seq(S) /\ Len(<<v>>) = 1 /\ <<v>>[1] = v
  OBVIOUS
<1>4. /\ u \in Seq(S) /\ Len(u) = 1 + m
      /\ \A i \in 1..(1 + m) : u[i] = IF i <= 1 THEN <<v>>[i] ELSE s[i - 1]
  <2>1. /\ <<v>> \o s \in Seq(S) /\ Len(<<v>> \o s) = Len(<<v>>) + Len(s)
        /\ \A i \in 1..(Len(<<v>>) + Len(s)) :
             (<<v>> \o s)[i] = IF i <= Len(<<v>>) THEN <<v>>[i] ELSE s[i - Len(<<v>>)]
    BY <1>3, ConcatProperties
  <2> QED
    BY <1>1, <1>2, <1>3, <2>1
<1>5. u[1] = v
  BY <1>3, <1>4
<1>6. \A i \in 1..(m + 1) : i # 1 => i - 1 \in 1..m /\ u[i] = s[i - 1]
  BY <1>4
<1>7. CASE m < cap
  <2>1. t = u
    BY <1>1, <1>2, <1>4, <1>7
  <2>2. t \in Seq(S) /\ Len(t) = m + 1 /\ t[1] = v
    BY <1>4, <1>5, <2>1
  <2>3. \A k \in 1..(m + 1) : k # 1 => k - 1 \in 1..m /\ t[k] = s[k - 1]
    BY <1>6, <2>1
  <2>4. Len(t) = IF Len(s) < cap THEN Len(s) + 1 ELSE cap
    BY <1>1, <1>7, <2>2
  <2>5. \A k \in 1..Len(t) : k # 1 => k - 1 \in 1..Len(s) /\ t[k] = s[k - 1]
    BY <1>1, <2>2, <2>3
  <2> QED
    BY <2>2, <2>4, <2>5
<1>8. CASE ~(m < cap)
  <2>1. m = cap
    BY <1>1, <1>8
  <2>2. t = SubSeq(u, 1, m)
    BY <1>1, <1>2, <1>4, <2>1 DEF Front
  <2>3. \A i \in 1..m : u[i] \in S
    BY <1>4, LenProperties
  <2>4. /\ SubSeq(u, 1, m) \in Seq(S)
        /\ Len(SubSeq(u, 1, m)) = IF 1 <= m THEN m - 1 + 1 ELSE 0
        /\ \A i \in 1..(m - 1 + 1) : SubSeq(u, 1, m)[i] = u[1 + i - 1]
    BY <2>3, SubSeqProperties
  <2>5. Len(t) = m /\ \A i \in 1..m : t[i] = u[i]
    BY <2>1, <2>2, <2>4
  <2>6. t[1] = v
    BY <1>5, <2>1, <2>5
  <2>7. \A k \in 1..m : k # 1 => k - 1 \in 1..m /\ t[k] = s[k - 1]
    BY <1>6, <2>5
  <2>8. t \in Seq(S)
    BY <2>2, <2>4
  <2>9. Len(t) = IF Len(s) < cap THEN Len(s) + 1 ELSE cap
    BY <1>1, <2>1, <2>5
  <2>10. \A k \in 1..Len(t) : k # 1 => k - 1 \in 1..Len(s) /\ t[k] = s[k - 1]
    BY <1>1, <2>5, <2>7
  <2> QED
    BY <2>6, <2>8, <2>9, <2>10
<1> QED
  BY <1>7, <1>8

\* The ring with the next call in front.
LEMMA RingTurns ==
  ASSUME NEW n \in Nat, NEW lg, NEW new, Longer(lg, n, new), NEW rs, Ring(lg, n, rs),
         new[n + 1].reach = "all", SampleEvery # 0, n % SampleEvery = 0,
         RecentCapacity # 0,
         NEW call \in Retained, call.sequence = n + 1, call.outcome = new[n + 1].outcome,
         NEW ru,
         ru = IF Len(<<call>> \o rs) > RecentCapacity THEN Front(<<call>> \o rs)
                                                      ELSE <<call>> \o rs
  PROVE  Ring(new, n + 1, ru)
<1>1. \A i \in 1..n : new[i] = lg[i]
  BY DEF Longer
<1>2. PICK m \in Nat : m = Len(rs)
  BY LenProperties DEF Ring
<1>3. PICK cap \in Nat : cap = RecentCapacity
  BY DiagnosticsAssumption
<1>4. rs \in Seq(Retained) /\ m <= cap /\ (m < cap => m = Cardinality(Due(lg, n)))
  BY <1>2, <1>3 DEF Ring
<1>5. PICK w : w = Len(ru)
  OBVIOUS
<1>6. /\ ru \in Seq(Retained) /\ w = IF m < cap THEN m + 1 ELSE cap
      /\ ru[1] = call
      /\ \A k \in 1..w : k # 1 => k - 1 \in 1..m /\ ru[k] = rs[k - 1]
  BY <1>2, <1>3, <1>4, <1>5, OneInFront
<1>7. Due(new, n + 1) = Due(lg, n) \cup {n + 1}
  <2>1. (n + 1) - 1 = n
    OBVIOUS
  <2>2. n + 1 \in Due(new, n + 1)
    BY <2>1 DEF Due
  <2>3. \A i \in 1..(n + 1) : i \in 1..n \/ i = n + 1
    OBVIOUS
  <2>4. \A i \in 1..n : i \in 1..(n + 1)
    OBVIOUS
  <2>5. \A i \in 1..n : i \in Due(new, n + 1) <=> i \in Due(lg, n)
    BY <1>1, <2>4 DEF Due
  <2>6. Due(new, n + 1) \subseteq 1..(n + 1) /\ Due(lg, n) \subseteq 1..n
    BY DEF Due
  <2> QED
    BY <2>2, <2>3, <2>5, <2>6
<1>8. Due(lg, n) \in SUBSET (1..n) /\ IsFiniteSet(Due(lg, n)) /\ Cardinality(Due(lg, n)) \in Nat
  BY DueFinite
<1>9. n + 1 \notin Due(lg, n)
  BY <1>8
<1>10. After(new, n + 1, n + 1) = {}
  BY <1>7, <1>8 DEF After
<1>11. ASSUME NEW s \in Due(lg, n)
       PROVE  Cardinality(After(new, n + 1, s)) = Cardinality(After(lg, n, s)) + 1
  <2>1. After(new, n + 1, s) = After(lg, n, s) \cup {n + 1}
    BY <1>7, <1>8 DEF After
  <2>2. IsFiniteSet(After(lg, n, s)) /\ n + 1 \notin After(lg, n, s)
    BY <1>9, DueFinite DEF After
  <2> QED
    BY <2>1, <2>2, FS_AddElement
<1>12. ASSUME NEW k \in 1..w
       PROVE  /\ ru[k].sequence \in Due(new, n + 1)
              /\ Cardinality(After(new, n + 1, ru[k].sequence)) = k - 1
              /\ ru[k].outcome = new[ru[k].sequence].outcome
  <2>1. CASE k = 1
    <3>1. Cardinality(After(new, n + 1, n + 1)) = 0
      BY <1>10, FS_EmptySet
    <3> QED
      BY <1>6, <1>7, <2>1, <3>1
  <2>2. CASE k # 1
    <3>1. k - 1 \in 1..m /\ ru[k] = rs[k - 1]
      BY <1>6, <2>2
    <3>2. PICK s : s = rs[k - 1].sequence
      OBVIOUS
    <3>3. /\ s \in Due(lg, n) /\ Cardinality(After(lg, n, s)) = k - 1 - 1
          /\ rs[k - 1].outcome = lg[s].outcome
      BY <1>2, <3>1, <3>2 DEF Ring
    <3>4. Cardinality(After(new, n + 1, s)) = k - 1
      BY <1>11, <3>3
    <3>5. new[s] = lg[s]
      BY <1>1, <1>8, <3>3
    <3> QED
      BY <1>7, <3>1, <3>2, <3>3, <3>4, <3>5
  <2> QED
    BY <2>1, <2>2
<1>13. w <= cap /\ (w < cap => w = Cardinality(Due(new, n + 1)))
  <2>1. Cardinality(Due(new, n + 1)) = Cardinality(Due(lg, n)) + 1
    BY <1>7, <1>8, <1>9, FS_AddElement
  <2> QED
    BY <1>4, <1>6, <2>1
<1> QED
  BY <1>3, <1>5, <1>6, <1>12, <1>13 DEF Ring

\* The counters and the ring are of the calls of the log.
DiagnosticsInv ==
  /\ log \in Seq(CallRecord)
  /\ Counted(log, Len(log), total, decisions, dropped_decisions)
  /\ Ring(log, Len(log), recent)

\* Then everything that is read of them is true.
LEMMA DiagnosticsRead == DiagnosticsInv => StatsTrue
<1> SUFFICES ASSUME DiagnosticsInv PROVE StatsTrue
  OBVIOUS
<1>1. PICK n, lg : n = Len(log) /\ lg = log
  OBVIOUS
<1>2. PICK tt, ds, dr, rs : /\ tt = total /\ ds = decisions /\ dr = dropped_decisions
                            /\ rs = recent
  OBVIOUS
<1>3. Counted(lg, n, tt, ds, dr) /\ Ring(lg, n, rs)
  BY <1>1, <1>2 DEF DiagnosticsInv
<1>4. /\ n \in Nat /\ lg \in [1..n -> CallRecord] /\ tt \in Counter
      /\ ds \in [DOMAIN ds -> Counter] /\ DOMAIN ds \subseteq Decisions
      /\ Counts(lg, n, tt, ds, dr)
  BY <1>3 DEF Counted
<1>5. DOMAIN log = 1..n
  BY <1>1, <1>4
<1>6. SummarisesIn(lg, tt, 1..n) /\ \A d \in DOMAIN ds : SummarisesIn(lg, ds[d], OfIn(lg, n, d))
  BY <1>4 DEF Counts
<1>7. \A c, calls : SummarisesIn(lg, c, calls) <=> Summarises(c, calls)
  BY <1>1 DEF SummarisesIn, Summarises
<1>8. \A d : Of(d) = OfIn(lg, n, d)
  BY <1>1, <1>5 DEF Of, OfIn
<1>9. CountersTrue
  <2>1. Summarises(total, DOMAIN log)
    BY <1>2, <1>5, <1>6, <1>7
  <2>2. \A d \in DOMAIN decisions : Summarises(decisions[d], Of(d))
    BY <1>2, <1>6, <1>7, <1>8
  <2>3. Cardinality(DOMAIN decisions) <= MaxDecisions
    BY <1>2, <1>4 DEF Counts
  <2>4. UNION {Of(d) : d \in Decisions \ DOMAIN decisions}
          = UNION {OfIn(lg, n, d) : d \in Decisions \ DOMAIN ds}
    BY <1>2, <1>8
  <2>5. dropped_decisions = Cardinality(UNION {Of(d) : d \in Decisions \ DOMAIN decisions})
    BY <1>2, <1>4, <2>4 DEF Counts
  <2> QED
    BY <2>1, <2>2, <2>3, <2>5 DEF CountersTrue
<1>10. ASSUME NEW c \in Counter, NEW calls \in SUBSET (1..n), SummarisesIn(lg, c, calls)
       PROVE  Conservative(Stats(c), calls)
  <2>1. \A q \in Quantiles : Stats(c).latency[q] = Percentile(c, q)
    BY DEF Stats
  <2>2. \A q : NearestRank(calls, q) = NearestIn(lg, calls, q)
    BY <1>1 DEF NearestRank, NearestIn
  <2>3. ASSUME NEW q \in Quantiles, calls # {}
        PROVE  Stats(c).latency[q] >= NearestRank(calls, q)
    <3>1. Percentile(c, q) >= NearestIn(lg, calls, q)
      BY <1>4, <1>10, <2>3, NeverUnderstates
    <3> QED
      BY <2>1, <2>2, <3>1
  <2>4. ASSUME NEW p \in Quantiles, NEW q \in Quantiles, p <= q
        PROVE  Stats(c).latency[p] <= Stats(c).latency[q]
    <3>1. Percentile(c, p) <= Percentile(c, q)
      BY <1>4, <1>10, <2>4, PercentilesAscend
    <3> QED
      BY <2>1, <3>1
  <2> QED
    BY <2>3, <2>4 DEF Conservative
<1>11. PercentilesConservative
  <2>1. Snapshot.total = Stats(tt) /\ Snapshot.decisions = [d \in DOMAIN ds |-> Stats(ds[d])]
    BY <1>2 DEF Snapshot
  <2>2. 1..n \in SUBSET (1..n)
    OBVIOUS
  <2>3. Conservative(Snapshot.total, DOMAIN log)
    BY <1>4, <1>5, <1>6, <1>10, <2>1, <2>2
  <2>4. ASSUME NEW d \in DOMAIN ds PROVE Conservative(Snapshot.decisions[d], Of(d))
    <3>1. ds[d] \in Counter /\ OfIn(lg, n, d) \in SUBSET (1..n)
      BY <1>4 DEF OfIn
    <3>2. Conservative(Stats(ds[d]), OfIn(lg, n, d))
      BY <1>6, <1>10, <3>1
    <3> QED
      BY <1>8, <2>1, <3>2
  <2>5. ASSUME NEW b \in Buckets
        PROVE  Exported(Snapshot.total)[b]
                 = Cardinality({i \in DOMAIN log : b \in DOMAIN Bounds
                                                     => log[i].latency <= Bounds[b]})
    <3>1. Exported(Stats(tt))[b]
            = Cardinality({i \in 1..n : b \in DOMAIN Bounds => lg[i].latency <= Bounds[b]})
      BY <1>4, <1>6, <2>2, ExportedCounts
    <3> QED
      BY <1>1, <1>5, <2>1, <3>1
  <2>6. DOMAIN Snapshot.decisions = DOMAIN ds
    BY <2>1
  <2> QED
    BY <2>3, <2>4, <2>5, <2>6 DEF PercentilesConservative
<1>12. RecentSampled
  <2>1. RecentIn(lg, n, rs)
    BY <1>3, <1>4, RingReads
  <2>2. DOMAIN recent = 1..Len(rs)
    BY <1>2, <1>3, LenProperties DEF Ring
  <2> DEFINE due == {i \in DOMAIN log : /\ SampleEvery # 0 /\ log[i].reach = "all"
                                        /\ (i - 1) % SampleEvery = 0}
  <2>3. due = Due(lg, n)
    BY <1>1, <1>5 DEF Due
  <2> HIDE DEF due
  <2>4. \A i : {j \in due : j > i} = After(lg, n, i)
    BY <2>3 DEF After
  <2>5. {i \in due : Cardinality({j \in due : j > i}) < RecentCapacity}
          = {i \in Due(lg, n) : Cardinality(After(lg, n, i)) < RecentCapacity}
    BY <2>3, <2>4
  <2>6. {recent[k].sequence : k \in DOMAIN recent}
          = {i \in due : Cardinality({j \in due : j > i}) < RecentCapacity}
    BY <1>2, <2>1, <2>2, <2>5 DEF RecentIn
  <2>7. \A k \in DOMAIN recent : recent[k].outcome = log[recent[k].sequence].outcome
    BY <1>1, <1>2, <2>1, <2>2 DEF RecentIn
  <2>8. \A j, k \in DOMAIN recent : j < k => recent[j].sequence > recent[k].sequence
    BY <1>2, <2>1, <2>2 DEF RecentIn
  <2> QED
    BY <2>6, <2>7, <2>8 DEF RecentSampled, due
<1> QED
  BY <1>9, <1>11, <1>12 DEF StatsTrue

\* t is s, a sequence of n, with r behind it.
Lengthened(S, s, r, n, t) ==
  /\ t \in Seq(S) /\ Len(t) = n + 1
  /\ t \in [1..(n + 1) -> S] /\ s \in [1..n -> S]
  /\ t[n + 1] = r /\ \A i \in 1..n : t[i] = s[i]
  /\ DOMAIN t = 1..(n + 1) /\ DOMAIN s = 1..n

LEMMA Lengthens ==
  ASSUME NEW S, NEW s \in Seq(S), NEW r \in S, NEW n \in Nat, n = Len(s)
  PROVE  Lengthened(S, s, r, n, Append(s, r))
<1> DEFINE t == Append(s, r)
<1>1. /\ t \in Seq(S) /\ Len(t) = n + 1
      /\ t[n + 1] = r /\ \A i \in 1..n : t[i] = s[i]
  BY AppendProperties
<1> HIDE DEF t
<1>2. t \in [1..Len(t) -> S] /\ s \in [1..Len(s) -> S]
  BY <1>1, LenProperties
<1>3. Lengthened(S, s, r, n, t)
  BY <1>1, <1>2 DEF Lengthened
<1> QED
  BY <1>3 DEF t

\* record_call keeps the counters and the ring, however far it gets.
LEMMA Recording ==
  ASSUME DiagnosticsInv, NEW d \in Decisions, NEW o \in CallOutcome, NEW measured \in Int,
         NEW tokens \in Nat, NEW reach \in {"total", "decision", "all"},
         Record(d, o, measured, tokens, reach)
  PROVE  /\ DiagnosticsInv'
         /\ Len(log) \in Nat /\ Len(log') = Len(log) + 1
         /\ total.tokens \in Nat /\ total'.tokens = total.tokens + tokens
<1>1. PICK l \in Nat : l = Larger(0, measured)
  BY DEF Larger
<1>2. PICK n \in Nat, lg \in {log} : n = Len(log) /\ lg = log
  BY LenProperties DEF DiagnosticsInv
<1>3. PICK tt, ds, dr, rs : /\ tt = total /\ ds = decisions /\ dr = dropped_decisions
                            /\ rs = recent
  OBVIOUS
<1>4. PICK new, ut, us, ur, du : /\ new = log' /\ ut = total' /\ us = decisions'
                                 /\ ur = recent' /\ du = dropped_decisions'
  OBVIOUS
<1>5. lg \in Seq(CallRecord) /\ Counted(lg, n, tt, ds, dr) /\ Ring(lg, n, rs)
  BY <1>2, <1>3 DEF DiagnosticsInv
<1>6. PICK r \in CallRecord :
        r = [decision |-> d, outcome |-> o, latency |-> l, reach |-> reach]
  BY DEF CallRecord
<1>7. r.decision = d /\ r.outcome = o /\ r.latency = l /\ r.reach = reach
  BY <1>6
<1>8. new = Append(lg, r)
  BY <1>1, <1>2, <1>4, <1>6 DEF Record
<1>9. /\ new \in Seq(CallRecord) /\ Len(new) = n + 1
      /\ new \in [1..(n + 1) -> CallRecord] /\ lg \in [1..n -> CallRecord]
      /\ new[n + 1] = r /\ \A i \in 1..n : new[i] = lg[i]
  <2>1. n = Len(lg)
    BY <1>2
  <2>2. Lengthened(CallRecord, lg, r, n, new)
    BY <1>5, <1>8, <2>1, Lengthens
  <2> QED
    BY <2>2 DEF Lengthened
<1>10. Longer(lg, n, new)
  BY <1>9 DEF Longer
<1>11. ut = Update(tt, o, l, tokens)
  BY <1>1, <1>3, <1>4 DEF Record
<1>12. ut = Update(tt, new[n + 1].outcome, new[n + 1].latency, tokens)
  BY <1>7, <1>9, <1>11
<1>13. new[n + 1].decision = d /\ new[n + 1].reach = reach /\ new[n + 1].outcome = o
  BY <1>7, <1>9
<1>14. Counted(new, n + 1, ut, us, du)
  <2>1. (Tracked(d) <=> d \in DOMAIN ds) /\ (HasRoom <=> Cardinality(DOMAIN ds) < MaxDecisions)
    BY <1>3 DEF Tracked, HasRoom
  <2>2. dr \in Nat
    BY <1>5 DEF Counted
  <2>3. CASE reach # "total" /\ (d \in DOMAIN ds \/ Cardinality(DOMAIN ds) < MaxDecisions)
    <3>1. us = [x \in DOMAIN ds \cup {d} |->
                  IF x # d THEN ds[x]
                  ELSE Update(IF d \in DOMAIN ds THEN ds[d] ELSE NoCalls, o, l, tokens)]
      BY <1>1, <1>3, <1>4, <2>1, <2>3 DEF Record, CountDecision
    <3>2. new[n + 1].latency = l
      BY <1>7, <1>9
    <3>3. CountedFor(n, tt, ds, new, d, tokens, ut, us)
      BY <1>12, <1>13, <2>3, <3>1, <3>2 DEF CountedFor
    <3>4. du = dr
      BY <1>3, <1>4, <2>1, <2>2, <2>3 DEF Record
    <3>5. Counted(new, n + 1, ut, us, dr)
      BY <1>5, <1>10, <3>3, DecisionCounted
    <3> QED
      BY <3>4, <3>5
  <2>4. CASE reach = "total"
    <3>1. us = ds /\ du = dr
      BY <1>3, <1>4, <2>2, <2>4 DEF Record
    <3>2. Counted(new, n + 1, ut, ds, dr)
      BY <1>5, <1>10, <1>12, <1>13, <2>4, DecisionMissed
    <3> QED
      BY <3>1, <3>2
  <2>5. CASE reach # "total" /\ d \notin DOMAIN ds /\ ~(Cardinality(DOMAIN ds) < MaxDecisions)
    <3>1. us = ds /\ du = dr + 1
      BY <1>3, <1>4, <2>1, <2>5 DEF Record
    <3>2. Counted(new, n + 1, ut, ds, dr + 1)
      BY <1>5, <1>10, <1>12, <1>13, <2>5, DecisionDropped
    <3> QED
      BY <3>1, <3>2
  <2> QED
    BY <2>3, <2>4, <2>5
<1>15. tt.calls = n /\ tt.tokens \in Nat
  <2>1. tt.calls = Cardinality(1..n) /\ tt \in Counter
    BY <1>5 DEF Counted, Counts, SummarisesIn
  <2>2. Cardinality(1..n) = n
    BY FS_Interval
  <2> QED
    BY <2>1, <2>2 DEF Counter
<1>16. ut.calls = n + 1 /\ ut.tokens = tt.tokens + tokens
  BY <1>11, <1>15 DEF Update
<1>17. Ring(new, n + 1, ur)
  <2>1. Sampled <=> RecentCapacity # 0 /\ SampleEvery # 0 /\ n % SampleEvery = 0
    BY <1>3, <1>15 DEF Sampled
  <2>2. CASE reach = "all" /\ RecentCapacity # 0 /\ SampleEvery # 0 /\ n % SampleEvery = 0
    <3>1. PICK call \in Retained : call = [sequence |-> n + 1, decision |-> d, outcome |-> o]
      <4>1. n + 1 \in Nat
        OBVIOUS
      <4> QED
        BY <4>1 DEF Retained
    <3>2. call.sequence = n + 1 /\ call.outcome = new[n + 1].outcome
      BY <1>13, <3>1
    <3>3. ur = IF Len(<<call>> \o rs) > RecentCapacity THEN Front(<<call>> \o rs)
                                                       ELSE <<call>> \o rs
      BY <1>3, <1>4, <1>16, <2>1, <2>2, <3>1 DEF Record, Retain
    <3> QED
      BY <1>5, <1>10, <1>13, <2>2, <3>2, <3>3, RingTurns
  <2>3. CASE ~(reach = "all" /\ RecentCapacity # 0 /\ SampleEvery # 0 /\ n % SampleEvery = 0)
    <3>1. ur = rs
      BY <1>3, <1>4, <2>1, <2>3 DEF Record
    <3>2. Ring(new, n + 1, rs)
      BY <1>5, <1>10, <1>13, <2>3, RingStays
    <3> QED
      BY <3>1, <3>2
  <2> QED
    BY <2>2, <2>3
<1>18. DiagnosticsInv'
  BY <1>4, <1>9, <1>14, <1>17 DEF DiagnosticsInv
<1> QED
  BY <1>2, <1>3, <1>4, <1>9, <1>15, <1>16, <1>18

\* Counters and ring of no calls, at first and after reset().
LEMMA NothingRecorded ==
  /\ Counted(<<>>, 0, NoCalls, <<>>, 0) /\ Ring(<<>>, 0, <<>>)
  /\ <<>> \in Seq(CallRecord) /\ Len(<<>>) = 0
<1>1. 1..0 = {} /\ DOMAIN <<>> = {} /\ <<>> \in [1..0 -> CallRecord]
  OBVIOUS
<1>2. NoCalls \in Counter /\ SummarisesIn(<<>>, NoCalls, {})
  BY SummaryOfNone
<1>3. <<>> \in [{} -> Counter]
  OBVIOUS
<1>4. IsFiniteSet({}) /\ Cardinality({}) = 0
  BY FS_EmptySet
<1>5. \A d : OfIn(<<>>, 0, d) = {}
  BY <1>1 DEF OfIn
<1>6. UNION {OfIn(<<>>, 0, d) : d \in Decisions \ {}} = {}
  BY <1>5
<1>7. MaxDecisions \in Nat /\ RecentCapacity \in Nat
  BY DiagnosticsAssumption
<1>8. Counts(<<>>, 0, NoCalls, <<>>, 0)
  <2>1. SummarisesIn(<<>>, NoCalls, 1..0)
    BY <1>1, <1>2
  <2>2. UNION {OfIn(<<>>, 0, d) : d \in Decisions \ DOMAIN <<>>} = {}
    BY <1>1, <1>6
  <2>3. Cardinality(DOMAIN <<>>) <= MaxDecisions
    BY <1>1, <1>4, <1>7
  <2> QED
    BY <1>1, <1>4, <1>5, <2>1, <2>2, <2>3 DEF Counts
<1>9. Counted(<<>>, 0, NoCalls, <<>>, 0)
  BY <1>1, <1>2, <1>3, <1>4, <1>8 DEF Counted
<1>10. Due(<<>>, 0) = {}
  BY <1>1 DEF Due
<1>11. Ring(<<>>, 0, <<>>)
  BY <1>1, <1>4, <1>7, <1>10 DEF Ring
<1> QED
  BY <1>9, <1>11

\* The tokens of one report more.
LEMMA OneReportMore ==
  ASSUME NEW S, NEW r \in DOMAIN Tokens, r \notin S, IsFiniteSet(TokensOf(S))
  PROVE  /\ IsFiniteSet(TokensOf(S \cup {r})) /\ Cardinality(TokensOf(S)) \in Nat
         /\ Cardinality(TokensOf(S \cup {r})) = Cardinality(TokensOf(S)) + Tokens[r]
<1> DEFINE A == TokensOf(S)
           B == {r} \X (1..Tokens[r])
<1>1. TokensOf(S \cup {r}) = A \cup B
  BY DEF TokensOf
<1>2. A \cap B = {}
  BY DEF TokensOf
<1>3. PICK c \in Nat : c = Tokens[r]
  BY EvaluationAssumption
<1>4. IsFiniteSet(B) /\ Cardinality(B) = c
  <2>1. IsFiniteSet(1..c) /\ Cardinality(1..c) = c
    BY FS_Interval
  <2>2. IsFiniteSet({r}) /\ Cardinality({r}) = 1
    BY FS_Singleton
  <2>3. PICK X, Y : X = {r} /\ Y = 1..c
    OBVIOUS
  <2>4. IsFiniteSet(X \X Y) /\ Cardinality(X \X Y) = Cardinality(X) * Cardinality(Y)
    BY <2>1, <2>2, <2>3, FS_Product
  <2> QED
    BY <1>3, <2>1, <2>2, <2>3, <2>4
<1>5. IsFiniteSet(A)
  OBVIOUS
<1> HIDE DEF A, B
<1>6. PICK a \in Nat : a = Cardinality(A)
  BY <1>5, FS_CardinalityType
<1>7. /\ IsFiniteSet(A \cup B)
      /\ Cardinality(A \cup B) = Cardinality(A) + Cardinality(B) - Cardinality(A \cap B)
  BY <1>4, <1>5, FS_Union
<1>8. Cardinality(A \cap B) = 0
  BY <1>2, FS_EmptySet
<1>9. Cardinality(A \cup B) = a + c
  BY <1>4, <1>6, <1>7, <1>8
<1> QED
  BY <1>1, <1>3, <1>6, <1>7, <1>9 DEF A

LEMMA NoTokens == IsFiniteSet(TokensOf({})) /\ Cardinality(TokensOf({})) = 0
<1>1. TokensOf({}) = {}
  BY DEF TokensOf
<1> QED
  BY <1>1, FS_EmptySet

\* The reports of the first k rows.
ReportsTo(rows, k) == {rows[i].report : i \in 1..k} \ {NoReport}

\* The loop of UsageOf: whether a report was seen, and the sum after each row.
Seen(rows, i) == rows[i].report \in {NoReport} \cup {rows[j].report : j \in 1..(i - 1)}
Uses(rows, g, n) ==
  g = [i \in 0..n |-> IF i = 0 THEN 0
                      ELSE IF Seen(rows, i) THEN g[i - 1]
                      ELSE g[i - 1] + Tokens[rows[i].report]]

LEMMA UsesExist ==
  ASSUME NEW rows, NEW n \in Nat, rows \in [1..n -> Rows]
  PROVE  \E g : Uses(rows, g, n)
<1> DEFINE f == [i \in 1..n |-> IF Seen(rows, i) THEN 0 ELSE Tokens[rows[i].report]]
<1>1. f \in [1..n -> Nat]
  <2> SUFFICES ASSUME NEW i \in 1..n, ~Seen(rows, i) PROVE Tokens[rows[i].report] \in Nat
    OBVIOUS
  <2>1. rows[i].report \in DOMAIN Tokens
    BY DEF Seen, Rows
  <2> QED
    BY <2>1, EvaluationAssumption
<1>2. \A i \in 1..n : f[i] = IF Seen(rows, i) THEN 0 ELSE Tokens[rows[i].report]
  OBVIOUS
<1> HIDE DEF f
<1>3. PICK g : Sums(f, g, n)
  BY <1>1, SumsExist
<1>4. \A i \in 0..n : g[i] = IF i = 0 THEN 0 ELSE g[i - 1] + f[i]
  BY <1>3 DEF Sums
<1> DEFINE Wrong == {k \in Nat : k <= n /\ g[k] \notin Nat}
<1>5. Wrong = {}
  <2>1. 0 \notin Wrong
    BY <1>4
  <2>2. ASSUME NEW k \in Nat, k + 1 \in Wrong PROVE k \in Wrong
    <3>1. k + 1 \in 0..n /\ k + 1 # 0 /\ (k + 1) - 1 = k /\ k + 1 \in 1..n
      BY <2>2
    <3>2. g[k + 1] = g[k] + f[k + 1] /\ f[k + 1] \in Nat
      BY <1>1, <1>4, <3>1
    <3> QED
      BY <2>2, <3>2
  <2>3. Wrong \in SUBSET Nat
    OBVIOUS
  <2> HIDE DEF Wrong
  <2> QED
    BY <2>1, <2>2, <2>3, NoFirst
<1>6. \A k \in 0..n : g[k] \in Nat
  BY <1>5
<1>7. ASSUME NEW i \in 0..n
      PROVE  g[i] = IF i = 0 THEN 0
                    ELSE IF Seen(rows, i) THEN g[i - 1]
                    ELSE g[i - 1] + Tokens[rows[i].report]
  <2>1. CASE i = 0
    BY <1>4, <2>1
  <2>2. CASE i # 0
    <3>1. i \in 1..n /\ i - 1 \in 0..n
      BY <2>2
    <3>2. g[i] = g[i - 1] + f[i] /\ g[i - 1] \in Nat
      BY <1>4, <1>6, <2>2, <3>1
    <3> QED
      BY <1>2, <2>2, <3>1, <3>2
  <2> QED
    BY <2>1, <2>2
<1>8. g = [i \in 0..n |-> g[i]]
  BY <1>3 DEF Sums
<1>9. Uses(rows, g, n)
  BY <1>7, <1>8 DEF Uses
<1> QED
  BY <1>9

\* What UsageOf comes to.
Used(rows) ==
  /\ Reports(rows) \in SUBSET DOMAIN Tokens /\ IsFiniteSet(TokensOf(Reports(rows)))
  /\ UsageOf(rows) \in Nat /\ UsageOf(rows) = Cardinality(TokensOf(Reports(rows)))

\* The sum over the rows counts the tokens of each report once.
LEMMA UsageCounts ==
  ASSUME NEW rows \in Seq(Rows)
  PROVE  Used(rows)
<1>1. PICK n \in Nat : n = Len(rows) /\ rows \in [1..n -> Rows] /\ DOMAIN rows = 1..n
  BY LenProperties
<1>2. UsageOf(rows) = (CHOOSE g : Uses(rows, g, n))[n]
  BY <1>1 DEF UsageOf, Uses, Seen
<1>3. PICK g : g = CHOOSE h : Uses(rows, h, n)
  OBVIOUS
<1>4. Uses(rows, g, n)
  BY <1>1, <1>3, UsesExist
<1>5. \A i \in 0..n : g[i] = IF i = 0 THEN 0
                             ELSE IF Seen(rows, i) THEN g[i - 1]
                             ELSE g[i - 1] + Tokens[rows[i].report]
  BY <1>4 DEF Uses
<1>6. \A i \in 1..n : rows[i].report \in DOMAIN Tokens \cup {NoReport}
  BY <1>1 DEF Rows
<1> DEFINE Right(k) == /\ IsFiniteSet(TokensOf(ReportsTo(rows, k)))
                       /\ g[k] \in Nat /\ g[k] = Cardinality(TokensOf(ReportsTo(rows, k)))
           Wrong == {k \in Nat : k <= n /\ ~Right(k)}
<1>7. Right(0)
  <2>1. ReportsTo(rows, 0) = {}
    BY DEF ReportsTo
  <2>2. g[0] = 0
    BY <1>5
  <2>3. IsFiniteSet(TokensOf(ReportsTo(rows, 0)))
    BY <2>1, NoTokens
  <2>4. g[0] = Cardinality(TokensOf(ReportsTo(rows, 0)))
    BY <2>1, <2>2, NoTokens
  <2> QED
    BY <2>2, <2>3, <2>4
<1>8. ASSUME NEW k \in Nat, k + 1 <= n, Right(k) PROVE Right(k + 1)
  <2>1. PICK r : r = rows[k + 1].report
    OBVIOUS
  <2>2. k + 1 \in 0..n /\ k + 1 # 0 /\ (k + 1) - 1 = k /\ k + 1 \in 1..n
    BY <1>8
  <2>3. Seen(rows, k + 1) <=> r \in {NoReport} \cup {rows[j].report : j \in 1..k}
    BY <2>1, <2>2 DEF Seen
  <2>4. ReportsTo(rows, k + 1) = (ReportsTo(rows, k) \cup {r}) \ {NoReport}
    <3>1. \A i \in 1..(k + 1) : i \in 1..k \/ i = k + 1
      OBVIOUS
    <3>2. \A i \in 1..k : i \in 1..(k + 1)
      OBVIOUS
    <3>3. k + 1 \in 1..(k + 1)
      OBVIOUS
    <3> QED
      BY <2>1, <3>1, <3>2, <3>3 DEF ReportsTo
  <2>5. CASE Seen(rows, k + 1)
    <3>1. ReportsTo(rows, k + 1) = ReportsTo(rows, k)
      BY <2>3, <2>4, <2>5 DEF ReportsTo
    <3>2. g[k + 1] = g[k]
      BY <1>5, <2>2, <2>5
    <3> QED
      BY <1>8, <3>1, <3>2
  <2>6. CASE ~Seen(rows, k + 1)
    <3>1. r # NoReport /\ r \notin ReportsTo(rows, k)
      BY <2>3, <2>6 DEF ReportsTo
    <3>2. r \in DOMAIN Tokens
      BY <1>6, <2>1, <2>2, <3>1
    <3>3. ReportsTo(rows, k + 1) = ReportsTo(rows, k) \cup {r}
      BY <2>4, <3>1 DEF ReportsTo
    <3>4. g[k + 1] = g[k] + Tokens[r]
      BY <1>5, <2>1, <2>2, <2>6
    <3>5. PICK S : S = ReportsTo(rows, k)
      OBVIOUS
    <3>6. IsFiniteSet(TokensOf(S)) /\ g[k] \in Nat /\ g[k] = Cardinality(TokensOf(S))
      BY <1>8, <3>5
    <3>7. /\ IsFiniteSet(TokensOf(S \cup {r}))
          /\ Cardinality(TokensOf(S \cup {r})) = Cardinality(TokensOf(S)) + Tokens[r]
      BY <3>1, <3>2, <3>5, <3>6, OneReportMore
    <3>8. Tokens[r] \in Nat
      BY <3>2, EvaluationAssumption
    <3>9. PICK T : T = ReportsTo(rows, k + 1)
      OBVIOUS
    <3>10. T = S \cup {r}
      BY <3>3, <3>5, <3>9
    <3>11. IsFiniteSet(TokensOf(T)) /\ g[k + 1] \in Nat /\ g[k + 1] = Cardinality(TokensOf(T))
      BY <3>4, <3>6, <3>7, <3>8, <3>10
    <3> QED
      BY <3>9, <3>11
  <2> QED
    BY <2>5, <2>6
<1>9. Wrong = {}
  <2>1. 0 \notin Wrong
    BY <1>7
  <2>2. ASSUME NEW k \in Nat, k + 1 \in Wrong PROVE k \in Wrong
    <3>1. k + 1 <= n /\ k <= n /\ ~Right(k + 1)
      BY <2>2
    <3> HIDE DEF Right
    <3>2. ~Right(k)
      BY <1>8, <3>1
    <3> QED
      BY <3>1, <3>2
  <2>3. Wrong \in SUBSET Nat
    OBVIOUS
  <2> HIDE DEF Wrong
  <2> QED
    BY <2>1, <2>2, <2>3, NoFirst
<1>10. n \notin Wrong
  BY <1>9
<1>11. Right(n)
  BY <1>10
<1>12. ReportsTo(rows, n) = Reports(rows)
  BY <1>1 DEF ReportsTo, Reports
<1>13. Reports(rows) \in SUBSET DOMAIN Tokens
  BY <1>1, <1>6 DEF Reports
<1>14. UsageOf(rows) = g[n]
  BY <1>2, <1>3
<1> QED
  BY <1>11, <1>12, <1>13, <1>14 DEF Used

\* What a backend answers is rows.
LEMMA AnswersAreRows ==
  ASSUME NEW d \in Decisions, NEW rows \in Answers(d)
  PROVE  rows \in Seq(Rows)
<1>1. Fields[d] + 1 \in Nat
  BY EvaluationAssumption
<1>2. \E m \in Nat : rows \in [1..m -> Rows]
  <2>1. CASE d \in Models
    <3>1. PICK m \in 0..(Fields[d] + 1) : rows \in [1..m -> Rows]
      BY <2>1 DEF Answers, SeqOf
    <3> QED
      BY <1>1, <3>1
  <2>2. CASE d \notin Models
    BY <2>2 DEF Answers
  <2> QED
    BY <2>1, <2>2
<1> QED
  BY <1>2, SeqDef

\* The tokens of the reports of calls, each call for itself.
Spent(cs) == UNION {{i} \X TokensOf(cs[i]) : i \in DOMAIN cs}

\* Reports of one call more.
Spends(cs, rs) ==
  LET more == Append(cs, rs)
  IN  /\ more \in Seq(SUBSET DOMAIN Tokens) /\ IsFiniteSet(Spent(more))
      /\ Cardinality(Spent(cs)) \in Nat
      /\ Cardinality(Spent(more)) = Cardinality(Spent(cs)) + Cardinality(TokensOf(rs))

LEMMA OneCallSpends ==
  ASSUME NEW cs \in Seq(SUBSET DOMAIN Tokens), IsFiniteSet(Spent(cs)),
         NEW rs \in SUBSET DOMAIN Tokens, IsFiniteSet(TokensOf(rs))
  PROVE  Spends(cs, rs)
<1>1. PICK n \in Nat : n = Len(cs)
  BY LenProperties
<1>2. PICK more : more = Append(cs, rs)
  OBVIOUS
<1>3. Lengthened(SUBSET DOMAIN Tokens, cs, rs, n, more)
  BY <1>1, <1>2, Lengthens
<1>4. /\ more \in Seq(SUBSET DOMAIN Tokens) /\ DOMAIN more = 1..(n + 1) /\ DOMAIN cs = 1..n
      /\ more[n + 1] = rs /\ \A i \in 1..n : more[i] = cs[i]
  BY <1>3 DEF Lengthened
<1> DEFINE A == Spent(cs)
           B == {n + 1} \X TokensOf(rs)
<1>5. Spent(more) = A \cup B
  <2>1. \A i \in 1..(n + 1) : i \in 1..n \/ i = n + 1
    OBVIOUS
  <2>2. \A i \in 1..n : i \in 1..(n + 1)
    OBVIOUS
  <2>3. n + 1 \in 1..(n + 1)
    OBVIOUS
  <2>4. Spent(more) \subseteq A \cup B
    <3> SUFFICES ASSUME NEW i \in 1..(n + 1), NEW x \in {i} \X TokensOf(more[i])
                 PROVE  x \in A \cup B
      BY <1>4 DEF Spent
    <3> QED
      BY <1>4, <2>1 DEF Spent
  <2>5. A \subseteq Spent(more)
    <3> SUFFICES ASSUME NEW i \in 1..n, NEW x \in {i} \X TokensOf(cs[i])
                 PROVE  x \in Spent(more)
      BY <1>4 DEF Spent
    <3> QED
      BY <1>4, <2>2 DEF Spent
  <2>6. B \subseteq Spent(more)
    BY <1>4, <2>3 DEF Spent
  <2> QED
    BY <2>4, <2>5, <2>6
<1>6. A \cap B = {}
  <2>1. n + 1 \notin 1..n
    OBVIOUS
  <2> QED
    BY <1>4, <2>1 DEF Spent
<1>7. IsFiniteSet(A) /\ Cardinality(A) \in Nat
  BY FS_CardinalityType
<1>8. PICK c \in Nat : c = Cardinality(TokensOf(rs))
  BY FS_CardinalityType
<1>9. IsFiniteSet(B) /\ Cardinality(B) = c
  <2>1. IsFiniteSet({n + 1}) /\ Cardinality({n + 1}) = 1
    BY FS_Singleton
  <2>2. IsFiniteSet({n + 1} \X TokensOf(rs))
        /\ Cardinality({n + 1} \X TokensOf(rs)) = 1 * Cardinality(TokensOf(rs))
    BY <1>8, <2>1, FS_Product
  <2> QED
    BY <1>8, <2>2
<1> HIDE DEF A, B
<1>10. /\ IsFiniteSet(A \cup B)
       /\ Cardinality(A \cup B) = Cardinality(A) + Cardinality(B) - Cardinality(A \cap B)
  BY <1>7, <1>9, FS_Union
<1>11. Cardinality(A \cap B) = 0
  BY <1>6, FS_EmptySet
<1>12. Cardinality(A \cup B) = Cardinality(A) + c
  BY <1>7, <1>9, <1>10, <1>11
<1> QED
  BY <1>2, <1>4, <1>5, <1>7, <1>8, <1>10, <1>12 DEF Spends, A

-----------------------------------------------------------------------------
\* What each evaluation holds between its steps.
Evaluating ==
  /\ stage \in [Evaluators -> {"idle", "predict", "record"}]
  /\ decision \in [Evaluators -> Decisions \cup {Unset}]
  /\ stopped \in [Evaluators -> BOOLEAN] /\ late \in [Evaluators -> BOOLEAN]
  /\ outcome \in [Evaluators -> CallOutcome \cup {Unset}]
  /\ usage \in [Evaluators -> Nat]
  /\ reports \in [Evaluators -> SUBSET DOMAIN Tokens]
  /\ \A e \in Evaluators :
       /\ stage[e] # "idle" => decision[e] \in Decisions
       /\ stage[e] = "record" => outcome[e] \in CallOutcome
       /\ stage[e] # "record" => reports[e] = {}
       /\ late[e] /\ stage[e] = "record" => outcome[e] = "error"
       /\ IsFiniteSet(TokensOf(reports[e]))
       /\ usage[e] = Cardinality(TokensOf(reports[e]))

\* The calls that may yet be recorded have room in the log.
Busy == {e \in Evaluators : stage[e] # "idle"}
Room == IsFiniteSet(Busy) /\ Len(log) + Cardinality(Busy) <= MaxCalls

\* The token counters are of the reports of the calls in the log.
Accounted ==
  /\ consumed \in Seq(SUBSET DOMAIN Tokens) /\ IsFiniteSet(Spent(consumed))
  /\ total.tokens = Cardinality(Spent(consumed))

EvaluationInv == DiagnosticsInv /\ Evaluating /\ Room /\ Accounted

\* record_call is called with what was concluded; the other steps leave Diagnostics alone.
Unrecorded == UNCHANGED <<diagnostics, consumed>>

LEMMA UnrecordedKeeps ==
  ASSUME DiagnosticsInv, Accounted, Unrecorded
  PROVE  DiagnosticsInv' /\ Accounted' /\ log' = log
<1>1. /\ log' = log /\ total' = total /\ decisions' = decisions /\ recent' = recent
      /\ dropped_decisions' = dropped_decisions /\ consumed' = consumed
  BY DEF Unrecorded, diagnostics
<1> QED
  BY <1>1 DEF DiagnosticsInv, Accounted

\* Room while the same evaluations, or fewer, are busy.
LEMMA RoomStays ==
  ASSUME Room, Len(log) \in Nat, log' = log, Busy' \in SUBSET Busy
  PROVE  Room'
<1>1. IsFiniteSet(Busy') /\ Cardinality(Busy') <= Cardinality(Busy)
  BY FS_Subset DEF Room
<1>2. Cardinality(Busy') \in Nat /\ Cardinality(Busy) \in Nat /\ MaxCalls \in Nat
  BY <1>1, FS_CardinalityType, DiagnosticsAssumption DEF Room
<1> QED
  BY <1>1, <1>2 DEF Room

\* The step of an evaluation to the recording of an outcome.
LEMMA ConcludeKeeps ==
  ASSUME Evaluating, NEW e \in Evaluators, NEW what \in CallOutcome, NEW tokens \in Nat,
         NEW rs \in SUBSET DOMAIN Tokens, IsFiniteSet(TokensOf(rs)),
         tokens = Cardinality(TokensOf(rs)), NEW l \in BOOLEAN, l => what = "error",
         Conclude(e, what, tokens), reports' = [reports EXCEPT ![e] = rs],
         late' = [late EXCEPT ![e] = l],
         decision' \in [Evaluators -> Decisions \cup {Unset}],
         \A f \in Evaluators : f # e => decision'[f] = decision[f],
         decision'[e] \in Decisions,
         stopped' \in [Evaluators -> BOOLEAN]
  PROVE  Evaluating' /\ Busy' = Busy \cup {e}
<1>1. /\ stage' = [stage EXCEPT ![e] = "record"] /\ outcome' = [outcome EXCEPT ![e] = what]
      /\ usage' = [usage EXCEPT ![e] = tokens]
  BY DEF Conclude
<1>2. /\ stage' \in [Evaluators -> {"idle", "predict", "record"}]
      /\ late' \in [Evaluators -> BOOLEAN]
      /\ outcome' \in [Evaluators -> CallOutcome \cup {Unset}]
      /\ usage' \in [Evaluators -> Nat]
      /\ reports' \in [Evaluators -> SUBSET DOMAIN Tokens]
  BY <1>1 DEF Evaluating
<1>3. ASSUME NEW f \in Evaluators, f # e
      PROVE  /\ stage'[f] = stage[f] /\ outcome'[f] = outcome[f] /\ usage'[f] = usage[f]
             /\ reports'[f] = reports[f] /\ late'[f] = late[f] /\ decision'[f] = decision[f]
  BY <1>1, <1>3 DEF Evaluating
<1>4. /\ stage'[e] = "record" /\ outcome'[e] = what /\ usage'[e] = tokens
      /\ reports'[e] = rs /\ late'[e] = l
  BY <1>1 DEF Evaluating
<1>5. ASSUME NEW f \in Evaluators
      PROVE  /\ stage'[f] # "idle" => decision'[f] \in Decisions
             /\ stage'[f] = "record" => outcome'[f] \in CallOutcome
             /\ stage'[f] # "record" => reports'[f] = {}
             /\ late'[f] /\ stage'[f] = "record" => outcome'[f] = "error"
             /\ IsFiniteSet(TokensOf(reports'[f]))
             /\ usage'[f] = Cardinality(TokensOf(reports'[f]))
  <2>1. CASE f = e
    BY <1>4, <2>1
  <2>2. CASE f # e
    BY <1>3, <2>2 DEF Evaluating
  <2> QED
    BY <2>1, <2>2
<1>6. Busy' = Busy \cup {e}
  BY <1>3, <1>4 DEF Busy
<1> QED
  BY <1>2, <1>5, <1>6 DEF Evaluating

\* The end of an evaluation.
LEMMA LeaveKeeps ==
  ASSUME Evaluating, NEW e \in Evaluators, Leave(e)
  PROVE  Evaluating' /\ Busy' = Busy \ {e}
<1>1. /\ stage' = [stage EXCEPT ![e] = "idle"] /\ decision' = [decision EXCEPT ![e] = Unset]
      /\ stopped' = [stopped EXCEPT ![e] = FALSE]
      /\ outcome' = [outcome EXCEPT ![e] = Unset] /\ usage' = [usage EXCEPT ![e] = 0]
      /\ reports' = [reports EXCEPT ![e] = {}] /\ late' = [late EXCEPT ![e] = FALSE]
  BY DEF Leave
<1>2. /\ stage' \in [Evaluators -> {"idle", "predict", "record"}]
      /\ decision' \in [Evaluators -> Decisions \cup {Unset}]
      /\ stopped' \in [Evaluators -> BOOLEAN] /\ late' \in [Evaluators -> BOOLEAN]
      /\ outcome' \in [Evaluators -> CallOutcome \cup {Unset}]
      /\ usage' \in [Evaluators -> Nat]
      /\ reports' \in [Evaluators -> SUBSET DOMAIN Tokens]
  BY <1>1 DEF Evaluating
<1>3. ASSUME NEW f \in Evaluators, f # e
      PROVE  /\ stage'[f] = stage[f] /\ outcome'[f] = outcome[f] /\ usage'[f] = usage[f]
             /\ reports'[f] = reports[f] /\ late'[f] = late[f] /\ decision'[f] = decision[f]
  BY <1>1, <1>3 DEF Evaluating
<1>4. stage'[e] = "idle" /\ usage'[e] = 0 /\ reports'[e] = {}
  BY <1>1 DEF Evaluating
<1>5. ASSUME NEW f \in Evaluators
      PROVE  /\ stage'[f] # "idle" => decision'[f] \in Decisions
             /\ stage'[f] = "record" => outcome'[f] \in CallOutcome
             /\ stage'[f] # "record" => reports'[f] = {}
             /\ late'[f] /\ stage'[f] = "record" => outcome'[f] = "error"
             /\ IsFiniteSet(TokensOf(reports'[f]))
             /\ usage'[f] = Cardinality(TokensOf(reports'[f]))
  <2>1. CASE f = e
    BY <1>4, <2>1, NoTokens
  <2>2. CASE f # e
    BY <1>3, <2>2 DEF Evaluating
  <2> QED
    BY <2>1, <2>2
<1>6. Busy' = Busy \ {e}
  BY <1>3, <1>4 DEF Busy
<1> QED
  BY <1>2, <1>5, <1>6 DEF Evaluating

-----------------------------------------------------------------------------
(* One lemma for each action. *)

\* An evaluation begins: the guard of Call has left it room in the log.
LEMMA RoomForOne ==
  ASSUME Room, Len(log) \in Nat, log' = log, NEW e, e \notin Busy,
         Len(log) + Cardinality(Busy) < MaxCalls, Busy' = Busy \cup {e}
  PROVE  Room'
<1>1. IsFiniteSet(Busy \cup {e}) /\ Cardinality(Busy \cup {e}) = Cardinality(Busy) + 1
  BY FS_AddElement DEF Room
<1>2. Cardinality(Busy) \in Nat /\ MaxCalls \in Nat
  BY FS_CardinalityType, DiagnosticsAssumption DEF Room
<1>3. IsFiniteSet(Busy') /\ Cardinality(Busy') = Cardinality(Busy) + 1
  BY <1>1
<1>4. Len(log) + Cardinality(Busy') <= MaxCalls
  BY <1>2, <1>3
<1> QED
  BY <1>3, <1>4 DEF Room

LEMMA LogIsLong == DiagnosticsInv => Len(log) \in Nat
  BY LenProperties DEF DiagnosticsInv

LEMMA InitEvaluation == EvaluationInit => EvaluationInv
<1> SUFFICES ASSUME EvaluationInit PROVE EvaluationInv
  OBVIOUS
<1> USE DEF EvaluationInit
<1>1. /\ total = NoCalls /\ decisions = <<>> /\ recent = <<>> /\ dropped_decisions = 0
      /\ log = <<>>
  BY DEF DiagnosticsInit
<1>2. DiagnosticsInv
  BY <1>1, NothingRecorded DEF DiagnosticsInv
<1>3. Evaluating
  BY NoTokens DEF Evaluating
<1>4. Room
  <2>1. Busy = {}
    BY DEF Busy
  <2>2. IsFiniteSet(Busy) /\ Cardinality(Busy) = 0
    BY <2>1, FS_EmptySet
  <2> QED
    BY <1>1, <2>2, NothingRecorded, DiagnosticsAssumption DEF Room
<1>5. Accounted
  <2>1. Spent(<<>>) = {} /\ <<>> \in Seq(SUBSET DOMAIN Tokens)
    BY DEF Spent
  <2>2. IsFiniteSet(Spent(<<>>)) /\ Cardinality(Spent(<<>>)) = 0
    BY <2>1, FS_EmptySet
  <2>3. total.tokens = 0
    BY <1>1 DEF NoCalls
  <2> QED
    BY <2>1, <2>2, <2>3 DEF Accounted
<1> QED
  BY <1>2, <1>3, <1>4, <1>5 DEF EvaluationInv

LEMMA CallEvaluation ==
  ASSUME EvaluationInv, NEW e \in Evaluators, NEW d \in Decisions, Call(e, d)
  PROVE  EvaluationInv'
<1>1. DiagnosticsInv /\ Evaluating /\ Room /\ Accounted
  BY DEF EvaluationInv
<1>2. /\ stage[e] = "idle" /\ Len(log) + Cardinality(Busy) < MaxCalls
      /\ decision' = [decision EXCEPT ![e] = d]
      /\ reports' = reports /\ late' = late /\ Unrecorded
  BY DEF Call, Busy, Unrecorded
<1>3. PICK s \in BOOLEAN :
        /\ stopped' = [stopped EXCEPT ![e] = s]
        /\ IF s THEN Conclude(e, "error", 0)
           ELSE stage' = [stage EXCEPT ![e] = "predict"] /\ UNCHANGED <<outcome, usage>>
  BY DEF Call
<1>4. /\ decision' \in [Evaluators -> Decisions \cup {Unset}] /\ decision'[e] = d
      /\ \A f \in Evaluators : f # e => decision'[f] = decision[f]
      /\ stopped' \in [Evaluators -> BOOLEAN]
  BY <1>1, <1>2, <1>3 DEF Evaluating
<1>5. reports[e] = {} /\ e \notin Busy
  BY <1>1, <1>2 DEF Evaluating, Busy
<1>6. Evaluating' /\ Busy' = Busy \cup {e}
  <2>1. CASE s
    <3>1. /\ reports' = [reports EXCEPT ![e] = {}] /\ late' = [late EXCEPT ![e] = late[e]]
          /\ late[e] \in BOOLEAN
      BY <1>1, <1>2, <1>5 DEF Evaluating
    <3>2. Conclude(e, "error", 0) /\ "error" \in CallOutcome /\ 0 \in Nat
      BY <1>3, <2>1 DEF CallOutcome
    <3>3. /\ {} \in SUBSET DOMAIN Tokens /\ IsFiniteSet(TokensOf({}))
          /\ 0 = Cardinality(TokensOf({}))
      BY NoTokens
    <3> QED
      BY <1>1, <1>4, <3>1, <3>2, <3>3, ConcludeKeeps
  <2>2. CASE ~s
    <3>1. /\ stage' = [stage EXCEPT ![e] = "predict"] /\ outcome' = outcome
          /\ usage' = usage
      BY <1>3, <2>2
    <3>2. /\ stage' \in [Evaluators -> {"idle", "predict", "record"}]
          /\ stage'[e] = "predict" /\ \A f \in Evaluators : f # e => stage'[f] = stage[f]
      BY <1>1, <3>1 DEF Evaluating
    <3>3. ASSUME NEW f \in Evaluators
          PROVE  /\ stage'[f] # "idle" => decision'[f] \in Decisions
                 /\ stage'[f] = "record" => outcome'[f] \in CallOutcome
                 /\ stage'[f] # "record" => reports'[f] = {}
                 /\ late'[f] /\ stage'[f] = "record" => outcome'[f] = "error"
                 /\ IsFiniteSet(TokensOf(reports'[f]))
                 /\ usage'[f] = Cardinality(TokensOf(reports'[f]))
      <4>1. CASE f = e
        BY <1>1, <1>2, <1>4, <1>5, <3>1, <3>2, <4>1 DEF Evaluating
      <4>2. CASE f # e
        BY <1>1, <1>2, <1>4, <3>1, <3>2, <4>2 DEF Evaluating
      <4> QED
        BY <4>1, <4>2
    <3>4. Evaluating'
      BY <1>1, <1>2, <1>4, <3>1, <3>2, <3>3 DEF Evaluating
    <3>5. Busy' = Busy \cup {e}
      BY <3>2 DEF Busy
    <3> QED
      BY <3>4, <3>5
  <2> QED
    BY <2>1, <2>2
<1>7. DiagnosticsInv' /\ Accounted' /\ log' = log
  BY <1>1, <1>2, UnrecordedKeeps
<1>8. Room'
  BY <1>1, <1>2, <1>5, <1>6, <1>7, LogIsLong, RoomForOne
<1> QED
  BY <1>6, <1>7, <1>8 DEF EvaluationInv

LEMMA StopEvaluation ==
  ASSUME EvaluationInv, NEW e \in Evaluators, Stop(e)
  PROVE  EvaluationInv'
<1>1. DiagnosticsInv /\ Evaluating /\ Room /\ Accounted
  BY DEF EvaluationInv
<1>2. /\ stopped' = [stopped EXCEPT ![e] = TRUE] /\ Unrecorded
      /\ stage' = stage /\ decision' = decision /\ outcome' = outcome /\ usage' = usage
      /\ reports' = reports /\ late' = late
  BY DEF Stop, Unrecorded
<1>3. stopped' \in [Evaluators -> BOOLEAN]
  BY <1>1, <1>2 DEF Evaluating
<1>4. Evaluating' /\ Busy' = Busy
  BY <1>1, <1>2, <1>3 DEF Evaluating, Busy
<1>5. DiagnosticsInv' /\ Accounted' /\ log' = log
  BY <1>1, <1>2, UnrecordedKeeps
<1>6. Room'
  BY <1>1, <1>4, <1>5 DEF Room
<1> QED
  BY <1>4, <1>5, <1>6 DEF EvaluationInv

LEMMA RowsEvaluation ==
  ASSUME EvaluationInv, NEW e \in Evaluators, PredictRows(e)
  PROVE  EvaluationInv'
<1>1. DiagnosticsInv /\ Evaluating /\ Room /\ Accounted
  BY DEF EvaluationInv
<1>2. /\ stage[e] = "predict" /\ late' = [late EXCEPT ![e] = stopped[e]]
      /\ decision' = decision /\ stopped' = stopped /\ Unrecorded
  BY DEF PredictRows, Unrecorded
<1>3. PICK rows \in Answers(decision[e]), now \in {stopped[e], TRUE} :
        /\ Conclude(e, OutcomeOf(decision[e], now, rows), UsageOf(rows))
        /\ reports' = [reports EXCEPT ![e] = Reports(rows)]
  BY DEF PredictRows
<1>4. decision[e] \in Decisions /\ stopped[e] \in BOOLEAN /\ e \in Busy
  BY <1>1, <1>2 DEF Evaluating, Busy
<1>5. Used(rows)
  BY <1>3, <1>4, AnswersAreRows, UsageCounts
<1> DEFINE what == OutcomeOf(decision[e], now, rows)
           rs == Reports(rows)
           tokens == UsageOf(rows)
           l == stopped[e]
<1>6. what \in CallOutcome /\ (l => what = "error")
  BY <1>4 DEF OutcomeOf, CallOutcome
<1>7. l \in BOOLEAN /\ late' = [late EXCEPT ![e] = l]
  BY <1>2, <1>4
<1>8. /\ rs \in SUBSET DOMAIN Tokens /\ IsFiniteSet(TokensOf(rs))
      /\ tokens \in Nat /\ tokens = Cardinality(TokensOf(rs))
  BY <1>5 DEF Used
<1>9. Conclude(e, what, tokens) /\ reports' = [reports EXCEPT ![e] = rs]
  BY <1>3
<1> HIDE DEF what, rs, tokens, l
<1>10. /\ decision' \in [Evaluators -> Decisions \cup {Unset}] /\ decision'[e] \in Decisions
       /\ \A f \in Evaluators : f # e => decision'[f] = decision[f]
       /\ stopped' \in [Evaluators -> BOOLEAN]
  BY <1>1, <1>2, <1>4 DEF Evaluating
<1>11. Evaluating' /\ Busy' = Busy \cup {e}
  BY <1>1, <1>6, <1>7, <1>8, <1>9, <1>10, ConcludeKeeps
<1>12. DiagnosticsInv' /\ Accounted' /\ log' = log
  BY <1>1, <1>2, UnrecordedKeeps
<1>13. Room'
  BY <1>1, <1>4, <1>11, <1>12, LogIsLong, RoomStays
<1> QED
  BY <1>11, <1>12, <1>13 DEF EvaluationInv

LEMMA FailsEvaluation ==
  ASSUME EvaluationInv, NEW e \in Evaluators, PredictFails(e)
  PROVE  EvaluationInv'
<1>1. DiagnosticsInv /\ Evaluating /\ Room /\ Accounted
  BY DEF EvaluationInv
<1>2. /\ stage[e] = "predict" /\ late' = [late EXCEPT ![e] = stopped[e]]
      /\ Conclude(e, "error", 0) /\ reports' = reports
      /\ decision' = decision /\ stopped' = stopped /\ Unrecorded
  BY DEF PredictFails, Unrecorded
<1>3. decision[e] \in Decisions /\ stopped[e] \in BOOLEAN /\ e \in Busy /\ reports[e] = {}
  BY <1>1, <1>2 DEF Evaluating, Busy
<1>4. reports' = [reports EXCEPT ![e] = {}]
  BY <1>1, <1>2, <1>3 DEF Evaluating
<1>5. /\ "error" \in CallOutcome /\ 0 \in Nat /\ {} \in SUBSET DOMAIN Tokens
      /\ IsFiniteSet(TokensOf({})) /\ 0 = Cardinality(TokensOf({}))
  BY NoTokens DEF CallOutcome
<1>6. /\ decision' \in [Evaluators -> Decisions \cup {Unset}] /\ decision'[e] \in Decisions
      /\ \A f \in Evaluators : f # e => decision'[f] = decision[f]
      /\ stopped' \in [Evaluators -> BOOLEAN]
  BY <1>1, <1>2, <1>3 DEF Evaluating
<1>7. Evaluating' /\ Busy' = Busy \cup {e}
  BY <1>1, <1>2, <1>3, <1>4, <1>5, <1>6, ConcludeKeeps
<1>8. DiagnosticsInv' /\ Accounted' /\ log' = log
  BY <1>1, <1>2, UnrecordedKeeps
<1>9. Room'
  BY <1>1, <1>3, <1>7, <1>8, LogIsLong, RoomStays
<1> QED
  BY <1>7, <1>8, <1>9 DEF EvaluationInv

LEMMA ThrowsEvaluation ==
  ASSUME EvaluationInv, NEW e \in Evaluators, PredictThrows(e)
  PROVE  EvaluationInv'
<1>1. DiagnosticsInv /\ Evaluating /\ Room /\ Accounted
  BY DEF EvaluationInv
<1>2. Leave(e) /\ Unrecorded
  BY DEF PredictThrows, Unrecorded
<1>3. Evaluating' /\ Busy' = Busy \ {e}
  BY <1>1, <1>2, LeaveKeeps
<1>4. DiagnosticsInv' /\ Accounted' /\ log' = log
  BY <1>1, <1>2, UnrecordedKeeps
<1>5. Room'
  BY <1>1, <1>3, <1>4, LogIsLong, RoomStays
<1> QED
  BY <1>3, <1>4, <1>5 DEF EvaluationInv

\* Its call takes the place in the log that was kept for it.
LEMMA FinishEvaluation ==
  ASSUME EvaluationInv, NEW e \in Evaluators, Finish(e)
  PROVE  EvaluationInv'
<1>1. DiagnosticsInv /\ Evaluating /\ Room /\ Accounted
  BY DEF EvaluationInv
<1>2. stage[e] = "record" /\ Leave(e) /\ consumed' = Append(consumed, reports[e])
  BY DEF Finish
<1>3. PICK l \in Latencies, reach \in {"total", "decision", "all"} :
        Record(decision[e], outcome[e], l, usage[e], reach)
  BY DEF Finish
<1>4. PICK d \in Decisions, o \in CallOutcome, tokens \in Nat, rs \in SUBSET DOMAIN Tokens :
        /\ d = decision[e] /\ o = outcome[e] /\ tokens = usage[e] /\ rs = reports[e]
        /\ IsFiniteSet(TokensOf(rs)) /\ tokens = Cardinality(TokensOf(rs))
  BY <1>1, <1>2 DEF Evaluating
<1>5. l \in Int
  BY DiagnosticsAssumption
<1>6. /\ DiagnosticsInv' /\ Len(log) \in Nat /\ Len(log') = Len(log) + 1
      /\ total.tokens \in Nat /\ total'.tokens = total.tokens + tokens
  BY <1>1, <1>3, <1>4, <1>5, Recording
<1>7. Evaluating' /\ Busy' = Busy \ {e}
  BY <1>1, <1>2, LeaveKeeps
<1>8. Room'
  <2>1. e \in Busy
    BY <1>2 DEF Busy
  <2>2. /\ IsFiniteSet(Busy \ {e}) /\ Cardinality(Busy \ {e}) = Cardinality(Busy) - 1
        /\ Cardinality(Busy) \in Nat
    BY <1>1, <2>1, FS_RemoveElement, FS_CardinalityType DEF Room
  <2>3. IsFiniteSet(Busy') /\ Cardinality(Busy') = Cardinality(Busy) - 1
    BY <1>7, <2>2
  <2>4. Len(log) + Cardinality(Busy) <= MaxCalls /\ MaxCalls \in Nat
    BY <1>1, DiagnosticsAssumption DEF Room
  <2>5. Len(log') + Cardinality(Busy') <= MaxCalls
    BY <1>6, <2>2, <2>3, <2>4
  <2> QED
    BY <2>3, <2>5 DEF Room
<1>9. Accounted'
  <2>1. PICK cs \in Seq(SUBSET DOMAIN Tokens) :
          cs = consumed /\ IsFiniteSet(Spent(cs)) /\ total.tokens = Cardinality(Spent(cs))
    BY <1>1 DEF Accounted
  <2>2. Spends(cs, rs)
    BY <1>4, <2>1, OneCallSpends
  <2>3. PICK more : more = Append(cs, rs)
    OBVIOUS
  <2>4. /\ more \in Seq(SUBSET DOMAIN Tokens) /\ IsFiniteSet(Spent(more))
        /\ Cardinality(Spent(more)) = Cardinality(Spent(cs)) + Cardinality(TokensOf(rs))
    BY <2>2, <2>3 DEF Spends
  <2>5. consumed' = more
    BY <1>2, <1>4, <2>1, <2>3
  <2>6. total'.tokens = Cardinality(Spent(more))
    BY <1>4, <1>6, <2>1, <2>4
  <2> QED
    BY <2>4, <2>5, <2>6 DEF Accounted
<1> QED
  BY <1>6, <1>7, <1>8, <1>9 DEF EvaluationInv

LEMMA ClearEvaluation ==
  ASSUME EvaluationInv, Clear
  PROVE  EvaluationInv'
<1>1. DiagnosticsInv /\ Evaluating /\ Room /\ Accounted
  BY DEF EvaluationInv
<1>2. /\ total' = NoCalls /\ decisions' = <<>> /\ recent' = <<>> /\ dropped_decisions' = 0
      /\ log' = <<>> /\ consumed' = <<>>
      /\ stage' = stage /\ decision' = decision /\ stopped' = stopped
      /\ outcome' = outcome /\ usage' = usage /\ reports' = reports /\ late' = late
  BY DEF Clear, Reset, evaluations
<1>3. DiagnosticsInv'
  BY <1>2, NothingRecorded DEF DiagnosticsInv
<1>4. Evaluating' /\ Busy' = Busy
  BY <1>1, <1>2 DEF Evaluating, Busy
<1>5. Room'
  <2>1. Len(log) \in Nat /\ Cardinality(Busy) \in Nat /\ MaxCalls \in Nat
    BY <1>1, LogIsLong, FS_CardinalityType, DiagnosticsAssumption DEF Room
  <2>2. Len(log') = 0
    BY <1>2, NothingRecorded
  <2>3. Len(log') + Cardinality(Busy) <= MaxCalls
    BY <1>1, <2>1, <2>2 DEF Room
  <2> QED
    BY <1>1, <1>4, <2>3 DEF Room
<1>6. Accounted'
  <2>1. Spent(<<>>) = {} /\ <<>> \in Seq(SUBSET DOMAIN Tokens)
    BY DEF Spent
  <2>2. IsFiniteSet(Spent(<<>>)) /\ Cardinality(Spent(<<>>)) = 0
    BY <2>1, FS_EmptySet
  <2>3. total'.tokens = 0
    BY <1>2 DEF NoCalls
  <2> QED
    BY <1>2, <2>1, <2>2, <2>3 DEF Accounted
<1> QED
  BY <1>3, <1>4, <1>5, <1>6 DEF EvaluationInv

LEMMA NextEvaluation ==
  ASSUME EvaluationInv, [EvaluationNext]_evaluation_vars
  PROVE  EvaluationInv'
<1>1. CASE Clear
  BY <1>1, ClearEvaluation
<1>2. ASSUME NEW e \in Evaluators, NEW d \in Decisions, Call(e, d) PROVE EvaluationInv'
  BY <1>2, CallEvaluation
<1>3. ASSUME NEW e \in Evaluators, Stop(e) PROVE EvaluationInv'
  BY <1>3, StopEvaluation
<1>4. ASSUME NEW e \in Evaluators, PredictRows(e) PROVE EvaluationInv'
  BY <1>4, RowsEvaluation
<1>5. ASSUME NEW e \in Evaluators, PredictFails(e) PROVE EvaluationInv'
  BY <1>5, FailsEvaluation
<1>6. ASSUME NEW e \in Evaluators, PredictThrows(e) PROVE EvaluationInv'
  BY <1>6, ThrowsEvaluation
<1>7. ASSUME NEW e \in Evaluators, Finish(e) PROVE EvaluationInv'
  BY <1>7, FinishEvaluation
<1>8. CASE UNCHANGED evaluation_vars
  <2>1. /\ Unrecorded /\ stage' = stage /\ decision' = decision /\ stopped' = stopped
        /\ outcome' = outcome /\ usage' = usage /\ reports' = reports /\ late' = late
    BY <1>8 DEF evaluation_vars, evaluations, Unrecorded
  <2>2. DiagnosticsInv /\ Evaluating /\ Room /\ Accounted
    BY DEF EvaluationInv
  <2>3. DiagnosticsInv' /\ Accounted' /\ log' = log
    BY <2>1, <2>2, UnrecordedKeeps
  <2>4. Evaluating' /\ Busy' = Busy
    BY <2>1, <2>2 DEF Evaluating, Busy
  <2>5. Room'
    BY <2>2, <2>3, <2>4 DEF Room
  <2> QED
    BY <2>3, <2>4, <2>5 DEF EvaluationInv
<1> QED
  BY <1>1, <1>2, <1>3, <1>4, <1>5, <1>6, <1>7, <1>8 DEF EvaluationNext

\* In every state of the evaluations.
LEMMA AlwaysEvaluation == EvaluationSpec => []EvaluationInv
<1>1. EvaluationInv /\ [EvaluationNext]_evaluation_vars => EvaluationInv'
  BY NextEvaluation
<1> QED
  BY <1>1, InitEvaluation, PTL DEF EvaluationSpec

LEMMA TokensCountedOnce == EvaluationInv => UsageOnce
<1> SUFFICES ASSUME EvaluationInv PROVE UsageOnce
  OBVIOUS
<1>1. DiagnosticsInv /\ Evaluating /\ Room /\ Accounted
  BY DEF EvaluationInv
<1>2. DOMAIN decisions \subseteq Decisions /\ dropped_decisions \in Nat
  BY <1>1 DEF DiagnosticsInv, Counted
<1>3. Len(recent) <= RecentCapacity
  BY <1>1 DEF DiagnosticsInv, Ring
<1>4. Len(log) <= MaxCalls
  <2>1. Len(log) \in Nat /\ Cardinality(Busy) \in Nat /\ MaxCalls \in Nat
    BY <1>1, LogIsLong, FS_CardinalityType, DiagnosticsAssumption DEF Room
  <2> QED
    BY <1>1, <2>1 DEF Room
<1>5. EvaluationTypeOK
  BY <1>1, <1>2, <1>3, <1>4 DEF EvaluationTypeOK, Evaluating
<1>6. total.tokens = Cardinality(UNION {{i} \X TokensOf(consumed[i]) : i \in DOMAIN consumed})
  BY <1>1 DEF Accounted, Spent
<1>7. \A e \in Evaluators : late[e] /\ stage[e] = "record" => outcome[e] = "error"
  BY <1>1 DEF Evaluating
<1> QED
  BY <1>5, <1>6, <1>7 DEF UsageOnce

\* What an operator reads of a Diagnostics is of the same calls, whatever evaluators,
\* resets and failing allocations did: the counters of the calls of this window, in total
\* and of each decision, percentiles that never understate and never descend, the export,
\* and of the calls due the newest (docs/OBSERVABILITY.md).
THEOREM StatsAreTrue == EvaluationSpec => []StatsTrue
<1>1. EvaluationInv => StatsTrue
  BY DiagnosticsRead DEF EvaluationInv
<1> QED
  BY <1>1, AlwaysEvaluation, PTL

\* The token counters hold each report of an evaluation once, however many of its rows
\* point to it, and an evaluation that was stopped before its backend came back is an
\* error (core.hpp, execution_error in runtime.hpp).
THEOREM UsageIsCountedOnce == EvaluationSpec => []UsageOnce
  BY AlwaysEvaluation, TokensCountedOnce, PTL
=============================================================================
