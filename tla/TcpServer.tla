------------------------------ MODULE TcpServer ------------------------------
(***************************************************************************)
(* mini/net/TcpServer.cc with its Acceptor and its EventLoopThreadPool:    *)
(* the base loop accepts connections, hands each to a worker loop (or      *)
(* keeps it, when the pool is empty), keeps them in a map, and stops by    *)
(* force, by draining, or by destruction, which ends with joining the      *)
(* workers.                                                                *)
(*                                                                         *)
(* A loop is its queue of functors (module EventLoop) and a connection     *)
(* is what TcpConnection shows of it: it closes once, notifies the         *)
(* application and then its close callback.  The code of the base thread   *)
(* consists of operators on the record net, composed as the code calls     *)
(* them; what it runs inline on its own loop happens at once.              *)
(***************************************************************************)
EXTENDS Naturals, Sequences, FiniteSets, SequencesExt

CONSTANTS
  Conns,          \* connections that clients try to open
  Base, Workers,  \* the loops
  Pools,          \* sequences of workers: the values of setThreadNum that are used
  None,
  MaxGeneration   \* bound: idle timers armed or canceled for one connection

Loops == {Base} \cup Workers

ASSUME ServerAssumption ==
  /\ Base \notin Workers /\ None \notin Conns /\ MaxGeneration \in Nat
  /\ Pools \subseteq UNION {[1..n -> Workers] : n \in 0..Cardinality(Workers)}

VARIABLES
  net,      \* the server, its pool, its connections and the loops' queues: see TypeOK
  pc,       \* the base thread.  idle: in its loop.   accept: in Acceptor::handleRead.
            \* join: in EventLoopThreadPool::stop
  resume,   \* where it continues after the join
  mode,     \* each worker.  off, run, drain: it saw quit_ and runs what is queued, gone
  closing   \* for each loop, the connection whose disconnect callback is running on it

vars == <<net, pc, resume, mode, closing>>

Idle == [state |-> "none", loop |-> Base, closeCallback |-> FALSE, destroyed |-> 0,
         handshaking |-> FALSE, idle |-> {}, timerId |-> 0, generation |-> 0]

TypeOK ==
  /\ DOMAIN net.conn = Conns
  /\ \A c \in Conns : LET k == net.conn[c] IN
       /\ k.state \in {"none", "arrived", "rejected", "kConnecting", "kConnected", "kDisconnecting", "kDisconnected"}
       /\ k.loop \in Loops /\ {k.closeCallback, k.handshaking} \subseteq BOOLEAN /\ k.destroyed \in Nat
       /\ k.idle \subseteq 1..(MaxGeneration + 3) /\ k.timerId \in k.idle \cup {0}
  /\ net.connections \subseteq Conns
  /\ {net.tls, net.started, net.stopped, net.draining, net.alive, net.listening, net.accepts,
      net.drainTimer, net.misused} \subseteq BOOLEAN
  /\ net.pool \in {"Stopped", "Running", "Stopping"} /\ net.threads \in Pools
  /\ net.loops \in {<<>>, net.threads} /\ net.next \in 0..Len(net.loops) /\ (net.loops # <<>> => net.next < Len(net.loops))
  /\ net.quit \subseteq Workers
  /\ pc \in {"idle", "accept", "join"} /\ resume \in {"idle", "accept"}
  /\ mode \in [Workers -> {"off", "run", "drain", "gone"}]
  /\ closing \in [Loops -> Conns \cup {None}]

Init ==
  /\ \E p \in Pools, tls \in BOOLEAN : net =
       [tls |-> tls, started |-> FALSE, stopped |-> FALSE, draining |-> FALSE, alive |-> TRUE,
        listening |-> FALSE, accepts |-> TRUE, connections |-> {}, drainTimer |-> FALSE,
        misused |-> FALSE, threads |-> p, pool |-> "Stopped", loops |-> <<>>, next |-> 0, quit |-> {},
        conn |-> [c \in Conns |-> Idle], queue |-> [l \in Loops |-> <<>>]]
  /\ pc = "idle" /\ resume = "idle"
  /\ mode = [w \in Workers |-> "off"]
  /\ closing = [l \in Loops |-> None]

Functor(op, c) == [op |-> op, conn |-> c]
Post(n, l, f) == [n EXCEPT !.queue[l] = Append(@, f)]

-----------------------------------------------------------------------------
(* The idle timer of a connection, on the connection's loop *)

\* A cancelIdleTimer that only invalidates the generation.
CancelIdleTimerLazy(k) == [k EXCEPT !.generation = @ + 1, !.timerId = 0]

CancelIdleTimer(k) ==
  [k EXCEPT !.generation = @ + 1, !.idle = @ \ {k.timerId}, !.timerId = 0]

RefreshIdleTimer(k) ==
  LET canceled == CancelIdleTimer(k)
  IN  [canceled EXCEPT !.timerId = canceled.generation, !.idle = @ \cup {canceled.generation}]

-----------------------------------------------------------------------------
(* The connection as the server uses it *)

\* The connection callback of newConnection
ConnectionCallback(k) == IF k.state = "kConnected" THEN RefreshIdleTimer(k) ELSE CancelIdleTimer(k)

\* connectEstablished; with a TLS context the connection callback waits for the handshake.
Establish(k, tls) ==
  LET open == [k EXCEPT !.state = "kConnected", !.handshaking = tls]
  IN  IF tls THEN open ELSE ConnectionCallback(open)

\* handleClose up to the connection callback
CloseConnection(k) ==
  IF k.state \in {"kConnected", "kDisconnecting"}
  THEN ConnectionCallback([k EXCEPT !.state = "kDisconnected", !.handshaking = FALSE]) ELSE k

ConnectDestroyed(k) ==
  [(IF k.state = "kConnected" THEN CloseConnection(k) ELSE k) EXCEPT !.destroyed = @ + 1]

\* The functors the server posts to let go of a connection: in removeConnectionInLoop,
\* in forceCloseAllConnections, in the destructor.
Teardown(k, op) ==
  LET detached == [k EXCEPT !.closeCallback = @ /\ op = "remove"]
  IN  ConnectDestroyed(IF op = "stop" THEN CloseConnection(detached) ELSE detached)

\* What the functors of the server do to their connection.
Serve(k, op) ==
  IF op \in {"establish", "startTls"} THEN Establish(k, op = "startTls") ELSE Teardown(k, op)

RunInLoop(n, op, c) ==
  IF n.conn[c].loop # Base THEN Post(n, n.conn[c].loop, Functor(op, c))
  ELSE [n EXCEPT !.conn[c] = Serve(@, op)]

\* The for loop over the connections that were moved out of the map.
\* order is the order in which the unordered map is walked.
LetGo(n, op, order) ==
  LET Step(m, c) == RunInLoop(m, op, c)
  IN  FoldLeft(Step, [n EXCEPT !.connections = {}], order)
Orders == SetToSeqs(net.connections)

\* Code that uses a member of the server.
Touch(n) == [n EXCEPT !.misused = @ \/ ~n.alive]

-----------------------------------------------------------------------------
(* Acceptor and EventLoopThreadPool *)

AcceptorStop(n) == [n EXCEPT !.listening = FALSE]

\* The first half of stop(): every worker is asked to quit; the join follows.
PoolStop(n) == [n EXCEPT !.pool = "Stopping", !.quit = {n.loops[i] : i \in DOMAIN n.loops}]

\* What follows the join.
PoolStopped(n) == [n EXCEPT !.pool = "Stopped", !.loops = <<>>, !.next = 0, !.quit = {}]

\* Workers take turns; without workers the base loop serves its own connections.
GetNextLoop(n) == IF n.loops = <<>> THEN Base ELSE n.loops[n.next + 1]

Advance(n) == IF n.loops = <<>> THEN n ELSE [n EXCEPT !.next = (@ + 1) % Len(n.loops)]

-----------------------------------------------------------------------------
(* The server's functions, on the base thread *)

NewConnection(n, c) ==
  IF n.stopped THEN [n EXCEPT !.conn[c].state = "rejected"]
  ELSE RunInLoop(Advance([n EXCEPT !.conn[c].state = "kConnecting", !.conn[c].loop = GetNextLoop(n),
                                   !.conn[c].closeCallback = TRUE, !.connections = @ \cup {c}]),
                 IF n.tls THEN "startTls" ELSE "establish", c)

\* removeConnectionInLoop that looks the connection up and leaves it in the map.
RemoveConnectionKeeps(n, c) ==
  LET m    == RunInLoop(n, "remove", c)
      done == [m EXCEPT !.draining = FALSE, !.drainTimer = FALSE]
  IN  IF ~n.alive \/ c \notin n.connections THEN n
      ELSE IF m.draining /\ m.connections = {} THEN PoolStop(done) ELSE m

\* The removal functor without its look at the lifetime token.
RemoveConnectionUnguarded(n, c) ==
  LET m    == RunInLoop([n EXCEPT !.connections = @ \ {c}], "remove", c)
      done == [m EXCEPT !.draining = FALSE, !.drainTimer = FALSE]
  IN  IF c \notin n.connections THEN Touch(n)
      ELSE IF m.draining /\ m.connections = {} THEN PoolStop(done) ELSE m

\* The functor of the close callback, and removeConnectionInLoop.
RemoveConnectionInLoop(n, c) ==
  LET m    == RunInLoop([n EXCEPT !.connections = @ \ {c}], "remove", c)
      done == [m EXCEPT !.draining = FALSE, !.drainTimer = FALSE]
  IN  IF ~n.alive THEN n
      ELSE IF c \notin n.connections THEN Touch(n)
      ELSE IF m.draining /\ m.connections = {} THEN PoolStop(done) ELSE m

StopAccepting(n) ==
  IF n.listening THEN AcceptorStop([n EXCEPT !.accepts = FALSE]) ELSE n

-----------------------------------------------------------------------------
(* The base thread *)

\* A step of the base thread ends in the join if it stopped the pool.
BaseDoes(n) ==
  /\ net' = n
  /\ IF n.pool = "Stopping" THEN pc' = "join" /\ resume' = pc ELSE UNCHANGED <<pc, resume>>
  /\ UNCHANGED <<mode, closing>>

\* Application code runs on the base thread, in a functor or in a callback.
OnBase == pc # "join" /\ net.alive
\* The base thread is back in its loop.
BaseFree == pc = "idle" /\ closing[Base] = None

\* start(): a worker that fails to start takes the others with it.
Start ==
  /\ OnBase /\ ~net.started
  /\ \/ /\ net' = [net EXCEPT !.started = TRUE, !.stopped = FALSE, !.pool = "Running",
                              !.loops = net.threads, !.next = 0, !.listening = TRUE]
        /\ mode' = [w \in Workers |-> IF w \in Range(net.threads) THEN "run" ELSE "off"]
     \/ net' = [net EXCEPT !.stopped = FALSE] /\ UNCHANGED mode
  /\ UNCHANGED <<pc, resume, closing>>

Stop ==
  /\ OnBase /\ ~net.stopped
  /\ \E order \in Orders :
       BaseDoes(PoolStop(LetGo(StopAccepting([net EXCEPT !.stopped = TRUE, !.draining = FALSE]),
                               "stop", order)))

\* A drain without a deadline.
StopDrainingOpenEnded ==
  /\ OnBase /\ ~net.stopped
  /\ LET n == StopAccepting([net EXCEPT !.stopped = TRUE, !.draining = net.connections # {}])
     IN  BaseDoes(IF n.connections = {} THEN PoolStop(n) ELSE n)

\* stop(drainTimeout)
StopDraining ==
  /\ OnBase /\ ~net.stopped
  /\ LET n == StopAccepting([net EXCEPT !.stopped = TRUE, !.draining = net.connections # {}])
     IN  BaseDoes(IF n.connections = {} THEN PoolStop(n) ELSE [n EXCEPT !.drainTimer = TRUE])

OnDrainTimeout ==
  /\ BaseFree /\ net.drainTimer
  /\ \E order \in Orders :
       LET n == Touch([net EXCEPT !.drainTimer = FALSE])
       IN  BaseDoes(IF ~n.draining THEN n
                    ELSE PoolStop(LetGo([n EXCEPT !.draining = FALSE], "stop", order)))

\* ~TcpServer
Destroy ==
  /\ BaseFree /\ net.alive
  /\ \E order \in Orders :
       BaseDoes(PoolStop(LetGo([net EXCEPT !.stopped = TRUE, !.draining = FALSE, !.alive = FALSE,
                                           !.accepts = FALSE, !.listening = FALSE,
                                           !.drainTimer = FALSE], "destroy", order)))

\* EventLoopThreadPool::stop after the last join
JoinReturns ==
  /\ pc = "join" /\ \A w \in net.quit : mode[w] = "gone"
  /\ net' = PoolStopped(net) /\ pc' = resume
  /\ UNCHANGED <<resume, mode, closing>>

BaseRunFunctor ==
  /\ BaseFree /\ net.queue[Base] # <<>>
  /\ BaseDoes(RemoveConnectionInLoop([net EXCEPT !.queue[Base] = Tail(@)], Head(net.queue[Base]).conn))

\* Acceptor::handleRead takes what has arrived, until nothing is left or the listening
\* socket is gone.
Arrived == {c \in Conns : net.conn[c].state = "arrived"}
HandleRead ==
  /\ BaseFree /\ net.listening /\ Arrived # {}
  /\ pc' = "accept"
  /\ UNCHANGED <<net, resume, mode, closing>>

AcceptOne ==
  /\ pc = "accept" /\ closing[Base] = None /\ net.listening
  /\ \E c \in Arrived :
       BaseDoes(IF net.accepts THEN NewConnection(Touch(net), c)
                ELSE [net EXCEPT !.conn[c].state = "rejected"])

HandleReadDone ==
  /\ pc = "accept" /\ closing[Base] = None /\ (~net.listening \/ Arrived = {})
  /\ pc' = "idle"
  /\ UNCHANGED <<net, resume, mode, closing>>

-----------------------------------------------------------------------------
(* The connections, each on its loop *)

\* The loop l is between two callbacks, or in application code that ends a callback.
Free(l) == closing[l] = None /\ IF l = Base THEN pc # "join" ELSE mode[l] \in {"run", "drain"}

\* The peer closes, an error is met or the application forces the close.
Closes(c) ==
  LET k == net.conn[c]
  IN  /\ Free(k.loop) /\ k.state \in {"kConnected", "kDisconnecting"}
      /\ net' = [net EXCEPT !.conn[c] = CloseConnection(@)]
      /\ closing' = [closing EXCEPT ![k.loop] = c]
      /\ UNCHANGED <<pc, resume, mode>>

\* The disconnect callback has returned: the close callback of newConnection.
NotifyClose(l) ==
  /\ closing[l] # None /\ (l = Base => pc # "join")
  /\ closing' = [closing EXCEPT ![l] = None]
  /\ LET c == closing[l]
     IN  net' = IF ~net.conn[c].closeCallback THEN net
                ELSE Post([net EXCEPT !.conn[c] = CancelIdleTimer(@)], Base, Functor("removeConnection", c))
  /\ UNCHANGED <<pc, resume, mode>>

\* advanceTransportHandshake that completes, in an event of the connection; the server's side
\* of a handshake needs an answer of the client, so it is never over in connectEstablished.
\* One that fails is one of the errors of Closes.
HandshakeCompletes(c) ==
  LET k == net.conn[c]
  IN  /\ k.handshaking /\ Free(k.loop) /\ (k.loop = Base => pc = "idle")
      /\ net' = [net EXCEPT !.conn[c] = ConnectionCallback([k EXCEPT !.handshaking = FALSE])]
      /\ UNCHANGED <<pc, resume, mode, closing>>

Known == {c \in Conns : net.conn[c].state \in {"kConnected", "kDisconnecting", "kDisconnected"}}

\* A message, or a write that completes, perhaps after the close or before the handshake's end.
Activity(c) ==
  /\ c \in Known /\ Free(net.conn[c].loop) /\ net.conn[c].generation < MaxGeneration
  /\ net' = [net EXCEPT !.conn[c] = RefreshIdleTimer(@)]
  /\ UNCHANGED <<pc, resume, mode, closing>>

\* The application half-closes the connection.
Shutdown(c) ==
  /\ net.conn[c].state = "kConnected" /\ Free(net.conn[c].loop)
  /\ net' = [net EXCEPT !.conn[c].state = "kDisconnecting"]
  /\ UNCHANGED <<pc, resume, mode, closing>>

\* The callback of refreshIdleTimer
IdleTimeout(c) ==
  LET k == net.conn[c]
  IN  /\ Free(k.loop) /\ (k.loop = Base => pc = "idle")
      /\ \E g \in k.idle :
           LET fired  == [k EXCEPT !.idle = @ \ {g}]
               timely == [fired EXCEPT !.timerId = 0]
               closes == k.generation = g /\ k.state = "kConnected"
           IN  /\ net' = [net EXCEPT !.conn[c] = IF closes THEN CloseConnection(timely)
                                                 ELSE IF k.generation = g THEN timely ELSE fired]
               /\ closing' = [closing EXCEPT ![k.loop] = IF closes THEN c ELSE @]
      /\ UNCHANGED <<pc, resume, mode>>

Arrives(c) ==
  /\ net.conn[c].state = "none" /\ net.listening
  /\ net' = [net EXCEPT !.conn[c].state = "arrived"]
  /\ UNCHANGED <<pc, resume, mode, closing>>

-----------------------------------------------------------------------------
(* The workers *)

WorkerRunFunctor(w) ==
  /\ mode[w] \in {"run", "drain"} /\ closing[w] = None /\ net.queue[w] # <<>>
  /\ LET f == Head(net.queue[w])
     IN  net' = [net EXCEPT !.queue[w] = Tail(@),
                            !.conn[f.conn] = Serve(@, f.op)]
  /\ UNCHANGED <<pc, resume, mode, closing>>

WorkerSeesQuit(w) ==
  /\ mode[w] = "run" /\ closing[w] = None /\ w \in net.quit
  /\ mode' = [mode EXCEPT ![w] = "drain"]
  /\ UNCHANGED <<net, pc, resume, closing>>

WorkerExits(w) ==
  /\ mode[w] = "drain" /\ closing[w] = None /\ net.queue[w] = <<>>
  /\ mode' = [mode EXCEPT ![w] = "gone"]
  /\ UNCHANGED <<net, pc, resume, closing>>

-----------------------------------------------------------------------------

BaseStep ==
  JoinReturns \/ BaseRunFunctor \/ HandleRead \/ AcceptOne \/ HandleReadDone \/ NotifyClose(Base)
  \/ OnDrainTimeout
WorkerStep(w) == WorkerRunFunctor(w) \/ WorkerSeesQuit(w) \/ WorkerExits(w) \/ NotifyClose(w)

Next ==
  \/ BaseStep \/ Start \/ Stop \/ StopDraining \/ Destroy
  \/ \E w \in Workers : WorkerStep(w)
  \/ \E c \in Conns : HandshakeCompletes(c) \/ Closes(c) \/ Activity(c) \/ Shutdown(c) \/ IdleTimeout(c) \/ Arrives(c)

Spec == Init /\ [][Next]_vars

\* The loops run, and the drain timer fires.
FairSpec == Spec /\ WF_vars(BaseStep) /\ \A w \in Workers : WF_vars(WorkerStep(w))

-----------------------------------------------------------------------------
(* Properties *)

Accepted == {c \in Conns : net.conn[c].state \notin {"none", "arrived", "rejected"}}
\* The functors on their way to c's loop that will destroy it.
Destroying(c) == {i \in DOMAIN net.queue[net.conn[c].loop] :
                    LET f == net.queue[net.conn[c].loop][i]
                    IN  f.conn = c /\ f.op \in {"remove", "stop", "destroy"}}

\* Every accepted connection has exactly one holder that will see to its connectDestroyed:
\* the map, one functor on its loop, or it has been destroyed, once.  So whichever of the
\* close callback, stop(), the drain timeout and ~TcpServer come together, none of them
\* destroys a connection a second time and none of them loses one.  The map lets go of one
\* that has closed: its close callback is still to come or the removal is queued on the base
\* loop; and once the pool of a started server has stopped it holds none.
OneHolder ==
  /\ TypeOK
  /\ \A c \in Accepted :
       (IF c \in net.connections THEN 1 ELSE 0) + Cardinality(Destroying(c)) + net.conn[c].destroyed = 1
  /\ \A c \in net.connections :
       net.conn[c].state = "kDisconnected" =>
         \/ closing[net.conn[c].loop] = c
         \/ \E i \in DOMAIN net.queue[Base] : net.queue[Base][i].conn = c
  /\ net.started /\ net.pool = "Stopped" =>
       net.connections = {} /\ \A c \in Accepted : net.conn[c].destroyed = 1

\* Nothing destroyed is used.  stop() lets go of the connections before it joins the
\* workers, so that no teardown is ever posted to a worker loop that is gone (runInLoop
\* would use a dead EventLoop); and functors and timers that outlive the server do not use
\* it: the removal checks the lifetime token, the drain timer and the accept callback are
\* withdrawn by ~TcpServer.
NotUsedAfterDestruction ==
  /\ \A w \in Workers : mode[w] = "gone" => net.queue[w] = <<>>
  /\ ~net.misused

\* A connection never has two idle timers: refreshIdleTimer withdraws the timer of the
\* previous generation (TcpServer.cc:28-47).  One that was reported to the application as
\* connected always has one until it is shut down or closes, so that a quiet peer is noticed
\* whatever races between messages, completed writes, the timer itself and the end of the
\* handshake.  Under TLS it is reported at the end of the handshake; before that only a send
\* that SSL_write takes arms one (TcpConnection.cc:214-226, 422-434).
OneIdleTimer ==
  \A c \in Conns : LET k == net.conn[c] IN
    /\ k.idle \subseteq {k.generation}
    /\ k.state = "kConnected" /\ ~k.handshaking => k.idle = {k.generation}

\* stop(), the drain with its timeout, and the destructor come to an end: the workers are
\* joined and every connection has been destroyed.
StopCompletes ==
  net.stopped /\ net.started ~> net.pool = "Stopped" /\ \A c \in Accepted : net.conn[c].destroyed = 1
=============================================================================
