------------------------------ MODULE TcpClient ------------------------------
(***************************************************************************)
(* mini/net/TcpClient.cc and mini/net/Connector.cc: a client looks up its  *)
(* host, tries the addresses one after the other (or one fixed address     *)
(* with back-off), hands the connected socket to a TcpConnection, and      *)
(* reconnects when that closes.                                            *)
(*                                                                         *)
(* Everything runs on the client's loop; calls of other threads arrive as  *)
(* functors.  What makes it hard are the hooks: the application is called  *)
(* in the middle of most handlers and may stop, reconnect or destroy the   *)
(* client there.  A hook that is running is the field frame, which keeps   *)
(* what the handler will do after it.  A connector is known by its number, *)
(* a socket by the connector and the generation that made it.              *)
(***************************************************************************)
EXTENDS Naturals, Sequences, FiniteSets, SequencesExt

CONSTANTS
  Setups,      \* records [fixed, attempts, reconnect, timeout, tls]: a fixed address or a host
               \* name, ConnectorOptions::enableRetry, TcpClient::retry_, a connect timeout, TLS
  MaxAddrs,    \* bound: addresses of the host
  InitDelay, MaxDelay,  \* the back-off
  MaxCalls, MaxFailures, MaxCloses,  \* bounds: calls, failed attempts, closed connections
  None

ASSUME ClientAssumption ==
  /\ Setups \subseteq [fixed : BOOLEAN, attempts : BOOLEAN, reconnect : BOOLEAN, timeout : BOOLEAN,
                       tls : BOOLEAN]
  /\ {MaxAddrs, InitDelay, MaxDelay, MaxCalls, MaxFailures, MaxCloses} \subseteq Nat
  /\ 0 < InitDelay /\ InitDelay <= MaxDelay

VARIABLES
  st,      \* the client, its connectors and the loop: see TypeOK
  setup,
  events,  \* channel callbacks still to run for the event being dispatched
  budget   \* what is left of the bounds

vars == <<st, setup, events, budget>>

Phases == {"Idle", "StartQueued", "Connecting", "Connected", "RetryWaiting"}
Sockets == (1..Len(st.cn)) \X Nat
Hooks == {"attempt", "failed", "retry", "success", "tls", "connected", "closing"}

TypeOK ==
  /\ {st.alive, st.connect} \subseteq BOOLEAN
  /\ st.phase \in {"Idle", "Resolving", "Connecting", "Connected"}
  /\ {st.generation, st.candidates} \subseteq Nat /\ st.resolving \subseteq 1..st.generation
  /\ st.connector \in 0..Len(st.cn) /\ st.connection \in Sockets \cup {None}
  /\ \A i \in DOMAIN st.cn : LET k == st.cn[i] IN
       /\ k.phase \in Phases /\ {k.generation, k.channel, k.retry, k.timeout, k.round} \subseteq Nat
       /\ k.retryEnabled \in BOOLEAN /\ k.delay \in InitDelay..MaxDelay
  /\ st.halted \in 0..Len(st.cn) /\ st.handshaking \subseteq DOMAIN st.conns
  /\ st.fds \subseteq Sockets
  /\ \A t \in st.timers : t.kind \in {"retry", "timeout"} /\ t.id \in DOMAIN st.cn
  /\ DOMAIN st.conns \subseteq Sockets
  /\ \A c \in DOMAIN st.conns : st.conns[c] \in {"kConnecting", "kConnected", "kDisconnecting", "kDisconnected"}
  /\ st.frame # None => st.frame.at \in Hooks /\ st.frame.heard \in BOOLEAN
  /\ setup \in Setups
  /\ budget \in [calls : 0..MaxCalls, failures : 0..MaxFailures, closes : 0..MaxCloses]

Init ==
  /\ st = [alive |-> TRUE, connect |-> FALSE, phase |-> "Idle", generation |-> 0,
           candidates |-> 0, resolving |-> {}, connector |-> 0, connection |-> None,
           cn |-> <<>>, conns |-> <<>>, fds |-> {}, timers |-> {}, queue |-> <<>>, frame |-> None,
           handshaking |-> {}, halted |-> 0]
  /\ setup \in Setups
  /\ events = <<>>
  /\ budget = [calls |-> MaxCalls, failures |-> MaxFailures, closes |-> MaxCloses]

Functor(op, i, g) == [op |-> op, id |-> i, gen |-> g]
Queue(s, f) == [s EXCEPT !.queue = Append(@, f)]
Without(f, x) == [y \in DOMAIN f \ {x} |-> f[y]]

-----------------------------------------------------------------------------
(* Connector *)

CancelTimers(s, i) ==
  [s EXCEPT !.timers = {t \in @ : t.id # i \/ t.gen # s.cn[i][t.kind]},
            !.cn[i].retry = 0, !.cn[i].timeout = 0]

Close(s, sock) == [s EXCEPT !.fds = @ \ {sock}]
RemoveAndResetChannel(s, i) == [s EXCEPT !.cn[i].channel = 0]
CloseChannel(s, i) == RemoveAndResetChannel(Close(s, <<i, s.cn[i].channel>>), i)

ConnectorStart(s, i) ==
  IF s.cn[i].phase # "Idle" THEN s
  ELSE LET g == s.cn[i].generation + 1
       IN  Queue([s EXCEPT !.cn[i].phase = "StartQueued", !.cn[i].generation = g], Functor("start", i, g))

ConnectorStop(s, i) ==
  LET idle == CancelTimers([s EXCEPT !.cn[i].generation = @ + 1, !.cn[i].phase = "Idle"], i)
  IN  IF s.cn[i].channel # 0 THEN CloseChannel(idle, i) ELSE idle

-----------------------------------------------------------------------------
(* TcpClient *)

\* A handler of the last failure that leaves the phase to the queued functor.
HandleConnectorEventLate(s, i, event) ==
  IF event = "failed" /\ ~setup.fixed THEN Queue(s, Functor("advance", i, s.generation))
  ELSE IF event \in {"attempt", "retry"} THEN [s EXCEPT !.phase = "Connecting"] ELSE s

\* Failed, timed out and self-connected attempts are all "failed".
HandleConnectorEvent(s, i, event) ==
  IF event = "failed" /\ ~setup.fixed
  THEN Queue([s EXCEPT !.phase = IF s.candidates = 0 THEN "Idle" ELSE @], Functor("advance", i, s.generation))
  ELSE IF event = "failed" THEN [s EXCEPT !.phase = "Idle"]
  ELSE IF event \in {"attempt", "retry"} THEN [s EXCEPT !.phase = "Connecting"] ELSE s

\* Connector::emitEvent, the client's filter in front of the hook, and the hook entered.
\* id, gen and retryable are what the handler keeps on its stack.
EmitEvent(s, i, event, retryable) ==
  LET heard == s.alive /\ s.cn[i].round = s.generation /\ s.connector = i
      frame == [at |-> event, id |-> i, gen |-> s.cn[i].generation, retryable |-> retryable, heard |-> heard]
  IN  [(IF heard THEN HandleConnectorEvent(s, i, event) ELSE s) EXCEPT !.frame = frame]

\* Connector::fail up to the hook
Fail(s, i, retryable) ==
  LET m == CancelTimers([s EXCEPT !.cn[i].phase = "Idle"], i)
  IN  EmitEvent(m, i, "failed", retryable)

NextDelay(d) == IF d > MaxDelay - d THEN MaxDelay ELSE d * 2

ScheduleRetry(s, i) ==
  LET g == s.cn[i].generation
  IN  EmitEvent([s EXCEPT !.cn[i].phase = "RetryWaiting", !.cn[i].retry = g, !.cn[i].delay = NextDelay(@),
                          !.timers = @ \cup {[kind |-> "retry", id |-> i, gen |-> g]}], i, "retry", TRUE)

\* Connector::connecting
Connecting(s, i) ==
  LET g == s.cn[i].generation
      m == [s EXCEPT !.fds = @ \cup {<<i, g>>}, !.cn[i].channel = g, !.frame = None]
  IN  IF ~setup.timeout THEN m
      ELSE [m EXCEPT !.cn[i].timeout = g, !.timers = @ \cup {[kind |-> "timeout", id |-> i, gen |-> g]}]

StopPrevious(s) ==
  IF s.connector = 0 THEN s ELSE ConnectorStop([s EXCEPT !.connector = 0], s.connector)

InitConnector(s, retryEnabled) ==
  [s EXCEPT !.connector = Len(s.cn) + 1,
            !.cn = Append(@, [phase |-> "Idle", generation |-> 0, channel |-> 0, retry |-> 0, timeout |-> 0,
                              delay |-> InitDelay, retryEnabled |-> retryEnabled, round |-> s.generation])]
StartNew(s, retryEnabled) ==
  LET m == InitConnector([s EXCEPT !.phase = "Connecting"], retryEnabled) IN ConnectorStart(m, m.connector)

StartNextCandidate(s) ==
  LET m == StopPrevious(s)
  IN  IF m.candidates = 0 THEN [m EXCEPT !.phase = "Idle"]
      ELSE StartNew([m EXCEPT !.candidates = @ - 1], FALSE)

ConnectInLoop(s) ==
  LET n == [s EXCEPT !.connect = TRUE]
      m == StopPrevious([n EXCEPT !.generation = @ + 1, !.candidates = 0])
  IN  IF s.phase = "Connected"
      THEN IF s.connection # None /\ s.conns[s.connection] = "kDisconnected"
           THEN Queue(n, Functor("reconnect", 0, s.generation)) ELSE n
      ELSE IF s.phase # "Idle" THEN n
      ELSE IF setup.fixed THEN StartNew(m, setup.attempts)
      ELSE [m EXCEPT !.phase = "Resolving", !.resolving = @ \cup {m.generation}]

\* The history halted numbers the connectors that existed at the last stop.
StopInLoop(s) ==
  StopPrevious([s EXCEPT !.connect = FALSE, !.generation = @ + 1, !.candidates = 0,
                         !.phase = IF @ = "Connected" THEN @ ELSE "Idle", !.halted = Len(s.cn)])

DisconnectInLoop(s) ==
  LET m == StopInLoop(s)
  IN  IF m.connection # None /\ m.conns[m.connection] = "kConnected"
      THEN [m EXCEPT !.conns[m.connection] = "kDisconnecting"] ELSE m

\* connectDestroyed, and the release of the connection's socket
ConnectDestroyed(s, c) == Close([s EXCEPT !.conns = Without(@, c), !.handshaking = @ \ {c}], c)

\* newConnection up to the next hook: HandshakeStarted with TLS, else the connection
\* callback, which connectEstablished enters.
NewConnection(s, i) ==
  LET c == <<i, s.frame.gen>>
  IN  [s EXCEPT !.connection = c, !.phase = "Connected", !.candidates = 0,
                !.conns = @ @@ (c :> IF setup.tls THEN "kConnecting" ELSE "kConnected"),
                !.frame.at = IF setup.tls THEN "tls" ELSE "connected"]

RemoveConnection(s) ==
  LET m == [Queue(s, Functor("destroyed", s.connection[1], s.connection[2]))
              EXCEPT !.connection = None, !.phase = "Idle"]
  IN  IF setup.reconnect /\ m.connect THEN ConnectInLoop(m) ELSE m

-----------------------------------------------------------------------------
(* The loop *)

Free == st.frame = None /\ events = <<>>
Does(s) == st' = s /\ UNCHANGED <<setup, events, budget>>
Fails == budget.failures > 0 /\ budget' = [budget EXCEPT !.failures = @ - 1]

\* Connector::startInLoop up to the hook
StartInLoop(s, f) ==
  IF s.cn[f.id].generation # f.gen \/ s.cn[f.id].phase # "StartQueued" THEN s
  ELSE EmitEvent([s EXCEPT !.cn[f.id].phase = "Connecting"], f.id, "attempt", TRUE)

\* Queued rounds that only ask whether the client lives.
CurrentIfAlive(s, f) == s.alive

\* The test of the client's queued functors: it lives and the round was not replaced.
Current(s, f) == s.alive /\ f.gen = s.generation /\ s.connect

Run(s, f) ==
  CASE f.op = "connect"    -> IF s.alive THEN ConnectInLoop(s) ELSE s
    [] f.op = "stop"       -> IF s.alive THEN StopInLoop(s) ELSE s
    [] f.op = "disconnect" -> IF s.alive THEN DisconnectInLoop(s) ELSE s
    [] f.op = "reconnect"  -> IF Current(s, f) THEN ConnectInLoop(s) ELSE s
    [] f.op = "resolved"   -> IF ~Current(s, f) THEN s
                              ELSE IF f.id = 0 THEN [s EXCEPT !.phase = "Idle"]
                              ELSE StartNextCandidate([s EXCEPT !.candidates = f.id])
    [] f.op = "advance"    -> IF Current(s, f) /\ s.connector = f.id THEN StartNextCandidate(s) ELSE s
    [] f.op = "start"      -> StartInLoop(s, f)
    [] f.op = "destroyed"  -> ConnectDestroyed(s, <<f.id, f.gen>>)

RunFunctor ==
  /\ Free /\ st.queue # <<>>
  /\ Does(Run([st EXCEPT !.queue = Tail(@)], Head(st.queue)))

\* The resolver posts its answer: the number of addresses, none if it failed.
ResolverDelivers ==
  \E g \in st.resolving, n \in 0..MaxAddrs :
    Does([Queue(st, Functor("resolved", n, g)) EXCEPT !.resolving = @ \ {g}])

\* The kernel reports the connecting socket.
ChannelReady ==
  /\ Free
  /\ \E i \in DOMAIN st.cn : st.cn[i].channel # 0
       /\ \E cbs \in {<<"write">>, <<"error">>, <<"error", "write">>} :
            (Head(cbs) = "error" => budget.failures > 0) /\ events' = [k \in DOMAIN cbs |-> Functor(cbs[k], i, st.cn[i].channel)]
  /\ UNCHANGED <<st, setup, budget>>

IsCurrent(i, g) == st.cn[i].generation = g /\ st.cn[i].phase = "Connecting"

HandleError ==
  /\ st.frame = None /\ events # <<>> /\ Head(events).op = "error"
  /\ events' = Tail(events) /\ UNCHANGED setup
  /\ LET i == Head(events).id
     IN  IF ~IsCurrent(i, Head(events).gen) THEN UNCHANGED <<st, budget>>
         ELSE Fails /\ st' = Fail(CloseChannel(st, i), i, TRUE)

HandleWrite ==
  /\ st.frame = None /\ events # <<>> /\ Head(events).op = "write"
  /\ events' = Tail(events) /\ UNCHANGED setup
  /\ LET i == Head(events).id
     IN  IF ~IsCurrent(i, Head(events).gen) THEN UNCHANGED <<st, budget>>
         ELSE \/ Fails /\ st' = Fail(CloseChannel(CancelTimers(st, i), i), i, TRUE)
              \/ /\ UNCHANGED budget
                 /\ st' = EmitEvent(RemoveAndResetChannel(
                                       [CancelTimers(st, i) EXCEPT !.cn[i].phase = "Connected"], i),
                                    i, "success", TRUE)

HandleConnectTimeout ==
  /\ Free
  /\ \E t \in st.timers :
       LET fired == [st EXCEPT !.timers = @ \ {t}]
       IN  /\ t.kind = "timeout"
           /\ IF ~IsCurrent(t.id, t.gen) THEN Does(fired)
              ELSE /\ Fails /\ UNCHANGED <<setup, events>>
                   /\ st' = Fail(CloseChannel([fired EXCEPT !.cn[t.id].timeout = 0], t.id), t.id, TRUE)

RetryTimer ==
  /\ Free
  /\ \E t \in st.timers :
       LET fired == [st EXCEPT !.timers = @ \ {t}]
       IN  /\ t.kind = "retry"
           /\ Does(IF st.cn[t.id].generation # t.gen \/ st.cn[t.id].phase # "RetryWaiting" THEN fired
                   ELSE ConnectorStart([fired EXCEPT !.cn[t.id].retry = 0, !.cn[t.id].phase = "Idle"], t.id))

-----------------------------------------------------------------------------
(* What the handlers do after their hooks *)

\* The handler is over.
Over(s) == [s EXCEPT !.frame = None]
At(hook) == st.frame # None /\ st.frame.at = hook
\* The connector the handler runs on was neither stopped nor restarted in the hook.
Unchanged(phase) ==
  st.cn[st.frame.id].generation = st.frame.gen /\ st.cn[st.frame.id].phase = phase

\* startInLoop: the socket, and connect()
AfterAttempt ==
  /\ At("attempt")
  /\ LET i == st.frame.id
     IN  IF ~Unchanged("Connecting") THEN Does(Over(st))
         ELSE \/ Does(Connecting(st, i))
              \/ Fails /\ UNCHANGED <<setup, events>> /\ \E retryable \in BOOLEAN : st' = Fail(st, i, retryable)

AfterFailed ==
  /\ At("failed")
  /\ Does(IF Unchanged("Idle") /\ st.cn[st.frame.id].retryEnabled /\ st.frame.retryable
          THEN ScheduleRetry(st, st.frame.id) ELSE Over(st))

\* handleWrite that drops a socket nobody wants.
AfterSuccessLeaks ==
  /\ At("success")
  /\ LET i == st.frame.id
         wanted == st.alive /\ st.cn[i].round = st.generation /\ st.connect /\ st.connector = i
     IN  Does(IF Unchanged("Connected") /\ wanted THEN NewConnection(st, i) ELSE Over(st))

\* handleWrite and its callback that only ask, after the hook, whether the client connects.
AfterSuccessEager ==
  /\ At("success")
  /\ LET i == st.frame.id
     IN  Does(IF st.alive /\ st.connect THEN NewConnection(st, i)
              ELSE Over(Close(st, <<i, st.frame.gen>>)))

\* handleWrite: the socket goes to the client, or is closed.
AfterSuccess ==
  /\ At("success")
  /\ LET i == st.frame.id
         wanted == st.alive /\ st.cn[i].round = st.generation /\ st.connect /\ st.connector = i
     IN  Does(IF Unchanged("Connected") /\ wanted THEN NewConnection(st, i)
              ELSE Over(Close(st, <<i, st.frame.gen>>)))

\* startTls and connectEstablished, whose first handshake step never completes it: the
\* server has yet to answer.
AfterTlsStarted ==
  /\ At("tls")
  /\ Does([Over(st) EXCEPT !.conns[st.connection] = "kConnected", !.handshaking = @ \cup {st.connection}])

\* An event of the connection completes the handshake: the connection callback.
HandshakeCompletes ==
  /\ Free /\ st.connection \in st.handshaking
  /\ Does([st EXCEPT !.handshaking = @ \ {st.connection},
                     !.frame = [at |-> "connected", id |-> st.connection[1], gen |-> st.connection[2],
                                retryable |-> FALSE, heard |-> TRUE]])

AfterHook == (At("retry") \/ At("connected")) /\ Does(Over(st))

\* runCloseSequence: the close callback of newConnection
AfterClosing ==
  /\ At("closing")
  /\ Does(IF st.alive THEN RemoveConnection(Over(st)) ELSE Over(st))

-----------------------------------------------------------------------------
(* The application, the peer and other threads *)

\* Application code runs on the loop: a functor of its own, or a hook.
OnLoop == Free \/ (st.frame # None /\ st.frame.heard)
Spends == budget.calls > 0 /\ budget' = [budget EXCEPT !.calls = @ - 1] /\ UNCHANGED <<setup, events>>

Connect == st.alive /\ OnLoop /\ Spends /\ st' = ConnectInLoop(st)
Stop == st.alive /\ OnLoop /\ Spends /\ st' = StopInLoop(st)
Disconnect == st.alive /\ OnLoop /\ Spends /\ st' = DisconnectInLoop(st)
CallFromThread ==
  /\ st.alive /\ Spends
  /\ \E op \in {"connect", "stop", "disconnect"} : st' = Queue(st, Functor(op, 0, 0))

\* ~TcpClient, also inside a connector hook (a hook of the connection returns into it)
Destroy ==
  /\ st.alive /\ OnLoop /\ ~At("tls") /\ ~At("connected") /\ ~At("closing")
  /\ LET m == [StopInLoop(st) EXCEPT !.alive = FALSE]
     IN  Does(IF m.connection = None THEN m
              ELSE [ConnectDestroyed(m, m.connection) EXCEPT !.connection = None])

\* The peer closes, an error is met, or the application forces the close: handleClose up to
\* the disconnect hook.
ConnectionCloses ==
  /\ Free \/ At("connected")
  /\ st.connection # None /\ st.conns[st.connection] # "kDisconnected"
  /\ budget.closes > 0 /\ budget' = [budget EXCEPT !.closes = @ - 1]
  /\ st' = [st EXCEPT !.conns[st.connection] = "kDisconnected", !.handshaking = @ \ {st.connection},
                      !.frame = [at |-> "closing", id |-> st.connection[1], gen |-> st.connection[2],
                                 retryable |-> FALSE, heard |-> TRUE]]
  /\ UNCHANGED <<setup, events>>

-----------------------------------------------------------------------------

LoopStep ==
  \/ RunFunctor \/ HandleError \/ HandleWrite \/ RetryTimer
  \/ AfterAttempt \/ AfterFailed \/ AfterSuccess \/ AfterTlsStarted \/ AfterHook
  \/ AfterClosing

Next ==
  \/ LoopStep \/ HandleConnectTimeout \/ ResolverDelivers \/ ChannelReady
  \/ HandshakeCompletes \/ ConnectionCloses
  \/ Connect \/ Stop \/ Disconnect \/ CallFromThread \/ Destroy

Spec == Init /\ [][Next]_vars

\* The loop runs, timers fire, the resolver answers, and a server that has failed the bounded
\* number of times answers as well.
FairSpec ==
  /\ Spec /\ WF_vars(LoopStep) /\ WF_vars(HandleConnectTimeout) /\ WF_vars(ResolverDelivers)
  /\ WF_vars(budget.failures = 0 /\ ChannelReady)

-----------------------------------------------------------------------------
(* Properties *)

Registered == {i \in DOMAIN st.cn : st.cn[i].channel # 0}
InHand == IF At("success") THEN {<<st.frame.id, st.frame.gen>>} ELSE {}

\* One client is one connection, and what it holds has one owner.  Whatever hooks, timers
\* and threads do, at most one attempt or one connection that is still open exists, and the
\* attempt is the current connector's (the asserts of Connector::connecting and of
\* TcpClient::removeConnection follow).  Every open socket has an owner that closes it: the
\* registered channel of an attempt, the handler that is about to deliver it, or a
\* connection; none is leaked by a stop, a restart or a destruction in a hook, and none is
\* closed under its owner.  A timer that is armed belongs to what the current connector is
\* doing now; stop() and ~TcpClient leave none behind that could revive an old attempt.
ResourcesOwned ==
  /\ TypeOK
  /\ Cardinality(Registered) + (IF st.connection = None THEN 0 ELSE 1) <= 1
  /\ Registered \subseteq {st.connector}
  /\ At("closing") => st.connection = <<st.frame.id, st.frame.gen>>
  /\ st.fds = {<<i, st.cn[i].channel>> : i \in Registered} \cup InHand \cup DOMAIN st.conns
  /\ \A t \in st.timers : LET k == st.cn[t.id] IN
       /\ st.alive /\ t.id = st.connector /\ t.gen = k.generation
       /\ k.phase = IF t.kind = "retry" THEN "RetryWaiting" ELSE "Connecting"

Queued(op, i, g) == \E n \in DOMAIN st.queue : st.queue[n] = Functor(op, i, g)

\* A client that says it is resolving or connecting has something under way that will end
\* that phase: connect() does nothing in these phases, so a client left in one with nothing
\* pending could never be used again.
NeverStranded ==
  /\ st.phase = "Resolving" =>
       \/ st.generation \in st.resolving
       \/ \E n \in 0..MaxAddrs : Queued("resolved", n, st.generation)
  /\ st.phase = "Connecting" => st.connector # 0 /\
       LET i == st.connector
           k == st.cn[i]
       IN  \/ st.frame # None /\ st.frame.id = i /\ st.frame.gen = k.generation
           \/ k.phase = "StartQueued" /\ Queued("start", i, k.generation)
           \/ k.phase = "Connecting" /\ k.channel # 0
           \/ k.phase = "RetryWaiting" /\ [kind |-> "retry", id |-> i, gen |-> k.generation] \in st.timers
           \/ Queued("advance", i, st.generation)

\* After stop(), disconnect() or ~TcpClient an attempt begun before opens no socket and
\* brings up no connection: not when its connect() runs after the hook that stopped, not
\* when its socket was already connected, and not when the hook or another thread called
\* connect() again, which has begun an attempt of its own (Connector.cc:97, 177-183;
\* TcpClient.cc:286-296).
StopIsFinal ==
  [][\A k \in (st'.fds \ st.fds) \cup ({st'.connection} \ {None, st.connection}) :
       st.connect /\ k[1] > st.halted]_vars

\* An attempt with a timeout ends: the client gets its connection or is idle again, through
\* all the addresses and the retries.
AttemptsEnd ==
  st.phase \in {"Resolving", "Connecting"} /\ setup.timeout
    ~> st.phase \in {"Idle", "Connected"} /\ st.frame = None
=============================================================================
