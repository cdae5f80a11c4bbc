---------------------------- MODULE TcpConnection ----------------------------
(***************************************************************************)
(* mini/net/TcpConnection.cc with the helpers it owns: the transport, the  *)
(* backpressure controller, the registry of coroutine waiters and the      *)
(* callback dispatcher.  One connection, its owner loop, other threads     *)
(* that call its cross-thread API, the peer, and the TcpServer that owns   *)
(* it.  The handlers are operators on the record conn, composed the way    *)
(* the code calls them.                                                    *)
(***************************************************************************)
EXTENDS Naturals, Sequences, FiniteSets, SequencesExt

CONSTANTS
  ReadWaiters, WriteWaiters, CloseWaiters,   \* awaitables, by kind
  None,            \* an empty slot
  Setups,          \* how the connection is used, see SetupType
  Size,            \* units of one send
  MinBytes         \* minBytes of asyncReadSome

\* One use of a connection.
SetupType ==
  [tls : BOOLEAN,                                  \* it is given a TLS context
   awaits : SUBSET (ReadWaiters \cup WriteWaiters \cup CloseWaiters),
   remoteShutdown : BOOLEAN,                       \* other threads call shutdown(), which
                                                   \* writes state off the loop
   teardowns : SUBSET {"remove", "stop", "destroy"},   \* how the server lets go: after a
                                                   \* close notice, stop(), destructor
   policies : SUBSET (Nat \X Nat),                 \* <<highWaterMark, lowWaterMark>>
   input : Nat, calls : Nat]                       \* bounds: units the peer sends, calls of
                                                   \* the public API

ASSUME ConnectionAssumption ==
  /\ Setups \subseteq SetupType
  /\ {Size, MinBytes} \subseteq Nat \ {0}
  \* validateThresholds, ConnectionBackpressureController.cc:13-26
  /\ \A s \in Setups : \A p \in s.policies : IF p[1] = 0 THEN p[2] = 0 ELSE p[2] < p[1]

Waiters == ReadWaiters \cup WriteWaiters \cup CloseWaiters
KindOf(w) == IF w \in ReadWaiters THEN "read" ELSE IF w \in WriteWaiters THEN "write" ELSE "close"

VARIABLES
  use,      \* the setup
  conn,     \* the TcpConnection: see TypeOK
  pc,       \* loop: between two functors, application functors may run.  dispatch: in
            \* handleEventWithGuard.   user: in a callback it led to
  todo,     \* the Channel callbacks still to run for this event
  sock,     \* the kernel's side: unread units, how the peer ended it, what it still sends
  remote,   \* what another thread has read the state for and not yet posted
  owned,    \* the server still has the connection in its map
  calls     \* history, bounded by use.calls

vars == <<use, conn, pc, todo, sock, remote, owned, calls>>

Functor(op, x) == [op |-> op, arg |-> x]

TypeOK ==
  /\ conn.state \in {"kConnecting", "kConnected", "kDisconnecting", "kDisconnected"}
  /\ conn.reason \in {"kNone", "kPeerClosed", "kError"}
  /\ conn.events \subseteq {"read", "write"} /\ conn.registered \in BOOLEAN
  /\ conn.input \in Nat /\ conn.out \in Seq((1..use.calls) \cup WriteWaiters)
  /\ conn.tls \in {"kTlsNone", "kTlsHandshaking", "kTlsEstablished", "kTlsShuttingDown"}
  /\ <<conn.high, conn.low>> \in use.policies \cup {<<0, 0>>}
  /\ conn.active \in BOOLEAN /\ conn.reading \in BOOLEAN
  /\ \A k \in DOMAIN conn.slot : conn.slot[k] \in Waiters \cup {None}
  /\ conn.phase \in [Waiters -> {"Unarmed", "Pending", "Queued", "Completed", "Abandoned"}]
  /\ conn.outcome \in [Waiters -> {"Ready", "Cancelled", "Failed"}]
  /\ pc \in {"loop", "dispatch", "user"}
  /\ remote \in {"idle", "send", "shutdown"} /\ owned \in BOOLEAN
  /\ calls \in 0..use.calls

\* The server configures the policy and hands the connection to its loop.
Init ==
  /\ use \in Setups
  /\ sock = [unread |-> 0, end |-> "open", quota |-> use.input]
  /\ \E p \in use.policies :
       conn =
       [state |-> "kConnecting", reason |-> "kNone", closeCallback |-> TRUE,
        events |-> {}, registered |-> FALSE, removed |-> FALSE, tls |-> "kTlsNone",
        input |-> 0, out |-> <<>>, sent |-> <<>>, accepted |-> <<>>, fin |-> FALSE,
        high |-> p[1], low |-> p[2], active |-> FALSE, reading |-> TRUE,
        slot |-> [read |-> None, write |-> None, close |-> None],
        phase |-> [w \in Waiters |-> "Unarmed"], outcome |-> [w \in Waiters |-> "Ready"],
        canceled |-> {}, registration |-> {}, destroyed |-> {},
        queue |-> <<Functor("establish", None)>>,
        ups |-> 0, downs |-> 0, closes |-> 0]
  /\ pc = "loop" /\ todo = <<>>
  /\ remote = "idle" /\ owned = TRUE /\ calls = 0

Post(c, f) == [c EXCEPT !.queue = Append(@, f)]

\* enableReading, disableReading, enableWriting, disableWriting, disableAll: each one
\* (re-)registers the Channel with its loop.
SetEvents(c, ev) == [c EXCEPT !.events = ev, !.registered = TRUE]

-----------------------------------------------------------------------------
(* ConnectionAwaiterRegistry *)

QueueResume(c, w) ==
  IF w = None \/ c.phase[w] # "Pending" THEN c
  ELSE Post([c EXCEPT !.phase[w] = "Queued"], Functor("resume", w))

ResumeAllOnClose(c) ==
  QueueResume(QueueResume(QueueResume(c, c.slot.read), c.slot.write), c.slot.close)

\* A cancelWaiter that does not ask whether the waiter has completed already.
CancelWaiterAnyPhase(c, w) == QueueResume([c EXCEPT !.outcome[w] = "Cancelled"], w)

CancelWaiter(c, w) ==
  IF c.phase[w] # "Pending" THEN c
  ELSE QueueResume([c EXCEPT !.outcome[w] = "Cancelled"], w)

FailWaiter(c, w) == QueueResume([c EXCEPT !.outcome[w] = "Failed"], w)

\* An unregisterWaiter that leaves a queued resume alone.
UnregisterWaiterSlotOnly(c, w) ==
  [c EXCEPT !.slot = [k \in DOMAIN @ |-> IF @[k] = w THEN None ELSE @[k]],
            !.registration = @ \ {w}]

UnregisterWaiter(c, w) ==
  [c EXCEPT !.slot = [k \in DOMAIN @ |-> IF @[k] = w THEN None ELSE @[k]],
            !.phase[w] = IF @ \in {"Pending", "Queued"} THEN "Abandoned" ELSE @,
            !.registration = @ \ {w}]

-----------------------------------------------------------------------------
(* ConnectionBackpressureController *)

\* An apply that resumes reading only below the low-water mark.
ApplyStrict(c) ==
  LET pause  == c.high # 0 /\ c.reading /\ Len(c.out) >= c.high
      resume == ~c.reading /\ (c.high = 0 \/ Len(c.out) < c.low)
  IN  IF c.active /\ pause THEN SetEvents([c EXCEPT !.reading = FALSE], c.events \ {"read"})
      ELSE IF c.active /\ resume THEN SetEvents([c EXCEPT !.reading = TRUE], c.events \cup {"read"})
      ELSE c

Apply(c) ==
  LET pause  == c.high # 0 /\ c.reading /\ Len(c.out) >= c.high
      resume == ~c.reading /\ (c.high = 0 \/ Len(c.out) <= c.low)
  IN  IF c.active /\ pause THEN SetEvents([c EXCEPT !.reading = FALSE], c.events \ {"read"})
      ELSE IF c.active /\ resume THEN SetEvents([c EXCEPT !.reading = TRUE], c.events \cup {"read"})
      ELSE c

Configure(c, p) == Apply([c EXCEPT !.high = p[1], !.low = p[2]])

-----------------------------------------------------------------------------
(* Closing *)

RunCloseSequence(c, notify) ==
  LET closed == SetEvents([c EXCEPT !.state = "kDisconnected", !.active = FALSE,
                                    !.reading = FALSE], {})
  IN  [ResumeAllOnClose(closed) EXCEPT
         !.downs = @ + 1, !.closes = @ + (IF notify /\ c.closeCallback THEN 1 ELSE 0)]

\* A handleClose without its early return.
HandleCloseAgain(c) ==
  RunCloseSequence([c EXCEPT !.reason = IF @ = "kNone" THEN "kPeerClosed" ELSE @], TRUE)

HandleClose(c) ==
  IF c.state = "kDisconnected" THEN c
  ELSE RunCloseSequence([c EXCEPT !.reason = IF @ = "kNone" THEN "kPeerClosed" ELSE @], TRUE)

HandleError(c) ==
  LET failed == [c EXCEPT !.reason = "kError"]
  IN  IF c.state # "kDisconnected" THEN HandleClose(failed) ELSE failed

ForceCloseInLoop(c) ==
  IF c.state \in {"kConnected", "kDisconnecting"} THEN HandleClose(c) ELSE c

ConnectDestroyed(c) ==
  LET closed == IF c.state # "kConnected" THEN c
                ELSE RunCloseSequence([c EXCEPT !.reason = IF @ = "kNone" THEN "kPeerClosed" ELSE @],
                                      FALSE)
  IN  [closed EXCEPT !.events = {}, !.registered = FALSE, !.removed = TRUE]

\* What the server posts when it removes, stops or destroys: stop() closes first, the
\* last two detach the close callback.
Teardown(c, op) ==
  LET detached == [c EXCEPT !.closeCallback = @ /\ op = "remove"]
  IN  ConnectDestroyed(IF op = "stop" THEN ForceCloseInLoop(detached) ELSE detached)

-----------------------------------------------------------------------------
(* ConnectionTransport: what a call may return.  want says that OpenSSL asked for     *)
(* the opposite readiness.                                                            *)

Result(status, n, want) == [status |-> status, bytes |-> n, want |-> want]
Ssl(c) == c.tls # "kTlsNone"

\* writeRaw, writeFromBuffer: a closed write side or a reset is an error; SSL_write takes
\* everything or nothing, and nothing is left to do for an empty buffer.
WriteResults(c, n) ==
  IF c.fin \/ sock.end = "reset" THEN {Result("kError", 0, FALSE)}
  ELSE IF Ssl(c) THEN {Result("kWouldBlock", 0, b) : b \in BOOLEAN} \cup
                      (IF n = 0 THEN {} ELSE {Result("kOk", n, FALSE)})
  ELSE IF n = 0 THEN {Result("kError", 0, FALSE)}
  ELSE {Result("kWouldBlock", 0, FALSE)} \cup {Result("kOk", k, FALSE) : k \in 1..n}

ReadResults(c) ==
  IF sock.unread > 0
  THEN IF Ssl(c) THEN {Result("kOk", sock.unread, b) : b \in {FALSE, sock.end = "open"}}
       ELSE {Result("kOk", n, FALSE) : n \in 1..sock.unread}
  ELSE IF sock.end = "open"
       THEN {Result("kWouldBlock", 0, b) : b \in IF Ssl(c) THEN BOOLEAN ELSE {FALSE}}
  ELSE IF sock.end = "fin" THEN {Result("kPeerClosed", 0, FALSE)}
  ELSE {Result("kError", 0, FALSE), Result("kPeerClosed", 0, FALSE)}

HandshakePending(c) == c.tls = "kTlsHandshaking"

\* An SSL object that failed once fails again.
HandshakeResults(c) ==
  IF ~HandshakePending(c) THEN {"completed"}
  ELSE IF c.fin \/ sock.end # "open" \/ c.state = "kDisconnected" THEN {"failed"}
  ELSE {"completed", "wantRead", "wantWrite", "failed"}

\* advanceTransportHandshake
AdvanceHandshake(c, h) ==
  CASE h = "failed"    -> HandleError(c)
    [] h = "wantRead"  -> SetEvents(c, c.events \cup {"read"})
    [] h = "wantWrite" -> SetEvents(c, c.events \cup {"write"})
    [] h = "completed" -> [SetEvents(c, c.events \ {"write"}) EXCEPT
                             !.tls = "kTlsEstablished", !.ups = @ + 1]

-----------------------------------------------------------------------------
(* Establishing, writing and reading *)

\* startTls, if there is a context, and connectEstablished
Establish(c, h) ==
  LET open == Apply([SetEvents(c, c.events \cup {"read"}) EXCEPT
                       !.state = "kConnected", !.reason = "kNone", !.active = TRUE,
                       !.reading = TRUE, !.tls = IF use.tls THEN "kTlsHandshaking" ELSE @])
  IN  IF HandshakePending(open) THEN AdvanceHandshake(open, h) ELSE [open EXCEPT !.ups = @ + 1]

ShutdownInLoop(c) ==
  IF "write" \in c.events THEN c
  ELSE [c EXCEPT !.fin = TRUE, !.tls = IF @ = "kTlsEstablished" THEN "kTlsShuttingDown" ELSE @]

FinishPendingWrite(c) ==
  LET resumed == QueueResume(c, c.slot.write)
  IN  IF c.state = "kDisconnecting" THEN ShutdownInLoop(resumed) ELSE resumed

Direct(c) == "write" \notin c.events /\ c.out = <<>>
WantRead(c, r) == IF r.want THEN SetEvents(c, c.events \cup {"read"}) ELSE c

\* A sendInLoop that writes whenever the socket takes it, over buffered output.
SendInLoopEager(c, data, r) ==
  LET taken  == [WantRead(c, r) EXCEPT !.accepted = @ \o data,
                                       !.sent = @ \o SubSeq(data, 1, r.bytes)]
      rest   == SubSeq(data, r.bytes + 1, Len(data))
  IN  CASE c.state = "kDisconnected" -> c
        [] c.state # "kDisconnected" /\ r.status = "kError" -> HandleError(c)
        [] c.state # "kDisconnected" /\ r.status # "kError" /\ rest = <<>> ->
             FinishPendingWrite(taken)
        [] OTHER -> Apply([SetEvents(taken, taken.events \cup {"write"}) EXCEPT !.out = @ \o rest])

\* r is the result of writeRaw, made only when there is nothing buffered.
SendInLoop(c, data, r) ==
  LET direct == Direct(c)
      n      == IF direct THEN r.bytes ELSE 0
      taken  == [(IF direct THEN WantRead(c, r) ELSE c) EXCEPT
                   !.accepted = @ \o data, !.sent = @ \o SubSeq(data, 1, n)]
      rest   == SubSeq(data, n + 1, Len(data))
  IN  IF c.state = "kDisconnected" THEN c
      ELSE IF direct /\ r.status = "kError" THEN HandleError(c)
      ELSE IF rest = <<>> THEN FinishPendingWrite(taken)
      ELSE Apply([SetEvents(taken, taken.events \cup {"write"}) EXCEPT !.out = @ \o rest])

HandleWrite(c, r, h) ==
  LET rest    == SubSeq(c.out, r.bytes + 1, Len(c.out))
      drained == Apply([c EXCEPT !.out = rest, !.sent = @ \o SubSeq(c.out, 1, r.bytes)])
  IN  IF HandshakePending(c) THEN AdvanceHandshake(c, h)
      ELSE IF "write" \notin c.events THEN c
      ELSE IF r.status = "kError" THEN HandleError(c)
      ELSE IF r.status = "kWouldBlock" THEN WantRead(c, r)
      ELSE IF rest = <<>>
           THEN FinishPendingWrite(SetEvents(drained, drained.events \ {"write"})) ELSE drained

\* The message callback consumes everything or, waiting for more, nothing.
HandleRead(c, r, h, consumes) ==
  LET notify == c.slot.read = None
      read   == [(IF r.want THEN SetEvents(c, c.events \cup {"write"}) ELSE c) EXCEPT
                   !.input = @ + r.bytes]
      woken  == IF read.input >= MinBytes THEN QueueResume(read, c.slot.read) ELSE read
  IN  IF HandshakePending(c) THEN AdvanceHandshake(c, h)
      ELSE CASE r.status = "kOk" ->
                  [woken EXCEPT !.input = IF notify /\ consumes THEN 0 ELSE @]
             [] r.status = "kPeerClosed" -> HandleClose(c)
             [] r.status = "kError" -> HandleError(c)
             [] r.status = "kWouldBlock" -> read

-----------------------------------------------------------------------------
(* Awaitables *)

\* The functor of armWaiter.  A second waiter of a kind is refused: on the owner thread
\* by an exception, otherwise by failing the waiter.  r is the result of writeRaw.
ArmWaiter(c, w, synchronous, r) ==
  LET kind  == KindOf(w)
      noted == [c EXCEPT !.registration = @ \cup {w}]
      armed == [noted EXCEPT !.slot[kind] = w]
      ready == CASE kind = "read"  -> c.input >= MinBytes \/ c.state # "kConnected"
                 [] kind \in {"write", "close"} -> c.state = "kDisconnected"
      sent  == SendInLoop(armed, [k \in 1..Size |-> w], r)
  IN  IF c.phase[w] # "Pending" THEN c
      ELSE IF w \in c.canceled THEN CancelWaiter(c, w)
      ELSE IF c.slot[kind] # None
           THEN IF synchronous THEN UnregisterWaiter(noted, w) ELSE FailWaiter(noted, w)
      ELSE IF ready THEN QueueResume(armed, w)
      ELSE IF kind = "write"
           THEN IF Direct(sent) THEN QueueResume(sent, sent.slot.write) ELSE sent
      ELSE armed

\* The functor of queueResume, and await_resume of the coroutine it resumes.
Resume(c, w) ==
  LET done == UnregisterWaiter([c EXCEPT !.phase[w] = "Completed"], w)
  IN  IF c.phase[w] # "Queued" THEN c
      ELSE IF \/ w \notin ReadWaiters \/ c.outcome[w] # "Ready"
              \/ c.input < MinBytes /\ c.state = "kConnected" THEN done
      ELSE [done EXCEPT !.input = 0]

-----------------------------------------------------------------------------
(* The owner loop *)

RunFunctor ==
  /\ pc = "loop" /\ conn.queue # <<>>
  /\ LET f == Head(conn.queue)
         c == [conn EXCEPT !.queue = Tail(@)]
     IN  \/ /\ f.op = "establish"
            /\ \E h \in HandshakeResults([c EXCEPT !.tls = IF use.tls THEN "kTlsHandshaking" ELSE @]) :
                 conn' = Establish(c, h)
         \/ f.op = "send" /\ \E r \in WriteResults(c, Size) : conn' = SendInLoop(c, f.arg, r)
         \/ f.op = "shutdown" /\ conn' = ShutdownInLoop(c)
         \/ f.op = "forceClose" /\ conn' = ForceCloseInLoop(c)
         \/ f.op = "policy" /\ conn' = Configure(c, f.arg)
         \/ f.op = "arm" /\ \E r \in WriteResults(c, Size) : conn' = ArmWaiter(c, f.arg, FALSE, r)
         \/ f.op = "cancel" /\ conn' = CancelWaiter(c, f.arg)
         \/ f.op = "resume" /\ conn' = Resume(c, f.arg)
         \/ f.op \in {"remove", "stop", "destroy"} /\ conn' = Teardown(c, f.op)
  /\ UNCHANGED <<use, pc, todo, sock, remote, owned, calls>>

\* What epoll reports: what the Channel asked for, errors and hangups in any case.
Readable == sock.unread > 0 \/ sock.end # "open"
Reported ==
  {e \in {"close", "error", "read"} :
     CASE e = "read"  -> "read" \in conn.events /\ Readable
       [] e = "error" -> sock.end = "reset"
       [] e = "close" -> sock.end = "reset" \/ (sock.end = "fin" /\ conn.fin)}

\* handleEvent is called with the reported events, and with writability if asked for.
Dispatch ==
  /\ pc = "loop" /\ conn.registered /\ conn.events # {}
  /\ \E writable \in SUBSET (conn.events \cap {"write"}) :
       LET r == Reported \cup writable
       IN  /\ r # {}
           /\ todo' = SelectSeq(<<"close", "error", "read", "write">>,
                                LAMBDA e : e \in r /\ (e = "close" => "read" \notin r))
  /\ pc' = "dispatch"
  /\ UNCHANGED <<use, conn, sock, remote, owned, calls>>

\* One callback of handleEventWithGuard.  User code runs if it notified the application.
Callback ==
  /\ pc = "dispatch" /\ todo # <<>>
  /\ todo' = Tail(todo)
  /\ \/ Head(todo) = "close" /\ conn' = HandleClose(conn) /\ UNCHANGED sock
     \/ Head(todo) = "error" /\ conn' = HandleError(conn) /\ UNCHANGED sock
     \/ /\ Head(todo) = "read"
        /\ \E r \in ReadResults(conn), h \in HandshakeResults(conn), consumes \in BOOLEAN :
             /\ conn' = HandleRead(conn, r, h, consumes)
             /\ sock' = IF HandshakePending(conn) THEN sock ELSE [sock EXCEPT !.unread = @ - r.bytes]
     \/ /\ Head(todo) = "write"
        /\ \E r \in WriteResults(conn, Len(conn.out)), h \in HandshakeResults(conn) :
             conn' = HandleWrite(conn, r, h)
        /\ UNCHANGED sock
  /\ LET message == conn.slot.read = None /\ sock' # sock
     IN  pc' = IF message \/ <<conn'.ups, conn'.downs>> # <<conn.ups, conn.downs>>
               THEN "user" ELSE "dispatch"
  /\ UNCHANGED <<use, remote, owned, calls>>

UserReturns ==
  /\ pc = "user" /\ pc' = "dispatch"
  /\ UNCHANGED <<use, conn, todo, sock, remote, owned, calls>>

DispatchDone ==
  /\ pc = "dispatch" /\ todo = <<>> /\ pc' = "loop"
  /\ UNCHANGED <<use, conn, todo, sock, remote, owned, calls>>

-----------------------------------------------------------------------------
(* Calls of the public API *)

\* A call made by application code on the owner thread, which runs it at once.
OwnerCall == pc \in {"loop", "user"} /\ calls < use.calls /\ calls' = calls + 1
\* A call made on another thread, which posts.
RemoteCall == calls < use.calls /\ calls' = calls + 1

Data(n) == [k \in 1..Size |-> n]

OwnerSend ==
  /\ OwnerCall /\ conn.state = "kConnected"
  /\ \E r \in WriteResults(conn, Size) : conn' = SendInLoop(conn, Data(calls + 1), r)
  /\ UNCHANGED <<use, pc, todo, sock, remote, owned>>

OwnerShutdown ==
  /\ OwnerCall /\ conn.state = "kConnected"
  /\ conn' = ShutdownInLoop([conn EXCEPT !.state = "kDisconnecting"])
  /\ UNCHANGED <<use, pc, todo, sock, remote, owned>>

OwnerForceClose ==
  /\ OwnerCall /\ conn' = ForceCloseInLoop(conn)
  /\ UNCHANGED <<use, pc, todo, sock, remote, owned>>

OwnerSetPolicy ==
  /\ OwnerCall /\ \E p \in use.policies : conn' = Configure(conn, p)
  /\ UNCHANGED <<use, pc, todo, sock, remote, owned>>

RemotePost ==
  /\ RemoteCall
  /\ \/ conn' = Post(conn, Functor("forceClose", None))
     \/ \E p \in use.policies : conn' = Post(conn, Functor("policy", p))
  /\ UNCHANGED <<use, pc, todo, sock, remote, owned>>

\* send() and shutdown() on another thread look at state before they act on it.
RemoteTest ==
  /\ RemoteCall /\ remote = "idle" /\ conn.state = "kConnected"
  /\ remote' \in {"send"} \cup (IF use.remoteShutdown THEN {"shutdown"} ELSE {})
  /\ UNCHANGED <<use, conn, pc, todo, sock, owned>>

RemoteAct ==
  /\ \/ remote = "send" /\ conn' = Post(conn, Functor("send", Data(calls)))
     \/ /\ remote = "shutdown"
        /\ conn' = Post([conn EXCEPT !.state = "kDisconnecting"], Functor("shutdown", None))
  /\ remote' = "idle"
  /\ UNCHANGED <<use, pc, todo, sock, owned, calls>>

\* co_await on the owner thread or on another one.
Await(w) ==
  /\ w \in use.awaits /\ conn.phase[w] = "Unarmed" /\ conn.state # "kConnecting"
  /\ LET c == [conn EXCEPT !.phase[w] = "Pending"]
     IN  \/ OwnerCall /\ \E r \in WriteResults(conn, Size) : conn' = ArmWaiter(c, w, TRUE, r)
         \/ RemoteCall /\ conn' = Post(c, Functor("arm", w))
  /\ UNCHANGED <<use, pc, todo, sock, remote, owned>>

\* The token of w is canceled, on any thread.
Cancel(w) ==
  /\ conn.phase[w] \in {"Pending", "Queued"} /\ w \notin conn.canceled
  /\ LET c == [conn EXCEPT !.canceled = @ \cup {w}]
     IN  conn' = IF w \in conn.registration THEN Post(c, Functor("cancel", w)) ELSE c
  /\ UNCHANGED <<use, pc, todo, sock, remote, owned, calls>>

\* The coroutine frame that awaits w is destroyed, on the owner thread: abandonWaiter.
Abandon(w) ==
  /\ pc \in {"loop", "user"} /\ conn.phase[w] \in {"Pending", "Queued"}
  /\ conn' = UnregisterWaiter([conn EXCEPT !.destroyed = @ \cup {w}], w)
  /\ UNCHANGED <<use, pc, todo, sock, remote, owned, calls>>

-----------------------------------------------------------------------------
(* The server and the peer *)

\* The server takes the connection out of its map, once: after its close notice, in
\* stop(), or in the destructor.  On the connection's own loop the teardown runs at once.
ServerReleases ==
  /\ owned /\ owned' = FALSE
  /\ \E op \in {o \in use.teardowns : o = "remove" => conn.closes > 0} :
       \/ conn' = Post(conn, Functor(op, None))
       \/ /\ pc \in {"loop", "user"} /\ conn.state # "kConnecting"
          /\ conn' = Teardown(conn, op)
  /\ UNCHANGED <<use, pc, todo, sock, remote, calls>>

PeerSends ==
  /\ sock.end = "open" /\ sock.quota > 0
  /\ sock' = [sock EXCEPT !.unread = @ + 1, !.quota = @ - 1]
  /\ UNCHANGED <<use, conn, pc, todo, remote, owned, calls>>

PeerEnds ==
  /\ \/ sock.end = "open" /\ sock' \in {[sock EXCEPT !.end = "fin"], [sock EXCEPT !.end = "reset"]}
     \/ sock.end = "fin" /\ sock' = [sock EXCEPT !.end = "reset"]
  /\ UNCHANGED <<use, conn, pc, todo, remote, owned, calls>>

-----------------------------------------------------------------------------

LoopStep == RunFunctor \/ Dispatch \/ Callback \/ UserReturns \/ DispatchDone
ApiCall ==
  \/ OwnerSend \/ OwnerShutdown \/ OwnerForceClose \/ OwnerSetPolicy
  \/ RemotePost \/ RemoteTest \/ RemoteAct
  \/ \E w \in Waiters : Await(w) \/ Cancel(w) \/ Abandon(w)

Next == LoopStep \/ ApiCall \/ ServerReleases \/ PeerSends \/ PeerEnds

Spec == Init /\ [][Next]_vars

-----------------------------------------------------------------------------
(* Properties *)

Open == conn.state \in {"kConnected", "kDisconnecting"} /\ ~conn.removed

\* What was put on the wire followed by what is buffered is what sendInLoop accepted, in
\* that order: a direct write never overtakes the buffer (TcpConnection.cc:423-447), and the
\* write side of a plain connection is shut down only after the last of it
\* (TcpConnection.cc:450-455, 521-527).
OutputInOrder ==
  /\ TypeOK /\ conn.sent \o conn.out = conn.accepted
  /\ conn.fin /\ Open /\ ~use.tls => conn.out = <<>>

\* What an open connection watches for follows from its output.  The controller suspends
\* reading exactly between high and low water (ConnectionBackpressureController.cc:81-124),
\* and a connection that it lets read does watch for reads: nothing resumes it later.  A
\* plain connection watches for reads only then, and for writability exactly while it has
\* output: nothing else would ever write it (TcpConnection.cc:374-390, 438-447), and writeFd
\* of an empty buffer is taken for an error and closes it (ConnectionTransport.cc:155-170).
\* Under TLS neither converse holds: an SSL call that wants to read enables reading while the
\* controller has suspended it, one that wants to write enables writing without output
\* (ConnectionTransport.cc:103, 213, 253, 285), and the end of the handshake drops the
\* interest of what was sent meanwhile (ConnectionTransport.cc:94-98).
InterestFollowsOutput ==
  Open => /\ conn.reading => "read" \in conn.events
          /\ conn.reading => conn.high = 0 \/ Len(conn.out) < conn.high
          /\ ~conn.reading => conn.high # 0 /\ Len(conn.out) > conn.low
          /\ ~use.tls => /\ "read" \in conn.events => conn.reading
                         /\ "write" \in conn.events <=> conn.out # <<>>

\* The application is told of the connection once, after the handshake if there is one.
\* However many of peer close, errors, forceClose, stop and removal meet, it is told of the
\* disconnect once and the server at most once, a closed connection has no interest left,
\* and a removed Channel, which is destroyed, is not registered again
\* (TcpConnection.cc:212-226, 393-412, 457-462, 481-511).  The last holds of stop() and
\* removal: a server's destructor leaves a half-closed connection open, and a later
\* forceClose() registers its Channel again (TcpConnection.cc:230-239).
ReportedOnce ==
  /\ conn.ups <= 1
  /\ conn.ups = 1 => conn.tls \in (IF use.tls THEN {"kTlsEstablished", "kTlsShuttingDown"} ELSE {"kTlsNone"})
  /\ conn.downs <= 1 /\ conn.closes <= conn.downs
  /\ conn.downs = 1 => conn.events = {}
  /\ conn.removed /\ "destroy" \notin use.teardowns => ~conn.registered

\* Waiters complete when what they wait for has happened, not later and not earlier: one
\* that holds its slot and is still pending waits for bytes, for the end of the output or
\* for the close, and a write that completes on an open connection is entirely on the wire
\* (ConnectionAwaiterRegistry.cc:18-62; TcpConnection.cc:351, 506, 523, 613-632).  A queued
\* one has exactly one resume on its way, and a frame that was destroyed is never resumed
\* (ConnectionAwaiterRegistry.cc:79-101).
WaitersCompleteOnTime ==
  /\ \A w \in Waiters : conn.slot[KindOf(w)] = w /\ conn.phase[w] = "Pending" =>
       /\ conn.state # "kDisconnected"
       /\ w \in ReadWaiters => conn.input < MinBytes
       /\ w \in WriteWaiters => conn.out # <<>>
  /\ \A w \in WriteWaiters :
       Open /\ conn.phase[w] \in {"Queued", "Completed"} /\ conn.outcome[w] = "Ready" =>
         Cardinality({k \in DOMAIN conn.sent : conn.sent[k] = w}) = Size
  /\ \A w \in Waiters :
       /\ conn.phase[w] = "Queued" =>
            Cardinality({k \in DOMAIN conn.queue : conn.queue[k] = Functor("resume", w)}) = 1
       /\ conn.phase[w] = "Completed" => w \notin conn.destroyed

\* A completion that has won is not turned into a cancellation or a failure by a later
\* request (ConnectionAwaiterRegistry.cc:64-77).
CompletionIsFinal ==
  [][\A w \in Waiters : conn.phase[w] \in {"Queued", "Completed"} =>
       conn'.outcome[w] = conn.outcome[w]]_vars
=============================================================================
