------------------------- MODULE EventLoopThreadPool -------------------------
(***************************************************************************)
(* mini/net/EventLoopThreadPool.cc over the workers of EventLoopThread:    *)
(* the base loop's thread starts all workers or none, hands their loops    *)
(* out in turn and stops them, while the workers run, fail or quit.        *)
(*                                                                         *)
(* A behaviour has either a pool, which alone owns its EventLoopThreads,   *)
(* or one EventLoopThread that several controllers share.  The i-th worker *)
(* of the pool is worker i.                                                *)
(***************************************************************************)
EXTENDS EventLoopThread, Sequences

CONSTANTS Base,    \* the controller that is the base loop's thread
          Shared   \* the EventLoopThreads used without a pool

ASSUME PoolAssumption ==
  /\ Base \in Controllers /\ Shared \subseteq Workers
  /\ Workers \subseteq Nat \ {0} /\ \A n \in Workers : 1..n \subseteq Workers

VARIABLES
  pooled,   \* this behaviour has a pool
  pool,     \* the EventLoopThreadPool: state_, numThreads_, next_, and loops_ (threads_ has
            \* the same length)
  frame     \* the call of the base thread: where it is, which worker it is at, and the
            \* loops of the workers it has started or has to stop

vars == <<threadVars, pooled, pool, frame>>

\* start: the loop of lines 46-50.   starting: in startLoop().   request, join: the two
\* loops of stopWorkers().   stopping: in EventLoopThread::stop().
PoolPoints == {"idle", "start", "starting", "request", "join", "stopping"}

TypeOK ==
  /\ ThreadTypeOK
  /\ pooled \in BOOLEAN
  /\ pool \in [state : {"Stopped", "Starting", "Running", "Stopping"}, num : Workers \cup {0},
               next : Nat, loops : Seq(Nat)]
  /\ frame \in [at : PoolPoints, i : Nat, loops : Seq(Nat)]

Idle == [at |-> "idle", i |-> 0, loops |-> <<>>]

Init ==
  /\ ThreadInit
  /\ pooled \in BOOLEAN
  /\ pool = [state |-> "Stopped", num |-> 0, next |-> 0, loops |-> <<>>]
  /\ frame = Idle

-----------------------------------------------------------------------------
(* EventLoopThreads without a pool *)

SharedCall(c, w, at) ==
  /\ ~pooled /\ w \in Shared /\ calls < MaxCalls
  /\ Enter(c, w, at)
  /\ calls' = calls + 1
  /\ UNCHANGED <<pooled, pool, frame>>

StartCall(c, w) == SharedCall(c, w, "check")

StopCall(c, w) == SharedCall(c, w, "stop")

\* Nobody but the pool reaches the EventLoopThreads it owns.
SharedSelfStop(w) == ~pooled /\ SelfStop(w) /\ UNCHANGED <<pooled, pool, frame>>

-----------------------------------------------------------------------------
(* The base thread *)

\* assertStable()
Stable == pool.state \notin {"Starting", "Stopping"}

\* The base thread, outside any call, calls the pool.
PoolCall ==
  /\ pooled /\ frame.at = "idle" /\ Stable
  /\ UNCHANGED <<wk, ctl, pooled>>

\* setThreadNum(): only while stopped.
SetThreadNum(n) ==
  /\ PoolCall /\ pool.state = "Stopped" /\ n # pool.num
  /\ pool' = [pool EXCEPT !.num = n]
  /\ UNCHANGED <<calls, frame>>

\* start(): a running pool is left alone.
Start ==
  /\ PoolCall /\ pool.state # "Running" /\ calls < MaxCalls
  /\ pool' = [pool EXCEPT !.state = "Starting"]
  /\ frame' = [Idle EXCEPT !.at = "start"]
  /\ calls' = calls + 1

\* A fresh EventLoopThread is started ...
StartWorker ==
  /\ frame.at = "start" /\ Len(frame.loops) < pool.num
  /\ Enter(Base, Len(frame.loops) + 1, "check")
  /\ frame' = [frame EXCEPT !.at = "starting"]
  /\ UNCHANGED <<calls, pooled, pool>>

\* A start() that gives up without stopping the workers it has already started.
StartFailsAtOnce ==
  /\ frame.at = "starting" /\ ctl[Base].at = "idle" /\ ctl[Base].threw
  /\ wk' = [wk EXCEPT ![Len(frame.loops) + 1] = NewWorker(@.thread)]
  /\ pool' = [pool EXCEPT !.state = "Stopped"]
  /\ frame' = Idle
  /\ UNCHANGED <<ctl, calls, pooled>>

\* ... and throws: it is destroyed and the others are stopped (lines 52-54), ...
StartFails ==
  /\ frame.at = "starting" /\ ctl[Base].at = "idle" /\ ctl[Base].threw
  /\ wk' = [wk EXCEPT ![Len(frame.loops) + 1] = NewWorker(@.thread)]
  /\ pool' = [pool EXCEPT !.state = "Stopping"]
  /\ frame' = [frame EXCEPT !.at = "request", !.i = 1]
  /\ UNCHANGED <<ctl, calls, pooled>>

\* ... or returns its loop.
WorkerStarted ==
  /\ frame.at = "starting" /\ ctl[Base].at = "idle" /\ ~ctl[Base].threw
  /\ frame' = [frame EXCEPT !.at = "start", !.loops = Append(@, wk[Len(@) + 1].borrowed)]
  /\ UNCHANGED <<threadVars, pooled, pool>>

\* Without workers the base loop's own thread runs the callback, which may throw.  A call
\* it makes of the pool throws as well: the pool is not Stable.
BaseInitThrows ==
  /\ frame.at = "start" /\ pool.num = 0
  /\ pool' = [pool EXCEPT !.state = "Stopped"]
  /\ frame' = Idle
  /\ UNCHANGED <<threadVars, pooled>>

\* Lines 58-61: the workers are published.
AllStarted ==
  /\ frame.at = "start" /\ Len(frame.loops) = pool.num
  /\ pool' = [pool EXCEPT !.state = "Running", !.loops = frame.loops, !.next = 0]
  /\ frame' = Idle
  /\ UNCHANGED <<threadVars, pooled>>

\* stop(), and the destructor, which differs in that nothing is called afterwards.
Stop ==
  /\ PoolCall /\ calls < MaxCalls
  /\ pool' = [pool EXCEPT !.state = "Stopping"]
  /\ frame' = [at |-> "request", i |-> 1, loops |-> pool.loops]
  /\ calls' = calls + 1

\* stopWorkers(): first every worker is asked to stop ...
RequestNext ==
  /\ frame.at = "request"
  /\ IF frame.i <= Len(frame.loops)
     THEN wk' = [wk EXCEPT ![frame.i] = RequestStop(@)] /\ frame' = [frame EXCEPT !.i = @ + 1]
     ELSE UNCHANGED wk /\ frame' = [frame EXCEPT !.at = "join", !.i = 1]
  /\ UNCHANGED <<ctl, calls, pooled, pool>>

\* ... then each is joined ...
StopWorker ==
  /\ frame.at = "join" /\ frame.i <= Len(frame.loops)
  /\ Enter(Base, frame.i, "stop")
  /\ frame' = [frame EXCEPT !.at = "stopping"]
  /\ UNCHANGED <<calls, pooled, pool>>

WorkerStopped ==
  /\ frame.at = "stopping" /\ ctl[Base].at = "idle"
  /\ frame' = [frame EXCEPT !.at = "join", !.i = @ + 1]
  /\ UNCHANGED <<threadVars, pooled, pool>>

\* ... and all are destroyed; the pool is empty and may be started again.
AllStopped ==
  /\ frame.at = "join" /\ frame.i > Len(frame.loops)
  /\ wk' = [w \in Workers |-> IF w \in DOMAIN frame.loops THEN NewWorker(wk[w].thread) ELSE wk[w]]
  /\ pool' = [pool EXCEPT !.state = "Stopped", !.loops = <<>>, !.next = 0]
  /\ frame' = Idle
  /\ UNCHANGED <<ctl, calls, pooled>>

\* running(): under the worker's mutex_.
Running(r) == r.state = "Running" /\ ~r.quit

\* getNextLoop() of a pool with workers; it throws when the worker has quit.
GetNextLoop ==
  /\ PoolCall /\ pool.loops # <<>>
  /\ Running(wk[pool.next + 1])
  /\ pool' = [pool EXCEPT !.next = IF @ + 1 >= Len(pool.loops) THEN 0 ELSE @ + 1]
  /\ UNCHANGED <<calls, frame>>

-----------------------------------------------------------------------------

PoolStep ==
  \/ StartWorker \/ StartFails \/ WorkerStarted \/ AllStarted
  \/ RequestNext \/ StopWorker \/ WorkerStopped \/ AllStopped

Worker(w)  == WorkerStep(w) /\ UNCHANGED <<pooled, pool, frame>>
Control(c) == ControlStep(c) /\ UNCHANGED <<pooled, pool, frame>>

Next ==
  \/ \E w \in Workers : Worker(w) \/ SharedSelfStop(w)
  \/ \E w \in Workers : RawQuit(w) /\ UNCHANGED <<pooled, pool, frame>>
  \/ \E c \in Controllers : Control(c)
  \/ \E c \in Controllers : CreateFails(c) /\ UNCHANGED <<pooled, pool, frame>>
  \/ \E c \in Controllers, w \in Shared : StartCall(c, w) \/ StopCall(c, w)
  \/ PoolStep \/ Start \/ Stop \/ GetNextLoop \/ BaseInitThrows
  \/ \E n \in Workers \cup {0} : SetThreadNum(n)

Spec == Init /\ [][Next]_vars

\* Every thread keeps running: the init callback returns and loop() returns after quit()
\* (EventLoop's RequestsServed); the base thread goes on with the call it is in.
FairSpec ==
  /\ Spec
  /\ \A w \in Workers : WF_vars(Worker(w))
  /\ \A c \in Controllers : WF_vars(Control(c))
  /\ WF_vars(PoolStep)

-----------------------------------------------------------------------------
(* Properties *)

\* All workers or none, and never a dangling loop.  From the moment a worker is started
\* until stop() or a rollback turns to it, the loop the pool recorded for it exists and is
\* the loop of the worker at its index, also if its loop() has returned meanwhile; next_
\* stays an index of loops_; and a stopped pool, also one whose start() failed half-way,
\* has no thread left (EventLoopThreadPool.cc:43-56, 64-95).
PoolAllOrNothing ==
  pooled =>
    /\ \A i \in DOMAIN frame.loops : pool.state = "Starting" => wk[i].alive /\ wk[i].thread = frame.loops[i]
    /\ \A i \in DOMAIN pool.loops : pool.state = "Running" => wk[i].alive /\ wk[i].thread = pool.loops[i]
    /\ pool.state = "Running" => Len(pool.loops) = pool.num /\ (pool.num # 0 => pool.next < pool.num)
    /\ pool.state = "Stopped" => \A w \in Workers : wk[w].pc = "none" /\ ~wk[w].alive /\ ~wk[w].joinable

\* Every call of startLoop() and stop(), and every start() and stop() of a pool, returns
\* or throws, whatever the init callbacks and the callbacks of the loops do
\* (EventLoopThread.cc:21-72, EventLoopThreadPool.cc:36-78).
CallsReturn ==
  /\ \A c \in Controllers : (ctl[c].at # "idle") ~> (ctl[c].at = "idle")
  /\ (frame.at # "idle") ~> (frame.at = "idle")
=============================================================================
