--------------------------- MODULE EventLoopThread ---------------------------
(***************************************************************************)
(* mini/net/EventLoopThread.cc: external threads start and stop worker     *)
(* threads, each of which builds an EventLoop on its stack, publishes a    *)
(* pointer to it, runs it and keeps it until it is told to let go.         *)
(*                                                                         *)
(* controlMutex_ is held across blocking waits and is modelled by its      *)
(* holder; a section under mutex_ never blocks and is one step.  A loop is *)
(* named by the number of the thread that owns it.                         *)
(***************************************************************************)
EXTENDS Naturals

CONSTANTS Workers,      \* EventLoopThread objects
          Controllers,  \* threads that call startLoop() and stop() from outside
          None,         \* "no controller"
          MaxCalls      \* bound of the model: calls made in a behaviour

ASSUME ControllerAssumption == None \notin Controllers /\ MaxCalls \in Nat

VARIABLES
  wk,         \* the EventLoopThreads and their threads, see WorkerType
  ctl,        \* the call each controller is in, see ControlType
  calls       \* history: calls made so far

threadVars == <<wk, ctl, calls>>

States == {"Idle", "Starting", "Running", "Exited", "Stopping", "Stopped", "Failed"}

\* construct: EventLoop's constructor.   publish: lines 102-106.   init: the callback.
\* ready: lines 115-120.   loop: in loop().   returned: lines 122-125.   retain: the
\* wait of line 126.   unpublish: lines 129-132.   destroy: ~EventLoop.
\* finish: lines 137-144.   exited: the thread is done.   none: it was joined.
WorkerPoints == {"none", "construct", "publish", "init", "ready", "loop", "returned",
                 "retain", "unpublish", "destroy", "finish", "exited"}

WorkerType ==
  [state : States, loop : Nat,        \* state_, loop_ (0 for nullptr)
   managed : BOOLEAN,                 \* workerId_ names the current thread
   failure : BOOLEAN,                 \* failure_ holds an exception
   control : Controllers \cup {None}, \* who holds controlMutex_
   joinable : BOOLEAN,                \* thread_ owns a thread that was not joined
   thread : Nat,                      \* the number of the thread created last
   pc : WorkerPoints,                 \* where it is in threadFunc()
   wfail : BOOLEAN,                   \* its local variable failure
   alive : BOOLEAN, quit : BOOLEAN,   \* its EventLoop exists; quit_ of it
   borrowed : Nat,                    \* history: the loop startLoop() returned last
   stopAsked : BOOLEAN]               \* history: requestStop() since the thread was created

\* check: line 30.   startJoin, create, wait, failJoin: the rest of startLoop().
\* stop: line 70.   stopJoin: line 71.   threw: how the last call ended.
ControlType ==
  [at : {"idle", "check", "startJoin", "create", "wait", "failJoin", "stop", "stopJoin"},
   w : Workers \cup {None}, threw : BOOLEAN]

ThreadTypeOK ==
  /\ wk \in [Workers -> WorkerType] /\ ctl \in [Controllers -> ControlType] /\ calls \in Nat
  /\ \A c \in Controllers : ctl[c].at # "idle" => ctl[c].w \in Workers
  /\ \A c \in Controllers, w \in Workers : ctl[c].at # "idle" /\ ctl[c].w = w <=> wk[w].control = c

\* A new EventLoopThread, whose threads are numbered from n + 1.
NewWorker(n) ==
  [state |-> "Idle", loop |-> 0, managed |-> FALSE, failure |-> FALSE, control |-> None,
   joinable |-> FALSE, thread |-> n, pc |-> "none", wfail |-> FALSE, alive |-> FALSE,
   quit |-> FALSE, borrowed |-> 0, stopAsked |-> FALSE]

ThreadInit ==
  /\ wk = [w \in Workers |-> NewWorker(0)]
  /\ ctl = [c \in Controllers |-> [at |-> "idle", w |-> None, threw |-> FALSE]]
  /\ calls = 0

-----------------------------------------------------------------------------
(* requestStop() *)

\* A requestStopLocked() that leaves a naturally exited worker alone.
RequestStopRunning(r) ==
  [r EXCEPT !.state = IF @ \in {"Starting", "Running"} THEN "Stopping" ELSE @,
            !.quit = @ \/ r.loop # 0, !.stopAsked = TRUE]

\* requestStop(): under mutex_, through the wakeup of the loop.
RequestStop(r) ==
  [r EXCEPT !.state = IF @ \in {"Starting", "Running", "Exited"} THEN "Stopping" ELSE @,
            !.quit = @ \/ r.loop # 0, !.stopAsked = TRUE]

-----------------------------------------------------------------------------
(* Controllers *)

Goto(c, at) == ctl' = [ctl EXCEPT ![c].at = at]

\* A controller takes the controlMutex_ of w for startLoop() or for stop() ...
Enter(c, w, at) ==
  /\ ctl[c].at = "idle" /\ wk[w].control = None
  /\ wk' = [wk EXCEPT ![w].control = c]
  /\ ctl' = [ctl EXCEPT ![c] = [at |-> at, w |-> w, threw |-> FALSE]]

\* ... and unlocks it when the call ends, leaving the worker as r.
Leave(c, r, throws) ==
  /\ wk' = [wk EXCEPT ![ctl[c].w] = [r EXCEPT !.control = None]]
  /\ ctl' = [ctl EXCEPT ![c] = [@ EXCEPT !.at = "idle", !.threw = throws]]

\* thread_.join()
CanJoin(r) == r.joinable => r.pc = "exited"
Joined(r)  == [r EXCEPT !.joinable = FALSE, !.pc = "none"]

\* Lines 29-33: a running worker is returned, one that has left loop() is released.
StartCheck(c) ==
  /\ ctl[c].at = "check"
  /\ LET r == wk[ctl[c].w]
     IN  \/ r.state = "Running" /\ Leave(c, [r EXCEPT !.borrowed = r.loop], FALSE)
         \/ r.state # "Running" /\ wk' = [wk EXCEPT ![ctl[c].w] = RequestStop(@)] /\ Goto(c, "startJoin")
  /\ UNCHANGED calls

\* Lines 34-41: join the previous thread, if any, and enter Starting.
StartJoin(c) ==
  /\ ctl[c].at = "startJoin" /\ CanJoin(wk[ctl[c].w])
  /\ wk' = [wk EXCEPT ![ctl[c].w] = [Joined(@) EXCEPT !.state = "Starting", !.failure = FALSE]]
  /\ Goto(c, "create")
  /\ UNCHANGED calls

\* Line 43: the thread starts ...
CreateThread(c) ==
  /\ ctl[c].at = "create"
  /\ LET r == wk[ctl[c].w]
     IN  wk' = [wk EXCEPT ![ctl[c].w] =
                  [r EXCEPT !.joinable = TRUE, !.thread = r.thread + 1, !.pc = "construct",
                            !.wfail = FALSE, !.stopAsked = FALSE]]
  /\ Goto(c, "wait")
  /\ UNCHANGED calls

\* ... or cannot be created.
CreateFails(c) ==
  /\ ctl[c].at = "create"
  /\ Leave(c, [wk[ctl[c].w] EXCEPT !.state = "Failed", !.failure = TRUE], TRUE)
  /\ UNCHANGED calls

\* The wait of line 52 ends with a loop that is, or was, running, or with a thread that has
\* ended.
StartWait(c) ==
  /\ ctl[c].at = "wait"
  /\ LET r == wk[ctl[c].w]
     IN  \/ r.state \in {"Running", "Exited"} /\ Leave(c, [r EXCEPT !.borrowed = r.loop], FALSE)
         \/ r.state \in {"Stopped", "Failed"} /\ Goto(c, "failJoin") /\ UNCHANGED wk
  /\ UNCHANGED calls

\* Lines 59-61: join it and throw.
StartThrows(c) ==
  /\ ctl[c].at = "failJoin" /\ CanJoin(wk[ctl[c].w])
  /\ Leave(c, Joined(wk[ctl[c].w]), TRUE)
  /\ UNCHANGED calls

StopRequest(c) ==
  /\ ctl[c].at = "stop"
  /\ wk' = [wk EXCEPT ![ctl[c].w] = RequestStop(@)]
  /\ Goto(c, "stopJoin")
  /\ UNCHANGED calls

\* Line 71: join, unlock and return.
StopJoin(c) ==
  /\ ctl[c].at = "stopJoin" /\ CanJoin(wk[ctl[c].w])
  /\ Leave(c, Joined(wk[ctl[c].w]), FALSE)
  /\ UNCHANGED calls

-----------------------------------------------------------------------------
(* threadFunc() *)

\* The thread of w, at the point pc, leaves w as one of rs.
Step(w, pc, rs) ==
  /\ wk[w].pc = pc
  /\ \E r \in rs : wk' = [wk EXCEPT ![w] = r]
  /\ UNCHANGED <<ctl, calls>>

\* The constructor may throw.
Construct(w) ==
  Step(w, "construct", {[wk[w] EXCEPT !.alive = TRUE, !.quit = FALSE, !.pc = "publish"],
                        [wk[w] EXCEPT !.wfail = TRUE, !.pc = "finish"]})

Publish(w) ==
  Step(w, "publish", {[wk[w] EXCEPT !.managed = TRUE, !.loop = wk[w].thread, !.pc = "init"]})

\* The worker's own code, in the init callback or in a callback of loop(), calls stop():
\* isManagedThread() holds, so nothing is joined.
SelfStop(w) ==
  /\ wk[w].pc \in {"init", "loop"} /\ wk[w].managed
  /\ wk' = [wk EXCEPT ![w] = RequestStop(@)]
  /\ UNCHANGED <<ctl, calls>>

\* EventLoop::quit() through the raw pointer, which the init callback may hand out.
RawQuit(w) ==
  /\ wk[w].pc \in {"init", "ready", "loop"}
  /\ wk' = [wk EXCEPT ![w].quit = TRUE]
  /\ UNCHANGED <<ctl, calls>>

\* A threadFunc() that does not look at the quit flag after the init callback.
InitDoneUnchecked(w) == Step(w, "init", {[wk[w] EXCEPT !.pc = "ready"]})

\* The init callback throws, or returns with quit requested: the startup has failed.
InitDone(w) ==
  Step(w, "init", {[wk[w] EXCEPT !.wfail = failed, !.pc = IF failed THEN "unpublish" ELSE "ready"] :
                     failed \in {TRUE, wk[w].quit}})

SetRunning(w) == Step(w, "ready", {[wk[w] EXCEPT !.state = "Running", !.pc = "loop"]})

LoopReturns(w) == wk[w].quit /\ Step(w, "loop", {[wk[w] EXCEPT !.pc = "returned"]})

\* A threadFunc() that destroys its loop when loop() returns.
ExitAtOnce(w) ==
  Step(w, "returned", {[wk[w] EXCEPT !.state = IF @ = "Stopping" THEN @ ELSE "Exited", !.pc = "unpublish"]})

\* Lines 122-126: a worker nobody told to stop keeps its loop.
Exit(w) ==
  Step(w, "returned", {IF wk[w].state = "Stopping" THEN [wk[w] EXCEPT !.pc = "unpublish"]
                       ELSE [wk[w] EXCEPT !.state = "Exited", !.pc = "retain"]})

Retained(w) == wk[w].state = "Stopping" /\ Step(w, "retain", {[wk[w] EXCEPT !.pc = "unpublish"]})

Unpublish(w) == Step(w, "unpublish", {[wk[w] EXCEPT !.loop = 0, !.pc = "destroy"]})

Destroy(w) == Step(w, "destroy", {[wk[w] EXCEPT !.alive = FALSE, !.pc = "finish"]})

Finish(w) ==
  Step(w, "finish", {[wk[w] EXCEPT !.loop = 0, !.managed = FALSE, !.failure = wk[w].wfail,
                        !.state = IF wk[w].wfail THEN "Failed" ELSE "Stopped", !.pc = "exited"]})

-----------------------------------------------------------------------------

WorkerStep(w) ==
  \/ Construct(w) \/ Publish(w) \/ InitDone(w) \/ SetRunning(w) \/ LoopReturns(w)
  \/ Exit(w) \/ Retained(w) \/ Unpublish(w) \/ Destroy(w) \/ Finish(w)

ControlStep(c) ==
  \/ StartCheck(c) \/ StartJoin(c) \/ CreateThread(c) \/ StartWait(c) \/ StartThrows(c)
  \/ StopRequest(c) \/ StopJoin(c)

-----------------------------------------------------------------------------
(* Properties *)

\* Every pointer to an EventLoop that somebody may use points to one that exists: while
\* loop_ is set, so that the quit() requestStopLocked makes under mutex_ never touches a
\* destroyed loop, and what startLoop() returned, also after loop() has returned, until
\* somebody asks for a stop or a restart (EventLoopThread.cc:56, 84-91, 122-133).
LoopPointersLive ==
  /\ ThreadTypeOK
  /\ \A w \in Workers :
       /\ wk[w].loop # 0 => wk[w].alive /\ wk[w].loop = wk[w].thread
       /\ wk[w].borrowed = wk[w].thread /\ wk[w].thread # 0 /\ ~wk[w].stopAsked => wk[w].alive

\* What a call has established when it ends.  startLoop() never returns nullptr, the loop
\* of an earlier thread, a loop whose init callback failed or one that was already told to
\* stop; a controller that returns from stop(), or throws from startLoop(), leaves no
\* thread behind; and a thread is created only when the previous one was joined
\* (EventLoopThread.cc:25-36, 51-61, 69-72, 107-119).
CallsKeepPromise ==
  [][/\ \A c \in Controllers : ctl[c].at # "idle" /\ ctl'[c].at = "idle" =>
          LET r == wk[ctl[c].w] IN
          IF ctl[c].at \in {"check", "wait"}
          THEN LET b == wk'[ctl[c].w].borrowed
               IN  b = r.thread /\ b # 0 /\ r.alive /\ ~r.wfail /\ ~r.stopAsked
          ELSE LET q == wk'[ctl[c].w] IN q.pc = "none" /\ ~q.alive /\ q.loop = 0
     /\ \A w \in Workers : wk'[w].thread # wk[w].thread => wk[w].pc = "none" /\ ~wk[w].alive]_threadVars
=============================================================================
