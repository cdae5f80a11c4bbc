------------------------------ MODULE EventLoop ------------------------------
(***************************************************************************)
(* mini/net/EventLoop.cc and LoopHandle.cc: one owner thread runs loop(),  *)
(* other threads post functors, either through a raw EventLoop pointer     *)
(* (runInLoop / queueInLoop / quit) or through a LoopHandle, and interrupt *)
(* a blocked poll by writing the wakeup descriptor.                        *)
(*                                                                         *)
(* mutex_ protects only short sections that never block, so each section   *)
(* is one step.  The posting mutex of LoopHandle is held across several    *)
(* steps (push, then wakeup) and is modelled by its holder.                *)
(***************************************************************************)
EXTENDS Naturals, Sequences, FiniteSets, Functions

CONSTANTS Threads,   \* the threads other than the owner thread of the loop
          Functors,  \* identities of functors; each is posted at most once
          None,      \* "no thread" / "no functor"
          CapturesPost \* the destructors of a functor's captures may post to the loop

ASSUME NoneAssumption == None \notin Threads \cup Functors
ASSUME CapturesAssumption == CapturesPost \in BOOLEAN

VARIABLES
  pc,                \* where the owner thread is in loop() (see Points)
  drainingQuit,      \* doPendingFunctors() was called by the loop at line 104
  looping,           \* looping_
  quit,              \* quit_
  callingPending,    \* callingPendingFunctors_
  pendingFunctors,   \* pendingFunctors_
  functors,          \* the local vector of doPendingFunctors, what is left of it
  wakeupFd,          \* the eventfd counter is positive
  wakeupActive,      \* the wakeup channel is in activeChannels_, not yet handled
  postingLoop,       \* postingHandle_.state_->loop is not nullptr
  postingMutex,      \* the thread that holds postingHandle_.state_->mutex, or None
  tpc,               \* where each other thread is in a call on the loop
  arg,               \* the functor a thread holds while it is in LoopHandle::queue
  fresh,             \* functors nobody has posted yet
  accepted,          \* functors for which LoopHandle::queue enqueued its argument
  pushed,            \* history: functors in the order they entered pendingFunctors_
  executed           \* history: functors in the order the loop called them

ownerVars   == <<pc, drainingQuit, looping, callingPending, functors, wakeupActive>>
postingVars == <<postingLoop, postingMutex>>
threadVars  == <<tpc, arg>>
vars == <<ownerVars, postingVars, threadVars, quit, pendingFunctors, wakeupFd,
          fresh, accepted, pushed, executed>>

\* constructed: the constructor is done and loop() was never entered.
\* test: the condition of the while at line 75.   poll: blocked in Poller::poll.
\* dispatch: lines 78-88, channel and timer callbacks.
\* swap: entry of doPendingFunctors.   batch: its for loop, between two functors.
\* body: inside a functor.   release: line 263, the executed functors are destroyed.
\* drain: the check at lines 93-100.
\* returned: loop() has returned.   destroying: ~EventLoop after line 61.
Points == {"constructed", "test", "poll", "dispatch", "swap", "batch", "body",
           "release", "drain", "returned", "destroying", "destroyed"}

\* rawWake: between the unlock of mutex_ and wakeup() in queuePrepared.
\* locked: LoopHandle::queue holds the posting mutex.   admitted: it saw the loop
\* open (line 18).   handleWake: it pushed.
\* quitWake: between quit_ = true and wakeup() in quit().
ThreadPoints == {"idle", "rawWake", "locked", "admitted", "handleWake", "quitWake"}

TypeOK ==
  /\ pc \in Points
  /\ drainingQuit \in BOOLEAN /\ looping \in BOOLEAN /\ quit \in BOOLEAN
  /\ callingPending \in BOOLEAN /\ wakeupFd \in BOOLEAN /\ wakeupActive \in BOOLEAN
  /\ postingLoop \in BOOLEAN /\ postingMutex \in Threads \cup {None}
  /\ pendingFunctors \in Seq(Functors) /\ functors \in Seq(Functors)
  /\ pushed \in Seq(Functors) /\ executed \in Seq(Functors)
  /\ tpc \in [Threads -> ThreadPoints] /\ arg \in [Threads -> Functors \cup {None}]
  /\ fresh \subseteq Functors /\ accepted \subseteq Functors

Init ==
  /\ pc = "constructed" /\ drainingQuit = FALSE /\ looping = FALSE /\ quit = FALSE
  /\ callingPending = FALSE /\ wakeupFd = FALSE /\ wakeupActive = FALSE
  /\ pendingFunctors = <<>> /\ functors = <<>> /\ pushed = <<>> /\ executed = <<>>
  /\ postingLoop = TRUE /\ postingMutex = None
  /\ tpc = [t \in Threads |-> "idle"] /\ arg = [t \in Threads |-> None]
  /\ fresh = Functors /\ accepted = {}

Alive == pc \notin {"destroying", "destroyed"}

-----------------------------------------------------------------------------
(* Posting *)

\* The critical section of queuePrepared.
PushFunctor(f) ==
  /\ pendingFunctors' = Append(pendingFunctors, f)
  /\ pushed' = Append(pushed, f)

\* queueInLoop on another thread (runInLoop there is the same call): the push is
\* visible before the wakeup is written.
QueueInLoop(t, f) ==
  /\ Alive /\ tpc[t] = "idle" /\ f \in fresh
  /\ PushFunctor(f)
  /\ fresh' = fresh \ {f}
  /\ tpc' = [tpc EXCEPT ![t] = "rawWake"]
  /\ UNCHANGED <<ownerVars, postingVars, arg, quit, wakeupFd, accepted, executed>>

\* The wakeup() that ends queuePrepared, or quit(), on another thread.
Wakeup(t) ==
  /\ tpc[t] \in {"rawWake", "quitWake"}
  /\ wakeupFd' = TRUE
  /\ tpc' = [tpc EXCEPT ![t] = "idle"]
  /\ UNCHANGED <<ownerVars, postingVars, arg, quit, pendingFunctors, fresh, accepted,
                 pushed, executed>>

\* quit() on another thread.
Quit(t) ==
  /\ Alive /\ tpc[t] = "idle"
  /\ quit' = TRUE
  /\ tpc' = [tpc EXCEPT ![t] = "quitWake"]
  /\ UNCHANGED <<ownerVars, postingVars, arg, pendingFunctors, wakeupFd, fresh, accepted,
                 pushed, executed>>

\* LoopHandle::queue takes the posting mutex.
HandleLock(t, f) ==
  /\ tpc[t] = "idle" /\ f \in fresh /\ postingMutex = None
  /\ postingMutex' = t
  /\ tpc' = [tpc EXCEPT ![t] = "locked"]
  /\ arg' = [arg EXCEPT ![t] = f]
  /\ fresh' = fresh \ {f}
  /\ UNCHANGED <<ownerVars, postingLoop, quit, pendingFunctors, wakeupFd, accepted,
                 pushed, executed>>

\* LoopHandle::queue finds the loop closed, unlocks and returns false.
HandleReject(t) ==
  /\ tpc[t] = "locked" /\ ~postingLoop
  /\ postingMutex' = None
  /\ tpc' = [tpc EXCEPT ![t] = "idle"]
  /\ arg' = [arg EXCEPT ![t] = None]
  /\ UNCHANGED <<ownerVars, postingLoop, quit, pendingFunctors, wakeupFd, fresh, accepted,
                 pushed, executed>>

\* LoopHandle::queue finds the loop open and goes on to line 19.
HandleAdmit(t) ==
  /\ tpc[t] = "locked" /\ postingLoop
  /\ tpc' = [tpc EXCEPT ![t] = "admitted"]
  /\ UNCHANGED <<ownerVars, postingVars, arg, quit, pendingFunctors, wakeupFd, fresh,
                 accepted, pushed, executed>>

\* A LoopHandle::queue that unlocks after the push and wakes the loop later.
HandlePushUnlocked(t) ==
  /\ tpc[t] = "admitted"
  /\ PushFunctor(arg[t])
  /\ accepted' = accepted \cup {arg[t]}
  /\ postingMutex' = None
  /\ tpc' = [tpc EXCEPT ![t] = "handleWake"]
  /\ UNCHANGED <<ownerVars, postingLoop, arg, quit, wakeupFd, fresh, executed>>

\* queuePrepared inside LoopHandle::queue, up to the unlock of mutex_.
HandlePush(t) ==
  /\ tpc[t] = "admitted"
  /\ PushFunctor(arg[t])
  /\ accepted' = accepted \cup {arg[t]}
  /\ tpc' = [tpc EXCEPT ![t] = "handleWake"]
  /\ UNCHANGED <<ownerVars, postingVars, arg, quit, wakeupFd, fresh, executed>>

\* A queuePrepared that wakes the loop only when loop() is not running.
HandleWakeupSkipped(t) ==
  /\ tpc[t] = "handleWake"
  /\ wakeupFd' = (wakeupFd \/ ~looping)
  /\ postingMutex' = None
  /\ tpc' = [tpc EXCEPT ![t] = "idle"]
  /\ arg' = [arg EXCEPT ![t] = None]
  /\ UNCHANGED <<ownerVars, postingLoop, quit, pendingFunctors, fresh, accepted,
                 pushed, executed>>

\* wakeup() inside LoopHandle::queue, then the unlock and return true.
HandleWakeup(t) ==
  /\ tpc[t] = "handleWake"
  /\ wakeupFd' = TRUE
  /\ postingMutex' = None
  /\ tpc' = [tpc EXCEPT ![t] = "idle"]
  /\ arg' = [arg EXCEPT ![t] = None]
  /\ UNCHANGED <<ownerVars, postingLoop, quit, pendingFunctors, fresh, accepted,
                 pushed, executed>>

-----------------------------------------------------------------------------
(* User code on the owner thread: channel and timer callbacks, functors, and *)
(* what the owner does before loop() is entered and after it has returned;   *)
(* and, at line 263, the destructors of what the executed functors captured. *)
(* A runInLoop there calls its argument at once and queues nothing.          *)

UserCode ==
  \/ pc \in {"constructed", "dispatch", "body", "returned"}
  \/ CapturesPost /\ pc = "release"

\* A queuePrepared that forgets callingPendingFunctors_.
OwnerWakeupOnlyIdle == wakeupFd' = (wakeupFd \/ ~looping)

\* The condition of line 152 on the owner thread.
OwnerWakeup == wakeupFd' = (wakeupFd \/ callingPending \/ ~looping)

OwnerQueueInLoop(f) ==
  /\ UserCode /\ f \in fresh
  /\ PushFunctor(f)
  /\ OwnerWakeup
  /\ fresh' = fresh \ {f}
  /\ UNCHANGED <<ownerVars, postingVars, threadVars, quit, accepted, executed>>

\* LoopHandle::queue on the owner thread; it returns false when the loop is closed.
OwnerHandleQueue(f) ==
  /\ UserCode /\ f \in fresh /\ postingMutex = None
  /\ fresh' = fresh \ {f}
  /\ \/ /\ postingLoop
        /\ PushFunctor(f)
        /\ OwnerWakeup
        /\ accepted' = accepted \cup {f}
     \/ /\ ~postingLoop
        /\ UNCHANGED <<pendingFunctors, pushed, wakeupFd, accepted>>
  /\ UNCHANGED <<ownerVars, postingVars, threadVars, quit, executed>>

OwnerQuit ==
  /\ UserCode
  /\ quit' = TRUE
  /\ UNCHANGED <<ownerVars, postingVars, threadVars, pendingFunctors, wakeupFd, fresh,
                 accepted, pushed, executed>>

-----------------------------------------------------------------------------
(* loop() *)

\* What no step of loop() itself touches.
NotOwner == UNCHANGED <<threadVars, postingMutex, quit, fresh, accepted, pushed>>

\* loop() is entered; after a return it may be entered again.
LoopEnter ==
  /\ pc \in {"constructed", "returned"}
  /\ looping' = TRUE /\ pc' = "test"
  /\ UNCHANGED <<drainingQuit, callingPending, functors, wakeupActive, postingLoop,
                 pendingFunctors, wakeupFd, executed>>
  /\ NotOwner

LoopTest ==
  /\ pc = "test"
  /\ pc' = IF quit THEN "drain" ELSE "poll"
  /\ UNCHANGED <<drainingQuit, looping, callingPending, functors, wakeupActive, postingLoop,
                 pendingFunctors, wakeupFd, executed>>
  /\ NotOwner

\* Poller::poll returns because the wakeup descriptor is readable.
PollWakeup ==
  /\ pc = "poll" /\ wakeupFd
  /\ wakeupActive' = TRUE /\ pc' = "dispatch"
  /\ UNCHANGED <<drainingQuit, looping, callingPending, functors, postingLoop,
                 pendingFunctors, wakeupFd, executed>>
  /\ NotOwner

\* Poller::poll returns for another descriptor, a timer or the 10 s default timeout.
PollOther ==
  /\ pc = "poll" /\ ~wakeupFd
  /\ pc' = "dispatch"
  /\ UNCHANGED <<drainingQuit, looping, callingPending, functors, wakeupActive, postingLoop,
                 pendingFunctors, wakeupFd, executed>>
  /\ NotOwner

\* handleRead of the wakeup channel: the counter is read, hence reset.
HandleRead ==
  /\ pc = "dispatch" /\ wakeupActive
  /\ wakeupActive' = FALSE /\ wakeupFd' = FALSE
  /\ UNCHANGED <<pc, drainingQuit, looping, callingPending, functors, postingLoop,
                 pendingFunctors, executed>>
  /\ NotOwner

\* All active channels and the expired timers have been handled.
DispatchDone ==
  /\ pc = "dispatch" /\ ~wakeupActive
  /\ pc' = "swap"
  /\ UNCHANGED <<drainingQuit, looping, callingPending, functors, wakeupActive, postingLoop,
                 pendingFunctors, wakeupFd, executed>>
  /\ NotOwner

\* doPendingFunctors returns to line 90 or to line 105.
AfterBatch == IF drainingQuit THEN "drain" ELSE "test"

\* A doPendingFunctors that copies the queue and clears it at the end of the batch.
SwapCopies ==
  /\ pc = "swap"
  /\ functors' = pendingFunctors
  /\ callingPending' = (pendingFunctors # <<>>)
  /\ drainingQuit' = (drainingQuit /\ pendingFunctors # <<>>)
  /\ pc' = IF pendingFunctors # <<>> THEN "batch" ELSE AfterBatch
  /\ UNCHANGED <<looping, wakeupActive, postingLoop, pendingFunctors, wakeupFd, executed>>
  /\ NotOwner

\* doPendingFunctors up to the end of its critical section; with an empty queue, all
\* of it (nobody but the owner reads callingPendingFunctors_).
SwapPending ==
  /\ pc = "swap"
  /\ functors' = pendingFunctors /\ pendingFunctors' = <<>>
  /\ callingPending' = (pendingFunctors # <<>>)
  /\ drainingQuit' = (drainingQuit /\ pendingFunctors # <<>>)
  /\ pc' = IF pendingFunctors # <<>> THEN "batch" ELSE AfterBatch
  /\ UNCHANGED <<looping, wakeupActive, postingLoop, wakeupFd, executed>>
  /\ NotOwner

\* The for loop of doPendingFunctors calls the next functor ...
RunFunctor ==
  /\ pc = "batch" /\ functors # <<>>
  /\ functors' = Tail(functors)
  /\ executed' = Append(executed, Head(functors))
  /\ pc' = "body"
  /\ UNCHANGED <<drainingQuit, looping, callingPending, wakeupActive, postingLoop,
                 pendingFunctors, wakeupFd>>
  /\ NotOwner

\* ... which returns.
FunctorReturns ==
  /\ pc = "body"
  /\ pc' = "batch"
  /\ UNCHANGED <<drainingQuit, looping, callingPending, functors, wakeupActive, postingLoop,
                 pendingFunctors, wakeupFd, executed>>
  /\ NotOwner

\* The for loop ends and callingPendingFunctors_ is reset; then the local vector, and
\* with it what the executed functors captured, is destroyed ...
BatchDone ==
  /\ pc = "batch" /\ functors = <<>>
  /\ callingPending' = FALSE
  /\ pc' = "release"
  /\ UNCHANGED <<drainingQuit, looping, functors, wakeupActive, postingLoop,
                 pendingFunctors, wakeupFd, executed>>
  /\ NotOwner

\* ... and doPendingFunctors returns.
ReleaseDone ==
  /\ pc = "release"
  /\ drainingQuit' = FALSE
  /\ pc' = AfterBatch
  /\ UNCHANGED <<looping, callingPending, functors, wakeupActive, postingLoop,
                 pendingFunctors, wakeupFd, executed>>
  /\ NotOwner

\* A loop() that looks at pendingFunctors_ without taking the posting mutex.
DrainUnlocked ==
  /\ pc = "drain"
  /\ IF pendingFunctors = <<>>
     THEN pc' = "returned" /\ postingLoop' = FALSE /\ looping' = FALSE /\ UNCHANGED drainingQuit
     ELSE pc' = "swap" /\ drainingQuit' = TRUE /\ UNCHANGED <<postingLoop, looping>>
  /\ UNCHANGED <<callingPending, functors, wakeupActive, pendingFunctors, wakeupFd, executed>>
  /\ NotOwner

\* The check of lines 93-103 under both mutexes, and the return of loop().
DrainCheck ==
  /\ pc = "drain" /\ postingMutex = None
  /\ IF pendingFunctors = <<>>
     THEN pc' = "returned" /\ postingLoop' = FALSE /\ looping' = FALSE /\ UNCHANGED drainingQuit
     ELSE pc' = "swap" /\ drainingQuit' = TRUE /\ UNCHANGED <<postingLoop, looping>>
  /\ UNCHANGED <<callingPending, functors, wakeupActive, pendingFunctors, wakeupFd, executed>>
  /\ NotOwner

\* ~EventLoop, first half: LoopHandles are closed under the posting mutex.  A raw
\* pointer must not be in use any more: that is the contract of raw callers.
DestroyClose ==
  /\ pc \in {"constructed", "returned"} /\ postingMutex = None
  /\ \A t \in Threads : tpc[t] \notin {"rawWake", "quitWake"}
  /\ postingLoop' = FALSE /\ pc' = "destroying"
  /\ UNCHANGED <<drainingQuit, looping, callingPending, functors, wakeupActive,
                 pendingFunctors, wakeupFd, executed>>
  /\ NotOwner

\* ~EventLoop, second half: descriptors are closed, unexecuted functors discarded.
DestroyRelease ==
  /\ pc = "destroying"
  /\ pendingFunctors' = <<>> /\ wakeupFd' = FALSE /\ pc' = "destroyed"
  /\ UNCHANGED <<drainingQuit, looping, callingPending, functors, wakeupActive, postingLoop,
                 executed>>
  /\ NotOwner

-----------------------------------------------------------------------------

LoopStep ==
  \/ LoopTest \/ PollWakeup \/ HandleRead \/ DispatchDone
  \/ SwapPending \/ RunFunctor \/ FunctorReturns \/ BatchDone \/ ReleaseDone
  \/ DrainCheck

CallStep(t) ==
  Wakeup(t) \/ HandleReject(t) \/ HandleAdmit(t) \/ HandlePush(t) \/ HandleWakeup(t)

Next ==
  \/ LoopEnter \/ LoopStep \/ PollOther \/ DestroyClose \/ DestroyRelease \/ OwnerQuit
  \/ \E f \in Functors : OwnerQueueInLoop(f) \/ OwnerHandleQueue(f)
  \/ \E t \in Threads :
       \/ CallStep(t) \/ Quit(t)
       \/ \E f \in Functors : QueueInLoop(t, f) \/ HandleLock(t, f)

Spec == Init /\ [][Next]_vars

\* The owner keeps running and a thread inside a call keeps running.  Nothing is
\* assumed of PollOther: neither other descriptors nor the poll timeout help.
Fairness == WF_vars(LoopStep) /\ \A t \in Threads : WF_vars(CallStep(t))

FairSpec == Spec /\ Fairness

-----------------------------------------------------------------------------
(* Properties *)

\* A wakeup is on its way: written, or owed by a thread inside queuePrepared or quit.
WakeupComing ==
  wakeupFd \/ \E t \in Threads : tpc[t] \in {"rawWake", "handleWake", "quitWake"}

\* The loop is never blocked in poll() with functors queued or quit requested
\* unless the wakeup that interrupts it is written or about to be
\* (EventLoop.cc:110-155, 181-187, 223-233).  It holds when no captured destructor
\* posts: at line 263 queuePrepared no longer sees callingPendingFunctors_.
NoLostWakeup ==
  pc = "poll" /\ (pendingFunctors # <<>> \/ quit) => WakeupComing

\* A thread inside LoopHandle::queue that has seen the loop open dereferences a
\* loop that is still alive, whatever the owner does meanwhile (LoopHandle.cc:17-19,
\* EventLoop.cc:57-64).
HandleTouchesLiveLoop ==
  \A t \in Threads : tpc[t] \in {"admitted", "handleWake"} => Alive

\* When loop() has returned, every functor that LoopHandle::queue ever accepted has
\* been executed: closing the handle is atomic with the final emptiness check
\* (EventLoop.cc:92-105).
AcceptedWorkDrained ==
  pc = "returned" => accepted \subseteq Range(executed)

\* The loop executes functors exactly in the order in which they were pushed, each
\* once; what was not executed yet is in the batch or in the queue, in that order
\* (EventLoop.cc:134-155, 235-263).
ExecutedInPushOrder ==
  pc # "destroyed" => pushed = executed \o functors \o pendingFunctors

\* The loop is a serial task executor: it accepts through a handle only while open,
\* runs tasks one at a time in order, closes only when nothing is left, and discards
\* work only when it is destroyed without having run.
Executor == INSTANCE TaskExecutor
              WITH Tasks <- Functors, queue <- functors \o pendingFunctors,
                   done <- executed, open <- postingLoop, promised <- accepted
ImplementsTaskExecutor == Executor!Spec

\* What is asked of a running loop happens, without help from timers or other
\* descriptors: a queued functor is executed, and quit() ends loop(), whichever thread
\* called it and whatever is queued (EventLoop.cc:68-115, 134-155).
RequestsServed ==
  /\ \A f \in Functors :
       (looping /\ f \in Range(pendingFunctors)) ~> (f \in Range(executed))
  /\ (looping /\ quit) ~> ~looping
=============================================================================
