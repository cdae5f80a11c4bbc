--------------------------- MODULE EventLoopProofs ---------------------------
(***************************************************************************)
(* Proofs about EventLoop for any set of threads and functors.             *)
(***************************************************************************)
EXTENDS EventLoop, TLAPS

-----------------------------------------------------------------------------
(* Facts about sequences *)

\* Appending to the second part of a concatenation appends to the whole.
LEMMA ConcatAppend ==
  ASSUME NEW S, NEW s \in Seq(S), NEW t \in Seq(S), NEW e \in S
  PROVE  s \o Append(t, e) = Append(s \o t, e)
  OBVIOUS

\* Moving the head of the second part to the end of the first changes nothing.
LEMMA ConcatHeadTail ==
  ASSUME NEW S, NEW s \in Seq(S), NEW t \in Seq(S), t # <<>>
  PROVE  Append(s, Head(t)) \o Tail(t) = s \o t
  OBVIOUS

\* The empty sequence is neutral on either side of a concatenation.
LEMMA ConcatEmpty ==
  ASSUME NEW S, NEW s \in Seq(S)
  PROVE  s \o <<>> = s /\ <<>> \o s = s
  OBVIOUS

\* A concatenation starts with its first part.
LEMMA ConcatFirst ==
  ASSUME NEW S, NEW s \in Seq(S), NEW t \in Seq(S), s # <<>>
  PROVE  /\ s \o t # <<>>
         /\ Head(s \o t) = Head(s)
         /\ Tail(s \o t) = Tail(s) \o t
  OBVIOUS

\* Append adds exactly the appended element to the range.
LEMMA RangeAppend ==
  ASSUME NEW S, NEW s \in Seq(S), NEW e \in S
  PROVE  Range(Append(s, e)) = Range(s) \cup {e}
  <1> DEFINE a == Append(s, e)
  <1>1. /\ Len(s) \in Nat /\ DOMAIN s = 1..Len(s)
        /\ DOMAIN a = 1..(Len(s) + 1)
        /\ a[Len(s) + 1] = e
        /\ \A i \in 1..Len(s) : a[i] = s[i]
    OBVIOUS
  <1> HIDE DEF a
  <1>2. ASSUME NEW x \in Range(a)
        PROVE  x \in Range(s) \cup {e}
    <2>1. PICK i \in 1..(Len(s) + 1) : x = a[i]
      BY <1>1, <1>2 DEF Range
    <2>2. CASE i \in 1..Len(s)
      BY <1>1, <2>1, <2>2 DEF Range
    <2>3. CASE i = Len(s) + 1
      BY <1>1, <2>1, <2>3
    <2> QED  BY <1>1, <2>1, <2>2, <2>3
  <1>3. ASSUME NEW x \in Range(s)
        PROVE  x \in Range(a)
    <2>1. PICK i \in 1..Len(s) : x = s[i]
      BY <1>1, <1>3 DEF Range
    <2>2. i \in DOMAIN a /\ a[i] = x
      BY <1>1, <2>1
    <2> QED  BY <2>2 DEF Range
  <1>4. e \in Range(a)
    <2>1. Len(s) + 1 \in DOMAIN a /\ a[Len(s) + 1] = e
      BY <1>1
    <2> QED  BY <2>1 DEF Range
  <1> QED  BY <1>2, <1>3, <1>4 DEF a

-----------------------------------------------------------------------------
(* The inductive invariant *)

\* What the owner's position says about its flags and its local batch.
OwnerInv ==
  /\ looping <=> pc \notin {"constructed", "returned", "destroying", "destroyed"}
  /\ callingPending <=> pc \in {"batch", "body"}
  /\ pc \notin {"batch", "body"} => functors = <<>>
  /\ pc = "constructed" => executed = <<>>

\* The posting mutex is held exactly by the thread inside LoopHandle::queue, and an
\* admitted poster keeps the handle open, which keeps the loop alive.
PostingInv ==
  /\ \A t \in Threads : tpc[t] \in {"locked", "admitted", "handleWake"} <=> postingMutex = t
  /\ \A t \in Threads : tpc[t] \in {"locked", "admitted", "handleWake"} => arg[t] \in Functors
  /\ \A t \in Threads : tpc[t] \in {"admitted", "handleWake"} => postingLoop
  /\ postingLoop => Alive
  /\ pc = "returned" => ~postingLoop

\* Outside the window between poll() and the swap, queued work has a wakeup, unless a
\* captured destructor posted it; inside it the swap is still to come.
WakeupInv ==
  /\ ~CapturesPost /\ pc \notin {"dispatch", "swap", "destroying", "destroyed"}
       /\ pendingFunctors # <<>>
       => WakeupComing
  /\ pc = "poll" /\ quit => WakeupComing

\* Accepted functors are in the push history, and executed once loop() has closed
\* the handle.
AcceptedInv ==
  /\ accepted \subseteq Range(pushed)
  /\ ~postingLoop /\ Alive => accepted \subseteq Range(executed)

IInv ==
  TypeOK /\ OwnerInv /\ PostingInv /\ WakeupInv /\ AcceptedInv /\ ExecutedInPushOrder

\* Every step preserves the types.
LEMMA TypeStep == IInv /\ [Next]_vars => TypeOK'
  <1> SUFFICES ASSUME IInv, [Next]_vars
               PROVE  TypeOK'
    OBVIOUS
  <1> USE DEF IInv, TypeOK, PostingInv, Points, ThreadPoints, AfterBatch
  <1> USE DEF NotOwner, ownerVars, postingVars, threadVars
  <1>1. CASE LoopEnter
    BY <1>1 DEF LoopEnter
  <1>2. CASE LoopTest
    BY <1>2 DEF LoopTest
  <1>3. CASE PollWakeup
    BY <1>3 DEF PollWakeup
  <1>4. CASE PollOther
    BY <1>4 DEF PollOther
  <1>5. CASE HandleRead
    BY <1>5 DEF HandleRead
  <1>6. CASE DispatchDone
    BY <1>6 DEF DispatchDone
  <1>7. CASE SwapPending
    BY <1>7 DEF SwapPending
  <1>8. CASE RunFunctor
    BY <1>8 DEF RunFunctor
  <1>9. CASE FunctorReturns
    BY <1>9 DEF FunctorReturns
  <1>10. CASE BatchDone
    BY <1>10 DEF BatchDone
  <1>11. CASE ReleaseDone
    BY <1>11 DEF ReleaseDone
  <1>12. CASE DrainCheck
    BY <1>12 DEF DrainCheck
  <1>13. CASE DestroyClose
    BY <1>13 DEF DestroyClose
  <1>14. CASE DestroyRelease
    <2>1. <<>> \in Seq(Functors)
      OBVIOUS
    <2> QED  BY <1>14, <2>1 DEF DestroyRelease
  <1>15. CASE OwnerQuit
    BY <1>15 DEF OwnerQuit
  <1>16. ASSUME NEW f \in Functors, OwnerQueueInLoop(f)  PROVE TypeOK'
    BY <1>16 DEF OwnerQueueInLoop, PushFunctor, OwnerWakeup
  <1>17. ASSUME NEW f \in Functors, OwnerHandleQueue(f)  PROVE TypeOK'
    <2>1. CASE postingLoop
      <3>1. Append(pendingFunctors, f) \in Seq(Functors) /\ Append(pushed, f) \in Seq(Functors)
        OBVIOUS
      <3> QED  BY <1>17, <2>1, <3>1 DEF OwnerHandleQueue, PushFunctor, OwnerWakeup
    <2>2. CASE ~postingLoop
      BY <1>17, <2>2 DEF OwnerHandleQueue
    <2> QED  BY <2>1, <2>2
  <1>18. ASSUME NEW t \in Threads, NEW f \in Functors, QueueInLoop(t, f)  PROVE TypeOK'
    BY <1>18 DEF QueueInLoop, PushFunctor
  <1>19. ASSUME NEW t \in Threads, NEW f \in Functors, HandleLock(t, f)  PROVE TypeOK'
    BY <1>19 DEF HandleLock
  <1>20. ASSUME NEW t \in Threads, Wakeup(t)  PROVE TypeOK'
    BY <1>20 DEF Wakeup
  <1>21. ASSUME NEW t \in Threads, Quit(t)  PROVE TypeOK'
    BY <1>21 DEF Quit
  <1>22. ASSUME NEW t \in Threads, HandleReject(t)  PROVE TypeOK'
    BY <1>22 DEF HandleReject
  <1>23. ASSUME NEW t \in Threads, HandleAdmit(t)  PROVE TypeOK'
    BY <1>23 DEF HandleAdmit
  <1>24. ASSUME NEW t \in Threads, HandlePush(t)  PROVE TypeOK'
    BY <1>24 DEF HandlePush, PushFunctor
  <1>25. ASSUME NEW t \in Threads, HandleWakeup(t)  PROVE TypeOK'
    BY <1>25 DEF HandleWakeup
  <1>26. CASE UNCHANGED vars
    BY <1>26 DEF vars
  <1> QED
    BY <1>1, <1>2, <1>3, <1>4, <1>5, <1>6, <1>7, <1>8, <1>9, <1>10, <1>11, <1>12,
       <1>13, <1>14, <1>15, <1>16, <1>17, <1>18, <1>19, <1>20, <1>21, <1>22, <1>23,
       <1>24, <1>25, <1>26 DEF Next, LoopStep, CallStep

\* Every step keeps the owner's flags in line with its position.
LEMMA OwnerStep == IInv /\ [Next]_vars => OwnerInv'
  <1> SUFFICES ASSUME IInv, [Next]_vars
               PROVE  OwnerInv'
    OBVIOUS
  <1> USE DEF IInv, TypeOK, OwnerInv, UserCode, Points, AfterBatch
  <1> USE DEF NotOwner, ownerVars, postingVars, threadVars
  <1>1. CASE LoopEnter
    BY <1>1 DEF LoopEnter
  <1>2. CASE LoopTest
    BY <1>2 DEF LoopTest
  <1>3. CASE PollWakeup
    BY <1>3 DEF PollWakeup
  <1>4. CASE PollOther
    BY <1>4 DEF PollOther
  <1>5. CASE HandleRead
    BY <1>5 DEF HandleRead
  <1>6. CASE DispatchDone
    BY <1>6 DEF DispatchDone
  <1>7. CASE SwapPending
    BY <1>7 DEF SwapPending
  <1>8. CASE RunFunctor
    BY <1>8 DEF RunFunctor
  <1>9. CASE FunctorReturns
    BY <1>9 DEF FunctorReturns
  <1>10. CASE BatchDone
    BY <1>10 DEF BatchDone
  <1>11. CASE ReleaseDone
    BY <1>11 DEF ReleaseDone
  <1>12. CASE DrainCheck
    BY <1>12 DEF DrainCheck
  <1>13. CASE DestroyClose
    BY <1>13 DEF DestroyClose
  <1>14. CASE DestroyRelease
    BY <1>14 DEF DestroyRelease
  <1>15. CASE OwnerQuit
    BY <1>15 DEF OwnerQuit
  <1>16. ASSUME NEW f \in Functors, OwnerQueueInLoop(f)  PROVE OwnerInv'
    BY <1>16 DEF OwnerQueueInLoop
  <1>17. ASSUME NEW f \in Functors, OwnerHandleQueue(f)  PROVE OwnerInv'
    BY <1>17 DEF OwnerHandleQueue
  <1>18. ASSUME NEW t \in Threads, NEW f \in Functors, QueueInLoop(t, f)  PROVE OwnerInv'
    BY <1>18 DEF QueueInLoop
  <1>19. ASSUME NEW t \in Threads, NEW f \in Functors, HandleLock(t, f)  PROVE OwnerInv'
    BY <1>19 DEF HandleLock
  <1>20. ASSUME NEW t \in Threads, Wakeup(t)  PROVE OwnerInv'
    BY <1>20 DEF Wakeup
  <1>21. ASSUME NEW t \in Threads, Quit(t)  PROVE OwnerInv'
    BY <1>21 DEF Quit
  <1>22. ASSUME NEW t \in Threads, HandleReject(t)  PROVE OwnerInv'
    BY <1>22 DEF HandleReject
  <1>23. ASSUME NEW t \in Threads, HandleAdmit(t)  PROVE OwnerInv'
    BY <1>23 DEF HandleAdmit
  <1>24. ASSUME NEW t \in Threads, HandlePush(t)  PROVE OwnerInv'
    BY <1>24 DEF HandlePush
  <1>25. ASSUME NEW t \in Threads, HandleWakeup(t)  PROVE OwnerInv'
    BY <1>25 DEF HandleWakeup
  <1>26. CASE UNCHANGED vars
    BY <1>26 DEF vars
  <1> QED
    BY <1>1, <1>2, <1>3, <1>4, <1>5, <1>6, <1>7, <1>8, <1>9, <1>10, <1>11, <1>12,
       <1>13, <1>14, <1>15, <1>16, <1>17, <1>18, <1>19, <1>20, <1>21, <1>22, <1>23,
       <1>24, <1>25, <1>26 DEF Next, LoopStep, CallStep

\* Every step preserves the posting protocol.
LEMMA PostingStep == IInv /\ [Next]_vars => PostingInv'
  <1> SUFFICES ASSUME IInv, [Next]_vars
               PROVE  PostingInv'
    OBVIOUS
  <1> USE NoneAssumption DEF IInv, TypeOK, OwnerInv, PostingInv, Alive, UserCode, ThreadPoints, AfterBatch
  <1> USE DEF NotOwner, ownerVars, postingVars, threadVars
  <1>1. CASE LoopEnter
    BY <1>1 DEF LoopEnter
  <1>2. CASE LoopTest
    BY <1>2 DEF LoopTest
  <1>3. CASE PollWakeup
    BY <1>3 DEF PollWakeup
  <1>4. CASE PollOther
    BY <1>4 DEF PollOther
  <1>5. CASE HandleRead
    BY <1>5 DEF HandleRead
  <1>6. CASE DispatchDone
    BY <1>6 DEF DispatchDone
  <1>7. CASE SwapPending
    BY <1>7 DEF SwapPending
  <1>8. CASE RunFunctor
    BY <1>8 DEF RunFunctor
  <1>9. CASE FunctorReturns
    BY <1>9 DEF FunctorReturns
  <1>10. CASE BatchDone
    BY <1>10 DEF BatchDone
  <1>11. CASE ReleaseDone
    BY <1>11 DEF ReleaseDone
  <1>12. CASE DrainCheck
    BY <1>12 DEF DrainCheck
  <1>13. CASE DestroyClose
    BY <1>13 DEF DestroyClose
  <1>14. CASE DestroyRelease
    BY <1>14 DEF DestroyRelease
  <1>15. CASE OwnerQuit
    BY <1>15 DEF OwnerQuit
  <1>16. ASSUME NEW f \in Functors, OwnerQueueInLoop(f)  PROVE PostingInv'
    BY <1>16 DEF OwnerQueueInLoop
  <1>17. ASSUME NEW f \in Functors, OwnerHandleQueue(f)  PROVE PostingInv'
    BY <1>17 DEF OwnerHandleQueue
  <1>18. ASSUME NEW t \in Threads, NEW f \in Functors, QueueInLoop(t, f)  PROVE PostingInv'
    BY <1>18 DEF QueueInLoop
  <1>19. ASSUME NEW t \in Threads, NEW f \in Functors, HandleLock(t, f)  PROVE PostingInv'
    BY <1>19 DEF HandleLock
  <1>20. ASSUME NEW t \in Threads, Wakeup(t)  PROVE PostingInv'
    BY <1>20 DEF Wakeup
  <1>21. ASSUME NEW t \in Threads, Quit(t)  PROVE PostingInv'
    BY <1>21 DEF Quit
  <1>22. ASSUME NEW t \in Threads, HandleReject(t)  PROVE PostingInv'
    BY <1>22 DEF HandleReject
  <1>23. ASSUME NEW t \in Threads, HandleAdmit(t)  PROVE PostingInv'
    BY <1>23 DEF HandleAdmit
  <1>24. ASSUME NEW t \in Threads, HandlePush(t)  PROVE PostingInv'
    BY <1>24 DEF HandlePush
  <1>25. ASSUME NEW t \in Threads, HandleWakeup(t)  PROVE PostingInv'
    BY <1>25 DEF HandleWakeup
  <1>26. CASE UNCHANGED vars
    BY <1>26 DEF vars
  <1> QED
    BY <1>1, <1>2, <1>3, <1>4, <1>5, <1>6, <1>7, <1>8, <1>9, <1>10, <1>11, <1>12,
       <1>13, <1>14, <1>15, <1>16, <1>17, <1>18, <1>19, <1>20, <1>21, <1>22, <1>23,
       <1>24, <1>25, <1>26 DEF Next, LoopStep, CallStep

\* Every step leaves queued work, or quit, with a wakeup when the loop may block.
LEMMA WakeupStep == IInv /\ [Next]_vars => WakeupInv'
  <1> SUFFICES ASSUME IInv, [Next]_vars
               PROVE  WakeupInv'
    OBVIOUS
  <1> USE DEF IInv, TypeOK, OwnerInv, WakeupInv, WakeupComing, UserCode, ThreadPoints, AfterBatch
  <1> USE DEF NotOwner, ownerVars, postingVars, threadVars
  <1>1. CASE LoopEnter
    BY <1>1 DEF LoopEnter
  <1>2. CASE LoopTest
    BY <1>2 DEF LoopTest
  <1>3. CASE PollWakeup
    BY <1>3 DEF PollWakeup
  <1>4. CASE PollOther
    BY <1>4 DEF PollOther
  <1>5. CASE HandleRead
    BY <1>5 DEF HandleRead
  <1>6. CASE DispatchDone
    BY <1>6 DEF DispatchDone
  <1>7. CASE SwapPending
    BY <1>7 DEF SwapPending
  <1>8. CASE RunFunctor
    BY <1>8 DEF RunFunctor
  <1>9. CASE FunctorReturns
    BY <1>9 DEF FunctorReturns
  <1>10. CASE BatchDone
    BY <1>10 DEF BatchDone
  <1>11. CASE ReleaseDone
    BY <1>11 DEF ReleaseDone
  <1>12. CASE DrainCheck
    BY <1>12 DEF DrainCheck
  <1>13. CASE DestroyClose
    BY <1>13 DEF DestroyClose
  <1>14. CASE DestroyRelease
    BY <1>14 DEF DestroyRelease
  <1>15. CASE OwnerQuit
    BY <1>15 DEF OwnerQuit
  <1>16. ASSUME NEW f \in Functors, OwnerQueueInLoop(f)  PROVE WakeupInv'
    BY <1>16 DEF OwnerQueueInLoop, PushFunctor, OwnerWakeup
  <1>17. ASSUME NEW f \in Functors, OwnerHandleQueue(f)  PROVE WakeupInv'
    <2>1. CASE postingLoop
      BY <1>17, <2>1 DEF OwnerHandleQueue, PushFunctor, OwnerWakeup
    <2>2. CASE ~postingLoop
      BY <1>17, <2>2 DEF OwnerHandleQueue
    <2> QED  BY <2>1, <2>2
  <1>18. ASSUME NEW t \in Threads, NEW f \in Functors, QueueInLoop(t, f)  PROVE WakeupInv'
    BY <1>18 DEF QueueInLoop, PushFunctor
  <1>19. ASSUME NEW t \in Threads, NEW f \in Functors, HandleLock(t, f)  PROVE WakeupInv'
    BY <1>19 DEF HandleLock
  <1>20. ASSUME NEW t \in Threads, Wakeup(t)  PROVE WakeupInv'
    BY <1>20 DEF Wakeup
  <1>21. ASSUME NEW t \in Threads, Quit(t)  PROVE WakeupInv'
    BY <1>21 DEF Quit
  <1>22. ASSUME NEW t \in Threads, HandleReject(t)  PROVE WakeupInv'
    BY <1>22 DEF HandleReject
  <1>23. ASSUME NEW t \in Threads, HandleAdmit(t)  PROVE WakeupInv'
    BY <1>23 DEF HandleAdmit
  <1>24. ASSUME NEW t \in Threads, HandlePush(t)  PROVE WakeupInv'
    BY <1>24 DEF HandlePush, PushFunctor
  <1>25. ASSUME NEW t \in Threads, HandleWakeup(t)  PROVE WakeupInv'
    BY <1>25 DEF HandleWakeup
  <1>26. CASE UNCHANGED vars
    BY <1>26 DEF vars
  <1> QED
    BY <1>1, <1>2, <1>3, <1>4, <1>5, <1>6, <1>7, <1>8, <1>9, <1>10, <1>11, <1>12,
       <1>13, <1>14, <1>15, <1>16, <1>17, <1>18, <1>19, <1>20, <1>21, <1>22, <1>23,
       <1>24, <1>25, <1>26 DEF Next, LoopStep, CallStep

\* Every step keeps the execution history a prefix of the push history, followed by
\* the batch and the queue.
LEMMA OrderStep == IInv /\ [Next]_vars => ExecutedInPushOrder'
  <1> SUFFICES ASSUME IInv, [Next]_vars
               PROVE  ExecutedInPushOrder'
    OBVIOUS
  <1> USE DEF IInv, TypeOK, ExecutedInPushOrder, AfterBatch
  <1> USE DEF NotOwner, ownerVars, postingVars, threadVars
  <1>0. executed \o functors \in Seq(Functors)
    OBVIOUS
  <1>1. CASE LoopEnter
    BY <1>1 DEF LoopEnter
  <1>2. CASE LoopTest
    BY <1>2 DEF LoopTest
  <1>3. CASE PollWakeup
    BY <1>3 DEF PollWakeup
  <1>4. CASE PollOther
    BY <1>4 DEF PollOther
  <1>5. CASE HandleRead
    BY <1>5 DEF HandleRead
  <1>6. CASE DispatchDone
    BY <1>6 DEF DispatchDone
  <1>7. CASE SwapPending
    <2>1. functors = <<>>
      BY <1>7 DEF SwapPending, OwnerInv
    <2>2. (executed \o <<>>) \o pendingFunctors = (executed \o pendingFunctors) \o <<>>
      BY ConcatEmpty, executed \o pendingFunctors \in Seq(Functors)
    <2> QED  BY <1>7, <2>1, <2>2 DEF SwapPending
  <1>8. CASE RunFunctor
    <2>1. Append(executed, Head(functors)) \o Tail(functors) = executed \o functors
      BY <1>8, ConcatHeadTail DEF RunFunctor
    <2> QED  BY <1>8, <2>1 DEF RunFunctor
  <1>9. CASE FunctorReturns
    BY <1>9 DEF FunctorReturns
  <1>10. CASE BatchDone
    BY <1>10 DEF BatchDone
  <1>11. CASE ReleaseDone
    BY <1>11 DEF ReleaseDone
  <1>12. CASE DrainCheck
    BY <1>12 DEF DrainCheck
  <1>13. CASE DestroyClose
    BY <1>13 DEF DestroyClose
  <1>14. CASE DestroyRelease
    BY <1>14 DEF DestroyRelease
  <1>15. CASE OwnerQuit
    BY <1>15 DEF OwnerQuit
  <1>16. ASSUME NEW f \in Functors, OwnerQueueInLoop(f)  PROVE ExecutedInPushOrder'
    <2>1. (executed \o functors) \o Append(pendingFunctors, f)
            = Append((executed \o functors) \o pendingFunctors, f)
      BY <1>0, ConcatAppend
    <2> QED  BY <1>16, <2>1 DEF OwnerQueueInLoop, UserCode, PushFunctor
  <1>17. ASSUME NEW f \in Functors, OwnerHandleQueue(f)  PROVE ExecutedInPushOrder'
    <2>1. (executed \o functors) \o Append(pendingFunctors, f)
            = Append((executed \o functors) \o pendingFunctors, f)
      BY <1>0, ConcatAppend
    <2>2. CASE postingLoop
      BY <1>17, <2>1, <2>2 DEF OwnerHandleQueue, PushFunctor, UserCode
    <2>3. CASE ~postingLoop
      BY <1>17, <2>3 DEF OwnerHandleQueue, UserCode
    <2> QED  BY <2>2, <2>3
  <1>18. ASSUME NEW t \in Threads, NEW f \in Functors, QueueInLoop(t, f)  PROVE ExecutedInPushOrder'
    <2>1. (executed \o functors) \o Append(pendingFunctors, f)
            = Append((executed \o functors) \o pendingFunctors, f)
      BY <1>0, ConcatAppend
    <2> QED  BY <1>18, <2>1 DEF QueueInLoop, Alive, PushFunctor
  <1>19. ASSUME NEW t \in Threads, NEW f \in Functors, HandleLock(t, f)  PROVE ExecutedInPushOrder'
    BY <1>19 DEF HandleLock
  <1>20. ASSUME NEW t \in Threads, Wakeup(t)  PROVE ExecutedInPushOrder'
    BY <1>20 DEF Wakeup
  <1>21. ASSUME NEW t \in Threads, Quit(t)  PROVE ExecutedInPushOrder'
    BY <1>21 DEF Quit
  <1>22. ASSUME NEW t \in Threads, HandleReject(t)  PROVE ExecutedInPushOrder'
    BY <1>22 DEF HandleReject
  <1>23. ASSUME NEW t \in Threads, HandleAdmit(t)  PROVE ExecutedInPushOrder'
    BY <1>23 DEF HandleAdmit
  <1>24. ASSUME NEW t \in Threads, HandlePush(t)  PROVE ExecutedInPushOrder'
    <2>0. arg[t] \in Functors /\ pc # "destroyed"
      BY <1>24 DEF HandlePush, PostingInv, Alive
    <2>1. (executed \o functors) \o Append(pendingFunctors, arg[t])
            = Append((executed \o functors) \o pendingFunctors, arg[t])
      BY <1>0, <2>0, ConcatAppend
    <2> QED  BY <1>24, <2>0, <2>1 DEF HandlePush, PushFunctor
  <1>25. ASSUME NEW t \in Threads, HandleWakeup(t)  PROVE ExecutedInPushOrder'
    BY <1>25 DEF HandleWakeup
  <1>26. CASE UNCHANGED vars
    BY <1>26 DEF vars
  <1> QED
    BY <1>1, <1>2, <1>3, <1>4, <1>5, <1>6, <1>7, <1>8, <1>9, <1>10, <1>11, <1>12,
       <1>13, <1>14, <1>15, <1>16, <1>17, <1>18, <1>19, <1>20, <1>21, <1>22, <1>23,
       <1>24, <1>25, <1>26 DEF Next, LoopStep, CallStep

\* Every step keeps accepted functors in the history, and executed once closed.
LEMMA AcceptedStep == IInv /\ [Next]_vars => AcceptedInv'
  <1> SUFFICES ASSUME IInv, [Next]_vars
               PROVE  AcceptedInv'
    OBVIOUS
  <1> USE DEF IInv, TypeOK, AcceptedInv, Alive, AfterBatch
  <1> USE DEF NotOwner, ownerVars, postingVars, threadVars
  <1>1. CASE LoopEnter
    BY <1>1 DEF LoopEnter
  <1>2. CASE LoopTest
    BY <1>2 DEF LoopTest
  <1>3. CASE PollWakeup
    BY <1>3 DEF PollWakeup
  <1>4. CASE PollOther
    BY <1>4 DEF PollOther
  <1>5. CASE HandleRead
    BY <1>5 DEF HandleRead
  <1>6. CASE DispatchDone
    BY <1>6 DEF DispatchDone
  <1>7. CASE SwapPending
    BY <1>7 DEF SwapPending
  <1>8. CASE RunFunctor
    <2>1. Range(executed') = Range(executed) \cup {Head(functors)}
      BY <1>8, Head(functors) \in Functors, RangeAppend DEF RunFunctor
    <2> QED  BY <1>8, <2>1 DEF RunFunctor
  <1>9. CASE FunctorReturns
    BY <1>9 DEF FunctorReturns
  <1>10. CASE BatchDone
    BY <1>10 DEF BatchDone
  <1>11. CASE ReleaseDone
    BY <1>11 DEF ReleaseDone
  <1>12. CASE DrainCheck
    <2>1. CASE pendingFunctors = <<>>
      <3>1. functors = <<>> /\ pushed = (executed \o functors) \o pendingFunctors
        BY <1>12 DEF DrainCheck, OwnerInv, ExecutedInPushOrder
      <3>2. pushed = executed
        BY <2>1, <3>1, ConcatEmpty
      <3> QED  BY <1>12, <2>1, <3>2 DEF DrainCheck
    <2>2. CASE pendingFunctors # <<>>
      BY <1>12, <2>2 DEF DrainCheck
    <2> QED  BY <2>1, <2>2
  <1>13. CASE DestroyClose
    BY <1>13 DEF DestroyClose
  <1>14. CASE DestroyRelease
    BY <1>14 DEF DestroyRelease
  <1>15. CASE OwnerQuit
    BY <1>15 DEF OwnerQuit
  <1>16. ASSUME NEW f \in Functors, OwnerQueueInLoop(f)  PROVE AcceptedInv'
    BY <1>16, RangeAppend DEF OwnerQueueInLoop, PushFunctor, UserCode
  <1>17. ASSUME NEW f \in Functors, OwnerHandleQueue(f)  PROVE AcceptedInv'
    <2>1. CASE postingLoop
      <3>1. pushed' = Append(pushed, f) /\ accepted' = accepted \cup {f}
        BY <1>17, <2>1 DEF OwnerHandleQueue, PushFunctor
      <3>2. Range(pushed') = Range(pushed) \cup {f}
        BY <3>1, RangeAppend
      <3> QED  BY <1>17, <2>1, <3>1, <3>2 DEF OwnerHandleQueue
    <2>2. CASE ~postingLoop
      BY <1>17, <2>2 DEF OwnerHandleQueue
    <2> QED  BY <2>1, <2>2
  <1>18. ASSUME NEW t \in Threads, NEW f \in Functors, QueueInLoop(t, f)  PROVE AcceptedInv'
    BY <1>18, RangeAppend DEF QueueInLoop, PushFunctor
  <1>19. ASSUME NEW t \in Threads, NEW f \in Functors, HandleLock(t, f)  PROVE AcceptedInv'
    BY <1>19 DEF HandleLock
  <1>20. ASSUME NEW t \in Threads, Wakeup(t)  PROVE AcceptedInv'
    BY <1>20 DEF Wakeup
  <1>21. ASSUME NEW t \in Threads, Quit(t)  PROVE AcceptedInv'
    BY <1>21 DEF Quit
  <1>22. ASSUME NEW t \in Threads, HandleReject(t)  PROVE AcceptedInv'
    BY <1>22 DEF HandleReject
  <1>23. ASSUME NEW t \in Threads, HandleAdmit(t)  PROVE AcceptedInv'
    BY <1>23 DEF HandleAdmit
  <1>24. ASSUME NEW t \in Threads, HandlePush(t)  PROVE AcceptedInv'
    <2>1. arg[t] \in Functors /\ postingLoop
      BY <1>24 DEF HandlePush, PostingInv
    <2>2. Range(pushed') = Range(pushed) \cup {arg[t]}
      BY <1>24, <2>1, RangeAppend DEF HandlePush, PushFunctor
    <2> QED  BY <1>24, <2>1, <2>2 DEF HandlePush
  <1>25. ASSUME NEW t \in Threads, HandleWakeup(t)  PROVE AcceptedInv'
    BY <1>25 DEF HandleWakeup
  <1>26. CASE UNCHANGED vars
    BY <1>26 DEF vars
  <1> QED
    BY <1>1, <1>2, <1>3, <1>4, <1>5, <1>6, <1>7, <1>8, <1>9, <1>10, <1>11, <1>12,
       <1>13, <1>14, <1>15, <1>16, <1>17, <1>18, <1>19, <1>20, <1>21, <1>22, <1>23,
       <1>24, <1>25, <1>26 DEF Next, LoopStep, CallStep

\* Every step of the loop is a step of the abstract executor, or invisible to it.
LEMMA RefineStep == IInv /\ [Next]_vars => [Executor!Next]_(Executor!vars)
  <1> SUFFICES ASSUME IInv, [Next]_vars
               PROVE  [Executor!Next]_(Executor!vars)
    OBVIOUS
  <1> USE DEF IInv, TypeOK
  <1> USE DEF NotOwner, ownerVars, postingVars, threadVars
  <1> USE DEF Executor!vars
  <1>1. CASE LoopEnter
    BY <1>1 DEF LoopEnter
  <1>2. CASE LoopTest
    BY <1>2 DEF LoopTest
  <1>3. CASE PollWakeup
    BY <1>3 DEF PollWakeup
  <1>4. CASE PollOther
    BY <1>4 DEF PollOther
  <1>5. CASE HandleRead
    BY <1>5 DEF HandleRead
  <1>6. CASE DispatchDone
    BY <1>6 DEF DispatchDone
  <1>7. CASE SwapPending
    <2>1. functors = <<>>
      BY <1>7 DEF SwapPending, OwnerInv
    <2>2. functors \o pendingFunctors = pendingFunctors \o <<>>
      BY <2>1, ConcatEmpty
    <2> QED  BY <1>7, <2>2 DEF SwapPending
  <1>8. CASE RunFunctor
    <2>1. Executor!Run
      BY <1>8, ConcatFirst DEF RunFunctor, Executor!Run
    <2> QED  BY <2>1 DEF Executor!Next
  <1>9. CASE FunctorReturns
    BY <1>9 DEF FunctorReturns
  <1>10. CASE BatchDone
    BY <1>10 DEF BatchDone
  <1>11. CASE ReleaseDone
    BY <1>11 DEF ReleaseDone
  <1>12. CASE DrainCheck
    <2>1. CASE pendingFunctors = <<>>
      <3>1. functors = <<>>
        BY <1>12 DEF DrainCheck, OwnerInv
      <3>2. Executor!Close
        BY <1>12, <2>1, <3>1, ConcatEmpty DEF DrainCheck, Executor!Close
      <3> QED  BY <3>2 DEF Executor!Next
    <2>2. CASE pendingFunctors # <<>>
      BY <1>12, <2>2 DEF DrainCheck
    <2> QED  BY <2>1, <2>2
  <1>13. CASE DestroyClose
    <2>1. CASE pc = "constructed"
      <3>1. executed = <<>>
        BY <2>1 DEF OwnerInv
      <3>2. Executor!Abandon
        BY <1>13, <3>1 DEF DestroyClose, Executor!Abandon
      <3> QED  BY <3>2 DEF Executor!Next
    <2>2. CASE pc = "returned"
      <3>1. ~postingLoop
        BY <2>2 DEF PostingInv
      <3> QED  BY <1>13, <3>1 DEF DestroyClose
    <2> QED  BY <1>13, <2>1, <2>2 DEF DestroyClose
  <1>14. CASE DestroyRelease
    <2>1. functors = <<>> /\ ~postingLoop
      BY <1>14 DEF DestroyRelease, OwnerInv, PostingInv, Alive
    <2>2. functors' \o pendingFunctors' = <<>>
      BY <1>14, <2>1, ConcatEmpty DEF DestroyRelease
    <2>3. Executor!Discard
      BY <1>14, <2>1, <2>2 DEF DestroyRelease, Executor!Discard
    <2> QED  BY <2>3 DEF Executor!Next
  <1>15. CASE OwnerQuit
    BY <1>15 DEF OwnerQuit
  <1>16. ASSUME NEW f \in Functors, OwnerQueueInLoop(f)  PROVE [Executor!Next]_(Executor!vars)
    <2>1. functors \o Append(pendingFunctors, f) = Append(functors \o pendingFunctors, f)
      BY ConcatAppend
    <2>2. Executor!Submit(f)
      BY <1>16, <2>1 DEF OwnerQueueInLoop, PushFunctor, Executor!Submit
    <2> QED  BY <2>2 DEF Executor!Next
  <1>17. ASSUME NEW f \in Functors, OwnerHandleQueue(f)  PROVE [Executor!Next]_(Executor!vars)
    <2>1. functors \o Append(pendingFunctors, f) = Append(functors \o pendingFunctors, f)
      BY ConcatAppend
    <2>2. CASE postingLoop
      <3>1. Executor!Accept(f)
        BY <1>17, <2>1, <2>2 DEF OwnerHandleQueue, PushFunctor, Executor!Accept
      <3> QED  BY <3>1 DEF Executor!Next
    <2>3. CASE ~postingLoop
      BY <1>17, <2>3 DEF OwnerHandleQueue
    <2> QED  BY <2>2, <2>3
  <1>18. ASSUME NEW t \in Threads, NEW f \in Functors, QueueInLoop(t, f)  PROVE [Executor!Next]_(Executor!vars)
    <2>1. functors \o Append(pendingFunctors, f) = Append(functors \o pendingFunctors, f)
      BY ConcatAppend
    <2>2. Executor!Submit(f)
      BY <1>18, <2>1 DEF QueueInLoop, PushFunctor, Executor!Submit
    <2> QED  BY <2>2 DEF Executor!Next
  <1>19. ASSUME NEW t \in Threads, NEW f \in Functors, HandleLock(t, f)  PROVE [Executor!Next]_(Executor!vars)
    BY <1>19 DEF HandleLock
  <1>20. ASSUME NEW t \in Threads, Wakeup(t)  PROVE [Executor!Next]_(Executor!vars)
    BY <1>20 DEF Wakeup
  <1>21. ASSUME NEW t \in Threads, Quit(t)  PROVE [Executor!Next]_(Executor!vars)
    BY <1>21 DEF Quit
  <1>22. ASSUME NEW t \in Threads, HandleReject(t)  PROVE [Executor!Next]_(Executor!vars)
    BY <1>22 DEF HandleReject
  <1>23. ASSUME NEW t \in Threads, HandleAdmit(t)  PROVE [Executor!Next]_(Executor!vars)
    BY <1>23 DEF HandleAdmit
  <1>24. ASSUME NEW t \in Threads, HandlePush(t)  PROVE [Executor!Next]_(Executor!vars)
    <2>0. arg[t] \in Functors /\ postingLoop
      BY <1>24 DEF HandlePush, PostingInv
    <2>1. functors \o Append(pendingFunctors, arg[t]) = Append(functors \o pendingFunctors, arg[t])
      BY <2>0, ConcatAppend
    <2>2. Executor!Accept(arg[t])
      BY <1>24, <2>0, <2>1 DEF HandlePush, PushFunctor, Executor!Accept
    <2> QED  BY <2>0, <2>2 DEF Executor!Next
  <1>25. ASSUME NEW t \in Threads, HandleWakeup(t)  PROVE [Executor!Next]_(Executor!vars)
    BY <1>25 DEF HandleWakeup
  <1>26. CASE UNCHANGED vars
    BY <1>26 DEF vars
  <1> QED
    BY <1>1, <1>2, <1>3, <1>4, <1>5, <1>6, <1>7, <1>8, <1>9, <1>10, <1>11, <1>12,
       <1>13, <1>14, <1>15, <1>16, <1>17, <1>18, <1>19, <1>20, <1>21, <1>22, <1>23,
       <1>24, <1>25, <1>26 DEF Next, LoopStep, CallStep

-----------------------------------------------------------------------------
(* Theorems *)

\* The loop is constructed in a state that satisfies the invariant.
LEMMA InitIInv == Init => IInv
  <1> SUFFICES ASSUME Init PROVE IInv
    OBVIOUS
  <1> USE NoneAssumption DEF Init
  <1>1. TypeOK
    <2>1. /\ <<>> \in Seq(Functors)
          /\ tpc \in [Threads -> ThreadPoints] /\ arg \in [Threads -> Functors \cup {None}]
      BY DEF ThreadPoints
    <2>2. /\ pc \in Points /\ fresh \subseteq Functors /\ accepted \subseteq Functors
          /\ postingMutex \in Threads \cup {None}
      BY DEF Points
    <2> QED  BY <2>1, <2>2 DEF TypeOK
  <1>2. OwnerInv /\ PostingInv /\ WakeupInv
    BY DEF OwnerInv, PostingInv, WakeupInv, Alive
  <1>3. AcceptedInv /\ ExecutedInPushOrder
    BY DEF AcceptedInv, ExecutedInPushOrder
  <1> QED  BY <1>1, <1>2, <1>3 DEF IInv

\* IInv is an invariant of EventLoop.
THEOREM Invariance == Spec => []IInv
  <1>1. IInv /\ [Next]_vars => IInv'
    <2> SUFFICES ASSUME IInv, [Next]_vars PROVE IInv'
      OBVIOUS
    <2>1. TypeOK' /\ OwnerInv' /\ PostingInv'
      BY TypeStep, OwnerStep, PostingStep
    <2>2. WakeupInv' /\ AcceptedInv' /\ ExecutedInPushOrder'
      BY WakeupStep, AcceptedStep, OrderStep
    <2> QED  BY <2>1, <2>2 DEF IInv
  <1> QED  BY InitIInv, <1>1, PTL DEF Spec

\* The state variables of EventLoop.h:71-88 keep their types.
THEOREM TypeCorrect == Spec => []TypeOK
  <1>1. IInv => TypeOK
    BY DEF IInv
  <1> QED  BY <1>1, Invariance, PTL

\* Whatever the interleaving of queueInLoop, LoopHandle::queue, quit and loop(), the
\* loop never blocks in poll() over queued functors or a quit without a wakeup,
\* provided that no captured destructor posts at the end of doPendingFunctors.
THEOREM WakeupNeverLost ==
  ASSUME ~CapturesPost
  PROVE  Spec => []NoLostWakeup
  <1>1. IInv => NoLostWakeup
    BY ~CapturesPost DEF IInv, WakeupInv, NoLostWakeup
  <1> QED  BY <1>1, Invariance, PTL

\* LoopHandle::queue never dereferences a destroyed loop.
THEOREM HandleIsSafe == Spec => []HandleTouchesLiveLoop
  <1>1. IInv => HandleTouchesLiveLoop
    BY DEF IInv, PostingInv, HandleTouchesLiveLoop
  <1> QED  BY <1>1, Invariance, PTL

\* Work accepted through a LoopHandle has been executed when loop() returns.
THEOREM AcceptedIsExecuted == Spec => []AcceptedWorkDrained
  <1>1. IInv => AcceptedWorkDrained
    BY DEF IInv, AcceptedInv, PostingInv, Alive, AcceptedWorkDrained
  <1> QED  BY <1>1, Invariance, PTL

\* Functors are executed in the order of their pushes, none lost and none repeated.
THEOREM ExecutionIsFifo == Spec => []ExecutedInPushOrder
  <1>1. IInv => ExecutedInPushOrder
    BY DEF IInv
  <1> QED  BY <1>1, Invariance, PTL

\* The loop implements the abstract executor: every behaviour of EventLoop, with its
\* batch followed by its queue as the executor's queue, is one of TaskExecutor.
THEOREM SerialExecutor == Spec => ImplementsTaskExecutor
  <1>1. Init => Executor!Init
    BY ConcatEmpty DEF Init, Executor!Init
  <1>2. IInv /\ [Next]_vars => [Executor!Next]_(Executor!vars)
    BY RefineStep
  <1> QED  BY <1>1, <1>2, Invariance, PTL DEF Spec, Executor!Spec, ImplementsTaskExecutor
=============================================================================
