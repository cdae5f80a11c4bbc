------------------------------ MODULE TimerQueue ------------------------------
(***************************************************************************)
(* mini/net/TimerQueue.cc under the loop of EventLoop.cc:75-90.  The owner *)
(* thread adds and cancels timers directly; other threads do it through    *)
(* functors queued on the loop.  pending holds only those functors.        *)
(*                                                                         *)
(* A timer is named by its sequence number.  Threads draw numbers from one *)
(* atomic counter and publish the timer later, so the numbers reach the    *)
(* queue in any order: a call takes any number not used yet.               *)
(***************************************************************************)
EXTENDS Integers, Sequences, FiniteSetsExt, Functions

CONSTANTS N,              \* timers 1..N
          Whens,          \* expirations a caller passes to runAt
          Intervals,      \* intervals of runEvery
          TicksPerMs,     \* ticks of steady_clock in a millisecond
          DefaultTimeout, \* the 10000 ms of EventLoop.cc:77
          IntMax,         \* numeric_limits<int>::max()
          Horizon         \* bound of the model: the clock stops here

ASSUME TimerAssumption ==
  /\ N \in Nat /\ Whens \subseteq Nat /\ Intervals \subseteq Nat \ {0}
  /\ TicksPerMs \in Nat \ {0} /\ DefaultTimeout \in Nat \ {0} /\ IntMax \in Nat \ {0}
  /\ DefaultTimeout <= IntMax /\ Horizon \in Nat

Timers == 1..N
Never  == -1

VARIABLES
  now,        \* steady_clock
  pc,         \* where the owner is in the body of loop()
  pollUntil,  \* when the poll in progress times out; 0 outside poll
  timers,     \* timers_: keys <<expiration, sequence>>
  timersById, \* the keys of timersById_
  expiration, interval, canceled, inQueue,   \* the fields of struct Timer
  expired,    \* the local vector of handleExpired
  idx,        \* the element of expired its for loop is at
  pending,    \* queued functors: <<"add", i>> and <<"cancel", i>>
  todo,       \* how many of them the running doPendingFunctors has swapped out
  used,       \* sequence numbers handed out and published
  found,      \* history: the timers that a cancelInLoop found
  lastFired   \* history: when the callback of a timer was last called

timerVars  == <<timers, timersById, expiration, interval, canceled, inQueue>>
batchVars  == <<expired, idx>>
queueVars  == <<pending, todo>>
callVars   == <<used, found>>
vars == <<now, pc, pollUntil, timerVars, batchVars, queueVars, callVars, lastFired>>

\* top: the while of line 75.   poll: in Poller::poll.   dispatch: channel callbacks.
\* batch: the for loop of handleExpired.   callback: inside a timer callback.
\* swap, functors: doPendingFunctors.
Points == {"top", "poll", "dispatch", "batch", "callback", "swap", "functors"}

TypeOK ==
  /\ now \in Nat /\ pollUntil \in Nat /\ pc \in Points
  /\ timers \subseteq Nat \X Timers /\ timersById \subseteq Timers
  /\ expiration \in [Timers -> Nat] /\ interval \in [Timers -> Nat]
  /\ canceled \in [Timers -> BOOLEAN] /\ inQueue \in [Timers -> BOOLEAN]
  /\ expired \in Seq(Timers) /\ idx \in Nat
  /\ pending \in Seq({"add", "cancel"} \X Timers) /\ todo \in 0..Len(pending)
  /\ used \subseteq Timers /\ found \subseteq Timers
  /\ lastFired \in [Timers -> Nat \cup {Never}]

Init ==
  /\ now = 0 /\ pollUntil = 0 /\ pc = "top"
  /\ timers = {} /\ timersById = {}
  /\ expiration = [i \in Timers |-> 0] /\ interval = [i \in Timers |-> 0]
  /\ canceled = [i \in Timers |-> FALSE] /\ inQueue = [i \in Timers |-> TRUE]
  /\ expired = <<>> /\ idx = 1 /\ pending = <<>> /\ todo = 0
  /\ used = {} /\ found = {}
  /\ lastFired = [i \in Timers |-> Never]

-----------------------------------------------------------------------------
(* Containers *)

\* TimerKey comparison, std::pair's lexicographic order.
Before(k, l) == k[1] < l[1] \/ (k[1] = l[1] /\ k[2] < l[2])

Earliest(keys) == CHOOSE k \in keys : \A l \in keys : l = k \/ Before(k, l)

\* An insert() that has no use for a deadline that has passed.
InsertFuture(i, e) ==
  /\ expiration' = [expiration EXCEPT ![i] = e]
  /\ inQueue' = [inQueue EXCEPT ![i] = (e >= now)]
  /\ canceled' = [canceled EXCEPT ![i] = FALSE]
  /\ timersById' = timersById \cup {j \in {i} : e >= now}
  /\ timers' = timers \cup {k \in {<<e, i>>} : e >= now}

\* insert() of timer i with expiration e.
Insert(i, e) ==
  /\ expiration' = [expiration EXCEPT ![i] = e]
  /\ inQueue' = [inQueue EXCEPT ![i] = TRUE]
  /\ canceled' = [canceled EXCEPT ![i] = FALSE]
  /\ timersById' = timersById \cup {i}
  /\ timers' = timers \cup {<<e, i>>}

\* A cancelInLoop that forgets the flag that the batch looks at.
CancelInLoopQuiet(i) ==
  /\ found' = found \cup ({i} \cap timersById)
  /\ timers' = timers \ {k \in timers : i \in timersById /\ inQueue[i] /\ k[2] = i}
  /\ inQueue' = [inQueue EXCEPT ![i] = @ /\ i \notin timersById]
  /\ timersById' = timersById \ {i}
  /\ UNCHANGED <<canceled, expiration, interval>>

\* A cancelInLoop that takes the timer out of timers_ only.
CancelInLoopHalf(i) ==
  /\ found' = found \cup ({i} \cap timersById)
  /\ canceled' = [canceled EXCEPT ![i] = @ \/ i \in timersById]
  /\ timers' = timers \ {k \in timers : i \in timersById /\ inQueue[i] /\ k = <<expiration[i], i>>}
  /\ inQueue' = [inQueue EXCEPT ![i] = @ /\ i \notin timersById]
  /\ UNCHANGED <<timersById, expiration, interval>>

\* cancelInLoop(i): an unknown timer is left alone, a known one leaves timersById_
\* and, unless its batch is being run, timers_.
CancelInLoop(i) ==
  /\ found' = found \cup ({i} \cap timersById)
  /\ canceled' = [canceled EXCEPT ![i] = @ \/ i \in timersById]
  /\ timers' = timers \ {k \in timers : i \in timersById /\ inQueue[i] /\ k = <<expiration[i], i>>}
  /\ inQueue' = [inQueue EXCEPT ![i] = @ /\ i \notin timersById]
  /\ timersById' = timersById \ {i}
  /\ UNCHANGED <<expiration, interval>>

-----------------------------------------------------------------------------
(* Callers *)

\* The expirations and intervals that runAt/runAfter and runEvery construct.
Schedules == (Whens \X {0}) \cup {<<now + d, d>> : d \in Intervals}

\* User code on the owner thread.
UserCode == pc \in {"dispatch", "callback", "functors"}

AddTimer(i, s) ==
  /\ UserCode /\ i \notin used
  /\ used' = used \cup {i}
  /\ interval' = [interval EXCEPT ![i] = s[2]]
  /\ Insert(i, s[1])
  /\ UNCHANGED <<now, pc, pollUntil, batchVars, queueVars, found, lastFired>>

Cancel(i) ==
  /\ UserCode /\ i \in used
  /\ CancelInLoop(i)
  /\ UNCHANGED <<now, pc, pollUntil, batchVars, queueVars, used, lastFired>>

\* addTimer on another thread: the timer is built there, inserted later.
AddTimerCrossThread(i, s) ==
  /\ i \notin used
  /\ used' = used \cup {i}
  /\ interval' = [interval EXCEPT ![i] = s[2]]
  /\ expiration' = [expiration EXCEPT ![i] = s[1]]
  /\ pending' = Append(pending, <<"add", i>>)
  /\ UNCHANGED <<now, pc, pollUntil, timers, timersById, canceled, inQueue, batchVars, todo,
                 found, lastFired>>

\* cancel on another thread.  One request per timer is enough: cancelInLoop of a
\* timer it does not find changes nothing.
CancelCrossThread(i) ==
  /\ i \in used /\ \A k \in DOMAIN pending : pending[k] # <<"cancel", i>>
  /\ pending' = Append(pending, <<"cancel", i>>)
  /\ UNCHANGED <<now, pc, pollUntil, timerVars, batchVars, todo, callVars, lastFired>>

-----------------------------------------------------------------------------
(* The loop *)

\* ceilMilliseconds: a positive delay is rounded up to at least one millisecond.
CeilMilliseconds(delay) ==
  IF delay <= 0 THEN 0
  ELSE Max({1, Min({IntMax, (delay + TicksPerMs - 1) \div TicksPerMs})})

\* A pollTimeoutMs that rounds down, as duration_cast does.
PollTimeoutFloor ==
  IF timers = {} THEN DefaultTimeout
  ELSE Min({DefaultTimeout, Max({0, (Earliest(timers)[1] - now) \div TicksPerMs})})

PollTimeoutMs ==
  IF timers = {} THEN DefaultTimeout
  ELSE Min({DefaultTimeout, CeilMilliseconds(Earliest(timers)[1] - now)})

\* Line 77: the timeout is computed and the poll begins.
PollBegin ==
  /\ pc = "top"
  /\ pollUntil' = now + PollTimeoutMs * TicksPerMs
  /\ pc' = "poll"
  /\ UNCHANGED <<now, timerVars, batchVars, queueVars, callVars, lastFired>>

\* The poll times out, or a queued functor's wakeup interrupts it (EventLoop proves
\* that it does).
PollReturn ==
  /\ pc = "poll" /\ (now >= pollUntil \/ pending # <<>>)
  /\ pc' = "dispatch" /\ pollUntil' = 0
  /\ UNCHANGED <<now, timerVars, batchVars, queueVars, callVars, lastFired>>

\* The poll returns for another descriptor.
PollOther ==
  /\ pc = "poll" /\ now < pollUntil /\ pending = <<>>
  /\ pc' = "dispatch" /\ pollUntil' = 0
  /\ UNCHANGED <<now, timerVars, batchVars, queueVars, callVars, lastFired>>

\* handleExpired up to its for loop: getExpired moves the due timers, in key order,
\* from timers_ to the batch.
HandleExpired ==
  /\ pc = "dispatch"
  /\ LET due == {k \in timers : k[1] <= now}
     IN  IF due = {} THEN pc' = "swap" /\ UNCHANGED <<timerVars, batchVars>>
         ELSE /\ \E keys \in Bijection(1..Cardinality(due), due) :
                   /\ \A j, k \in DOMAIN keys : j < k => Before(keys[j], keys[k])
                   /\ expired' = [k \in DOMAIN keys |-> keys[k][2]]
              /\ idx' = 1
              /\ inQueue' = [i \in Timers |-> inQueue[i] /\ \A k \in due : k[2] # i]
              /\ timers' = timers \ due
              /\ pc' = "batch"
              /\ UNCHANGED <<timersById, expiration, interval, canceled>>
  /\ UNCHANGED <<now, pollUntil, queueVars, callVars, lastFired>>

\* The for loop of handleExpired: a timer canceled since getExpired is skipped ...
SkipCanceled ==
  /\ pc = "batch" /\ idx <= Len(expired) /\ canceled[expired[idx]]
  /\ idx' = idx + 1
  /\ UNCHANGED <<now, pc, pollUntil, timerVars, expired, queueVars, callVars, lastFired>>

\* ... and the callback of any other is called ...
RunCallback ==
  /\ pc = "batch" /\ idx <= Len(expired) /\ ~canceled[expired[idx]]
  /\ lastFired' = [lastFired EXCEPT ![expired[idx]] = now]
  /\ pc' = "callback"
  /\ UNCHANGED <<now, pollUntil, timerVars, batchVars, queueVars, callVars>>

\* ... and returns.
CallbackReturns ==
  /\ pc = "callback"
  /\ idx' = idx + 1 /\ pc' = "batch"
  /\ UNCHANGED <<now, pollUntil, timerVars, expired, queueVars, callVars, lastFired>>

\* The end of handleExpired: reset() inserts the repeating timers that nobody canceled
\* one interval from now and forgets the others.
Reset ==
  /\ pc = "batch" /\ idx > Len(expired)
  /\ LET again == {i \in Range(expired) : interval[i] > 0 /\ ~canceled[i] /\ i \in timersById}
     IN  /\ expiration' = [i \in Timers |-> IF i \in again THEN now + interval[i]
                                             ELSE expiration[i]]
         /\ inQueue' = [i \in Timers |-> inQueue[i] \/ i \in again]
         /\ timersById' = timersById \ (Range(expired) \ again)
         /\ timers' = timers \cup {<<now + interval[i], i>> : i \in again}
  /\ expired' = <<>> /\ idx' = 1 /\ pc' = "swap"
  /\ UNCHANGED <<now, pollUntil, interval, canceled, queueVars, callVars, lastFired>>

\* doPendingFunctors takes what is queued now ...
SwapPending ==
  /\ pc = "swap"
  /\ todo' = Len(pending) /\ pc' = "functors"
  /\ UNCHANGED <<now, pollUntil, timerVars, batchVars, pending, callVars, lastFired>>

\* ... runs it in order ...
RunAdd ==
  /\ pc = "functors" /\ todo > 0 /\ Head(pending)[1] = "add"
  /\ LET i == Head(pending)[2] IN Insert(i, expiration[i])
  /\ pending' = Tail(pending) /\ todo' = todo - 1
  /\ UNCHANGED <<now, pc, pollUntil, interval, batchVars, callVars, lastFired>>

RunCancel ==
  /\ pc = "functors" /\ todo > 0 /\ Head(pending)[1] = "cancel"
  /\ CancelInLoop(Head(pending)[2])
  /\ pending' = Tail(pending) /\ todo' = todo - 1
  /\ UNCHANGED <<now, pc, pollUntil, batchVars, used, lastFired>>

\* ... and returns.
FunctorsDone ==
  /\ pc = "functors" /\ todo = 0
  /\ pc' = "top"
  /\ UNCHANGED <<now, pollUntil, timerVars, batchVars, queueVars, callVars, lastFired>>

\* Time passes, whatever the loop is doing.
Tick ==
  /\ now < Horizon
  /\ now' = now + 1
  /\ UNCHANGED <<pc, pollUntil, timerVars, batchVars, queueVars, callVars, lastFired>>

-----------------------------------------------------------------------------

LoopStep ==
  \/ PollBegin \/ PollReturn \/ HandleExpired \/ SkipCanceled \/ RunCallback
  \/ CallbackReturns \/ Reset \/ SwapPending \/ RunAdd \/ RunCancel \/ FunctorsDone

Next ==
  \/ LoopStep \/ PollOther \/ Tick
  \/ \E i \in Timers :
       \/ Cancel(i) \/ CancelCrossThread(i)
       \/ \E s \in Schedules : AddTimer(i, s) \/ AddTimerCrossThread(i, s)

Spec == Init /\ [][Next]_vars

\* The owner keeps running and the clock keeps ticking (up to Horizon).
FairSpec == Spec /\ WF_vars(LoopStep) /\ WF_vars(Tick)

-----------------------------------------------------------------------------
(* Properties *)

\* timers_, timersById_ and inQueue describe the same timers: a queued timer is found
\* under its key and its id, and a timer known by id but not queued is in the batch
\* that handleExpired is running (TimerQueue.cc:72-92, 119-153).
ContainersAgree ==
  /\ TypeOK
  /\ timers = {<<expiration[i], i>> : i \in {j \in timersById : inQueue[j]}}
  /\ \A i \in timersById : inQueue[i] \/ i \in Range(expired)

\* The step calls the callback of timer i.
Fires(i) == pc = "batch" /\ pc' = "callback" /\ expired[idx] = i

\* A timer fires only when it should.  One that cancelInLoop found never fires again,
\* also when it was found in the batch that is being run or by its own callback; it
\* fires at or after its expiration; a one-shot timer fires at most once and two firings
\* of a repeating timer are at least its interval apart, however late the loop runs
\* (TimerQueue.cc:80-91, 104-117, 145-153).
FiringsAreDue ==
  [][\A i \in Timers : Fires(i) =>
        /\ i \notin found
        /\ expiration[i] <= now
        /\ lastFired[i] = Never \/ (interval[i] > 0 /\ now - lastFired[i] >= interval[i])]_vars

\* A poll that begins before the earliest expiration ends less than a millisecond
\* after it, and does not end before it unless the default timeout is shorter: the
\* loop neither oversleeps nor spins (TimerQueue.cc:14-29, 94-102).
PollMeetsDeadline ==
  [][pc = "top" /\ pc' = "poll" /\ timers # {} =>
       LET first == Earliest(timers)[1]
       IN  IF first <= now THEN pollUntil' = now
           ELSE /\ pollUntil' < first + TicksPerMs
                /\ pollUntil' >= first \/ pollUntil' = now + DefaultTimeout * TicksPerMs]_vars

\* Every timer that was added fires or is canceled, without help from other
\* descriptors (EventLoop.cc:75-90, TimerQueue.cc:94-117).
TimersFire ==
  \A i \in Timers :
    (i \in used /\ expiration[i] + TicksPerMs <= Horizon)
      ~> (lastFired[i] # Never \/ i \in found)
=============================================================================
