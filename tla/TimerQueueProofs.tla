--------------------------- MODULE TimerQueueProofs ---------------------------
(***************************************************************************)
(* Proofs about TimerQueue, for any number of timers, any schedules, clock *)
(* resolution and timeouts, and any horizon of the clock.                  *)
(***************************************************************************)
EXTENDS TimerQueue, FiniteSetTheorems, TLAPS

-----------------------------------------------------------------------------
(* The inductive invariant *)

\* The containers, as in ContainersAgree.
KeysInv ==
  /\ timers = {<<expiration[i], i>> : i \in {j \in timersById : inQueue[j]}}
  /\ \A i \in timersById : inQueue[i] \/ i \in Range(expired)

\* Timer i has not reached the queue yet.
New(i) ==
  /\ i \notin timersById /\ i \notin Range(expired)
  /\ i \notin found /\ lastFired[i] = Never

\* A sequence number is published once, so that each insertion is of a new timer.
NewInv ==
  /\ \A i \in Timers : i \notin used => New(i)
  /\ \A i \in Timers : \A k \in DOMAIN pending : pending[k] = <<"add", i>> => i \in used /\ New(i)
  /\ \A i \in Timers : \A j, k \in DOMAIN pending :
       pending[j] = <<"add", i>> /\ pending[k] = <<"add", i>> => j = k

\* Timer i has never fired, or repeats and expires an interval after it did.
Spaced(i) ==
  lastFired[i] = Never \/ (interval[i] > 0 /\ lastFired[i] + interval[i] <= expiration[i])

\* A timer that cancelInLoop found is marked and forgotten; a queued one may fire when it
\* expires.
TimerInv ==
  \A i \in Timers :
    /\ i \in found => canceled[i] /\ i \notin timersById
    /\ i \in timersById /\ inQueue[i] => Spaced(i)
    /\ lastFired[i] <= now

\* The callback of the k-th timer of the batch is still to come.
ToCome(k) == IF pc = "callback" THEN k > idx ELSE k >= idx

\* The batch of handleExpired holds each timer once, and those to come may fire now.
BatchInv ==
  /\ pc \notin {"batch", "callback"} => expired = <<>>
  /\ idx > 0
  /\ \A j, k \in DOMAIN expired : expired[j] = expired[k] => j = k
  /\ \A k \in DOMAIN expired :
       /\ ~inQueue[expired[k]] /\ expiration[expired[k]] <= now
       /\ ToCome(k) => Spaced(expired[k])

IInv == TypeOK /\ KeysInv /\ NewInv /\ TimerInv /\ BatchInv

-----------------------------------------------------------------------------
(* The timeout of a poll *)

\* The smaller and the larger of two numbers.
LEMMA MinMaxOfTwo ==
  ASSUME NEW a \in Int, NEW b \in Int
  PROVE  /\ Min({a, b}) = IF a <= b THEN a ELSE b
         /\ Max({a, b}) = IF a <= b THEN b ELSE a
BY DEF Min, Max

\* A non-empty set of naturals has a least element.
LEMMA LeastNatural ==
  ASSUME NEW T \in SUBSET Nat, T # {}
  PROVE  \E m \in T : \A x \in T : m <= x
<1> DEFINE R == OpToRel(<, Nat)
<1>1. IsWellFoundedOn(R, Nat)
  BY NatLessThanWellFounded, Zenon
<1>2. PICK m \in T : \A x \in T : ~(<<x, m>> \in R)
  <2> HIDE DEF R
  <2> QED BY <1>1, WFMin
<1>3. \A x \in T : ~(x < m)
  BY <1>2 DEF OpToRel
<1> QED BY <1>3

\* Keys are compared by expiration first, so that some queued timer is the earliest.
LEMMA EarliestExists ==
  ASSUME timers \subseteq Nat \X Timers, timers # {}
  PROVE  Earliest(timers) \in timers
<1> DEFINE whens == {k[1] : k \in timers}
<1>0. whens \in SUBSET Nat /\ whens # {}
  OBVIOUS
<1>1. PICK e \in whens : \A x \in whens : e <= x
  <2> HIDE DEF whens
  <2> QED BY <1>0, LeastNatural
<1> DEFINE ids == {k[2] : k \in {l \in timers : l[1] = e}}
<1>2. ids \in SUBSET Nat /\ ids # {}
  BY <1>1 DEF Timers
<1>3. PICK i \in ids : \A x \in ids : i <= x
  BY <1>2, LeastNatural
<1>4. PICK k \in timers : k[1] = e /\ k[2] = i
  BY <1>3
<1>5. ASSUME NEW l \in timers PROVE l = k \/ Before(k, l)
  <2>1. l[1] \in whens /\ e \in Nat /\ l[1] \in Nat /\ l[2] \in Nat /\ i \in Nat
    BY <1>2, <1>3, <1>4 DEF Timers
  <2>2. e <= l[1] /\ (l[1] = e => i <= l[2])
    BY <1>1, <1>3, <2>1
  <2>3. l[1] = e /\ l[2] = i => l = k
    BY <1>4
  <2> QED BY <1>4, <2>1, <2>2, <2>3 DEF Before
<1> QED BY <1>5 DEF Earliest

\* Division rounds down.
LEMMA Division ==
  ASSUME NEW x \in Nat, NEW t \in Nat \ {0}
  PROVE  x \div t \in Nat /\ (x \div t) * t <= x /\ x < (x \div t) * t + t
OBVIOUS

\* A larger number of milliseconds has more ticks.
LEMMA MoreTicks ==
  ASSUME NEW a \in Nat, NEW b \in Nat, NEW t \in Nat, a <= b
  PROVE  a * t \in Nat /\ b * t \in Nat /\ a * t <= b * t
OBVIOUS

\* ceilMilliseconds rounds up, by less than a millisecond, unless the result would not fit.
LEMMA CeilRoundsUp ==
  ASSUME NEW d \in Nat \ {0}
  PROVE  LET c == CeilMilliseconds(d)
         IN  /\ c \in Nat \ {0} /\ c * TicksPerMs < d + TicksPerMs
             /\ c * TicksPerMs >= d \/ c = IntMax
<1> DEFINE t == TicksPerMs
           q == (d + t - 1) \div t
<1>0. t \in Nat \ {0} /\ IntMax \in Nat \ {0} /\ d + t - 1 \in Nat
  BY TimerAssumption
<1>1. q \in Nat /\ q * t <= d + t - 1 /\ d + t - 1 < q * t + t
  BY <1>0, Division
<1>2. CeilMilliseconds(d) = Max({1, Min({IntMax, q})})
  BY DEF CeilMilliseconds
<1> HIDE DEF q, t
<1>3. q # 0
  BY <1>0, <1>1
<1>4. CeilMilliseconds(d) = IF IntMax <= q THEN IntMax ELSE q
  <2>1. Min({IntMax, q}) = IF IntMax <= q THEN IntMax ELSE q
    BY <1>0, <1>1, MinMaxOfTwo
  <2> DEFINE m == Min({IntMax, q})
  <2>2. m \in Nat /\ 1 <= m
    BY <1>0, <1>1, <1>3, <2>1
  <2> HIDE DEF m
  <2>3. Max({1, m}) = m
    BY <2>2, MinMaxOfTwo
  <2> QED BY <1>2, <2>1, <2>3 DEF m
<1>5. q * t \in Nat /\ q * t < d + t /\ q * t >= d
  BY <1>0, <1>1
<1>6. IntMax <= q => IntMax * t \in Nat /\ IntMax * t <= q * t
  BY <1>0, <1>1, MoreTicks
<1>7. CASE IntMax <= q
  BY <1>0, <1>4, <1>5, <1>6, <1>7 DEF t
<1>8. CASE ~(IntMax <= q)
  BY <1>0, <1>1, <1>3, <1>4, <1>5, <1>8 DEF t
<1> QED BY <1>7, <1>8

\* The timeout is a number of milliseconds.
LEMMA TimeoutType ==
  ASSUME TypeOK
  PROVE  PollTimeoutMs \in Nat
<1>1. CASE timers = {}
  BY <1>1, TimerAssumption DEF PollTimeoutMs
<1>2. CASE timers # {}
  <2> DEFINE d == Earliest(timers)[1] - now
  <2>1. d \in Int
    BY <1>2, EarliestExists DEF TypeOK
  <2>2. PollTimeoutMs = Min({DefaultTimeout, CeilMilliseconds(d)})
    BY <1>2 DEF PollTimeoutMs
  <2> HIDE DEF d
  <2>3. CeilMilliseconds(d) \in Nat
    <3>1. CASE d <= 0
      BY <2>1, <3>1 DEF CeilMilliseconds
    <3>2. CASE d > 0
      BY <2>1, <3>2, CeilRoundsUp
    <3> QED BY <2>1, <3>1, <3>2
  <2> QED BY <2>2, <2>3, MinMaxOfTwo, TimerAssumption
<1> QED BY <1>1, <1>2

\* The poll ends less than a millisecond after the earliest deadline, and not before it
\* unless the default timeout is shorter.
LEMMA PollBeginMeets ==
  ASSUME TypeOK, PollBegin, timers # {}
  PROVE  LET first == Earliest(timers)[1]
         IN  IF first <= now THEN pollUntil' = now
             ELSE /\ pollUntil' < first + TicksPerMs
                  /\ pollUntil' >= first \/ pollUntil' = now + DefaultTimeout * TicksPerMs
<1> DEFINE first == Earliest(timers)[1]
           c == CeilMilliseconds(first - now)
           t == TicksPerMs
<1>1. first \in Nat /\ now \in Nat
  BY EarliestExists DEF TypeOK
<1>2. PollTimeoutMs = Min({DefaultTimeout, c}) /\ pollUntil' = now + PollTimeoutMs * t
  BY DEF PollTimeoutMs, PollBegin
<1>3. t \in Nat \ {0} /\ DefaultTimeout \in Nat \ {0} /\ IntMax \in Nat /\ DefaultTimeout <= IntMax
  BY TimerAssumption
<1>4. CASE first <= now
  <2>1. c = 0
    BY <1>1, <1>4 DEF CeilMilliseconds
  <2>2. PollTimeoutMs = 0
    BY <1>2, <1>3, <2>1, MinMaxOfTwo
  <2> QED BY <1>1, <1>2, <1>3, <1>4, <2>2
<1>5. CASE first > now
  <2>1. first - now \in Nat \ {0}
    BY <1>1, <1>5
  <2>2. /\ c \in Nat \ {0} /\ c * t < first - now + t
        /\ c * t >= first - now \/ c = IntMax
    BY <2>1, CeilRoundsUp
  <2> HIDE DEF first, c, t
  <2>3. PollTimeoutMs = IF DefaultTimeout <= c THEN DefaultTimeout ELSE c
    BY <1>2, <1>3, <2>2, MinMaxOfTwo
  <2>4. c * t \in Nat
    BY <1>3, <2>2, MoreTicks
  <2>5. CASE DefaultTimeout <= c
    <3>1. DefaultTimeout * t \in Nat /\ DefaultTimeout * t <= c * t
      BY <1>3, <2>2, <2>5, MoreTicks
    <3>2. pollUntil' = now + DefaultTimeout * t
      BY <1>2, <2>3, <2>5
    <3>3. pollUntil' < first + t
      BY <1>1, <1>3, <2>2, <2>4, <3>1, <3>2
    <3> QED BY <1>1, <1>5, <3>2, <3>3 DEF first, t
  <2>6. CASE ~(DefaultTimeout <= c)
    <3>1. pollUntil' = now + c * t
      BY <1>2, <2>3, <2>6
    <3>2. c * t >= first - now
      BY <1>3, <2>2, <2>6
    <3>3. pollUntil' < first + t /\ pollUntil' >= first
      BY <1>1, <1>3, <2>2, <2>4, <3>1, <3>2
    <3> QED BY <1>1, <1>5, <3>3 DEF first, t
  <2> QED BY <2>5, <2>6
<1> QED BY <1>1, <1>4, <1>5

-----------------------------------------------------------------------------
(* Steps of the loop that leave the timers alone *)

\* The queue starts empty.
LEMMA InitInv == Init => IInv
<1> SUFFICES ASSUME Init PROVE IInv
  OBVIOUS
<1>1. TypeOK
  BY DEF Init, TypeOK, Points
<1>2. Range(expired) = {}
  BY DEF Init, Range
<1>3. KeysInv
  BY DEF Init, KeysInv
<1>4. NewInv
  BY <1>2 DEF Init, NewInv, New
<1>5. TimerInv
  BY DEF Init, TimerInv, Spaced, Never
<1>6. BatchInv
  BY DEF Init, BatchInv
<1> QED BY <1>1, <1>3, <1>4, <1>5, <1>6 DEF IInv

\* What time does not change: the clock never runs backwards.
LEMMA TimePasses ==
  ASSUME IInv, now' \in Nat, now <= now',
         UNCHANGED <<timerVars, expired, pending, callVars, lastFired>>
  PROVE  KeysInv' /\ NewInv' /\ TimerInv'
<1>1. KeysInv'
  BY DEF IInv, KeysInv, timerVars
<1>2. NewInv'
  BY DEF IInv, NewInv, New, timerVars, callVars
<1>3. TimerInv'
  <2> SUFFICES ASSUME NEW i \in Timers
               PROVE  /\ i \in found => canceled[i] /\ i \notin timersById
                      /\ i \in timersById /\ inQueue[i] => Spaced(i)
                      /\ lastFired[i] <= now'
    BY DEF TimerInv, Spaced, timerVars, callVars
  <2>1. lastFired[i] \in Int /\ now \in Int
    BY DEF IInv, TypeOK, Never
  <2> QED BY <2>1 DEF IInv, TimerInv
<1> QED BY <1>1, <1>2, <1>3

\* Outside the batch nothing is known of it.
LEMMA NoBatch ==
  ASSUME IInv, pc \notin {"batch", "callback"}, pc' \in Points \ {"batch", "callback"},
         UNCHANGED <<expired, idx>>
  PROVE  BatchInv'
BY DEF IInv, BatchInv

\* Polling and swapping the functor queue leave the timers alone.
LEMMA QuietKeeps ==
  ASSUME IInv, PollBegin \/ PollReturn \/ PollOther \/ SwapPending \/ FunctorsDone
  PROVE  IInv'
<1>1. /\ pc \notin {"batch", "callback"} /\ pc' \in Points \ {"batch", "callback"}
      /\ UNCHANGED <<now, timerVars, expired, idx, pending, callVars, lastFired>>
  BY DEF PollBegin, PollReturn, PollOther, SwapPending, FunctorsDone, Points, batchVars, queueVars
<1>2. KeysInv' /\ NewInv' /\ TimerInv'
  BY <1>1, TimePasses DEF IInv, TypeOK
<1>3. BatchInv'
  BY <1>1, NoBatch
<1>4. pollUntil' \in Nat /\ todo' \in 0..Len(pending)
  <2>1. CASE PollBegin
    <3>1. PollTimeoutMs * TicksPerMs \in Nat
      BY TimeoutType, MoreTicks, TimerAssumption DEF IInv
    <3> QED BY <2>1, <3>1 DEF PollBegin, IInv, TypeOK, queueVars
  <2>2. CASE ~PollBegin
    BY <2>2 DEF PollReturn, PollOther, SwapPending, FunctorsDone, IInv, TypeOK, queueVars
  <2> QED BY <2>1, <2>2
<1>5. TypeOK'
  BY <1>1, <1>4 DEF IInv, TypeOK, timerVars, callVars
<1> QED BY <1>2, <1>3, <1>5 DEF IInv

\* Time passes, and what was due stays due.
LEMMA TickKeeps == IInv /\ Tick => IInv'
<1> SUFFICES ASSUME IInv, Tick PROVE IInv'
  OBVIOUS
<1>1. /\ now \in Nat /\ now' = now + 1
      /\ UNCHANGED <<pc, pollUntil, timerVars, batchVars, queueVars, callVars, lastFired>>
  BY DEF Tick, IInv, TypeOK
<1>2. KeysInv' /\ NewInv' /\ TimerInv'
  BY <1>1, TimePasses DEF batchVars, queueVars
<1>3. TypeOK'
  BY <1>1 DEF IInv, TypeOK, timerVars, batchVars, queueVars, callVars
<1>4. BatchInv'
  <2> SUFFICES ASSUME NEW k \in DOMAIN expired PROVE expiration[expired[k]] <= now'
    BY <1>1 DEF IInv, BatchInv, ToCome, Spaced, timerVars, batchVars
  <2>1. expiration[expired[k]] <= now /\ expiration[expired[k]] \in Nat
    BY DEF IInv, BatchInv, TypeOK
  <2> QED BY <1>1, <2>1
<1> QED BY <1>2, <1>3, <1>4 DEF IInv

-----------------------------------------------------------------------------
(* Adding and canceling *)

\* cancelInLoop takes a timer it finds out of both containers, or marks it in the batch.
LEMMA CancelInLoopKeeps ==
  ASSUME IInv, NEW i \in Timers, CancelInLoop(i), UNCHANGED <<expired, lastFired, now, used>>
  PROVE  /\ KeysInv' /\ TimerInv'
         /\ \A j \in Timers : New(j) => New(j)'
         /\ found' \subseteq Timers
         /\ canceled' \in [Timers -> BOOLEAN] /\ inQueue' \in [Timers -> BOOLEAN]
         /\ timers' \subseteq timers /\ timersById' = timersById \ {i}
         /\ \A j \in Timers : inQueue'[j] => inQueue[j]
<1>0. /\ found \subseteq Timers /\ canceled \in [Timers -> BOOLEAN]
      /\ inQueue \in [Timers -> BOOLEAN] /\ timersById \subseteq Timers
      /\ expiration \in [Timers -> Nat]
  BY DEF IInv, TypeOK
<1>1. /\ found' = found \cup ({i} \cap timersById)
      /\ canceled' = [canceled EXCEPT ![i] = @ \/ i \in timersById]
      /\ timers' = timers \ {k \in timers :
                                i \in timersById /\ inQueue[i] /\ k = <<expiration[i], i>>}
      /\ inQueue' = [inQueue EXCEPT ![i] = @ /\ i \notin timersById]
      /\ timersById' = timersById \ {i} /\ UNCHANGED <<expiration, interval>>
  BY DEF CancelInLoop
<1>2. /\ found' \subseteq Timers
      /\ canceled' \in [Timers -> BOOLEAN] /\ inQueue' \in [Timers -> BOOLEAN]
  BY <1>0, <1>1
<1>3. \A j \in Timers : /\ inQueue'[j] => inQueue[j]
                        /\ j # i => /\ inQueue'[j] = inQueue[j] /\ canceled'[j] = canceled[j]
                                    /\ (j \in found' <=> j \in found)
  BY <1>0, <1>1
<1>4. KeysInv'
  <2>1. timers' = {<<expiration[j], j>> : j \in {l \in timersById' : inQueue'[l]}}
    <3>1. \A k \in timers : \E j \in timersById : inQueue[j] /\ k = <<expiration[j], j>>
      BY DEF IInv, KeysInv
    <3>2. \A j \in timersById : inQueue[j] => <<expiration[j], j>> \in timers
      BY DEF IInv, KeysInv
    <3>3. ASSUME NEW k \in timers'
          PROVE  k \in {<<expiration[j], j>> : j \in {l \in timersById' : inQueue'[l]}}
      <4>1. PICK j \in timersById : inQueue[j] /\ k = <<expiration[j], j>>
        BY <1>1, <3>1, <3>3
      <4>2. j # i
        BY <1>1, <3>3, <4>1
      <4> QED BY <1>0, <1>1, <1>3, <4>1, <4>2
    <3>4. ASSUME NEW j \in timersById', inQueue'[j] PROVE <<expiration[j], j>> \in timers'
      <4>1. j \in timersById /\ j # i /\ inQueue[j]
        BY <1>0, <1>1, <1>3, <3>4
      <4>2. <<expiration[j], j>> \in timers
        BY <3>2, <4>1
      <4> QED BY <1>1, <4>1, <4>2
    <3> QED BY <3>3, <3>4
  <2>2. \A j \in timersById' : inQueue'[j] \/ j \in Range(expired)
    BY <1>0, <1>1, <1>3 DEF IInv, KeysInv
  <2> QED BY <1>1, <2>1, <2>2 DEF KeysInv
<1>5. TimerInv'
  <2> SUFFICES ASSUME NEW j \in Timers
               PROVE  /\ j \in found' => canceled'[j] /\ j \notin timersById'
                      /\ j \in timersById' /\ inQueue'[j] => Spaced(j)
                      /\ lastFired[j] <= now
    BY <1>1 DEF TimerInv, Spaced
  <2>1. /\ j \in found => canceled[j] /\ j \notin timersById
        /\ j \in timersById /\ inQueue[j] => Spaced(j)
        /\ lastFired[j] <= now
    BY DEF IInv, TimerInv
  <2>2. CASE j = i
    BY <1>0, <1>1, <2>1, <2>2
  <2>3. CASE j # i
    BY <1>1, <1>3, <2>1, <2>3
  <2> QED BY <2>2, <2>3
<1>6. ASSUME NEW j \in Timers, New(j) PROVE New(j)'
  BY <1>0, <1>1, <1>3, <1>6 DEF New
<1> QED BY <1>1, <1>2, <1>3, <1>4, <1>5, <1>6

\* New timers stay new.
LEMMA NewStays ==
  ASSUME IInv, \A j \in Timers : New(j) => New(j)', UNCHANGED <<used, pending>>
  PROVE  NewInv'
BY DEF IInv, NewInv

\* A timer of the batch stays as it is when no timer is queued.
LEMMA BatchStays ==
  ASSUME IInv, UNCHANGED <<pc, expired, idx, now, expiration, interval, lastFired>>,
         \A j \in Timers : inQueue'[j] => inQueue[j]
  PROVE  BatchInv'
<1>1. \A k \in DOMAIN expired : expired[k] \in Timers
  BY DEF IInv, TypeOK
<1> QED BY <1>1 DEF IInv, BatchInv, ToCome, Spaced

\* cancel() on the owner thread, also from a callback of the batch.
LEMMA CancelKeeps ==
  ASSUME IInv, NEW i \in Timers, Cancel(i)
  PROVE  IInv'
<1>1. CancelInLoop(i) /\ UNCHANGED <<now, pc, pollUntil, batchVars, queueVars, used, lastFired>>
  BY DEF Cancel
<1>2. /\ KeysInv' /\ TimerInv'
      /\ \A j \in Timers : New(j) => New(j)'
      /\ found' \subseteq Timers
      /\ canceled' \in [Timers -> BOOLEAN] /\ inQueue' \in [Timers -> BOOLEAN]
      /\ timers' \subseteq timers /\ timersById' = timersById \ {i}
      /\ \A j \in Timers : inQueue'[j] => inQueue[j]
  BY <1>1, CancelInLoopKeeps DEF batchVars
<1>3. NewInv'
  BY <1>1, <1>2, NewStays DEF queueVars
<1>4. BatchInv'
  BY <1>1, <1>2, BatchStays DEF batchVars, CancelInLoop
<1>5. TypeOK'
  BY <1>1, <1>2 DEF IInv, TypeOK, batchVars, queueVars, CancelInLoop
<1> QED BY <1>2, <1>3, <1>4, <1>5 DEF IInv

\* insert() of a new timer.
LEMMA InsertKeeps ==
  ASSUME IInv, NEW i \in Timers, NEW e \in Nat, New(i), Insert(i, e),
         UNCHANGED <<expired, lastFired, now, found>>,
         \A j \in Timers \ {i} : interval'[j] = interval[j]
  PROVE  /\ KeysInv' /\ TimerInv'
         /\ \A j \in Timers \ {i} : New(j) => New(j)'
         /\ expiration' \in [Timers -> Nat]
         /\ canceled' \in [Timers -> BOOLEAN] /\ inQueue' \in [Timers -> BOOLEAN]
         /\ timers' \subseteq Nat \X Timers /\ timersById' = timersById \cup {i}
         /\ \A j \in Timers \ {i} : expiration'[j] = expiration[j] /\ inQueue'[j] = inQueue[j]
<1>0. /\ canceled \in [Timers -> BOOLEAN] /\ inQueue \in [Timers -> BOOLEAN]
      /\ timersById \subseteq Timers /\ timers \subseteq Nat \X Timers
      /\ expiration \in [Timers -> Nat]
  BY DEF IInv, TypeOK
<1>1. /\ expiration' = [expiration EXCEPT ![i] = e] /\ inQueue' = [inQueue EXCEPT ![i] = TRUE]
      /\ canceled' = [canceled EXCEPT ![i] = FALSE]
      /\ timersById' = timersById \cup {i} /\ timers' = timers \cup {<<e, i>>}
      /\ i \notin timersById
  BY DEF Insert, New
<1>2. /\ expiration' \in [Timers -> Nat] /\ timers' \subseteq Nat \X Timers
      /\ canceled' \in [Timers -> BOOLEAN] /\ inQueue' \in [Timers -> BOOLEAN]
      /\ expiration'[i] = e /\ inQueue'[i]
      /\ \A j \in Timers \ {i} : expiration'[j] = expiration[j] /\ inQueue'[j] = inQueue[j]
                                 /\ canceled'[j] = canceled[j]
  BY <1>0, <1>1
<1>3. KeysInv'
  <2>1. timers' = {<<expiration'[j], j>> : j \in {l \in timersById' : inQueue'[l]}}
    <3>1. \A k \in timers : \E j \in timersById : inQueue[j] /\ k = <<expiration[j], j>>
      BY DEF IInv, KeysInv
    <3>2. \A j \in timersById : inQueue[j] => <<expiration[j], j>> \in timers
      BY DEF IInv, KeysInv
    <3>3. ASSUME NEW k \in timers'
          PROVE  k \in {<<expiration'[j], j>> : j \in {l \in timersById' : inQueue'[l]}}
      <4>1. CASE k = <<e, i>>
        BY <1>1, <1>2, <4>1
      <4>2. CASE k # <<e, i>>
        <5>1. PICK j \in timersById : inQueue[j] /\ k = <<expiration[j], j>>
          BY <1>1, <3>1, <3>3, <4>2
        <5>2. j # i /\ j \in Timers
          BY <1>0, <1>1
        <5> QED BY <1>1, <1>2, <5>1, <5>2
      <4> QED BY <4>1, <4>2
    <3>4. ASSUME NEW j \in timersById', inQueue'[j] PROVE <<expiration'[j], j>> \in timers'
      <4>1. CASE j = i
        BY <1>1, <1>2, <4>1
      <4>2. CASE j # i
        <5>1. j \in timersById /\ j \in Timers
          BY <1>0, <1>1, <4>2
        <5> QED BY <1>1, <1>2, <3>2, <3>4, <4>2, <5>1
      <4> QED BY <4>1, <4>2
    <3> QED BY <3>3, <3>4
  <2>2. \A j \in timersById' : inQueue'[j] \/ j \in Range(expired)
    BY <1>0, <1>1, <1>2 DEF IInv, KeysInv
  <2> QED BY <2>1, <2>2 DEF KeysInv
<1>4. TimerInv'
  <2> SUFFICES ASSUME NEW j \in Timers
               PROVE  /\ j \in found => canceled'[j] /\ j \notin timersById'
                      /\ j \in timersById' /\ inQueue'[j] => Spaced(j)'
                      /\ lastFired[j] <= now
    BY DEF TimerInv
  <2>1. /\ j \in found => canceled[j] /\ j \notin timersById
        /\ j \in timersById /\ inQueue[j] => Spaced(j)
        /\ lastFired[j] <= now
    BY DEF IInv, TimerInv
  <2>2. CASE j = i
    BY <2>1, <2>2 DEF New, Spaced
  <2>3. CASE j # i
    BY <1>1, <1>2, <2>1, <2>3 DEF Spaced
  <2> QED BY <2>2, <2>3
<1>5. \A j \in Timers \ {i} : New(j) => New(j)'
  BY <1>1 DEF New
<1> QED BY <1>1, <1>2, <1>3, <1>4, <1>5

\* The times a caller may pass are on the clock.
LEMMA ScheduleType ==
  ASSUME IInv, NEW s \in Schedules
  PROVE  s[1] \in Nat /\ s[2] \in Nat
<1>1. CASE s \in Whens \X {0}
  <2>1. PICK w \in Whens : s = <<w, 0>>
    BY <1>1
  <2>2. w \in Nat
    BY TimerAssumption
  <2> QED BY <2>1, <2>2
<1>2. CASE s \in {<<now + d, d>> : d \in Intervals}
  <2>1. PICK d \in Intervals : s = <<now + d, d>>
    BY <1>2
  <2> QED BY <2>1, TimerAssumption DEF IInv, TypeOK
<1> QED BY <1>1, <1>2 DEF Schedules

\* addTimer() on the owner thread, also from a callback of the batch.
LEMMA AddTimerKeeps ==
  ASSUME IInv, NEW i \in Timers, NEW s \in Schedules, AddTimer(i, s)
  PROVE  IInv'
<1>0. s[1] \in Nat /\ s[2] \in Nat
  BY ScheduleType
<1>1. /\ i \notin used /\ used' = used \cup {i} /\ interval' = [interval EXCEPT ![i] = s[2]]
      /\ Insert(i, s[1])
      /\ UNCHANGED <<now, pc, pollUntil, batchVars, queueVars, found, lastFired>>
  BY DEF AddTimer
<1>2. New(i)
  BY <1>1 DEF IInv, NewInv
<1>3. interval' \in [Timers -> Nat] /\ \A j \in Timers \ {i} : interval'[j] = interval[j]
  BY <1>0, <1>1 DEF IInv, TypeOK
<1>4. /\ KeysInv' /\ TimerInv'
      /\ \A j \in Timers \ {i} : New(j) => New(j)'
      /\ expiration' \in [Timers -> Nat]
      /\ canceled' \in [Timers -> BOOLEAN] /\ inQueue' \in [Timers -> BOOLEAN]
      /\ timers' \subseteq Nat \X Timers /\ timersById' = timersById \cup {i}
      /\ \A j \in Timers \ {i} : expiration'[j] = expiration[j] /\ inQueue'[j] = inQueue[j]
  BY <1>0, <1>1, <1>2, <1>3, InsertKeeps DEF batchVars
<1>5. NewInv'
  <2>1. \A j \in Timers : j \notin used' => New(j)'
    BY <1>1, <1>4 DEF IInv, NewInv
  <2>2. ASSUME NEW j \in Timers, NEW k \in DOMAIN pending, pending[k] = <<"add", j>>
        PROVE  j \in used' /\ New(j)'
    <3>1. j \in used /\ New(j)
      BY <2>2 DEF IInv, NewInv
    <3> QED BY <1>1, <1>4, <3>1
  <2> QED BY <1>1, <2>1, <2>2 DEF IInv, NewInv, queueVars
<1>6. BatchInv'
  <2>1. ASSUME NEW k \in DOMAIN expired PROVE expired[k] \in Timers \ {i}
    BY <1>2 DEF New, Range, IInv, TypeOK
  <2> QED BY <1>1, <1>3, <1>4, <2>1 DEF IInv, BatchInv, ToCome, Spaced, batchVars
<1>7. TypeOK'
  BY <1>1, <1>3, <1>4 DEF IInv, TypeOK, batchVars, queueVars
<1> QED BY <1>4, <1>5, <1>6, <1>7 DEF IInv

\* Appending one functor.
LEMMA PendingAppended ==
  ASSUME NEW f \in {"add", "cancel"} \X Timers, TypeOK, pending' = Append(pending, f)
  PROVE  /\ pending' \in Seq({"add", "cancel"} \X Timers) /\ Len(pending') = Len(pending) + 1
         /\ DOMAIN pending' = DOMAIN pending \cup {Len(pending) + 1}
         /\ pending'[Len(pending) + 1] = f
         /\ \A k \in DOMAIN pending : pending'[k] = pending[k] /\ k # Len(pending) + 1
<1>1. pending \in Seq({"add", "cancel"} \X Timers)
  BY DEF TypeOK
<1> QED BY <1>1

\* addTimer() on another thread: the timer waits in the functor queue.
LEMMA AddTimerCrossThreadKeeps ==
  ASSUME IInv, NEW i \in Timers, NEW s \in Schedules, AddTimerCrossThread(i, s)
  PROVE  IInv'
<1>0. s[1] \in Nat /\ s[2] \in Nat
  BY ScheduleType
<1>1. /\ i \notin used /\ used' = used \cup {i} /\ interval' = [interval EXCEPT ![i] = s[2]]
      /\ expiration' = [expiration EXCEPT ![i] = s[1]] /\ pending' = Append(pending, <<"add", i>>)
      /\ UNCHANGED <<now, pc, pollUntil, timers, timersById, canceled, inQueue, batchVars, todo,
                     found, lastFired>>
  BY DEF AddTimerCrossThread
<1>2. New(i)
  BY <1>1 DEF IInv, NewInv
<1>3. /\ interval' \in [Timers -> Nat] /\ expiration' \in [Timers -> Nat]
      /\ \A j \in Timers \ {i} : interval'[j] = interval[j] /\ expiration'[j] = expiration[j]
  BY <1>0, <1>1 DEF IInv, TypeOK
<1>4. /\ pending' \in Seq({"add", "cancel"} \X Timers) /\ Len(pending') = Len(pending) + 1
      /\ DOMAIN pending' = DOMAIN pending \cup {Len(pending) + 1}
      /\ pending'[Len(pending) + 1] = <<"add", i>>
      /\ \A k \in DOMAIN pending : pending'[k] = pending[k] /\ k # Len(pending) + 1
  BY <1>1, PendingAppended DEF IInv
<1>5. TypeOK'
  <2>1. todo' \in 0..Len(pending')
    BY <1>1, <1>4 DEF IInv, TypeOK
  <2> QED BY <1>1, <1>3, <1>4, <2>1 DEF IInv, TypeOK, batchVars
<1>6. KeysInv'
  <2>1. timersById \subseteq Timers \ {i}
    BY <1>2 DEF New, IInv, TypeOK
  <2>2. {<<expiration'[j], j>> : j \in {l \in timersById : inQueue[l]}}
        = {<<expiration[j], j>> : j \in {l \in timersById : inQueue[l]}}
    BY <1>3, <2>1
  <2> QED BY <1>1, <2>2 DEF IInv, KeysInv, batchVars
<1>7. NewInv'
  <2>1. \A j \in Timers : New(j)' <=> New(j)
    BY <1>1 DEF New, batchVars
  <2>2. \A k \in DOMAIN pending : pending[k] # <<"add", i>>
    BY <1>1 DEF IInv, NewInv
  <2>3. \A j \in Timers : j \notin used' => New(j)'
    BY <1>1, <2>1 DEF IInv, NewInv
  <2>4. ASSUME NEW j \in Timers, NEW k \in DOMAIN pending', pending'[k] = <<"add", j>>
        PROVE  j \in used' /\ New(j)'
    <3>1. CASE k \in DOMAIN pending
      BY <1>1, <1>4, <2>1, <2>4, <3>1 DEF IInv, NewInv
    <3>2. CASE k \notin DOMAIN pending
      <4>1. j = i
        BY <1>4, <2>4, <3>2
      <4> QED BY <1>1, <1>2, <2>1, <4>1
    <3> QED BY <3>1, <3>2
  <2>5. ASSUME NEW l \in Timers, NEW j \in DOMAIN pending', NEW k \in DOMAIN pending',
               pending'[j] = <<"add", l>>, pending'[k] = <<"add", l>>
        PROVE  j = k
    <3>1. CASE l = i
      BY <1>4, <2>2, <2>5, <3>1
    <3>2. CASE l # i
      <4>1. j \in DOMAIN pending /\ k \in DOMAIN pending
        BY <1>4, <2>5, <3>2
      <4> QED BY <1>4, <2>5, <4>1 DEF IInv, NewInv
    <3> QED BY <3>1, <3>2
  <2> QED BY <2>3, <2>4, <2>5 DEF NewInv
<1>8. TimerInv'
  <2>1. i \notin timersById
    BY <1>2 DEF New
  <2> QED BY <1>1, <1>3, <2>1 DEF IInv, TimerInv, Spaced
<1>9. BatchInv'
  <2>1. ASSUME NEW k \in DOMAIN expired PROVE expired[k] \in Timers \ {i}
    BY <1>2 DEF New, Range, IInv, TypeOK
  <2> QED BY <1>1, <1>3, <2>1 DEF IInv, BatchInv, ToCome, Spaced, batchVars
<1> QED BY <1>5, <1>6, <1>7, <1>8, <1>9 DEF IInv

\* cancel() on another thread waits there too.
LEMMA CancelCrossThreadKeeps ==
  ASSUME IInv, NEW i \in Timers, CancelCrossThread(i)
  PROVE  IInv'
<1>1. /\ pending' = Append(pending, <<"cancel", i>>)
      /\ UNCHANGED <<now, pc, pollUntil, timerVars, batchVars, todo, callVars, lastFired>>
  BY DEF CancelCrossThread
<1>2. /\ pending' \in Seq({"add", "cancel"} \X Timers) /\ Len(pending') = Len(pending) + 1
      /\ DOMAIN pending' = DOMAIN pending \cup {Len(pending) + 1}
      /\ pending'[Len(pending) + 1] = <<"cancel", i>>
      /\ \A k \in DOMAIN pending : pending'[k] = pending[k] /\ k # Len(pending) + 1
  BY <1>1, PendingAppended DEF IInv
<1>3. TypeOK'
  <2>1. todo' \in 0..Len(pending')
    BY <1>1, <1>2 DEF IInv, TypeOK
  <2> QED BY <1>1, <1>2, <2>1 DEF IInv, TypeOK, timerVars, batchVars, callVars
<1>4. NewInv'
  <2>1. \A j : New(j)' <=> New(j)
    BY <1>1 DEF New, timerVars, batchVars, callVars
  <2>2. \A l \in Timers : \A k \in DOMAIN pending' :
          pending'[k] = <<"add", l>> => k \in DOMAIN pending /\ pending'[k] = pending[k]
    BY <1>2
  <2> QED BY <1>1, <2>1, <2>2 DEF IInv, NewInv, callVars
<1>5. KeysInv' /\ TimerInv' /\ BatchInv'
  BY <1>1 DEF IInv, KeysInv, TimerInv, BatchInv, ToCome, Spaced, timerVars, batchVars, callVars
<1> QED BY <1>3, <1>4, <1>5 DEF IInv

-----------------------------------------------------------------------------
(* doPendingFunctors *)

\* Taking the first functor.
LEMMA PendingTaken ==
  ASSUME TypeOK, todo > 0, pending' = Tail(pending), todo' = todo - 1
  PROVE  /\ pending' \in Seq({"add", "cancel"} \X Timers) /\ todo' \in 0..Len(pending')
         /\ 1 \in DOMAIN pending /\ Head(pending) = pending[1]
         /\ Head(pending)[2] \in Timers
         /\ \A k \in DOMAIN pending' : k + 1 \in DOMAIN pending /\ pending'[k] = pending[k + 1]
                                       /\ k + 1 # 1 /\ k \in Nat
<1>1. pending \in Seq({"add", "cancel"} \X Timers) /\ pending # <<>>
      /\ todo \in Nat /\ todo <= Len(pending)
  BY DEF TypeOK
<1>2. /\ pending' \in Seq({"add", "cancel"} \X Timers) /\ Len(pending') = Len(pending) - 1
      /\ \A k \in DOMAIN pending' : k + 1 \in DOMAIN pending /\ pending'[k] = pending[k + 1]
                                    /\ k + 1 # 1 /\ k \in Nat
  BY <1>1
<1>3. /\ 1 \in DOMAIN pending /\ Head(pending) = pending[1]
      /\ pending[1] \in {"add", "cancel"} \X Timers
  BY <1>1
<1>4. Len(pending) \in Nat
  BY <1>1
<1> QED BY <1>1, <1>2, <1>3, <1>4

\* The functor of an addTimer() inserts a timer that no container holds.
LEMMA RunAddKeeps == IInv /\ RunAdd => IInv'
<1> SUFFICES ASSUME IInv, RunAdd PROVE IInv'
  OBVIOUS
<1> DEFINE i == Head(pending)[2]
<1>1. /\ pc = "functors" /\ todo > 0 /\ Head(pending)[1] = "add" /\ Insert(i, expiration[i])
      /\ pending' = Tail(pending) /\ todo' = todo - 1
      /\ UNCHANGED <<now, pc, pollUntil, interval, batchVars, callVars, lastFired>>
  BY DEF RunAdd
<1>2. /\ pending' \in Seq({"add", "cancel"} \X Timers) /\ todo' \in 0..Len(pending')
      /\ 1 \in DOMAIN pending /\ Head(pending) = pending[1] /\ i \in Timers
      /\ \A k \in DOMAIN pending' : k + 1 \in DOMAIN pending /\ pending'[k] = pending[k + 1]
                                    /\ k + 1 # 1 /\ k \in Nat
  BY <1>1, PendingTaken DEF IInv
<1>3. pending[1] = <<"add", i>>
  BY <1>1, <1>2 DEF IInv, TypeOK
<1> HIDE DEF i
<1>4. i \in used /\ New(i) /\ expiration[i] \in Nat
  BY <1>2, <1>3 DEF IInv, NewInv, TypeOK
<1>5. /\ KeysInv' /\ TimerInv'
      /\ \A j \in Timers \ {i} : New(j) => New(j)'
      /\ expiration' \in [Timers -> Nat]
      /\ canceled' \in [Timers -> BOOLEAN] /\ inQueue' \in [Timers -> BOOLEAN]
      /\ timers' \subseteq Nat \X Timers /\ timersById' = timersById \cup {i}
  BY <1>1, <1>2, <1>4, InsertKeeps DEF batchVars, callVars
<1>6. TypeOK'
  BY <1>1, <1>2, <1>5 DEF IInv, TypeOK, batchVars, callVars
<1>7. NewInv'
  <2>1. \A j \in Timers : j \notin used' => New(j)'
    BY <1>1, <1>4, <1>5 DEF IInv, NewInv, callVars
  <2>2. ASSUME NEW j \in Timers, NEW k \in DOMAIN pending', pending'[k] = <<"add", j>>
        PROVE  j \in used' /\ New(j)'
    <3>1. k + 1 \in DOMAIN pending /\ pending[k + 1] = <<"add", j>> /\ k + 1 # 1
      BY <1>2, <2>2
    <3>2. j \in used /\ New(j) /\ j # i
      BY <1>2, <1>3, <3>1 DEF IInv, NewInv
    <3> QED BY <1>1, <1>5, <3>2 DEF callVars
  <2>3. ASSUME NEW l \in Timers, NEW j \in DOMAIN pending', NEW k \in DOMAIN pending',
               pending'[j] = <<"add", l>>, pending'[k] = <<"add", l>>
        PROVE  j = k
    <3>1. j + 1 = k + 1
      BY <1>2, <2>3 DEF IInv, NewInv
    <3> QED BY <1>2, <3>1
  <2> QED BY <2>1, <2>2, <2>3 DEF NewInv
<1>8. BatchInv'
  BY <1>1, NoBatch DEF batchVars, Points
<1> QED BY <1>5, <1>6, <1>7, <1>8 DEF IInv

\* The functor of a cancel().
LEMMA RunCancelKeeps == IInv /\ RunCancel => IInv'
<1> SUFFICES ASSUME IInv, RunCancel PROVE IInv'
  OBVIOUS
<1> DEFINE i == Head(pending)[2]
<1>1. /\ pc = "functors" /\ todo > 0 /\ CancelInLoop(i)
      /\ pending' = Tail(pending) /\ todo' = todo - 1
      /\ UNCHANGED <<now, pc, pollUntil, batchVars, used, lastFired>>
  BY DEF RunCancel
<1>2. /\ pending' \in Seq({"add", "cancel"} \X Timers) /\ todo' \in 0..Len(pending') /\ i \in Timers
      /\ \A k \in DOMAIN pending' : k + 1 \in DOMAIN pending /\ pending'[k] = pending[k + 1]
                                    /\ k \in Nat
  BY <1>1, PendingTaken DEF IInv
<1> HIDE DEF i
<1>3. /\ KeysInv' /\ TimerInv'
      /\ \A j \in Timers : New(j) => New(j)'
      /\ found' \subseteq Timers
      /\ canceled' \in [Timers -> BOOLEAN] /\ inQueue' \in [Timers -> BOOLEAN]
      /\ timers' \subseteq timers /\ timersById' = timersById \ {i}
  BY <1>1, <1>2, CancelInLoopKeeps DEF batchVars
<1>4. TypeOK'
  BY <1>1, <1>2, <1>3 DEF IInv, TypeOK, batchVars, CancelInLoop
<1>5. NewInv'
  <2>2. ASSUME NEW j \in Timers, NEW k \in DOMAIN pending', pending'[k] = <<"add", j>>
        PROVE  j \in used' /\ New(j)'
    BY <1>1, <1>2, <1>3, <2>2 DEF IInv, NewInv
  <2>3. ASSUME NEW l \in Timers, NEW j \in DOMAIN pending', NEW k \in DOMAIN pending',
               pending'[j] = <<"add", l>>, pending'[k] = <<"add", l>>
        PROVE  j = k
    <3>1. j + 1 = k + 1
      BY <1>2, <2>3 DEF IInv, NewInv
    <3> QED BY <1>2, <3>1
  <2> QED BY <1>1, <1>3, <2>2, <2>3 DEF IInv, NewInv
<1>6. BatchInv'
  BY <1>1, NoBatch DEF batchVars, Points
<1> QED BY <1>3, <1>4, <1>5, <1>6 DEF IInv

-----------------------------------------------------------------------------
(* handleExpired *)

\* A finite function on 1..n is a sequence.
LEMMA FunctionIsSeq ==
  ASSUME NEW S, NEW n \in Nat, NEW f, f = [k \in 1..n |-> f[k]], \A k \in 1..n : f[k] \in S
  PROVE  f \in Seq(S)
OBVIOUS

\* A queued timer has one key, so that the due keys are finitely many.
LEMMA DueIsFinite ==
  ASSUME IInv
  PROVE  IsFiniteSet({k \in timers : k[1] <= now})
<1>1. IsFiniteSet(Timers)
  BY FS_Interval, TimerAssumption DEF Timers
<1>2. IsFiniteSet({j \in timersById : inQueue[j]})
  <2>1. {j \in timersById : inQueue[j]} \subseteq Timers
    BY DEF IInv, TypeOK
  <2> QED BY <1>1, <2>1, FS_Subset
<1> DEFINE queued == {j \in timersById : inQueue[j]}
           key == [i \in queued |-> <<expiration[i], i>>]
<1>3. timers = {key[i] : i \in queued}
  BY DEF IInv, KeysInv
<1>4. IsFiniteSet(timers)
  <2>1. key \in Surjection(queued, timers)
    BY <1>3 DEF Surjection
  <2> HIDE DEF key, queued
  <2> QED BY <1>2, <2>1, FS_Surjection DEF queued
<1>5. {k \in timers : k[1] <= now} \subseteq timers
  OBVIOUS
<1> QED BY <1>4, <1>5, FS_Subset

\* getExpired: the batch is the due timers, each once.
LEMMA BatchOfDue ==
  ASSUME IInv, pc = "dispatch", NEW due, due = {k \in timers : k[1] <= now},
         NEW keys \in Bijection(1..Cardinality(due), due),
         NEW batch, batch = [k \in DOMAIN keys |-> keys[k][2]]
  PROVE  /\ batch \in Seq(Timers) /\ Range(batch) = {d[2] : d \in due}
         /\ \A j, k \in DOMAIN batch : batch[j] = batch[k] => j = k
<1>1. Cardinality(due) \in Nat
  BY DueIsFinite, FS_CardinalityType
<1>2. /\ DOMAIN keys = 1..Cardinality(due) /\ \A k \in DOMAIN keys : keys[k] \in due
      /\ \A j, k \in DOMAIN keys : keys[j] = keys[k] => j = k
      /\ \A d \in due : \E k \in DOMAIN keys : keys[k] = d
  BY DEF Bijection, Injection, Surjection, IsInjective
<1>3. \A d \in due : d[2] \in Timers /\ d = <<expiration[d[2]], d[2]>>
  BY DEF IInv, TypeOK, KeysInv
<1>4. DOMAIN batch = 1..Cardinality(due) /\ \A k \in DOMAIN batch : batch[k] = keys[k][2]
  BY <1>2
<1>5. batch \in Seq(Timers)
  BY <1>1, <1>2, <1>3, <1>4, FunctionIsSeq
<1>6. Range(batch) = {d[2] : d \in due}
  BY <1>2, <1>4 DEF Range
<1>7. ASSUME NEW j \in DOMAIN batch, NEW k \in DOMAIN batch, batch[j] = batch[k] PROVE j = k
  <2>1. keys[j] = keys[k]
    BY <1>2, <1>3, <1>4, <1>7
  <2> QED BY <1>2, <1>4, <2>1
<1> QED BY <1>5, <1>6, <1>7

\* handleExpired() up to its loop: due timers move from timers_ to the batch.
LEMMA HandleExpiredKeeps == IInv /\ HandleExpired => IInv'
<1> SUFFICES ASSUME IInv, HandleExpired PROVE IInv'
  OBVIOUS
<1> DEFINE due == {k \in timers : k[1] <= now}
<1>0. pc = "dispatch" /\ UNCHANGED <<now, pollUntil, queueVars, callVars, lastFired>>
  BY DEF HandleExpired
<1>1. CASE due = {}
  <2>1. pc' = "swap" /\ UNCHANGED <<timerVars, batchVars>>
    BY <1>1 DEF HandleExpired
  <2>2. KeysInv' /\ NewInv' /\ TimerInv'
    BY <1>0, <2>1, TimePasses DEF IInv, TypeOK, batchVars, queueVars
  <2>3. BatchInv'
    BY <1>0, <2>1, NoBatch DEF Points, batchVars
  <2>4. TypeOK'
    BY <1>0, <2>1 DEF IInv, TypeOK, Points, timerVars, batchVars, queueVars, callVars
  <2> QED BY <2>2, <2>3, <2>4 DEF IInv
<1>2. CASE due # {}
  <2>1. /\ \E keys \in Bijection(1..Cardinality(due), due) :
             expired' = [k \in DOMAIN keys |-> keys[k][2]]
        /\ idx' = 1 /\ pc' = "batch" /\ timers' = timers \ due
        /\ inQueue' = [i \in Timers |-> inQueue[i] /\ \A k \in due : k[2] # i]
        /\ UNCHANGED <<timersById, expiration, interval, canceled>>
    BY <1>2 DEF HandleExpired
  <2>2. /\ expired' \in Seq(Timers) /\ Range(expired') = {d[2] : d \in due}
        /\ \A j, k \in DOMAIN expired' : expired'[j] = expired'[k] => j = k
    BY <1>0, <2>1, BatchOfDue
  <2>3. \A d \in due : /\ d[2] \in timersById /\ d[2] \in Timers /\ inQueue[d[2]]
                        /\ d = <<expiration[d[2]], d[2]>> /\ d[1] <= now /\ d \in timers
    BY DEF IInv, TypeOK, KeysInv
  <2>4. Range(expired) = {}
    BY <1>0 DEF IInv, BatchInv, Range
  <2>5. \A i \in timersById : i \in Timers /\ inQueue[i] /\ <<expiration[i], i>> \in timers
    BY <2>4 DEF IInv, KeysInv, TypeOK
  <2> HIDE DEF due
  <2>6. \A i \in Timers : inQueue'[i] <=> inQueue[i] /\ i \notin Range(expired')
    BY <2>1, <2>2
  <2>7. KeysInv'
    <3>1. ASSUME NEW k \in timers'
          PROVE  k \in {<<expiration[i], i>> : i \in {j \in timersById : inQueue'[j]}}
      <4>1. PICK i \in timersById : k = <<expiration[i], i>>
        BY <2>1 DEF IInv, KeysInv
      <4>2. i \notin Range(expired')
        BY <2>1, <2>2, <2>3, <4>1
      <4> QED BY <2>5, <2>6, <4>1, <4>2
    <3>2. ASSUME NEW i \in timersById, inQueue'[i] PROVE <<expiration[i], i>> \in timers'
      <4>1. <<expiration[i], i>> \notin due
        BY <2>2, <2>5, <2>6, <3>2
      <4> QED BY <2>1, <2>5, <4>1
    <3>3. timers' = {<<expiration[i], i>> : i \in {j \in timersById : inQueue'[j]}}
      BY <3>1, <3>2
    <3>4. \A i \in timersById : inQueue'[i] \/ i \in Range(expired')
      BY <2>5, <2>6
    <3>5. UNCHANGED <<timersById, expiration>>
      BY <2>1
    <3> QED BY <3>3, <3>4, <3>5 DEF KeysInv
  <2>8. NewInv'
    <3>1. \A j \in Timers : New(j) => New(j)'
      BY <1>0, <2>1, <2>2, <2>3 DEF New, callVars
    <3> QED BY <1>0, <3>1, NewStays DEF callVars, queueVars
  <2>9. TimerInv'
    BY <1>0, <2>1, <2>5, <2>6 DEF IInv, TimerInv, Spaced, callVars
  <2>10. BatchInv'
    <3>1. ASSUME NEW k \in DOMAIN expired'
          PROVE  ~inQueue'[expired'[k]] /\ expiration[expired'[k]] <= now /\ Spaced(expired'[k])
      <4>1. expired'[k] \in Range(expired')
        BY DEF Range
      <4>2. PICK d \in due : d[2] = expired'[k]
        BY <2>2, <4>1
      <4>3. /\ d[2] \in Timers /\ d[2] \in timersById /\ inQueue[d[2]]
            /\ d = <<expiration[d[2]], d[2]>> /\ d[1] <= now
        BY <2>3
      <4>4. ~inQueue'[d[2]] /\ expiration[d[2]] <= now /\ Spaced(d[2])
        BY <2>6, <4>1, <4>2, <4>3 DEF IInv, TimerInv
      <4> QED BY <4>2, <4>4
    <3>2. idx' = 1 /\ pc' = "batch" /\ UNCHANGED <<expiration, interval, now, lastFired>>
      BY <1>0, <2>1
    <3>3. ASSUME NEW k \in DOMAIN expired' PROVE Spaced(expired[k])'
      BY <3>1, <3>2 DEF Spaced
    <3>4. ASSUME NEW k \in DOMAIN expired'
          PROVE  (~inQueue[expired[k]] /\ expiration[expired[k]] <= now)'
      BY <3>1, <3>2
    <3> QED BY <2>2, <3>2, <3>3, <3>4 DEF BatchInv
  <2>11. TypeOK'
    BY <1>0, <2>1, <2>2 DEF IInv, TypeOK, Points, queueVars, callVars
  <2> QED BY <2>7, <2>8, <2>9, <2>10, <2>11 DEF IInv
<1> QED BY <1>1, <1>2

\* What a step of the batch that leaves the containers alone keeps.
LEMMA BatchStep ==
  ASSUME IInv, pc' \in Points, idx' \in Nat,
         UNCHANGED <<now, pollUntil, timerVars, expired, queueVars, callVars, lastFired>>
  PROVE  TypeOK' /\ KeysInv' /\ NewInv' /\ TimerInv'
<1>1. KeysInv' /\ NewInv' /\ TimerInv'
  BY TimePasses DEF IInv, TypeOK, queueVars
<1>2. TypeOK'
  BY DEF IInv, TypeOK, timerVars, queueVars, callVars
<1> QED BY <1>1, <1>2

\* The batch moves on past a timer that was canceled, or whose callback has returned.
LEMMA SkipCanceledKeeps ==
  ASSUME IInv, SkipCanceled \/ CallbackReturns
  PROVE  IInv'
<1>1. /\ pc \in {"batch", "callback"} /\ pc' = "batch" /\ idx' = idx + 1
      /\ UNCHANGED <<now, pollUntil, timerVars, expired, queueVars, callVars, lastFired>>
  BY DEF SkipCanceled, CallbackReturns
<1>2. idx \in Nat /\ idx > 0 /\ idx' \in Nat /\ idx' > 0
  BY <1>1 DEF IInv, TypeOK, BatchInv
<1>3. TypeOK' /\ KeysInv' /\ NewInv' /\ TimerInv'
  BY <1>1, <1>2, BatchStep DEF Points
<1>4. \A k \in DOMAIN expired : ToCome(k)' => ToCome(k)
  BY <1>1, <1>2 DEF ToCome, IInv, TypeOK
<1>5. BatchInv'
  BY <1>1, <1>2, <1>4 DEF IInv, BatchInv, Spaced, timerVars
<1> QED BY <1>3, <1>5 DEF IInv

\* A callback is called: its timer is in no later place of the batch.
LEMMA RunCallbackKeeps == IInv /\ RunCallback => IInv'
<1> SUFFICES ASSUME IInv, RunCallback PROVE IInv'
  OBVIOUS
<1> DEFINE i == expired[idx]
<1>1. /\ pc = "batch" /\ pc' = "callback" /\ idx <= Len(expired)
      /\ lastFired' = [lastFired EXCEPT ![i] = now]
      /\ UNCHANGED <<now, pollUntil, timerVars, batchVars, queueVars, callVars>>
  BY DEF RunCallback
<1>2. idx \in DOMAIN expired /\ i \in Timers /\ idx \in Nat /\ now \in Nat
  BY <1>1 DEF IInv, TypeOK, BatchInv
<1>3. i \in Range(expired) /\ ~inQueue[i]
  BY <1>2 DEF Range, IInv, BatchInv
<1>4. \A k \in DOMAIN expired : k # idx => expired[k] # i
  BY <1>2 DEF IInv, BatchInv
<1> HIDE DEF i
<1>5. /\ lastFired' \in [Timers -> Nat \cup {Never}] /\ lastFired'[i] = now
      /\ \A j \in Timers \ {i} : lastFired'[j] = lastFired[j]
  BY <1>1, <1>2 DEF IInv, TypeOK
<1>6. TypeOK'
  BY <1>1, <1>5 DEF IInv, TypeOK, Points, timerVars, batchVars, queueVars, callVars
<1>7. KeysInv'
  BY <1>1 DEF IInv, KeysInv, timerVars, batchVars
<1>8. NewInv'
  <2>1. \A j \in Timers : New(j) => New(j)'
    BY <1>1, <1>3, <1>5 DEF New, timerVars, batchVars, callVars
  <2> QED BY <1>1, <2>1, NewStays DEF queueVars, callVars
<1>9. TimerInv'
  <2> SUFFICES ASSUME NEW j \in Timers
               PROVE  /\ j \in found => canceled[j] /\ j \notin timersById
                      /\ j \in timersById /\ inQueue[j] => Spaced(j)'
                      /\ lastFired'[j] <= now
    BY <1>1 DEF TimerInv, timerVars, callVars
  <2>1. CASE j = i
    BY <1>2, <1>3, <1>5, <2>1 DEF IInv, TimerInv
  <2>2. CASE j # i
    BY <1>1, <1>5, <2>2 DEF IInv, TimerInv, Spaced, timerVars
  <2> QED BY <2>1, <2>2
<1>10. BatchInv'
  <2>1. ASSUME NEW k \in DOMAIN expired, ToCome(k)' PROVE Spaced(expired[k])'
    <3>1. k > idx /\ k \in Nat
      BY <1>1, <2>1 DEF ToCome, batchVars, IInv, TypeOK
    <3>2. ToCome(k) /\ k # idx
      BY <1>1, <1>2, <3>1 DEF ToCome
    <3>3. expired[k] \in Timers
      BY DEF IInv, TypeOK
    <3>4. Spaced(expired[k]) /\ expired[k] # i
      BY <1>4, <3>2 DEF IInv, BatchInv
    <3> QED BY <1>1, <1>5, <3>3, <3>4 DEF Spaced, timerVars, batchVars
  <2> QED BY <1>1, <2>1 DEF IInv, BatchInv, timerVars, batchVars
<1> QED BY <1>6, <1>7, <1>8, <1>9, <1>10 DEF IInv

\* reset(): the batch is over, and every timer of it is queued again or forgotten.
LEMMA ResetKeeps == IInv /\ Reset => IInv'
<1> SUFFICES ASSUME IInv, Reset PROVE IInv'
  OBVIOUS
<1> DEFINE batch == Range(expired)
           again == {i \in batch : interval[i] > 0 /\ ~canceled[i] /\ i \in timersById}
<1>0. /\ expiration \in [Timers -> Nat] /\ interval \in [Timers -> Nat] /\ now \in Nat
      /\ inQueue \in [Timers -> BOOLEAN] /\ timersById \subseteq Timers
      /\ timers \subseteq Nat \X Timers /\ lastFired \in [Timers -> Nat \cup {Never}]
  BY DEF IInv, TypeOK
<1>1. /\ expiration' = [i \in Timers |-> IF i \in again THEN now + interval[i] ELSE expiration[i]]
      /\ inQueue' = [i \in Timers |-> inQueue[i] \/ i \in again]
      /\ timersById' = timersById \ (batch \ again)
      /\ timers' = timers \cup {<<now + interval[i], i>> : i \in again}
  BY DEF Reset
<1>2. /\ expired' = <<>> /\ idx' = 1 /\ pc' = "swap"
      /\ UNCHANGED <<now, pollUntil, interval, canceled, queueVars, callVars, lastFired>>
  BY DEF Reset
<1>3. again \subseteq timersById /\ again \subseteq batch /\ \A i \in again : interval[i] > 0
  OBVIOUS
<1>4. \A i \in batch : i \in Timers /\ ~inQueue[i]
  BY DEF IInv, TypeOK, BatchInv, Range
<1>5. /\ \A i \in timersById : inQueue[i] \/ i \in batch
      /\ \A i \in timersById : inQueue[i] => <<expiration[i], i>> \in timers
      /\ \A k \in timers : \E i \in timersById : inQueue[i] /\ k = <<expiration[i], i>>
  BY DEF IInv, KeysInv
<1> HIDE DEF again, batch
<1>6. \A i \in Timers : expiration'[i] = IF i \in again THEN now + interval[i] ELSE expiration[i]
  BY <1>1
<1>7. \A i \in Timers : inQueue'[i] <=> inQueue[i] \/ i \in again
  BY <1>1
<1>8. \A i \in timersById' : i \in Timers /\ inQueue'[i] /\ <<expiration'[i], i>> \in timers'
  <2> SUFFICES ASSUME NEW i \in timersById'
               PROVE  i \in Timers /\ inQueue'[i] /\ <<expiration'[i], i>> \in timers'
    OBVIOUS
  <2>1. i \in Timers /\ i \in timersById /\ (i \in again \/ i \notin batch)
    BY <1>0, <1>1
  <2>2. CASE i \in again
    BY <1>1, <1>6, <1>7, <2>1, <2>2
  <2>3. CASE i \notin again
    BY <1>1, <1>5, <1>6, <1>7, <2>1, <2>3
  <2> QED BY <2>2, <2>3
<1>9. \A k \in timers' : \E i \in timersById' : k = <<expiration'[i], i>>
  <2> SUFFICES ASSUME NEW k \in timers' PROVE \E i \in timersById' : k = <<expiration'[i], i>>
    OBVIOUS
  <2>1. CASE k \in timers
    <3>1. PICK i \in timersById : inQueue[i] /\ k = <<expiration[i], i>>
      BY <1>5, <2>1
    <3>2. i \notin batch /\ i \notin again /\ i \in Timers
      BY <1>0, <1>3, <1>4, <3>1
    <3> QED BY <1>1, <1>6, <3>1, <3>2
  <2>2. CASE k \notin timers
    <3>1. PICK i \in again : k = <<now + interval[i], i>>
      BY <1>1, <2>2
    <3>2. i \in timersById' /\ i \in Timers
      BY <1>0, <1>1, <1>3
    <3>3. expiration'[i] = now + interval[i]
      BY <1>6, <3>1, <3>2
    <3> QED BY <3>1, <3>2, <3>3
  <2> QED BY <2>1, <2>2
<1>10. KeysInv'
  <2>1. timers' = {<<expiration'[i], i>> : i \in {j \in timersById' : inQueue'[j]}}
    BY <1>8, <1>9
  <2> QED BY <1>8, <2>1 DEF KeysInv
<1>11. Range(expired') = {}
  BY <1>2 DEF Range
<1>12. NewInv'
  <2>1. \A j \in Timers : New(j) => New(j)'
    BY <1>1, <1>2, <1>11 DEF New, callVars
  <2> QED BY <1>2, <2>1, NewStays DEF callVars, queueVars
<1>13. TimerInv'
  <2> SUFFICES ASSUME NEW i \in Timers
               PROVE  /\ i \in found => canceled[i] /\ i \notin timersById'
                      /\ i \in timersById' => Spaced(i)'
                      /\ lastFired[i] <= now
    BY <1>2 DEF TimerInv, callVars
  <2>1. /\ i \in found => canceled[i] /\ i \notin timersById
        /\ i \in timersById /\ inQueue[i] => Spaced(i)
        /\ lastFired[i] <= now
    BY DEF IInv, TimerInv
  <2>2. CASE i \in again
    <3>1. lastFired[i] \in Int /\ interval[i] \in Int /\ interval[i] > 0
      BY <1>0, <1>3, <2>2 DEF Never
    <3>2. expiration'[i] = now + interval[i] /\ UNCHANGED <<interval, lastFired>>
      BY <1>2, <1>6, <2>2
    <3>3. lastFired[i] + interval[i] <= now + interval[i]
      BY <1>0, <2>1, <3>1
    <3>4. Spaced(i)'
      BY <3>1, <3>2, <3>3 DEF Spaced
    <3> QED BY <1>1, <2>1, <3>4
  <2>3. CASE i \notin again
    <3>1. i \in timersById' => i \in timersById /\ inQueue[i]
      BY <1>1, <1>5, <2>3
    <3>2. expiration'[i] = expiration[i] /\ UNCHANGED <<interval, lastFired>>
      BY <1>2, <1>6, <2>3
    <3>3. Spaced(i) => Spaced(i)'
      BY <3>2 DEF Spaced
    <3> QED BY <1>1, <2>1, <3>1, <3>3
  <2> QED BY <2>2, <2>3
<1>14. BatchInv'
  BY <1>2 DEF BatchInv
<1>15. TypeOK'
  <2>1. expiration' \in [Timers -> Nat] /\ inQueue' \in [Timers -> BOOLEAN]
    BY <1>0, <1>1
  <2>2. timersById' \subseteq Timers /\ timers' \subseteq Nat \X Timers
    BY <1>0, <1>1, <1>3
  <2> QED BY <1>2, <2>1, <2>2 DEF IInv, TypeOK, Points, queueVars, callVars
<1> QED BY <1>10, <1>12, <1>13, <1>14, <1>15 DEF IInv

-----------------------------------------------------------------------------
(* The theorems *)

\* Every step of the loop, of its user code and of other threads keeps the invariant.
LEMMA NextInv == IInv /\ [Next]_vars => IInv'
<1> SUFFICES ASSUME IInv, [Next]_vars PROVE IInv'
  OBVIOUS
<1>1. CASE PollBegin \/ PollReturn \/ PollOther \/ SwapPending \/ FunctorsDone
  BY <1>1, QuietKeeps
<1>2. CASE HandleExpired
  BY <1>2, HandleExpiredKeeps
<1>3. CASE SkipCanceled \/ CallbackReturns
  BY <1>3, SkipCanceledKeeps
<1>4. CASE RunCallback
  BY <1>4, RunCallbackKeeps
<1>5. CASE Reset
  BY <1>5, ResetKeeps
<1>6. CASE RunAdd
  BY <1>6, RunAddKeeps
<1>7. CASE RunCancel
  BY <1>7, RunCancelKeeps
<1>8. CASE Tick
  BY <1>8, TickKeeps
<1>9. ASSUME NEW i \in Timers, Cancel(i) \/ CancelCrossThread(i) PROVE IInv'
  BY <1>9, CancelKeeps, CancelCrossThreadKeeps
<1>10. ASSUME NEW i \in Timers, NEW s \in Schedules, AddTimer(i, s) \/ AddTimerCrossThread(i, s)
       PROVE  IInv'
  BY <1>10, AddTimerKeeps, AddTimerCrossThreadKeeps
<1>11. CASE UNCHANGED vars
  <2>1. UNCHANGED <<timerVars, expired, idx, queueVars, callVars, lastFired, now, pc, pollUntil>>
    BY <1>11 DEF vars, batchVars
  <2>2. TypeOK' /\ KeysInv' /\ NewInv' /\ TimerInv'
    BY <2>1, BatchStep DEF IInv, TypeOK
  <2>3. BatchInv'
    BY <2>1, BatchStays DEF timerVars
  <2> QED BY <2>2, <2>3 DEF IInv
<1> QED BY <1>1, <1>2, <1>3, <1>4, <1>5, <1>6, <1>7, <1>8, <1>9, <1>10, <1>11 DEF Next, LoopStep

\* The inductive invariant holds throughout.
THEOREM Invariance == Spec => []IInv
<1> QED BY InitInv, NextInv, PTL DEF Spec

\* timers_, timersById_ and inQueue describe the same timers in every interleaving of the
\* batch, cancellations from callbacks and functors of other threads (TimerQueue.cc:72-153).
THEOREM ContainersAlwaysAgree == Spec => []ContainersAgree
<1>1. IInv => ContainersAgree
  BY DEF IInv, KeysInv, ContainersAgree
<1> QED BY <1>1, Invariance, PTL

\* No timer fires early, twice, too soon after its last firing or after cancelInLoop found
\* it (TimerQueue.cc:80-91, 104-117, 145-153).
THEOREM FiringsAlwaysDue == Spec => FiringsAreDue
<1>1. ASSUME IInv, [Next]_vars, NEW i \in Timers, Fires(i)
      PROVE  /\ i \notin found
             /\ expiration[i] <= now
             /\ lastFired[i] = Never \/ (interval[i] > 0 /\ now - lastFired[i] >= interval[i])
  <2>1. pc = "batch" /\ pc' = "callback" /\ expired[idx] = i
    BY <1>1 DEF Fires
  <2>2. RunCallback
    BY <1>1, <2>1 DEF Next, LoopStep, PollBegin, PollReturn, PollOther, HandleExpired, SkipCanceled,
          CallbackReturns, Reset, SwapPending, RunAdd, RunCancel, FunctorsDone, Tick, Cancel,
          CancelCrossThread, AddTimer, AddTimerCrossThread, UserCode, vars
  <2>3. idx \in DOMAIN expired /\ ~canceled[i]
    BY <1>1, <2>1, <2>2 DEF RunCallback, IInv, TypeOK, BatchInv
  <2>4. expiration[i] <= now /\ Spaced(i)
    <3>1. ToCome(idx)
      BY <1>1, <2>1 DEF ToCome, IInv, TypeOK
    <3> QED BY <1>1, <2>1, <2>3, <3>1 DEF IInv, BatchInv
  <2>5. i \notin found
    BY <1>1, <2>3 DEF IInv, TimerInv
  <2>6. expiration[i] \in Nat /\ interval[i] \in Nat /\ now \in Nat /\ lastFired[i] \in Int
    BY <1>1 DEF IInv, TypeOK, Never
  <2> QED BY <2>4, <2>5, <2>6 DEF Spaced
<1>2. IInv /\ [Next]_vars =>
        [\A i \in Timers : Fires(i) =>
           /\ i \notin found
           /\ expiration[i] <= now
           /\ lastFired[i] = Never \/ (interval[i] > 0 /\ now - lastFired[i] >= interval[i])]_vars
  BY <1>1
<1> QED BY <1>2, Invariance, PTL DEF Spec, FiringsAreDue

\* A poll neither oversleeps the earliest deadline nor spins before it, whatever the
\* resolution of the clock (TimerQueue.cc:14-29, 94-102).
THEOREM PollsMeetDeadline == Spec => PollMeetsDeadline
<1>1. ASSUME IInv, [Next]_vars, pc = "top", pc' = "poll" PROVE PollBegin
  BY <1>1 DEF Next, LoopStep, PollReturn, PollOther, HandleExpired, SkipCanceled, RunCallback,
        CallbackReturns, Reset, SwapPending, RunAdd, RunCancel, FunctorsDone, Tick, Cancel,
        CancelCrossThread, AddTimer, AddTimerCrossThread, UserCode, vars
<1>2. IInv /\ [Next]_vars =>
        [pc = "top" /\ pc' = "poll" /\ timers # {} =>
           LET first == Earliest(timers)[1]
           IN  IF first <= now THEN pollUntil' = now
               ELSE /\ pollUntil' < first + TicksPerMs
                    /\ pollUntil' >= first \/ pollUntil' = now + DefaultTimeout * TicksPerMs]_vars
  BY <1>1, PollBeginMeets DEF IInv
<1> QED BY <1>2, Invariance, PTL DEF Spec, PollMeetsDeadline
=============================================================================
