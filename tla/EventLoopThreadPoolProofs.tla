---------------------- MODULE EventLoopThreadPoolProofs ----------------------
(***************************************************************************)
(* Proofs about EventLoopThread and EventLoopThreadPool, for any number of *)
(* workers, controllers and calls.                                         *)
(***************************************************************************)
EXTENDS EventLoopThreadPool, TLAPS

-----------------------------------------------------------------------------
(* The inductive invariant *)

\* threadFunc() up to SetRunning, while startLoop() waits and holds controlMutex_;
\* while its EventLoop exists; while loop_ points to it; after it let go of the loop.
Launching == {"construct", "publish", "init", "ready"}
Existing  == {"publish", "init", "ready", "loop", "returned", "retain", "unpublish", "destroy"}
Published == {"init", "ready", "loop", "returned", "retain", "unpublish"}
LettingGo == {"none", "unpublish", "destroy", "finish", "exited"}

\* One EventLoopThread and its thread.
RecordOK(r) ==
  /\ r.alive <=> r.pc \in Existing
  /\ r.loop = IF r.pc \in Published THEN r.thread ELSE 0
  /\ r.joinable <=> r.pc # "none"
  /\ r.pc # "none" => r.thread # 0
  /\ r.borrowed <= r.thread
  /\ r.pc \in Launching => r.borrowed < r.thread /\ r.state \in {"Starting", "Stopping"}
  /\ r.pc \in LettingGo /\ r.thread # 0 /\ ~r.stopAsked => r.borrowed # r.thread
  /\ r.pc \in Launching \cup {"loop", "returned", "retain"} => ~r.wfail
  /\ r.pc \in {"construct", "publish", "ready"} => ~r.stopAsked
  /\ r.pc = "init" /\ r.stopAsked => r.quit
  /\ r.state = "Running" => r.pc \in {"loop", "returned"} /\ ~r.stopAsked
  /\ r.state = "Exited" => r.pc = "retain" /\ ~r.stopAsked
  /\ r.state = "Stopping" => r.stopAsked
  /\ r.pc \in {"loop", "returned"} => r.state \in {"Running", "Stopping"}

\* Whoever creates a thread does so after the join, and waits for it until it has started.
CallOK(w) ==
  /\ wk[w].pc \in Launching => wk[w].control # None /\ ctl[wk[w].control].at = "wait"
  /\ \A c \in Controllers : ctl[c].at = "create" /\ ctl[c].w = w =>
       wk[w].pc = "none" /\ wk[w].state = "Starting"

ThreadInv == ThreadTypeOK /\ \A w \in Workers : RecordOK(wk[w]) /\ CallOK(w)

\* Worker i runs, or has run, the loop l for the pool, and nobody asked it to stop.
Recorded(i, l) == wk[i].borrowed = l /\ wk[i].thread = l /\ l # 0 /\ ~wk[i].stopAsked

\* The base thread and the calls it makes on the workers.
BaseInv ==
  /\ ~pooled => frame.at = "idle"
  /\ frame.at = "idle" => frame.loops = <<>>
  /\ pooled => \A c \in Controllers : ctl[c].at # "idle" => c = Base /\ frame.at \in {"starting", "stopping"}
  /\ frame.at = "starting" => Len(frame.loops) < pool.num
  /\ frame.at = "starting" /\ ctl[Base].at # "idle" =>
       /\ ctl[Base].w = Len(frame.loops) + 1
       /\ ctl[Base].at \in {"check", "startJoin", "create", "wait", "failJoin"}
  /\ frame.at = "stopping" => frame.i \in DOMAIN frame.loops
  /\ frame.at \in {"request", "join"} => frame.i # 0
  /\ frame.at = "stopping" /\ ctl[Base].at # "idle" =>
       ctl[Base].w = frame.i /\ ctl[Base].at \in {"stop", "stopJoin"}
  /\ frame.at \in {"start", "starting"} <=> pool.state = "Starting"
  /\ frame.at \in {"request", "join", "stopping"} <=> pool.state = "Stopping"

\* What the pool knows of its workers, and which of them may have a thread.
PoolInv ==
  pooled =>
    /\ Len(frame.loops) <= pool.num /\ Len(pool.loops) <= pool.num
    /\ pool.state \in {"Stopped", "Starting"} => pool.loops = <<>>
    /\ pool.state = "Running" => Len(pool.loops) = pool.num /\ (pool.num # 0 => pool.next < pool.num)
    /\ pool.state = "Running" => \A i \in DOMAIN pool.loops : Recorded(i, pool.loops[i])
    /\ pool.state = "Starting" => \A i \in DOMAIN frame.loops : Recorded(i, frame.loops[i])
    /\ frame.at = "starting" /\ ctl[Base].at = "idle" /\ ~ctl[Base].threw =>
         Recorded(Len(frame.loops) + 1, wk[Len(frame.loops) + 1].borrowed)
    /\ \A w \in Workers : wk[w].pc # "none" =>
         \/ pool.state = "Running" /\ w \in DOMAIN pool.loops
         \/ frame.at # "idle" /\ w \in DOMAIN frame.loops
         \/ frame.at = "starting" /\ w = Len(frame.loops) + 1
    /\ frame.at \in {"join", "stopping"} => \A w \in Workers : w < frame.i => wk[w].pc = "none"
    /\ frame.at = "stopping" /\ ctl[Base].at = "idle" => wk[frame.i].pc = "none"

IInv == TypeOK /\ ThreadInv /\ BaseInv /\ PoolInv

\* Append adds one element at the next index.
LEMMA AppendOne ==
  ASSUME NEW s \in Seq(Nat), NEW e \in Nat
  PROVE  /\ Len(Append(s, e)) = Len(s) + 1
         /\ DOMAIN Append(s, e) = DOMAIN s \cup {Len(s) + 1}
         /\ \A i \in DOMAIN s : Append(s, e)[i] = s[i]
         /\ Append(s, e)[Len(s) + 1] = e
  OBVIOUS

\* The indices the pool uses are workers.
LEMMA Indices ==
  ASSUME IInv, pooled
  PROVE  /\ DOMAIN pool.loops = 1..Len(pool.loops) /\ DOMAIN pool.loops \subseteq Workers
         /\ DOMAIN frame.loops = 1..Len(frame.loops) /\ DOMAIN frame.loops \subseteq Workers
         /\ Len(frame.loops) \in Nat /\ Len(pool.loops) \in Nat /\ pool.num \in Nat
         /\ Len(frame.loops) < pool.num => Len(frame.loops) + 1 \in Workers
         /\ frame.at = "starting" => Len(frame.loops) + 1 \in Workers
  <1>1. pool.num \in Nat /\ 1..pool.num \subseteq Workers
    <2>1. pool.num \in Workers \cup {0}
      BY DEF IInv, TypeOK
    <2>2. CASE pool.num \in Workers
      BY Zenon, <2>2, PoolAssumption
    <2>3. CASE pool.num = 0
      BY <2>3
    <2> QED  BY <2>1, <2>2, <2>3
  <1>2. /\ Len(frame.loops) \in Nat /\ Len(pool.loops) \in Nat
        /\ DOMAIN pool.loops = 1..Len(pool.loops)
        /\ DOMAIN frame.loops = 1..Len(frame.loops)
    BY DEF IInv, TypeOK
  <1>3. Len(frame.loops) <= pool.num /\ Len(pool.loops) <= pool.num
    BY DEF IInv, PoolInv
  <1>4. frame.at = "starting" => Len(frame.loops) < pool.num
    BY DEF IInv, BaseInv
  <1> QED  BY <1>1, <1>2, <1>3, <1>4

-----------------------------------------------------------------------------
(* The worker's own steps *)

\* What a step of the thread of w that leaves w as r does not disturb.
Undisturbed(r, q) ==
  /\ q \in WorkerType /\ RecordOK(q)
  /\ q.control = r.control /\ q.borrowed = r.borrowed /\ q.thread = r.thread
  /\ pooled => q.stopAsked = r.stopAsked
  /\ r.pc # "none"
  /\ q.pc \in Launching => r.pc \in Launching

\* A thread that keeps its own record consistent keeps the whole invariant: calls and the
\* pool see of it only what it does not change.
LEMMA WorkerKeeps ==
  ASSUME IInv, NEW w \in Workers, NEW q, Undisturbed(wk[w], q),
         wk' = [wk EXCEPT ![w] = q], UNCHANGED <<ctl, calls, pooled, pool, frame>>
  PROVE  IInv'
  <1> USE DEF IInv, ThreadInv, TypeOK, ThreadTypeOK, Undisturbed
  <1>1. /\ wk' \in [Workers -> WorkerType]
        /\ wk'[w] = q
        /\ \A v \in Workers : v # w => wk'[v] = wk[v]
    OBVIOUS
  <1>2. \A v \in Workers : /\ wk'[v].control = wk[v].control
                           /\ wk'[v].borrowed = wk[v].borrowed
                           /\ wk'[v].thread = wk[v].thread
                           /\ pooled => wk'[v].stopAsked = wk[v].stopAsked
                           /\ wk[v].pc = "none" => wk'[v] = wk[v]
                           /\ wk'[v].pc \in Launching => wk[v].pc \in Launching
    BY <1>1
  <1>3. TypeOK' /\ ThreadTypeOK'
    BY <1>1, <1>2
  <1>4. \A v \in Workers : RecordOK(wk'[v])
    BY <1>1
  <1>5. \A v \in Workers : CallOK(v)'
    BY <1>2 DEF CallOK
  <1>6. BaseInv'
    BY DEF BaseInv
  <1>7. PoolInv'
    <2> SUFFICES ASSUME pooled PROVE PoolInv'
      BY DEF PoolInv
    <2>1. frame.at = "stopping" => frame.i \in Workers
      BY Indices DEF BaseInv
    <2>2. \A i \in Workers : \A l : Recorded(i, l)' <=> Recorded(i, l)
      BY <1>2 DEF Recorded
    <2>3. \A i \in Workers : wk[i].pc = "none" => wk'[i].pc = "none"
      BY <1>2
    <2> HIDE DEF TypeOK, ThreadTypeOK, ThreadInv, Undisturbed
    <2>4. ASSUME frame.at = "starting",
                 Recorded(Len(frame.loops) + 1, wk[Len(frame.loops) + 1].borrowed)
          PROVE  Recorded(Len(frame.loops) + 1, wk[Len(frame.loops) + 1].borrowed)'
      BY <1>2, <2>4, Indices DEF Recorded
    <2> QED  BY <2>1, <2>2, <2>3, <2>4, Indices DEF PoolInv
  <1> QED  BY <1>3, <1>4, <1>5, <1>6, <1>7 DEF RecordOK

\* What the steps of threadFunc() do to the record of its EventLoopThread.
Move(r, q) ==
  \/ r.pc = "construct" /\ q = [r EXCEPT !.alive = TRUE, !.quit = FALSE, !.pc = "publish"]
  \/ r.pc = "construct" /\ q = [r EXCEPT !.wfail = TRUE, !.pc = "finish"]
  \/ r.pc = "publish" /\ q = [r EXCEPT !.managed = TRUE, !.loop = r.thread, !.pc = "init"]
  \/ r.pc = "init" /\ q = [r EXCEPT !.wfail = TRUE, !.pc = "unpublish"]
  \/ r.pc = "init" /\ ~r.quit /\ q = [r EXCEPT !.wfail = FALSE, !.pc = "ready"]
  \/ r.pc = "ready" /\ q = [r EXCEPT !.state = "Running", !.pc = "loop"]
  \/ r.pc = "loop" /\ q = [r EXCEPT !.pc = "returned"]
  \/ r.pc = "returned" /\ r.state = "Stopping" /\ q = [r EXCEPT !.pc = "unpublish"]
  \/ r.pc = "returned" /\ r.state # "Stopping" /\ q = [r EXCEPT !.state = "Exited", !.pc = "retain"]
  \/ r.pc = "retain" /\ r.state = "Stopping" /\ q = [r EXCEPT !.pc = "unpublish"]
  \/ r.pc = "unpublish" /\ q = [r EXCEPT !.loop = 0, !.pc = "destroy"]
  \/ r.pc = "destroy" /\ q = [r EXCEPT !.alive = FALSE, !.pc = "finish"]
  \/ r.pc = "finish" /\ q = [r EXCEPT !.loop = 0, !.managed = FALSE, !.failure = r.wfail,
                               !.state = IF r.wfail THEN "Failed" ELSE "Stopped", !.pc = "exited"]

\* Each of them keeps it consistent.
LEMMA MoveOK ==
  ASSUME NEW r \in WorkerType, RecordOK(r), NEW q, Move(r, q)
  PROVE  Undisturbed(r, q)
  <1> USE DEF Undisturbed, WorkerType, RecordOK, WorkerPoints, States, Launching, Existing,
              Published, LettingGo
  <1>1. CASE r.pc = "construct" /\ q = [r EXCEPT !.alive = TRUE, !.quit = FALSE, !.pc = "publish"]
    BY Zenon, <1>1
  <1>2. CASE r.pc = "construct" /\ q = [r EXCEPT !.wfail = TRUE, !.pc = "finish"]
    <2>1. q \in WorkerType
      BY Zenon, <1>2 DEF WorkerType, WorkerPoints, States
    <2>2. RecordOK(q)
      BY <1>2
    <2> QED  BY <1>2, <2>1, <2>2
  <1>3. CASE r.pc = "publish" /\ q = [r EXCEPT !.managed = TRUE, !.loop = r.thread, !.pc = "init"]
    BY Zenon, <1>3
  <1>4. CASE r.pc = "init" /\ q = [r EXCEPT !.wfail = TRUE, !.pc = "unpublish"]
    <2>1. q \in WorkerType
      BY Zenon, <1>4 DEF WorkerType, WorkerPoints, States
    <2>2. RecordOK(q)
      BY <1>4
    <2> QED  BY <1>4, <2>1, <2>2
  <1>5. CASE r.pc = "init" /\ ~r.quit /\ q = [r EXCEPT !.wfail = FALSE, !.pc = "ready"]
    BY Zenon, <1>5
  <1>6. CASE r.pc = "ready" /\ q = [r EXCEPT !.state = "Running", !.pc = "loop"]
    BY Zenon, <1>6
  <1>7. CASE r.pc = "loop" /\ q = [r EXCEPT !.pc = "returned"]
    BY <1>7
  <1>8. CASE r.pc = "returned" /\ r.state = "Stopping" /\ q = [r EXCEPT !.pc = "unpublish"]
    BY <1>8
  <1>9. CASE r.pc = "returned" /\ r.state # "Stopping" /\ q = [r EXCEPT !.state = "Exited", !.pc = "retain"]
    <2>1. q \in WorkerType
      BY Zenon, <1>9 DEF WorkerType, WorkerPoints, States
    <2>2. RecordOK(q)
      BY <1>9
    <2> QED  BY <1>9, <2>1, <2>2
  <1>10. CASE r.pc = "retain" /\ r.state = "Stopping" /\ q = [r EXCEPT !.pc = "unpublish"]
    BY <1>10
  <1>11. CASE r.pc = "unpublish" /\ q = [r EXCEPT !.loop = 0, !.pc = "destroy"]
    BY Zenon, <1>11
  <1>12. CASE r.pc = "destroy" /\ q = [r EXCEPT !.alive = FALSE, !.pc = "finish"]
    BY Zenon, <1>12
  <1>13. CASE r.pc = "finish" /\ q = [r EXCEPT !.loop = 0, !.managed = FALSE, !.failure = r.wfail,
                                      !.state = IF r.wfail THEN "Failed" ELSE "Stopped", !.pc = "exited"]
    BY ZenonT(30), <1>13
  <1> HIDE DEF Undisturbed, WorkerType, RecordOK, WorkerPoints, States, Launching, Existing,
               Published, LettingGo
  <1> QED  BY <1>1, <1>2, <1>3, <1>4, <1>5, <1>6, <1>7, <1>8, <1>9, <1>10, <1>11, <1>12, <1>13 DEF Move

\* Hence the steps of a worker disturb nobody.
LEMMA WorkerStepOK ==
  ASSUME IInv, NEW w \in Workers, Worker(w)
  PROVE  /\ UNCHANGED <<ctl, calls, pooled, pool, frame>>
         /\ \E q : wk' = [wk EXCEPT ![w] = q] /\ Undisturbed(wk[w], q)
  <1>1. wk[w] \in WorkerType /\ RecordOK(wk[w])
    BY DEF IInv, ThreadInv, ThreadTypeOK
  <1>2. UNCHANGED <<ctl, calls, pooled, pool, frame>>
    BY DEF Worker, WorkerStep, Construct, Publish, InitDone, SetRunning, LoopReturns, Exit,
           Retained, Unpublish, Destroy, Finish, Step
  <1>3. PICK q : wk' = [wk EXCEPT ![w] = q] /\ Move(wk[w], q)
    <2>1. CASE Construct(w)
      BY Zenon, <1>1, <2>1 DEF Construct, Step, Move, WorkerType
    <2>2. CASE Publish(w)
      BY Zenon, <1>1, <2>2 DEF Publish, Step, Move, WorkerType
    <2>3. CASE InitDone(w)
      <3>1. PICK failed \in {TRUE, wk[w].quit} :
              wk' = [wk EXCEPT ![w] = [wk[w] EXCEPT !.wfail = failed,
                                                    !.pc = IF failed THEN "unpublish" ELSE "ready"]]
        BY Zenon, <2>3 DEF InitDone, Step
      <3>2. CASE failed = TRUE
        BY Zenon, <2>3, <3>1, <3>2 DEF InitDone, Step, Move
      <3>3. CASE failed = FALSE
        BY Zenon, <2>3, <3>1, <3>3 DEF InitDone, Step, Move
      <3> QED  BY Zenon, <1>1, <3>1, <3>2, <3>3 DEF WorkerType
    <2>4. CASE SetRunning(w)
      BY Zenon, <1>1, <2>4 DEF SetRunning, Step, Move, WorkerType
    <2>5. CASE LoopReturns(w)
      BY Zenon, <1>1, <2>5 DEF LoopReturns, Step, Move, WorkerType
    <2>6. CASE Exit(w)
      BY Zenon, <1>1, <2>6 DEF Exit, Step, Move, WorkerType
    <2>7. CASE Retained(w)
      BY Zenon, <1>1, <2>7 DEF Retained, Step, Move, WorkerType
    <2>8. CASE Unpublish(w)
      BY Zenon, <1>1, <2>8 DEF Unpublish, Step, Move, WorkerType
    <2>9. CASE Destroy(w)
      BY Zenon, <1>1, <2>9 DEF Destroy, Step, Move, WorkerType
    <2>10. CASE Finish(w)
      BY Zenon, <1>1, <2>10 DEF Finish, Step, Move, WorkerType
    <2> QED  BY <2>1, <2>2, <2>3, <2>4, <2>5, <2>6, <2>7, <2>8, <2>9, <2>10 DEF Worker, WorkerStep
  <1> QED  BY Zenon, <1>1, <1>2, <1>3, MoveOK

\* requestStop() keeps a record consistent, unless the thread was created and has not
\* reached its callback or has left it with success: then nobody may call it.
LEMMA RequestStopOK ==
  ASSUME NEW r \in WorkerType, RecordOK(r), r.pc \notin {"construct", "publish", "ready"}
  PROVE  /\ RequestStop(r) \in WorkerType /\ RecordOK(RequestStop(r))
         /\ RequestStop(r).pc = r.pc /\ RequestStop(r).control = r.control
         /\ RequestStop(r).borrowed = r.borrowed /\ RequestStop(r).thread = r.thread
         /\ RequestStop(r).stopAsked
  <1> DEFINE q == RequestStop(r)
  <1>1. /\ q.state = IF r.state \in {"Starting", "Running", "Exited"} THEN "Stopping" ELSE r.state
        /\ q.quit <=> r.quit \/ r.loop # 0
        /\ q.stopAsked
        /\ q.alive <=> r.alive
        /\ q.pc = r.pc /\ q.loop = r.loop /\ q.joinable = r.joinable /\ q.thread = r.thread
        /\ q.borrowed = r.borrowed /\ q.wfail = r.wfail /\ q.control = r.control
    BY Zenon DEF RequestStop, WorkerType
  <1>2. r.thread \in Nat /\ r.state \in States /\ r.pc \in WorkerPoints
    BY DEF WorkerType
  <1>3. q \in WorkerType
    BY ZenonT(30) DEF RequestStop, WorkerType, States
  <1> HIDE DEF q
  <1>4. r.pc = "init" => r.loop # 0
    BY <1>2 DEF RecordOK, Published
  <1>5. RecordOK(q)
    BY <1>1, <1>2, <1>4 DEF RecordOK, States, Launching
  <1> QED  BY <1>1, <1>3, <1>5 DEF q

\* Neither do the callbacks of the worker's own thread.
LEMMA CallbackOK ==
  ASSUME IInv, NEW w \in Workers,
         SharedSelfStop(w) \/ (RawQuit(w) /\ UNCHANGED <<pooled, pool, frame>>)
  PROVE  /\ UNCHANGED <<ctl, calls, pooled, pool, frame>>
         /\ \E q : wk' = [wk EXCEPT ![w] = q] /\ Undisturbed(wk[w], q)
  <1>1. wk[w] \in WorkerType /\ RecordOK(wk[w])
    BY DEF IInv, ThreadInv, ThreadTypeOK
  <1>2. UNCHANGED <<ctl, calls, pooled, pool, frame>>
    BY DEF SharedSelfStop, SelfStop, RawQuit
  <1>3. CASE SharedSelfStop(w)
    <2>1. ~pooled /\ wk[w].pc \in {"init", "loop"} /\ wk' = [wk EXCEPT ![w] = RequestStop(wk[w])]
      BY <1>1, <1>3 DEF SharedSelfStop, SelfStop
    <2>2. Undisturbed(wk[w], RequestStop(wk[w]))
      BY <1>1, <2>1, RequestStopOK DEF Undisturbed
    <2> QED  BY Zenon, <1>2, <2>1, <2>2
  <1>4. CASE RawQuit(w)
    <2> DEFINE q == [wk[w] EXCEPT !.quit = TRUE]
    <2>1. wk[w].pc # "none" /\ wk' = [wk EXCEPT ![w] = q]
      BY <1>1, <1>4 DEF RawQuit
    <2>2. Undisturbed(wk[w], q)
      BY Zenon, <1>1, <2>1 DEF Undisturbed, WorkerType, RecordOK
    <2> QED  BY Zenon, <1>2, <2>1, <2>2
  <1> QED  BY <1>3, <1>4

-----------------------------------------------------------------------------
(* The steps of startLoop() and stop() *)

StartPoints == {"check", "startJoin", "create", "wait", "failJoin"}
StopPoints  == {"stop", "stopJoin"}

\* The call k that controller c is in, on a worker with record r, goes on as m and leaves
\* the worker as q: it unlocks controlMutex_ exactly when it ends, waits for the thread it
\* created, has nothing but a joined thread when it creates one, returns a loop nobody
\* asked to stop, and has joined when stop() ends.
Goes(c, k, r, m, q) ==
  /\ q \in WorkerType /\ RecordOK(q) /\ m \in ControlType
  /\ k.at \in StartPoints \cup StopPoints
  /\ \/ m.at = "idle" /\ q.control = None
     \/ m.at # "idle" /\ m.w = k.w /\ q.control = c
  /\ q.pc \in Launching => m.at = "wait"
  /\ m.at = "create" => q.pc = "none" /\ q.state = "Starting"
  /\ k.at \in StartPoints =>
       /\ m.at \in StartPoints \cup {"idle"}
       /\ m.at = "idle" /\ ~m.threw => q.borrowed = q.thread /\ q.thread # 0 /\ ~q.stopAsked
  /\ k.at \in StopPoints =>
       /\ m.at \in StopPoints \cup {"idle"}
       /\ m.at = "idle" \/ r.pc = "none" => q.pc = "none"

\* Such a step keeps the invariant.
LEMMA CallKeeps ==
  ASSUME IInv, NEW c \in Controllers, NEW w \in Workers, ctl[c].w = w, NEW m, NEW q,
         Goes(c, ctl[c], wk[w], m, q),
         wk' = [wk EXCEPT ![w] = q], ctl' = [ctl EXCEPT ![c] = m],
         UNCHANGED <<calls, pooled, pool, frame>>
  PROVE  IInv'
  <1>1. /\ wk \in [Workers -> WorkerType] /\ ctl \in [Controllers -> ControlType]
        /\ \A d \in Controllers, v \in Workers : ctl[d].at # "idle" /\ ctl[d].w = v <=> wk[v].control = d
        /\ \A d \in Controllers : ctl[d].at # "idle" => ctl[d].w \in Workers
    BY DEF IInv, ThreadInv, ThreadTypeOK
  <1>2. /\ wk' \in [Workers -> WorkerType] /\ ctl' \in [Controllers -> ControlType]
        /\ wk'[w] = q /\ \A v \in Workers : v # w => wk'[v] = wk[v]
        /\ ctl'[c] = m /\ \A d \in Controllers : d # c => ctl'[d] = ctl[d]
    BY <1>1 DEF Goes
  <1>3. ctl[c].at # "idle" /\ wk[w].control = c /\ None \notin Controllers
    BY <1>1, ControllerAssumption DEF Goes, StartPoints, StopPoints
  <1>4. /\ \A d \in Controllers, v \in Workers :
             ctl'[d].at # "idle" /\ ctl'[d].w = v <=> wk'[v].control = d
        /\ \A d \in Controllers : ctl'[d].at # "idle" => ctl'[d].w \in Workers
    BY <1>1, <1>2, <1>3 DEF Goes
  <1>5. TypeOK' /\ ThreadTypeOK'
    BY <1>2, <1>4 DEF IInv, TypeOK, ThreadTypeOK
  <1>6. \A v \in Workers : RecordOK(wk'[v])
    BY <1>2 DEF IInv, ThreadInv, Goes
  <1>7. ASSUME NEW v \in Workers PROVE CallOK(v)'
    <2>1. CallOK(v)
      BY DEF IInv, ThreadInv
    <2>2. CASE v = w
      BY <1>1, <1>2, <1>3, <1>4, <2>2 DEF CallOK, Goes
    <2>3. CASE v # w
      BY <1>1, <1>2, <1>3, <1>4, <2>1, <2>3 DEF CallOK, Goes, WorkerType
    <2> QED  BY <2>2, <2>3
  <1>8. BaseInv'
    BY <1>1, <1>2, <1>3 DEF IInv, BaseInv, Goes, StartPoints, StopPoints
  <1>9. PoolInv'
    <2> SUFFICES ASSUME pooled PROVE PoolInv'
      BY DEF PoolInv
    <2>1. c = Base /\ frame.at \in {"starting", "stopping"}
      BY <1>3 DEF IInv, BaseInv
    <2>2. CASE frame.at = "starting"
      <3>1. w = Len(frame.loops) + 1 /\ ctl[c].at \in StartPoints /\ pool.state = "Starting"
        BY <1>3, <2>1, <2>2 DEF IInv, BaseInv, StartPoints
      <3>2. \A i \in DOMAIN frame.loops : i \in Workers /\ i # w
        BY <2>2, <3>1, Indices
      <3>3. \A i \in DOMAIN frame.loops : Recorded(i, frame.loops[i])'
        BY <1>2, <3>1, <3>2 DEF IInv, PoolInv, Recorded
      <3>4. ctl'[Base].at = "idle" /\ ~ctl'[Base].threw => Recorded(w, wk[w].borrowed)'
        BY <1>2, <2>1, <3>1 DEF Goes, Recorded
      <3>5. \A v \in Workers : wk'[v].pc # "none" => v \in DOMAIN frame.loops \/ v = w
        BY <1>2, <2>2, <3>1 DEF IInv, PoolInv
      <3> QED  BY <2>2, <3>1, <3>3, <3>4, <3>5 DEF IInv, PoolInv
    <2>3. CASE frame.at = "stopping"
      <3>1. w = frame.i /\ w \in DOMAIN frame.loops /\ ctl[c].at \in StopPoints
            /\ pool.state = "Stopping"
        BY <1>3, <2>1, <2>3 DEF IInv, BaseInv, StopPoints
      <3>2. \A v \in Workers : wk'[v].pc # "none" => v \in DOMAIN frame.loops
        BY <1>2, <2>3, <3>1 DEF IInv, PoolInv
      <3>3. \A v \in Workers : v < frame.i => wk'[v].pc = "none"
        BY <1>2, <2>3, <3>1, PoolAssumption DEF IInv, PoolInv
      <3>4. ctl'[Base].at = "idle" => wk'[frame.i].pc = "none"
        BY <1>2, <2>1, <3>1 DEF Goes
      <3> QED  BY <2>3, <3>1, <3>2, <3>3, <3>4 DEF IInv, PoolInv
    <2> QED  BY <2>1, <2>2, <2>3
  <1> QED  BY <1>5, <1>6, <1>7, <1>8, <1>9 DEF IInv, ThreadInv, RecordOK

\* What the steps of startLoop() and stop() do.
CallMove(k, r, m, q) ==
  \/ /\ k.at = "check" /\ r.state = "Running"
     /\ q = [[r EXCEPT !.borrowed = r.loop] EXCEPT !.control = None]
     /\ m = [k EXCEPT !.at = "idle", !.threw = FALSE]
  \/ /\ k.at = "check" /\ r.state # "Running"
     /\ q = RequestStop(r)
     /\ m = [k EXCEPT !.at = "startJoin"]
  \/ /\ k.at = "startJoin" /\ CanJoin(r)
     /\ q = [Joined(r) EXCEPT !.state = "Starting", !.failure = FALSE]
     /\ m = [k EXCEPT !.at = "create"]
  \/ /\ k.at = "create"
     /\ q = [r EXCEPT !.joinable = TRUE, !.thread = r.thread + 1, !.pc = "construct", !.wfail = FALSE,
                 !.stopAsked = FALSE]
     /\ m = [k EXCEPT !.at = "wait"]
  \/ /\ k.at = "create"
     /\ q = [[r EXCEPT !.state = "Failed", !.failure = TRUE] EXCEPT !.control = None]
     /\ m = [k EXCEPT !.at = "idle", !.threw = TRUE]
  \/ /\ k.at = "wait" /\ r.state \in {"Running", "Exited"}
     /\ q = [[r EXCEPT !.borrowed = r.loop] EXCEPT !.control = None]
     /\ m = [k EXCEPT !.at = "idle", !.threw = FALSE]
  \/ /\ k.at = "wait" /\ r.state \in {"Stopped", "Failed"}
     /\ q = r
     /\ m = [k EXCEPT !.at = "failJoin"]
  \/ /\ k.at = "failJoin" /\ CanJoin(r)
     /\ q = [Joined(r) EXCEPT !.control = None]
     /\ m = [k EXCEPT !.at = "idle", !.threw = TRUE]
  \/ /\ k.at = "stop"
     /\ q = RequestStop(r)
     /\ m = [k EXCEPT !.at = "stopJoin"]
  \/ /\ k.at = "stopJoin" /\ CanJoin(r)
     /\ q = [Joined(r) EXCEPT !.control = None]
     /\ m = [k EXCEPT !.at = "idle", !.threw = FALSE]

\* Each of them goes on as it should.
LEMMA CallMoveOK ==
  ASSUME NEW c \in Controllers, NEW r \in WorkerType, RecordOK(r), r.control = c,
         NEW k \in ControlType, NEW m, NEW q, CallMove(k, r, m, q),
         r.pc \in Launching => k.at = "wait",
         k.at = "create" => r.pc = "none" /\ r.state = "Starting"
  PROVE  Goes(c, k, r, m, q)
  <1> USE DEF WorkerType, ControlType, WorkerPoints, States, Launching, Existing, Published,
              LettingGo, StartPoints, StopPoints, CanJoin, Joined
  <1>1. CASE /\ k.at = "check" /\ r.state = "Running"
            /\ q = [[r EXCEPT !.borrowed = r.loop] EXCEPT !.control = None]
            /\ m = [k EXCEPT !.at = "idle", !.threw = FALSE]
    <2>1. q \in WorkerType /\ m \in ControlType
      BY Zenon, <1>1
    <2>2. RecordOK(q)
      BY <1>1 DEF RecordOK
    <2> QED  BY <1>1, <2>1, <2>2 DEF Goes, RecordOK
  <1>2. CASE /\ k.at = "check" /\ r.state # "Running"
            /\ q = RequestStop(r)
            /\ m = [k EXCEPT !.at = "startJoin"]
    <2>1. q \in WorkerType /\ RecordOK(q) /\ q.pc = r.pc /\ q.control = c
      BY ONLY <1>2, r.pc \in Launching => k.at = "wait", r \in WorkerType, RecordOK(r), r.control = c,
              RequestStopOK DEF Launching
    <2> QED  BY <1>2, <2>1 DEF Goes
  <1>3. CASE /\ k.at = "startJoin" /\ CanJoin(r)
            /\ q = [Joined(r) EXCEPT !.state = "Starting", !.failure = FALSE]
            /\ m = [k EXCEPT !.at = "create"]
    <2>1. q \in WorkerType /\ m \in ControlType
      BY Zenon, <1>3
    <2>2. RecordOK(q)
      BY <1>3 DEF RecordOK
    <2> QED  BY <1>3, <2>1, <2>2 DEF Goes, RecordOK
  <1>4. CASE /\ k.at = "create"
            /\ q = [r EXCEPT !.joinable = TRUE, !.thread = r.thread + 1, !.pc = "construct", !.wfail = FALSE,
                 !.stopAsked = FALSE]
            /\ m = [k EXCEPT !.at = "wait"]
    <2>1. r.thread + 1 \in Nat /\ m \in ControlType
      BY <1>4
    <2>2. q \in WorkerType
      BY ZenonT(30), <1>4, <2>1
    <2>3. RecordOK(q)
      BY <1>4 DEF RecordOK
    <2> QED  BY <1>4, <2>1, <2>2, <2>3 DEF Goes, RecordOK
  <1>5. CASE /\ k.at = "create"
            /\ q = [[r EXCEPT !.state = "Failed", !.failure = TRUE] EXCEPT !.control = None]
            /\ m = [k EXCEPT !.at = "idle", !.threw = TRUE]
    <2>1. q \in WorkerType /\ m \in ControlType
      BY Zenon, <1>5
    <2>2. RecordOK(q)
      BY <1>5 DEF RecordOK
    <2> QED  BY <1>5, <2>1, <2>2 DEF Goes, RecordOK
  <1>6. CASE /\ k.at = "wait" /\ r.state \in {"Running", "Exited"}
            /\ q = [[r EXCEPT !.borrowed = r.loop] EXCEPT !.control = None]
            /\ m = [k EXCEPT !.at = "idle", !.threw = FALSE]
    <2>1. q \in WorkerType /\ m \in ControlType
      BY Zenon, <1>6
    <2>2. RecordOK(q)
      BY <1>6 DEF RecordOK
    <2> QED  BY <1>6, <2>1, <2>2 DEF Goes, RecordOK
  <1>7. CASE /\ k.at = "wait" /\ r.state \in {"Stopped", "Failed"}
            /\ q = r
            /\ m = [k EXCEPT !.at = "failJoin"]
    <2>1. q \in WorkerType /\ m \in ControlType
      BY <1>7
    <2>2. RecordOK(q)
      BY <1>7 DEF RecordOK
    <2> QED  BY <1>7, <2>1, <2>2 DEF Goes, RecordOK
  <1>8. CASE /\ k.at = "failJoin" /\ CanJoin(r)
            /\ q = [Joined(r) EXCEPT !.control = None]
            /\ m = [k EXCEPT !.at = "idle", !.threw = TRUE]
    <2>1. q \in WorkerType /\ m \in ControlType
      BY Zenon, <1>8
    <2>2. RecordOK(q)
      BY <1>8 DEF RecordOK
    <2> QED  BY <1>8, <2>1, <2>2 DEF Goes, RecordOK
  <1>9. CASE /\ k.at = "stop"
            /\ q = RequestStop(r)
            /\ m = [k EXCEPT !.at = "stopJoin"]
    <2>1. q \in WorkerType /\ RecordOK(q) /\ q.pc = r.pc /\ q.control = c
      BY ONLY <1>9, r.pc \in Launching => k.at = "wait", r \in WorkerType, RecordOK(r), r.control = c,
              RequestStopOK DEF Launching
    <2> QED  BY <1>9, <2>1 DEF Goes
  <1>10. CASE /\ k.at = "stopJoin" /\ CanJoin(r)
            /\ q = [Joined(r) EXCEPT !.control = None]
            /\ m = [k EXCEPT !.at = "idle", !.threw = FALSE]
    <2>1. q \in WorkerType /\ m \in ControlType
      BY Zenon, <1>10
    <2>2. RecordOK(q)
      BY <1>10 DEF RecordOK
    <2> QED  BY <1>10, <2>1, <2>2 DEF Goes, RecordOK
  <1> HIDE DEF WorkerType, ControlType, WorkerPoints, States, Launching, Existing, Published,
               LettingGo, StartPoints, StopPoints, CanJoin, Joined
  <1> QED  BY <1>1, <1>2, <1>3, <1>4, <1>5, <1>6, <1>7, <1>8, <1>9, <1>10 DEF CallMove

\* Every step of startLoop() and of stop() is of that kind.
LEMMA ControlStepOK ==
  ASSUME IInv, NEW c \in Controllers,
         Control(c) \/ (CreateFails(c) /\ UNCHANGED <<pooled, pool, frame>>)
  PROVE  /\ UNCHANGED <<calls, pooled, pool, frame>>
         /\ ctl[c].w \in Workers /\ ctl[c].at # "idle"
         /\ \E m, q : /\ wk' = [wk EXCEPT ![ctl[c].w] = q] /\ ctl' = [ctl EXCEPT ![c] = m]
                      /\ Goes(c, ctl[c], wk[ctl[c].w], m, q)
                      /\ CallMove(ctl[c], wk[ctl[c].w], m, q)
  <1> DEFINE w == ctl[c].w
             r == wk[w]
             k == ctl[c]
  <1>1. UNCHANGED <<calls, pooled, pool, frame>>
    BY Zenon DEF Control, ControlStep, StartCheck, StartJoin, CreateThread, StartWait, StartThrows,
           StopRequest, StopJoin, CreateFails
  <1>2. k \in ControlType /\ k.at # "idle"
    BY Zenon DEF IInv, ThreadInv, ThreadTypeOK, Control, ControlStep, StartCheck, StartJoin, CreateThread,
           StartWait, StartThrows, StopRequest, StopJoin, CreateFails
  <1>3. w \in Workers /\ r \in WorkerType /\ RecordOK(r) /\ r.control = c
    BY <1>2 DEF IInv, ThreadInv, ThreadTypeOK
  <1>4. r.pc \in Launching => k.at = "wait"
    BY <1>2, <1>3 DEF IInv, ThreadInv, CallOK
  <1>5. k.at = "create" => r.pc = "none" /\ r.state = "Starting"
    BY <1>2, <1>3 DEF IInv, ThreadInv, CallOK
  <1>6. PICK m, q : wk' = [wk EXCEPT ![w] = q] /\ ctl' = [ctl EXCEPT ![c] = m] /\ CallMove(k, r, m, q)
    <2>1. CASE StartCheck(c)
      BY Zenon, <1>2, <1>3, <2>1 DEF StartCheck, Leave, Goto, CallMove
    <2>2. CASE StartJoin(c)
      BY Zenon, <1>2, <1>3, <2>2 DEF StartJoin, Goto, CallMove
    <2>3. CASE CreateThread(c)
      <3> DEFINE q == [r EXCEPT !.joinable = TRUE, !.thread = r.thread + 1, !.pc = "construct",
                                !.wfail = FALSE, !.stopAsked = FALSE]
                 m == [k EXCEPT !.at = "wait"]
      <3>1. wk' = [wk EXCEPT ![w] = q] /\ ctl' = [ctl EXCEPT ![c] = m]
        BY <1>2, <1>3, <2>3 DEF CreateThread, Goto
      <3>2. CallMove(k, r, m, q)
        BY <2>3 DEF CreateThread, CallMove
      <3> QED  BY Zenon, <3>1, <3>2
    <2>4. CASE CreateFails(c)
      BY Zenon, <1>2, <1>3, <2>4 DEF CreateFails, Leave, CallMove
    <2>5. CASE StartWait(c)
      <3>1. CASE r.state \in {"Running", "Exited"}
        BY <1>2, <1>3, <2>5, <3>1 DEF StartWait, Leave, CallMove
      <3>2. CASE r.state \in {"Stopped", "Failed"}
        <4>1. wk' = [wk EXCEPT ![w] = r] /\ ctl' = [ctl EXCEPT ![c] = [k EXCEPT !.at = "failJoin"]]
          BY ZenonT(30), <1>2, <1>3, <2>5, <3>2 DEF StartWait, Goto, IInv, ThreadInv, ThreadTypeOK
        <4>2. CallMove(k, r, [k EXCEPT !.at = "failJoin"], r)
          BY <2>5, <3>2 DEF StartWait, CallMove
        <4> QED  BY Zenon, <4>1, <4>2
      <3> QED  BY Zenon, <2>5, <3>1, <3>2 DEF StartWait
    <2>6. CASE StartThrows(c)
      BY Zenon, <1>2, <1>3, <2>6 DEF StartThrows, Leave, CallMove
    <2>7. CASE StopRequest(c)
      BY Zenon, <1>2, <1>3, <2>7 DEF StopRequest, Goto, CallMove
    <2>8. CASE StopJoin(c)
      BY Zenon, <1>2, <1>3, <2>8 DEF StopJoin, Leave, CallMove
    <2> QED  BY <2>1, <2>2, <2>3, <2>4, <2>5, <2>6, <2>7, <2>8 DEF Control, ControlStep
  <1>7. Goes(c, k, r, m, q)
    BY <1>2, <1>3, <1>4, <1>5, <1>6, CallMoveOK
  <1> QED  BY Zenon, <1>1, <1>2, <1>3, <1>6, <1>7

-----------------------------------------------------------------------------
(* The calls: a controller enters startLoop() or stop() *)

\* Taking controlMutex_ changes nothing else.
LEMMA EnterKeeps ==
  ASSUME IInv, NEW c \in Controllers, NEW w \in Workers, NEW at \in {"check", "stop"},
         Enter(c, w, at), calls' \in Nat
  PROVE  /\ ThreadTypeOK' /\ \A v \in Workers : RecordOK(wk'[v]) /\ CallOK(v)'
         /\ ctl'[c].at = at /\ ctl'[c].w = w /\ \A d \in Controllers : d # c => ctl'[d] = ctl[d]
         /\ \A v \in Workers : /\ wk'[v].pc = wk[v].pc /\ wk'[v].borrowed = wk[v].borrowed
                               /\ wk'[v].thread = wk[v].thread
                               /\ wk'[v].stopAsked = wk[v].stopAsked
  <1> DEFINE q == [wk[w] EXCEPT !.control = c]
             m == [at |-> at, w |-> w, threw |-> FALSE]
  <1>1. /\ wk \in [Workers -> WorkerType] /\ ctl \in [Controllers -> ControlType] /\ calls \in Nat
        /\ \A d \in Controllers, v \in Workers : ctl[d].at # "idle" /\ ctl[d].w = v <=> wk[v].control = d
        /\ \A d \in Controllers : ctl[d].at # "idle" => ctl[d].w \in Workers
    BY DEF IInv, ThreadInv, ThreadTypeOK
  <1>2. /\ ctl[c].at = "idle" /\ wk[w].control = None
        /\ wk' = [wk EXCEPT ![w] = q] /\ ctl' = [ctl EXCEPT ![c] = m]
    BY <1>1 DEF Enter
  <1>3. /\ q \in WorkerType /\ q.control = c /\ q.pc = wk[w].pc /\ q.borrowed = wk[w].borrowed
        /\ q.thread = wk[w].thread /\ q.stopAsked = wk[w].stopAsked /\ q.state = wk[w].state
    BY <1>1 DEF WorkerType
  <1>4. RecordOK(q)
    <2>1. wk[w] \in WorkerType /\ RecordOK(wk[w])
      BY <1>1 DEF IInv, ThreadInv
    <2> QED  BY <2>1 DEF RecordOK, WorkerType
  <1>5. m \in ControlType /\ m.at = at /\ m.w = w
    BY DEF ControlType
  <1> HIDE DEF q, m
  <1>6. /\ wk' \in [Workers -> WorkerType] /\ ctl' \in [Controllers -> ControlType]
        /\ wk'[w] = q /\ \A v \in Workers : v # w => wk'[v] = wk[v]
        /\ ctl'[c] = m /\ \A d \in Controllers : d # c => ctl'[d] = ctl[d]
    BY <1>1, <1>2, <1>3, <1>5
  <1>7. /\ \A d \in Controllers, v \in Workers :
             ctl'[d].at # "idle" /\ ctl'[d].w = v <=> wk'[v].control = d
        /\ \A d \in Controllers : ctl'[d].at # "idle" => ctl'[d].w \in Workers
    BY <1>1, <1>2, <1>3, <1>5, <1>6, ControllerAssumption
  <1>8. ASSUME NEW v \in Workers PROVE RecordOK(wk'[v]) /\ CallOK(v)'
    <2>1. RecordOK(wk[v]) /\ CallOK(v)
      BY DEF IInv, ThreadInv
    <2>2. CASE v = w
      BY <1>2, <1>3, <1>4, <1>5, <1>6, <2>1, <2>2 DEF CallOK
    <2>3. CASE v # w
      <3>1. wk[v].control # c
        BY <1>1, <1>2
      <3>2. wk[v].control \in Controllers \cup {None}
        BY <1>1 DEF WorkerType
      <3> QED  BY <1>5, <1>6, <2>1, <2>3, <3>1, <3>2 DEF CallOK
    <2> QED  BY <2>2, <2>3
  <1> QED  BY <1>3, <1>5, <1>6, <1>7, <1>8 DEF ThreadTypeOK

\* startLoop() and stop() of an EventLoopThread without a pool.
LEMMA SharedCallKeeps ==
  ASSUME IInv, NEW c \in Controllers, NEW w \in Shared, StartCall(c, w) \/ StopCall(c, w)
  PROVE  IInv'
  <1>1. /\ ~pooled /\ UNCHANGED <<pooled, pool, frame>> /\ w \in Workers
        /\ \E at \in {"check", "stop"} : Enter(c, w, at)
    BY PoolAssumption DEF StartCall, StopCall, SharedCall
  <1>2. calls' \in Nat
    BY DEF StartCall, StopCall, SharedCall, IInv, TypeOK, ThreadTypeOK
  <1>3. ThreadTypeOK' /\ \A v \in Workers : RecordOK(wk'[v]) /\ CallOK(v)'
    BY <1>1, <1>2, EnterKeeps
  <1>4. BaseInv' /\ PoolInv'
    BY <1>1 DEF IInv, BaseInv, PoolInv
  <1> QED  BY <1>1, <1>3, <1>4 DEF IInv, ThreadInv, TypeOK

-----------------------------------------------------------------------------
(* The base thread *)

\* Outside startLoop() and stop() the base thread leaves the EventLoopThreads alone.
LEMMA ThreadsUnchanged ==
  ASSUME IInv, UNCHANGED <<wk, ctl>>, calls' \in Nat
  PROVE  ThreadInv'
  BY DEF IInv, ThreadInv, ThreadTypeOK, CallOK

\* The calls that the base thread makes, and the failure of its own init callback.
LEMMA PoolCallKeeps ==
  ASSUME IInv, Start \/ Stop \/ GetNextLoop \/ BaseInitThrows \/ \E n \in Workers \cup {0} : SetThreadNum(n)
  PROVE  IInv'
  <1>1. pooled /\ UNCHANGED <<wk, ctl, pooled>> /\ calls' \in Nat
    BY DEF Start, Stop, GetNextLoop, BaseInitThrows, SetThreadNum, PoolCall, threadVars, IInv, TypeOK,
           ThreadTypeOK, BaseInv
  <1>2. ThreadInv'
    BY <1>1, ThreadsUnchanged
  <1>3. /\ pool \in [state : {"Stopped", "Starting", "Running", "Stopping"}, num : Workers \cup {0},
                     next : Nat, loops : Seq(Nat)]
        /\ frame \in [at : PoolPoints, i : Nat, loops : Seq(Nat)]
    BY DEF IInv, TypeOK
  <1>4. BaseInv /\ PoolInv
    BY DEF IInv
  <1>5. CASE Start
    <2>1. /\ pool' = [pool EXCEPT !.state = "Starting"]
          /\ frame' = [at |-> "start", i |-> 0, loops |-> <<>>]
          /\ frame.at = "idle" /\ pool.state = "Stopped"
      BY <1>3, <1>5 DEF Start, PoolCall, Stable, Idle
    <2>2. frame' \in [at : PoolPoints, i : Nat, loops : Seq(Nat)]
      BY <2>1 DEF PoolPoints
    <2>3. TypeOK'
      BY <1>1, <1>2, <1>3, <2>1, <2>2 DEF TypeOK, ThreadInv
    <2>4. BaseInv' /\ PoolInv'
      BY <1>1, <1>3, <1>4, <2>1, Indices DEF BaseInv, PoolInv
    <2> QED  BY <1>2, <2>3, <2>4 DEF IInv
  <1>6. CASE Stop
    <2>1. /\ pool' = [pool EXCEPT !.state = "Stopping"]
          /\ frame' = [at |-> "request", i |-> 1, loops |-> pool.loops]
          /\ frame.at = "idle" /\ pool.state \in {"Stopped", "Running"}
      BY <1>3, <1>6 DEF Stop, PoolCall, Stable
    <2>2. TypeOK'
      BY Zenon, <1>1, <1>2, <1>3, <2>1 DEF TypeOK, ThreadInv, PoolPoints
    <2>3. BaseInv' /\ PoolInv'
      BY <1>1, <1>3, <1>4, <2>1, Indices DEF BaseInv, PoolInv
    <2> QED  BY <1>2, <2>2, <2>3 DEF IInv
  <1>7. CASE GetNextLoop
    <2>1. /\ pool' = [pool EXCEPT !.next = IF pool.next + 1 >= Len(pool.loops) THEN 0 ELSE pool.next + 1]
          /\ frame' = frame /\ frame.at = "idle" /\ pool.loops # <<>>
      BY <1>3, <1>7 DEF GetNextLoop, PoolCall
    <2> DEFINE n == IF pool.next + 1 >= Len(pool.loops) THEN 0 ELSE pool.next + 1
    <2>2. pool.state = "Running" /\ Len(pool.loops) = pool.num /\ pool.num # 0
      BY <1>1, <1>3, <1>4, <2>1, Indices DEF PoolInv, BaseInv
    <2>3. n \in Nat /\ n < pool.num
      BY <1>1, <1>3, <2>2, Indices
    <2>4. pool' = [pool EXCEPT !.next = n]
      BY <2>1
    <2> HIDE DEF n
    <2>5. TypeOK'
      BY Zenon, <1>1, <1>2, <1>3, <2>1, <2>3, <2>4 DEF TypeOK, ThreadInv
    <2>6. BaseInv'
      BY <1>1, <1>3, <1>4, <2>1 DEF BaseInv
    <2>7. PoolInv'
      <3>1. /\ pool'.next = n /\ pool'.num = pool.num /\ pool'.loops = pool.loops
            /\ pool'.state = pool.state
        BY <1>3, <2>4
      <3>2. \A i \in DOMAIN pool.loops : Recorded(i, pool.loops[i])'
        <4>1. \A i \in DOMAIN pool.loops : Recorded(i, pool.loops[i])
          BY <1>1, <1>4, <2>2 DEF PoolInv
        <4> QED  BY <1>1, <3>1, <4>1 DEF Recorded
      <3> QED  BY <1>1, <1>4, <2>1, <2>2, <2>3, <3>1, <3>2 DEF PoolInv
    <2> QED  BY <1>2, <2>5, <2>6, <2>7 DEF IInv
  <1>8. CASE BaseInitThrows
    <2>1. /\ pool' = [pool EXCEPT !.state = "Stopped"] /\ frame' = Idle
          /\ frame.at = "start" /\ pool.num = 0 /\ pool.state = "Starting"
      BY <1>3, <1>4, <1>8 DEF BaseInitThrows, BaseInv
    <2>2. TypeOK'
      BY <1>1, <1>2, <1>3, <2>1 DEF TypeOK, ThreadInv, Idle, PoolPoints
    <2>3. BaseInv' /\ PoolInv'
      BY <1>1, <1>3, <1>4, <2>1, Indices DEF BaseInv, PoolInv, Idle
    <2> QED  BY <1>2, <2>2, <2>3 DEF IInv
  <1>9. ASSUME NEW n \in Workers \cup {0}, SetThreadNum(n) PROVE IInv'
    <2>1. /\ pool' = [pool EXCEPT !.num = n] /\ frame' = frame /\ frame.at = "idle"
          /\ pool.state = "Stopped"
      BY <1>3, <1>9 DEF SetThreadNum, PoolCall
    <2>2. TypeOK'
      BY Zenon, <1>1, <1>2, <1>3, <2>1 DEF TypeOK, ThreadInv
    <2>3. n \in Nat
      BY PoolAssumption
    <2>4. BaseInv' /\ PoolInv'
      BY <1>1, <1>3, <1>4, <2>1, <2>3, Indices DEF BaseInv, PoolInv
    <2> QED  BY <1>2, <2>2, <2>4 DEF IInv
  <1> QED  BY <1>5, <1>6, <1>7, <1>8, <1>9

\* A new EventLoopThread is consistent.
LEMMA NewWorkerOK ==
  ASSUME NEW n \in Nat
  PROVE  /\ NewWorker(n) \in WorkerType /\ RecordOK(NewWorker(n))
         /\ NewWorker(n).pc = "none" /\ NewWorker(n).control = None
  <1>1. NewWorker(n) \in WorkerType
    BY DEF NewWorker, WorkerType, States, WorkerPoints
  <1>2. RecordOK(NewWorker(n))
    BY DEF NewWorker, RecordOK, Launching, Existing, Published, LettingGo
  <1> QED  BY <1>1, <1>2 DEF NewWorker

\* While the base thread is in no call of a worker, nobody is, and no thread is starting.
LEMMA NobodyCalls ==
  ASSUME IInv, pooled, \A c \in Controllers : ctl[c].at = "idle"
  PROVE  \A v \in Workers : wk[v].control = None /\ wk[v].pc \notin Launching
  <1> SUFFICES ASSUME NEW v \in Workers PROVE wk[v].control = None /\ wk[v].pc \notin Launching
    BY Zenon
  <1>1. wk[v].control \in Controllers \cup {None}
    BY DEF IInv, ThreadInv, ThreadTypeOK, WorkerType
  <1>2. wk[v].control \notin Controllers
    BY DEF IInv, ThreadInv, ThreadTypeOK
  <1> QED  BY <1>1, <1>2 DEF IInv, ThreadInv, CallOK

\* Then workers may be replaced or asked to stop.
LEMMA WorkersReplaced ==
  ASSUME IInv, pooled, \A c \in Controllers : ctl[c].at = "idle",
         wk' \in [Workers -> WorkerType],
         \A v \in Workers : RecordOK(wk'[v]) /\ wk'[v].control = None /\ wk'[v].pc \notin Launching,
         UNCHANGED <<ctl, calls>>
  PROVE  ThreadInv'
  BY ControllerAssumption DEF IInv, ThreadInv, ThreadTypeOK, CallOK

\* Every step of the pool on its base thread keeps the invariant.
LEMMA PoolStepKeeps ==
  ASSUME IInv, PoolStep
  PROVE  IInv'
  <1>1. pooled /\ pooled' = pooled /\ calls' = calls /\ calls \in Nat
    BY DEF PoolStep, StartWorker, StartFails, WorkerStarted, AllStarted, RequestNext, StopWorker,
           WorkerStopped, AllStopped, threadVars, IInv, TypeOK, ThreadTypeOK, BaseInv
  <1>2. /\ pool \in [state : {"Stopped", "Starting", "Running", "Stopping"}, num : Workers \cup {0},
                     next : Nat, loops : Seq(Nat)]
        /\ frame \in [at : PoolPoints, i : Nat, loops : Seq(Nat)]
        /\ wk \in [Workers -> WorkerType]
        /\ \A v \in Workers : RecordOK(wk[v]) /\ wk[v].thread \in Nat
    BY DEF IInv, TypeOK, ThreadInv, ThreadTypeOK, WorkerType
  <1>3. BaseInv /\ PoolInv
    BY DEF IInv
  <1>4. frame.at \notin {"starting", "stopping"} \/ ctl[Base].at = "idle" =>
          \A c \in Controllers : ctl[c].at = "idle"
    BY <1>1, <1>3 DEF BaseInv
  <1>5. CASE StartWorker
    <2> DEFINE w == Len(frame.loops) + 1
    <2>1. /\ frame.at = "start" /\ Len(frame.loops) < pool.num /\ Enter(Base, w, "check")
          /\ frame' = [frame EXCEPT !.at = "starting"] /\ pool' = pool
      BY <1>5 DEF StartWorker
    <2>2. w \in Workers /\ Base \in Controllers
      BY <1>1, <2>1, Indices, PoolAssumption
    <2>3. /\ frame'.at = "starting" /\ frame'.loops = frame.loops /\ frame'.i = frame.i
          /\ frame' \in [at : PoolPoints, i : Nat, loops : Seq(Nat)]
      BY Zenon, <1>2, <2>1 DEF PoolPoints
    <2> HIDE DEF w
    <2>4. /\ ThreadTypeOK' /\ \A v \in Workers : RecordOK(wk'[v]) /\ CallOK(v)'
          /\ ctl'[Base].at = "check" /\ ctl'[Base].w = w
          /\ \A d \in Controllers : d # Base => ctl'[d] = ctl[d]
          /\ \A v \in Workers : /\ wk'[v].pc = wk[v].pc /\ wk'[v].borrowed = wk[v].borrowed
                                /\ wk'[v].thread = wk[v].thread
                                /\ wk'[v].stopAsked = wk[v].stopAsked
      BY <1>1, <2>1, <2>2, EnterKeeps
    <2>5. TypeOK' /\ ThreadInv'
      BY <1>1, <1>2, <2>1, <2>3, <2>4 DEF TypeOK, ThreadInv
    <2>6. BaseInv'
      BY <1>1, <1>3, <1>4, <2>1, <2>3, <2>4 DEF BaseInv, w
    <2>7. PoolInv'
      <3>1. \A i \in DOMAIN frame.loops : Recorded(i, frame.loops[i])'
        <4>1. \A i \in DOMAIN frame.loops : i \in Workers /\ Recorded(i, frame.loops[i])
          BY <1>1, <1>3, <2>1, Indices DEF PoolInv, BaseInv
        <4> QED  BY <2>3, <2>4, <4>1 DEF Recorded
      <3> QED  BY <1>1, <1>3, <2>1, <2>3, <2>4, <3>1 DEF PoolInv, BaseInv
    <2> QED  BY <2>5, <2>6, <2>7 DEF IInv
  <1>6. CASE StartFails
    <2> DEFINE w == Len(frame.loops) + 1
    <2>1. /\ frame.at = "starting" /\ ctl[Base].at = "idle" /\ ctl' = ctl
          /\ wk' = [wk EXCEPT ![w] = NewWorker(wk[w].thread)]
          /\ pool' = [pool EXCEPT !.state = "Stopping"]
          /\ frame' = [frame EXCEPT !.at = "request", !.i = 1]
      BY <1>2, <1>6 DEF StartFails
    <2>2. w \in Workers
      BY <1>1, <2>1, Indices
    <2> HIDE DEF w
    <2>3. \A v \in Workers : wk[v].control = None /\ wk[v].pc \notin Launching
      BY <1>1, <1>4, <2>1, NobodyCalls
    <2>4. /\ wk' \in [Workers -> WorkerType]
          /\ \A v \in Workers : v # w => wk'[v] = wk[v]
          /\ wk'[w] = NewWorker(wk[w].thread) /\ wk'[w].pc = "none" /\ RecordOK(wk'[w])
          /\ wk'[w].control = None
      BY <1>2, <2>1, <2>2, NewWorkerOK
    <2>5. ThreadInv'
      BY <1>1, <1>2, <1>4, <2>1, <2>3, <2>4, WorkersReplaced DEF Launching
    <2>6. /\ frame'.at = "request" /\ frame'.loops = frame.loops
          /\ frame' \in [at : PoolPoints, i : Nat, loops : Seq(Nat)]
      BY Zenon, <1>2, <2>1 DEF PoolPoints
    <2>7. /\ pool'.state = "Stopping" /\ pool'.loops = pool.loops /\ pool'.num = pool.num
          /\ pool' \in [state : {"Stopped", "Starting", "Running", "Stopping"}, num : Workers \cup {0},
                        next : Nat, loops : Seq(Nat)]
      BY Zenon, <1>2, <2>1
    <2>8. TypeOK'
      BY <1>1, <2>5, <2>6, <2>7 DEF TypeOK, ThreadInv
    <2>9. BaseInv'
      BY <1>1, <1>3, <1>4, <2>1, <2>6, <2>7 DEF BaseInv
    <2>10. PoolInv'
      BY <1>1, <1>3, <2>1, <2>4, <2>6, <2>7 DEF PoolInv, BaseInv, w
    <2> QED  BY <2>5, <2>8, <2>9, <2>10 DEF IInv
  <1>7. CASE WorkerStarted
    <2> DEFINE l == wk[Len(frame.loops) + 1].borrowed
    <2>1. /\ frame.at = "starting" /\ ctl[Base].at = "idle" /\ ~ctl[Base].threw
          /\ wk' = wk /\ ctl' = ctl /\ pool' = pool
          /\ frame' = [frame EXCEPT !.at = "start", !.loops = Append(frame.loops, l)]
      BY <1>2, <1>7 DEF WorkerStarted, threadVars
    <2>2. ThreadInv'
      BY <1>1, <2>1, ThreadsUnchanged
    <2>3. l \in Nat /\ Recorded(Len(frame.loops) + 1, l) /\ pool.state = "Starting"
      BY <1>1, <1>2, <1>3, <2>1, Indices DEF PoolInv, BaseInv, WorkerType
    <2> HIDE DEF l
    <2>4. /\ frame'.at = "start" /\ frame'.loops = Append(frame.loops, l)
          /\ frame' \in [at : PoolPoints, i : Nat, loops : Seq(Nat)]
      <3>1. Append(frame.loops, l) \in Seq(Nat)
        BY <1>2, <2>3
      <3> QED  BY Zenon, <1>2, <2>1, <3>1 DEF PoolPoints
    <2>5. /\ Len(frame'.loops) = Len(frame.loops) + 1 /\ Len(frame.loops) < pool.num
          /\ DOMAIN frame'.loops = DOMAIN frame.loops \cup {Len(frame.loops) + 1}
          /\ \A i \in DOMAIN frame.loops : frame'.loops[i] = frame.loops[i]
          /\ frame'.loops[Len(frame.loops) + 1] = l
      <3>1. frame.loops \in Seq(Nat) /\ Len(frame.loops) < pool.num
        BY <1>2, <1>3, <2>1 DEF BaseInv
      <3> QED  BY <2>3, <2>4, <3>1, AppendOne
    <2>6. TypeOK'
      BY <1>1, <1>2, <2>1, <2>2, <2>4 DEF TypeOK, ThreadInv
    <2>7. BaseInv'
      BY <1>1, <1>3, <1>4, <2>1, <2>3, <2>4 DEF BaseInv
    <2>8. \A i \in DOMAIN frame'.loops : Recorded(i, frame.loops[i])'
      BY <1>1, <1>3, <2>1, <2>3, <2>5 DEF PoolInv, Recorded
    <2>9. PoolInv'
      BY <1>1, <1>2, <1>3, <2>1, <2>3, <2>4, <2>5, <2>8, Indices DEF PoolInv
    <2> QED  BY <2>2, <2>6, <2>7, <2>9 DEF IInv
  <1>8. CASE AllStarted
    <2>1. /\ frame.at = "start" /\ Len(frame.loops) = pool.num /\ wk' = wk /\ ctl' = ctl
          /\ pool' = [pool EXCEPT !.state = "Running", !.loops = frame.loops, !.next = 0]
          /\ frame' = [at |-> "idle", i |-> 0, loops |-> <<>>]
      BY <1>8 DEF AllStarted, threadVars, Idle
    <2>2. ThreadInv'
      BY <1>1, <2>1, ThreadsUnchanged
    <2>3. /\ pool'.state = "Running" /\ pool'.loops = frame.loops /\ pool'.num = pool.num
          /\ pool'.next = 0
          /\ pool' \in [state : {"Stopped", "Starting", "Running", "Stopping"}, num : Workers \cup {0},
                        next : Nat, loops : Seq(Nat)]
      BY Zenon, <1>2, <2>1
    <2>4. /\ frame'.at = "idle" /\ frame'.loops = <<>>
          /\ frame' \in [at : PoolPoints, i : Nat, loops : Seq(Nat)]
      BY <2>1 DEF PoolPoints
    <2>5. TypeOK'
      BY <1>1, <2>2, <2>3, <2>4 DEF TypeOK, ThreadInv
    <2>6. BaseInv'
      BY <1>1, <1>3, <1>4, <2>1, <2>3, <2>4 DEF BaseInv
    <2>7. \A i \in DOMAIN frame.loops : Recorded(i, pool.loops[i])'
      BY <1>1, <1>3, <2>1, <2>3 DEF PoolInv, BaseInv, Recorded
    <2>8. PoolInv'
      BY <1>1, <1>2, <1>3, <2>1, <2>3, <2>4, <2>7, Indices DEF PoolInv, BaseInv
    <2> QED  BY <2>2, <2>5, <2>6, <2>8 DEF IInv
  <1>9. CASE RequestNext
    <2>1. frame.at = "request" /\ ctl' = ctl /\ pool' = pool /\ pool.state = "Stopping"
      BY <1>3, <1>9 DEF RequestNext, BaseInv
    <2>2. \A v \in Workers : wk[v].control = None /\ wk[v].pc \notin Launching
      BY <1>1, <1>4, <2>1, NobodyCalls
    <2>3. /\ wk' \in [Workers -> WorkerType]
          /\ \A v \in Workers : /\ RecordOK(wk'[v]) /\ wk'[v].pc = wk[v].pc
                                /\ wk'[v].control = wk[v].control
      <3>1. CASE frame.i <= Len(frame.loops)
        <4>1. wk' = [wk EXCEPT ![frame.i] = RequestStop(wk[frame.i])]
          BY <1>2, <1>9, <3>1 DEF RequestNext
        <4>2. \A v \in Workers : /\ RequestStop(wk[v]) \in WorkerType /\ RecordOK(RequestStop(wk[v]))
                                 /\ RequestStop(wk[v]).pc = wk[v].pc
                                 /\ RequestStop(wk[v]).control = wk[v].control
          BY Zenon, <1>2, <2>2, RequestStopOK DEF Launching
        <4>3. \A v \in Workers : wk'[v] = IF v = frame.i THEN RequestStop(wk[v]) ELSE wk[v]
          BY <1>2, <4>1
        <4>4. wk' \in [Workers -> WorkerType]
          BY Zenon, <1>2, <4>1, <4>2
        <4> QED  BY Zenon, <1>2, <4>2, <4>3, <4>4
      <3>2. CASE ~(frame.i <= Len(frame.loops))
        BY <1>2, <1>9, <3>2 DEF RequestNext
      <3> QED  BY <3>1, <3>2
    <2>4. ThreadInv'
      BY <1>1, <1>4, <2>1, <2>2, <2>3, WorkersReplaced
    <2>5. /\ frame'.loops = frame.loops /\ frame'.i # 0
          /\ frame'.at = "request" \/ (frame'.at = "join" /\ frame'.i = 1)
          /\ frame' \in [at : PoolPoints, i : Nat, loops : Seq(Nat)]
      <3>1. CASE frame.i <= Len(frame.loops)
        <4>1. frame' = [frame EXCEPT !.i = frame.i + 1] /\ frame.i + 1 \in Nat /\ frame.i + 1 # 0
          BY <1>2, <1>9, <3>1 DEF RequestNext
        <4> QED  BY Zenon, <1>2, <2>1, <4>1 DEF PoolPoints
      <3>2. CASE ~(frame.i <= Len(frame.loops))
        <4>1. frame' = [frame EXCEPT !.at = "join", !.i = 1]
          BY <1>9, <3>2 DEF RequestNext
        <4>2. frame'.loops = frame.loops /\ frame'.at = "join" /\ frame'.i = 1
          BY <1>2, <4>1
        <4>3. frame' \in [at : PoolPoints, i : Nat, loops : Seq(Nat)]
          BY Zenon, <1>2, <4>1 DEF PoolPoints
        <4> QED  BY <4>2, <4>3
      <3> QED  BY <3>1, <3>2
    <2>6. TypeOK'
      BY <1>1, <1>2, <2>1, <2>4, <2>5 DEF TypeOK, ThreadInv
    <2>7. BaseInv'
      BY <1>1, <1>3, <1>4, <2>1, <2>5 DEF BaseInv
    <2>8. \A v \in Workers : ~(v < 1)
      BY PoolAssumption
    <2>9. PoolInv'
      BY <1>1, <1>3, <2>1, <2>3, <2>5, <2>8 DEF PoolInv
    <2> QED  BY <2>4, <2>6, <2>7, <2>9 DEF IInv
  <1>10. CASE StopWorker
    <2>1. /\ frame.at = "join" /\ frame.i <= Len(frame.loops) /\ Enter(Base, frame.i, "stop")
          /\ frame' = [frame EXCEPT !.at = "stopping"] /\ pool' = pool
      BY <1>10 DEF StopWorker
    <2>2. /\ frame'.at = "stopping" /\ frame'.loops = frame.loops /\ frame'.i = frame.i
          /\ frame' \in [at : PoolPoints, i : Nat, loops : Seq(Nat)]
      BY <1>2, <2>1 DEF PoolPoints
    <2>3. frame.i \in DOMAIN frame.loops /\ frame.i \in Workers /\ Base \in Controllers
      <3>1. frame.i # 0
        BY <1>3, <2>1 DEF BaseInv
      <3> QED  BY <1>1, <1>2, <2>1, <3>1, Indices, PoolAssumption
    <2>4. /\ ThreadTypeOK' /\ \A v \in Workers : RecordOK(wk'[v]) /\ CallOK(v)'
          /\ ctl'[Base].at = "stop" /\ ctl'[Base].w = frame.i
          /\ \A d \in Controllers : d # Base => ctl'[d] = ctl[d]
          /\ \A v \in Workers : wk'[v].pc = wk[v].pc
      BY <1>1, <2>1, <2>3, EnterKeeps
    <2>5. TypeOK' /\ ThreadInv'
      BY <1>1, <1>2, <2>1, <2>2, <2>4 DEF TypeOK, ThreadInv
    <2>6. BaseInv'
      BY <1>1, <1>3, <1>4, <2>1, <2>2, <2>3, <2>4 DEF BaseInv
    <2>7. PoolInv'
      BY <1>1, <1>3, <2>1, <2>2, <2>4 DEF PoolInv, BaseInv
    <2> QED  BY <2>5, <2>6, <2>7 DEF IInv
  <1>11. CASE WorkerStopped
    <2>1. /\ frame.at = "stopping" /\ ctl[Base].at = "idle" /\ wk' = wk /\ ctl' = ctl /\ pool' = pool
          /\ frame' = [frame EXCEPT !.at = "join", !.i = frame.i + 1] /\ frame.i + 1 \in Nat
      BY <1>2, <1>11 DEF WorkerStopped, threadVars
    <2>2. ThreadInv'
      BY <1>1, <2>1, ThreadsUnchanged
    <2>3. /\ frame'.at = "join" /\ frame'.loops = frame.loops /\ frame'.i = frame.i + 1
          /\ frame' \in [at : PoolPoints, i : Nat, loops : Seq(Nat)]
      BY Zenon, <1>2, <2>1 DEF PoolPoints
    <2>4. TypeOK'
      BY <1>1, <1>2, <2>1, <2>2, <2>3 DEF TypeOK, ThreadInv
    <2>5. BaseInv'
      BY <1>1, <1>2, <1>3, <1>4, <2>1, <2>3 DEF BaseInv
    <2>6. \A v \in Workers : v < frame.i + 1 => wk[v].pc = "none"
      BY <1>1, <1>2, <1>3, <2>1, PoolAssumption DEF PoolInv
    <2>7. PoolInv'
      BY <1>1, <1>3, <2>1, <2>3, <2>6 DEF PoolInv, BaseInv
    <2> QED  BY <2>2, <2>4, <2>5, <2>7 DEF IInv
  <1>12. CASE AllStopped
    <2>1. /\ frame.at = "join" /\ frame.i > Len(frame.loops) /\ ctl' = ctl
          /\ wk' = [w \in Workers |-> IF w \in DOMAIN frame.loops THEN NewWorker(wk[w].thread) ELSE wk[w]]
          /\ pool' = [pool EXCEPT !.state = "Stopped", !.loops = <<>>, !.next = 0]
          /\ frame' = [at |-> "idle", i |-> 0, loops |-> <<>>]
          /\ <<>> \in Seq(Nat)
      BY <1>12 DEF AllStopped, Idle
    <2>2. \A v \in Workers : wk[v].control = None /\ wk[v].pc \notin Launching
      BY <1>1, <1>4, <2>1, NobodyCalls
    <2>3. /\ wk' \in [Workers -> WorkerType]
          /\ \A v \in Workers : /\ RecordOK(wk'[v]) /\ wk'[v].control = None
                                /\ wk'[v].pc = "none"
      <3>1. \A v \in Workers : /\ NewWorker(wk[v].thread) \in WorkerType
                               /\ RecordOK(NewWorker(wk[v].thread))
                               /\ NewWorker(wk[v].thread).pc = "none"
                               /\ NewWorker(wk[v].thread).control = None
        BY Zenon, <1>2, NewWorkerOK
      <3>2. \A v \in Workers : v \notin DOMAIN frame.loops => wk[v].pc = "none"
        BY <1>1, <1>3, <2>1 DEF PoolInv, BaseInv
      <3>3. \A v \in Workers : wk'[v] = IF v \in DOMAIN frame.loops THEN NewWorker(wk[v].thread) ELSE wk[v]
        BY <2>1
      <3>4. wk' \in [Workers -> WorkerType]
        BY <1>2, <2>1, <3>1
      <3> QED  BY ZenonT(30), <1>2, <2>2, <3>1, <3>2, <3>3, <3>4
    <2>4. ThreadInv'
      BY <1>1, <1>4, <2>1, <2>3, WorkersReplaced DEF Launching
    <2>5. /\ pool'.state = "Stopped" /\ pool'.loops = <<>> /\ pool'.num = pool.num
          /\ pool' \in [state : {"Stopped", "Starting", "Running", "Stopping"}, num : Workers \cup {0},
                        next : Nat, loops : Seq(Nat)]
      BY Zenon, <1>2, <2>1
    <2>6. /\ frame'.at = "idle" /\ frame'.loops = <<>>
          /\ frame' \in [at : PoolPoints, i : Nat, loops : Seq(Nat)]
      BY <2>1 DEF PoolPoints
    <2>7. TypeOK'
      BY <1>1, <2>4, <2>5, <2>6 DEF TypeOK, ThreadInv
    <2>8. BaseInv'
      BY <1>1, <1>3, <1>4, <2>1, <2>5, <2>6 DEF BaseInv
    <2>9. pool.num \in Nat
      BY <1>1, Indices
    <2>10. PoolInv'
      BY <1>1, <2>3, <2>5, <2>6, <2>9 DEF PoolInv
    <2> QED  BY <2>4, <2>7, <2>8, <2>10 DEF IInv
  <1> QED  BY <1>5, <1>6, <1>7, <1>8, <1>9, <1>10, <1>11, <1>12 DEF PoolStep

-----------------------------------------------------------------------------
(* The theorems *)

\* The initial states satisfy the invariant.
LEMMA InitInv == Init => IInv
  <1> SUFFICES ASSUME Init PROVE IInv
    OBVIOUS
  <1>1. wk = [w \in Workers |-> NewWorker(0)] /\ wk \in [Workers -> WorkerType]
    BY NewWorkerOK DEF Init, ThreadInit
  <1>2. \A w \in Workers : RecordOK(wk[w]) /\ wk[w].pc = "none" /\ wk[w].control = None
    BY Zenon, <1>1, NewWorkerOK
  <1>3. ctl \in [Controllers -> ControlType] /\ \A c \in Controllers : ctl[c].at = "idle"
    BY DEF Init, ThreadInit, ControlType
  <1>4. ThreadInv
    BY Zenon, <1>1, <1>2, <1>3, ControllerAssumption
    DEF Init, ThreadInit, ThreadInv, ThreadTypeOK, CallOK, Launching
  <1>5. TypeOK
    BY <1>4 DEF Init, TypeOK, ThreadInv, Idle, PoolPoints
  <1>6. BaseInv
    BY <1>3, PoolAssumption DEF Init, BaseInv, Idle
  <1>7. PoolInv
    BY <1>2, <1>3, PoolAssumption DEF Init, PoolInv, Idle
  <1> QED  BY <1>4, <1>5, <1>6, <1>7 DEF IInv

\* Every step keeps it.
LEMMA NextInv == IInv /\ [Next]_vars => IInv'
  <1> SUFFICES ASSUME IInv, [Next]_vars PROVE IInv'
    OBVIOUS
  <1>1. CASE UNCHANGED vars
    <2>1. wk' = wk /\ ctl' = ctl /\ calls' = calls /\ pooled' = pooled /\ pool' = pool /\ frame' = frame
      BY <1>1 DEF vars, threadVars
    <2>2. ThreadInv'
      BY <2>1 DEF IInv, ThreadInv, ThreadTypeOK, RecordOK, CallOK
    <2>3. TypeOK' /\ BaseInv'
      BY <2>1, <2>2 DEF IInv, ThreadInv, TypeOK, BaseInv
    <2>4. PoolInv'
      BY <2>1 DEF IInv, PoolInv, Recorded
    <2> QED  BY <2>2, <2>3, <2>4 DEF IInv
  <1>2. ASSUME NEW w \in Workers,
               \/ Worker(w) \/ SharedSelfStop(w)
               \/ RawQuit(w) /\ UNCHANGED <<pooled, pool, frame>>
        PROVE  IInv'
    BY <1>2, WorkerStepOK, CallbackOK, WorkerKeeps
  <1>3. ASSUME NEW c \in Controllers,
               Control(c) \/ (CreateFails(c) /\ UNCHANGED <<pooled, pool, frame>>)
        PROVE  IInv'
    <2>1. UNCHANGED <<calls, pooled, pool, frame>> /\ ctl[c].w \in Workers
      BY <1>3, ControlStepOK
    <2>2. PICK m, q : /\ wk' = [wk EXCEPT ![ctl[c].w] = q] /\ ctl' = [ctl EXCEPT ![c] = m]
                      /\ Goes(c, ctl[c], wk[ctl[c].w], m, q)
      BY <1>3, ControlStepOK
    <2> QED  BY Zenon, <2>1, <2>2, CallKeeps
  <1>4. ASSUME NEW c \in Controllers, NEW w \in Shared, StartCall(c, w) \/ StopCall(c, w)
        PROVE  IInv'
    BY <1>4, SharedCallKeeps
  <1>5. CASE Start \/ Stop \/ GetNextLoop \/ BaseInitThrows \/ \E n \in Workers \cup {0} : SetThreadNum(n)
    BY <1>5, PoolCallKeeps
  <1>6. CASE PoolStep
    BY <1>6, PoolStepKeeps
  <1> QED  BY <1>1, <1>2, <1>3, <1>4, <1>5, <1>6 DEF Next

\* The inductive invariant holds for any number of workers, controllers and calls.
THEOREM Invariance == Spec => []IInv
  BY InitInv, NextInv, PTL DEF Spec

\* No EventLoop is used after its destruction: loop_ and the pointers that startLoop()
\* returned point to an EventLoop that exists until its owner asks for a stop
\* (EventLoopThread.cc:56, 84-91, 122-133).
THEOREM PointersAreLive == Spec => []LoopPointersLive
  <1>1. IInv => LoopPointersLive
    <2> SUFFICES ASSUME IInv, NEW w \in Workers
                 PROVE  /\ wk[w].loop # 0 => wk[w].alive /\ wk[w].loop = wk[w].thread
                        /\ wk[w].borrowed = wk[w].thread /\ wk[w].thread # 0 /\ ~wk[w].stopAsked => wk[w].alive
      BY DEF LoopPointersLive, IInv, ThreadInv
    <2>1. wk[w] \in WorkerType /\ RecordOK(wk[w])
      BY DEF IInv, ThreadInv, ThreadTypeOK
    <2> QED  BY <2>1 DEF RecordOK, WorkerType, WorkerPoints, Launching, Existing, Published, LettingGo
  <1> QED  BY <1>1, Invariance, PTL

\* A pool has all its workers or none, for any number of workers: the loops it hands out
\* exist until it is stopped, and a failed start() leaves no thread
\* (EventLoopThreadPool.cc:43-56, 64-95).
THEOREM PoolIsAllOrNothing == Spec => []PoolAllOrNothing
  <1>1. IInv => PoolAllOrNothing
    <2> SUFFICES ASSUME IInv, pooled PROVE PoolAllOrNothing
      BY DEF PoolAllOrNothing
    <2>1. \A w \in Workers : wk[w] \in WorkerType /\ RecordOK(wk[w])
      BY Zenon DEF IInv, ThreadInv, ThreadTypeOK
    <2>2. ASSUME NEW w \in Workers, NEW l, Recorded(w, l)
          PROVE  wk[w].alive /\ wk[w].thread = l
      BY <2>1, <2>2 DEF Recorded, RecordOK, WorkerType, WorkerPoints, Launching, Existing, LettingGo
    <2>3. ASSUME pool.state = "Stopped"
          PROVE  \A w \in Workers : wk[w].pc = "none" /\ ~wk[w].alive /\ ~wk[w].joinable
      <3>1. \A w \in Workers : wk[w].pc = "none"
        BY Zenon, <2>3 DEF IInv, PoolInv, BaseInv, TypeOK, PoolPoints
      <3> QED  BY Zenon, <2>1, <3>1 DEF RecordOK, Existing
    <2> QED  BY Zenon, <2>2, <2>3, Indices DEF PoolAllOrNothing, IInv, PoolInv
  <1> QED  BY <1>1, Invariance, PTL

\* What a call that ends has established, and when a thread is created.
LEMMA MovePromise ==
  ASSUME NEW r \in WorkerType, RecordOK(r), NEW k \in ControlType, NEW m, NEW q,
         CallMove(k, r, m, q), k.at = "create" => r.pc = "none"
  PROVE  /\ m.at = "idle" => IF k.at \in {"check", "wait"}
                             THEN /\ q.borrowed = r.thread /\ q.borrowed # 0 /\ r.alive /\ ~r.wfail
                                  /\ ~r.stopAsked
                             ELSE q.pc = "none" /\ ~q.alive /\ q.loop = 0
         /\ q.thread # r.thread => r.pc = "none" /\ ~r.alive
  <1>1. CASE /\ k.at \in {"check", "wait"} /\ r.state \in {"Running", "Exited"}
             /\ q = [[r EXCEPT !.borrowed = r.loop] EXCEPT !.control = None]
    <2>1. q.borrowed = r.loop /\ q.thread = r.thread
      BY <1>1 DEF WorkerType
    <2>2. r.loop = r.thread /\ r.loop # 0 /\ r.alive /\ ~r.wfail /\ ~r.stopAsked
      BY <1>1 DEF RecordOK, WorkerType, Existing, Published, Launching
    <2> QED  BY <1>1, <2>1, <2>2
  <1>2. CASE q = RequestStop(r) /\ m.at # "idle"
    <2>1. q.thread = r.thread
      BY <1>2 DEF RequestStop, WorkerType
    <2> QED  BY <1>2, <2>1
  <1>3. CASE /\ CanJoin(r) /\ m.at # "idle"
             /\ q = [Joined(r) EXCEPT !.state = "Starting", !.failure = FALSE]
    <2>1. q.thread = r.thread
      BY <1>3 DEF Joined, WorkerType
    <2> QED  BY <1>3, <2>1
  <1>4. CASE /\ k.at = "create" /\ m.at # "idle"
    <2>1. r.pc = "none" /\ ~r.alive
      BY <1>4 DEF RecordOK, Existing
    <2> QED  BY <1>4, <2>1
  <1>5. CASE /\ k.at = "create"
             /\ q = [[r EXCEPT !.state = "Failed", !.failure = TRUE] EXCEPT !.control = None]
    <2>1. q.pc = r.pc /\ q.alive = r.alive /\ q.loop = r.loop /\ q.thread = r.thread
      BY <1>5 DEF WorkerType
    <2>2. r.pc = "none" /\ ~r.alive /\ r.loop = 0
      BY <1>5 DEF RecordOK, Existing, Published
    <2> QED  BY <1>5, <2>1, <2>2
  <1>6. CASE q = r /\ m.at # "idle"
    BY <1>6
  <1>7. CASE /\ k.at \in {"failJoin", "stopJoin"} /\ CanJoin(r)
             /\ q = [Joined(r) EXCEPT !.control = None]
    <2>1. q.pc = "none" /\ q.alive = r.alive /\ q.loop = r.loop /\ q.thread = r.thread
      BY <1>7 DEF Joined, WorkerType
    <2>2. r.pc \in {"none", "exited"}
      BY <1>7 DEF CanJoin, RecordOK
    <2>3. ~r.alive /\ r.loop = 0
      BY <2>2 DEF RecordOK, Existing, Published
    <2> QED  BY <1>7, <2>1, <2>3
  <1> QED  BY <1>1, <1>2, <1>3, <1>4, <1>5, <1>6, <1>7 DEF CallMove, ControlType

\* A call that ends has kept its promise, whoever else is at work: startLoop() returns the
\* loop of the thread that runs now, which started well and was not told to stop, and
\* stop() or a startLoop() that throws leave no thread (EventLoopThread.cc:25-36, 51-72).
THEOREM PromisesAreKept == Spec => CallsKeepPromise
  <1> DEFINE Kept(c) ==
               ctl[c].at # "idle" /\ ctl'[c].at = "idle" =>
                 LET r == wk[ctl[c].w] IN
                 IF ctl[c].at \in {"check", "wait"}
                 THEN LET b == wk'[ctl[c].w].borrowed
                      IN  b = r.thread /\ b # 0 /\ r.alive /\ ~r.wfail /\ ~r.stopAsked
                 ELSE LET q == wk'[ctl[c].w] IN q.pc = "none" /\ ~q.alive /\ q.loop = 0
             Fresh(w) == wk'[w].thread # wk[w].thread => wk[w].pc = "none" /\ ~wk[w].alive
  <1>1. ASSUME IInv, [Next]_vars
        PROVE  (\A c \in Controllers : Kept(c)) /\ (\A w \in Workers : Fresh(w))
    <2>1. /\ wk \in [Workers -> WorkerType] /\ ctl \in [Controllers -> ControlType]
          /\ \A w \in Workers : RecordOK(wk[w]) /\ wk[w].thread \in Nat
      BY <1>1 DEF IInv, ThreadInv, ThreadTypeOK, WorkerType
    \* Whoever ends no call and creates no thread has nothing to keep.
    <2>2. ASSUME \A c \in Controllers : ctl[c].at = "idle" \/ ctl'[c] = ctl[c],
                 \A w \in Workers : wk'[w].thread = wk[w].thread
          PROVE  (\A c \in Controllers : Kept(c)) /\ (\A w \in Workers : Fresh(w))
      BY Zenon, <2>2
    <2>3. ASSUME NEW c \in Controllers, NEW w \in Workers, NEW at, Enter(c, w, at)
          PROVE  (\A d \in Controllers : Kept(d)) /\ (\A v \in Workers : Fresh(v))
      <3>1. \A d \in Controllers : ctl[d].at = "idle" \/ ctl'[d] = ctl[d]
        BY <2>1, <2>3 DEF Enter
      <3>2. \A v \in Workers : wk'[v].thread = wk[v].thread
        BY <2>1, <2>3 DEF Enter, WorkerType
      <3> QED  BY <2>2, <3>1, <3>2
    <2>4. CASE UNCHANGED vars
      BY <2>2, <2>4 DEF vars, threadVars
    <2>5. ASSUME NEW w \in Workers,
                 \/ Worker(w) \/ SharedSelfStop(w)
                 \/ RawQuit(w) /\ UNCHANGED <<pooled, pool, frame>>
          PROVE  (\A c \in Controllers : Kept(c)) /\ (\A v \in Workers : Fresh(v))
      <3>1. PICK q : wk' = [wk EXCEPT ![w] = q] /\ Undisturbed(wk[w], q) /\ ctl' = ctl
        BY <1>1, <2>5, WorkerStepOK, CallbackOK
      <3>2. \A v \in Workers : wk'[v].thread = wk[v].thread
        BY <2>1, <3>1 DEF Undisturbed
      <3> QED  BY <2>2, <3>1, <3>2
    <2>6. ASSUME NEW c \in Controllers,
                 Control(c) \/ (CreateFails(c) /\ UNCHANGED <<pooled, pool, frame>>)
          PROVE  (\A d \in Controllers : Kept(d)) /\ (\A v \in Workers : Fresh(v))
      <3> DEFINE w == ctl[c].w
                 r == wk[w]
                 k == ctl[c]
      <3>1. w \in Workers /\ r \in WorkerType /\ RecordOK(r) /\ k \in ControlType
        BY <1>1, <2>1, <2>6, ControlStepOK
      <3>2. PICK m, q : /\ wk' = [wk EXCEPT ![w] = q] /\ ctl' = [ctl EXCEPT ![c] = m]
                        /\ Goes(c, k, r, m, q) /\ CallMove(k, r, m, q)
        BY <1>1, <2>6, ControlStepOK
      <3>3. k.at = "create" => r.pc = "none"
        BY <1>1, <3>1 DEF IInv, ThreadInv, CallOK
      <3>4. /\ wk'[w] = q /\ \A v \in Workers : v # w => wk'[v] = wk[v]
            /\ ctl'[c] = m /\ \A d \in Controllers : d # c => ctl'[d] = ctl[d]
        BY <2>1, <3>1, <3>2
      <3> HIDE DEF w, r, k
      <3>5. m.at = "idle" => IF k.at \in {"check", "wait"}
                             THEN /\ q.borrowed = r.thread /\ q.borrowed # 0 /\ r.alive /\ ~r.wfail
                                  /\ ~r.stopAsked
                             ELSE q.pc = "none" /\ ~q.alive /\ q.loop = 0
        BY <3>1, <3>2, <3>3, MovePromise
      <3>6. q.thread # r.thread => r.pc = "none" /\ ~r.alive
        BY <3>1, <3>2, <3>3, MovePromise
      <3> QED  BY <3>1, <3>4, <3>5, <3>6 DEF w, r, k
    <2>7. ASSUME NEW c \in Controllers, NEW w \in Shared, StartCall(c, w) \/ StopCall(c, w)
          PROVE  (\A d \in Controllers : Kept(d)) /\ (\A v \in Workers : Fresh(v))
      BY <2>3, <2>7, PoolAssumption DEF StartCall, StopCall, SharedCall
    <2>8. CASE Start \/ Stop \/ GetNextLoop \/ BaseInitThrows \/ \E n \in Workers \cup {0} : SetThreadNum(n)
      <3>1. wk' = wk /\ ctl' = ctl
        BY <2>8 DEF Start, Stop, GetNextLoop, BaseInitThrows, SetThreadNum, PoolCall, threadVars
      <3> QED  BY <2>2, <3>1
    <2>9. CASE PoolStep
      <3>1. CASE StartWorker
        <4>1. Len(frame.loops) + 1 \in Workers
          BY <1>1, <3>1, Indices DEF StartWorker, IInv, BaseInv
        <4> QED  BY <2>3, <3>1, <4>1, PoolAssumption DEF StartWorker
      <3>2. CASE StopWorker
        <4>1. frame.i \in Workers
          BY <1>1, <3>2, Indices DEF StopWorker, IInv, BaseInv, TypeOK
        <4> QED  BY <2>3, <3>2, <4>1, PoolAssumption DEF StopWorker
      <3>3. CASE StartFails \/ RequestNext \/ AllStopped
        <4>1. ctl' = ctl
          BY <3>3 DEF StartFails, RequestNext, AllStopped
        <4>2. \A v \in Workers : NewWorker(wk[v].thread).thread = wk[v].thread
          BY DEF NewWorker
        <4>3. \A v \in Workers : RequestStop(wk[v]).thread = wk[v].thread
          BY <2>1 DEF RequestStop, WorkerType
        <4>4. \A v \in Workers : wk'[v] \in {wk[v], NewWorker(wk[v].thread), RequestStop(wk[v])}
          BY <2>1, <3>3 DEF StartFails, RequestNext, AllStopped
        <4> QED  BY <2>2, <4>1, <4>2, <4>3, <4>4
      <3>4. CASE WorkerStarted \/ AllStarted \/ WorkerStopped
        BY <2>2, <3>4 DEF WorkerStarted, AllStarted, WorkerStopped, threadVars
      <3> QED  BY Zenon, <2>9, <3>1, <3>2, <3>3, <3>4 DEF PoolStep
    <2> QED  BY Zenon, <1>1, <2>4, <2>5, <2>6, <2>7, <2>8, <2>9 DEF Next
  <1>2. IInv /\ [Next]_vars =>
          [(\A c \in Controllers : Kept(c)) /\ (\A w \in Workers : Fresh(w))]_threadVars
    BY <1>1
  <1> QED  BY <1>2, Invariance, PTL DEF Spec, CallsKeepPromise
=============================================================================
