---------------------------- MODULE CoroutineTree ----------------------------
(***************************************************************************)
(* mini/coroutine: Task, ResumeHandle, WhenAny, WhenAll, withTimeout and   *)
(* SleepAwaitable.  A task awaits a combinator over sub-tasks that sleep   *)
(* on event loops; threads start it, destroy it and cancel its token.      *)
(* A thread is a stack of activations: th[t][1] is what it executes now.   *)
(* An activation with a gate holds that gate's recursive mutex and counts  *)
(* as one of its executions.                                               *)
(***************************************************************************)
EXTENDS Naturals, Sequences, FiniteSets, SequencesExt

CONSTANTS
  Loops,       \* event loops, each one a thread
  Others,      \* threads that run no loop
  None,
  N,           \* most sub-tasks of a combinator
  Scenarios    \* what the application does, see ScenarioType

Threads == Loops \cup Others

\* A sub-task: it ends at once or sleeps first, on a timer that is due some time or not
\* at all, and returns a value or throws.
Body == [wait : {"no", "timer", "forever"}, loop : Loops, end : {"value", "exc", "TimedOut"}]

ScenarioType ==
  [kind : {"any", "all", "timeout", "chain"},
   body : UNION {[1..n -> Body] : n \in 1..N},
   token : SUBSET (1..N),           \* sub-tasks that are given the caller's token; with
                                    \* "timeout", 1: the operation, 2: the task that calls it
   cancels : Threads \cup {None},   \* who cancels that token
   observer : BOOLEAN,              \* sub-tasks register an observer that throws
   early : SUBSET (1..N),           \* sub-tasks that are started before the task is
   nested : BOOLEAN,                \* the first sub-task awaits a task of its own
   starter : Threads, detach : BOOLEAN,
   adopt : BOOLEAN,                 \* the started task is then awaited by another one
   destroyer : Threads \cup {None}, \* who lets go of the outermost task,
   release : {"destroy", "detach"}] \* and how

ASSUME TreeAssumption ==
  /\ N \in Nat \ {0} /\ Scenarios \subseteq ScenarioType
  /\ \A s \in Scenarios :
       /\ s.kind = "timeout" => Len(s.body) = 2 /\ s.body[2].end = "TimedOut"
                                /\ s.token \subseteq {1, 2} /\ s.early = {} /\ ~s.nested
       /\ s.nested => s.kind # "chain" /\ 1 \notin s.token
       /\ \A i \in s.early : s.starter = s.body[i].loop

(* Frames: the sub-tasks S(i) in their wrappers W(i), the combinator Comb and the task     *)
(* Root that awaits it, and Outer, which adopts Root.  Op is the task that a nested S(1)   *)
(* awaits.  In withTimeout S(1) is prepareTimedOperation around the operation Op, and S(2) *)
(* is timeoutResultTask.                                                                   *)
Outer == <<"outer", 0>>
Root  == <<"root", 0>>
Comb  == <<"comb", 0>>
Op    == <<"op", 0>>
W(i)  == <<"w", i>>
S(i)  == <<"s", i>>
Frames == {Outer, Root, Comb, Op} \cup {W(i) : i \in 1..N} \cup {S(i) : i \in 1..N}

\* Owners that are not frames: a Task object of the application, a local variable of
\* await_suspend.  A detached frame has no owner.
User   == <<"user", 0>>
Locals == <<"locals", 0>>

(* Cancellation states: of the caller, of WhenAnyState and of prepareTimedOperation. *)
Ext    == <<"ext", 0>>
Src(i) == <<"src", i>>
Lnk(i) == <<"lnk", i>>
Prep   == <<"prep", 0>>
Tokens == {Ext, Prep} \cup {Src(i) : i \in 1..N} \cup {Lnk(i) : i \in 1..N}

VARIABLES
  sc,    \* the scenario
  fr,    \* frames with their promise and FrameControl
  th,    \* activations of each thread
  q,     \* functors posted to each loop
  sl,    \* SleepState of each frame that sleeps
  tok,   \* CancellationStates
  co     \* WhenAnyState or WhenAllState

vars == <<sc, fr, th, q, sl, tok, co>>

Kids    == DOMAIN sc.body
InOrder == [i \in Kids |-> i]

Result(end, who, parts) == [end |-> end, who |-> who, parts |-> parts]
NoResult == Result("none", 0, <<>>)
Ended(end) == Result(end, 0, <<>>)

Callback(do, to) == [do |-> do, to |-> to]

TypeOK ==
  /\ \A f \in Frames :
       /\ fr[f].st \in {"none", "lazy", "live", "done", "destroyed"}
       /\ fr[f].gate \in Frames /\ fr[f].linked \subseteq Frames
       /\ fr[f].cont \in Frames \cup {None} /\ fr[f].token \in Tokens \cup {None}
       /\ sl[f].phase \in {"Unarmed", "Pending", "Expired", "Cancelled", "Abandoned"}
  /\ \A t \in Threads : \A k \in DOMAIN th[t] : th[t][k].op \in {"run", "launch", "resume", "arm", "cancel"}
  /\ co.remaining \in 0..N /\ co.winner \in 0..N

\* The body of a sub-task that is user code, or timeoutResultTask.
BodyOf(f) == sc.body[IF f = Op THEN 1 ELSE f[2]]

\* The application has created the task and the sub-tasks it is called with.
Init ==
  /\ sc \in Scenarios
  /\ LET given == CASE sc.kind = "timeout" -> {Op}
                    [] sc.kind = "chain" -> {S(1)}
                    [] sc.kind \in {"any", "all"} -> {S(i) : i \in Kids}
         made  == given \cup {Root} \cup (IF sc.nested THEN {Op} ELSE {})
     IN  fr = [f \in Frames |->
                 [st |-> IF f \in made THEN "lazy" ELSE "none",
                  owner |-> IF f = Root THEN User ELSE IF f \in given THEN Root
                            ELSE IF f \in made THEN S(1) ELSE None,
                  valid |-> f \in made, pc |-> 0, cont |-> None, detached |-> FALSE,
                  gate |-> f, linked |-> {}, out |-> NoResult, deaths |-> 0,
                  token |-> IF f \in (IF sc.kind = "timeout" THEN {<<Op, Root>>[i] : i \in sc.token}
                                      ELSE {S(i) : i \in sc.token}) THEN Ext ELSE None]]
  /\ th = [t \in Threads |-> <<>>]
  /\ q = [l \in Loops |-> <<>>]
  /\ sl = [f \in Frames |-> [phase |-> "Unarmed", timer |-> FALSE, token |-> None,
                             late |-> FALSE, resumes |-> 0]]
  /\ tok = [k \in Tokens |-> [cancelled |-> FALSE, callbacks |-> {}]]
  /\ co = [done |-> FALSE, winner |-> 0, ends |-> [i \in Kids |-> "none"], exc |-> FALSE,
           remaining |-> Len(sc.body), finished |-> <<>>]

-----------------------------------------------------------------------------
(* FrameGate, FrameControl and destroyFrame *)

Holds(t, g)   == \E k \in DOMAIN th[t] : th[t][k].gate = g
CanLock(t, g) == \A u \in Threads \ {t} : ~Holds(u, g)

Activation(op, f, g) == [op |-> op, frame |-> f, gate |-> g]
Push(t, a) == th' = [th EXCEPT ![t] = <<a>> \o @]
Pop(t)     == th' = [th EXCEPT ![t] = Tail(@)]
Become(t, a) == th' = [th EXCEPT ![t] = <<a>> \o Tail(@)]

\* What a relation reaches from the set fs; no chain of frames is longer than Depth.
Depth == 6
Closure(fs, Succ(_)) ==
  LET grow[n \in 0..Depth] ==
        IF n = 0 THEN fs ELSE LET near == grow[n - 1] IN near \cup UNION {Succ(g) : g \in near}
  IN  grow[Depth]

Owned(F, f) == Closure({f}, LAMBDA g : {h \in Frames : F[h].owner = g})

\* A linkChild that moves the children and leaves what they await on their old gates.
LinkChildShallow(F, p, cs) ==
  [f \in cs |-> [F[f] EXCEPT !.gate = F[p].gate]] @@ [F EXCEPT ![p].linked = @ \cup cs]

\* linkChild with adoptGate for the children cs: the whole chain below a child moves to the
\* parent's gate.
LinkChild(F, p, cs) ==
  [f \in Closure(cs, LAMBDA g : F[g].linked) |-> [F[f] EXCEPT !.gate = F[p].gate]]
    @@ [F EXCEPT ![p].linked = @ \cup cs]

\* Destroying a frame destroys the Tasks and Awaiters among its locals.  executing: the
\* gate is inside an execution, which is fatal unless the frame is at its end.
DestroyFrame(F, f, executing) ==
  [g \in {g \in Owned(F, f) : F[g].st # "none"} |->
     [F[g] EXCEPT !.st = IF executing /\ F[f].st # "done" THEN "terminated" ELSE "destroyed",
                  !.valid = FALSE, !.owner = None, !.deaths = @ + 1]] @@ F

-----------------------------------------------------------------------------
(* Task: what a body that is running does at its await points and at its end *)

\* A FinalAwaiter that leaves a detached frame behind.
FinishKeeps(t, F, f, out) ==
  /\ fr' = [F EXCEPT ![f].st = "done", ![f].out = out]
  /\ IF F[f].cont # None THEN Become(t, [Head(th[t]) EXCEPT !.frame = F[f].cont]) ELSE Pop(t)

\* FinalAwaiter: resume the continuation in place, or destroy itself, or stay.
Finish(t, F, f, out) ==
  LET G == [F EXCEPT ![f].st = "done", ![f].out = out]
  IN  IF F[f].cont # None
      THEN fr' = G /\ Become(t, [Head(th[t]) EXCEPT !.frame = F[f].cont])
      ELSE /\ fr' = IF F[f].detached THEN DestroyFrame(G, f, TRUE) ELSE G
           /\ Pop(t)

\* p awaits the Task c, which it owns from now on: nothing to wait for, a lazy child that
\* runs in place of its parent, or one that was started before.
AwaitTask(t, F, p, c) ==
  LET G == [F EXCEPT ![p].pc = 1, ![c].owner = p]
      L == [LinkChild(G, p, {c}) EXCEPT ![c].cont = p]
  IN  CASE F[c].st = "done" -> fr' = G /\ UNCHANGED th
        [] F[c].st = "lazy" -> /\ fr' = [L EXCEPT ![c].st = "live"]
                               /\ Become(t, [Head(th[t]) EXCEPT !.frame = c])
        [] F[c].st \notin {"done", "lazy"} -> fr' = L /\ Pop(t)

Running(t, f, pc) ==
  /\ th[t] # <<>> /\ Head(th[t]).op = "run" /\ Head(th[t]).frame = f
  /\ fr[f].st = "live" /\ fr[f].pc = pc

\* Task::start and Task::detach on a lazy Task.
Begin(t, F, f, detach) ==
  /\ CanLock(t, F[f].gate)
  /\ fr' = [F EXCEPT ![f].st = "live", ![f].detached = detach,
                     ![f].owner = IF detach THEN None ELSE @]
  /\ Push(t, Activation("run", f, F[f].gate))

-----------------------------------------------------------------------------
(* The application: start or detach, adopt, destroy, cancel *)

Top == IF sc.adopt THEN Outer ELSE Root

\* A sub-task that is handed over started has been started on its own loop.
StartEarly(t) ==
  /\ t = sc.starter /\ th[t] = <<>> /\ fr[Root].st = "lazy"
  /\ \E i \in sc.early : fr[S(i)].st = "lazy" /\ Begin(t, fr, S(i), FALSE)
  /\ UNCHANGED <<sc, q, sl, tok, co>>

StartRoot(t) ==
  /\ t = sc.starter /\ th[t] = <<>> /\ fr[Root].st = "lazy"
  /\ \A i \in sc.early : fr[S(i)].st # "lazy"
  /\ Begin(t, fr, Root, sc.detach /\ ~sc.adopt)
  /\ UNCHANGED <<sc, q, sl, tok, co>>

\* The started task is moved into a new one.
StartOuter(t) ==
  /\ sc.adopt /\ t = sc.starter /\ th[t] = <<>>
  /\ fr[Root].st \notin {"lazy", "destroyed"} /\ fr[Outer].st = "none"
  /\ LET F == [fr EXCEPT ![Outer].st = "lazy", ![Outer].valid = TRUE, ![Outer].owner = User,
                         ![Root].owner = Outer]
     IN  Begin(t, F, Outer, sc.detach)
  /\ UNCHANGED <<sc, q, sl, tok, co>>

\* Adoption requires that no descendant of the adopted task runs meanwhile.
Quiescent == sc.adopt => fr[Outer].pc = 1 \/ fr[Root].st = "lazy"

\* ~SleepAwaitable of a pending sleep
Abandon(f) == [sl[f] EXCEPT !.phase = "Abandoned", !.timer = FALSE]

Unregistered(fs) ==
  [k \in Tokens |-> [tok[k] EXCEPT !.callbacks = @ \ {Callback("post", f) : f \in fs}]]

\* Task::detach on a Task that was started: one that is over is destroyed, any other one
\* owns itself from now on.
DetachTop(t) ==
  /\ t = sc.destroyer /\ sc.release = "detach" /\ th[t] = <<>>
  /\ fr[Top].owner = User /\ fr[Top].st # "lazy" /\ CanLock(t, fr[Top].gate)
  /\ fr' = IF fr[Top].st = "done" THEN DestroyFrame(fr, Top, FALSE)
           ELSE [fr EXCEPT ![Top].detached = TRUE, ![Top].owner = None]
  /\ UNCHANGED <<sc, th, q, sl, tok, co>>

\* ~Task.  A Task whose own chain sleeps is destroyed on the loop it sleeps on, and one
\* that was not started by the thread that would have.
DestroyTop(t) ==
  LET gone     == Owned(fr, Top)
      sleeping == {f \in gone : sl[f].phase = "Pending"}
  IN  /\ t = sc.destroyer /\ sc.release = "destroy" /\ th[t] = <<>>
      /\ fr[Top].owner = User /\ (fr[Top].st = "lazy" => t = sc.starter)
      /\ \A f \in gone : CanLock(t, fr[f].gate)
      /\ \A f \in sleeping : t = BodyOf(f).loop
      /\ fr' = DestroyFrame(fr, Top, FALSE)
      /\ sl' = [f \in Frames |-> IF f \in sleeping THEN Abandon(f) ELSE sl[f]]
      /\ tok' = Unregistered(sleeping)
      /\ UNCHANGED <<sc, th, q, co>>

CancelCaller(t) ==
  /\ t = sc.cancels /\ th[t] = <<>> /\ ~tok[Ext].cancelled
  /\ Push(t, [op |-> "cancel", gate |-> None, work |-> <<Callback("cancel", Ext)>>])
  /\ UNCHANGED <<sc, fr, q, sl, tok, co>>

-----------------------------------------------------------------------------
(* CancellationSource::cancel, LinkedCancellation *)

\* The first cancel takes the callbacks and runs them, in any order; a link cancels the
\* linked source, a sleep posts its completion, an observer throws.  What an observer
\* throws inside cancelLosers becomes the exception of a winner that has none.
CancelStep(t) ==
  /\ th[t] # <<>> /\ Head(th[t]).op = "cancel"
  /\ LET a == Head(th[t])
         c == Head(a.work)
         rest == [a EXCEPT !.work = Tail(@)]
     IN  \/ a.work = <<>> /\ Pop(t) /\ UNCHANGED <<q, tok, co>>
         \/ /\ a.work # <<>> /\ c.do = "cancel"
            /\ IF tok[c.to].cancelled THEN Become(t, rest) /\ UNCHANGED tok
               ELSE /\ tok' = [tok EXCEPT ![c.to] = [cancelled |-> TRUE, callbacks |-> {}]]
                    /\ \E order \in SetToSeqs(tok[c.to].callbacks) :
                         Become(t, [rest EXCEPT !.work = order \o @])
            /\ UNCHANGED <<q, co>>
         \/ /\ a.work # <<>> /\ c.do = "post"
            /\ q' = IF fr[c.to].st = "live"
                    THEN [q EXCEPT ![BodyOf(c.to).loop] = Append(@, Callback("cancelled", c.to))] ELSE q
            /\ Become(t, rest) /\ UNCHANGED <<tok, co>>
         \/ /\ a.work # <<>> /\ c.do = "observe"
            /\ co' = IF a.gate = None THEN co ELSE [co EXCEPT !.exc = TRUE]
            /\ Become(t, rest) /\ UNCHANGED <<q, tok>>
  /\ UNCHANGED <<sc, fr, sl>>

\* T after link(from) of the LinkedCancellation to: at once if from is cancelled.
LinkToken(T, from, to) ==
  IF from = None THEN T
  ELSE IF T[from].cancelled THEN [T EXCEPT ![to].cancelled = TRUE]
  ELSE [T EXCEPT ![from].callbacks = @ \cup {Callback("cancel", to)}]

-----------------------------------------------------------------------------
(* ResumeHandle::resume *)

Resumable(f) == fr[f].valid /\ fr[f].st # "done"

ResumeStep(t) ==
  /\ th[t] # <<>> /\ Head(th[t]).op = "resume"
  /\ LET f == Head(th[t]).frame
     IN  /\ CanLock(t, fr[f].gate)
         /\ IF Resumable(f) THEN Become(t, Activation("run", f, fr[f].gate)) ELSE Pop(t)
  /\ UNCHANGED <<sc, fr, q, sl, tok, co>>

-----------------------------------------------------------------------------
(* SleepAwaitable on its loop *)

\* The functor await_suspend posts: look at the token, then register and set the timer.
\* Another thread may cancel in between.
ArmCheck(t) ==
  /\ th[t] # <<>> /\ Head(th[t]).op = "arm" /\ ~Head(th[t]).checked
  /\ LET f == Head(th[t]).frame
         k == sl[f].token
     IN  IF sl[f].phase # "Pending" THEN Pop(t) /\ UNCHANGED q
         ELSE IF k # None /\ tok[k].cancelled
              THEN Pop(t) /\ q' = [q EXCEPT ![t] = Append(@, Callback("cancelled", f))]
         ELSE Become(t, [Head(th[t]) EXCEPT !.checked = TRUE]) /\ UNCHANGED q
  /\ UNCHANGED <<sc, fr, sl, tok, co>>

ArmRegister(t) ==
  /\ th[t] # <<>> /\ Head(th[t]).op = "arm" /\ Head(th[t]).checked
  /\ LET f == Head(th[t]).frame
         k == sl[f].token
     IN  /\ IF k = None THEN UNCHANGED <<q, tok>>
            ELSE IF tok[k].cancelled
                 THEN q' = [q EXCEPT ![t] = Append(@, Callback("cancelled", f))] /\ UNCHANGED tok
            ELSE tok' = [tok EXCEPT ![k].callbacks = @ \cup {Callback("post", f)}] /\ UNCHANGED q
         /\ sl' = [sl EXCEPT ![f].timer = TRUE]
  /\ Pop(t)
  /\ UNCHANGED <<sc, fr, co>>

\* A complete that does not ask whether the sleep is over.
CompleteAgain(l, f, outcome) ==
  /\ sl' = [sl EXCEPT ![f].phase = outcome, ![f].timer = FALSE, ![f].resumes = @ + 1]
  /\ tok' = Unregistered({f})
  /\ Push(l, Activation("resume", f, None))

Complete(l, f, outcome) ==
  IF sl[f].phase # "Pending" THEN UNCHANGED <<sl, tok, th>>
  ELSE /\ sl' = [sl EXCEPT ![f].phase = outcome, ![f].timer = FALSE, ![f].resumes = @ + 1]
       /\ tok' = Unregistered({f})
       /\ Push(l, Activation("resume", f, None))

\* The loop runs the next functor, or a timer that is due.
RunFunctor(l) ==
  /\ Quiescent /\ th[l] = <<>> /\ q[l] # <<>>
  /\ LET c == Head(q[l])
     IN  \/ c.do = "cancelled" /\ Complete(l, c.to, "Cancelled")
         \/ /\ c.do = "arm"
            /\ Push(l, [op |-> "arm", frame |-> c.to, gate |-> None, checked |-> FALSE])
            /\ UNCHANGED <<sl, tok>>
  /\ q' = [q EXCEPT ![l] = Tail(@)]
  /\ UNCHANGED <<sc, fr, co>>

Fire(l) ==
  /\ Quiescent /\ th[l] = <<>>
  /\ \E f \in Frames : /\ sl[f].timer /\ BodyOf(f).loop = l /\ BodyOf(f).wait = "timer"
                       /\ Complete(l, f, "Expired")
  /\ UNCHANGED <<sc, fr, q, co>>

-----------------------------------------------------------------------------
(* Sub-tasks *)

\* The first sub-task awaits Op.
Wraps == sc.nested \/ sc.kind = "timeout"
Leaf(f) == f = Op \/ \E i \in Kids : f = S(i) /\ (Wraps => i # 1)
TimeoutResultTask(f) == sc.kind = "timeout" /\ f = S(2)

\* The body, if it is the application's, registers its observer, whose exception is the
\* body's if the token is cancelled already, and ends, which drops the observer, or suspends
\* in asyncSleep.  The sleep is armed here on its own loop, by a functor elsewhere.
LeafBegins(t, f) ==
  /\ Leaf(f) /\ Running(t, f, 0)
  /\ LET k == fr[f].token
         b == BodyOf(f)
         observes == sc.observer /\ k # None /\ ~TimeoutResultTask(f)
         late == k # None /\ tok[k].cancelled
     IN  /\ tok' = IF observes /\ ~late /\ b.wait # "no"
                   THEN [tok EXCEPT ![k].callbacks = @ \cup {Callback("observe", f)}] ELSE tok
         /\ IF (observes /\ late) \/ b.wait = "no"
            THEN /\ Finish(t, fr, f, Ended(IF observes /\ late THEN "exc" ELSE b.end))
                 /\ UNCHANGED <<q, sl>>
            ELSE /\ fr' = [fr EXCEPT ![f].pc = 1]
                 /\ sl' = [sl EXCEPT ![f].phase = "Pending", ![f].token = k, ![f].late = late]
                 /\ IF t = b.loop
                    THEN /\ Become(t, [op |-> "arm", frame |-> f, gate |-> Head(th[t]).gate, checked |-> FALSE])
                         /\ UNCHANGED q
                    ELSE Pop(t) /\ q' = [q EXCEPT ![b.loop] = Append(@, Callback("arm", f))]
  /\ UNCHANGED <<sc, co>>

\* await_resume, and the end of the body, which drops its observer.
LeafEnds(t, f) ==
  /\ Leaf(f) /\ Running(t, f, 1)
  /\ Finish(t, fr, f, Ended(IF sl[f].phase = "Cancelled" THEN "Cancelled" ELSE BodyOf(f).end))
  /\ tok' = [k \in Tokens |-> [tok[k] EXCEPT !.callbacks = @ \ {Callback("observe", f)}]]
  /\ UNCHANGED <<sc, q, sl, co>>

\* prepareTimedOperation links the operation to the token it had, to the caller's and to its
\* own; the first sub-task of the application just awaits.
PrepareBegins(t) ==
  /\ Wraps /\ Running(t, S(1), 0)
  /\ LET links == <<fr[Op].token, fr[Root].token, fr[S(1)].token>>
         Link(T, from) == LinkToken(T, from, Prep)
     IN  IF sc.nested THEN AwaitTask(t, fr, S(1), Op) /\ UNCHANGED tok
         ELSE /\ tok' = FoldLeft(Link, tok, links)
              /\ AwaitTask(t, [fr EXCEPT ![Op].token = Prep], S(1), Op)
  /\ UNCHANGED <<sc, q, sl, co>>

PrepareEnds(t) ==
  /\ Wraps /\ Running(t, S(1), 1)
  /\ Finish(t, DestroyFrame(fr, Op, TRUE), S(1), fr[Op].out)
  /\ tok' = [k \in Tokens |-> [tok[k] EXCEPT !.callbacks = @ \ {Callback("cancel", Prep)}]]
  /\ UNCHANGED <<sc, q, sl, co>>

-----------------------------------------------------------------------------
(* WhenAny and WhenAll *)

Racing == sc.kind \in {"any", "timeout"}

\* The wrappers are not tied to the gate of the task that awaits.
JoinNone(F) == F

\* joinChain for every wrapper, before any of them is started
JoinChain(F) == LinkChild(F, Comb, {W(i) : i \in Kids})

\* Wrappers that stay among the awaitable's members while they are launched.
LaunchedFromMembers == Comb

\* await_suspend moves the wrappers to its own locals.
LaunchedFrom == Locals

\* The token of sub-task i is linked to the one it had and to a source of the combinator.
Inject(T, i) == LinkToken(LinkToken(T, fr[S(i)].token, Lnk(i)), Src(i), Lnk(i))

\* The awaitable's constructor injects linked tokens and creates the wrappers;
\* await_suspend joins them to the chain and launches one after the other.
CombBegins(t) ==
  /\ Running(t, Comb, 0)
  /\ LET F == [f \in Frames |->
                 IF \E i \in Kids : f = W(i)
                 THEN [fr[f] EXCEPT !.st = "lazy", !.valid = TRUE, !.owner = LaunchedFrom]
                 ELSE IF \E i \in Kids : f = S(i)
                 THEN [fr[f] EXCEPT !.owner = W(f[2]), !.token = IF Racing THEN Lnk(f[2]) ELSE @]
                 ELSE fr[f]]
     IN  /\ fr' = JoinChain([F EXCEPT ![Comb].pc = 1])
         /\ tok' = IF Racing THEN FoldLeft(Inject, tok, InOrder) ELSE tok
  /\ Become(t, [op |-> "launch", frame |-> Comb, gate |-> Head(th[t]).gate, next |-> 1])
  /\ UNCHANGED <<sc, q, sl, co>>

\* wrapper.detach() for each wrapper; the awaiting frame may be gone by then.
Launch(t) ==
  /\ th[t] # <<>> /\ Head(th[t]).op = "launch"
  /\ LET i == Head(th[t]).next
     IN  IF i \notin Kids THEN Pop(t) /\ UNCHANGED fr
         ELSE /\ CanLock(t, fr[W(i)].gate)
              /\ fr' = [fr EXCEPT ![W(i)].st = IF @ = "lazy" THEN "live" ELSE @,
                                 ![W(i)].detached = TRUE, ![W(i)].owner = None]
              /\ th' = [th EXCEPT ![t] = <<Activation("run", W(i), fr[W(i)].gate),
                                           [Head(@) EXCEPT !.next = i + 1]>> \o Tail(@)]
  /\ UNCHANGED <<sc, q, sl, tok, co>>

WrapperBegins(t, i) ==
  /\ Running(t, W(i), 0)
  /\ AwaitTask(t, fr, W(i), S(i))
  /\ UNCHANGED <<sc, q, sl, tok, co>>

\* A tryWin that lets a later sub-task win as well.
TryWinAlways(i) == TRUE

TryWin(i) == ~co.done

CancelLosers(i) ==
  LET losers == SelectSeq(InOrder, LAMBDA j : j # i)
  IN  [k \in DOMAIN losers |-> Callback("cancel", Src(losers[k]))]

\* The sub-task is over.  The first one to end wins and cancels the others.
WrapperWins(t, i) ==
  /\ Racing /\ Running(t, W(i), 1)
  /\ LET end == fr[S(i)].out.end
         F   == DestroyFrame(fr, S(i), TRUE)
         won == [co EXCEPT !.done = TRUE, !.winner = i, !.ends[i] = end, !.exc = (end = "exc")]
     IN  /\ co' = [(IF TryWin(i) THEN won ELSE co) EXCEPT !.finished = Append(@, [kid |-> i, end |-> end])]
         /\ fr' = [F EXCEPT ![W(i)].pc = IF TryWin(i) THEN 2 ELSE 3]
         /\ IF TryWin(i)
            THEN Push(t, [op |-> "cancel", gate |-> Head(th[t]).gate, work |-> CancelLosers(i)])
            ELSE UNCHANGED th
  /\ UNCHANGED <<sc, q, sl, tok>>

ResumeParent(t, i) ==
  /\ Racing /\ Running(t, W(i), 2)
  /\ fr' = [fr EXCEPT ![W(i)].pc = 3]
  /\ Push(t, Activation("resume", Comb, None))
  /\ UNCHANGED <<sc, q, sl, tok, co>>

\* An onComplete that resumes the parent one sub-task early.
LastOneEarly == co.remaining <= 2

LastOne == co.remaining = 1

\* captureException and onComplete: the last one to end resumes the parent.
WrapperCompletes(t, i) ==
  /\ sc.kind = "all" /\ Running(t, W(i), 1)
  /\ LET end == fr[S(i)].out.end
     IN  co' = [co EXCEPT !.ends[i] = end, !.exc = @ \/ end = "exc", !.remaining = @ - 1,
                          !.finished = Append(@, [kid |-> i, end |-> end])]
  /\ fr' = [DestroyFrame(fr, S(i), TRUE) EXCEPT ![W(i)].pc = 3]
  /\ IF LastOne THEN Push(t, Activation("resume", Comb, None)) ELSE UNCHANGED th
  /\ UNCHANGED <<sc, q, sl, tok>>

WrapperEnds(t, i) ==
  /\ Running(t, W(i), 3)
  /\ Finish(t, fr, W(i), Ended("value"))
  /\ UNCHANGED <<sc, q, sl, tok, co>>

\* await_resume of the two awaitables
AnyVerdict == IF co.exc THEN Ended("exc") ELSE Result(co.ends[co.winner], co.winner, <<>>)
AllVerdict == IF co.exc THEN Ended("exc") ELSE Result("value", 0, co.ends)

CombEnds(t) ==
  /\ Running(t, Comb, 1)
  /\ Finish(t, fr, Comb, IF Racing THEN AnyVerdict ELSE AllVerdict)
  /\ UNCHANGED <<sc, q, sl, tok, co>>

-----------------------------------------------------------------------------
(* The tasks that await *)

\* The root calls the combinator, or withTimeout, which is what the root is then, builds
\* the two contestants; the sub-tasks move into the new frames.
RootBegins(t) ==
  /\ Running(t, Root, 0)
  /\ LET made(f) == f = Comb \/ (sc.kind = "timeout" /\ \E i \in Kids : f = S(i))
         F == [f \in Frames |->
                 CASE made(f) -> [fr[f] EXCEPT !.st = "lazy", !.valid = TRUE,
                                    !.owner = IF f = Comb THEN Root ELSE Comb,
                                    !.token = IF f = S(2) THEN fr[Root].token ELSE @]
                   [] ~made(f) /\ fr[f].owner = Root ->
                        [fr[f] EXCEPT !.owner = IF f = Op THEN S(1) ELSE Comb]
                   [] OTHER -> fr[f]]
     IN  IF sc.kind = "chain" THEN AwaitTask(t, fr, Root, S(1)) ELSE AwaitTask(t, F, Root, Comb)
  /\ UNCHANGED <<sc, q, sl, tok, co>>

RootEnds(t) ==
  /\ Running(t, Root, 1)
  /\ LET c == IF sc.kind = "chain" THEN S(1) ELSE Comb
     IN  Finish(t, DestroyFrame(fr, c, TRUE), Root, fr[c].out)
  /\ UNCHANGED <<sc, q, sl, tok, co>>

OuterBegins(t) ==
  /\ Running(t, Outer, 0)
  /\ AwaitTask(t, fr, Outer, Root)
  /\ UNCHANGED <<sc, q, sl, tok, co>>

OuterEnds(t) ==
  /\ Running(t, Outer, 1)
  /\ Finish(t, DestroyFrame(fr, Root, TRUE), Outer, fr[Root].out)
  /\ UNCHANGED <<sc, q, sl, tok, co>>

-----------------------------------------------------------------------------

Runs(t) ==
  /\ th[t] # <<>>
  /\ \/ OuterBegins(t) \/ OuterEnds(t) \/ RootBegins(t) \/ RootEnds(t)
     \/ CombBegins(t) \/ Launch(t) \/ CombEnds(t) \/ PrepareBegins(t) \/ PrepareEnds(t)
     \/ \E i \in Kids : \/ WrapperBegins(t, i) \/ WrapperWins(t, i) \/ ResumeParent(t, i)
                        \/ WrapperCompletes(t, i) \/ WrapperEnds(t, i)
     \/ \E f \in {Op} \cup {S(i) : i \in Kids} : LeafBegins(t, f) \/ LeafEnds(t, f)
     \/ ResumeStep(t) \/ CancelStep(t) \/ ArmCheck(t) \/ ArmRegister(t)

Starts(t) == StartEarly(t) \/ StartRoot(t) \/ StartOuter(t)
LoopStep(l) == RunFunctor(l) \/ Fire(l)

Next ==
  \/ \E t \in Threads : Runs(t) \/ Starts(t) \/ DestroyTop(t) \/ DetachTop(t) \/ CancelCaller(t)
  \/ \E l \in Loops : LoopStep(l)

Spec == Init /\ [][Next]_vars

\* Every behaviour is finite, so it is enough that some thread that can go on does, be it
\* in a body, at the start of the task or in a loop that has work.  Nobody has to destroy
\* the task or to cancel its token.
Progress ==
  \/ \E t \in Threads : Runs(t) \/ Starts(t)
  \/ \E l \in Loops : LoopStep(l)

FairSpec == Spec /\ WF_vars(Progress)

-----------------------------------------------------------------------------
(* Properties *)

\* Nobody runs a frame that was destroyed or has ended, no frame is destroyed twice, and
\* destroyFrame never meets an executing chain (Task.h:40-54; ResumeHandle.h:55-88).
FramesSafe ==
  /\ TypeOK
  /\ \A t \in Threads : \A k \in DOMAIN th[t] :
       th[t][k].op = "run" => fr[th[t][k].frame].st = "live"
  /\ \A f \in Frames : fr[f].deaths <= 1

Executing(t) == {th[t][k].frame : k \in {j \in DOMAIN th[t] : th[t][j].op \in {"run", "launch"}}}

\* The bodies of one tree, combinator wrappers and losers included, never run on two
\* threads at a time: they share one gate, and adoption moves all of it to the new parent's.
\* Only a parent whose child was over before it asked has nothing to do with what the child
\* left running (ResumeHandle.h:31-42; Task.h:293-300; WhenAny.h joinChain).
TreeSerialized ==
  \A t, u \in Threads : t # u =>
    \A f \in Executing(t), g \in Executing(u) : Outer \in {f, g} /\ fr[Root].cont = None

\* What is delivered is honest: whoever won, every other sub-task has been told to stop, a
\* time-out means that the timer ran out, and a cancellation that the caller asked for it
\* (WhenAny.h:66-76, 118-141; Timeout.h:46-88).
VerdictHonest ==
  LET out == fr[Comb].out
  IN  Racing /\ out # NoResult =>
        /\ \A i \in Kids \ {co.winner} : tok[Src(i)].cancelled
        /\ out.end = "Cancelled" => tok[Ext].cancelled
        /\ out.end = "TimedOut" => sl[S(2)].phase = "Expired"

\* A sleep is resumed at most once, leaves neither timer nor registration behind, does not
\* expire if its token was cancelled before, and while it is pending its completion is on
\* the way (SleepAwaitable.h:63-101, 123-145).
SleepSettled ==
  \A f \in Frames :
    /\ sl[f].resumes <= 1
    /\ sl[f].late => sl[f].phase # "Expired"
    /\ sl[f].phase # "Pending" =>
         ~sl[f].timer /\ \A k \in Tokens : Callback("post", f) \notin tok[k].callbacks
    /\ sl[f].phase = "Pending" =>
         \/ sl[f].timer
         \/ \E l \in Loops : \E k \in DOMAIN q[l] : q[l][k].to = f
         \/ \E t \in Threads : \E k \in DOMAIN th[t] : th[t][k].op = "arm" /\ th[t][k].frame = f

\* The combinator delivers what Combinator promises.
Promise == INSTANCE Combinator WITH
  Ends <- {"value", "exc", "Cancelled", "TimedOut"},
  size <- Len(sc.body),
  kind <- IF Racing THEN "any" ELSE "all",
  observed <- sc.observer,
  finished <- co.finished,
  delivered <- fr[Comb].out,
  abandoned <- fr[Comb].out = NoResult /\ fr[Comb].st = "destroyed"

\* Through threads, gates and destruction, the frames above show the awaiting task exactly
\* the result the abstract combinator allows, once (WhenAny.h, WhenAll.h).
ImplementsCombinator == Promise!Spec

\* The task ends or is destroyed, and every frame that no Task object holds is released: the
\* task itself if it was detached, before or after its end, losers, once they are cancelled,
\* and sub-tasks whose parent is gone (Task.h:65-85, 228-245).
FramesReleased ==
  <>[](/\ fr[Top].st = "destroyed" \/ (fr[Top].st = "done" /\ ~fr[Top].detached)
       /\ \A f \in Frames \ {Top} : fr[f].st \in {"none", "destroyed"})
=============================================================================
