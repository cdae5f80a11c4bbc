----------------------------- MODULE DnsResolver -----------------------------
(***************************************************************************)
(* A coroutine awaits a host name: coroutine/ResolveAwaitable.h,           *)
(* coroutine/CancellationToken.h and net/DnsResolver.cc together.          *)
(*                                                                         *)
(* The thread that awaits, the thread that cancels, the resolver's workers *)
(* and the loop that delivers the answer run concurrently; a step is what  *)
(* one of them does under one mutex, or one access of an atomic.  The      *)
(* caller's token is linked to a cancellation source of the request, and   *)
(* that to the operation inside the resolver; each link is a callback in   *)
(* the map of a CancellationState.  A thread is a place in the code and    *)
(* what it keeps on its stack there.                                       *)
(***************************************************************************)
EXTENDS Naturals, Sequences, FiniteSets, SequencesExt

CONSTANTS
  Reqs,      \* requests; also the thread that awaits each
  Linked,    \* the requests awaited with the caller's token
  Workers,   \* the resolver's threads
  EnableCache,  \* options.enableCache
  Canceler,  \* the thread that cancels the caller's source
  Owner      \* the thread of the loop that delivers

Threads == Reqs \cup Workers \cup {Canceler, Owner}

VARIABLES
  token,     \* the caller's CancellationState: cancelled, the requests linked to it
  source,    \* for each request its lifetimeCancellation: cancelled, callback
  op,        \* for each request the ResolveOperationState; answers counts its callback's calls
  awaiter,   \* for each request the ResolveState; resumed counts resumptions
  resolver,  \* queue, stopping, and whether the cache has the host
  loop,      \* open, and the answers posted to it
  th         \* for each thread: at, and on its stack req, res, where to go back, todo

vars == <<token, source, op, awaiter, resolver, loop, th>>

None == "none"
Results == {None, "addresses", "ResolveFailed", "Cancelled"}
Places == {"new", "suspend", "register", "install", "drop", "check", "find", "done",
           "cancel", "take", "post", "queue", "unregister", "swap", "run",
           "wait", "lookup", "exited", "idle", "callback", "resume"}

TypeOK ==
  /\ token \in [cancelled : BOOLEAN, callbacks : SUBSET Reqs]
  /\ source \in [Reqs -> [cancelled : BOOLEAN, callback : BOOLEAN]]
  /\ \A r \in Reqs :
       /\ {op[r].completed, op[r].registration} \subseteq BOOLEAN /\ op[r].answers \in Nat
       /\ awaiter[r].phase \in {"Unarmed", "Pending", "Completed", "Abandoned"}
       /\ awaiter[r].result \in Results /\ awaiter[r].resumed \in Nat
  /\ IsInjective(resolver.queue) /\ Range(resolver.queue) \subseteq Reqs
  /\ {resolver.stopping, resolver.cached, loop.open} \subseteq BOOLEAN
  /\ \A i \in DOMAIN loop.posted : loop.posted[i].req \in Reqs /\ loop.posted[i].res \in Results \ {None}
  /\ \A p \in Threads : th[p].at \in Places /\ th[p].back \in Places /\ th[p].todo \subseteq Reqs

Stack(at) == [at |-> at, req |-> None, res |-> None, back |-> "done", todo |-> {}]

Init ==
  /\ token = [cancelled |-> FALSE, callbacks |-> {}]
  /\ source = [r \in Reqs |-> [cancelled |-> FALSE, callback |-> FALSE]]
  /\ op = [r \in Reqs |-> [completed |-> FALSE, registration |-> FALSE, answers |-> 0]]
  /\ awaiter = [r \in Reqs |-> [phase |-> "Unarmed", result |-> None, resumed |-> 0]]
  /\ resolver = [queue |-> <<>>, stopping |-> FALSE, cached |-> FALSE]
  /\ loop = [open |-> TRUE, posted |-> <<>>]
  /\ th = [p \in Threads |-> IF p \in Reqs THEN [Stack("new") EXCEPT !.req = p]
                             ELSE Stack(IF p \in Workers THEN "wait" ELSE IF p = Owner THEN "idle" ELSE "new")]

At(p, place) == th[p].at = place
\* Where a thread's stack holds nothing of an operation.
Resting == {"suspend", "check", "done", "run", "wait", "exited", "idle"}
Goto(p, place) ==
  th' = [th EXCEPT ![p] = IF place \in Resting
                          THEN [Stack(place) EXCEPT !.req = IF p \in Reqs THEN p ELSE None, !.todo = th[p].todo]
                          ELSE [@ EXCEPT !.at = place]]
\* Calls of source.cancel() and of operation->post(res), which return to back.
CallCancel(p, r, back) == th' = [th EXCEPT ![p].at = "cancel", ![p].req = r, ![p].back = back]
CallPost(p, res, back) == th' = [th EXCEPT ![p].at = "post", ![p].res = res, ![p].back = back]

-----------------------------------------------------------------------------
(* CancellationToken.h: CancellationSource::cancel on the source of a request *)

Cancel(p) ==
  /\ At(p, "cancel")
  /\ LET r == th[p].req
     IN  /\ source' = [source EXCEPT ![r].cancelled = TRUE]
         /\ Goto(p, IF source[r].cancelled THEN th[p].back ELSE "take")
  /\ UNCHANGED <<token, op, awaiter, resolver, loop>>

\* The callbacks are swapped out under the mutex and called after it.
TakeCallbacks(p) ==
  /\ At(p, "take")
  /\ source' = [source EXCEPT ![th[p].req].callback = FALSE]
  /\ IF source[th[p].req].callback THEN CallPost(p, "Cancelled", th[p].back) ELSE Goto(p, th[p].back)
  /\ UNCHANGED <<token, op, awaiter, resolver, loop>>

\* The caller's source is canceled.
CancelToken ==
  /\ At(Canceler, "new")
  /\ token' = [token EXCEPT !.cancelled = TRUE]
  /\ Goto(Canceler, "swap")
  /\ UNCHANGED <<source, op, awaiter, resolver, loop>>

SwapLinks ==
  /\ At(Canceler, "swap")
  /\ token' = [token EXCEPT !.callbacks = {}]
  /\ th' = [th EXCEPT ![Canceler].at = "run", ![Canceler].todo = token.callbacks]
  /\ UNCHANGED <<source, op, awaiter, resolver, loop>>

RunLink ==
  /\ At(Canceler, "run")
  /\ \/ \E r \in th[Canceler].todo :
          th' = [th EXCEPT ![Canceler] = [@ EXCEPT !.at = "cancel", !.req = r, !.back = "run", !.todo = @ \ {r}]]
     \/ th[Canceler].todo = {} /\ Goto(Canceler, "done")
  /\ UNCHANGED <<token, source, op, awaiter, resolver, loop>>

-----------------------------------------------------------------------------
(* DnsResolver.cc: ResolveOperationState *)

\* Thread p goes on with the answer a at the place next, after the registration is released.
TakesOver(p, a, next) ==
  /\ op' = [op EXCEPT ![a.req].completed = TRUE, ![a.req].registration = FALSE]
  /\ th' = [th EXCEPT ![p] = [@ EXCEPT !.req = a.req, !.res = a.res, !.back = next,
                                       !.at = IF op[a.req].registration THEN "unregister" ELSE next]]

\* takeCallback without the exchange of completed.
TakeAgain(p, a, next, lost) == TakesOver(p, a, next)

\* takeCallback by thread p, which goes on at next if it got the callback and at lost if
\* somebody else did.
Take(p, a, next, lost) ==
  IF op[a.req].completed THEN Goto(p, lost) /\ UNCHANGED op ELSE TakesOver(p, a, next)

\* finishedRegistration.reset()
Unregister(p) ==
  /\ At(p, "unregister")
  /\ source' = [source EXCEPT ![th[p].req].callback = FALSE]
  /\ Goto(p, th[p].back)
  /\ UNCHANGED <<token, op, awaiter, resolver, loop>>

\* post: a look at completed, and then the queue of the loop.
Post(p) ==
  /\ At(p, "post")
  /\ Goto(p, IF op[th[p].req].completed THEN th[p].back ELSE "queue")
  /\ UNCHANGED <<token, source, op, awaiter, resolver, loop>>

QueueAnswer(p) ==
  /\ At(p, "queue")
  /\ IF loop.open
     THEN /\ loop' = [loop EXCEPT !.posted = Append(@, [req |-> th[p].req, res |-> th[p].res])]
          /\ Goto(p, th[p].back) /\ UNCHANGED op
     ELSE Take(p, th[p], th[p].back, th[p].back) /\ UNCHANGED loop
  /\ UNCHANGED <<token, source, awaiter, resolver>>

-----------------------------------------------------------------------------
(* ResolveAwaitable::await_suspend and DnsResolver::resolve on thread r *)

\* registerCallback without a look at cancelled under the mutex.
LinkBlind(r) ==
  /\ At(r, "new") /\ ~resolver.stopping
  /\ token' = [token EXCEPT !.callbacks = @ \cup ({r} \cap Linked)]
  /\ Goto(r, "suspend")
  /\ UNCHANGED <<source, op, awaiter, resolver, loop>>

\* The caller's token, if there is one, is linked to the source of the request; a token
\* that is already canceled cancels the source at once.
Link(r) ==
  /\ At(r, "new") /\ ~resolver.stopping
  /\ IF r \in Linked /\ token.cancelled THEN CallCancel(r, r, "suspend") /\ UNCHANGED token
     ELSE Goto(r, "suspend") /\ token' = [token EXCEPT !.callbacks = @ \cup ({r} \cap Linked)]
  /\ UNCHANGED <<source, op, awaiter, resolver, loop>>

\* The phase is set, and resolve() looks at the source.
Suspend(r) ==
  /\ At(r, "suspend")
  /\ awaiter' = [awaiter EXCEPT ![r].phase = "Pending"]
  /\ IF source[r].cancelled THEN CallPost(r, "Cancelled", "done") ELSE Goto(r, "register")
  /\ UNCHANGED <<token, source, op, resolver, loop>>

\* token.registerCallback
RegisterCallback(r) ==
  /\ At(r, "register")
  /\ IF source[r].cancelled THEN CallPost(r, "Cancelled", "check") /\ UNCHANGED source
     ELSE Goto(r, "install") /\ source' = [source EXCEPT ![r].callback = TRUE]
  /\ UNCHANGED <<token, op, awaiter, resolver, loop>>

InstallRegistration(r) ==
  /\ At(r, "install")
  /\ IF op[r].completed THEN Goto(r, "drop") /\ UNCHANGED op
     ELSE op' = [op EXCEPT ![r].registration = TRUE] /\ Goto(r, "check")
  /\ UNCHANGED <<token, source, awaiter, resolver, loop>>

\* The registration that was not installed is destroyed.
DropRegistration(r) ==
  /\ At(r, "drop")
  /\ source' = [source EXCEPT ![r].callback = FALSE]
  /\ Goto(r, "check")
  /\ UNCHANGED <<token, op, awaiter, resolver, loop>>

CheckCompleted(r) ==
  /\ At(r, "check")
  /\ Goto(r, IF op[r].completed THEN "done" ELSE "find")
  /\ UNCHANGED <<token, source, op, awaiter, resolver, loop>>

\* A hit in the cache is posted; otherwise the request is queued for the workers.
FindOrEnqueue(r) ==
  /\ At(r, "find")
  /\ IF EnableCache /\ resolver.cached
     THEN CallPost(r, "addresses", "done") /\ UNCHANGED resolver
     ELSE resolver' = [resolver EXCEPT !.queue = Append(@, r)] /\ Goto(r, "done")
  /\ UNCHANGED <<token, source, op, awaiter, loop>>

-----------------------------------------------------------------------------
(* DnsResolver::workerThread *)

\* A worker takes the next request, and starts its lookup unless it has completed.
Pops(w) ==
  /\ resolver.queue # <<>>
  /\ resolver' = [resolver EXCEPT !.queue = Tail(@)]
  /\ IF op[Head(resolver.queue)].completed THEN Goto(w, "wait")
     ELSE th' = [th EXCEPT ![w].at = "lookup", ![w].req = Head(resolver.queue)]

TakeRequest(w) ==
  /\ At(w, "wait")
  /\ \/ resolver.stopping /\ resolver.queue = <<>> /\ Goto(w, "exited") /\ UNCHANGED resolver
     \/ Pops(w)
  /\ UNCHANGED <<token, source, op, awaiter, loop>>

\* getaddrinfo returns, and addresses go to the cache.
Lookup(w) ==
  /\ At(w, "lookup")
  /\ \E res \in {"addresses", "ResolveFailed"} :
       /\ resolver' = [resolver EXCEPT !.cached = @ \/ (EnableCache /\ res = "addresses")]
       /\ CallPost(w, res, "wait")
  /\ UNCHANGED <<token, source, op, awaiter, loop>>

\* ~DnsResolver, when nobody is in resolve(): the join is the exit of the workers.
DestroyResolver ==
  /\ ~resolver.stopping /\ \A r \in Reqs : th[r].at \in {"new", "done"}
  /\ resolver' = [resolver EXCEPT !.stopping = TRUE]
  /\ UNCHANGED <<token, source, op, awaiter, loop, th>>

\* clearCache, or the entry expires
ClearCache ==
  /\ resolver.cached
  /\ resolver' = [resolver EXCEPT !.cached = FALSE]
  /\ UNCHANGED <<token, source, op, awaiter, loop, th>>

-----------------------------------------------------------------------------
(* The owner thread *)

\* The posted functor: deliver
Deliver ==
  /\ At(Owner, "idle") /\ loop.posted # <<>>
  /\ loop' = [loop EXCEPT !.posted = Tail(@)]
  /\ Take(Owner, Head(loop.posted), "callback", "idle")
  /\ UNCHANGED <<token, source, awaiter, resolver>>

\* The callback without the reset of tokenLink.
CallbackKeepsLink ==
  /\ At(Owner, "callback")
  /\ LET r == th[Owner].req
     IN  /\ op' = [op EXCEPT ![r].answers = @ + 1]
         /\ awaiter' = [awaiter EXCEPT ![r].phase = "Completed", ![r].result = th[Owner].res]
         /\ Goto(Owner, "resume")
  /\ UNCHANGED <<token, source, resolver, loop>>

\* The callback of await_suspend
Callback ==
  /\ At(Owner, "callback")
  /\ LET r == th[Owner].req
     IN  /\ op' = [op EXCEPT ![r].answers = @ + 1]
         /\ IF awaiter[r].phase = "Pending"
            THEN /\ awaiter' = [awaiter EXCEPT ![r].phase = "Completed", ![r].result = th[Owner].res]
                 /\ token' = [token EXCEPT !.callbacks = @ \ {r}]
                 /\ Goto(Owner, "resume")
            ELSE Goto(Owner, "idle") /\ UNCHANGED <<token, awaiter>>
  /\ UNCHANGED <<source, resolver, loop>>

\* ResumeHandle::resume waits at the frame's gate until await_suspend has returned.
Resume ==
  /\ At(Owner, "resume") /\ At(th[Owner].req, "done")
  /\ awaiter' = [awaiter EXCEPT ![th[Owner].req].resumed = @ + 1]
  /\ Goto(Owner, "idle")
  /\ UNCHANGED <<token, source, op, resolver, loop>>

\* The frame is destroyed while it is suspended: abandon
Abandon(r) ==
  /\ At(Owner, "idle") /\ At(r, "done") /\ awaiter[r].phase = "Pending"
  /\ awaiter' = [awaiter EXCEPT ![r].phase = "Abandoned"]
  /\ token' = [token EXCEPT !.callbacks = @ \ {r}]
  /\ CallCancel(Owner, r, "idle")
  /\ UNCHANGED <<source, op, resolver, loop>>

\* The loop drains its queue and closes.
CloseLoop ==
  /\ At(Owner, "idle") /\ loop.open /\ loop.posted = <<>>
  /\ loop' = [loop EXCEPT !.open = FALSE]
  /\ UNCHANGED <<token, source, op, awaiter, resolver, th>>

-----------------------------------------------------------------------------

Called(p) == Cancel(p) \/ TakeCallbacks(p) \/ Unregister(p) \/ Post(p) \/ QueueAnswer(p)
Await(r) ==
  \/ Suspend(r) \/ RegisterCallback(r) \/ InstallRegistration(r) \/ DropRegistration(r)
  \/ CheckCompleted(r) \/ FindOrEnqueue(r) \/ Called(r)
Work(w) == TakeRequest(w) \/ Called(w)
Canceling == SwapLinks \/ RunLink \/ Called(Canceler)
Owning == Deliver \/ Callback \/ Resume \/ Called(Owner)

Next ==
  \/ \E r \in Reqs : Link(r) \/ Await(r) \/ Abandon(r)
  \/ \E w \in Workers : Work(w) \/ Lookup(w)
  \/ CancelToken \/ Canceling \/ Owning
  \/ DestroyResolver \/ ClearCache \/ CloseLoop

Spec == Init /\ [][Next]_vars

\* Every thread goes on, but a lookup need never return.
FairSpec ==
  /\ Spec /\ WF_vars(Canceling) /\ WF_vars(Owning)
  /\ \A r \in Reqs : WF_vars(Await(r))
  /\ \A w \in Workers : WF_vars(Work(w))

-----------------------------------------------------------------------------
(* Properties *)

\* Some thread is still at work on the request, or an answer for it is on its way.
InFlight(r) ==
  \/ \E p \in Threads : th[p].req = r /\ th[p].at \notin {"wait", "exited", "done", "idle", "run"}
  \/ r \in th[Canceler].todo \/ r \in Range(resolver.queue)
  \/ \E i \in DOMAIN loop.posted : loop.posted[i].req = r

\* The answer of the worker, the cache hit, the cancellation and the destruction of the frame
\* meet in any order: the callback is called at most once, and the coroutine is resumed at
\* most once and never after its frame was destroyed.  Only a canceled token makes an await
\* end as canceled: the destruction of one frame, or of the resolver, does not cancel the
\* others.
AnsweredOnce ==
  \A r \in Reqs : /\ op[r].answers <= 1 /\ awaiter[r].resumed <= 1
                  /\ awaiter[r].phase = "Abandoned" => awaiter[r].resumed = 0
                  /\ awaiter[r].result = "Cancelled" => token.cancelled /\ r \in Linked

\* A request that nobody works on any more is over, and one that is over is forgotten.  The
\* workers leave only after the last queued request, so ~DnsResolver loses none; no await is
\* left pending while its loop is open; and nothing stays registered, not with the caller's
\* token, which may live long, and not with the request's own source, also when cancel()
\* swapped the callbacks or the operation completed between registering and installing.
NoRequestLeftOver ==
  /\ TypeOK
  /\ \A r \in Reqs : ~InFlight(r) /\ awaiter[r].phase \in {"Completed", "Abandoned"} =>
       r \notin token.callbacks /\ ~source[r].callback
  /\ (\A w \in Workers : At(w, "exited")) => resolver.queue = <<>>
  /\ loop.open => \A r \in Reqs : awaiter[r].phase = "Pending" => InFlight(r)

\* Every await ends, unless its loop closes: a canceled one without waiting for the lookup,
\* although getaddrinfo may block for ever, and any other if lookups return.
AwaitsAnswered ==
  /\ \A r \in Linked : (token.cancelled /\ awaiter[r].phase = "Pending") ~>
                         (awaiter[r].phase \in {"Completed", "Abandoned"} \/ ~loop.open)
  /\ (\A w \in Workers : []<>(~At(w, "lookup"))) =>
       \A r \in Reqs : At(r, "suspend") ~> (awaiter[r].phase \in {"Completed", "Abandoned"} \/ ~loop.open)
=============================================================================
