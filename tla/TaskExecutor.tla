---------------------------- MODULE TaskExecutor ----------------------------
(***************************************************************************)
(* What an EventLoop promises to the code that posts work to it: the       *)
(* contract of intents/modules/loop_handle.intent.md and event_loop.intent *)
(* without threads, locks, polling or wakeups.                             *)
(***************************************************************************)
EXTENDS Sequences

CONSTANT Tasks

VARIABLES queue,     \* submitted and not yet run, oldest first
          done,      \* run, in order
          open,      \* a handle still accepts tasks
          promised   \* tasks a handle has accepted

vars == <<queue, done, open, promised>>

Init == queue = <<>> /\ done = <<>> /\ open = TRUE /\ promised = {}

\* Work posted through a raw pointer: nothing is promised about it.
Submit(f) ==
  /\ queue' = Append(queue, f)
  /\ UNCHANGED <<done, open, promised>>

\* Work posted through a handle is accepted only while the executor is open.
Accept(f) ==
  /\ open
  /\ queue' = Append(queue, f)
  /\ promised' = promised \cup {f}
  /\ UNCHANGED <<done, open>>

Run ==
  /\ queue # <<>>
  /\ done' = Append(done, Head(queue))
  /\ queue' = Tail(queue)
  /\ UNCHANGED <<open, promised>>

\* The executor stops accepting work when it has none left.
Close ==
  /\ queue = <<>>
  /\ open' = FALSE
  /\ UNCHANGED <<queue, done, promised>>

\* An executor that never ran a task is abandoned; one that is closed discards what
\* raw posters left behind.
Abandon ==
  /\ done = <<>>
  /\ open' = FALSE
  /\ UNCHANGED <<queue, done, promised>>

Discard ==
  /\ ~open
  /\ queue' = <<>>
  /\ UNCHANGED <<done, open, promised>>

Next ==
  \/ \E f \in Tasks : Submit(f) \/ Accept(f)
  \/ Run \/ Close \/ Abandon \/ Discard

Spec == Init /\ [][Next]_vars
=============================================================================
