--------------------------- MODULE MCCoroutineTree ---------------------------
(* Small instances of CoroutineTree for TLC. *)
EXTENDS CoroutineTree

CONSTANTS A, B, Main

Sleep(l, end)   == [wait |-> "timer", loop |-> l, end |-> end]
Forever(l)      == [wait |-> "forever", loop |-> l, end |-> "value"]
Ready(end)      == [wait |-> "no", loop |-> A, end |-> end]

Plain == [kind |-> "any", body |-> <<Sleep(A, "value"), Sleep(B, "value")>>, token |-> {},
          cancels |-> None, observer |-> FALSE, early |-> {}, nested |-> FALSE,
          starter |-> Main, detach |-> FALSE, adopt |-> FALSE, destroyer |-> None, release |-> "destroy"]

\* Results that come at once, in turn on one loop, or from two loops at a time.
Pairs   == {<<Sleep(A, "value"), Sleep(B, "exc")>>, <<Ready("value"), Sleep(B, "value")>>,
            <<Sleep(A, "exc"), Ready("exc")>>}
Triples == {<<Sleep(A, "value"), Sleep(B, "exc"), Sleep(A, "value")>>,
            <<Sleep(B, "value"), Ready("value"), Sleep(A, "exc")>>}

\* Who owns the task in the end: it is detached, kept, destroyed by some thread, or detached
\* by one some time after its start.
Kept(s)      == {[s EXCEPT !.detach = TRUE], s, [s EXCEPT !.destroyer = Main],
                 [s EXCEPT !.destroyer = A], [s EXCEPT !.destroyer = Main, !.release = "detach"]}

Combinations == UNION {Kept([Plain EXCEPT !.kind = k, !.body = b, !.starter = t]) :
                         k \in {"any", "all"}, b \in Pairs, t \in {Main, A}}
Larger == {[Plain EXCEPT !.kind = k, !.body = b, !.destroyer = Main] : k \in {"any", "all"}, b \in Triples}

\* The caller cancels, or an observer throws.
Cancels == {[Plain EXCEPT !.kind = k, !.body = b, !.token = {1}, !.cancels = t, !.observer = o] :
              k \in {"any", "all"}, b \in {<<Sleep(A, "value"), Sleep(B, "value")>>},
              t \in {Main, B}, o \in BOOLEAN}

\* withTimeout around an operation that never ends by itself, does, or has ended.
Operations == {Forever(A), Sleep(A, "value"), Ready("exc")}
Timeouts == UNION {Kept([Plain EXCEPT !.kind = "timeout", !.body = <<o, Sleep(l, "TimedOut")>>]) :
                     o \in Operations, l \in {A, B}}
            \cup {[Plain EXCEPT !.kind = "timeout", !.body = <<o, Sleep(IF t = B THEN A ELSE B, "TimedOut")>>,
                                !.token = k, !.cancels = t, !.observer = (t = B)] :
                    o \in Operations, k \in {{1}, {2}, {1, 2}}, t \in {Main, B}}

\* A task that awaits another one, destroyed or cancelled while it sleeps.
Chains == UNION {Kept([Plain EXCEPT !.kind = "chain", !.token = {1}, !.cancels = t, !.adopt = a]) :
                   t \in {Main, B}, a \in BOOLEAN}
Adopted == {[Plain EXCEPT !.kind = k, !.body = b, !.adopt = TRUE, !.destroyer = d, !.starter = t] :
              k \in {"any", "all"}, b \in Pairs, d \in {Main, None}, t \in {Main, A}}

\* The first sub-task was started before, and may have ended.
Early == {[Plain EXCEPT !.kind = k, !.body = <<Sleep(A, "value"), Sleep(l, "exc")>>, !.early = {1},
                        !.starter = A, !.token = {1}, !.cancels = IF d = A THEN None ELSE B,
                        !.destroyer = d] :
            k \in {"any", "all", "chain"}, l \in {A, B}, d \in {A, None}}

\* It awaits a task of its own, and while that sleeps a combinator takes both over.
Nested == UNION {Kept([Plain EXCEPT !.kind = k, !.body = <<Sleep(A, "value"), b>>, !.nested = TRUE,
                                    !.early = e, !.starter = A]) :
                   k \in {"any", "all"}, b \in {Sleep(B, "value"), Ready("exc")}, e \in {{}, {1}}}

MCScenarios == Nested \cup Early \cup Combinations \cup Larger \cup Cancels \cup Timeouts \cup Chains \cup Adopted
==============================================================================
