-------------------------- MODULE MCTcpConnection --------------------------
(* Small instances of TcpConnection for TLC. *)
EXTENDS TcpConnection, TLC

\* A connection without coroutines, under backpressure, that its server removes or stops.
Plain == [tls |-> FALSE, awaits |-> {}, remoteShutdown |-> FALSE, teardowns |-> {"stop", "remove"},
          policies |-> {<<0, 0>>, <<3, 1>>}, input |-> 1, calls |-> 2]
Async == [Plain EXCEPT !.policies = {<<0, 0>>}, !.teardowns = {"stop", "remove", "destroy"}]

\* Next to it connections with two readers, with a writer and a close waiter, and a TLS
\* connection with a writer under backpressure.
MCSetups == {Plain,
             [Async EXCEPT !.awaits = ReadWaiters, !.input = 2, !.teardowns = {"remove", "destroy"}],
             [Async EXCEPT !.awaits = WriteWaiters \cup CloseWaiters, !.input = 0],
             [Async EXCEPT !.tls = TRUE, !.awaits = WriteWaiters, !.policies = {<<3, 1>>}]}

\* A plain connection that another thread shuts down.
ShutdownSetups == {[Plain EXCEPT !.remoteShutdown = TRUE, !.policies = {<<0, 0>>}]}

\* No definition distinguishes one reader from another.
Symmetry == Permutations(ReadWaiters)
============================================================================
