---------------------------- MODULE MCTcpClient ----------------------------
EXTENDS TcpClient

\* A fixed address that is retried, a host name whose addresses are tried in turn, and TLS.
MCSetups == {[fixed |-> TRUE, attempts |-> TRUE, reconnect |-> FALSE, timeout |-> TRUE, tls |-> FALSE],
             [fixed |-> FALSE, attempts |-> FALSE, reconnect |-> TRUE, timeout |-> TRUE, tls |-> FALSE],
             [fixed |-> TRUE, attempts |-> FALSE, reconnect |-> TRUE, timeout |-> FALSE, tls |-> TRUE]}
=============================================================================
