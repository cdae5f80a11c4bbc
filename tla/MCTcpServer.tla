---------------------------- MODULE MCTcpServer ----------------------------
EXTENDS TcpServer

CONSTANTS w1, w2
\* No worker, one, or two.
MCPools == {<<>>, <<w1>>, <<w1, w2>>}
=============================================================================
