--------------------------- MODULE MCPacketStream ---------------------------
EXTENDS PacketStream

\* A conforming sender, one with a higher limit and one with another magic.
MCPeers == {[magic |-> 1, maxPayload |-> 2], [magic |-> 1, maxPayload |-> 3], [magic |-> 2, maxPayload |-> 2]}

\* One frame at a time, two by either limit, and without a limit of its own.
MCBatches == {<<2, 1>>, <<2, 2>>, <<2, 0>>, <<3, 2>>}

\* The frames of the runs have fields of one byte; this is about the wider ones.
ASSUME \A v \in 0..(Base^3 - 1) : ReadUint(Uint(3, v)) = v
=============================================================================
