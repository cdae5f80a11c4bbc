---------------------------- MODULE PacketStream ----------------------------
(***************************************************************************)
(* A stream of frames between two applications: the sender encodes frames  *)
(* (PacketFramer) and appends them to its output Buffer, write and readv   *)
(* carry any number of bytes at a time, and the receiver decodes batches   *)
(* from its input Buffer and retrieves what a batch consumed, again while  *)
(* the batch hit its limit.                                                *)
(***************************************************************************)
EXTENDS Buffer, PacketFramer

CONSTANTS
  Peers,              \* the framers the sender may have: [magic, maxPayload]
  Lengths,            \* of payloads
  MaxFrames,          \* frames the sender sends
  MaxWire,            \* bytes in the sockets' buffers
  Batches             \* how the receiver may call decodeBatch: <<maxPackets, maxFramesPerBatch>>

ASSUME BatchesTakeFrames == Batches \subseteq (Nat \ {0}) \X Nat

VARIABLES
  peer,      \* the sender's framer
  sent,      \* packets sent
  out,       \* the sender's output Buffer
  wire,      \* bytes between the sockets
  in,        \* the receiver's input Buffer
  got,       \* packets decoded
  receiver   \* waiting for bytes, decoding, or closed after a bad frame

vars == <<peer, sent, out, wire, in, got, receiver>>

\* The indices of a Buffer enclose its readable bytes and keep the prepend space.
Consistent(b) ==
  /\ kCheapPrepend <= b.readerIndex /\ b.readerIndex <= b.writerIndex /\ b.writerIndex <= Len(b.buffer)
  /\ Range(b.buffer) \subseteq 0..(Base - 1)

\* Types, and the consistency of both Buffers.
TypeOK ==
  /\ peer \in Peers /\ Consistent(out) /\ Consistent(in)
  /\ Len(sent) <= MaxFrames /\ Len(wire) <= MaxWire
  /\ receiver \in {"waiting", "decoding", "closed"}

Init ==
  /\ peer \in Peers
  /\ sent = <<>> /\ wire = <<>> /\ got = <<>>
  /\ out = EmptyBuffer /\ in = EmptyBuffer
  /\ receiver = "waiting"

\* The n-th packet, with a payload of length len.
PacketOf(n, len) ==
  [header |-> [magic |-> peer.magic, payloadLen |-> len, msgId |-> n, flags |-> n % Base^W16, seq |-> n + 1],
   payload |-> [i \in 1..len |-> (n + i) % Base]]

\* PacketFramer::encode, and append to the output; nothing is sent when the payload is too long.
SendFrame ==
  /\ Len(sent) < MaxFrames
  /\ \E len \in Lengths :
       LET p == PacketOf(Len(sent) + 1, len)
           frame == EncodeFrame(p.header, p.payload, peer.maxPayload)
       IN  /\ frame # <<>>
           /\ out' = AppendData(out, frame)
           /\ sent' = Append(sent, p)
  /\ UNCHANGED <<peer, wire, in, got, receiver>>

\* writeFd takes n bytes, which are retrieved.
WriteOut ==
  /\ \E n \in 1..ReadableBytes(out) :
       /\ Len(wire) + n <= MaxWire
       /\ wire' = wire \o SubSeq(Readable(out), 1, n)
       /\ out' = Retrieve(out, n)
  /\ UNCHANGED <<peer, sent, in, got, receiver>>

ReadIn ==
  /\ receiver = "waiting"
  /\ \E n \in 1..Len(wire) :
       /\ n <= ReadvSize(in)
       /\ in' = ReadFd(in, SubSeq(wire, 1, n))
       /\ wire' = SubSeq(wire, n + 1, Len(wire))
  /\ receiver' = "decoding"
  /\ UNCHANGED <<peer, sent, out, got>>

Decode ==
  /\ receiver = "decoding"
  /\ \E r \in {DecodeBatch(Readable(in), b[1], b[2]) : b \in Batches} :
       /\ got' = got \o r.packets
       /\ in' = Retrieve(in, r.consumed)
       /\ receiver' = IF r.status \in {"kInvalid", "kOverLimit"} THEN "closed"
                      ELSE IF r.hitLimit THEN "decoding" ELSE "waiting"
  /\ UNCHANGED <<peer, sent, out, wire>>

Next == SendFrame \/ WriteOut \/ ReadIn \/ Decode
Spec == Init /\ [][Next]_vars

-----------------------------------------------------------------------------
(* Properties *)

BytesOf(packets) ==
  FlattenSeq([i \in 1..Len(packets) |-> EncodeFrame(packets[i].header, packets[i].payload, Len(packets[i].payload))])

\* What has been decoded, the input, the wire and the output together are the bytes of the
\* packets sent: growing, moving, the scattered read and the partial retrieves of Buffer lose,
\* repeat and reorder nothing.  And however they are cut into reads and batches, the receiver
\* decodes the packets that were sent, in their order and with every field of their headers.
StreamIntact ==
  /\ TypeOK
  /\ BytesOf(sent) = BytesOf(got) \o Readable(in) \o wire \o Readable(out)
  /\ IsPrefix(got, sent)

\* The receiver stops decoding only for a reason.  It goes back to waiting when the input has
\* no complete frame, a batch that leaves one behind saying so with hitLimit; and it refuses
\* only a frame with another magic or with a payload over the limit.
NoFrameLeftBehind ==
  /\ receiver = "waiting" /\ Len(got) < Len(sent) =>
       ReadableBytes(in) < kFrameHeaderSize + sent[Len(got) + 1].header.payloadLen
  /\ receiver = "closed" => \/ peer.magic # expectedMagic_
                            \/ sent[Len(got) + 1].header.payloadLen > maxPayload_

\* The input Buffer stays small however much is sent: it is extended by readFd only when less
\* than an extra buffer is writable, and moved to the front when that makes enough room.
InputBounded ==
  Len(in.buffer) <= kCheapPrepend + Max({kInitialSize, kFrameHeaderSize + maxPayload_ + 3 * ExtraSize - 3})
=============================================================================
