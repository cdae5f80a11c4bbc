---------------------------- MODULE PacketFramer ----------------------------
(***************************************************************************)
(* net/framing/PacketFramer.cc and .h: a frame is a header of five numbers,*)
(* most significant byte first, and the payload whose length is one of     *)
(* them.                                                                   *)
(***************************************************************************)
EXTENDS Naturals, Sequences, SequencesExt

CONSTANTS
  Base,           \* values of a byte
  W16, W32,       \* bytes of a uint16_t and of a uint32_t
  expectedMagic_,
  maxPayload_

ASSUME FieldsHoldBytes == Base \in Nat \ {0, 1} /\ W16 \in Nat \ {0} /\ W32 \in Nat \ {0}

kFrameHeaderSize == W16 + W32 + W32 + W16 + W32

\* appendUint16 and appendUint32, readUint16 and readUint32
Uint(width, value) == [i \in 1..width |-> (value \div Base^(width - i)) % Base]
ReadUint(bytes) ==
  LET value[n \in 0..Len(bytes)] == IF n = 0 THEN 0 ELSE value[n - 1] * Base + bytes[n]
  IN  value[Len(bytes)]

\* The bytes of a field of width w that begins after the first n.
Field(data, n, w) == ReadUint(SubSeq(data, n + 1, n + w))

ParseHeader(data) ==
  [magic      |-> Field(data, 0, W16),
   payloadLen |-> Field(data, W16, W32),
   msgId      |-> Field(data, W16 + W32, W32),
   flags      |-> Field(data, W16 + W32 + W32, W16),
   seq        |-> Field(data, W16 + W32 + W32 + W16, W32)]

EncodeFrame(header, payload, maxPayload) ==
  IF Len(payload) > maxPayload THEN <<>>
  ELSE Uint(W16, header.magic) \o Uint(W32, Len(payload)) \o Uint(W32, header.msgId)
         \o Uint(W16, header.flags) \o Uint(W32, header.seq) \o payload

DecodeStates == {"kComplete", "kNeedMore", "kInvalid", "kOverLimit"}
Undecoded(state) == [state |-> state, consumed |-> 0]
Decoded(data, header) ==
  LET total == kFrameHeaderSize + header.payloadLen
  IN  [state |-> "kComplete", consumed |-> total,
       packet |-> [header |-> header, payload |-> SubSeq(data, kFrameHeaderSize + 1, total)]]

DecodeFrame(data) ==
  IF Len(data) < kFrameHeaderSize THEN Undecoded("kNeedMore")
  ELSE LET header == ParseHeader(data)
       IN  IF header.magic # expectedMagic_ THEN Undecoded("kInvalid")
           ELSE IF header.payloadLen > maxPayload_ THEN Undecoded("kOverLimit")
           ELSE IF Len(data) < kFrameHeaderSize + header.payloadLen THEN Undecoded("kNeedMore")
           ELSE Decoded(data, header)

\* The loop of decodeBatch after at most n frames: how far it came, the packets, and the
\* state of the last decodeFrame.
Batch(data, budget) ==
  LET after[n \in 0..budget] ==
        IF n = 0 THEN [offset |-> 0, packets |-> <<>>, state |-> "kComplete"]
        ELSE LET b == after[n - 1]
                 d == DecodeFrame(SubSeq(data, b.offset + 1, Len(data)))
             IN  IF b.state # "kComplete" \/ b.offset = Len(data) THEN b
                 ELSE IF d.state # "kComplete" THEN [b EXCEPT !.state = d.state]
                 ELSE [b EXCEPT !.offset = @ + d.consumed, !.packets = Append(@, d.packet)]
  IN  after[budget]

FrameBudget(maxPackets, maxFramesPerBatch) ==
  IF maxFramesPerBatch = 0 \/ maxPackets < maxFramesPerBatch THEN maxPackets ELSE maxFramesPerBatch

BatchResult(status, b, hitLimit) ==
  [status |-> status, consumed |-> b.offset, packets |-> b.packets, hitLimit |-> hitLimit]

\* decodeBatch that reports no limit.
DecodeBatchUnlimited(data, maxPackets, maxFramesPerBatch) ==
  LET b == Batch(data, FrameBudget(maxPackets, maxFramesPerBatch))
  IN  BatchResult(IF b.state = "kComplete" /\ b.offset < Len(data) THEN "kNeedMore" ELSE b.state, b, FALSE)

DecodeBatch(data, maxPackets, maxFramesPerBatch) ==
  LET budget == FrameBudget(maxPackets, maxFramesPerBatch)
      b == Batch(data, budget)
  IN  IF b.state # "kComplete" THEN BatchResult(b.state, b, FALSE)
      ELSE IF b.offset < Len(data) THEN BatchResult("kNeedMore", b, Len(b.packets) = budget)
      ELSE BatchResult("kComplete", b, FALSE)
=============================================================================
