------------------------------- MODULE Buffer -------------------------------
(***************************************************************************)
(* net/Buffer.cc: a vector of bytes with a reader and a writer index.  The *)
(* bytes between the indices are readable, the bytes before the reader and *)
(* after the writer are free.  A Buffer is a value here: an operation maps *)
(* a Buffer to the Buffer it leaves.                                       *)
(***************************************************************************)
EXTENDS Integers, Sequences, FiniteSetsExt

CONSTANTS
  kCheapPrepend,  \* free bytes that stay before the reader
  kInitialSize,
  ExtraSize       \* sizeof(extraBuffer) in readFd

ASSUME SizesAreNatural == kCheapPrepend \in Nat /\ kInitialSize \in Nat /\ ExtraSize \in Nat

\* The vector resized to n bytes, and with as much of data as there is room for copied
\* behind its first at bytes.
Resized(v, n) == SubSeq(v, 1, Min({n, Len(v)})) \o [i \in 1..(n - Len(v)) |-> 0]
Copied(v, at, data) ==
  LET end == Min({Len(v), at + Len(data)})
  IN  SubSeq(v, 1, at) \o SubSeq(data, 1, end - at) \o SubSeq(v, end + 1, Len(v))

EmptyBuffer ==
  [buffer |-> Resized(<<>>, kCheapPrepend + kInitialSize), readerIndex |-> kCheapPrepend, writerIndex |-> kCheapPrepend]

ReadableBytes(b) == b.writerIndex - b.readerIndex
WritableBytes(b) == Len(b.buffer) - b.writerIndex
Readable(b) == SubSeq(b.buffer, b.readerIndex + 1, b.writerIndex)

RetrieveAll(b) == [b EXCEPT !.readerIndex = kCheapPrepend, !.writerIndex = kCheapPrepend]

Retrieve(b, len) ==
  IF len < ReadableBytes(b) THEN [b EXCEPT !.readerIndex = @ + len] ELSE RetrieveAll(b)

\* makeSpace that never moves the readable bytes to the front.
MakeSpaceGrows(b, len) == [b EXCEPT !.buffer = Resized(@, b.writerIndex + len)]

MakeSpace(b, len) ==
  IF WritableBytes(b) + b.readerIndex - kCheapPrepend < len
  THEN [b EXCEPT !.buffer = Resized(@, b.writerIndex + len)]
  ELSE [buffer |-> Copied(b.buffer, kCheapPrepend, Readable(b)),
        readerIndex |-> kCheapPrepend, writerIndex |-> kCheapPrepend + ReadableBytes(b)]

EnsureWritableBytes(b, len) == IF WritableBytes(b) < len THEN MakeSpace(b, len) ELSE b

AppendData(b, data) ==
  LET e == EnsureWritableBytes(b, Len(data))
  IN  [e EXCEPT !.buffer = Copied(@, e.writerIndex, data), !.writerIndex = @ + Len(data)]

\* How many bytes one readv takes at most.
ReadvSize(b) == WritableBytes(b) + (IF WritableBytes(b) < ExtraSize THEN ExtraSize ELSE 0)

\* readFd that drops what went to the extra buffer.
ReadFdTruncates(b, data) ==
  IF Len(data) <= WritableBytes(b)
  THEN [b EXCEPT !.buffer = Copied(@, b.writerIndex, data), !.writerIndex = @ + Len(data)]
  ELSE [b EXCEPT !.buffer = Copied(@, b.writerIndex, data), !.writerIndex = Len(b.buffer)]

\* readFd when readv returns data: first to the writable bytes, then to the extra buffer.
ReadFd(b, data) ==
  LET w == WritableBytes(b)
      filled == [b EXCEPT !.buffer = Copied(@, b.writerIndex, data)]
  IN  IF Len(data) <= w THEN [filled EXCEPT !.writerIndex = @ + Len(data)]
      ELSE AppendData([filled EXCEPT !.writerIndex = Len(b.buffer)], SubSeq(data, w + 1, Len(data)))
=============================================================================
