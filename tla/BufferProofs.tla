---------------------------- MODULE BufferProofs ----------------------------
(***************************************************************************)
(* What the operations of Buffer do to the readable bytes, for any sizes,  *)
(* any contents and any state of the indices.                              *)
(***************************************************************************)
EXTENDS Buffer, SequenceTheorems, TLAPS

\* A Buffer over the given bytes whose indices enclose the readable ones and keep the
\* prepend space.
Sound(b, Bytes) ==
  /\ b \in [buffer : Seq(Bytes), readerIndex : Nat, writerIndex : Nat]
  /\ kCheapPrepend <= b.readerIndex /\ b.readerIndex <= b.writerIndex
  /\ b.writerIndex <= Len(b.buffer)

-----------------------------------------------------------------------------
(* The vector *)

\* The smaller of two numbers.
LEMMA MinOfTwo ==
  ASSUME NEW m \in Int, NEW n \in Int
  PROVE  Min({m, n}) = IF m <= n THEN m ELSE n
BY DEF Min

\* Concatenation is associative.
LEMMA Associative ==
  ASSUME NEW Bytes, NEW s \in Seq(Bytes), NEW t \in Seq(Bytes), NEW u \in Seq(Bytes)
  PROVE  (s \o t) \o u = s \o (t \o u)
BY ConcatAssociative

\* A part of a sequence.
LEMMA Part ==
  ASSUME NEW Bytes, NEW s \in Seq(Bytes), NEW m \in Nat, NEW n \in Nat, n <= Len(s)
  PROVE  /\ SubSeq(s, m + 1, n) \in Seq(Bytes)
         /\ Len(SubSeq(s, m + 1, n)) = IF m <= n THEN n - m ELSE 0
         /\ \A i \in 1..(n - m) : SubSeq(s, m + 1, n)[i] = s[m + i]
<1>1. \A i \in (m + 1)..n : s[i] \in Bytes
  BY ElementOfSeq
<1>2. /\ SubSeq(s, m + 1, n) \in Seq(Bytes)
      /\ Len(SubSeq(s, m + 1, n)) = IF m + 1 <= n THEN n - (m + 1) + 1 ELSE 0
      /\ \A i \in 1..(n - (m + 1) + 1) : SubSeq(s, m + 1, n)[i] = s[(m + 1) + i - 1]
  BY <1>1, SubSeqProperties
<1>3. \A i \in 1..(n - m) : i \in 1..(n - (m + 1) + 1) /\ (m + 1) + i - 1 = m + i
  OBVIOUS
<1> QED BY <1>2, <1>3

\* vector::resize to a larger size keeps what the vector holds.
LEMMA ResizedKeeps ==
  ASSUME NEW Bytes, 0 \in Bytes, NEW v \in Seq(Bytes), NEW n \in Nat, Len(v) <= n
  PROVE  /\ Resized(v, n) \in Seq(Bytes) /\ Len(Resized(v, n)) = n
         /\ \A i \in 1..Len(v) : Resized(v, n)[i] = v[i]
<1> DEFINE zeros == [i \in 1..(n - Len(v)) |-> 0]
           old == SubSeq(v, 1, Len(v))
<1>1. Len(v) \in Nat
  BY LenProperties
<1>2. Min({n, Len(v)}) = Len(v)
  BY <1>1, MinOfTwo
<1>3. zeros \in Seq(Bytes) /\ Len(zeros) = n - Len(v)
  BY <1>1
<1>4. old \in Seq(Bytes) /\ Len(old) = Len(v) /\ \A i \in 1..Len(v) : old[i] = v[i]
  BY <1>1, Part
<1>5. Resized(v, n) = old \o zeros
  BY <1>2 DEF Resized
<1> HIDE DEF old, zeros
<1> QED BY <1>1, <1>3, <1>4, <1>5, ConcatProperties

\* memcpy of at most what there is room for.
LEMMA CopiedKeeps ==
  ASSUME NEW Bytes, NEW v \in Seq(Bytes), NEW at \in Nat, NEW data \in Seq(Bytes), at <= Len(v)
  PROVE  /\ Copied(v, at, data) \in Seq(Bytes) /\ Len(Copied(v, at, data)) = Len(v)
         /\ \A i \in 1..at : Copied(v, at, data)[i] = v[i]
         /\ \A i \in 1..Len(data) : at + i <= Len(v) => Copied(v, at, data)[at + i] = data[i]
<1> DEFINE end == Min({Len(v), at + Len(data)})
           head == SubSeq(v, 1, at)
           mid  == SubSeq(data, 1, end - at)
           tail == SubSeq(v, end + 1, Len(v))
<1>1. Len(v) \in Nat /\ Len(data) \in Nat
  BY LenProperties
<1>2. end = IF Len(v) <= at + Len(data) THEN Len(v) ELSE at + Len(data)
  BY <1>1, MinOfTwo
<1>3. end \in Nat /\ at <= end /\ end <= Len(v) /\ end - at \in Nat /\ end - at <= Len(data)
  BY <1>1, <1>2
<1>4. Copied(v, at, data) = (head \o mid) \o tail
  BY DEF Copied
<1> HIDE DEF end
<1>5. head \in Seq(Bytes) /\ Len(head) = at /\ \A i \in 1..at : head[i] = v[i]
  BY <1>1, Part
<1>6. mid \in Seq(Bytes) /\ Len(mid) = end - at /\ \A i \in 1..(end - at) : mid[i] = data[i]
  BY <1>1, <1>3, Part
<1>7. tail \in Seq(Bytes) /\ Len(tail) = Len(v) - end
  BY <1>1, <1>3, Part
<1> HIDE DEF head, mid, tail
<1> DEFINE front == head \o mid
<1>8. /\ front \in Seq(Bytes) /\ Len(front) = end
      /\ \A i \in 1..end : front[i] = IF i <= at THEN v[i] ELSE data[i - at]
  <2>1. /\ head \o mid \in Seq(Bytes) /\ Len(head \o mid) = Len(head) + Len(mid)
        /\ \A i \in 1..(Len(head) + Len(mid)) :
             (head \o mid)[i] = IF i <= Len(head) THEN head[i] ELSE mid[i - Len(head)]
    BY <1>5, <1>6, ConcatProperties
  <2>2. Len(head) = at /\ Len(head) + Len(mid) = end
    BY <1>3, <1>5, <1>6
  <2>3. /\ front \in Seq(Bytes) /\ Len(front) = end
        /\ \A i \in 1..end : front[i] = IF i <= at THEN head[i] ELSE mid[i - at]
    BY <2>1, <2>2
  <2> HIDE DEF front
  <2>4. ASSUME NEW i \in 1..end PROVE front[i] = IF i <= at THEN v[i] ELSE data[i - at]
    <3>1. CASE i <= at
      <4>1. i \in 1..at /\ front[i] = head[i]
        BY <1>3, <2>3, <3>1
      <4> QED BY <1>5, <3>1, <4>1
    <3>2. CASE ~(i <= at)
      <4>1. i - at \in 1..(end - at)
        BY <1>3, <3>2
      <4>2. front[i] = mid[i - at]
        BY <2>3, <3>2
      <4>3. mid[i - at] = data[i - at]
        BY <1>6, <4>1
      <4> QED BY <3>2, <4>2, <4>3
    <3> QED BY <3>1, <3>2
  <2> QED BY <2>3, <2>4
<1>9. Copied(v, at, data) = front \o tail
  BY <1>4
<1> HIDE DEF front
<1>10. /\ front \o tail \in Seq(Bytes) /\ Len(front \o tail) = Len(v)
       /\ \A i \in 1..end : (front \o tail)[i] = front[i]
  <2>1. /\ front \o tail \in Seq(Bytes) /\ Len(front \o tail) = Len(front) + Len(tail)
        /\ \A i \in 1..(Len(front) + Len(tail)) :
             (front \o tail)[i] = IF i <= Len(front) THEN front[i] ELSE tail[i - Len(front)]
    BY <1>7, <1>8, ConcatProperties
  <2>2. Len(front) + Len(tail) = Len(v)
    BY <1>1, <1>3, <1>7, <1>8
  <2>3. ASSUME NEW i \in 1..end PROVE (front \o tail)[i] = front[i]
    <3>1. i \in 1..(Len(front) + Len(tail)) /\ i <= Len(front)
      BY <1>1, <1>3, <1>8, <2>2
    <3> QED BY <2>1, <3>1
  <2> QED BY <2>1, <2>2, <2>3
<1>11. /\ Copied(v, at, data) \in Seq(Bytes) /\ Len(Copied(v, at, data)) = Len(v)
       /\ \A i \in 1..end : Copied(v, at, data)[i] = front[i]
  BY <1>9, <1>10
<1>12. \A i \in 1..at : Copied(v, at, data)[i] = v[i]
  BY <1>3, <1>8, <1>11
<1>13. ASSUME NEW i \in 1..Len(data), at + i <= Len(v) PROVE Copied(v, at, data)[at + i] = data[i]
  <2>1. at + i \in 1..end /\ ~(at + i <= at) /\ (at + i) - at = i
    BY <1>1, <1>2, <1>13
  <2> QED BY <1>8, <1>11, <2>1
<1> QED BY <1>12, <1>13, <1>11

-----------------------------------------------------------------------------
(* The operations *)

\* The readable bytes are the ones between the indices.
LEMMA ReadableIs ==
  ASSUME NEW Bytes, NEW b, Sound(b, Bytes)
  PROVE  /\ Readable(b) \in Seq(Bytes) /\ Len(Readable(b)) = ReadableBytes(b)
         /\ ReadableBytes(b) \in Nat /\ WritableBytes(b) \in Nat
         /\ \A i \in 1..ReadableBytes(b) : Readable(b)[i] = b.buffer[b.readerIndex + i]
<1>1. /\ b.buffer \in Seq(Bytes) /\ b.readerIndex \in Nat /\ b.writerIndex \in Nat
      /\ b.readerIndex <= b.writerIndex /\ b.writerIndex <= Len(b.buffer) /\ Len(b.buffer) \in Nat
  BY LenProperties DEF Sound
<1>2. ReadableBytes(b) \in Nat /\ WritableBytes(b) \in Nat
  BY <1>1 DEF ReadableBytes, WritableBytes
<1> DEFINE v == b.buffer
           r == b.readerIndex
           w == b.writerIndex
<1>3. ReadableBytes(b) = w - r /\ Readable(b) = SubSeq(v, r + 1, w)
  BY DEF Readable, ReadableBytes
<1>4. v \in Seq(Bytes) /\ r \in Nat /\ w \in Nat /\ r <= w /\ w <= Len(v)
  BY <1>1
<1>5. \A i \in 1..ReadableBytes(b) : b.buffer[b.readerIndex + i] = v[r + i]
  OBVIOUS
<1> HIDE DEF v, r, w
<1>6. /\ SubSeq(v, r + 1, w) \in Seq(Bytes)
      /\ Len(SubSeq(v, r + 1, w)) = IF r <= w THEN w - r ELSE 0
      /\ \A i \in 1..(w - r) : SubSeq(v, r + 1, w)[i] = v[r + i]
  BY <1>4, Part
<1> QED BY <1>2, <1>3, <1>4, <1>5, <1>6

\* Two Buffers with the same bytes at the same distance from the reader have the same
\* readable bytes.
LEMMA SameReadable ==
  ASSUME NEW Bytes, NEW b, NEW c, Sound(b, Bytes), Sound(c, Bytes),
         ReadableBytes(c) = ReadableBytes(b),
         \A i \in 1..ReadableBytes(b) : c.buffer[c.readerIndex + i] = b.buffer[b.readerIndex + i]
  PROVE  Readable(c) = Readable(b)
<1>1. /\ Readable(b) \in Seq(Bytes) /\ Len(Readable(b)) = ReadableBytes(b)
      /\ \A i \in 1..ReadableBytes(b) : Readable(b)[i] = b.buffer[b.readerIndex + i]
  BY ReadableIs
<1>2. /\ Readable(c) \in Seq(Bytes) /\ Len(Readable(c)) = ReadableBytes(c)
      /\ \A i \in 1..ReadableBytes(c) : Readable(c)[i] = c.buffer[c.readerIndex + i]
  BY ReadableIs
<1> QED BY <1>1, <1>2, SeqEqual

\* The Buffer after data was copied behind the writer and counted by hasWritten().
Written(b, data) ==
  [buffer |-> Copied(b.buffer, b.writerIndex, data), readerIndex |-> b.readerIndex,
   writerIndex |-> b.writerIndex + Len(data)]

\* What is copied behind the writer is again a vector of bytes.
LEMMA CopiedType ==
  ASSUME NEW Bytes, NEW b, Sound(b, Bytes), NEW data \in Seq(Bytes)
  PROVE  /\ Copied(b.buffer, b.writerIndex, data) \in Seq(Bytes)
         /\ b.writerIndex + Len(data) \in Nat /\ Len(b.buffer) \in Nat
<1>1. /\ b.buffer \in Seq(Bytes) /\ b.writerIndex \in Nat /\ b.writerIndex <= Len(b.buffer)
      /\ Len(b.buffer) \in Nat /\ Len(data) \in Nat
  BY LenProperties DEF Sound
<1>2. Copied(b.buffer, b.writerIndex, data) \in Seq(Bytes)
  BY <1>1, CopiedKeeps
<1> QED BY <1>1, <1>2

\* Updating the vector and the writer of a Buffer leaves the reader.
LEMMA FieldsUpdated ==
  ASSUME NEW Bytes, NEW b, Sound(b, Bytes), NEW v \in Seq(Bytes), NEW w \in Nat
  PROVE  /\ [b EXCEPT !.buffer = v, !.writerIndex = w]
             = [buffer |-> v, readerIndex |-> b.readerIndex, writerIndex |-> w]
         /\ [[b EXCEPT !.buffer = v] EXCEPT !.writerIndex = w]
             = [buffer |-> v, readerIndex |-> b.readerIndex, writerIndex |-> w]
<1>1. b \in [buffer : Seq(Bytes), readerIndex : Nat, writerIndex : Nat]
  BY DEF Sound
<1> DEFINE c == [b EXCEPT !.buffer = v]
<1>2. /\ c \in [buffer : Seq(Bytes), readerIndex : Nat, writerIndex : Nat]
      /\ c.buffer = v /\ c.readerIndex = b.readerIndex
  BY <1>1
<1> HIDE DEF c
<1>3. [c EXCEPT !.writerIndex = w]
      = [buffer |-> v, readerIndex |-> b.readerIndex, writerIndex |-> w]
  BY <1>2
<1>4. [b EXCEPT !.buffer = v, !.writerIndex = w] = [c EXCEPT !.writerIndex = w]
  BY DEF c
<1> QED BY <1>3, <1>4 DEF c

\* What is written follows the readable bytes.
LEMMA WrittenFollows ==
  ASSUME NEW Bytes, NEW b, Sound(b, Bytes), NEW data \in Seq(Bytes), Len(data) <= WritableBytes(b)
  PROVE  /\ Sound(Written(b, data), Bytes) /\ Readable(Written(b, data)) = Readable(b) \o data
         /\ Len(Written(b, data).buffer) = Len(b.buffer)
<1> DEFINE c == Written(b, data)
<1>1. /\ b.buffer \in Seq(Bytes) /\ b.readerIndex \in Nat /\ b.writerIndex \in Nat
      /\ kCheapPrepend <= b.readerIndex
      /\ b.readerIndex <= b.writerIndex /\ b.writerIndex <= Len(b.buffer) /\ Len(b.buffer) \in Nat
      /\ Len(data) \in Nat /\ b.writerIndex + Len(data) <= Len(b.buffer)
  BY LenProperties DEF Sound, WritableBytes
<1>2. c = [buffer |-> Copied(b.buffer, b.writerIndex, data), readerIndex |-> b.readerIndex,
           writerIndex |-> b.writerIndex + Len(data)]
  BY DEF Written
<1> HIDE DEF c
<1>3. /\ c.buffer \in Seq(Bytes) /\ Len(c.buffer) = Len(b.buffer)
      /\ \A i \in 1..b.writerIndex : c.buffer[i] = b.buffer[i]
      /\ \A i \in 1..Len(data) : c.buffer[b.writerIndex + i] = data[i]
  <2> DEFINE v == Copied(b.buffer, b.writerIndex, data)
  <2>1. /\ v \in Seq(Bytes) /\ Len(v) = Len(b.buffer)
        /\ \A i \in 1..b.writerIndex : v[i] = b.buffer[i]
        /\ \A i \in 1..Len(data) :
             b.writerIndex + i <= Len(b.buffer) => v[b.writerIndex + i] = data[i]
    BY <1>1, CopiedKeeps
  <2>2. c.buffer = v
    BY <1>2
  <2>3. \A i \in 1..Len(data) : b.writerIndex + i <= Len(b.buffer)
    BY <1>1
  <2> HIDE DEF v
  <2> QED BY <2>1, <2>2, <2>3
<1>4. c.readerIndex = b.readerIndex /\ c.writerIndex = b.writerIndex + Len(data)
  BY <1>2
<1>5. Sound(c, Bytes)
  BY <1>1, <1>2, <1>3, <1>4 DEF Sound
<1>6. /\ Readable(b) \in Seq(Bytes) /\ Len(Readable(b)) = ReadableBytes(b) /\ ReadableBytes(b) \in Nat
      /\ \A i \in 1..ReadableBytes(b) : Readable(b)[i] = b.buffer[b.readerIndex + i]
  BY ReadableIs
<1>7. /\ Readable(c) \in Seq(Bytes) /\ Len(Readable(c)) = ReadableBytes(c)
      /\ \A i \in 1..ReadableBytes(c) : Readable(c)[i] = c.buffer[c.readerIndex + i]
  BY <1>5, ReadableIs
<1>8. /\ ReadableBytes(c) = ReadableBytes(b) + Len(data)
      /\ b.readerIndex + ReadableBytes(b) = b.writerIndex
  BY <1>1, <1>4 DEF ReadableBytes
<1>9. /\ Readable(b) \o data \in Seq(Bytes) /\ Len(Readable(b) \o data) = ReadableBytes(b) + Len(data)
      /\ \A i \in 1..(ReadableBytes(b) + Len(data)) : (Readable(b) \o data)[i] =
            IF i <= ReadableBytes(b) THEN Readable(b)[i] ELSE data[i - ReadableBytes(b)]
  <2> DEFINE s == Readable(b)
  <2>1. s \in Seq(Bytes) /\ Len(s) = ReadableBytes(b)
    BY <1>6
  <2> HIDE DEF s
  <2>2. /\ s \o data \in Seq(Bytes) /\ Len(s \o data) = Len(s) + Len(data)
        /\ \A i \in 1..(Len(s) + Len(data)) :
             (s \o data)[i] = IF i <= Len(s) THEN s[i] ELSE data[i - Len(s)]
    BY <2>1, ConcatProperties
  <2> QED BY <2>1, <2>2 DEF s
<1>10. ASSUME NEW i \in 1..ReadableBytes(c) PROVE Readable(c)[i] = (Readable(b) \o data)[i]
  <2>1. CASE i <= ReadableBytes(b)
    <3>1. i \in 1..ReadableBytes(b) /\ b.readerIndex + i \in 1..b.writerIndex
      BY <1>1, <1>6, <1>8, <2>1
    <3> QED BY <1>3, <1>4, <1>6, <1>7, <1>8, <1>9, <2>1, <3>1
  <2>2. CASE ~(i <= ReadableBytes(b))
    <3>1. /\ i - ReadableBytes(b) \in 1..Len(data)
          /\ b.readerIndex + i = b.writerIndex + (i - ReadableBytes(b))
      BY <1>1, <1>6, <1>8, <2>2
    <3>2. Readable(c)[i] = data[i - ReadableBytes(b)]
      BY <1>3, <1>4, <1>7, <3>1
    <3> QED BY <1>8, <1>9, <2>2, <3>2
  <2> QED BY <2>1, <2>2
<1>11. Readable(c) = Readable(b) \o data
  BY <1>7, <1>8, <1>9, <1>10, SeqEqual
<1> QED BY <1>3, <1>5, <1>11 DEF c

\* makeSpace() makes the room it is asked for and leaves the readable bytes as they are,
\* whether it grows the vector or moves them to the front; it grows only when it must.
LEMMA MakeSpaceKeeps ==
  ASSUME NEW Bytes, 0 \in Bytes, NEW b, Sound(b, Bytes), NEW len \in Nat, WritableBytes(b) < len,
         NEW e, e = MakeSpace(b, len)
  PROVE  /\ Sound(e, Bytes) /\ Readable(e) = Readable(b) /\ len <= WritableBytes(e)
         /\ kCheapPrepend + ReadableBytes(b) + len <= Len(b.buffer) => Len(e.buffer) = Len(b.buffer)
<1>1. /\ b.buffer \in Seq(Bytes) /\ b.readerIndex \in Nat /\ b.writerIndex \in Nat
      /\ kCheapPrepend \in Nat /\ kCheapPrepend <= b.readerIndex
      /\ b.readerIndex <= b.writerIndex /\ b.writerIndex <= Len(b.buffer) /\ Len(b.buffer) \in Nat
      /\ Len(b.buffer) < b.writerIndex + len
  BY LenProperties, SizesAreNatural DEF Sound, WritableBytes
<1>2. /\ Readable(b) \in Seq(Bytes) /\ Len(Readable(b)) = ReadableBytes(b)
      /\ ReadableBytes(b) = b.writerIndex - b.readerIndex
      /\ \A i \in 1..ReadableBytes(b) : Readable(b)[i] = b.buffer[b.readerIndex + i]
  BY ReadableIs DEF ReadableBytes
<1>3. /\ WritableBytes(b) = Len(b.buffer) - b.writerIndex
      /\ ReadableBytes(b) = b.writerIndex - b.readerIndex
  BY DEF WritableBytes, ReadableBytes
<1>4. CASE WritableBytes(b) + b.readerIndex - kCheapPrepend < len
  <2> DEFINE n == b.writerIndex + len
             v == Resized(b.buffer, n)
  <2>1. e = [buffer |-> v, readerIndex |-> b.readerIndex, writerIndex |-> b.writerIndex]
    BY <1>4 DEF MakeSpace, Sound
  <2>2. n \in Nat /\ Len(b.buffer) <= n
    BY <1>1
  <2>3. v \in Seq(Bytes) /\ Len(v) = n /\ \A i \in 1..Len(b.buffer) : v[i] = b.buffer[i]
    <3> HIDE DEF n
    <3> QED BY <1>1, <2>2, ResizedKeeps
  <2> HIDE DEF v
  <2>4. e.buffer = v /\ e.readerIndex = b.readerIndex /\ e.writerIndex = b.writerIndex
    BY <2>1
  <2>5. Sound(e, Bytes)
    BY <1>1, <2>1, <2>3, <2>4 DEF Sound
  <2>6. ReadableBytes(e) = ReadableBytes(b)
    BY <2>4 DEF ReadableBytes
  <2>7. ASSUME NEW i \in 1..ReadableBytes(b)
        PROVE  e.buffer[e.readerIndex + i] = b.buffer[b.readerIndex + i]
    <3>1. b.readerIndex + i \in 1..Len(b.buffer)
      BY <1>1, <1>2
    <3> QED BY <2>3, <2>4, <3>1
  <2>8. Readable(e) = Readable(b)
    BY <2>5, <2>6, <2>7, SameReadable
  <2>9. len <= WritableBytes(e)
    BY <1>1, <2>3, <2>4 DEF WritableBytes
  <2>10. ~(kCheapPrepend + ReadableBytes(b) + len <= Len(b.buffer))
    BY <1>1, <1>4, <1>3
  <2> QED BY <2>5, <2>8, <2>9, <2>10
<1>5. CASE ~(WritableBytes(b) + b.readerIndex - kCheapPrepend < len)
  <2> DEFINE v == Copied(b.buffer, kCheapPrepend, Readable(b))
  <2>1. e = [buffer |-> v, readerIndex |-> kCheapPrepend,
             writerIndex |-> kCheapPrepend + ReadableBytes(b)]
    BY <1>5 DEF MakeSpace
  <2>2. /\ v \in Seq(Bytes) /\ Len(v) = Len(b.buffer)
        /\ \A i \in 1..Len(Readable(b)) :
             kCheapPrepend + i <= Len(b.buffer) => v[kCheapPrepend + i] = Readable(b)[i]
    <3> DEFINE data == Readable(b)
    <3>1. data \in Seq(Bytes) /\ kCheapPrepend <= Len(b.buffer)
      BY <1>1, <1>2
    <3> HIDE DEF data
    <3>2. /\ Copied(b.buffer, kCheapPrepend, data) \in Seq(Bytes)
          /\ Len(Copied(b.buffer, kCheapPrepend, data)) = Len(b.buffer)
          /\ \A i \in 1..Len(data) : kCheapPrepend + i <= Len(b.buffer) =>
                Copied(b.buffer, kCheapPrepend, data)[kCheapPrepend + i] = data[i]
      BY <1>1, <3>1, CopiedKeeps
    <3> QED BY <3>2 DEF data
  <2> HIDE DEF v
  <2>3. /\ e.buffer = v /\ e.readerIndex = kCheapPrepend
        /\ e.writerIndex = kCheapPrepend + ReadableBytes(b)
    BY <2>1
  <2>4. Sound(e, Bytes)
    BY <1>1, <1>2, <2>1, <2>2, <2>3 DEF Sound
  <2>5. ReadableBytes(e) = ReadableBytes(b)
    BY <1>1, <1>2, <2>3 DEF ReadableBytes
  <2>6. ASSUME NEW i \in 1..ReadableBytes(b)
        PROVE  e.buffer[e.readerIndex + i] = b.buffer[b.readerIndex + i]
    <3>1. kCheapPrepend + i <= Len(b.buffer)
      BY <1>1, <1>2
    <3> QED BY <1>2, <2>2, <2>3, <3>1
  <2>7. Readable(e) = Readable(b)
    BY <2>4, <2>5, <2>6, SameReadable
  <2>8. len <= WritableBytes(e)
    <3>1. WritableBytes(e) = Len(b.buffer) - (kCheapPrepend + ReadableBytes(b))
      BY <2>2, <2>3 DEF WritableBytes
    <3> QED BY <1>1, <1>5, <1>3, <3>1
  <2> QED BY <2>2, <2>3, <2>4, <2>7, <2>8
<1> QED BY <1>4, <1>5

\* ensureWritableBytes() makes room and leaves the readable bytes as they are.
LEMMA EnsureKeeps ==
  ASSUME NEW Bytes, 0 \in Bytes, NEW b, Sound(b, Bytes), NEW len \in Nat,
         NEW e, e = EnsureWritableBytes(b, len)
  PROVE  /\ Sound(e, Bytes) /\ Readable(e) = Readable(b) /\ len <= WritableBytes(e)
         /\ kCheapPrepend + ReadableBytes(b) + len <= Len(b.buffer) => Len(e.buffer) = Len(b.buffer)
<1>1. WritableBytes(b) \in Nat
  BY ReadableIs
<1>2. CASE WritableBytes(b) < len
  <2>1. e = MakeSpace(b, len)
    BY <1>2 DEF EnsureWritableBytes
  <2> QED BY <1>2, <2>1, MakeSpaceKeeps
<1>3. CASE ~(WritableBytes(b) < len)
  <2>1. e = b
    BY <1>3 DEF EnsureWritableBytes
  <2> QED BY <1>1, <1>3, <2>1
<1> QED BY <1>2, <1>3

-----------------------------------------------------------------------------
(* The theorems *)

\* A new Buffer has nothing to read (Buffer.cc:15-17).
THEOREM EmptyIsSound ==
  ASSUME NEW Bytes, 0 \in Bytes
  PROVE  Sound(EmptyBuffer, Bytes) /\ Readable(EmptyBuffer) = <<>>
<1> DEFINE v == Resized(<<>>, kCheapPrepend + kInitialSize)
<1>1. v \in Seq(Bytes) /\ Len(v) = kCheapPrepend + kInitialSize
  <2> DEFINE n == kCheapPrepend + kInitialSize
  <2>1. n \in Nat /\ <<>> \in Seq(Bytes) /\ Len(<<>>) <= n
    BY SizesAreNatural
  <2> HIDE DEF n
  <2>2. Resized(<<>>, n) \in Seq(Bytes) /\ Len(Resized(<<>>, n)) = n
    BY <2>1, ResizedKeeps
  <2> QED BY <2>2 DEF n
<1>2. EmptyBuffer = [buffer |-> v, readerIndex |-> kCheapPrepend, writerIndex |-> kCheapPrepend]
  BY DEF EmptyBuffer
<1> HIDE DEF v
<1>3. Sound(EmptyBuffer, Bytes)
  BY <1>1, <1>2, SizesAreNatural DEF Sound
<1>4. ReadableBytes(EmptyBuffer) = 0
  BY <1>2, SizesAreNatural DEF ReadableBytes
<1>5. Readable(EmptyBuffer) \in Seq(Bytes) /\ Len(Readable(EmptyBuffer)) = 0
  BY <1>3, <1>4, ReadableIs
<1> QED BY <1>3, <1>5, EmptySeq

\* append() adds its data behind the readable bytes, whatever makeSpace() has to do for it,
\* and grows the vector only if the free bytes before the reader and after the writer do
\* not suffice (Buffer.cc:71-93, 149-159).
THEOREM AppendAddsData ==
  ASSUME NEW Bytes, 0 \in Bytes, NEW b, Sound(b, Bytes), NEW data \in Seq(Bytes)
  PROVE  /\ Sound(AppendData(b, data), Bytes)
         /\ Readable(AppendData(b, data)) = Readable(b) \o data
         /\ kCheapPrepend + ReadableBytes(b) + Len(data) <= Len(b.buffer) =>
              Len(AppendData(b, data).buffer) = Len(b.buffer)
<1>1. Len(data) \in Nat
  BY LenProperties
<1> DEFINE e == EnsureWritableBytes(b, Len(data))
<1>2. /\ Sound(e, Bytes) /\ Readable(e) = Readable(b) /\ Len(data) <= WritableBytes(e)
      /\ kCheapPrepend + ReadableBytes(b) + Len(data) <= Len(b.buffer)
           => Len(e.buffer) = Len(b.buffer)
  BY <1>1, EnsureKeeps
<1>3. AppendData(b, data) = [e EXCEPT !.buffer = Copied(e.buffer, e.writerIndex, data),
                                      !.writerIndex = e.writerIndex + Len(data)]
  BY DEF AppendData
<1> HIDE DEF e
<1>4. AppendData(b, data) = Written(e, data)
  <2>1. /\ Copied(e.buffer, e.writerIndex, data) \in Seq(Bytes)
        /\ e.writerIndex + Len(data) \in Nat
    BY <1>2, CopiedType
  <2> DEFINE v == Copied(e.buffer, e.writerIndex, data)
             n == e.writerIndex + Len(data)
  <2>2. v \in Seq(Bytes) /\ n \in Nat
    BY <2>1
  <2>3. AppendData(b, data) = [e EXCEPT !.buffer = v, !.writerIndex = n]
    BY <1>3
  <2>4. Written(e, data) = [buffer |-> v, readerIndex |-> e.readerIndex, writerIndex |-> n]
    BY DEF Written
  <2> HIDE DEF v, n
  <2>5. [e EXCEPT !.buffer = v, !.writerIndex = n]
        = [buffer |-> v, readerIndex |-> e.readerIndex, writerIndex |-> n]
    BY <1>2, <2>2, FieldsUpdated
  <2> QED BY <2>3, <2>4, <2>5
<1>5. /\ Sound(Written(e, data), Bytes) /\ Readable(Written(e, data)) = Readable(e) \o data
      /\ Len(Written(e, data).buffer) = Len(e.buffer)
  BY <1>2, WrittenFollows
<1> QED BY <1>2, <1>4, <1>5

\* retrieve() drops the first len readable bytes, or all of them if there are no more
\* (Buffer.cc:43-58).
THEOREM RetrieveDropsData ==
  ASSUME NEW Bytes, NEW b, Sound(b, Bytes), NEW len \in Nat
  PROVE  /\ Sound(Retrieve(b, len), Bytes)
         /\ Readable(Retrieve(b, len)) = SubSeq(Readable(b), len + 1, ReadableBytes(b))
<1>1. /\ b.buffer \in Seq(Bytes) /\ b.readerIndex \in Nat /\ b.writerIndex \in Nat
      /\ kCheapPrepend \in Nat /\ kCheapPrepend <= b.readerIndex
      /\ b.readerIndex <= b.writerIndex /\ b.writerIndex <= Len(b.buffer) /\ Len(b.buffer) \in Nat
      /\ ReadableBytes(b) = b.writerIndex - b.readerIndex
  BY LenProperties, SizesAreNatural DEF Sound, ReadableBytes
<1>2. /\ Readable(b) \in Seq(Bytes) /\ Len(Readable(b)) = ReadableBytes(b) /\ ReadableBytes(b) \in Nat
      /\ \A i \in 1..ReadableBytes(b) : Readable(b)[i] = b.buffer[b.readerIndex + i]
  BY ReadableIs
<1> DEFINE s == Readable(b)
           n == ReadableBytes(b)
           rest == SubSeq(s, len + 1, n)
           c == Retrieve(b, len)
<1>3. /\ rest \in Seq(Bytes) /\ Len(rest) = IF len <= n THEN n - len ELSE 0
      /\ \A i \in 1..(n - len) : rest[i] = s[len + i]
  <2>1. s \in Seq(Bytes) /\ n \in Nat /\ n <= Len(s)
    BY <1>2
  <2> HIDE DEF s, n
  <2> QED BY <2>1, Part
<1>4. CASE len < n
  <2>1. c = [buffer |-> b.buffer, readerIndex |-> b.readerIndex + len, writerIndex |-> b.writerIndex]
    BY <1>4 DEF Retrieve, Sound
  <2> HIDE DEF c, rest
  <2>2. Sound(c, Bytes) /\ ReadableBytes(c) = n - len
    BY <1>1, <1>4, <2>1 DEF Sound, ReadableBytes
  <2>3. /\ Readable(c) \in Seq(Bytes) /\ Len(Readable(c)) = n - len
        /\ \A i \in 1..(n - len) : Readable(c)[i] = c.buffer[c.readerIndex + i]
    BY <2>2, ReadableIs
  <2>4. ASSUME NEW i \in 1..(n - len) PROVE Readable(c)[i] = rest[i]
    <3>1. /\ len + i \in 1..ReadableBytes(b)
          /\ b.readerIndex + (len + i) = (b.readerIndex + len) + i
      BY <1>1, <1>2
    <3>2. Readable(c)[i] = b.buffer[(b.readerIndex + len) + i]
      BY <2>1, <2>3
    <3>3. s[len + i] = b.buffer[b.readerIndex + (len + i)]
      BY <1>2, <3>1
    <3> QED BY <1>3, <3>1, <3>2, <3>3
  <2>5. Len(rest) = n - len
    BY <1>2, <1>3, <1>4
  <2>6. Readable(c) = rest
    BY <1>3, <2>3, <2>4, <2>5, SeqEqual
  <2> QED BY <2>2, <2>6 DEF c, rest
<1>5. CASE ~(len < n)
  <2>1. c = [buffer |-> b.buffer, readerIndex |-> kCheapPrepend, writerIndex |-> kCheapPrepend]
    BY <1>5 DEF Retrieve, RetrieveAll, Sound
  <2> HIDE DEF c, rest
  <2>2. Sound(c, Bytes) /\ ReadableBytes(c) = 0
    BY <1>1, <2>1 DEF Sound, ReadableBytes
  <2>3. Readable(c) \in Seq(Bytes) /\ Len(Readable(c)) = 0
    BY <2>2, ReadableIs
  <2>4. Len(rest) = 0
    BY <1>2, <1>3, <1>5
  <2>5. Readable(c) = rest
    BY <1>3, <2>3, <2>4, EmptySeq
  <2> QED BY <2>2, <2>5 DEF c, rest
<1> QED BY <1>4, <1>5

\* readFd() adds all that readv() returned behind the readable bytes, also when a part of it
\* went to the extra buffer (Buffer.cc:95-131).
THEOREM ReadFdAddsData ==
  ASSUME NEW Bytes, 0 \in Bytes, NEW b, Sound(b, Bytes), NEW data \in Seq(Bytes)
  PROVE  /\ Sound(ReadFd(b, data), Bytes)
         /\ Readable(ReadFd(b, data)) = Readable(b) \o data
<1> DEFINE w == WritableBytes(b)
           v == b.buffer
           at == b.writerIndex
<1>1. /\ v \in Seq(Bytes) /\ at \in Nat /\ Len(v) \in Nat /\ Len(data) \in Nat
      /\ w = Len(v) - at /\ w \in Nat /\ at <= Len(v)
  BY LenProperties DEF Sound, WritableBytes
<1>2. Readable(b) \in Seq(Bytes)
  BY ReadableIs
<1> DEFINE x == Copied(v, at, data)
<1>3. x \in Seq(Bytes)
  BY CopiedType
<1>4. CASE Len(data) <= w
  <2> DEFINE c == [b EXCEPT !.buffer = x]
             n == at + Len(data)
  <2>1. ReadFd(b, data) = [c EXCEPT !.writerIndex = c.writerIndex + Len(data)]
    BY <1>4 DEF ReadFd
  <2>2. c.writerIndex = at
    BY DEF Sound
  <2>3. ReadFd(b, data) = Written(b, data)
    <3>1. n \in Nat
      BY <1>1
    <3>2. ReadFd(b, data) = [c EXCEPT !.writerIndex = n]
      BY <2>1, <2>2
    <3>3. Written(b, data) = [buffer |-> x, readerIndex |-> b.readerIndex, writerIndex |-> n]
      BY DEF Written
    <3> HIDE DEF x, n
    <3>4. [[b EXCEPT !.buffer = x] EXCEPT !.writerIndex = n]
          = [buffer |-> x, readerIndex |-> b.readerIndex, writerIndex |-> n]
      BY <1>3, <3>1, FieldsUpdated
    <3> QED BY <3>2, <3>3, <3>4
  <2> QED BY <1>4, <2>3, WrittenFollows
<1>5. CASE ~(Len(data) <= w)
  <2> DEFINE first == SubSeq(data, 1, w)
             second == SubSeq(data, w + 1, Len(data))
  <2>1. ReadFd(b, data) = AppendData([[b EXCEPT !.buffer = x] EXCEPT !.writerIndex = Len(v)], second)
    BY <1>5 DEF ReadFd
  <2>2. [[b EXCEPT !.buffer = x] EXCEPT !.writerIndex = Len(v)]
        = [buffer |-> x, readerIndex |-> b.readerIndex, writerIndex |-> Len(v)]
    <3> DEFINE n == Len(v)
    <3>1. n \in Nat
      BY <1>1
    <3> HIDE DEF x, n
    <3>2. [[b EXCEPT !.buffer = x] EXCEPT !.writerIndex = n]
          = [buffer |-> x, readerIndex |-> b.readerIndex, writerIndex |-> n]
      BY <1>3, <3>1, FieldsUpdated
    <3> QED BY <3>2 DEF n
  <2> HIDE DEF w
  <2>3. w \in Nat /\ Len(data) \in Nat /\ w < Len(data) /\ w <= Len(data) /\ Len(data) <= Len(data)
    BY <1>1, <1>5
  <2>4. first \in Seq(Bytes) /\ Len(first) = w /\ \A i \in 1..w : first[i] = data[i]
    BY <1>1, <2>3, Part
  <2>5. /\ second \in Seq(Bytes) /\ Len(second) = IF w <= Len(data) THEN Len(data) - w ELSE 0
        /\ \A i \in 1..(Len(data) - w) : second[i] = data[w + i]
    BY <2>3, Part
  <2> HIDE DEF first, second
  <2>6. first \o second = data
    <3>1. /\ first \o second \in Seq(Bytes) /\ Len(first \o second) = Len(first) + Len(second)
          /\ \A i \in 1..(Len(first) + Len(second)) :
               (first \o second)[i] = IF i <= Len(first) THEN first[i] ELSE second[i - Len(first)]
      BY <2>4, <2>5, ConcatProperties
    <3>2. Len(first) + Len(second) = Len(data)
      BY <1>1, <2>3, <2>4, <2>5
    <3>3. ASSUME NEW i \in 1..Len(data) PROVE (first \o second)[i] = data[i]
      <4>1. CASE i <= w
        BY <1>1, <2>4, <3>1, <3>2, <4>1
      <4>2. CASE ~(i <= w)
        <5>1. i - w \in 1..(Len(data) - w) /\ w + (i - w) = i
          BY <2>3, <4>2
        <5>2. (first \o second)[i] = second[i - w]
          BY <2>4, <3>1, <3>2, <4>2
        <5>3. second[i - w] = data[w + (i - w)]
          BY <2>5, <5>1
        <5> QED BY <5>1, <5>2, <5>3
      <4> QED BY <4>1, <4>2
    <3> QED BY <3>1, <3>2, <3>3, SeqEqual
  <2>7. at + Len(first) = Len(v)
    BY <1>1, <2>4
  <2>8. Copied(v, at, data) = Copied(v, at, first)
    <3>1. Min({Len(v), at + Len(data)}) = Len(v)
      <4>1. Len(v) \in Int /\ at + Len(data) \in Int /\ Len(v) <= at + Len(data)
        BY <1>1, <2>3
      <4> QED BY <4>1, MinOfTwo
    <3>2. Min({Len(v), at + Len(first)}) = Len(v)
      <4>1. Min({Len(v), Len(v)}) = Len(v)
        BY <1>1, MinOfTwo
      <4> QED BY <2>7, <4>1
    <3>3. SubSeq(first, 1, Len(first)) = first
      BY <2>4, SubSeqFull
    <3>4. Len(v) - at = Len(first) /\ Len(v) - at = w
      BY <1>1, <2>4
    <3>5. SubSeq(data, 1, Len(v) - at) = SubSeq(first, 1, Len(v) - at)
      BY <3>3, <3>4 DEF first
    <3> QED BY <3>1, <3>2, <3>5 DEF Copied
  <2>9. ReadFd(b, data) = AppendData(Written(b, first), second)
    BY <2>1, <2>2, <2>7, <2>8 DEF Written
  <2>10. Sound(Written(b, first), Bytes) /\ Readable(Written(b, first)) = Readable(b) \o first
    <3>1. Len(first) <= WritableBytes(b)
      BY <1>1, <2>4 DEF w
    <3> QED BY <2>4, <3>1, WrittenFollows
  <2>11. /\ Sound(ReadFd(b, data), Bytes)
         /\ Readable(ReadFd(b, data)) = (Readable(b) \o first) \o second
    BY <2>5, <2>9, <2>10, AppendAddsData
  <2>12. (Readable(b) \o first) \o second = Readable(b) \o (first \o second)
    <3> DEFINE s == Readable(b)
    <3>1. s \in Seq(Bytes) /\ first \in Seq(Bytes) /\ second \in Seq(Bytes)
      BY <1>2, <2>4, <2>5
    <3> HIDE DEF s
    <3>2. (s \o first) \o second = s \o (first \o second)
      BY <3>1, Associative
    <3> QED BY <3>2 DEF s
  <2> QED BY <2>6, <2>11, <2>12
<1> QED BY <1>4, <1>5
=============================================================================
