---------------------------- MODULE Encode_proofs ----------------------------
(***************************************************************************)
(* Proofs about Encode, for every size of the image, even and odd, any     *)
(* frames, scales and annotations, every size of the output buffer and     *)
(* however many bytes libjpeg makes of a frame.                            *)
(*                                                                         *)
(* A step touches the loop and the working images, or the destination      *)
(* manager, so the invariant is a conjunction of one part for each.        *)
(***************************************************************************)
EXTENDS Encode, SequenceTheorems, TLAPS

(* The pixels converted so far. *)
Done == line * Width + x

(* A frame of depths never meets the detector. *)
InputInv ==
  /\ pc \in {"idle", "convert", "features", "text", "done"} \cup InLibjpeg
  /\ format \in {"YUYV", "Z16"} /\ scale \in Scales \cup {0}
  /\ frame \in Frames
  /\ pc \in {"features", "text", "marker"} => format = "YUYV"

(* Where the loops are, and the place in the frame that belongs to it: a   *)
(* pair of YUYV pixels is left behind with its second one, wherever the    *)
(* lines end.                                                              *)
LoopInv ==
  /\ line \in 0 .. Height /\ x \in 0 .. Width - 1 /\ z \in {0, 1}
  /\ src \in 0 .. 2 * Width * Height
  /\ pc = "start" => line = 0 /\ x = 0 /\ z = 0 /\ src = 0
  /\ pc = "convert" => line < Height
  /\ pc \in {"features", "text", "marker"} => line = Height
  /\ pc = "scanlines" /\ format = "YUYV" => line = Height
  /\ pc = "convert" /\ format = "YUYV" => src = 2 * (Done - z) /\ src % 4 = 0
  /\ pc \in {"convert", "scanlines"} /\ format = "Z16" => src = 2 * Done

(* The working images, and the file made of the gray one. *)
ImageInv ==
  /\ rgb \in [Pixels -> Color]
  /\ gray \in [Pixels -> Bytes] /\ drawn \in [Pixels -> Bytes]
  /\ bitmap \in {<<>>, <<BitmapFile(Width, Height, drawn)>>}

(* What ColorsOfTheFrame says of the channels of one pixel. *)
BlueRight(color, y, u) == Close(color.blue, 1000 * y + 1772 * u)

RedRight(color, y, v) == Close(color.red, 1000 * y + 1402 * v)

GreenRight(color, y, u, v) ==
  Close(color.green, 1000 * y - (344136 * u + 714136 * v) \div 1000)

(* The same of pixel p, by the bytes f of the frame. *)
Matches(f, color, p) ==
  LET y == f[2 * p]
      u == f[4 * (p \div 2) + 1] - 128
      v == f[4 * (p \div 2) + 3] - 128
  IN  /\ BlueRight(color, y, u)
      /\ 4 * (p \div 2) + 3 \in FrameBytes =>
           RedRight(color, y, v) /\ GreenRight(color, y, u, v)

ColorInv ==
  format = "YUYV" => \A p \in Converted :
    /\ pc \in {"convert", "features"} => gray[p] = frame[2 * p]
    /\ Matches(frame, rgb[p], p)

(* What DepthByte makes of a depth at a scale: the quotient of int, cut to  *)
(* 16 bits, then to a byte.                                                *)
QuotientAt(s, depth) ==
  LET step == IF s = 0 THEN 20 ELSE s
  IN  IF step > 0 THEN depth \div step ELSE -(depth \div (-step))

Cut(quotient) == quotient % 65536

ByteOf(scaled) == IF scaled > 255 THEN 255 ELSE scaled

ByteAt(s, depth) == ByteOf(Cut(QuotientAt(s, depth)))

DepthAt(f, p) == f[2 * p] + 256 * f[2 * p + 1]

(* The gray pixels of a frame of depths. *)
DepthInv ==
  format = "Z16" =>
    \A p \in Converted : gray[p] = ByteAt(scale, DepthAt(frame, p))

(* The bytes of the stream so far: those passed on, then those in the used *)
(* part of the buffer.                                                     *)
DestInv ==
  /\ buffer \in [1 .. OutputBufSize -> 0 .. MaxStream]
  /\ free_in_buffer \in 0 .. OutputBufSize
  /\ outbuffer \in Seq(0 .. MaxStream) /\ Len(outbuffer) = cursor
  /\ cursor \in 0 .. MaxStream
  /\ written \in 0 .. MaxStream /\ emitted \in 0 .. MaxStream
  /\ pc # "idle" =>
       written = cursor /\ \A n \in 1 .. cursor : outbuffer[n] = n
  /\ pc \notin {"idle", "done"} =>
       /\ free_in_buffer # 0
       /\ emitted = cursor + (OutputBufSize - free_in_buffer)
       /\ \A n \in 1 .. OutputBufSize - free_in_buffer :
            buffer[n] = cursor + n
  /\ pc = "done" => emitted = cursor

EncodeInv ==
  InputInv /\ LoopInv /\ ImageInv /\ ColorInv /\ DepthInv /\ DestInv

ConstantsTyped ==
  /\ Width \in Nat \ {0} /\ Height \in Nat \ {0}
  /\ Frames \subseteq [FrameBytes -> Bytes] /\ Beyond \subseteq Bytes
  /\ Scales \subseteq Int
  /\ OutputBufSize \in Nat \ {0} /\ MaxStream \in Nat

(* The assumptions of the model, a fact for each constant.                 *)
LEMMA ConstantsAssumed == ConstantsTyped
  BY SizeAssumption, FramesAssumption, ScalesAssumption, BufferAssumption
  DEF ConstantsTyped

------------------------------------------------------------------------------
(* Arithmetic of rows and columns, and of the frame's bytes. *)
LEMMA RowsAndColumns ==
  ASSUME NEW a \in Nat, NEW b \in Nat, a < b, NEW w \in Nat
  PROVE  a * w + w <= b * w /\ (a + 1) * w = a * w + w
  OBVIOUS

(* A frame has two bytes per pixel.                                        *)
LEMMA FrameSize ==
  /\ Width * Height \in Nat /\ 2 * Width * Height = 2 * (Width * Height)
  /\ FrameBytes = 0 .. 2 * (Width * Height) - 1
<1>1. Width * Height \in Nat /\ 2 * Width * Height = 2 * (Width * Height)
  BY ConstantsAssumed DEF ConstantsTyped
<1>2. QED
  BY <1>1 DEF FrameBytes

(* The source offset of a YUYV conversion stays in the frame.              *)
LEMMA InsideFrame ==
  ASSUME NEW d \in Nat, d < Width * Height, NEW k \in {0, 1}, NEW s \in Nat,
         s = 2 * (d + 1 - k)
  PROVE  s \in 0 .. 2 * Width * Height
<1>1. \A n \in Nat : d < n => s <= 2 * n
  OBVIOUS
<1>2. s <= 2 * (Width * Height)
  BY <1>1, FrameSize
<1>3. QED
  BY <1>2, FrameSize

(* A quotient of naturals grows with what is divided. *)
LEMMA QuotientGrows ==
  ASSUME NEW a \in Nat, NEW b \in Nat, a <= b, NEW s \in Nat \ {0}
  PROVE  a \div s <= b \div s
<1>1. /\ s * (a \div s) <= a /\ b < s * (b \div s) + s
      /\ a \div s \in Nat /\ b \div s \in Nat
  OBVIOUS
<1> DEFINE qa == a \div s
           qb == b \div s
<1>2. qa \in Nat /\ qb \in Nat /\ s * qa <= a /\ b < s * qb + s
  BY <1>1
<1> HIDE DEF qa, qb
<1>3. SUFFICES ASSUME qb < qa PROVE FALSE
  BY <1>2 DEF qa, qb
<1>4. qb * s + s <= qa * s
  BY <1>2, <1>3, RowsAndColumns
<1>5. s * qb = qb * s /\ s * qa = qa * s
  BY <1>2
<1>6. qb * s \in Nat /\ qa * s \in Nat
  BY <1>2
<1>7. QED
  BY <1>2, <1>4, <1>5, <1>6

(* The pixel the loop is at is one of the image, and the next one comes    *)
(* after it, also behind the end of a line.                                *)
LEMMA NextPixelCounts ==
  ASSUME NEW endOfLine, NEW endOfImage, line \in 0 .. Height - 1,
         x \in 0 .. Width - 1, NextPixel(endOfLine, endOfImage)
  PROVE  /\ Done \in Nat /\ Done < Width * Height /\ Done' = Done + 1
         /\ line' \in 0 .. Height /\ x' \in 0 .. Width - 1
         /\ \/ pc' = pc /\ line' = line
            \/ pc' = endOfLine /\ line' < Height
            \/ pc' = endOfImage
<1> USE ConstantsAssumed DEF ConstantsTyped
<1>1. line * Width \in Nat
  OBVIOUS
<1>2. line * Width + Width <= Height * Width
      /\ (line + 1) * Width = line * Width + Width
  BY RowsAndColumns
<1>3. Height * Width = Width * Height /\ Width * Height \in Nat
  OBVIOUS
<1>4. Done \in Nat /\ Done < Width * Height
  BY <1>1, <1>2, <1>3 DEF Done
<1>5. CASE x + 1 < Width
  BY <1>1, <1>4, <1>5 DEF NextPixel, Done
<1>6. CASE ~(x + 1 < Width)
  <2>1. x' = 0 /\ line' = line + 1 /\ x = Width - 1
    BY <1>6 DEF NextPixel
  <2>2. Done' = Done + 1
    BY <1>1, <1>2, <2>1 DEF Done
  <2>3. QED
    BY <1>4, <1>6, <2>1, <2>2 DEF NextPixel
<1>7. QED
  BY <1>5, <1>6

(* After a step of the loop the pixels converted are those before it and   *)
(* the one it was at.                                                      *)
LEMMA OnePixelMore ==
  ASSUME pc = "convert", Done \in Nat, Done' = Done + 1, NEW p \in Converted'
  PROVE  p \in Pixels /\ (p \in Converted \/ p = Done)
<1>1. p \in Pixels /\ p < Done + 1
  BY DEF Converted, Done
<1>2. p \in Nat
  BY <1>1 DEF Pixels
<1>3. QED
  BY <1>1, <1>2 DEF Converted, Done

(* The invariant holds before the first frame.                             *)
LEMMA EncodeInvInitially == Init => EncodeInv
<1> SUFFICES ASSUME Init PROVE EncodeInv
  OBVIOUS
<1> USE ConstantsAssumed DEF ConstantsTyped
<1>1. InputInv
  BY DEF Init, InputInv, InLibjpeg
<1>2. LoopInv
  <2>1. 2 * Width * Height \in Nat
    BY FrameSize
  <2>2. QED
    BY <2>1 DEF Init, LoopInv
<1>3. ImageInv
  BY DEF Init, ImageInv, Black, Color, Bytes
<1>4. ColorInv /\ DepthInv
  BY DEF Init, ColorInv, DepthInv, Converted
<1>5. DestInv
  <2>1. FirstBuffer \in [1 .. OutputBufSize -> 0 .. MaxStream]
    BY DEF FirstBuffer, Garbage
  <2>2. outbuffer \in Seq(0 .. MaxStream) /\ Len(outbuffer) = 0
    BY EmptySeq DEF Init
  <2>3. QED
    BY <2>1, <2>2 DEF Init, DestInv
<1>6. QED
  BY <1>1, <1>2, <1>3, <1>4, <1>5 DEF EncodeInv

------------------------------------------------------------------------------
(* The elements of two sequences put together. *)
LEMMA Joined ==
  ASSUME NEW S, NEW a \in Seq(S), NEW b \in Seq(S)
  PROVE  /\ (a \o b) \in Seq(S) /\ Len(a \o b) = Len(a) + Len(b)
         /\ \A m \in 1 .. Len(a) : (a \o b)[m] = a[m]
         /\ \A m \in 1 .. Len(b) : (a \o b)[Len(a) + m] = b[m]
<1>1. (a \o b) \in Seq(S) /\ Len(a \o b) = Len(a) + Len(b)
  BY ConcatProperties
<1>2. ASSUME NEW m \in 1 .. Len(a) PROVE (a \o b)[m] = a[m]
  BY LenProperties, ConcatProperties
<1>3. ASSUME NEW m \in 1 .. Len(b) PROVE (a \o b)[Len(a) + m] = b[m]
  BY LenProperties, ConcatProperties
<1>4. QED
  BY <1>1, <1>2, <1>3

Appended(out, from, n) == SubSeq(out, 1, Len(out)) \o SubSeq(from, 1, n)

(* memcpy to the end of what has been stored: it stays as it was, and the  *)
(* bytes copied come after it.                                             *)
LEMMA Delivered ==
  ASSUME NEW S, NEW out \in Seq(S), NEW from \in Seq(S),
         NEW n \in 0 .. Len(from)
  PROVE  LET d == Appended(out, from, n)
         IN  /\ d \in Seq(S) /\ Len(d) = Len(out) + n
             /\ \A m \in 1 .. Len(out) : d[m] = out[m]
             /\ \A m \in 1 .. n : d[Len(out) + m] = from[m]
<1> DEFINE a == SubSeq(out, 1, Len(out))
           b == SubSeq(from, 1, n)
<1>1. Len(out) \in Nat /\ Len(from) \in Nat
  BY LenProperties
<1>2. /\ a \in Seq(S) /\ Len(a) = Len(out)
      /\ \A m \in 1 .. Len(out) : a[m] = out[m]
  BY <1>1, SubSeqProperties
<1>3. /\ b \in Seq(S) /\ Len(b) = n
      /\ \A m \in 1 .. n : b[m] = from[m]
  BY <1>1, SubSeqProperties
<1> HIDE DEF a, b
<1>4. (a \o b) \in Seq(S) /\ Len(a \o b) = Len(a) + Len(b)
  BY <1>2, <1>3, Joined
<1>5. ASSUME NEW m \in 1 .. n PROVE (a \o b)[Len(out) + m] = from[m]
  BY <1>2, <1>3, Joined
<1>6. ASSUME NEW m \in 1 .. Len(out) PROVE (a \o b)[m] = out[m]
  BY <1>2, <1>3, Joined
<1>7. QED
  BY <1>2, <1>3, <1>4, <1>5, <1>6 DEF a, b, Appended

(* So a stream that was in order stays in order when the bytes copied are  *)
(* the next ones.                                                          *)
LEMMA DeliveredInOrder ==
  ASSUME NEW S, NEW size \in Nat, NEW out \in Seq(S),
         NEW from \in [1 .. size -> S], NEW n \in 0 .. size,
         \A m \in 1 .. Len(out) : out[m] = m,
         \A m \in 1 .. n : from[m] = Len(out) + m
  PROVE  LET d == Appended(out, from, n)
         IN  /\ d \in Seq(S) /\ Len(d) = Len(out) + n
             /\ \A m \in 1 .. Len(out) + n : d[m] = m
<1> DEFINE d == Appended(out, from, n)
<1>1. from \in Seq(S) /\ Len(from) = size /\ Len(out) \in Nat
  BY SeqDef, LenProperties
<1>2. n \in 0 .. Len(from)
  BY <1>1
<1>3. /\ d \in Seq(S) /\ Len(d) = Len(out) + n
      /\ \A m \in 1 .. Len(out) : d[m] = out[m]
      /\ \A m \in 1 .. n : d[Len(out) + m] = from[m]
  <2>1. from \in Seq(S)
    BY <1>1
  <2>2. d \in Seq(S) /\ Len(d) = Len(out) + n
    BY <1>2, <2>1, Delivered
  <2>3. \A m \in 1 .. Len(out) : d[m] = out[m]
    BY <1>2, <2>1, Delivered
  <2>4. \A m \in 1 .. n : d[Len(out) + m] = from[m]
    BY <1>2, <2>1, Delivered
  <2>5. QED
    BY <2>2, <2>3, <2>4
<1> HIDE DEF d
<1>4. ASSUME NEW m \in 1 .. Len(out) + n PROVE d[m] = m
  <2>1. CASE m <= Len(out)
    BY <1>1, <1>3, <2>1
  <2>2. CASE m > Len(out)
    <3>1. m - Len(out) \in 1 .. n /\ m = Len(out) + (m - Len(out))
      BY <1>1, <2>2
    <3>2. d[Len(out) + (m - Len(out))] = Len(out) + (m - Len(out))
      BY <1>1, <1>3, <3>1
    <3>3. QED
      BY <3>1, <3>2
  <2>3. QED
    BY <1>1, <2>1, <2>2
<1>5. QED
  BY <1>3, <1>4 DEF d

(* A list of numbers that are their places. *)
LEMMA Counting ==
  ASSUME NEW S, NEW s \in Seq(S), NEW n \in Nat, Len(s) = n,
         \A m \in 1 .. n : s[m] = m
  PROVE  s = [m \in 1 .. n |-> m]
<1>1. s \in [1 .. n -> S]
  BY LenProperties
<1>2. QED
  BY <1>1

(* The destination manager at the start of a frame. *)
LEMMA BeginKeepsDest ==
  ASSUME EncodeInv, Begin
  PROVE  DestInv'
<1> USE ConstantsAssumed DEF ConstantsTyped
<1>1. FirstBuffer \in [1 .. OutputBufSize -> 0 .. MaxStream]
  BY DEF FirstBuffer, Garbage
<1>2. outbuffer' \in Seq(0 .. MaxStream) /\ Len(outbuffer') = 0
  BY EmptySeq DEF Begin
<1>3. /\ pc' = "start" /\ buffer' = FirstBuffer /\ written' = 0
      /\ free_in_buffer' = OutputBufSize /\ cursor' = 0 /\ emitted' = 0
  BY DEF Begin, InitDestination
<1>4. QED
  BY <1>1, <1>2, <1>3 DEF DestInv

(* A byte is stored; the one that fills the buffer sends it off.           *)
LEMMA EmitKeepsDest ==
  ASSUME EncodeInv, Emit
  PROVE  DestInv'
<1> USE ConstantsAssumed DEF ConstantsTyped
<1> DEFINE used == OutputBufSize - free_in_buffer
<1>1. /\ pc \notin {"idle", "done"} /\ pc' = pc
      /\ emitted < MaxStream /\ emitted' = emitted + 1
      /\ buffer' = [buffer EXCEPT ![used + 1] = emitted + 1]
  BY DEF Emit, InLibjpeg
<1>2. /\ buffer \in [1 .. OutputBufSize -> 0 .. MaxStream]
      /\ free_in_buffer \in 1 .. OutputBufSize
      /\ outbuffer \in Seq(0 .. MaxStream) /\ Len(outbuffer) = cursor
      /\ cursor \in Nat /\ written = cursor /\ emitted = cursor + used
      /\ emitted \in 0 .. MaxStream
      /\ \A n \in 1 .. cursor : outbuffer[n] = n
      /\ \A n \in 1 .. used : buffer[n] = cursor + n
  BY <1>1 DEF EncodeInv, DestInv
<1>3. used \in 0 .. OutputBufSize - 1 /\ emitted + 1 \in 0 .. MaxStream
  BY <1>1, <1>2
<1>4. /\ buffer' \in [1 .. OutputBufSize -> 0 .. MaxStream]
      /\ \A n \in 1 .. used + 1 : buffer'[n] = cursor + n
  <2>1. used + 1 \in 1 .. OutputBufSize
    BY <1>3
  <2>2. buffer' \in [1 .. OutputBufSize -> 0 .. MaxStream]
    BY <1>1, <1>2, <1>3
  <2>3. buffer'[used + 1] = cursor + (used + 1)
    BY <1>1, <1>2, <1>3, <2>1
  <2>4. ASSUME NEW n \in 1 .. used PROVE buffer'[n] = cursor + n
    BY <1>1, <1>2, <1>3
  <2>5. ASSUME NEW n \in 1 .. used + 1 PROVE n \in 1 .. used \/ n = used + 1
    BY <1>3
  <2>6. QED
    BY <2>2, <2>3, <2>4, <2>5
<1>5. CASE free_in_buffer = 1
  <2>1. /\ outbuffer' = SubSeq(outbuffer, 1, cursor)
                          \o SubSeq(buffer', 1, OutputBufSize)
        /\ cursor' = cursor + OutputBufSize
        /\ written' = written + OutputBufSize
        /\ free_in_buffer' = OutputBufSize
    BY <1>5 DEF Emit, Deliver
  <2>2. used + 1 = OutputBufSize
    BY <1>2, <1>5
  <2>3. \A n \in 1 .. OutputBufSize : buffer'[n] = Len(outbuffer) + n
    BY <1>2, <1>4, <2>2
  <2>4. \A n \in 1 .. Len(outbuffer) : outbuffer[n] = n
    BY <1>2
  <2>5. /\ outbuffer' \in Seq(0 .. MaxStream)
        /\ Len(outbuffer') = cursor + OutputBufSize
        /\ \A n \in 1 .. cursor + OutputBufSize : outbuffer'[n] = n
    <3> DEFINE size == OutputBufSize
               S == 0 .. MaxStream
               from == buffer'
               d == Appended(outbuffer, from, size)
    <3>1. size \in Nat /\ size \in 0 .. size /\ outbuffer \in Seq(S)
          /\ from \in [1 .. size -> S]
      BY <1>2, <1>4
    <3>2. \A n \in 1 .. size : from[n] = Len(outbuffer) + n
      BY <2>3
    <3>3. outbuffer' = d
      BY <1>2, <2>1 DEF Appended
    <3> HIDE DEF size, S, from
    <3>4. /\ d \in Seq(S) /\ Len(d) = Len(outbuffer) + size
          /\ \A n \in 1 .. Len(outbuffer) + size : d[n] = n
      BY <2>4, <3>1, <3>2, DeliveredInOrder
    <3> HIDE DEF d
    <3>5. QED
      BY <1>2, <3>3, <3>4 DEF size, S
  <2>6. cursor' = emitted' /\ cursor' \in 0 .. MaxStream
    BY <1>1, <1>2, <1>3, <2>1, <2>2
  <2>7. /\ free_in_buffer' \in 0 .. OutputBufSize /\ free_in_buffer' # 0
        /\ OutputBufSize - free_in_buffer' = 0
        /\ emitted' \in 0 .. MaxStream /\ emitted' \in Nat
        /\ written' = cursor'
    BY <1>1, <1>2, <1>3, <2>1
  <2>8. emitted' = cursor' + (OutputBufSize - free_in_buffer')
    BY <1>1, <1>2, <2>1, <2>2
  <2>9. /\ outbuffer' \in Seq(0 .. MaxStream) /\ Len(outbuffer') = cursor'
        /\ \A n \in 1 .. cursor' : outbuffer'[n] = n
        /\ \A n \in 1 .. OutputBufSize - free_in_buffer' :
             buffer'[n] = cursor' + n
    BY <2>1, <2>5, <2>7
  <2>10. buffer' \in [1 .. OutputBufSize -> 0 .. MaxStream]
    BY <1>4
  <2>11. pc' \notin {"idle", "done"}
    BY <1>1
  <2>12. QED
    BY <2>6, <2>7, <2>8, <2>9, <2>10, <2>11 DEF DestInv
<1>6. CASE free_in_buffer # 1
  <2>1. /\ free_in_buffer' = free_in_buffer - 1
        /\ UNCHANGED <<cursor, outbuffer, written>>
    BY <1>6 DEF Emit
  <2>2. OutputBufSize - free_in_buffer' = used + 1
        /\ free_in_buffer' \in 1 .. OutputBufSize
    BY <1>2, <1>6, <2>1
  <2>3. cursor \in 0 .. MaxStream
    BY <1>2, <1>3
  <2>4. QED
    BY <1>1, <1>2, <1>3, <1>4, <2>1, <2>2, <2>3 DEF DestInv
<1>7. QED
  BY <1>5, <1>6

(* The used part of the buffer follows when libjpeg has finished.          *)
LEMMA FinishKeepsDest ==
  ASSUME EncodeInv, Finish
  PROVE  DestInv'
<1> USE ConstantsAssumed DEF ConstantsTyped
<1> DEFINE used == OutputBufSize - free_in_buffer
<1>1. /\ pc = "finish" /\ pc' = "done"
      /\ outbuffer' = SubSeq(outbuffer, 1, cursor) \o SubSeq(buffer, 1, used)
      /\ cursor' = cursor + used /\ written' = written + used
      /\ UNCHANGED <<buffer, free_in_buffer, emitted>>
  BY DEF Finish, Deliver
<1>2. /\ buffer \in [1 .. OutputBufSize -> 0 .. MaxStream]
      /\ free_in_buffer \in 1 .. OutputBufSize
      /\ outbuffer \in Seq(0 .. MaxStream) /\ Len(outbuffer) = cursor
      /\ cursor \in Nat /\ written = cursor /\ emitted = cursor + used
      /\ emitted \in 0 .. MaxStream
      /\ \A n \in 1 .. cursor : outbuffer[n] = n
      /\ \A n \in 1 .. used : buffer[n] = cursor + n
  BY <1>1 DEF EncodeInv, DestInv
<1>3. used \in 0 .. OutputBufSize
  BY <1>2
<1>4. /\ \A n \in 1 .. Len(outbuffer) : outbuffer[n] = n
      /\ \A n \in 1 .. used : buffer[n] = Len(outbuffer) + n
  BY <1>2
<1>5. /\ outbuffer' \in Seq(0 .. MaxStream)
      /\ Len(outbuffer') = cursor + used
      /\ \A n \in 1 .. cursor + used : outbuffer'[n] = n
  <2> DEFINE S == 0 .. MaxStream
             d == Appended(outbuffer, buffer, used)
  <2>1. outbuffer \in Seq(S) /\ buffer \in [1 .. OutputBufSize -> S]
    BY <1>2
  <2>2. outbuffer' = d
    BY <1>1, <1>2 DEF Appended
  <2> HIDE DEF used, S
  <2>3. /\ d \in Seq(S) /\ Len(d) = Len(outbuffer) + used
        /\ \A n \in 1 .. Len(outbuffer) + used : d[n] = n
    BY <1>3, <1>4, <2>1, DeliveredInOrder
  <2> HIDE DEF d
  <2>4. QED
    BY <1>2, <2>2, <2>3 DEF S
<1>7. cursor' = emitted' /\ cursor' \in 0 .. MaxStream /\ pc' = "done"
      /\ cursor' = cursor + used /\ written' = cursor' /\ emitted' \in 0 .. MaxStream
  BY <1>1, <1>2
<1>8. /\ buffer' \in [1 .. OutputBufSize -> 0 .. MaxStream]
      /\ free_in_buffer' \in 0 .. OutputBufSize
  BY <1>1, <1>2
<1>9. QED
  BY <1>5, <1>7, <1>8 DEF DestInv

(* Every other step leaves the destination manager alone.                  *)
LEMMA QuietKeepsDest ==
  ASSUME EncodeInv, UNCHANGED <<dest, emitted>>,
         \/ pc' = "idle" \/ pc' = pc
         \/ pc \notin {"idle", "done"} /\ pc' # "done"
  PROVE  DestInv'
  BY DEF EncodeInv, DestInv, dest

------------------------------------------------------------------------------
(* The conversion of one pixel. *)
LEMMA Clamped == ASSUME NEW v \in Int PROVE Clamp(v) \in Bytes
  BY DEF Clamp, Bytes

(* The integer coefficients are as close as ColorsOfTheFrame says. *)
LEMMA BlueIsClose ==
  ASSUME NEW y \in Bytes, NEW u \in -128 .. 127, NEW v \in -128 .. 127
  PROVE  BlueRight(ToRGB(y, u, v), y, u)
<1> DEFINE e == 256 * y + 454 * u
           q == e \div 256
<1>1. e \in Int
  BY DEF Bytes
<1>2. q \in Int /\ 256 * q <= e /\ e < 256 * q + 256
  <2> HIDE DEF e
  <2>1. QED
    BY <1>1
<1>3. ToRGB(y, u, v).blue = Clamp(q)
  BY DEF ToRGB
<1> HIDE DEF q
<1>4. Close(Clamp(q), 1000 * y + 1772 * u)
  BY <1>2 DEF Close, Clamp, Bytes
<1>5. QED
  BY <1>3, <1>4 DEF BlueRight

(* The integer red is within a step of the weighted sum, clipped.          *)
LEMMA RedIsClose ==
  ASSUME NEW y \in Bytes, NEW u \in -128 .. 127, NEW v \in -128 .. 127
  PROVE  RedRight(ToRGB(y, u, v), y, v)
<1> DEFINE e == 256 * y + 359 * v
           q == e \div 256
<1>1. e \in Int
  BY DEF Bytes
<1>2. q \in Int /\ 256 * q <= e /\ e < 256 * q + 256
  <2> HIDE DEF e
  <2>1. QED
    BY <1>1
<1>3. ToRGB(y, u, v).red = Clamp(q)
  BY DEF ToRGB
<1> HIDE DEF q
<1>4. Close(Clamp(q), 1000 * y + 1402 * v)
  BY <1>2 DEF Close, Clamp, Bytes
<1>5. QED
  BY <1>3, <1>4 DEF RedRight

(* The integer green is within a step of the weighted sum, clipped.        *)
LEMMA GreenIsClose ==
  ASSUME NEW y \in Bytes, NEW u \in -128 .. 127, NEW v \in -128 .. 127
  PROVE  GreenRight(ToRGB(y, u, v), y, u, v)
<1> DEFINE e == 256 * y - 88 * u - 183 * v
           q == e \div 256
<1>1. e \in Int
  BY DEF Bytes
<1>2. q \in Int /\ 256 * q <= e /\ e < 256 * q + 256
  <2> HIDE DEF e
  <2>1. QED
    BY <1>1
<1>3. ToRGB(y, u, v).green = Clamp(q)
  BY DEF ToRGB
<1> DEFINE c == 344136 * u + 714136 * v
           k == c \div 1000
<1>4. c \in Int
  OBVIOUS
<1>5. k \in Int /\ 1000 * k <= c /\ c < 1000 * k + 1000
  <2> HIDE DEF c
  <2>1. QED
    BY <1>4
<1> HIDE DEF q, k
<1>6. Close(Clamp(q), 1000 * y - k)
  BY <1>2, <1>5 DEF Close, Clamp, Bytes
<1> HIDE DEF c
<1>7. Close(ToRGB(y, u, v).green, 1000 * y - k)
  BY <1>3, <1>6
<1>8. QED
  BY <1>7 DEF k, c, GreenRight

(* A converted color has three bytes.                                      *)
LEMMA ColorTyped ==
  ASSUME NEW y \in Bytes, NEW u \in -128 .. 127, NEW v \in -128 .. 127
  PROVE  ToRGB(y, u, v) \in Color
<1>1. /\ (256 * y + 359 * v) \div 256 \in Int
      /\ (256 * y - 88 * u - 183 * v) \div 256 \in Int
      /\ (256 * y + 454 * u) \div 256 \in Int
  BY DEF Bytes
<1>2. QED
  BY <1>1, Clamped DEF ToRGB, Color

(* The depth quotient is an integer, whatever the scale.                   *)
LEMMA QuotientTyped ==
  ASSUME NEW s \in Int, NEW d \in Nat
  PROVE  QuotientAt(s, d) \in Int
<1>1. CASE s > 0
  <2>1. d \div s \in Int
    BY <1>1
  <2>2. QED
    BY <1>1, <2>1 DEF QuotientAt
<1>2. CASE s = 0
  <2>1. d \div 20 \in Int
    OBVIOUS
  <2>2. QED
    BY <1>2, <2>1 DEF QuotientAt
<1>3. CASE s < 0
  <2>1. d \div (-s) \in Int
    BY <1>3
  <2>2. QED
    BY <1>3, <2>1 DEF QuotientAt
<1>4. QED
  BY <1>1, <1>2, <1>3

(* The value stored in 16 bits, and cut to a byte. *)
LEMMA ShortUnsigned == ASSUME NEW q \in Int PROVE Cut(q) \in Nat
  BY DEF Cut

(* The gray of a quotient is a byte.                                       *)
LEMMA ByteOfTyped == ASSUME NEW r \in Nat PROVE ByteOf(r) \in Bytes
  BY DEF ByteOf, Bytes

(* The gray of a depth is a byte.                                          *)
LEMMA ByteTyped ==
  ASSUME NEW s \in Int, NEW d \in Nat
  PROVE  ByteAt(s, d) \in Bytes
<1>1. QuotientAt(s, d) \in Int
  BY QuotientTyped
<1>2. \A q \in Int : ByteOf(Cut(q)) \in Bytes
  BY ShortUnsigned, ByteOfTyped
<1>3. QED
  BY <1>1, <1>2 DEF ByteAt

(* The operators of the model, which read the state, are these.            *)
LEMMA DepthByteRead ==
  \A d : DepthByte(d) = ByteAt(scale, d)
  BY DEF DepthByte, Scaled, PixMaxValue, PixMinDistanceMm, ByteAt, ByteOf,
         Cut, QuotientAt

(* The color part of the invariant says what the property says.            *)
LEMMA ColorsRead == ColorInv <=> ColorsOfTheFrame
  BY DEF ColorInv, ColorsOfTheFrame, Matches, BlueRight, RedRight,
         GreenRight, Luma, U, V

------------------------------------------------------------------------------
(* Which pixels have been converted, where the loop stands still. *)
LEMMA ConvertedStays ==
  ASSUME UNCHANGED <<line, x>>, pc \notin {"idle", "start"},
         pc' \notin {"idle", "start"}
  PROVE  Converted' = Converted
  BY DEF Converted

(* None has at the beginning of a frame. *)
LEMMA NoneConverted ==
  ASSUME pc' \in {"idle", "start"} \/ (line' = 0 /\ x' = 0)
  PROVE  Converted' = {}
<1>1. CASE pc' \in {"idle", "start"}
  BY <1>1 DEF Converted
<1>2. CASE line' = 0 /\ x' = 0
  <2>1. Width \in Nat
    BY ConstantsAssumed DEF ConstantsTyped
  <2>2. line' * Width + x' = 0
    BY <1>2, <2>1
  <2>3. \A p \in Pixels : ~(p < 0)
    BY DEF Pixels
  <2>4. QED
    BY <2>2, <2>3 DEF Converted
<1>3. QED
  BY <1>1, <1>2

(* A step that leaves the images alone keeps what is known of them; a new  *)
(* frame comes when none of its pixels has been converted.                 *)
LEMMA QuietKeepsImages ==
  ASSUME EncodeInv, UNCHANGED <<format, scale, images>>,
         \/ Converted' = {}
         \/ /\ Converted' = Converted /\ frame' = frame
            /\ pc' \in {"convert", "features"} /\ format = "YUYV" => pc' = pc
  PROVE  ImageInv' /\ ColorInv' /\ DepthInv'
<1>1. ImageInv'
  BY DEF EncodeInv, ImageInv, images
<1>2. ColorInv'
  BY DEF EncodeInv, ColorInv, images
<1>3. DepthInv'
  BY DEF EncodeInv, DepthInv, images
<1>4. QED
  BY <1>1, <1>2, <1>3

(* Starting a conversion keeps the invariant.                              *)
LEMMA BeginKeeps ==
  ASSUME EncodeInv, Begin
  PROVE  EncodeInv'
<1>1. InputInv'
  BY DEF Begin, EncodeInv, InputInv, InLibjpeg, input
<1>2. LoopInv'
  <2>1. 2 * Width * Height \in Nat
    BY FrameSize
  <2>2. QED
    BY <2>1, ConstantsAssumed DEF Begin, LoopInv, ConstantsTyped
<1>3. ImageInv' /\ ColorInv' /\ DepthInv'
  <2>1. Converted' = {}
    BY NoneConverted DEF Begin
  <2>2. QED
    BY <2>1, QuietKeepsImages DEF Begin, input
<1>4. QED
  BY <1>1, <1>2, <1>3, BeginKeepsDest DEF EncodeInv

(* Writing into the output buffer keeps the invariant.                     *)
LEMMA EmitKeeps ==
  ASSUME EncodeInv, Emit
  PROVE  EncodeInv'
<1>1. UNCHANGED <<pc, input, loop, images>>
  BY DEF Emit
<1>2. InputInv'
  BY <1>1 DEF EncodeInv, InputInv, input
<1>3. LoopInv'
  BY <1>1 DEF EncodeInv, LoopInv, loop, input, Done
<1>4. Converted' = Converted
  BY <1>1 DEF Converted, loop
<1>5. ImageInv' /\ ColorInv' /\ DepthInv'
  BY <1>1, <1>4, QuietKeepsImages DEF input
<1>6. QED
  BY <1>2, <1>3, <1>5, EmitKeepsDest DEF EncodeInv

(* The calls of libjpeg and of the detector that return and change nothing *)
(* but the place in the function.                                          *)
LEMMA ReturnKeeps ==
  ASSUME EncodeInv, Started \/ NoStripes \/ NoDebugImage \/ Comment
                      \/ MarkerWritten \/ ScanlinesWritten
  PROVE  EncodeInv'
<1>1. UNCHANGED <<input, loop, images, dest, emitted>>
  BY DEF Started, NoStripes, NoDebugImage, Comment, MarkerWritten,
         ScanlinesWritten
<1>2. pc \notin {"idle", "done"} /\ pc' \notin {"idle", "start", "done"}
  BY DEF Started, NoStripes, NoDebugImage, Comment, MarkerWritten,
         ScanlinesWritten
<1>3. InputInv'
  BY <1>1 DEF EncodeInv, InputInv, input, InLibjpeg, Started, NoStripes,
              NoDebugImage, Comment, MarkerWritten, ScanlinesWritten
<1>4. LoopInv'
  <2> USE ConstantsAssumed DEF ConstantsTyped
  <2>1. Done' = Done
    BY <1>1 DEF Done, loop
  <2>2. CASE Started
    <3>1. Done = 0 /\ line = 0 /\ z = 0 /\ src = 0
      BY <2>2 DEF Started, EncodeInv, LoopInv, Done
    <3>2. src = 2 * (Done - z) /\ src % 4 = 0 /\ src = 2 * Done
      BY <3>1
    <3>3. pc' = "convert" /\ line < Height
      BY <2>2, <3>1 DEF Started
    <3>4. QED
      BY <1>1, <2>1, <3>2, <3>3 DEF EncodeInv, LoopInv, loop, input
  <2>3. CASE ScanlinesWritten
    <3>1. pc = "scanlines" /\ pc' = IF line < Height THEN "convert" ELSE "finish"
      BY <2>3 DEF ScanlinesWritten
    <3>2. format = "YUYV" => ~(line < Height)
      BY <3>1 DEF EncodeInv, LoopInv
    <3>3. QED
      BY <1>1, <2>1, <3>1, <3>2 DEF EncodeInv, LoopInv, InputInv, loop, input
  <2>4. CASE NoStripes \/ NoDebugImage \/ Comment \/ MarkerWritten
    <3>1. pc \in {"features", "text", "marker"}
          /\ pc' \in {"text", "marker", "scanlines"}
      BY <2>4 DEF NoStripes, NoDebugImage, Comment, MarkerWritten
    <3>2. format = "YUYV" /\ line = Height
      BY <3>1 DEF EncodeInv, InputInv, LoopInv
    <3>3. QED
      BY <1>1, <2>1, <3>1, <3>2 DEF EncodeInv, LoopInv, loop, input
  <2>5. QED
    BY <2>2, <2>3, <2>4
<1>5. ImageInv' /\ ColorInv' /\ DepthInv'
  <2>1. CASE Started
    <3>1. line' = 0 /\ x' = 0
      BY <1>1, <2>1 DEF Started, EncodeInv, LoopInv, loop
    <3>2. QED
      BY <1>1, <3>1, NoneConverted, QuietKeepsImages DEF input
  <2>2. CASE ~Started
    <3>1. pc \notin {"idle", "start"}
      BY <2>2 DEF NoStripes, NoDebugImage, Comment, MarkerWritten,
                  ScanlinesWritten
    <3>2. Converted' = Converted
      BY <1>1, <1>2, <3>1, ConvertedStays DEF loop
    <3>3. pc' \in {"convert", "features"} => format = "Z16"
      BY <2>2 DEF NoStripes, NoDebugImage, Comment, MarkerWritten,
                  ScanlinesWritten, EncodeInv, InputInv, LoopInv
    <3>4. QED
      BY <1>1, <3>2, <3>3, QuietKeepsImages DEF input
  <2>3. QED
    BY <2>1, <2>2
<1>6. DestInv'
  BY <1>1, <1>2, QuietKeepsDest
<1>7. QED
  BY <1>3, <1>4, <1>5, <1>6 DEF EncodeInv

(* The step that paints into the gray image and makes a file of it.        *)
LEMMA WriteImageKeeps ==
  ASSUME EncodeInv, WriteImage
  PROVE  EncodeInv'
<1>1. pc = "features" /\ pc' = "text" /\ format = "YUYV" /\ line = Height
      /\ UNCHANGED <<input, loop, rgb, dest, emitted>>
  BY DEF WriteImage, EncodeInv, InputInv, LoopInv
<1>2. InputInv'
  BY <1>1 DEF EncodeInv, InputInv, input
<1>3. LoopInv'
  BY <1>1 DEF EncodeInv, LoopInv, loop, input, Done
<1>4. Converted' = Converted
  BY <1>1, ConvertedStays DEF loop
<1>5. ImageInv'
  <2>1. gray' \in [Pixels -> Bytes]
    BY DEF WriteImage, EncodeInv, ImageInv, AnnotationColor, Bytes
  <2>2. CASE bitmap' = <<BitmapFile(Width, Height, gray')>> /\ drawn' = gray'
    BY <1>1, <2>1, <2>2 DEF EncodeInv, ImageInv
  <2>3. CASE UNCHANGED <<bitmap, drawn>>
    BY <1>1, <2>1, <2>3 DEF EncodeInv, ImageInv
  <2>4. QED
    BY <2>2, <2>3 DEF WriteImage
<1>6. ColorInv' /\ DepthInv'
  BY <1>1, <1>4 DEF EncodeInv, ColorInv, DepthInv, input
<1>7. DestInv'
  BY <1>1, QuietKeepsDest
<1>8. QED
  BY <1>2, <1>3, <1>5, <1>6, <1>7 DEF EncodeInv

(* Flushing the output buffer keeps the invariant.                         *)
LEMMA FinishKeeps ==
  ASSUME EncodeInv, Finish
  PROVE  EncodeInv'
<1>1. pc = "finish" /\ pc' = "done" /\ UNCHANGED <<input, loop, images>>
  BY DEF Finish
<1>2. InputInv'
  BY <1>1 DEF EncodeInv, InputInv, input
<1>3. LoopInv'
  BY <1>1 DEF EncodeInv, LoopInv, loop, input, Done
<1>4. Converted' = Converted
  BY <1>1, ConvertedStays DEF loop
<1>5. ImageInv' /\ ColorInv' /\ DepthInv'
  BY <1>1, <1>4, QuietKeepsImages DEF input
<1>6. QED
  BY <1>2, <1>3, <1>5, FinishKeepsDest DEF EncodeInv

(* The next frame starts with the invariant.                               *)
LEMMA NextFrameKeeps ==
  ASSUME EncodeInv, NextFrame
  PROVE  EncodeInv'
<1>1. pc = "done" /\ pc' = "idle" /\ frame' \in Frames
      /\ UNCHANGED <<format, scale, loop, images, dest, emitted>>
  BY DEF NextFrame
<1>2. InputInv'
  BY <1>1 DEF EncodeInv, InputInv
<1>3. LoopInv'
  BY <1>1 DEF EncodeInv, LoopInv, loop
<1>4. ImageInv' /\ ColorInv' /\ DepthInv'
  BY <1>1, NoneConverted, QuietKeepsImages
<1>5. DestInv'
  BY <1>1, QuietKeepsDest
<1>6. QED
  BY <1>2, <1>3, <1>4, <1>5 DEF EncodeInv

------------------------------------------------------------------------------
(* The bytes of the frame a pair of pixels is made of. *)
LEMMA PlaceOfPair ==
  ASSUME NEW p \in Nat, NEW k \in {0, 1}, NEW s \in Nat,
         s = 2 * (p - k), s % 4 = 0
  PROVE  4 * (p \div 2) = s
  OBVIOUS

(* A step of the YUYV conversion writes one pixel, with the colors of the  *)
(* frame, and no other.                                                    *)
LEMMA ConvertYuyvPixel ==
  ASSUME EncodeInv, ConvertYuyv
  PROVE  /\ rgb' \in [Pixels -> Color] /\ gray' \in [Pixels -> Bytes]
         /\ Done \in Pixels
         /\ gray'[Done] = frame[2 * Done]
         /\ Matches(frame, rgb'[Done], Done)
         /\ \A p \in Pixels \ {Done} : gray'[p] = gray[p] /\ rgb'[p] = rgb[p]
<1> USE ConstantsAssumed DEF ConstantsTyped
<1>1. /\ pc = "convert" /\ format = "YUYV" /\ line < Height
      /\ src = 2 * (Done - z) /\ src % 4 = 0 /\ z \in {0, 1}
      /\ line \in 0 .. Height - 1 /\ x \in 0 .. Width - 1
      /\ NextPixel("convert", "features")
  BY DEF ConvertYuyv, EncodeInv, LoopInv
<1>2. Done \in Nat /\ Done < Width * Height /\ Width * Height \in Nat
  BY <1>1, NextPixelCounts, FrameSize
<1>3. Done \in Pixels
  BY <1>2 DEF Pixels
<1>4. src \in Nat /\ 4 * (Done \div 2) = src
  <2>1. src \in Nat
    BY <1>1, FrameSize DEF EncodeInv, LoopInv
  <2>2. QED
    BY <1>1, <1>2, <2>1, PlaceOfPair
<1>5. frame \in [FrameBytes -> Bytes]
  BY DEF EncodeInv, InputInv
<1>6. PICK behind \in Beyond :
        LET y == At(IF z = 0 THEN 0 ELSE 2, behind)
            p == line * Width + x
        IN  /\ rgb' = [rgb EXCEPT ![p] = ToRGB(y, At(1, behind) - 128,
                                                  At(3, behind) - 128)]
            /\ gray' = [gray EXCEPT ![p] = y]
  BY DEF ConvertYuyv
<1> DEFINE y == At(IF z = 0 THEN 0 ELSE 2, behind)
           u == At(1, behind) - 128
           v == At(3, behind) - 128
<1>7. rgb' = [rgb EXCEPT ![Done] = ToRGB(y, u, v)]
      /\ gray' = [gray EXCEPT ![Done] = y]
  BY <1>6 DEF Done
<1>8. y = frame[2 * Done] /\ y \in Bytes
  <2>1. 2 * Done \in FrameBytes
    BY <1>2, FrameSize
  <2>2. src + (IF z = 0 THEN 0 ELSE 2) = 2 * Done
    BY <1>1, <1>2
  <2>3. QED
    BY <1>5, <2>1, <2>2 DEF At
<1>9. u = frame[4 * (Done \div 2) + 1] - 128 /\ u \in -128 .. 127
  <2>1. src + 1 \in FrameBytes
    BY <1>1, <1>2, <1>4, FrameSize
  <2>2. At(1, behind) = frame[src + 1] /\ At(1, behind) \in Bytes
    BY <1>5, <2>1 DEF At
  <2>3. QED
    BY <1>4, <2>2 DEF Bytes
<1>10. /\ v \in -128 .. 127
       /\ 4 * (Done \div 2) + 3 \in FrameBytes =>
            v = frame[4 * (Done \div 2) + 3] - 128
  <2>1. At(3, behind) \in Bytes
        /\ (src + 3 \in FrameBytes => At(3, behind) = frame[src + 3])
    BY <1>5 DEF At
  <2>2. QED
    BY <1>4, <2>1 DEF Bytes
<1> HIDE DEF y, u, v
<1>11. ToRGB(y, u, v) \in Color
  BY <1>8, <1>9, <1>10, ColorTyped
<1>12. /\ rgb' \in [Pixels -> Color] /\ gray' \in [Pixels -> Bytes]
       /\ gray'[Done] = y /\ rgb'[Done] = ToRGB(y, u, v)
       /\ \A p \in Pixels \ {Done} : gray'[p] = gray[p] /\ rgb'[p] = rgb[p]
  BY <1>3, <1>7, <1>8, <1>11 DEF EncodeInv, ImageInv
<1>13. Matches(frame, rgb'[Done], Done)
  <2>1. /\ BlueRight(rgb'[Done], y, u) /\ RedRight(rgb'[Done], y, v)
        /\ GreenRight(rgb'[Done], y, u, v)
    <3>1. y \in Bytes /\ u \in -128 .. 127 /\ v \in -128 .. 127
      BY <1>8, <1>9, <1>10
    <3>2. /\ BlueRight(ToRGB(y, u, v), y, u) /\ RedRight(ToRGB(y, u, v), y, v)
          /\ GreenRight(ToRGB(y, u, v), y, u, v)
      BY <3>1, BlueIsClose, RedIsClose, GreenIsClose
    <3>3. QED
      BY <1>12, <3>2
  <2> DEFINE f(n) == frame[4 * (Done \div 2) + n] - 128
  <2>2. BlueRight(rgb'[Done], frame[2 * Done], f(1))
    BY <1>8, <1>9, <2>1
  <2>3. ASSUME 4 * (Done \div 2) + 3 \in FrameBytes
        PROVE  /\ RedRight(rgb'[Done], frame[2 * Done], f(3))
               /\ GreenRight(rgb'[Done], frame[2 * Done], f(1), f(3))
    BY <1>8, <1>9, <1>10, <2>1, <2>3
  <2>4. QED
    BY <2>2, <2>3 DEF Matches
<1>14. QED
  BY <1>3, <1>8, <1>12, <1>13

(* Hence it keeps the invariant.                                           *)
LEMMA ConvertYuyvKeeps ==
  ASSUME EncodeInv, ConvertYuyv
  PROVE  EncodeInv'
<1> USE ConstantsAssumed DEF ConstantsTyped
<1>1. /\ pc = "convert" /\ format = "YUYV" /\ NextPixel("convert", "features")
      /\ z' = 1 - z /\ src' = src + 4 * z
      /\ UNCHANGED <<input, bitmap, drawn, dest, emitted>>
  BY DEF ConvertYuyv
<1>2. /\ line \in 0 .. Height - 1 /\ x \in 0 .. Width - 1 /\ z \in {0, 1}
      /\ src = 2 * (Done - z) /\ src % 4 = 0
      /\ src \in 0 .. 2 * Width * Height
  BY <1>1 DEF EncodeInv, LoopInv
<1>3. /\ Done \in Nat /\ Done < Width * Height /\ Done' = Done + 1
      /\ line' \in 0 .. Height /\ x' \in 0 .. Width - 1
      /\ \/ pc' = "convert" /\ line' < Height
         \/ pc' = "features" /\ line' = Height
  <2>1. /\ Done \in Nat /\ Done < Width * Height /\ Done' = Done + 1
        /\ line' \in 0 .. Height /\ x' \in 0 .. Width - 1
    BY <1>1, <1>2, NextPixelCounts
  <2>2. \/ pc' = "convert" /\ line' < Height
        \/ pc' = "features" /\ line' = Height
    <3>1. CASE x + 1 < Width
      BY <1>1, <1>2, <3>1 DEF NextPixel
    <3>2. CASE ~(x + 1 < Width)
      <4>1. line' = line + 1
            /\ pc' = IF line + 1 < Height THEN "convert" ELSE "features"
        BY <1>1, <3>2 DEF NextPixel
      <4>2. line + 1 < Height \/ line + 1 = Height
        BY <1>2
      <4>3. QED
        BY <4>1, <4>2
    <3>3. QED
      BY <3>1, <3>2
  <2>3. QED
    BY <2>1, <2>2
<1>4. InputInv'
  BY <1>1, <1>3 DEF EncodeInv, InputInv, input, InLibjpeg
<1>5. LoopInv'
  <2>1. z' \in {0, 1} /\ src' = 2 * (Done' - z')
    BY <1>1, <1>2, <1>3
  <2>2. src' % 4 = 0
    BY <1>1, <1>2, FrameSize
  <2>3. src' \in 0 .. 2 * Width * Height
    <3>1. src \in Nat
      BY <1>2, FrameSize
    <3>2. src' \in Nat
      BY <1>1, <1>2, <3>1
    <3>3. src' = 2 * (Done + 1 - z')
      BY <1>3, <2>1
    <3>4. \A d \in Nat, k \in {0, 1}, s \in Nat :
             d < Width * Height /\ s = 2 * (d + 1 - k)
               => s \in 0 .. 2 * Width * Height
      BY InsideFrame
    <3>5. Done \in Nat /\ z' \in {0, 1} /\ Done < Width * Height
      BY <1>3, <2>1
    <3>6. QED
      BY <3>2, <3>3, <3>4, <3>5, Zenon
  <2>4. QED
    BY <1>1, <1>3, <2>1, <2>2, <2>3 DEF LoopInv, input
<1>6. Converted' \subseteq Pixels
      /\ \A p \in Converted' : p \in Converted \/ p = Done
  BY <1>1, <1>3, OnePixelMore
<1>7. ImageInv'
  BY <1>1, ConvertYuyvPixel DEF EncodeInv, ImageInv
<1>8. ColorInv'
  <2>1. ASSUME NEW p \in Converted'
        PROVE  gray'[p] = frame[2 * p] /\ Matches(frame, rgb'[p], p)
    <3>1. CASE p = Done
      BY <3>1, ConvertYuyvPixel
    <3>2. CASE p # Done
      <4>1. p \in Converted /\ p \in Pixels \ {Done}
        BY <1>6, <3>2
      <4>2. gray[p] = frame[2 * p] /\ Matches(frame, rgb[p], p)
        BY <1>1, <4>1 DEF EncodeInv, ColorInv
      <4>3. QED
        BY <4>1, <4>2, ConvertYuyvPixel
    <3>3. QED
      BY <3>1, <3>2
  <2>2. frame' = frame
    BY <1>1 DEF input
  <2>3. QED
    BY <2>1, <2>2 DEF ColorInv
<1>9. DepthInv'
  BY <1>1 DEF DepthInv, input
<1>10. DestInv'
  BY <1>1, <1>3, QuietKeepsDest
<1>11. QED
  BY <1>4, <1>5, <1>7, <1>8, <1>9, <1>10 DEF EncodeInv

(* One depth: the byte at src and the one behind it are those of the pixel *)
(* the loop is at.                                                         *)
LEMMA ConvertZ16Pixel ==
  ASSUME EncodeInv, ConvertZ16
  PROVE  /\ gray' \in [Pixels -> Bytes] /\ Done \in Pixels
         /\ gray'[Done] = ByteAt(scale, DepthAt(frame, Done))
         /\ \A p \in Pixels \ {Done} : gray'[p] = gray[p]
<1> USE ConstantsAssumed DEF ConstantsTyped
<1>1. /\ pc = "convert" /\ format = "Z16" /\ line < Height /\ src = 2 * Done
      /\ line \in 0 .. Height - 1 /\ x \in 0 .. Width - 1
      /\ NextPixel("scanlines", "scanlines")
  BY DEF ConvertZ16, EncodeInv, LoopInv
<1>2. Done \in Nat /\ Done < Width * Height /\ Width * Height \in Nat
  BY <1>1, NextPixelCounts, FrameSize
<1>3. Done \in Pixels
  BY <1>2 DEF Pixels
<1>4. frame \in [FrameBytes -> Bytes] /\ scale \in Int
  BY DEF EncodeInv, InputInv
<1>5. frame[src] + 256 * frame[src + 1] = DepthAt(frame, Done)
  BY <1>1 DEF DepthAt
<1>6. gray' = [gray EXCEPT ![Done] = ByteAt(scale, DepthAt(frame, Done))]
  BY <1>5, DepthByteRead DEF ConvertZ16, Done
<1>7. ByteAt(scale, DepthAt(frame, Done)) \in Bytes
  <2>1. 2 * Done \in FrameBytes /\ 2 * Done + 1 \in FrameBytes
    BY <1>2, FrameSize
  <2>2. frame[2 * Done] \in Nat /\ frame[2 * Done + 1] \in Nat
    BY <1>4, <2>1 DEF Bytes
  <2>3. \A low, high \in Nat : low + 256 * high \in Nat
    OBVIOUS
  <2>4. DepthAt(frame, Done) \in Nat
    BY <2>2, <2>3 DEF DepthAt
  <2>5. QED
    BY <1>4, <2>4, ByteTyped
<1>8. QED
  BY <1>3, <1>6, <1>7 DEF EncodeInv, ImageInv

(* And so does a step of the Z16 conversion.                               *)
LEMMA ConvertZ16Keeps ==
  ASSUME EncodeInv, ConvertZ16
  PROVE  EncodeInv'
<1> USE ConstantsAssumed DEF ConstantsTyped
<1>1. /\ pc = "convert" /\ format = "Z16"
      /\ NextPixel("scanlines", "scanlines") /\ src' = src + 2
      /\ UNCHANGED <<input, z, rgb, bitmap, drawn, dest, emitted>>
  BY DEF ConvertZ16
<1>2. /\ line \in 0 .. Height - 1 /\ x \in 0 .. Width - 1 /\ z \in {0, 1}
      /\ src = 2 * Done
  BY <1>1 DEF EncodeInv, LoopInv
<1>3. /\ Done \in Nat /\ Done < Width * Height /\ Done' = Done + 1
      /\ line' \in 0 .. Height /\ x' \in 0 .. Width - 1
      /\ \/ pc' = "convert" /\ line' < Height
         \/ pc' = "scanlines"
  <2>1. /\ Done \in Nat /\ Done < Width * Height /\ Done' = Done + 1
        /\ line' \in 0 .. Height /\ x' \in 0 .. Width - 1
    BY <1>1, <1>2, NextPixelCounts
  <2>2. \/ pc' = "convert" /\ line' < Height
        \/ pc' = "scanlines"
    BY <1>1, <1>2 DEF NextPixel
  <2>3. QED
    BY <2>1, <2>2
<1>4. InputInv'
  BY <1>1, <1>3 DEF EncodeInv, InputInv, input, InLibjpeg
<1>5. LoopInv'
  <2>1. src' = 2 * Done' /\ src' \in 0 .. 2 * Width * Height
    BY <1>1, <1>2, <1>3, FrameSize
  <2>2. QED
    BY <1>1, <1>2, <1>3, <2>1 DEF LoopInv, input
<1>6. Converted' \subseteq Pixels
      /\ \A p \in Converted' : p \in Converted \/ p = Done
  BY <1>1, <1>3, OnePixelMore
<1>7. ImageInv'
  BY <1>1, ConvertZ16Pixel DEF EncodeInv, ImageInv
<1>8. ColorInv'
  BY <1>1 DEF ColorInv, input
<1>9. DepthInv'
  <2>1. ASSUME NEW p \in Converted'
        PROVE  gray'[p] = ByteAt(scale, DepthAt(frame, p))
    <3>1. CASE p = Done
      BY <3>1, ConvertZ16Pixel
    <3>2. CASE p # Done
      <4>1. p \in Converted /\ p \in Pixels \ {Done}
        BY <1>6, <3>2
      <4>2. gray[p] = ByteAt(scale, DepthAt(frame, p))
        BY <1>1, <4>1 DEF EncodeInv, DepthInv
      <4>3. QED
        BY <4>1, <4>2, ConvertZ16Pixel
    <3>3. QED
      BY <3>1, <3>2
  <2>2. UNCHANGED <<frame, scale>>
    BY <1>1 DEF input
  <2>3. QED
    BY <2>1, <2>2 DEF DepthInv
<1>10. DestInv'
  BY <1>1, <1>3, QuietKeepsDest
<1>11. QED
  BY <1>4, <1>5, <1>7, <1>8, <1>9, <1>10 DEF EncodeInv

(* Every step keeps the invariant. *)
LEMMA EncodeStep == EncodeInv /\ [Next]_vars => EncodeInv'
<1> SUFFICES ASSUME EncodeInv, [Next]_vars PROVE EncodeInv'
  OBVIOUS
<1>1. CASE Begin
  BY <1>1, BeginKeeps
<1>2. CASE Emit
  BY <1>2, EmitKeeps
<1>3. CASE ConvertYuyv
  BY <1>3, ConvertYuyvKeeps
<1>4. CASE ConvertZ16
  BY <1>4, ConvertZ16Keeps
<1>5. CASE WriteImage
  BY <1>5, WriteImageKeeps
<1>6. CASE Finish
  BY <1>6, FinishKeeps
<1>7. CASE NextFrame
  BY <1>7, NextFrameKeeps
<1>8. CASE Started \/ NoStripes \/ NoDebugImage \/ Comment \/ MarkerWritten
           \/ ScanlinesWritten
  BY <1>8, ReturnKeeps
<1>9. CASE UNCHANGED vars
  BY <1>9 DEF vars, EncodeInv, InputInv, LoopInv, ImageInv, ColorInv,
              DepthInv, DestInv, Converted, Done
<1>10. QED
  BY <1>1, <1>2, <1>3, <1>4, <1>5, <1>6, <1>7, <1>8, <1>9 DEF Next

(* The invariant holds in every behaviour. *)
LEMMA EncodeInvHolds == Spec => []EncodeInv
  BY EncodeInvInitially, EncodeStep, PTL DEF Spec

------------------------------------------------------------------------------
(* A file of bitmap.c, for every width: a reader that takes a row for the  *)
(* 32-bit words its bits need finds the rows where they were copied.       *)
LEMMA RowsArePadded ==
  ASSUME NEW w \in Nat \ {0}
  PROVE  Stride(w) \in Nat \ {0} /\ w <= Stride(w)
         /\ 4 * ((w * 8 + 31) \div 32) = Stride(w)
  BY DEF Stride, Padding

(* Row and column are read back from an offset.                            *)
LEMMA PlaceInRow ==
  ASSUME NEW row \in Nat, NEW s \in Nat \ {0}, NEW column \in 0 .. s - 1
  PROVE  (row * s + column) \div s = row /\ (row * s + column) % s = column
  OBVIOUS

(* The byte of a bitmap's body at a pixel of the image.                    *)
LEMMA BodyAt ==
  ASSUME NEW w, NEW h, NEW image, NEW o \in 0 .. h * Stride(w) - 1,
         NEW row, NEW column, o \div Stride(w) = row,
         o % Stride(w) = column, column < w
  PROVE  Body(w, h, image)[o] = image[row * w + column]
  BY DEF Body

(* A row of the image is found at a multiple of the stride.                *)
LEMMA BodyHoldsRows ==
  ASSUME NEW w \in Nat \ {0}, NEW h \in Nat \ {0}, NEW image,
         NEW column \in 0 .. w - 1, NEW row \in 0 .. h - 1
  PROVE  Body(w, h, image)[row * Stride(w) + column] = image[row * w + column]
<1> DEFINE s == Stride(w)
           o == row * s + column
<1>1. s \in Nat \ {0} /\ w <= s
  BY RowsArePadded
<1> HIDE DEF s
<1>2. column \in 0 .. s - 1 /\ column < w /\ row \in Nat /\ row < h
  BY <1>1
<1>3. o \div s = row /\ o % s = column
  BY <1>1, <1>2, PlaceInRow
<1>4. row * s \in Nat /\ row * s + s <= h * s /\ h * s \in Nat
  BY <1>1, <1>2, RowsAndColumns
<1>5. o \in 0 .. h * s - 1
  BY <1>1, <1>2, <1>4
<1> HIDE DEF o
<1>6. Body(w, h, image)[o] = image[row * w + column]
  BY <1>2, <1>3, <1>5, BodyAt DEF s
<1>7. QED
  BY <1>6 DEF o, s

(* A reader of the file sees the image.                                    *)
LEMMA BitmapShowsImage ==
  ASSUME NEW w \in Nat \ {0}, NEW h \in Nat \ {0}, NEW image
  PROVE  Shows(BitmapFile(w, h, image), w, h, image)
<1> DEFINE file == BitmapFile(w, h, image)
<1>1. /\ file.biWidth = w /\ file.biHeight = -h
      /\ file.body = Body(w, h, image)
      /\ file.bfSize = FileHeader + InfoHeader + ColorTable + h * Stride(w)
      /\ file.bfOffBytes = FileHeader + InfoHeader + ColorTable
  BY DEF BitmapFile
<1>2. DOMAIN Body(w, h, image) = 0 .. h * Stride(w) - 1
  BY DEF Body
<1> HIDE DEF file
<1>3. RowsIn(file) = h /\ file.biHeight < 0
  BY <1>1 DEF RowsIn
<1>4. RowBytes(file) = Stride(w)
  BY <1>1, RowsArePadded DEF RowBytes
<1>5. file.bfSize - file.bfOffBytes = h * Stride(w)
  <2>1. h * Stride(w) \in Nat
    BY RowsArePadded
  <2>2. QED
    BY <1>1, <2>1 DEF FileHeader, InfoHeader, ColorTable
<1>6. ASSUME NEW column \in 0 .. w - 1, NEW row \in 0 .. h - 1
      PROVE  PixelAt(file, column, row) = image[row * w + column]
  BY <1>1, <1>3, <1>4, BodyHoldsRows DEF PixelAt
<1>7. QED
  BY <1>1, <1>2, <1>3, <1>4, <1>5, <1>6 DEF Shows, file

(* What the invariant says of the debug image. *)
LEMMA ImageFromInv == EncodeInv => DebugImageReadable
<1> SUFFICES ASSUME EncodeInv, NEW n \in DOMAIN bitmap
             PROVE  Shows(bitmap[n], Width, Height, drawn)
  BY DEF DebugImageReadable
<1>1. bitmap[n] = BitmapFile(Width, Height, drawn)
  BY DEF EncodeInv, ImageInv
<1>2. Width \in Nat \ {0} /\ Height \in Nat \ {0}
  BY ConstantsAssumed DEF ConstantsTyped
<1>3. QED
  BY <1>1, <1>2, BitmapShowsImage

(* What the invariant says of the stream. *)
LEMMA StreamFromInv == EncodeInv => StreamDelivered
<1> SUFFICES ASSUME EncodeInv PROVE StreamDelivered
  OBVIOUS
<1> USE ConstantsAssumed DEF ConstantsTyped
<1> DEFINE used == OutputBufSize - free_in_buffer
           S == 0 .. MaxStream
<1>1. /\ buffer \in [1 .. OutputBufSize -> S] /\ used \in 0 .. OutputBufSize
      /\ outbuffer \in Seq(S) /\ Len(outbuffer) = cursor /\ cursor \in Nat
      /\ emitted \in Nat
  BY DEF EncodeInv, DestInv
<1>2. CASE pc \in InLibjpeg
  <2>1. emitted = cursor + used
    BY <1>1, <1>2 DEF EncodeInv, DestInv, InLibjpeg
  <2>2. /\ \A n \in 1 .. Len(outbuffer) : outbuffer[n] = n
        /\ \A n \in 1 .. used : buffer[n] = Len(outbuffer) + n
    BY <1>1, <1>2 DEF EncodeInv, DestInv, InLibjpeg
  <2> DEFINE d == Appended(outbuffer, buffer, used)
  <2>3. /\ OutputBufSize \in Nat /\ used \in 0 .. OutputBufSize
        /\ outbuffer \in Seq(S) /\ buffer \in [1 .. OutputBufSize -> S]
    BY <1>1
  <2> HIDE DEF used, S
  <2>4. /\ d \in Seq(S) /\ Len(d) = Len(outbuffer) + used
        /\ \A n \in 1 .. Len(outbuffer) + used : d[n] = n
    BY <2>2, <2>3, DeliveredInOrder
  <2>5. SubSeq(outbuffer, 1, Len(outbuffer)) = outbuffer
    BY <1>1, SubSeqFull
  <2>6. d = outbuffer \o SubSeq(buffer, 1, used)
    BY <2>5 DEF Appended
  <2> HIDE DEF d
  <2>7. d = [n \in 1 .. emitted |-> n]
    BY <1>1, <2>1, <2>4, Counting
  <2>8. QED
    BY <1>2, <2>6, <2>7 DEF StreamDelivered, InLibjpeg, used
<1>3. CASE pc = "done"
  <2>1. emitted = cursor /\ written = cursor
        /\ \A n \in 1 .. cursor : outbuffer[n] = n
    BY <1>3 DEF EncodeInv, DestInv
  <2>2. outbuffer = [n \in 1 .. emitted |-> n]
    BY <1>1, <2>1, Counting
  <2>3. QED
    BY <1>3, <2>1, <2>2 DEF StreamDelivered, InLibjpeg
<1>4. QED
  BY <1>2, <1>3 DEF StreamDelivered

(* What the invariant says of the types. *)
LEMMA TypesFromInv == EncodeInv => TypeOK
<1> SUFFICES ASSUME EncodeInv PROVE TypeOK
  OBVIOUS
<1>1. bitmap = <<>> \/ bitmap = <<BitmapFile(Width, Height, drawn)>>
  BY DEF EncodeInv, ImageInv
<1>2. Len(bitmap) <= 1
  <2>1. CASE bitmap = <<>>
    BY <2>1
  <2>2. CASE bitmap = <<BitmapFile(Width, Height, drawn)>>
    <3>1. \A file : Len(<<file>>) = 1
      OBVIOUS
    <3>2. QED
      BY <2>2, <3>1
  <2>3. QED
    BY <1>1, <2>1, <2>2
<1>3. QED
  BY <1>2 DEF EncodeInv, TypeOK, InputInv, LoopInv, ImageInv, DestInv

(* The depths of a frame, and what a scale that is not negative makes of   *)
(* one: no quotient is cut to 16 bits.                                     *)
StepOf(s) == IF s = 0 THEN 20 ELSE s

StepsIn(d, step) == d \div step

(* Two bytes, the low one first, are a 16-bit number.                      *)
LEMMA TwoBytes ==
  ASSUME NEW low \in 0 .. 255, NEW high \in 0 .. 255
  PROVE  low + 256 * high \in Nat /\ low + 256 * high < 65536
  OBVIOUS

(* A depth of the frame is a 16-bit number.                                *)
LEMMA DepthTyped ==
  ASSUME NEW f \in [FrameBytes -> Bytes], NEW p \in Pixels
  PROVE  DepthAt(f, p) \in Nat /\ DepthAt(f, p) < 65536
<1>1. p \in Nat /\ p < Width * Height
  BY FrameSize DEF Pixels
<1>2. 2 * p \in FrameBytes /\ 2 * p + 1 \in FrameBytes
  BY <1>1, FrameSize
<1>3. f[2 * p] \in 0 .. 255 /\ f[2 * p + 1] \in 0 .. 255
  BY <1>2 DEF Bytes
<1>4. PICK low \in 0 .. 255, high \in 0 .. 255 :
        low = f[2 * p] /\ high = f[2 * p + 1]
  BY <1>3
<1>5. DepthAt(f, p) = low + 256 * high
  BY <1>4 DEF DepthAt
<1>6. QED
  BY <1>5, TwoBytes

(* The number of steps in a depth is at most the depth.                    *)
LEMMA StepsTyped ==
  ASSUME NEW d \in Nat, NEW step \in Nat \ {0}
  PROVE  StepsIn(d, step) \in Nat /\ StepsIn(d, step) <= d
  BY DEF StepsIn

(* A 16-bit number is not changed by the unsigned short.                   *)
LEMMA NothingCut ==
  ASSUME NEW q \in Nat, q < 65536
  PROVE  Cut(q) = q
  BY DEF Cut

(* For a scale that is not negative, the gray is that of the number of     *)
(* steps.                                                                  *)
LEMMA ByteAtStep ==
  ASSUME NEW s \in Nat, NEW d \in Nat, d < 65536
  PROVE  /\ StepOf(s) \in Nat \ {0} /\ StepsIn(d, StepOf(s)) \in Nat
         /\ ByteAt(s, d) = ByteOf(StepsIn(d, StepOf(s)))
<1>1. StepOf(s) \in Nat \ {0}
  BY DEF StepOf
<1>2. QuotientAt(s, d) = StepsIn(d, StepOf(s))
  BY DEF QuotientAt, StepOf, StepsIn
<1>3. StepsIn(d, StepOf(s)) \in Nat /\ StepsIn(d, StepOf(s)) <= d
  BY <1>1, StepsTyped
<1>4. Cut(StepsIn(d, StepOf(s))) = StepsIn(d, StepOf(s))
  <2>1. StepsIn(d, StepOf(s)) < 65536
    BY <1>3
  <2>2. QED
    BY <1>3, <2>1, NothingCut
<1>5. QED
  BY <1>1, <1>2, <1>3, <1>4 DEF ByteAt

(* A quotient, and a byte that stands for it. *)
LEMMA ByteIsAStep ==
  ASSUME NEW d \in Nat, NEW step \in Nat \ {0}, NEW byte,
         byte = ByteOf(StepsIn(d, step))
  PROVE  step * byte <= d /\ (byte < 255 => d < step * (byte + 1))
<1> DEFINE q == StepsIn(d, step)
<1>1. q \in Nat /\ step * q <= d /\ d < step * q + step
  BY DEF StepsIn
<1>2. byte = IF q > 255 THEN 255 ELSE q
  BY DEF ByteOf
<1> HIDE DEF q
<1>3. step * q \in Nat /\ step * (q + 1) = step * q + step
  BY <1>1
<1>4. CASE q > 255
  <2>1. byte = 255
    BY <1>2, <1>4
  <2>2. 255 * step + step <= q * step
    BY <1>1, <1>4, RowsAndColumns
  <2>3. q * step = step * q
    BY <1>1
  <2>4. step * 255 <= d
    BY <1>1, <1>3, <2>2, <2>3
  <2>5. QED
    BY <2>1, <2>4
<1>5. CASE ~(q > 255)
  <2>1. byte = q
    BY <1>2, <1>5
  <2>2. QED
    BY <1>1, <1>3, <2>1
<1>6. QED
  BY <1>4, <1>5

(* More steps are no darker.                                               *)
LEMMA BytesGrow ==
  ASSUME NEW a \in Nat, NEW b \in Nat, a <= b
  PROVE  ByteOf(a) <= ByteOf(b)
  BY DEF ByteOf

(* What the invariant says of the depths. *)
LEMMA DepthsFromInv == EncodeInv => DepthsOrdered
<1> SUFFICES ASSUME EncodeInv, format = "Z16", scale >= 0
             PROVE  DepthsOrdered
  BY DEF DepthsOrdered
<1>1. scale \in Nat /\ frame \in [FrameBytes -> Bytes]
  BY ConstantsAssumed DEF EncodeInv, InputInv, ConstantsTyped
<1>2. \A p \in Converted : p \in Pixels
  BY DEF Converted
<1>3. \A p \in Converted : gray[p] = ByteAt(scale, DepthAt(frame, p))
  BY DEF EncodeInv, DepthInv
<1>4. \A p \in Converted : Depth(p) = DepthAt(frame, p)
  BY DEF Depth, DepthAt
<1>5. ASSUME NEW p \in Converted
      PROVE  /\ Depth(p) \in Nat /\ Depth(p) < 65536
             /\ gray[p] = ByteAt(scale, Depth(p))
  <2>1. DepthAt(frame, p) \in Nat /\ DepthAt(frame, p) < 65536
    BY <1>1, <1>2, DepthTyped
  <2>2. QED
    BY <1>3, <1>4, <2>1
<1>6. StepOf(scale) \in Nat \ {0}
  BY <1>1 DEF StepOf
<1>7. ASSUME NEW p \in Converted
      PROVE  /\ Depth(p) \in Nat /\ StepsIn(Depth(p), StepOf(scale)) \in Nat
             /\ gray[p] = ByteOf(StepsIn(Depth(p), StepOf(scale)))
  <2>1. Depth(p) \in Nat /\ Depth(p) < 65536 /\ gray[p] = ByteAt(scale, Depth(p))
    BY <1>5
  <2>2. QED
    BY <1>1, <2>1, ByteAtStep
<1>8. ASSUME NEW p \in Converted, NEW q \in Converted, Depth(p) <= Depth(q)
      PROVE  gray[p] <= gray[q]
  <2>1. StepsIn(Depth(p), StepOf(scale)) <= StepsIn(Depth(q), StepOf(scale))
    BY <1>6, <1>7, <1>8, QuotientGrows DEF StepsIn
  <2>2. QED
    BY <1>7, <2>1, BytesGrow
<1>9. ASSUME NEW p \in Converted
      PROVE  /\ StepOf(scale) * gray[p] <= Depth(p)
             /\ gray[p] < 255 => Depth(p) < StepOf(scale) * (gray[p] + 1)
  BY <1>6, <1>7, ByteIsAStep
<1>10. QED
  BY <1>8, <1>9 DEF DepthsOrdered, StepOf

------------------------------------------------------------------------------
(* Every variable of the conversion and of the destination manager keeps   *)
(* its type: no index leaves the frame or the buffer.                      *)
THEOREM EncodeTypeCorrect == Spec => []TypeOK
  BY EncodeInvHolds, TypesFromInv, PTL

(* Every pixel converted has the colour of its place in this frame, also   *)
(* where a pair of pixels lies across two lines: the loop is at the pair   *)
(* its pixel belongs to, and no pixel behind it is touched.                *)
THEOREM ColorsOfTheFrameHolds == Spec => []ColorsOfTheFrame
<1>1. EncodeInv => ColorsOfTheFrame
  BY ColorsRead DEF EncodeInv
<1>2. QED
  BY <1>1, EncodeInvHolds, PTL

(* Nearer is never brighter, and a brightness is one step of the scale,    *)
(* whatever scale that is not negative is set.                             *)
THEOREM DepthsOrderedHolds == Spec => []DepthsOrdered
  BY EncodeInvHolds, DepthsFromInv, PTL

(* The bytes of libjpeg reach the caller once each, in order, for every    *)
(* size of the buffer and every length of the stream.                      *)
THEOREM StreamDeliveredHolds == Spec => []StreamDelivered
  BY EncodeInvHolds, StreamFromInv, PTL

(* The debug image reads as what was painted, for every width and height.  *)
THEOREM DebugImageReadableHolds == Spec => []DebugImageReadable
  BY EncodeInvHolds, ImageFromInv, PTL
=============================================================================
