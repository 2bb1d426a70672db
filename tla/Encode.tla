------------------------------- MODULE Encode -------------------------------
(***************************************************************************)
(* image_utils.c: a captured frame is converted pixel by pixel to what     *)
(* libjpeg takes, YUYV to RGB or 16-bit depth to one byte, and the bytes   *)
(* libjpeg makes of it are passed on by the destination manager, a full    *)
(* buffer of OUTPUT_BUF_SIZE at a time.  The working images are static and *)
(* keep what the frame before left in them.                                *)
(*                                                                         *)
(* libjpeg is external.  Inside each of its calls it may put out any       *)
(* number of bytes; a byte is its number in the stream.  What the stripe   *)
(* detector does between the conversion and the compression (StripeFilter) *)
(* is: it may paint over the gray image and write it to a bitmap, and it   *)
(* may have a text for the comment.                                        *)
(***************************************************************************)
EXTENDS Bitmap, Sequences, FiniteSets

CONSTANTS
  Width, Height,     \* the size of the frame
  Frames,            \* what the framebuffer may hold
  Beyond,            \* what the bytes behind the framebuffer may be
  Scales,            \* settings.mm_scale
  Annotations,       \* the sets of offsets sf_write_image may paint
  OutputBufSize,     \* OUTPUT_BUF_SIZE
  MaxStream          \* bound: the bytes libjpeg makes of one frame

Pixels == 0 .. Width * Height - 1
FrameBytes == 0 .. 2 * Width * Height - 1
Bytes == 0 .. 255
PixMaxValue == 255           \* PIX_MAX_VALUE
PixMinDistanceMm == 20       \* PIX_MIN_DISTANCE_MM
AnnotationColor == 1         \* SF_GRADIENT_POSITIVE_ANNOTATION_COLOR, for all

ASSUME SizeAssumption == Width \in Nat \ {0} /\ Height \in Nat \ {0}
ASSUME FramesAssumption ==
  Frames \subseteq [FrameBytes -> Bytes] /\ Beyond \subseteq Bytes
ASSUME ScalesAssumption == Scales \subseteq Int
ASSUME AnnotationsAssumption == Annotations \subseteq SUBSET Pixels
ASSUME BufferAssumption == OutputBufSize \in Nat \ {0} /\ MaxStream \in Nat

VARIABLES
  pc,               \* the call compress_*_to_jpeg is in
  format, scale,    \* settings.v4l2_format, settings.mm_scale
  frame,            \* the framebuffer
  line, x,          \* the loop variables
  z,                \* 1 for the second pixel of a pair
  src,              \* the offset of src in the framebuffer
  rgb,              \* frame_buffer: the RGB image
  gray,             \* p_gray_image; for depth, line_buffer of every line
  bitmap,           \* sf_image.bmp: none, or the file
  drawn,            \* history: the gray image the file was made of
  buffer,           \* dest->buffer
  free_in_buffer,   \* dest->pub.free_in_buffer
  cursor,           \* dest->outbuffer_cursor, as an offset
  outbuffer,        \* dest->outbuffer: what has been stored in it
  written,          \* the static counter that is returned
  emitted           \* the bytes libjpeg has made of the frame

input == <<format, scale, frame>>
loop == <<line, x, z, src>>
images == <<rgb, gray, bitmap, drawn>>
dest == <<buffer, free_in_buffer, cursor, outbuffer, written>>
vars == <<pc, format, scale, frame, line, x, z, src, rgb, gray, bitmap,
          drawn, buffer, free_in_buffer, cursor, outbuffer, written, emitted>>

Color == [red : Bytes, green : Bytes, blue : Bytes]
Black == [red |-> 0, green |-> 0, blue |-> 0]
Garbage == 0                 \* what alloc_small leaves in the buffer
FirstBuffer == [n \in 1 .. OutputBufSize |-> Garbage]

InLibjpeg == {"start", "marker", "scanlines", "finish"}

Init ==
  /\ pc = "idle"
  /\ format \in {"YUYV", "Z16"}
  /\ scale \in IF format = "Z16" THEN Scales ELSE {0}
  /\ frame \in Frames
  /\ line = 0 /\ x = 0 /\ z = 0 /\ src = 0
  /\ rgb = [p \in Pixels |-> Black]          \* calloc
  /\ gray = [p \in Pixels |-> 0]
  /\ bitmap = <<>> /\ drawn = gray
  /\ buffer = FirstBuffer /\ free_in_buffer = 0
  /\ cursor = 0 /\ outbuffer = <<>> /\ written = 0
  /\ emitted = 0

-----------------------------------------------------------------------------
(* init_destination. *)
InitDestination ==
  /\ buffer' = FirstBuffer
  /\ written' = 0
  /\ free_in_buffer' = OutputBufSize

(* Mutant of Begin: init_destination leaves the counter as it was.         *)
BeginKeepsWritten ==
  /\ pc = "idle"
  /\ cursor' = 0 /\ outbuffer' = <<>> /\ emitted' = 0
  /\ buffer' = FirstBuffer
  /\ free_in_buffer' = OutputBufSize
  /\ line' = 0 /\ x' = 0 /\ z' = 0 /\ src' = 0
  /\ pc' = "start"
  /\ UNCHANGED <<input, images, written>>

(* dest_buffer, then jpeg_start_compress, which calls init_destination:    *)
(* the caller's buffer is a new one for every frame.                       *)
Begin ==
  /\ pc = "idle"
  /\ cursor' = 0 /\ outbuffer' = <<>> /\ emitted' = 0
  /\ InitDestination
  /\ line' = 0 /\ x' = 0 /\ z' = 0 /\ src' = 0
  /\ pc' = "start"
  /\ UNCHANGED <<input, images>>

(* memcpy of the first n bytes of the buffer to the cursor. *)
Deliver(n, from) ==
  /\ outbuffer' = SubSeq(outbuffer, 1, cursor) \o SubSeq(from, 1, n)
  /\ cursor' = cursor + n
  /\ written' = written + n

(* Mutant of Emit: the counter of free bytes is not set back.              *)
EmitNotFreed ==
  /\ pc \in InLibjpeg /\ emitted < MaxStream
  /\ emitted' = emitted + 1
  /\ LET used == OutputBufSize - free_in_buffer
     IN  buffer' = [buffer EXCEPT ![used + 1] = emitted + 1]
  /\ IF free_in_buffer = 1
     THEN Deliver(OutputBufSize, buffer') /\ UNCHANGED free_in_buffer
     ELSE /\ free_in_buffer' = free_in_buffer - 1
          /\ UNCHANGED <<cursor, outbuffer, written>>
  /\ UNCHANGED <<pc, input, loop, images>>

(* libjpeg stores a byte; when that fills the buffer it calls              *)
(* empty_output_buffer at once.                                            *)
Emit ==
  /\ pc \in InLibjpeg /\ emitted < MaxStream
  /\ emitted' = emitted + 1
  /\ LET used == OutputBufSize - free_in_buffer
     IN  buffer' = [buffer EXCEPT ![used + 1] = emitted + 1]
  /\ IF free_in_buffer = 1
     THEN Deliver(OutputBufSize, buffer') /\ free_in_buffer' = OutputBufSize
     ELSE /\ free_in_buffer' = free_in_buffer - 1
          /\ UNCHANGED <<cursor, outbuffer, written>>
  /\ UNCHANGED <<pc, input, loop, images>>

Started ==
  /\ pc = "start"
  /\ pc' = "convert"
  /\ UNCHANGED <<input, loop, images, dest, emitted>>

-----------------------------------------------------------------------------
Clamp(v) == IF v > 255 THEN 255 ELSE IF v < 0 THEN 0 ELSE v

(* The integer conversion; >> of a negative number rounds down.            *)
ToRGB(y, u, v) ==
  [red |-> Clamp((256 * y + 359 * v) \div 256),
   green |-> Clamp((256 * y - 88 * u - 183 * v) \div 256),
   blue |-> Clamp((256 * y + 454 * u) \div 256)]

(* The loop goes to the next pixel; behind the last one of the image it    *)
(* goes on to `after'.                                                     *)
NextPixel(endOfLine, endOfImage) ==
  IF x + 1 < Width THEN x' = x + 1 /\ UNCHANGED <<line, pc>>
  ELSE /\ x' = 0 /\ line' = line + 1
       /\ pc' = IF line + 1 < Height THEN endOfLine ELSE endOfImage

(* Byte n at src, with what lies behind the framebuffer. *)
At(n, behind) == IF src + n \in FrameBytes THEN frame[src + n] ELSE behind

(* Mutant of ConvertYuyv: z is reset at the beginning of a line.           *)
ConvertYuyvByLine ==
  /\ pc = "convert" /\ format = "YUYV"
  /\ \E behind \in Beyond :
       LET y == At(IF z = 0 THEN 0 ELSE 2, behind)
           p == line * Width + x
       IN  /\ rgb' = [rgb EXCEPT ![p] = ToRGB(y, At(1, behind) - 128,
                                                 At(3, behind) - 128)]
           /\ gray' = [gray EXCEPT ![p] = y]
  /\ z' = IF x + 1 = Width THEN 0 ELSE 1 - z
  /\ src' = src + 4 * z
  /\ NextPixel("convert", "features")
  /\ UNCHANGED <<input, bitmap, drawn, dest, emitted>>

(* A pair of pixels is four bytes: two lumas, and between them the two     *)
(* chromas they share.  Pairs go on from one line to the next.             *)
ConvertYuyv ==
  /\ pc = "convert" /\ format = "YUYV"
  /\ \E behind \in Beyond :
       LET y == At(IF z = 0 THEN 0 ELSE 2, behind)
           p == line * Width + x
       IN  /\ rgb' = [rgb EXCEPT ![p] = ToRGB(y, At(1, behind) - 128,
                                                 At(3, behind) - 128)]
           /\ gray' = [gray EXCEPT ![p] = y]
  /\ z' = 1 - z
  /\ src' = src + 4 * z
  /\ NextPixel("convert", "features")
  /\ UNCHANGED <<input, bitmap, drawn, dest, emitted>>

(* The division of int, which rounds towards zero, stored in 16 bits.      *)
Scaled(depth) ==
  LET s == IF scale = 0 THEN PixMinDistanceMm ELSE scale
      quotient == IF s > 0 THEN depth \div s ELSE -(depth \div (-s))
  IN  quotient % 65536

(* Mutant of DepthByte: the value is cut to a byte without a clamp.        *)
DepthByteCut(depth) == Scaled(depth) % 256

DepthByte(depth) ==
  IF Scaled(depth) > PixMaxValue THEN PixMaxValue ELSE Scaled(depth)

(* A depth is two bytes, the low one first; each line is passed to libjpeg *)
(* when it is complete.                                                    *)
ConvertZ16 ==
  /\ pc = "convert" /\ format = "Z16"
  /\ gray' = [gray EXCEPT ![line * Width + x] =
                DepthByte(frame[src] + 256 * frame[src + 1])]
  /\ src' = src + 2
  /\ NextPixel("scanlines", "scanlines")
  /\ UNCHANGED <<input, z, rgb, bitmap, drawn, dest, emitted>>

-----------------------------------------------------------------------------
(* enable_stripe_detect is off. *)
NoStripes ==
  /\ pc = "features"
  /\ pc' = "scanlines"
  /\ UNCHANGED <<input, loop, images, dest, emitted>>

(* sf_write_image paints into the gray image and writes it; the file       *)
(* cannot always be opened.                                                *)
WriteImage ==
  /\ pc = "features"
  /\ \E painted \in Annotations :
       gray' = [p \in Pixels |->
                  IF p \in painted THEN AnnotationColor ELSE gray[p]]
  /\ \/ /\ bitmap' = <<BitmapFile(Width, Height, gray')>>
        /\ drawn' = gray'
     \/ UNCHANGED <<bitmap, drawn>>
  /\ pc' = "text"
  /\ UNCHANGED <<input, loop, rgb, dest, emitted>>

NoDebugImage ==
  /\ pc = "features"
  /\ pc' = "text"
  /\ UNCHANGED <<input, loop, images, dest, emitted>>

(* jpeg_write_marker when there is a text. *)
Comment ==
  /\ pc = "text"
  /\ pc' \in {"marker", "scanlines"}
  /\ UNCHANGED <<input, loop, images, dest, emitted>>

MarkerWritten ==
  /\ pc = "marker"
  /\ pc' = "scanlines"
  /\ UNCHANGED <<input, loop, images, dest, emitted>>

(* jpeg_write_scanlines returns: of one line, or of the whole image. *)
ScanlinesWritten ==
  /\ pc = "scanlines"
  /\ pc' = IF line < Height THEN "convert" ELSE "finish"
  /\ UNCHANGED <<input, loop, images, dest, emitted>>

(* Mutant of Finish: all of the buffer is passed on, not only its used     *)
(* part.                                                                   *)
FinishAll ==
  /\ pc = "finish"
  /\ Deliver(OutputBufSize, buffer)
  /\ pc' = "done"
  /\ UNCHANGED <<input, loop, images, buffer, free_in_buffer, emitted>>

(* jpeg_finish_compress has put out the rest and calls term_destination.   *)
Finish ==
  /\ pc = "finish"
  /\ Deliver(OutputBufSize - free_in_buffer, buffer)
  /\ pc' = "done"
  /\ UNCHANGED <<input, loop, images, buffer, free_in_buffer, emitted>>

(* grab_frame has written the image and captured the next frame. *)
NextFrame ==
  /\ pc = "done"
  /\ pc' = "idle"
  /\ frame' \in Frames
  /\ UNCHANGED <<format, scale, loop, images, dest, emitted>>

Next ==
  \/ Begin \/ Emit \/ Started \/ ConvertYuyv \/ ConvertZ16
  \/ NoStripes \/ WriteImage \/ NoDebugImage \/ Comment \/ MarkerWritten
  \/ ScanlinesWritten \/ Finish \/ NextFrame

Spec == Init /\ [][Next]_vars

-----------------------------------------------------------------------------
TypeOK ==
  /\ pc \in {"idle", "convert", "features", "text", "done"} \cup InLibjpeg
  /\ format \in {"YUYV", "Z16"} /\ scale \in Scales \cup {0}
  /\ frame \in Frames
  /\ line \in 0 .. Height /\ x \in 0 .. Width - 1 /\ z \in {0, 1}
  /\ src \in 0 .. 2 * Width * Height
  /\ rgb \in [Pixels -> Color] /\ {gray, drawn} \subseteq [Pixels -> Bytes]
  /\ Len(bitmap) <= 1
  /\ buffer \in [1 .. OutputBufSize -> 0 .. MaxStream]
  /\ free_in_buffer \in 0 .. OutputBufSize
  /\ outbuffer \in Seq(0 .. MaxStream) /\ Len(outbuffer) = cursor
  /\ {cursor, written, emitted} \subseteq 0 .. MaxStream

(* The pixels of the frame that have been converted. *)
Converted ==
  IF pc \in {"idle", "start"} THEN {}
  ELSE {p \in Pixels : p < line * Width + x}

(* What a pixel of the frame is, by its place in it: its own luma, and the *)
(* chromas of the pair it belongs to.                                      *)
Luma(p) == frame[2 * p]
U(p) == frame[4 * (p \div 2) + 1] - 128
V(p) == frame[4 * (p \div 2) + 3] - 128

(* A channel is within 1.3 of its real value, which is in thousandths.     *)
Close(channel, real) ==
  LET off == 1000 * channel - (IF real < 0 THEN 0
                               ELSE IF real > 255000 THEN 255000 ELSE real)
  IN  -1300 <= off /\ off <= 1300

Depth(p) == frame[2 * p] + 256 * frame[2 * p + 1]

(* Every pixel libjpeg gets is the colour of the same pixel of this frame, *)
(* by the real coefficients (1.402, 0.344136, 0.714136, 1.772), and the    *)
(* detector gets its luma: pairs that lie across two lines are not torn,   *)
(* the static images keep nothing of an earlier frame.  When the number of *)
(* pixels is odd, the second chroma of the last one lies behind the        *)
(* frame; only its red and green depend on it.                             *)
ColorsOfTheFrame ==
  format = "YUYV" => \A p \in Converted :
    /\ pc \in {"convert", "features"} => gray[p] = Luma(p)
    /\ Close(rgb[p].blue, 1000 * Luma(p) + 1772 * U(p))
    /\ 4 * (p \div 2) + 3 \in FrameBytes =>
         /\ Close(rgb[p].red, 1000 * Luma(p) + 1402 * V(p))
         /\ Close(rgb[p].green,
                  1000 * Luma(p) - (344136 * U(p) + 714136 * V(p)) \div 1000)

(* A nearer pixel is never brighter than a farther one, and a brightness   *)
(* below 255 stands for one step of the scale, 20 mm unless one is set.    *)
(* A negative scale, which settings.c does not refuse, divides to negative *)
(* values that wrap in 16 bits: nothing is claimed then.                   *)
DepthsOrdered ==
  format = "Z16" /\ scale >= 0 =>
    /\ \A p, q \in Converted : Depth(p) <= Depth(q) => gray[p] <= gray[q]
    /\ \A p \in Converted :
         LET step == IF scale = 0 THEN 20 ELSE scale
         IN  /\ step * gray[p] <= Depth(p)
             /\ gray[p] < 255 => Depth(p) < step * (gray[p] + 1)

(* The bytes libjpeg makes reach the caller's buffer once each, in order   *)
(* and without a gap, and the size returned is their number - when the     *)
(* last one just fills the buffer, and for the second frame as well.       *)
StreamDelivered ==
  /\ pc \in InLibjpeg =>
       outbuffer \o SubSeq(buffer, 1, OutputBufSize - free_in_buffer)
         = [n \in 1 .. emitted |-> n]
  /\ pc = "done" => /\ outbuffer = [n \in 1 .. emitted |-> n]
                    /\ written = emitted

(* A reader of the debug image sees the gray image with the annotations    *)
(* that was painted last, row by row, whatever the width is.               *)
DebugImageReadable ==
  \A n \in DOMAIN bitmap : Shows(bitmap[n], Width, Height, drawn)
=============================================================================
