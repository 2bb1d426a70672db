------------------------------- MODULE Bitmap -------------------------------
(***************************************************************************)
(* bmWriteBitmapWithColorTable of bitmap.c: the .bmp file of an image with *)
(* one byte a pixel.  Rows are padded to a multiple of four bytes, and the *)
(* height in the header is negative, which says that the first row comes   *)
(* first.  The palette is its length: which colours it has is left out.    *)
(*                                                                         *)
(* The callers pass width * height for the length of the image, so the     *)
(* function never refuses one.                                             *)
(***************************************************************************)
EXTENDS Integers

FileHeader == 14        \* sizeof(bmFileHeader)
InfoHeader == 40        \* sizeof(bmInfoHeader)
ColorTable == 256 * 4   \* sizeof(stripeFilterColorTable)

Padding(width) == IF width % 4 = 0 THEN 0 ELSE 4 - (width % 4)

Stride(width) == width + Padding(width)

(* Mutant of Body: the rows are copied without their padding.              *)
BodyUnpadded(width, height, image) ==
  [o \in 0 .. height * Stride(width) - 1 |->
     IF o < height * width THEN image[o] ELSE 0]

(* The pixel data: each row of the image, then zeroes up to the stride.    *)
Body(width, height, image) ==
  [o \in 0 .. height * Stride(width) - 1 |->
     LET row == o \div Stride(width)
         column == o % Stride(width)
     IN  IF column < width THEN image[row * width + column] ELSE 0]

BitmapFile(width, height, image) ==
  [bfOffBytes |-> FileHeader + InfoHeader + ColorTable,
   bfSize |-> FileHeader + InfoHeader + ColorTable + height * Stride(width),
   biWidth |-> width,
   biHeight |-> -height,
   body |-> Body(width, height, image)]

-----------------------------------------------------------------------------
(* How the format is read: a row takes the 32-bit words its bits need, and *)
(* rows are stored from the bottom unless the height is negative.          *)
RowBytes(file) == 4 * ((file.biWidth * 8 + 31) \div 32)

RowsIn(file) == IF file.biHeight < 0 THEN -file.biHeight ELSE file.biHeight

PixelAt(file, x, y) ==
  LET row == IF file.biHeight < 0 THEN y ELSE RowsIn(file) - 1 - y
  IN  file.body[row * RowBytes(file) + x]

(* The file is laid out as its headers say, and holds the image.           *)
Shows(file, width, height, image) ==
  /\ file.biWidth = width /\ RowsIn(file) = height
  /\ file.bfSize - file.bfOffBytes = RowsIn(file) * RowBytes(file)
  /\ DOMAIN file.body = 0 .. RowsIn(file) * RowBytes(file) - 1
  /\ \A x \in 0 .. width - 1, y \in 0 .. height - 1 :
       PixelAt(file, x, y) = image[y * width + x]
=============================================================================
