------------------------------- MODULE Painting -------------------------------
(***************************************************************************)
(* What a draw packet does to a window's pixels (client/client.go          *)
(* handleDraw's formats, client/image.go, ui/pixels.go, and Paint of the   *)
(* four backends): decoded, clipped against the window, converted into     *)
(* B, G, R, X and written where the damage is.                             *)
(*                                                                         *)
(* The packet's k-th byte is the number k, so that a byte of the window    *)
(* tells where it was taken from.                                          *)
(***************************************************************************)
EXTENDS Integers, Sequences

CONSTANTS
  MaxSide,       \* bound: width and height of windows
  MaxDimension,  \* maxImageDimension
  MaxDecoded,    \* maxDecodedImageBytes
  MaxImageBytes, \* x11's maxImageBytes, in bytes of a request
  Samples        \* bound: Y, Cb and Cr values of a WebP image, of one colour

\* What the constants have to satisfy.
PaintingAssumption ==
  {MaxSide, MaxDimension, MaxDecoded, MaxImageBytes} \subseteq Nat /\ Samples \subseteq 0 .. 255

Old == -1       \* what the window showed before
Opaque == 255

VARIABLES
  kind,     \* "buffer" (Windows, AppKit, Wayland) or "pixmap" (X11)
  size,     \* of the window's buffer or pixmap
  pixels,   \* its bytes, from 0
  draw,     \* the draw packet, once there is one
  result    \* how it was acknowledged: "none", "painted", "error"

vars == <<kind, size, pixels, draw, result>>

Side == 1 .. MaxSide
NoDraw == [coding |-> "none"]

Init ==
  /\ kind \in {"buffer", "pixmap"}
  /\ size \in [width : Side, height : Side]
  /\ pixels = [i \in 0 .. 4 * size.width * size.height - 1 |-> Old]
  /\ draw = NoDraw /\ result = "none"

-----------------------------------------------------------------------------
(* ui/pixels.go *)

Least(a, b) == IF a < b THEN a ELSE b
Most(a, b) == IF a > b THEN a ELSE b

\* Mutant: the damage is cut to the window's size wherever it starts.
ClipToWindow(d) == [w |-> Least(d.width, size.width), h |-> Least(d.height, size.height)]

ClipDamage(d) ==
  IF d.x >= size.width \/ d.y >= size.height
  THEN [w |-> 0, h |-> 0]
  ELSE [w |-> Most(Least(d.width, size.width - d.x), 0),
        h |-> Most(Least(d.height, size.height - d.y), 0)]

\* ConverterFor: the source byte each byte of a pixel is taken from.
ConverterFor(format) ==
  CASE format \in {"BGRX", "BGRA"} -> <<0, 1, 2, 3>>
    [] format \in {"RGBX", "RGBA"} -> <<2, 1, 0, 3>>
    [] format = "BGR" -> <<0, 1, 2, Opaque>>
    [] format = "RGB" -> <<2, 1, 0, Opaque>>
    [] OTHER -> <<>>

Bytes(format) == IF format \in {"BGR", "RGB"} THEN 3 ELSE 4

\* Convert's checks of the source, and of room for it from base on.
Convertible(d, clip, base, stride, length) ==
  /\ ConverterFor(d.format) # <<>>
  /\ d.stride >= clip.w * Bytes(d.format)
  /\ Len(d.data) >= d.stride * clip.h
  /\ length - base >= stride * (clip.h - 1) + 4 * clip.w

\* The rows that Convert writes into dst, at base, stride bytes apart.
Converted(dst, base, stride, d, clip) ==
  [i \in DOMAIN dst |->
     LET row == (i - base) \div stride
         column == ((i - base) % stride) \div 4
         from == ConverterFor(d.format)[((i - base) % 4) + 1]
     IN IF i >= base /\ row < clip.h /\ column < clip.w
        THEN IF from = Opaque THEN Opaque
             ELSE d.data[row * d.stride + column * Bytes(d.format) + from + 1]
        ELSE dst[i]]

-----------------------------------------------------------------------------
(* Paint *)

\* In place: into the window's buffer from the damage's first pixel.
InBuffer(d, clip) ==
  LET stride == 4 * size.width
      base == d.y * stride + 4 * d.x
  IN IF Convertible(d, clip, base, stride, 4 * size.width * size.height)
     THEN <<Converted(pixels, base, stride, d, clip)>> ELSE <<>>

\* Through a packed copy, uploaded in requests of whole rows: a request takes the
\* rows from "first" on out of the copy and puts them from there on.
InStrips(d, clip) ==
  LET stride == 4 * clip.w
      packed == Converted([i \in 0 .. stride * clip.h - 1 |-> Old], 0, stride, d, clip)
      rows == Most(1, MaxImageBytes \div stride)
  IN IF ~Convertible(d, clip, 0, stride, stride * clip.h) THEN <<>>
     ELSE <<[i \in DOMAIN pixels |->
               LET x == ((i \div 4) % size.width) - d.x
                   y == ((i \div 4) \div size.width) - d.y
                   first == (y \div rows) * rows
                   Request(n) == packed[first * stride + n]
               IN IF x \in 0 .. clip.w - 1 /\ y \in 0 .. clip.h - 1
                  THEN Request((y - first) * stride + 4 * x + (i % 4))
                  ELSE pixels[i]]>>

Paint(d) ==
  LET clip == ClipDamage(d)
      painted == IF kind = "buffer" THEN InBuffer(d, clip) ELSE InStrips(d, clip)
  IN IF d.x < 0 \/ d.y < 0 THEN <<>>
     ELSE IF clip.w = 0 \/ clip.h = 0 THEN <<pixels>>
     ELSE painted

-----------------------------------------------------------------------------
(* client/image.go *)

Clip(value) == IF value < 0 THEN 0 ELSE Least(value \div 64, 255)
multHi(value, coefficient) == (value * coefficient) \div 256

\* Right shifts of negative numbers round down, as \div does.
webpYCbCrToRGB(y, cb, cr) ==
  <<Clip(multHi(y, 19077) + multHi(cr, 26149) - 14234),
    Clip(multHi(y, 19077) - multHi(cb, 6419) - multHi(cr, 13320) + 8708),
    Clip(multHi(y, 19077) + multHi(cb, 33050) - 17685)>>

\* decodeImage: the image's header has to agree with the packet and the limits.
Decodable(d) ==
  /\ d.image.width \in 1 .. MaxDimension /\ d.image.height \in 1 .. MaxDimension
  /\ d.image.width = d.width /\ d.image.height = d.height
  /\ 4 * d.width * d.height <= MaxDecoded

\* An image with an alpha channel is laid over black.
decodeImage(d) ==
  LET rgb == webpYCbCrToRGB(d.sample[1], d.sample[2], d.sample[3])
      Over(value) == (value * d.alpha) \div 255
      pixel == <<Over(rgb[3]), Over(rgb[2]), Over(rgb[1]), 255>>
  IN [x |-> d.x, y |-> d.y, width |-> d.width, height |-> d.height, coding |-> d.coding,
      format |-> "BGRX", stride |-> 4 * d.width,
      data |-> [i \in 1 .. 4 * d.width * d.height |-> pixel[((i - 1) % 4) + 1]]]

-----------------------------------------------------------------------------
(* handleDraw *)

Finish(d) ==
  IF Paint(d) = <<>> THEN result' = "error" /\ UNCHANGED pixels
  ELSE result' = "painted" /\ pixels' = Paint(d)[1]

Place == [x : -1 .. MaxSide, y : -1 .. MaxSide, width : 0 .. MaxSide + 1, height : 0 .. MaxSide + 1]

\* The rowstride is the server's to choose, and the pixels may fall short.
DrawRGB ==
  /\ result = "none"
  /\ \E p \in Place, format \in {"BGRX", "RGBA", "BGR", "RGB", "r210"}, extra \in -1 .. 1,
        short \in 0 .. 1 :
       LET stride == Most(0, p.width * Bytes(format) + extra)
           d == [x |-> p.x, y |-> p.y, width |-> p.width, height |-> p.height,
                 coding |-> "rgb32", format |-> format, stride |-> stride,
                 data |-> [k \in 1 .. Most(0, stride * p.height - short) |-> k]]
       IN draw' = d /\ Finish(d)
  /\ UNCHANGED <<kind, size>>

DrawWebP ==
  /\ result = "none"
  /\ \E p \in [x : {0}, y : {0}, width : 1 .. MaxDimension + 1, height : {1}],
        width \in 0 .. MaxDimension + 1, sample \in Samples \X Samples \X Samples, alpha \in {100, 255} :
       LET d == [x |-> p.x, y |-> p.y, width |-> p.width, height |-> p.height,
                 coding |-> "webp", sample |-> sample, alpha |-> alpha,
                 image |-> [width |-> width, height |-> 1]]
       IN /\ draw' = d
          /\ IF Decodable(d) THEN Finish(decodeImage(d))
             ELSE result' = "error" /\ UNCHANGED pixels
  /\ UNCHANGED <<kind, size>>

Next == DrawRGB \/ DrawWebP

Spec == Init /\ [][Next]_vars

-----------------------------------------------------------------------------
(* Properties *)

Channel(px, py, k) == pixels[4 * (py * size.width + px) + k]

\* The memory orders, as the formats' names spell them.
Letters(format) ==
  CASE format = "BGRX" -> [B |-> 0, G |-> 1, R |-> 2]
    [] format = "RGBA" -> [R |-> 0, G |-> 1, B |-> 2]
    [] format = "BGR" -> [B |-> 0, G |-> 1, R |-> 2]
    [] format = "RGB" -> [R |-> 0, G |-> 1, B |-> 2]

\* BT.601 with luma in 16..235 and chroma in 16..240, in thousandths.
VideoRange(s) ==
  LET y == 1164 * (s[1] - 16)
      Byte(v) == Most(0, Least(255000, v))
  IN [R |-> Byte(y + 1596 * (s[3] - 128)),
      G |-> Byte(y - 392 * (s[2] - 128) - 813 * (s[3] - 128)),
      B |-> Byte(y + 2017 * (s[2] - 128))]

Close(byte, thousandths) == 1000 * byte - thousandths \in -2000 .. 2000

\* A damage rectangle lands in the window where it is, with its colours, and
\* leaves every other pixel alone: whatever the backend, the byte order, the
\* rowstride and the part of it that overhangs.  One that is refused leaves all.
PaintsWhereDrawn ==
  result # "none" =>
    \A px \in 0 .. size.width - 1, py \in 0 .. size.height - 1 :
      LET x == px - draw.x
          y == py - draw.y
          At(letter) == Channel(px, py, CHOOSE k \in 0 .. 2 : <<"B", "G", "R">>[k + 1] = letter)
      IN IF result = "error" \/ x \notin 0 .. draw.width - 1 \/ y \notin 0 .. draw.height - 1
         THEN \A k \in 0 .. 3 : Channel(px, py, k) = Old
         ELSE \A letter \in {"B", "G", "R"} :
                IF draw.coding = "webp"
                THEN Close(At(letter), (VideoRange(draw.sample)[letter] * draw.alpha) \div 255)
                ELSE At(letter) = y * draw.stride + x * Bytes(draw.format)
                                  + Letters(draw.format)[letter] + 1

\* A complete draw of a known format that starts in the positive is painted.
GoodDrawsArePainted ==
  result = "error" /\ draw.coding = "rgb32" =>
    \/ draw.x < 0 \/ draw.y < 0 \/ draw.format = "r210"
    \/ Len(draw.data) < draw.stride * draw.height
    \/ draw.stride < draw.width * Bytes(draw.format)
=============================================================================
