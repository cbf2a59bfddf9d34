----------------------------- MODULE CameraFrames ---------------------------
(***************************************************************************)
(* The camera's side of a conversion, which is not part of this code: a    *)
(* scene and the frames that cameras of each format make of it.            *)
(*                                                                         *)
(* A scene has one colour in its upper left quarter, the patch, and        *)
(* another everywhere else.  The frames are written from the descriptions  *)
(* of the formats (the names and comments of videodev2.h and of the        *)
(* decoders), in the order in which a camera sends them, not by inverting  *)
(* the decoders.                                                           *)
(***************************************************************************)
EXTENDS Jpeg

Primaries(colour) ==
    CASE colour = "black" -> <<0, 0, 0>>
      [] colour = "white" -> <<1, 1, 1>>
      [] colour = "red"   -> <<1, 0, 0>>
      [] colour = "green" -> <<0, 1, 0>>
      [] colour = "blue"  -> <<0, 0, 1>>

(* s: w and h, the colours bg and patch, and the bytes lo and hi that      *)
(* stand for a primary that is absent or present.                          *)
Colour(s, x, y) == IF x < s.w \div 2 /\ y < s.h \div 2 THEN s.patch ELSE s.bg
Level(s, k, colour) == IF Primaries(colour)[k] = 1 THEN s.hi ELSE s.lo
Rgb(s, x, y) == LET c == Colour(s, x, y) IN <<Level(s, 1, c), Level(s, 2, c), Level(s, 3, c)>>

Yuv(p) == <<(299 * p[1] + 587 * p[2] + 114 * p[3]) \div 1000,
            (12800000 - 14713 * p[1] - 28886 * p[2] + 43600 * p[3]) \div 100000,
            (12800000 + 61500 * p[1] - 51499 * p[2] - 10010 * p[3]) \div 100000>>

(* Lines of a scene, as sequences: all of a component, or one of two. *)
YLine(s, y)    == [i \in 1 .. s.w |-> Yuv(Rgb(s, i - 1, y))[1]]
CLine(s, n, y) == [i \in 1 .. s.w \div 2 |-> Yuv(Rgb(s, 2 * i - 2, y))[n]]
ULine(s, y)    == CLine(s, 2, y)
VLine(s, y)    == CLine(s, 3, y)

RECURSIVE Flat(_)
Flat(seqs) ==
    LET n == Len(seqs)   half == n \div 2
    IN  CASE n = 0 -> <<>>
          [] n = 1 -> <<>> \o seqs[1]
          [] OTHER -> Flat(SubSeq(seqs, 1, half)) \o Flat(SubSeq(seqs, half + 1, n))

Concat(n, Part(_)) == Flat(<<>> \o [i \in 1 .. n |-> Part(i - 1)])
Padded(line, n)    == line \o [i \in 1 .. n - Len(line) |-> 0]
Bytes(seq)         == [i \in 0 .. Len(seq) - 1 |-> seq[i + 1]]

-----------------------------------------------------------------------------
(* The plain formats. *)
RgbFrame(s, bpl, swap, pad) ==
    LET Pixel(x, y) == LET p == Rgb(s, x, y) IN pad \o IF swap THEN Swapped(p) ELSE p
        Row(y) == LET At1(x) == Pixel(x, y) IN Padded(Concat(s.w, At1), bpl)
    IN  Concat(s.h, Row)

PlanarFrame(s, bpl, first, second) ==
    LET Luma(y) == Padded(YLine(s, y), bpl)
        A(y) == Padded(CLine(s, first, 2 * y), bpl \div 2)
        B(y) == Padded(CLine(s, second, 2 * y), bpl \div 2)
    IN  Concat(s.h, Luma) \o Concat(s.h \div 2, A) \o Concat(s.h \div 2, B)

(* Order: which of Y, U, V each byte of four is. *)
PackedFrame(s, order) ==
    LET Four(x, y) == [i \in 1 .. 4 |-> Yuv(Rgb(s, x, y))[order[i]]]
        Row(y) == LET Pair(i) == Four(2 * i, y) IN Concat(s.w \div 2, Pair)
    IN  Concat(s.h, Row)

BitsOf(v, n) == [i \in 1 .. n |-> (v \div 2^(n - i)) % 2]
Packed(bits) ==
    LET b(i) == IF i <= Len(bits) THEN bits[i] ELSE 0
    IN  [k \in 1 .. (Len(bits) + 7) \div 8 |->
            128 * b(8 * k - 7) + 64 * b(8 * k - 6) + 32 * b(8 * k - 5) + 16 * b(8 * k - 4)
            + 8 * b(8 * k - 3) + 4 * b(8 * k - 2) + 2 * b(8 * k - 1) + b(8 * k)]

Y10bFrame(s) ==
    LET Row(y) == LET Ten(x) == BitsOf(4 * YLine(s, y)[x + 1] + 1, 10) IN Concat(s.w, Ten)
    IN  Packed(Concat(s.h, Row))

Rgb565Frame(s) ==
    LET Row(y) == LET Two(x) == LET p == Rgb(s, x, y)
                                    v == (p[1] \div 8) * 2048 + (p[2] \div 4) * 32 + p[3] \div 8
                                IN  <<v % 256, v \div 256>>
                  IN  Concat(s.w, Two)
    IN  Concat(s.h, Row)

(* Raw Bayer data: the colours of the first two pixels of an even line and *)
(* of an odd one.                                                          *)
Mosaic == [SBGGR8 |-> <<3, 2, 2, 1>>, SGBRG8 |-> <<2, 3, 1, 2>>,
           SGRBG8 |-> <<2, 1, 3, 2>>, SRGGB8 |-> <<1, 2, 2, 3>>]
Raw(s, pixfmt, x, y) == Rgb(s, x, y)[Mosaic[pixfmt][1 + (x % 2) + 2 * (y % 2)]]
RawLine(s, pixfmt, y) == [i \in 1 .. s.w |-> Raw(s, pixfmt, i - 1, y)]

-----------------------------------------------------------------------------
(* Formats of one family of cameras, uncompressed. *)
Signed(line) == [i \in DOMAIN line |-> (line[i] + 128) % 256]

Spca501(s) == LET Pair(k) == Signed(YLine(s, 2 * k) \o ULine(s, 2 * k)
                                    \o YLine(s, 2 * k + 1) \o VLine(s, 2 * k))
              IN  Concat(s.h \div 2, Pair)
Spca505(s) == LET Pair(k) == Signed(YLine(s, 2 * k) \o YLine(s, 2 * k + 1)
                                    \o ULine(s, 2 * k) \o VLine(s, 2 * k))
              IN  Concat(s.h \div 2, Pair)
Spca508(s) == LET Pair(k) == Signed(YLine(s, 2 * k) \o ULine(s, 2 * k) \o VLine(s, 2 * k)
                                    \o YLine(s, 2 * k + 1))
              IN  Concat(s.h \div 2, Pair)

CitYyvyuy(s) ==
    LET Pair(k) == LET c == 2 * k + 1
                       Four(i) == <<VLine(s, 2 * k)[i + 1], YLine(s, c)[2 * i + 1],
                                    ULine(s, 2 * k)[i + 1], YLine(s, c)[2 * i + 2]>>
                   IN  YLine(s, 2 * k) \o Concat(s.w \div 2, Four)
    IN  Concat(s.h \div 2, Pair)

M420(s) ==
    LET Pair(k) == LET Two(i) == <<ULine(s, 2 * k)[i + 1], VLine(s, 2 * k)[i + 1]>>
                   IN  YLine(s, 2 * k) \o YLine(s, 2 * k + 1) \o Concat(s.w \div 2, Two)
    IN  Concat(s.h \div 2, Pair)

(* Each block of 256 pixels, in raster order, with its quarter of U and V. *)
Konica420(s) ==
    LET luma   == LET L(y) == YLine(s, y) IN Concat(s.h, L)
        us     == LET U(y) == ULine(s, 2 * y) IN Concat(s.h \div 2, U)
        vs     == LET V(y) == VLine(s, 2 * y) IN Concat(s.h \div 2, V)
        Block(b) == SubSeq(luma, 256 * b + 1, 256 * b + 256)
                    \o SubSeq(us, 64 * b + 1, 64 * b + 64) \o SubSeq(vs, 64 * b + 1, 64 * b + 64)
    IN  Concat((s.w * s.h) \div 256, Block)

(* Blocks of 16 x 8 pixels: two squares of Y, then U, then V. *)
Sn9c20x(s) ==
    LET Block(b) ==
            LET bx == 16 * (b % (s.w \div 16))   by == 8 * (b \div (s.w \div 16))
                Left(i)  == SubSeq(YLine(s, by + i), bx + 1, bx + 8)
                Right(i) == SubSeq(YLine(s, by + i), bx + 9, bx + 16)
                U(i) == SubSeq(ULine(s, by + 2 * i), bx \div 2 + 1, bx \div 2 + 8)
                V(i) == SubSeq(VLine(s, by + 2 * i), bx \div 2 + 1, bx \div 2 + 8)
            IN  Concat(8, Left) \o Concat(8, Right) \o Concat(4, U) \o Concat(4, V)
    IN  Concat((s.w * s.h) \div 128, Block)

(* Macroblocks of 16 x 16 bytes, 45 in a row of a picture 720 wide; the    *)
(* chroma macroblocks hold U and V of 8 x 16 in turn.                      *)
Hm12(s) ==
    LET In(i, base)    == i - base
        Block(i, base) == In(i, base) \div 256
        X(i, base)     == 16 * (Block(i, base) % 45) + (In(i, base) % 16)
        Y(i, base)     == 16 * (Block(i, base) \div 45) + (In(i, base) % 256) \div 16
        Chroma(i) == Yuv(Rgb(s, X(i, 720 * s.h) - (i % 2), 2 * Y(i, 720 * s.h)))[2 + (i % 2)]
    IN  [i \in 0 .. (720 * s.h * 3) \div 2 - 1 |->
            IF i < 720 * s.h
            THEN IF X(i, 0) < s.w /\ Y(i, 0) < s.h THEN Yuv(Rgb(s, X(i, 0), Y(i, 0)))[1] ELSE 0
            ELSE IF X(i, 720 * s.h) < s.w /\ 2 * Y(i, 720 * s.h) < s.h THEN Chroma(i) ELSE 0]

Stv0680(s) ==
    LET Row(y) == LET line == RawLine(s, "SRGGB8", y)
                  IN  [i \in 1 .. s.w |-> IF i <= s.w \div 2 THEN line[2 * i - 1]
                                          ELSE line[2 * (i - s.w \div 2)]]
    IN  Concat(s.h, Row)

(* A compressed frame leaves out, two pixels at a time, what is as it was  *)
(* in the frame sent before.                                               *)
CpiaFrame(s, before, compressed) ==
    LET Two(x, y) == LET l == YLine(s, y)
                     IN  IF y % 2 = 0 THEN <<Even(l[x + 1]), ULine(s, y)[x \div 2 + 1],
                                             Even(l[x + 2]), VLine(s, y)[x \div 2 + 1]>>
                         ELSE <<Even(l[x + 1]), Even(l[x + 2])>>
        Same2(x, y) == Colour(s, x, y) = Colour(before, x, y)
        Row(y) == LET Code(i) == IF compressed /\ Same2(2 * i, y) THEN <<5>> ELSE Two(2 * i, y)
                      data == Concat(s.w \div 2, Code)
                      n    == Len(data) + 1
                  IN  <<n % 256, n \div 256>> \o data \o <<253>>
        header == [i \in 1 .. 64 |-> CASE i = 1 -> 25 [] i = 2 -> 104
                                       [] i = 26 -> s.w \div 8 [] i = 28 -> s.h \div 4
                                       [] i = 29 -> IF compressed THEN 1 ELSE 0
                                       [] OTHER -> 0]
    IN  header \o Concat(s.h, Row) \o <<255, 255, 255, 255>>

-----------------------------------------------------------------------------
(* SE401: a packet for each two lines.  A component is coded as the        *)
(* difference to the pixel before, the first pixel of a line as itself.    *)
JangGu(v) ==
    LET mag == IF v < 0 THEN -v ELSE v
        len == IF v = 0 THEN 0 ELSE CHOOSE n \in 1 .. 8 : 2^(n - 1) <= mag /\ mag < 2^n
    IN  [i \in 1 .. len |-> 1] \o <<0>> \o BitsOf(IF v < 0 THEN v + 2^len - 1 ELSE v, len)

Se401(s) ==
    LET Component(k, y) ==
            LET x == k \div 3   c == (k % 3) + 1
            IN  JangGu((Rgb(s, x, y)[c] - IF x = 0 THEN 0 ELSE Rgb(s, x - 1, y)[c]) \div 8)
        Line1(y) == LET C(k) == Component(k, y) IN Concat(3 * s.w, C)
        Packet(k) ==
            LET bits == Line1(2 * k) \o Line1(2 * k + 1)
                info == CASE k = 0 -> 2 [] k = s.h \div 2 - 1 -> 1 [] OTHER -> 0
                n    == Len(bits)
                size == ((n + 47) \div 16) * 2
            IN  Padded(<<64 * info + (2 * s.w) \div 256, (2 * s.w) % 256, n \div 256, n % 256>>
                       \o Packed(bits), size)
    IN  Concat(s.h \div 2, Packet)
=============================================================================
