---------------------------- MODULE PixelBuffers ----------------------------
(***************************************************************************)
(* Buffers of bytes and the layouts pixels have in them, for the modules   *)
(* that follow libv4lconvert's conversions byte by byte.                   *)
(*                                                                         *)
(* A buffer is a function from offsets, counted from 0, to bytes.  A       *)
(* conversion is an operator from the buffer it reads to the buffer it     *)
(* writes.                                                                 *)
(***************************************************************************)
EXTENDS Integers, Sequences, FiniteSets, TLC

Byte(v) == v % 256                                  \* the cast (u8) of an int

Trunc(n, d) == IF n < 0 THEN -((-n) \div d) ELSE n \div d   \* C's n / d, d > 0

Clip(v) == IF v > 255 THEN 255 ELSE IF v < 0 THEN 0 ELSE v

(* A byte of a driver's buffer; the rest of the page reads as zero. *)
At(buf, i) == IF i \in DOMAIN buf THEN buf[i] ELSE 0

(* The eight bits of a bit stream that start at bitpos. *)
EightBits(buf, bitpos) ==
    LET i == bitpos \div 8   s == bitpos % 8
    IN  Byte(At(buf, i) * 2^s) + At(buf, i + 1) \div 2^(8 - s)

Bit(buf, i) == (At(buf, i \div 8) \div 2^(7 - (i % 8))) % 2

Even(n) == n - (n % 2)

(* The function f itself, whose values the model checker then computes     *)
(* once and not at every use.                                              *)
Evaluated(f) == f @@ <<>>

-----------------------------------------------------------------------------
(* The layouts of the formats conversions write.  A plane is raster       *)
(* ordered without padding; YUV420 is a plane of Y and planes of U and V   *)
(* of half the width and height, YVU420 has V before U.                    *)
Plane(w, h, Val(_, _)) == [i \in 0 .. w * h - 1 |-> Val(i % w, i \div w)]

Rgb24(w, h, Pixel(_, _)) ==
    [i \in 0 .. 3 * w * h - 1 |-> Pixel((i \div 3) % w, i \div (3 * w))[(i % 3) + 1]]

Yuv420(w, h, yvu, Y(_, _), U(_, _), V(_, _)) ==
    LET size == w * h
        Chroma(i) == LET k == i % (size \div 4)
                         x == k % (w \div 2)   y == k \div (w \div 2)
                     IN  IF (i < size \div 4) # yvu THEN U(x, y) ELSE V(x, y)
    IN  [i \in 0 .. (size * 3) \div 2 - 1 |->
            IF i < size THEN Y(i % w, i \div w) ELSE Chroma(i - size)]

(* Offsets of a pixel's U and V in a YUV420 or YVU420 buffer. *)
UAt(w, h, yvu, x, y) ==
    w * h + (IF yvu THEN (w * h) \div 4 ELSE 0) + (y \div 2) * (w \div 2) + x \div 2
VAt(w, h, yvu, x, y) == UAt(w, h, ~yvu, x, y)

Swapped(p) == <<p[3], p[2], p[1]>>                  \* RGB as BGR
=============================================================================
