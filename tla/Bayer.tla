-------------------------------- MODULE Bayer -------------------------------
(***************************************************************************)
(* libv4lconvert's conversion of raw Bayer data: one byte per pixel, of    *)
(* one colour only, the others are interpolated from the pixels around it  *)
(* (src/libvideo/libv4lconvert/bayer.c).                                   *)
(*                                                                         *)
(* The code walks each line with a pointer and treats the first line, the  *)
(* last line, the first pixel and the last pixel apart; here each pixel is *)
(* given by what it reads.  A line holds green and one other colour, its   *)
(* own: "own" and "other" below are as seen from that line.                *)
(***************************************************************************)
EXTENDS Rgbyuv

RawBayer == {"SBGGR8", "SGBRG8", "SGRBG8", "SRGGB8"}

StartWithGreen(pixfmt) == pixfmt \in {"SGBRG8", "SGRBG8"}
BlueLine(pixfmt)       == pixfmt \in {"SBGGR8", "SGBRG8"}

(* Line y alternates in both. *)
IsGreen(pixfmt, x, y) == StartWithGreen(pixfmt) = ((x + y) % 2 = 0)
IsBlueLine(pixfmt, y) == BlueLine(pixfmt) = (y % 2 = 0)

-----------------------------------------------------------------------------
(* A pixel of the first or the last line, from its line and the adjacent   *)
(* one, as <<own, green, other>>.                                          *)
v4lconvert_border_bayer_line_to_bgr24(bayer, adjacent, x, w, green) ==
    IF green
    THEN << CASE x = 0     -> bayer[1]
              [] x = w - 1 -> bayer[w - 2]
              [] OTHER     -> (bayer[x - 1] + bayer[x + 1] + 1) \div 2,
            bayer[x],
            adjacent[x] >>
    ELSE CASE x = 0 ->
              <<bayer[0], (bayer[1] + adjacent[0] + 1) \div 2, adjacent[1]>>
           [] x = w - 1 ->
              <<bayer[x], (bayer[x - 1] + adjacent[x] + 1) \div 2, adjacent[x - 1]>>
           [] OTHER ->
              <<bayer[x], (bayer[x - 1] + bayer[x + 1] + adjacent[x] + 1) \div 3,
                (adjacent[x - 1] + adjacent[x + 1] + 1) \div 2>>

(* A pixel of a line between, from the lines above and below it, as        *)
(* <<own, green, other>>.                                                  *)
InnerPixel(above, bayer, below, x, w, green) ==
    IF green
    THEN << CASE x = 0     -> bayer[1]
              [] x = w - 1 -> bayer[w - 2]
              [] OTHER     -> (bayer[x - 1] + bayer[x + 1] + 1) \div 2,
            bayer[x],
            (above[x] + below[x] + 1) \div 2 >>
    ELSE IF x \in {0, w - 1}
    THEN LET beside == IF x = 0 THEN 1 ELSE w - 2
         IN  <<bayer[x], (above[x] + below[x] + bayer[beside] + 1) \div 3,
               (above[beside] + below[beside] + 1) \div 2>>
    ELSE <<bayer[x],
           (above[x] + bayer[x - 1] + bayer[x + 1] + below[x] + 2) \div 4,
           (above[x - 1] + above[x + 1] + below[x - 1] + below[x + 1] + 2) \div 4>>

Line(bayer, w, y) == [x \in 0 .. w - 1 |-> bayer[y * w + x]]

bayer_to_rgbbgr24(bayer, w, h, start_with_green, blue_line) ==
    LET lines == [y \in 0 .. h - 1 |-> Line(bayer, w, y)]
        Green(x, y) == start_with_green = ((x + y) % 2 = 0)
        Parts(x, y) ==
            IF y \in {0, h - 1}
            THEN v4lconvert_border_bayer_line_to_bgr24(
                     lines[y], lines[IF y = 0 THEN 1 ELSE h - 2], x, w, Green(x, y))
            ELSE InnerPixel(lines[y - 1], lines[y], lines[y + 1], x, w, Green(x, y))
        Pixel(x, y) == IF blue_line = (y % 2 = 0) THEN Parts(x, y) ELSE Swapped(Parts(x, y))
    IN  Rgb24(w, h, Pixel)

(* Blue comes first in BGR24; red comes first in RGB24, which is had by     *)
(* calling the blue lines red.                                             *)
v4lconvert_bayer_to_bgr24(bayer, w, h, pixfmt) ==
    bayer_to_rgbbgr24(bayer, w, h, StartWithGreen(pixfmt), BlueLine(pixfmt))
v4lconvert_bayer_to_rgb24(bayer, w, h, pixfmt) ==
    bayer_to_rgbbgr24(bayer, w, h, StartWithGreen(pixfmt), ~BlueLine(pixfmt))

-----------------------------------------------------------------------------
(* Luma: the colours of a pixel are summed with their weights in units of  *)
(* 2^-15; a sum of n neighbours has an n-th of the weight.                 *)
Luma(weighed) == Byte((weighed + 524288) \div 32768)

RedWeight   == <<8453, 4226, 0, 2113>>
GreenWeight == <<16594, 8297, 5531, 4148>>
BlueWeight  == <<3223, 1611, 0, 806>>
Own(blue)   == IF blue THEN BlueWeight ELSE RedWeight
Other(blue) == IF blue THEN RedWeight ELSE BlueWeight

v4lconvert_border_bayer_line_to_y(bayer, adjacent, x, w, green, blue) ==
    LET Weighed(own, nown, g, ng, other, nother) ==
            Luma(own * Own(blue)[nown] + g * GreenWeight[ng] + other * Other(blue)[nother])
    IN  IF green
        THEN CASE x = 0     -> RGB2Y(IF blue THEN adjacent[0] ELSE bayer[1], bayer[0],
                                     IF blue THEN bayer[1] ELSE adjacent[0])
               [] x = w - 1 -> Weighed(bayer[w - 2], 1, bayer[x], 1, adjacent[x], 1)
               [] OTHER     -> Weighed(bayer[x - 1] + bayer[x + 1], 2, bayer[x], 1,
                                       adjacent[x], 1)
        ELSE CASE x = 0     -> Weighed(bayer[0], 1, bayer[1] + adjacent[0], 2, adjacent[1], 1)
               [] x = w - 1 -> Weighed(bayer[x], 1, bayer[x - 1] + adjacent[x], 2,
                                       adjacent[x - 1], 1)
               [] OTHER     -> Weighed(bayer[x], 1, bayer[x - 1] + bayer[x + 1] + adjacent[x], 3,
                                       adjacent[x - 1] + adjacent[x + 1], 2)

(* In the lines between, the sums are kept in a u8, and some weights       *)
(* differ from those of the border lines.                                  *)
InnerLuma(above, bayer, below, x, w, green, blue) ==
    LET edge   == x \in {0, w - 1}
        beside == IF x = 0 THEN 1 ELSE w - 2
        third  == 5516                              \* 16594 / 3 elsewhere 5531
        Half(c) == IF c = "red" THEN 4226 ELSE 1611
        HalfAtEdge(c) == IF c = "red" THEN 4226 ELSE 1661
        own   == IF blue THEN "blue" ELSE "red"
        other == IF blue THEN "red" ELSE "blue"
    IN  IF green
        THEN LET column == Byte(above[x] + below[x])
             IN  IF edge
                 THEN Luma(bayer[beside] * Own(blue)[1] + 16594 * bayer[x]
                           + column * HalfAtEdge(other))
                 ELSE Luma(Byte(bayer[x - 1] + bayer[x + 1]) * Half(own) + 16594 * bayer[x]
                           + column * Half(other))
        ELSE IF edge
        THEN Luma(bayer[x] * Own(blue)[1]
                  + Byte(above[x] + below[x] + bayer[beside]) * third
                  + Byte(above[beside] + below[beside]) * HalfAtEdge(other))
        ELSE Luma(bayer[x] * Own(blue)[1]
                  + Byte(above[x] + bayer[x - 1] + bayer[x + 1] + below[x]) * GreenWeight[4]
                  + Byte(above[x - 1] + above[x + 1] + below[x - 1] + below[x + 1])
                    * Other(blue)[4])

(* Chroma: each 2x2 block has one red, one blue and two green pixels. *)
BlockColours(bayer, w, pixfmt, x, y) ==
    LET at(dx, dy) == bayer[(2 * y + dy) * w + 2 * x + dx]
        diagonal   == at(0, 0) + at(1, 1)
        other      == at(1, 0) + at(0, 1)
    IN  CASE pixfmt = "SBGGR8" -> <<at(1, 1), other, at(0, 0)>>
          [] pixfmt = "SRGGB8" -> <<at(0, 0), other, at(1, 1)>>
          [] pixfmt = "SGBRG8" -> <<at(0, 1), diagonal, at(1, 0)>>
          [] pixfmt = "SGRBG8" -> <<at(1, 0), diagonal, at(0, 1)>>

BayerU(c) == Byte((14456 * c[3] - 4878 * c[1] - 4789 * c[2] + 4210688) \div 32768)
BayerV(c) == Byte((14456 * c[1] - 6052 * c[2] - 2351 * c[3] + 4210688) \div 32768)

v4lconvert_bayer_to_yuv420(bayer, w, h, pixfmt, yvu) ==
    LET lines == [y \in 0 .. h - 1 |-> Line(bayer, w, y)]
        Y(x, y) ==
            IF y \in {0, h - 1}
            THEN v4lconvert_border_bayer_line_to_y(
                     lines[y], lines[IF y = 0 THEN 1 ELSE h - 2], x, w,
                     IsGreen(pixfmt, x, y), IsBlueLine(pixfmt, y))
            ELSE InnerLuma(lines[y - 1], lines[y], lines[y + 1], x, w,
                           IsGreen(pixfmt, x, y), IsBlueLine(pixfmt, y))
        U(x, y) == BayerU(BlockColours(bayer, w, pixfmt, x, y))
        V(x, y) == BayerV(BlockColours(bayer, w, pixfmt, x, y))
    IN  Yuv420(w, h, yvu, Y, U, V)
=============================================================================
