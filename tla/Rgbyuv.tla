------------------------------- MODULE Rgbyuv -------------------------------
(***************************************************************************)
(* libv4lconvert's conversions between the plain RGB, YUV and grey formats *)
(* (src/libvideo/libv4lconvert/rgbyuv.c and rgbyuv.h).                     *)
(*                                                                         *)
(* The build sets no CONVERSION_QUALITY, so the macros are those of the    *)
(* default, 3: float arithmetic, here scaled by 10^5, truncated by the     *)
(* cast to int.                                                            *)
(***************************************************************************)
EXTENDS PixelBuffers

UV2V1(u, v) == Trunc(113983 * v + 50000, 100000)
UV2RG(u, v) == Trunc(39465 * u + 58060 * v - 50000, 100000)
UV2U1(u, v) == Trunc(203211 * u + 50000, 100000)

RGB2Y(r, g, b) == Byte(Trunc(29900 * r + 58700 * g + 11400 * b, 100000))
RGB2U(r, g, b) == Byte(Trunc(43600 * b - 14713 * r - 28886 * g, 100000))
RGB2V(r, g, b) == Byte(Trunc(61500 * r - 51499 * g - 10010 * b, 100000))

(* The pixel of bytes y, u and v. *)
YuvToRgb(y, u, v) == <<Clip(y + UV2V1(u - 128, v - 128)),
                       Clip(y - UV2RG(u - 128, v - 128)),
                       Clip(y + UV2U1(u - 128, v - 128))>>

-----------------------------------------------------------------------------
v4lconvert_rgb24_to_yuv420(src, w, h, bytesperline, bgr, yvu) ==
    LET C(x, y, k) == src[y * bytesperline + 3 * x + IF bgr THEN 2 - k ELSE k]
        Avg(x, y, k) == (C(2 * x, 2 * y, k) + C(2 * x, 2 * y + 1, k) + C(2 * x + 1, 2 * y, k)
                         + C(2 * x + 1, 2 * y + 1, k) + 2) \div 4
        Y(x, y) == RGB2Y(C(x, y, 0), C(x, y, 1), C(x, y, 2))
        U(x, y) == RGB2U(Avg(x, y, 0), Avg(x, y, 1), Avg(x, y, 2))
        V(x, y) == RGB2V(Avg(x, y, 0), Avg(x, y, 1), Avg(x, y, 2))
    IN  Yuv420(w, h, yvu, Y, U, V)

v4lconvert_yuv420_to_rgb24(src, w, h, yvu) ==
    LET Pixel(x, y) == YuvToRgb(src[y * w + x], src[UAt(w, h, yvu, x, y)],
                                src[VAt(w, h, yvu, x, y)])
    IN  Rgb24(w, h, Pixel)

v4lconvert_yuv420_to_bgr24(src, w, h, yvu) ==
    LET Pixel(x, y) == Swapped(YuvToRgb(src[y * w + x], src[UAt(w, h, yvu, x, y)],
                                        src[VAt(w, h, yvu, x, y)]))
    IN  Rgb24(w, h, Pixel)

(* The packed formats: four bytes hold the Y of two pixels, and their U    *)
(* and V, at these offsets.                                                *)
Y1 == [YUYV |-> 0, YVYU |-> 0, UYVY |-> 1]          \* the second Y is 2 further
U1 == [YUYV |-> 1, YVYU |-> 3, UYVY |-> 0]
V1 == [YUYV |-> 3, YVYU |-> 1, UYVY |-> 2]

PackedPixel(src, w, packing, x, y) ==
    LET four == (y * w + x - (x % 2)) * 2
    IN  YuvToRgb(src[four + Y1[packing] + 2 * (x % 2)], src[four + U1[packing]],
                 src[four + V1[packing]])

v4lconvert_yuyv_to_rgb24(src, w, h) ==
    LET Pixel(x, y) == PackedPixel(src, w, "YUYV", x, y) IN Rgb24(w, h, Pixel)
v4lconvert_yuyv_to_bgr24(src, w, h) ==
    LET Pixel(x, y) == Swapped(PackedPixel(src, w, "YUYV", x, y)) IN Rgb24(w, h, Pixel)
v4lconvert_yvyu_to_rgb24(src, w, h) ==
    LET Pixel(x, y) == PackedPixel(src, w, "YVYU", x, y) IN Rgb24(w, h, Pixel)
v4lconvert_yvyu_to_bgr24(src, w, h) ==
    LET Pixel(x, y) == Swapped(PackedPixel(src, w, "YVYU", x, y)) IN Rgb24(w, h, Pixel)
v4lconvert_uyvy_to_rgb24(src, w, h) ==
    LET Pixel(x, y) == PackedPixel(src, w, "UYVY", x, y) IN Rgb24(w, h, Pixel)
v4lconvert_uyvy_to_bgr24(src, w, h) ==
    LET Pixel(x, y) == Swapped(PackedPixel(src, w, "UYVY", x, y)) IN Rgb24(w, h, Pixel)

(* The chroma of two lines is averaged. *)
v4lconvert_yuyv_to_yuv420(src, w, h, yvu) ==
    LET Y(x, y) == src[(y * w + x) * 2]
        U(x, y) == (src[4 * (y * w + x) + 1] + src[4 * (y * w + x) + 2 * w + 1]) \div 2
        V(x, y) == (src[4 * (y * w + x) + 3] + src[4 * (y * w + x) + 2 * w + 3]) \div 2
    IN  Yuv420(w, h, yvu, Y, U, V)

(* Here the cast to u8 is applied to the sum, before it is halved. *)
v4lconvert_uyvy_to_yuv420(src, w, h, yvu) ==
    LET Y(x, y) == src[(y * w + x) * 2 + 1]
        U(x, y) == Byte(src[4 * (y * w + x)] + src[4 * (y * w + x) + 2 * w]) \div 2
        V(x, y) == Byte(src[4 * (y * w + x) + 2] + src[4 * (y * w + x) + 2 * w + 2]) \div 2
    IN  Yuv420(w, h, yvu, Y, U, V)

v4lconvert_swap_rgb(src, w, h) ==
    [i \in 0 .. 3 * w * h - 1 |-> src[i + 2 - 2 * (i % 3)]]

(* The second chroma plane is copied before the first. *)
v4lconvert_swap_uv(src, w, h, bytesperline) ==
    LET Y(x, y) == src[y * bytesperline + x]
        Component(n, x, y) == src[h * bytesperline + n * ((h * bytesperline) \div 4)
                                  + y * (bytesperline \div 2) + x]
        First(x, y) == Component(1, x, y)
        Second(x, y) == Component(0, x, y)
    IN  Yuv420(w, h, FALSE, Y, First, Second)

-----------------------------------------------------------------------------
(* RGB565: a pixel is a little-endian short. *)
Short(src, i) == src[2 * i] + 256 * src[2 * i + 1]

Top5(s) == (s \div 2048) * 8                        \* 0xf8 & (s >> 8)
Mid6(s) == ((s \div 32) % 64) * 4                   \* 0xfc & (s >> 3)
Low5(s) == (s % 32) * 8                             \* 0xf8 & (s << 3)

v4lconvert_rgb565_to_rgb24(src, w, h) ==
    LET Pixel(x, y) == LET s == Short(src, y * w + x) IN <<Top5(s), Mid6(s), Low5(s)>>
    IN  Rgb24(w, h, Pixel)

v4lconvert_rgb565_to_bgr24(src, w, h) ==
    LET Pixel(x, y) == LET s == Short(src, y * w + x) IN <<Low5(s), Mid6(s), Top5(s)>>
    IN  Rgb24(w, h, Pixel)

(* Red is taken from the low bits and blue from the high ones; the line    *)
(* below is looked for bytesperline shorts, not bytes, further on; and the *)
(* average of red is made from green.                                      *)
v4lconvert_rgb565_to_yuv420(src, w, h, bytesperline, yvu) ==
    LET S(x, y) == At(src, y * bytesperline + 2 * x)
                   + 256 * At(src, y * bytesperline + 2 * x + 1)
        Sum4(x, y, Part(_)) == Part(S(2 * x, 2 * y)) + Part(S(2 * x + 1, 2 * y))
                               + Part(S(2 * x, 2 * y + 2)) + Part(S(2 * x + 1, 2 * y + 2))
        green(x, y) == (Sum4(x, y, Mid6) + 2) \div 4
        red(x, y)   == green(x, y)
        blue(x, y)  == (Sum4(x, y, Top5) + 2) \div 4
        Y(x, y) == RGB2Y(Low5(S(x, y)), Mid6(S(x, y)), Top5(S(x, y)))
        U(x, y) == RGB2U(red(x, y), green(x, y), blue(x, y))
        V(x, y) == RGB2V(red(x, y), green(x, y), blue(x, y))
    IN  Yuv420(w, h, yvu, Y, U, V)

-----------------------------------------------------------------------------
Grey(x, y) == 128

v4lconvert_grey_to_rgb24(src, w, h) == [i \in 0 .. 3 * w * h - 1 |-> src[i \div 3]]

v4lconvert_grey_to_yuv420(src, w, h) ==
    LET Y(x, y) == src[y * w + x] IN Yuv420(w, h, FALSE, Y, Grey, Grey)

(* Ten bits per pixel without gaps; the two lowest are discarded. *)
v4lconvert_y10b_to_rgb24(src, w, h) ==
    [i \in 0 .. 3 * w * h - 1 |-> EightBits(src, 10 * (i \div 3))]

v4lconvert_y10b_to_yuv420(src, w, h) ==
    LET Y(x, y) == EightBits(src, 10 * (y * w + x)) IN Yuv420(w, h, FALSE, Y, Grey, Grey)
=============================================================================
