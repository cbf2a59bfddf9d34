---------------------------- MODULE CameraFormats ---------------------------
(***************************************************************************)
(* libv4lconvert's decoders of the formats only one family of cameras has, *)
(* uncompressed ones: the same samples in an order of their own            *)
(* (src/libvideo/libv4lconvert/spca501.c, hm12.c, sn9c20x.c, stv0680.c).   *)
(***************************************************************************)
EXTENDS Rgbyuv

(* The spca cameras send -128 .. 127: each byte has its top bit flipped.   *)
Flipped(v) == (v + 128) % 256

(* A pair of lines is 3 * w bytes: two lines of Y, and a line of U and one *)
(* of V of half the width, each at the offset given for it.                *)
PairedLines(src, w, h, yvu, even, odd, u, v, Val(_)) ==
    LET pair(y) == (y \div 2) * 3 * w
        Y(x, y) == Val(src[pair(y) + (IF y % 2 = 0 THEN even ELSE odd) + x])
        U(x, y) == Val(src[pair(2 * y) + u + x])
        V(x, y) == Val(src[pair(2 * y) + v + x])
    IN  Yuv420(w, h, yvu, Y, U, V)

(* YUYV per line *)
v4lconvert_spca501_to_yuv420(src, w, h, yvu) ==
    PairedLines(src, w, h, yvu, 0, w + w \div 2, w, 2 * w + w \div 2, Flipped)

(* YYUV per line *)
v4lconvert_spca505_to_yuv420(src, w, h, yvu) ==
    PairedLines(src, w, h, yvu, 0, w, 2 * w, 2 * w + w \div 2, Flipped)

(* YUVY per line *)
v4lconvert_spca508_to_yuv420(src, w, h, yvu) ==
    PairedLines(src, w, h, yvu, 0, 2 * w, w, w + w \div 2, Flipped)

(* One line of Y, then one of VYUY. *)
v4lconvert_cit_yyvyuy_to_yuv420(src, w, h, yvu) ==
    LET pair(y) == (y \div 2) * 3 * w
        Y(x, y) == IF y % 2 = 0 THEN src[pair(y) + x] ELSE src[pair(y) + w + 2 * x + 1]
        U(x, y) == src[pair(2 * y) + w + 4 * x + 2]
        V(x, y) == src[pair(2 * y) + w + 4 * x]
    IN  Yuv420(w, h, yvu, Y, U, V)

(* Blocks of 256 pixels: 256 bytes of Y, 64 of U, 64 of V. *)
v4lconvert_konica_yuv420_to_yuv420(src, w, h, yvu) ==
    LET Y(x, y) == LET i == y * w + x IN src[(i \div 256) * 384 + (i % 256)]
        C(i, first) == src[(i \div 64) * 384 + first + (i % 64)]
        U(x, y) == C(y * (w \div 2) + x, 256)
        V(x, y) == C(y * (w \div 2) + x, 320)
    IN  Yuv420(w, h, yvu, Y, U, V)

(* Two lines of Y, then one of UV. *)
v4lconvert_m420_to_yuv420(src, w, h, yvu) ==
    LET Y(x, y) == src[(y \div 2) * 3 * w + (y % 2) * w + x]
        U(x, y) == src[y * 3 * w + 2 * w + 2 * x]
        V(x, y) == src[y * 3 * w + 2 * w + 2 * x + 1]
    IN  Yuv420(w, h, yvu, Y, U, V)

-----------------------------------------------------------------------------
(* HM12: macroblocks of 16 x 16 bytes in lines of 720, the Y of all the    *)
(* picture and then U and V in turn.                                       *)
stride == 720

(* The byte at x, y of the macroblocks that start at base. *)
de_macro(src, base, x, y) ==
    src[base + (y \div 16) * 16 * stride + (x \div 16) * 256 + (y % 16) * 16 + (x % 16)]

v4lconvert_hm12_to_rgb(src, w, h, rgb) ==
    LET Pixel(x, y) ==
            LET mb_uv  == (y \div 32) * (stride \div 16) + x \div 16
                src_uv == stride * h + mb_uv * 256 + IF (y \div 16) % 2 = 1 THEN 128 ELSE 0
                uv     == src_uv + ((y % 16) \div 2) * 16 + Even(x % 16)
                p      == YuvToRgb(de_macro(src, 0, x, y), src[uv], src[uv + 1])
            IN  IF rgb THEN p ELSE Swapped(p)
    IN  Rgb24(w, h, Pixel)

(* Both pass TRUE. *)
v4lconvert_hm12_to_rgb24(src, w, h) == v4lconvert_hm12_to_rgb(src, w, h, TRUE)
v4lconvert_hm12_to_bgr24(src, w, h) == v4lconvert_hm12_to_rgb(src, w, h, TRUE)

v4lconvert_hm12_to_yuv420(src, w, h, yvu) ==
    LET Y(x, y) == de_macro(src, 0, x, y)
        U(x, y) == de_macro(src, stride * h, 2 * x, y)
        V(x, y) == de_macro(src, stride * h, 2 * x + 1, y)
    IN  Yuv420(w, h, yvu, Y, U, V)

-----------------------------------------------------------------------------
(* SN9C20X: blocks of 16 x 8 pixels, 192 bytes: the left and the right     *)
(* 8 x 8 bytes of Y, then 8 x 4 of U and 8 x 4 of V.                       *)
v4lconvert_sn9c20x_to_yuv420(raw, w, h, yvu) ==
    LET block(x, y) == 192 * ((y \div 8) * (w \div 16) + x \div 16)
        Y(x, y) == raw[block(x, y) + ((x % 16) \div 8) * 64 + (y % 8) * 8 + (x % 8)]
        U(x, y) == raw[block(2 * x, 2 * y) + 128 + (y % 4) * 8 + (x % 8)]
        V(x, y) == raw[block(2 * x, 2 * y) + 160 + (y % 4) * 8 + (x % 8)]
    IN  Yuv420(w, h, yvu, Y, U, V)

(* STV0680: the even pixels of a line, then the odd ones. *)
v4lconvert_decode_stv0680(src, w, h) ==
    LET Raw(x, y) == src[y * w + (x % 2) * (w \div 2) + x \div 2] IN Plane(w, h, Raw)

-----------------------------------------------------------------------------
(* CPIA1: a header of 64 bytes, lines that start with their length and end *)
(* with EOL, and four bytes EOI.  An even line holds YUYV, an odd one Y.   *)
(* In a compressed frame a byte 2n + 1 leaves out n pixels, which keep     *)
(* what they were in the frame before.                                     *)
FRAME_HEADER_SIZE == 64
EOL == 253
EOI == 255

cpia1_header_ok(src, src_size, w, h) ==
    /\ w <= 352 /\ h <= 288
    /\ src_size >= FRAME_HEADER_SIZE
    /\ src[0] = 25 /\ src[1] = 104                  \* MAGIC_0, MAGIC_1
    /\ src[17] = 0 /\ src[18] = 0                   \* SUBSAMPLE_420, YUVORDER_YUYV
    /\ (src[25] - src[24]) * 8 = w /\ (src[27] - src[26]) * 4 = h
    /\ src[28] \in {0, 1} /\ src[29] = 0            \* no decimation

(* The two pixels of a line at x, from the bytes at pos. *)
cpia1_pair(src, pos, dest, w, h, yvu, x, y) ==
    IF y % 2 = 0
    THEN [dest EXCEPT ![y * w + x] = src[pos], ![UAt(w, h, yvu, x, y)] = src[pos + 1],
                      ![y * w + x + 1] = src[pos + 2], ![VAt(w, h, yvu, x, y)] = src[pos + 3]]
    ELSE [dest EXCEPT ![y * w + x] = src[pos], ![y * w + x + 1] = src[pos + 1]]

RECURSIVE cpia1_compressed_line(_, _, _, _, _, _, _, _, _)
cpia1_compressed_line(src, pos, ll, dest, w, h, yvu, x, y) ==
    LET skip == src[pos] \div 2
        used == IF y % 2 = 0 THEN 4 ELSE 2
    IN  IF x >= w \/ ll <= 1 THEN [ok |-> ll = 1 /\ x = w, dest |-> dest]
        ELSE IF src[pos] % 2 = 0
        THEN cpia1_compressed_line(src, pos + used, ll - used,
                 cpia1_pair(src, pos, dest, w, h, yvu, x, y), w, h, yvu, x + 2, y)
        ELSE IF skip % 2 = 1 THEN [ok |-> FALSE, dest |-> dest]
        ELSE cpia1_compressed_line(src, pos + 1, ll - 1, dest, w, h, yvu, x + skip, y)

RECURSIVE cpia1_plain_line(_, _, _, _, _, _, _, _)
cpia1_plain_line(src, pos, dest, w, h, yvu, x, y) ==
    IF x = w THEN dest
    ELSE cpia1_plain_line(src, pos + (IF y % 2 = 0 THEN 4 ELSE 2),
                          cpia1_pair(src, pos, dest, w, h, yvu, x, y), w, h, yvu, x + 2, y)

(* The lines from y on, left bytes from pos on; dest is what was written. *)
RECURSIVE cpia1_lines(_, _, _, _, _, _, _, _, _)
cpia1_lines(src, pos, left, dest, compressed, w, h, yvu, y) ==
    LET ll    == src[pos] + 256 * src[pos + 1]
        whole == left >= 2 /\ left - 2 >= ll /\ src[pos + 1 + ll] = EOL
        expected == IF y % 2 = 0 THEN 2 * w + 1 ELSE w + 1
        line == IF compressed
                THEN cpia1_compressed_line(src, pos + 2, ll, dest, w, h, yvu, 0, y)
                ELSE [ok |-> ll = expected,
                      dest |-> IF ll = expected
                               THEN cpia1_plain_line(src, pos + 2, dest, w, h, yvu, 0, y)
                               ELSE dest]
    IN  IF y = h
        THEN [ok |-> left >= 4 /\ \A i \in left - 4 .. left - 1 : src[pos + i] = EOI,
              dest |-> dest]
        ELSE IF ~whole \/ ~line.ok THEN [ok |-> FALSE, dest |-> dest]
        ELSE cpia1_lines(src, pos + 2 + ll, left - 2 - ll, line.dest, compressed,
                         w, h, yvu, y + 1)

(* Whether the frame was good, and the picture; the caller keeps that of a *)
(* good frame as previous_frame.                                           *)
v4lconvert_cpia1_to_yuv420(src, src_size, previous_frame, w, h, yvu) ==
    IF ~cpia1_header_ok(src, src_size, w, h) THEN [ok |-> FALSE, dest |-> previous_frame]
    ELSE cpia1_lines(src, FRAME_HEADER_SIZE, src_size - FRAME_HEADER_SIZE, previous_frame,
                     src[28] = 1, w, h, yvu, 0)

-----------------------------------------------------------------------------
(* SE401: packets of a 4 byte header and a bit stream.  A component is the *)
(* difference to the pixel before, in units of 8, written as its length in *)
(* ones, a zero, and its bits, of which the first says that it is positive.*)
SE401_QUANT_FACT == 8

RECURSIVE Ones(_, _)
Ones(src, bit) == IF Bit(src, bit) = 0 THEN 0 ELSE 1 + Ones(src, bit + 1)

RECURSIVE Number(_, _, _)
Number(src, bit, len) ==
    IF len = 0 THEN 0 ELSE 2 * Number(src, bit, len - 1) + Bit(src, bit + len - 1)

wr_pixel(p, out, pitch) ==
    LET n == Len(out)
    IN  Append(out, Byte(p * SE401_QUANT_FACT + IF n % pitch < 3 THEN 0 ELSE out[n - 2]))

(* Reads the given number of components from the bits before last. *)
RECURSIVE decode_JangGu(_, _, _, _, _, _)
decode_JangGu(src, bit, last, components, out, pitch) ==
    LET len   == Ones(src, bit)
        next  == bit + 2 * len + 1
        value == Number(src, bit + len + 1, len)
        p     == IF len = 0 \/ value >= 2^(len - 1) THEN value ELSE value - 2^len + 1
    IN  IF components = 0 THEN [ok |-> TRUE, out |-> out]
        ELSE IF next > last THEN [ok |-> FALSE, out |-> out]
        ELSE decode_JangGu(src, next, last, components - 1, wr_pixel(p, out, pitch), pitch)

RECURSIVE se401_packets(_, _, _, _, _, _, _)
se401_packets(src, src_size, in, total, out, w, h) ==
    LET bits   == src[in + 3] + src[in + 2] * 256
        pixels == src[in + 1] + (src[in] % 64) * 256
        info   == src[in] \div 64                   \* 0 inter packet, 1 eof, 2 sof
        plen   == ((bits + 47) \div 16) * 2
        sane   == /\ plen <= 1024 /\ in + plen <= src_size
                  /\ total + pixels <= w * h
                  /\ in = 0 => info = 2
                  /\ in > 0 /\ in + plen < src_size => info = 0
                  /\ in + plen = src_size => info = 1
        packet == decode_JangGu(src, 8 * (in + 4), 8 * (in + 4) + bits, 3 * pixels, out, 3 * w)
    IN  IF in + 4 >= src_size
        THEN [ok |-> in = src_size /\ total = w * h, out |-> out]
        ELSE IF ~sane \/ ~packet.ok THEN [ok |-> FALSE, out |-> out]
        ELSE se401_packets(src, src_size, in + plen, total + pixels, packet.out, w, h)

v4lconvert_se401_to_rgb24(src, src_size, w, h) ==
    LET p == se401_packets(src, src_size, 0, 0, <<>>, w, h)
    IN  [ok |-> p.ok, dest |-> [i \in 0 .. Len(p.out) - 1 |-> p.out[i + 1]]]
=============================================================================
