--------------------------- MODULE CompressedBayer --------------------------
(***************************************************************************)
(* libv4lconvert's decoders of compressed Bayer data: a byte per pixel,    *)
(* written as the difference to pixels before it                           *)
(* (src/libvideo/libv4lconvert/mr97310a.c, sn9c2028-decomp.c, pac207.c,    *)
(* sq905c.c, jl2005bcd.c).                                                 *)
(*                                                                         *)
(* A decoder walks the bit stream once; out is the sequence of bytes it    *)
(* has written.  A decoder looks a code up by the eight bits that follow:  *)
(* its length in bits, the difference it stands for, and whether the value *)
(* follows instead.  The code builds these tables when first needed.       *)
(***************************************************************************)
EXTENDS PixelBuffers, SequencesExt

Buffer(out) == [i \in 0 .. Len(out) - 1 |-> out[i + 1]]

Delta(len, val) == [len |-> len, val |-> val, is_abs |-> FALSE]
Absolute(len)   == [len |-> len, val |-> 0, is_abs |-> TRUE]

-----------------------------------------------------------------------------
(* MR97310A *)
init_mr97310a_decoder(i) ==
    CASE i \div 128 = 0 -> Delta(1, 0)              \* code 0
      [] i \div 32 = 6  -> Delta(3, -3)             \* code 110
      [] i \div 32 = 5  -> Delta(3, 3)              \* code 101
      [] i \div 16 = 8  -> Delta(4, 8)              \* code 1000
      [] i \div 16 = 9  -> Delta(4, -8)             \* code 1001
      [] i \div 16 = 15 -> Delta(4, -20)            \* code 1111
      [] i \div 8 = 28  -> Delta(5, 20)             \* code 11100
      [] i \div 8 = 29  -> Absolute(5)              \* code 11101xxxxx

(* What the pixel after out is likely to be. *)
mr97310a_prediction(out, w) ==
    LET n == Len(out)   row == n \div w   col == n % w
        lp  == out[n - 1]                           \* left, of the same colour
        tp  == out[n - 2 * w + 1]                   \* top
        tlp == out[n - 2 * w - 1]
        trp == out[n - 2 * w + 3]
    IN  CASE row < 2 -> lp
          [] row >= 2 /\ col < 2     -> (tp + trp) \div 2
          [] row >= 2 /\ col > w - 3 -> (tp + lp + tlp + 1) \div 3
          [] OTHER -> (lp + tp + tlp \div 2 + trp \div 2 + 1) \div 3

(* The end of the stream is only looked at after each line. *)
RECURSIVE mr97310a_pixels(_, _, _, _, _, _)
mr97310a_pixels(inp, bitpos, room, out, w, h) ==
    LET n    == Len(out)
        code == init_mr97310a_decoder(EightBits(inp, bitpos))
        abs  == EightBits(inp, bitpos + code.len)
        next == IF code.is_abs THEN bitpos + code.len + 5 ELSE bitpos + code.len
        val  == IF code.is_abs THEN abs - (abs % 8)
                ELSE Clip(mr97310a_prediction(out, w) + code.val)
    IN  IF n > 0 /\ n % w = 0 /\ (bitpos - 1) \div 8 >= room THEN [ok |-> FALSE, out |-> out]
        ELSE IF n = w * h THEN [ok |-> TRUE, out |-> out]
        ELSE IF n \div w < 2 /\ n % w < 2           \* the first two are raw
        THEN mr97310a_pixels(inp, bitpos + 8, room, Append(out, EightBits(inp, bitpos)), w, h)
        ELSE mr97310a_pixels(inp, next, room, Append(out, val), w, h)

(* Mutant: counts to three from zero. *)
ThirdOfThree(src, src_size, frames_dropped, w, h) ==
    LET inp    == [i \in 0 .. src_size - 13 |-> src[i + 12]]
        p      == mr97310a_pixels(inp, 0, src_size - 12, <<>>, w, h)
        slower == ~p.ok /\ frames_dropped = 3
        out    == Buffer(p.out)                     \* the rest: a frame before, here 0
    IN  [ok |-> p.ok \/ slower, dest |-> [i \in 0 .. w * h - 1 |-> At(out, i)], slower |-> slower,
         frames_dropped |-> IF p.ok \/ slower THEN 0 ELSE frames_dropped + 1]

(* The header of 12 bytes is removed, and there are 12 bytes of footer. Of *)
(* incomplete frames the third is let through, and the driver is told to   *)
(* go slower.                                                              *)
v4lconvert_decode_mr97310a(src, src_size, frames_dropped, w, h) ==
    LET inp    == [i \in 0 .. src_size - 13 |-> src[i + 12]]
        p      == mr97310a_pixels(inp, 0, src_size - 12, <<>>, w, h)
        slower == ~p.ok /\ frames_dropped = 2
        out    == Buffer(p.out)                     \* the rest: a frame before, here 0
    IN  [ok |-> p.ok \/ slower, dest |-> [i \in 0 .. w * h - 1 |-> At(out, i)], slower |-> slower,
         frames_dropped |-> IF p.ok \/ slower THEN 0 ELSE frames_dropped + 1]

-----------------------------------------------------------------------------
(* SN9C2028: the same codes, each relative to the pixel before of the same *)
(* column parity; lines start with two raw pixels, without a gap.          *)
PARSE_PIXEL(src, bitpos, val) ==
    LET code == init_mr97310a_decoder(EightBits(src, bitpos))
        five == EightBits(src, bitpos + 5) \div 8
    IN  IF code.is_abs THEN [val |-> 8 * five, next |-> bitpos + 10]
        ELSE [val |-> Clip(val + code.val), next |-> bitpos + code.len]

RECURSIVE sn9c2028_pixels(_, _, _, _, _)
sn9c2028_pixels(src, bitpos, out, w, h) ==
    LET n == Len(out)
        p == IF n % w < 2 THEN [val |-> EightBits(src, bitpos), next |-> bitpos + 8]
                          ELSE PARSE_PIXEL(src, bitpos, out[n - 1])
    IN  IF n = w * h THEN out
        ELSE sn9c2028_pixels(src, p.next, Append(out, p.val), w, h)

v4lconvert_decode_sn9c2028(src, w, h) == Buffer(sn9c2028_pixels(src, 12 * 8, <<>>, w, h))

-----------------------------------------------------------------------------
(* PAC207: each line has a header that says how it is written. *)
init_pixart_decoder(i) ==
    CASE i \div 64 = 0  -> Delta(2, 0)              \* code 00
      [] i \div 64 = 1  -> Delta(2, -1)             \* code 01
      [] i \div 64 = 2  -> Delta(2, 1)              \* code 10
      [] i \div 16 = 12 -> Delta(4, -2)             \* code 1100
      [] i \div 16 = 13 -> Delta(4, 2)              \* code 1101
      [] i \div 8 = 28  -> Delta(5, -3)             \* code 11100
      [] i \div 8 = 29  -> Delta(5, 3)              \* code 11101
      [] i \div 4 = 60  -> Delta(6, -4)             \* code 111100
      [] i \div 4 = 61  -> Delta(6, 4)              \* code 111101
      [] i \div 8 = 31  -> Absolute(5)              \* code 11111xxxxxx

(* The pixels of a line, and the bit behind the last. *)
RECURSIVE pac_row_pixels(_, _, _, _, _, _)
pac_row_pixels(inp, bitpos, row, w, step_size, abs_bits) ==
    LET code == init_pixart_decoder(EightBits(inp, bitpos))
        abs  == EightBits(inp, bitpos + code.len)
    IN  IF Len(row) = w THEN [row |-> row, bitpos |-> bitpos]
        ELSE IF code.is_abs
        THEN pac_row_pixels(inp, bitpos + code.len + abs_bits,
                            Append(row, abs - (abs % 2^(8 - abs_bits))), w, step_size, abs_bits)
        ELSE pac_row_pixels(inp, bitpos + code.len,
                            Append(row, Clip(row[Len(row) - 1] + code.val * step_size)),
                            w, step_size, abs_bits)

(* A line at byte pos, and where the next one starts: at a 16 bit word,    *)
(* counted from the start of the line.                                     *)
pac_decompress_row(inp, pos, w, step_size, abs_bits) ==
    LET p == pac_row_pixels(inp, 8 * pos + 32, <<inp[pos + 2], inp[pos + 3]>>,
                            w, step_size, abs_bits)
    IN  [row |-> p.row, next |-> pos + 2 * ((p.bitpos - 8 * pos + 15) \div 16)]

RECURSIVE pac207_rows(_, _, _, _, _, _)
pac207_rows(inp, pos, src_size, out, w, h) ==
    LET word == <<inp[pos], inp[pos + 1]>>
        line == CASE word = <<15, 240>> ->          \* 0x0FF0
                     [row |-> [i \in 1 .. w |-> inp[pos + 1 + i]], next |-> pos + 2 + w]
                  [] word = <<30, 225>> -> pac_decompress_row(inp, pos, w, 5, 6)   \* 0x1EE1
                  [] word = <<45, 210>> -> pac_decompress_row(inp, pos, w, 9, 5)   \* 0x2DD2
                  [] word = <<60, 195>> -> pac_decompress_row(inp, pos, w, 17, 4)  \* 0x3CC3
                  [] word = <<75, 180>> ->          \* 0x4BB4
                     [row |-> SubSeq(out, Len(out) - 2 * w + 1, Len(out) - w), next |-> pos + 2]
                  [] OTHER -> [row |-> <<>>, next |-> pos]
    IN  IF Len(out) = w * h THEN [ok |-> TRUE, dest |-> Buffer(out)]
        ELSE IF pos + 2 > src_size \/ line.row = <<>> THEN [ok |-> FALSE, dest |-> Buffer(out)]
        ELSE pac207_rows(inp, line.next, src_size, out \o line.row, w, h)

v4lconvert_decode_pac207(inp, src_size, w, h) == pac207_rows(inp, 0, src_size, <<>>, w, h)

-----------------------------------------------------------------------------
(* SQ905C: a code stands for a nibble, and a nibble for a difference. *)
translator(lookup, bits) ==
    CASE bits < 8 -> <<8, 7, 9, 6>>[bits]           \* 0, 10, 110, 1110
      [] bits = 8 -> <<10, 11, 12, 13, 14, 15, 5, 4, 3, 2, 1, 0>>[lookup - 239]

(* The code at bitpos: three ones at most before a zero, or eight bits. *)
sq905c_code_length(input, bitpos) ==
    LET zeros == {n \in 1 .. 4 : Bit(input, bitpos + n - 1) = 0}
    IN  IF zeros = {} THEN 8 ELSE CHOOSE n \in zeros : \A m \in zeros : n <= m

delta_table == <<-144, -110, -77, -53, -35, -21, -11, -3, 2, 10, 20, 34, 52, 76, 110, 144>>

RECURSIVE sq905c_first_decompress(_, _, _, _)
sq905c_first_decompress(input, bitpos, nibbles, count) ==
    LET bits == sq905c_code_length(input, bitpos)
    IN  IF Len(nibbles) = count THEN nibbles
        ELSE sq905c_first_decompress(input, bitpos + bits,
                 Append(nibbles, translator(EightBits(input, bitpos), bits)), count)

(* The template lines of the code hold, for each column, the last value of *)
(* a colour: of red and blue two lines above, of green on the line above,  *)
(* in the columns beside this one; 128 at the top.                         *)
sq905c_prediction(out, w) ==
    LET n == Len(out)   row == n \div w   col == n % w
        left       == out[n - 1]
        same       == IF row < 2 THEN 128 ELSE out[n - 2 * w + 1]
        green(dx)  == IF row = 0 THEN 128 ELSE out[n - w + dx + 1]
        template   == CASE row % 2 = col % 2              -> same
                        [] row % 2 # col % 2 /\ col < w - 1 -> green(1)
                        [] OTHER                          -> green(-1)
    IN  IF col < 2 THEN template ELSE (template + left) \div 2

RECURSIVE sq905c_second_decompress(_, _, _, _)
sq905c_second_decompress(nibbles, out, w, h) ==
    IF Len(out) = w * h THEN out
    ELSE sq905c_second_decompress(nibbles,
             Append(out, Clip(sq905c_prediction(out, w)
                              + delta_table[nibbles[Len(out) + 1] + 1])), w, h)

(* 0x50 bytes of header *)
v4lconvert_decode_sq905c(src, w, h) ==
    LET nibbles == sq905c_first_decompress(src, 8 * 80, <<>>, w * h)
    IN  Buffer(sq905c_second_decompress(nibbles, <<>>, w, h))

-----------------------------------------------------------------------------
(* JL2005BCD: stripes of 16 columns, each a JPEG image whose header the    *)
(* decoder supplies and libjpeg decodes: blocks of 16 lines with 8 x 16    *)
(* greens, 8 x 8 reds and 8 x 8 blues.  A stripe ends with the marker EOI  *)
(* and starts at a multiple of 16.                                         *)
find_eoi(src, from, size) ==
    LET markers == {i \in from .. size - 2 : src[16 + i] = 255 /\ src[16 + i + 1] = 217}
    IN  IF markers = {} THEN -1 ELSE 2 + CHOOSE i \in markers : \A j \in markers : i <= j

(* Where the stripes from x on start; fewer if one has no end. *)
RECURSIVE jl2005bcd_stripes(_, _, _, _, _)
jl2005bcd_stripes(src, size, x, w, idx) ==
    LET eoi == find_eoi(src, idx, size)
    IN  IF x >= w \/ eoi < 0 THEN <<>>
        ELSE <<idx>> \o jl2005bcd_stripes(src, size, x + 16, w, ((eoi + 15) \div 16) * 16)

(* What libjpeg returns: the samples the camera compressed. *)
jpeg_read_raw_data(src, start, block, component, x, y) ==
    src[16 + start + block * 256 + (CASE component = "green" -> 0
                                      [] component = "red"   -> 128
                                      [] component = "blue"  -> 192) + y * 8 + x]

v4lconvert_decode_jl2005bcd(src, src_size, w, h) ==
    LET stripes == jl2005bcd_stripes(src, src_size - 16, 0, w, 0)
        Raw(x, y) ==
            LET Sample(component, line) ==
                    jpeg_read_raw_data(src, stripes[x \div 16 + 1], y \div 16, component,
                                       (x % 16) \div 2, line)
            IN  CASE x % 2 = 0 /\ y % 2 = 0 -> Sample("red", (y % 16) \div 2)
                  [] x % 2 = 1 /\ y % 2 = 1 -> Sample("blue", (y % 16) \div 2)
                  [] OTHER                  -> Sample("green", y % 16)
    IN  IF \/ src_size < 16
           \/ h # src[4] * 8 \/ w # src[5] * 8
           \/ Len(stripes) < (w + 15) \div 16
        THEN [ok |-> FALSE, dest |-> <<>>]
        ELSE [ok |-> TRUE, dest |-> Plane(w, h, Raw)]
=============================================================================
