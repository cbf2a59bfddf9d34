--------------------------- MODULE TinyjpegDecode ---------------------------
(***************************************************************************)
(* tinyjpeg, continued: from the scans of an image to pixels               *)
(* (tinyjpeg_decode, src/libvideo/libv4lconvert/tinyjpeg.c), and           *)
(* libv4lconvert's use of it (src/libvideo/libv4lconvert/jpeg.c).          *)
(***************************************************************************)
EXTENDS Tinyjpeg

RST == 208                                          \* 0xd0, up to RST + 7
EOI_MARKER == 217
SOS_MARKER == 218

Q_table(dec, c) == dec.Q_tables[dec.component_infos[c].Q_table]

(* The next data unit of component c. *)
Unit(s, dec, c) ==
    process_Huffman_data_unit(s, c, dec.HTDC[dec.component_infos[c].DC_table],
                              dec.HTAC[dec.component_infos[c].AC_table])

IDCT(s, dec, c) == tinyjpeg_idct_float(s.DCT, Q_table(dec, c))

-----------------------------------------------------------------------------
(* A minimum coded unit: h * v blocks of Y, then one of Cb and one of Cr.  *)
(* The blocks of Y are put side by side in lines of 8 * h.                 *)
decode_MCU_1x1_3planes == <<1, 2, 3>>
decode_MCU_2x1_3planes == <<1, 1, 2, 3>>
decode_MCU_1x2_3planes == <<1, 1, 2, 3>>
decode_MCU_2x2_3planes == <<1, 1, 1, 1, 2, 3>>

Components(h, v) ==
    CASE h = 1 /\ v = 1 -> decode_MCU_1x1_3planes
      [] h = 2 /\ v = 1 -> decode_MCU_2x1_3planes
      [] h = 1 /\ v = 2 -> decode_MCU_1x2_3planes
      [] h = 2 /\ v = 2 -> decode_MCU_2x2_3planes

RECURSIVE DecodeBlocks(_, _, _)
DecodeBlocks(s, dec, components) ==
    LET Block(u) == DecodeBlocks([u EXCEPT !.blocks = Append(@, IDCT(u, dec, Head(components)))],
                                 dec, Tail(components))
    IN  IF components = <<>> THEN s ELSE IfRead(Unit(s, dec, Head(components)), Block)

LumaBuffer(blocks, h, v) ==
    LET Sample(x, y) == blocks[(x \div 8) + h * (y \div 8) + 1][8 * (y % 8) + (x % 8)]
    IN  Evaluated([i \in 0 .. 64 * h * v - 1 |-> Sample(i % (8 * h), i \div (8 * h))])

DecodeMCU(s, dec, h, v) ==
    LET n == h * v
        Mcu(r) == [r EXCEPT !.mcus = Append(@, [Y |-> LumaBuffer(r.blocks, h, v),
                                                Cb |-> r.blocks[n + 1], Cr |-> r.blocks[n + 2]])]
    IN  IfRead(DecodeBlocks([s EXCEPT !.blocks = <<>>], dec, Components(h, v)), Mcu)

(* Pixart cameras, whose units are 2x1, put a marker before each. *)
pixart_decode_MCU_2x1_3planes(s) ==
    LET Marked(f) == IF look_nbits(f, 8) \in 32 .. 127 THEN skip_nbits(f, 8) ELSE Broken(f)
    IN  IfRead(fill_nbits(s, 8), Marked)

(* The pixel at x, y of a unit. *)
YCrCB_to_RGB24_1x1(m, x, y) == YuvToRgb(m.Y[8 * y + x], m.Cb[8 * y + x], m.Cr[8 * y + x])
YCrCB_to_RGB24_2x1(m, x, y) ==
    LET c == 8 * y + x \div 2 IN YuvToRgb(m.Y[16 * y + x], m.Cb[c], m.Cr[c])
YCrCB_to_RGB24_1x2(m, x, y) ==
    LET c == 8 * (y \div 2) + x IN YuvToRgb(m.Y[8 * y + x], m.Cb[c], m.Cr[c])
YCrCB_to_RGB24_2x2(m, x, y) ==
    LET c == 8 * (y \div 2) + x \div 2 IN YuvToRgb(m.Y[16 * y + x], m.Cb[c], m.Cr[c])

(* Where Cb and Cr of a pixel of the half-size planes are. *)
YCrCB_to_YUV420P_1x1(x, y) == 16 * y + 2 * x
YCrCB_to_YUV420P_2x1(x, y) == 16 * y + x
YCrCB_to_YUV420P_1x2(x, y) == 8 * y + 2 * x
YCrCB_to_YUV420P_2x2(x, y) == 8 * y + x

(* What tinyjpeg_decode chooses by the sampling of Y. *)
Layout(dec) ==
    LET Y == dec.component_infos[1]
    IN  CASE Y.h = 1 /\ Y.v = 1 -> <<1, 1>>
          [] Y.h = 1 /\ Y.v # 1 -> <<1, 2>>
          [] Y.h # 1 /\ Y.v = 2 -> <<2, 2>>
          [] OTHER -> <<2, 1>>

decode_MCU(s, dec, pixart) ==
    LET Unmarked(m) == DecodeMCU(m, dec, Layout(dec)[1], Layout(dec)[2])
    IN  IfRead(IF pixart THEN pixart_decode_MCU_2x1_3planes(s) ELSE s, Unmarked)

RgbOf(layout, m, x, y) ==
    CASE layout = <<1, 1>> -> YCrCB_to_RGB24_1x1(m, x, y)
      [] layout = <<2, 1>> -> YCrCB_to_RGB24_2x1(m, x, y)
      [] layout = <<1, 2>> -> YCrCB_to_RGB24_1x2(m, x, y)
      [] layout = <<2, 2>> -> YCrCB_to_RGB24_2x2(m, x, y)

ChromaAt(layout, x, y) ==
    CASE layout = <<1, 1>> -> YCrCB_to_YUV420P_1x1(x, y)
      [] layout = <<2, 1>> -> YCrCB_to_YUV420P_2x1(x, y)
      [] layout = <<1, 2>> -> YCrCB_to_YUV420P_1x2(x, y)
      [] layout = <<2, 2>> -> YCrCB_to_YUV420P_2x2(x, y)

-----------------------------------------------------------------------------
(* Restart markers: the means start from zero again, at a byte's start.    *)
resync(s, dec) ==
    [s EXCEPT !.previous_DC = <<0, 0, 0>>, !.reservoir = 0, !.nbits_in_reservoir = 0,
              !.restarts_to_go = IF dec.restart_interval > 0 THEN dec.restart_interval ELSE -1]

(* The marker after a place in the stream, if there is one, and the place  *)
(* behind it.                                                              *)
NextMarker(s, from) ==
    {i \in from + 1 .. End(s) - 1 : /\ s.data[i - 1] = 255 /\ s.data[i] # 255
                                    /\ \A k \in from + 1 .. i - 1 : s.data[k - 1] = 255
                                                                    => s.data[k] = 255}

RECURSIVE rst_marker(_, _)
rst_marker(s, from) ==
    IF NextMarker(s, from) = {} THEN Broken(s)
    ELSE LET i == CHOOSE k \in NextMarker(s, from) : TRUE
             marker == s.data[i]
         IN  CASE marker = RST + s.last_rst_marker_seen ->
                     [s EXCEPT !.stream = i + 1, !.last_rst_marker_seen = (@ + 1) % 8]
               [] /\ marker # RST + s.last_rst_marker_seen
                  /\ marker \in RST .. RST + 7 -> Broken(s)
               [] marker = EOI_MARKER -> s
               [] OTHER -> rst_marker(s, i + 1)

find_next_rst_marker(s) == rst_marker(s, s.stream)

(* Bytes that were read ahead are given back first. *)
Restart(s, dec) ==
    find_next_rst_marker(resync([s EXCEPT !.stream = @ - s.nbits_in_reservoir \div 8], dec))

RECURSIVE DecodeMCUs(_, _, _, _)
DecodeMCUs(s, dec, pixart, n) ==
    LET Counted(r) == [r EXCEPT !.restarts_to_go = IF @ > 0 THEN @ - 1 ELSE @]
        Restarted(t) == IF t.restarts_to_go = 0 THEN Restart(t, dec) ELSE t
        Rest(r) == DecodeMCUs(Restarted(Counted(r)), dec, pixart, n - 1)
    IN  IF n = 0 \/ s.error THEN s ELSE IfRead(decode_MCU(s, dec, pixart), Rest)

(* Pixart cameras send their data in chunks with headers, 255 255 255 and  *)
(* how small the next chunk is: 0 for all that is left.  The chunks of     *)
(* this model are PixartScale times shorter, as its pictures are small.    *)
PixartScale == 64
NoBytes == [i \in {} |-> 0]

Bytes0(data, from, n) == [i \in 0 .. n - 1 |-> data[from + i]]
Joined(a, b) ==
    LET n == Cardinality(DOMAIN a)
    IN  Evaluated([i \in 0 .. n + Cardinality(DOMAIN b) - 1 |-> IF i < n THEN a[i] ELSE b[i - n]])

RECURSIVE pixart_chunks(_, _, _, _)
pixart_chunks(data, at, chunksize, dest) ==
    LET left == Cardinality(DOMAIN data) - at
        next == at + chunksize
        copied == Joined(dest, Bytes0(data, at, chunksize))
        size == data[next + 3]
    IN  IF left < chunksize + 4 \/ \E k \in 0 .. 2 : data[next + k] # 255 THEN NoBytes
        ELSE IF size > 6 THEN NoBytes
        ELSE IF size = 0 THEN Joined(copied, Bytes0(data, next + 4, left - chunksize - 4))
        ELSE pixart_chunks(data, next + 4, (2048 \div PixartScale) \div 2^size, copied)

pixart_filter(data) == pixart_chunks(data, 1, 1024 \div PixartScale - 6, NoBytes)

-----------------------------------------------------------------------------
Failed == [ok |-> FALSE, dest |-> <<>>]

(* All components in one scan: unit by unit, each put where it belongs. *)
InterleavedPicture(dec, mcus, dest) ==
    LET layout == Layout(dec)
        w == 8 * layout[1]   h == 8 * layout[2]     \* of a unit
        Of(x, y) == mcus[(x \div w) + (dec.width \div w) * (y \div h) + 1]
        Pixel(x, y) == LET p == RgbOf(layout, Of(x, y), x % w, y % h)
                       IN  IF dest = "BGR24" THEN Swapped(p) ELSE p
        Y(x, y) == Of(x, y).Y[w * (y % h) + (x % w)]
        In(x, y) == ChromaAt(layout, x % (w \div 2), y % (h \div 2))
        U(x, y) == Of(2 * x, 2 * y).Cb[In(x, y)]
        V(x, y) == Of(2 * x, 2 * y).Cr[In(x, y)]
    IN  IF dest \in {"RGB24", "BGR24"} THEN Rgb24(dec.width, dec.height, Pixel)
        ELSE Yuv420(dec.width, dec.height, dest = "YVU420", Y, U, V)

DecodeInterleaved(dec, data, pixart, dest) ==
    LET area == 64 * Layout(dec)[1] * Layout(dec)[2]
        Picture(r) == IF r.error \/ (pixart /\ End(r) - r.stream > 5) THEN Failed
                      ELSE [ok |-> TRUE, dest |-> InterleavedPicture(dec, r.mcus, dest)]
    IN  Picture(DecodeMCUs(resync(Stream(data), dec), dec, pixart, (dec.width * dec.height) \div area))

(* A plane of a planar image: its blocks, line by line. *)
DecodePlane(dec, data, c, w, h) ==
    LET n == (w \div 8) * (h \div 8)
        GiveBack(s) == [s EXCEPT !.stream = @ - s.nbits_in_reservoir \div 8]
    IN  GiveBack(DecodeBlocks(resync(Stream(data), dec), dec, [i \in 1 .. n |-> c]))

PlaneOf(s, w, h) ==
    LET Sample(x, y) == s.blocks[(x \div 8) + (w \div 8) * (y \div 8) + 1][8 * (y % 8) + (x % 8)]
    IN  Evaluated(Plane(w, h, Sample))

RECURSIVE sos_marker(_, _)
sos_marker(s, from) ==
    IF NextMarker(s, from) = {} THEN FALSE
    ELSE LET i == CHOOSE k \in NextMarker(s, from) : TRUE
         IN  s.data[i] = SOS_MARKER \/ sos_marker(s, i + 1)

find_next_sos_marker(s) == ~s.error /\ sos_marker(s, s.stream)

(* Planes of half the width and height, whatever the header says of the    *)
(* sampling of lines.                                                      *)
PlanarPicture(w, h, luma, cb, cr, dest) ==
    LET C(x, y) == (y \div 2) * (w \div 2) + x \div 2
        Pixel(x, y) == LET p == YuvToRgb(luma[y * w + x], cb[C(x, y)], cr[C(x, y)])
                       IN  IF dest = "BGR24" THEN Swapped(p) ELSE p
        Y(x, y) == luma[y * w + x]
        U(x, y) == cb[y * (w \div 2) + x]
        V(x, y) == cr[y * (w \div 2) + x]
    IN  IF dest \in {"RGB24", "BGR24"} THEN Rgb24(w, h, Pixel)
        ELSE Yuv420(w, h, dest = "YVU420", Y, U, V)

tinyjpeg_decode_planar(dec, scans, dest) ==
    LET w == dec.width   h == dec.height
        Is(d, c) == ~d.error /\ d.current_cid = d.component_infos[c].cid
        Followed(s, n) == find_next_sos_marker(s) /\ Len(scans) > n
        Scan(d, n) == parse_SOS(d, scans[n].components)
        Picture(luma, cb, cr) ==
            IF cr.error THEN Failed
            ELSE [ok |-> TRUE, dest |-> PlanarPicture(w, h, PlaneOf(luma, w, h),
                                                      PlaneOf(cb, w \div 2, h \div 2),
                                                      PlaneOf(cr, w \div 2, h \div 2), dest)]
        Third(luma, cb, d) ==
            IF ~Is(d, 3) THEN Failed
            ELSE Picture(luma, cb, DecodePlane(d, scans[3].data, 3, w \div 2, h \div 2))
        AfterCb(luma, cb, d) == IF Followed(cb, 2) THEN Third(luma, cb, Scan(d, 3)) ELSE Failed
        Second(luma, d) ==
            IF ~Is(d, 2) THEN Failed
            ELSE AfterCb(luma, DecodePlane(d, scans[2].data, 2, w \div 2, h \div 2), d)
        AfterLuma(luma) == IF Followed(luma, 1) THEN Second(luma, Scan(dec, 2)) ELSE Failed
    IN  IF Is(dec, 1) THEN AfterLuma(DecodePlane(dec, scans[1].data, 1, w, h)) ELSE Failed

tinyjpeg_decode(dec, scans, pixart, dest) ==
    LET Decode(data) == IF pixart /\ (data = NoBytes \/ Layout(dec) # <<2, 1>>) THEN Failed
                        ELSE DecodeInterleaved(dec, data, pixart, dest)
    IN  IF dec.planar THEN tinyjpeg_decode_planar(dec, scans, dest)
        ELSE Decode(IF pixart THEN pixart_filter(scans[1].data) ELSE scans[1].data)

(* tinyjpeg's part of v4lconvert_data is made for the first frame.  The    *)
(* frame has the sides of the image then, which a sensor mounted sideways  *)
(* exchanges.  Planar scans change the tables of dec, which the next       *)
(* frame's header does again.                                              *)
v4lconvert_decode_jpeg_tinyjpeg(tinyjpeg, img, width, height, rotated, pixart, dest) ==
    LET expected == IF rotated THEN <<height, width>> ELSE <<width, height>>
        Result(dec, result, buffer) ==
            [result |-> result, dest |-> buffer, w |-> dec.width, h |-> dec.height, tinyjpeg |-> dec]
        Decoded(dec, d) == Result(dec, IF d.ok THEN "ok" ELSE "EPIPE", d.dest)
        Decode(dec) ==
            CASE dec.error -> Result(dec, "EAGAIN", <<>>)
              [] ~dec.error /\ <<dec.width, dec.height>> # expected -> Result(dec, "EIO", <<>>)
              [] OTHER -> Decoded(dec, tinyjpeg_decode(dec, img.scans, pixart, dest))
    IN  Decode(tinyjpeg_parse_header(tinyjpeg, img, pixart))
=============================================================================
