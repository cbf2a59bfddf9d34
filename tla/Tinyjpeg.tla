------------------------------ MODULE Tinyjpeg ------------------------------
(***************************************************************************)
(* tinyjpeg, the decoder libv4lconvert falls back on: Huffman codes, the   *)
(* inverse cosine transform, and the parser of the header                  *)
(* (src/libvideo/libv4lconvert/tinyjpeg.c, jidctflt.c).                    *)
(*                                                                         *)
(* An image has the sequence of its header's segments, ending with the     *)
(* first SOS, and the scans that follow: bytes, up to and with the marker  *)
(* behind them, and the components of the SOS that another scan starts     *)
(* with.  struct jdec_private is in two records: dec, what it keeps from   *)
(* frame to frame, and s, the place in the stream of a frame.              *)
(***************************************************************************)
EXTENDS Rgbyuv, SequencesExt

COMPONENTS == 3
HUFFMAN_TABLES == 4
JPEG_MAX_WIDTH == 2048
JPEG_MAX_HEIGHT == 2048

zigzag ==
    <<0, 1, 5, 6, 14, 15, 27, 28, 2, 4, 7, 13, 16, 26, 29, 42, 3, 8, 12, 17, 25, 30, 41, 43,
      9, 11, 18, 24, 31, 40, 44, 53, 10, 19, 23, 32, 39, 45, 52, 54, 20, 22, 33, 38, 46, 51,
      55, 60, 21, 34, 37, 47, 50, 56, 59, 61, 35, 36, 48, 49, 57, 58, 62, 63>>

-----------------------------------------------------------------------------
(* Huffman tables: how many codes there are of 1, 2, ... 16 bits, and the  *)
(* values they stand for.                                                  *)
bits_dc_luminance   == <<0, 1, 5, 1, 1, 1, 1, 1, 1, 0, 0, 0, 0, 0, 0, 0>>
bits_dc_chrominance == <<0, 3, 1, 1, 1, 1, 1, 1, 1, 1, 1, 0, 0, 0, 0, 0>>
val_dc              == <<0, 1, 2, 3, 4, 5, 6, 7, 8, 9, 10, 11>>

bits_ac_luminance == <<0, 2, 1, 3, 3, 2, 4, 3, 5, 5, 4, 4, 0, 0, 1, 125>>
val_ac_luminance ==
    <<1, 2, 3, 0, 4, 17, 5, 18, 33, 49, 65, 6, 19, 81, 97, 7, 34, 113, 20, 50, 129, 145, 161, 8,
      35, 66, 177, 193, 21, 82, 209, 240, 36, 51, 98, 114, 130, 9, 10, 22, 23, 24, 25, 26, 37, 38,
      39, 40, 41, 42, 52, 53, 54, 55, 56, 57, 58, 67, 68, 69, 70, 71, 72, 73, 74, 83, 84, 85, 86,
      87, 88, 89, 90, 99, 100, 101, 102, 103, 104, 105, 106, 115, 116, 117, 118, 119, 120, 121,
      122, 131, 132, 133, 134, 135, 136, 137, 138, 146, 147, 148, 149, 150, 151, 152, 153, 154,
      162, 163, 164, 165, 166, 167, 168, 169, 170, 178, 179, 180, 181, 182, 183, 184, 185, 186,
      194, 195, 196, 197, 198, 199, 200, 201, 202, 210, 211, 212, 213, 214, 215, 216, 217, 218,
      225, 226, 227, 228, 229, 230, 231, 232, 233, 234, 241, 242, 243, 244, 245, 246, 247, 248,
      249, 250>>

bits_ac_chrominance == <<0, 2, 1, 2, 4, 4, 3, 4, 7, 5, 4, 4, 0, 1, 2, 119>>
val_ac_chrominance ==
    <<0, 1, 2, 3, 17, 4, 5, 33, 49, 6, 18, 65, 81, 7, 97, 113, 19, 34, 50, 129, 8, 20, 66, 145,
      161, 177, 193, 9, 35, 51, 82, 240, 21, 98, 114, 209, 10, 22, 36, 52, 225, 37, 241, 23, 24,
      25, 26, 38, 39, 40, 41, 42, 53, 54, 55, 56, 57, 58, 67, 68, 69, 70, 71, 72, 73, 74, 83, 84,
      85, 86, 87, 88, 89, 90, 99, 100, 101, 102, 103, 104, 105, 106, 115, 116, 117, 118, 119, 120,
      121, 122, 130, 131, 132, 133, 134, 135, 136, 137, 138, 146, 147, 148, 149, 150, 151, 152,
      153, 154, 162, 163, 164, 165, 166, 167, 168, 169, 170, 178, 179, 180, 181, 182, 183, 184,
      185, 186, 194, 195, 196, 197, 198, 199, 200, 201, 202, 210, 211, 212, 213, 214, 215, 216,
      217, 218, 226, 227, 228, 229, 230, 231, 232, 233, 234, 242, 243, 244, 245, 246, 247, 248,
      249, 250>>

(* The codes of a size follow one another, from twice the one after the    *)
(* last of the size before.  A function from sizes and codes to values     *)
(* stands for lookup, code_size and slowtable.                             *)
build_huffman_table(bits, vals) ==
    LET first[n \in 1 .. 16] == IF n = 1 THEN 0 ELSE 2 * (first[n - 1] + bits[n - 1])
        shorter[n \in 1 .. 16] == IF n = 1 THEN 0 ELSE shorter[n - 1] + bits[n - 1]
        OfSize(n) == {n} \X (first[n] .. first[n] + bits[n] - 1)
    IN  Evaluated([c \in UNION {OfSize(n) : n \in 1 .. 16} |->
                      vals[shorter[c[1]] + c[2] - first[c[1]] + 1]])

(* A table that was never built is zero: it finds value 0 and uses no bits. *)
Unbuilt == <<0, 0>> :> 0

dc_luminance   == build_huffman_table(bits_dc_luminance, val_dc)
dc_chrominance == build_huffman_table(bits_dc_chrominance, val_dc)
ac_luminance   == build_huffman_table(bits_ac_luminance, val_ac_luminance)
ac_chrominance == build_huffman_table(bits_ac_chrominance, val_ac_chrominance)

build_default_huffman_tables(dec) ==
    IF dec.default_huffman_table_initialized THEN dec
    ELSE [dec EXCEPT !.HTDC[0] = dc_luminance, !.HTAC[0] = ac_luminance,
                     !.HTDC[1] = dc_chrominance, !.HTAC[1] = ac_chrominance,
                     !.default_huffman_table_initialized = TRUE]

-----------------------------------------------------------------------------
(* The stream.  A byte 0 after a byte 255 is skipped.  Whatever runs into  *)
(* the end fails, and so does all that follows (longjmp).                  *)
Stream(data) == [data |-> data, stream |-> 0, reservoir |-> 0, nbits_in_reservoir |-> 0,
                 error |-> FALSE, value |-> 0, DCT |-> <<>>, previous_DC |-> <<0, 0, 0>>,
                 blocks |-> <<>>, mcus |-> <<>>, restarts_to_go |-> -1, last_rst_marker_seen |-> 0]

End(s)    == Cardinality(DOMAIN s.data)
Broken(s) == [s EXCEPT !.error = TRUE]
IfRead(s, Then(_)) == IF s.error THEN s ELSE Then(s)

RECURSIVE fill_nbits(_, _)
fill_nbits(s, nbits_wanted) ==
    LET c == At(s.data, s.stream)
        stuffed == c = 255 /\ At(s.data, s.stream + 1) = 0
    IN  IF s.error \/ s.nbits_in_reservoir >= nbits_wanted THEN s
        ELSE IF s.stream >= End(s) THEN Broken(s)
        ELSE fill_nbits([s EXCEPT !.stream = @ + IF stuffed THEN 2 ELSE 1,
                                  !.reservoir = @ * 256 + c,
                                  !.nbits_in_reservoir = @ + 8], nbits_wanted)

look_nbits(s, nbits) == s.reservoir \div 2^(s.nbits_in_reservoir - nbits)   \* filled before

skip_nbits(s, nbits) ==
    [s EXCEPT !.nbits_in_reservoir = @ - nbits, !.reservoir = @ % 2^(s.nbits_in_reservoir - nbits)]

(* The bits of a number below half of their range stand for a negative     *)
(* one.  A number of more than 16 bits, which only wrong tables ask for,   *)
(* is taken to fail.                                                       *)
get_nbits(s, nbits_wanted) ==
    LET Signed(n) == IF n < 2^(nbits_wanted - 1) THEN n + 1 - 2^nbits_wanted ELSE n
        Value(f) == [skip_nbits(f, nbits_wanted) EXCEPT !.value = Signed(look_nbits(f, nbits_wanted))]
    IN  IF nbits_wanted > 16 THEN Broken(s) ELSE IfRead(fill_nbits(s, nbits_wanted), Value)

(* The next nine bits find a code that is no longer; longer ones are tried *)
(* size by size.                                                           *)
RECURSIVE find_code(_, _, _)
find_code(s, table, nbits) ==
    LET Code(f, size) == <<size, look_nbits(f, nbits) \div 2^(nbits - size)>>
        Take(f, code) == [skip_nbits(f, code[1]) EXCEPT !.value = table[code]]
        Longer(f) == IF nbits = 16 THEN Broken(f) ELSE find_code(f, table, nbits + 1)
        Find(f) ==
            LET found == {Code(f, size) : size \in IF nbits = 9 THEN 0 .. 9 ELSE {nbits}}
                         \cap DOMAIN table
            IN  IF found = {} THEN Longer(f) ELSE Take(f, CHOOSE c \in found : TRUE)
    IN  IfRead(fill_nbits(s, nbits), Find)

get_next_huffman_code(s, table) == find_code(s, table, 9)

-----------------------------------------------------------------------------
(* A block: the difference of its mean to that of the block before of the  *)
(* component, then the other coefficients in zigzag order, each with how   *)
(* many zeros come before it.                                              *)
AsShort(v) == ((v + 32768) % 65536) - 32768

RECURSIVE ac_coefficients(_, _, _)
ac_coefficients(s, table, j) ==
    LET Coefficient(c) ==
            LET size_val == c.value % 16
                to == j + c.value \div 16          \* count_0 zeros further
                Store(n) == ac_coefficients([n EXCEPT !.DCT[to] = n.value], table, to + 1)
                Skipped == IF size_val # 0 THEN to ELSE IF to = j + 15 THEN j + 16 ELSE j
            IN  IF c.value = 0 THEN c               \* EOB
                ELSE IF size_val = 0 \/ to >= 64 THEN ac_coefficients(c, table, Skipped)
                ELSE IfRead(get_nbits(c, size_val), Store)
    IN  CASE j = 64 -> s
          [] j > 64 -> Broken(s)
          [] OTHER -> IfRead(get_next_huffman_code(s, table), Coefficient)

process_Huffman_data_unit(s, component, DC_table, AC_table) ==
    LET FromMean(n, mean) ==
            ac_coefficients([n EXCEPT !.previous_DC[component] = mean,
                                      !.DCT = Evaluated([j \in 0 .. 63 |-> IF j = 0 THEN mean ELSE 0])],
                            AC_table, 1)
        Change(n) == FromMean(n, AsShort(n.value + n.previous_DC[component]))
        Mean(c) == IF c.value = 0 THEN FromMean(c, c.previous_DC[component])
                   ELSE IfRead(get_nbits(c, c.value), Change)
        Unzigzag(ac) == [ac EXCEPT !.DCT = Evaluated([i \in 0 .. 63 |-> ac.DCT[zigzag[i + 1]]])]
    IN  IfRead(IfRead(get_next_huffman_code(s, DC_table), Mean), Unzigzag)

(* The inverse transform: along each column, then along each row, of       *)
(* coefficients scaled by the quantization table.  Floats are integers     *)
(* here, of a fourth.                                                      *)
Times(v, thousandths) == (v \div 1000) * thousandths + ((v % 1000) * thousandths) \div 1000

inverse(v) ==
    LET t10 == v[0] + v[4]   t11 == v[0] - v[4]
        t13 == v[2] + v[6]   t12 == Times(v[2] - v[6], 1414) - t13
        z13 == v[5] + v[3]   z10 == v[5] - v[3]
        z11 == v[1] + v[7]   z12 == v[1] - v[7]
        z5  == Times(z10 + z12, 1848)
        o7  == z11 + z13
        o6  == z5 - Times(z10, 2613) - o7
        o5  == Times(z11 - z13, 1414) - o6
        o4  == Times(z12, 1082) - z5 + o5
    IN  <<t10 + t13 + o7, t11 + t12 + o6, t11 - t12 + o5, t10 - t13 - o4,
          t10 - t13 + o4, t11 - t12 - o5, t11 + t12 - o6, t10 + t13 - o7>>

descale_and_clamp(x) == Clip((x + 4) \div 8 + 128)

tinyjpeg_idct_float(DCT, Q_table) ==
    LET Scaled(c) == Evaluated([k \in 0 .. 7 |-> 4 * DCT[8 * k + c] * Q_table[8 * k + c]])
        column == Evaluated([c \in 0 .. 7 |-> inverse(Scaled(c))])
        Across(r) == Evaluated([k \in 0 .. 7 |-> column[k][r + 1]])
        row == Evaluated([r \in 0 .. 7 |-> inverse(Across(r))])
    IN  Evaluated([i \in 0 .. 63 |-> descale_and_clamp(Trunc(row[i \div 8][(i % 8) + 1], 4))])

-----------------------------------------------------------------------------
(* The header.  parse_* change dec; what they refuse sets its error.       *)
Refused(dec) == [dec EXCEPT !.error = TRUE]

aanscalefactor == <<1000, 1387, 1307, 1176, 1000, 786, 541, 276>>

(* The scaled factors end up in bytes, and lose their fractions. *)
build_quantization_table(ref_table) ==
    LET Scaled(i) == ref_table[zigzag[i + 1] + 1] * aanscalefactor[(i \div 8) + 1]
                     * aanscalefactor[(i % 8) + 1]
    IN  Evaluated([i \in 0 .. 63 |-> Byte(Scaled(i) \div 1000000)])

pixart_quantization ==
    << <<7, 7, 8, 10, 9, 7, 13, 11, 12, 13, 17, 16, 15, 18, 23, 39, 26, 24, 22, 22, 24, 49, 35,
         37, 29, 40, 58, 51, 61, 60, 57, 51, 56, 55, 64, 72, 92, 78, 64, 68, 87, 69, 55, 56,
         80, 109, 81, 87, 95, 98, 103, 104, 103, 62, 77, 113, 121, 112, 100, 120, 92, 101,
         103, 99>>,
       <<17, 18, 18, 24, 21, 24, 47, 26, 26, 47, 99, 66, 56, 66>> \o [i \in 1 .. 50 |-> 99] >>

(* tables: <<number, the 64 divisors>> of each table of the segment. *)
parse_DQT(dec, seg) ==
    LET Add(d, t) == IF t[1] >= COMPONENTS THEN Refused(d)
                     ELSE [d EXCEPT !.Q_tables[t[1]] = build_quantization_table(t[2])]
    IN  FoldLeft(Add, dec, seg.tables)

parse_SOF(dec, seg) ==
    IF \/ seg.width > JPEG_MAX_WIDTH \/ seg.height > JPEG_MAX_HEIGHT
       \/ Len(seg.components) # 3
       \/ seg.height % 8 # 0 \/ seg.width % 16 # 0
    THEN Refused(dec)
    ELSE [dec EXCEPT !.width = seg.width, !.height = seg.height,
                     !.component_infos = [i \in 1 .. 3 |->
                          [cid |-> seg.components[i].cid, h |-> seg.components[i].h,
                           v |-> seg.components[i].v, Q_table |-> seg.components[i].Q_table,
                           AC_table |-> 0, DC_table |-> 0]]]

(* A scan of one component makes the image planar. *)
parse_SOS(dec, components) ==
    LET planar == Len(components) = 1
        Index(c, i) == IF ~planar THEN i
                       ELSE CHOOSE k \in 1 .. 3 : dec.component_infos[k].cid = c.cid
        known == \A i \in DOMAIN components :
                    IF planar THEN \E k \in 1 .. 3 : dec.component_infos[k].cid = components[i].cid
                    ELSE dec.component_infos[i].cid = components[i].cid
        tables == \A i \in DOMAIN components : /\ components[i].AC_table < HUFFMAN_TABLES
                                               /\ components[i].DC_table < HUFFMAN_TABLES
        Set(infos, i) ==
            LET c == components[i]
            IN  [infos EXCEPT ![Index(c, i)] = [@ EXCEPT !.AC_table = c.AC_table,
                                                         !.DC_table = c.DC_table]]
    IN  IF Len(components) \notin {1, 3} \/ (~planar /\ dec.planar) \/ ~known \/ ~tables
        THEN Refused(dec)
        ELSE [dec EXCEPT !.planar = @ \/ planar, !.current_cid = components[1].cid,
                         !.component_infos = FoldLeft(Set, @, [i \in DOMAIN components |-> i])]

(* tables: of class "AC" or "DC", which makes no difference to where they  *)
(* are put.                                                                *)
parse_DHT(dec, seg) ==
    LET Add(d, t) == IF t.number >= HUFFMAN_TABLES THEN Refused(d)
                     ELSE [d EXCEPT !.HTDC[t.number] = build_huffman_table(t.bits, t.vals)]
    IN  FoldLeft(Add, dec, seg.tables)

parse_DRI(dec, seg) == [dec EXCEPT !.restart_interval = seg.interval]

(* Sampling this decoder can do: chroma at most as fine as luma. *)
SamplingOk(dec) ==
    /\ \A i \in 2 .. 3 : dec.component_infos[i].h = 1 /\ dec.component_infos[i].v = 1
    /\ dec.planar => dec.component_infos[1].h = 2

parse_JFIF(dec, segments, pixart) ==
    LET Parse(d, seg) ==
            CASE d.error -> d
              [] ~d.error /\ seg.marker = "SOF" -> parse_SOF(d, seg)
              [] ~d.error /\ seg.marker = "DQT" -> parse_DQT(d, seg)
              [] ~d.error /\ seg.marker = "SOS" -> parse_SOS(d, seg.components)
              [] ~d.error /\ seg.marker = "DHT" -> parse_DHT(d, seg)
              [] ~d.error /\ seg.marker = "DRI" -> parse_DRI(d, seg)
              [] OTHER -> d
        found(marker) == \E i \in DOMAIN segments : segments[i].marker = marker
        Complete(d) == IF found("SOF") /\ (found("DQT") \/ pixart) THEN d ELSE Refused(d)
        Quantized(d) ==
            IF ~pixart \/ d.default_huffman_table_initialized THEN d
            ELSE [d EXCEPT !.Q_tables[0] = build_quantization_table(pixart_quantization[1]),
                           !.Q_tables[1] = build_quantization_table(pixart_quantization[2])]
        Huffman(d) == IF found("DHT") THEN d ELSE build_default_huffman_tables(d)
        Sampled(d) == IF SamplingOk(d) THEN d ELSE Refused(d)
        Finish(d) == Sampled(Huffman(Quantized(d)))
    IN  IfRead(IfRead(FoldLeft(Parse, dec, segments), Complete), Finish)

(* A new decoder (calloc), and the flags set for each frame. *)
tinyjpeg_init ==
    [HTDC |-> [i \in 0 .. 3 |-> Unbuilt], HTAC |-> [i \in 0 .. 3 |-> Unbuilt],
     Q_tables |-> [i \in 0 .. 2 |-> [k \in 0 .. 63 |-> 0]], component_infos |-> <<>>,
     default_huffman_table_initialized |-> FALSE, restart_interval |-> 0, planar |-> FALSE,
     current_cid |-> 0, width |-> 0, height |-> 0, error |-> FALSE]

tinyjpeg_parse_header(dec, img, pixart) ==
    LET flagged == [dec EXCEPT !.planar = FALSE, !.error = FALSE]
    IN  IF img.segments[1].marker # "SOI" THEN Refused(flagged)
        ELSE parse_JFIF(flagged, Tail(img.segments), pixart)
=============================================================================
