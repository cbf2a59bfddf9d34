----------------------------- MODULE CameraJpegs ----------------------------
(***************************************************************************)
(* The camera's side of JPEG, which is not part of this code: an encoder   *)
(* of the images cameras send, from the JPEG standard: several samplings   *)
(* of chroma, planes in scans of their own, restart markers, with Huffman  *)
(* tables of their own or without, and in the chunks of Pixart cameras.    *)
(***************************************************************************)
EXTENDS CameraFrames

(* 1024 * cos(n * pi / 16) *)
Cosines == <<1024, 1004, 946, 851, 724, 569, 392, 200, 0>>
Cosine(n) == LET m == n % 32   k == IF m > 16 THEN 32 - m ELSE m
             IN  IF k <= 8 THEN Cosines[k + 1] ELSE -Cosines[17 - k]

Transformed(v) ==                                   \* of eight samples
    LET C(u, x) == IF u = 0 THEN 724 ELSE Cosine((2 * x + 1) * u)
        Sum(u) == C(u, 0) * v[0] + C(u, 1) * v[1] + C(u, 2) * v[2] + C(u, 3) * v[3]
                  + C(u, 4) * v[4] + C(u, 5) * v[5] + C(u, 6) * v[6] + C(u, 7) * v[7]
    IN  Evaluated([u \in 0 .. 7 |-> Sum(u) \div 2048])

Rounded(n, d) == (2 * n + d) \div (2 * d)

(* The coefficients of the 64 samples of a block in zigzag order, quantized *)
(* by ref.                                                                 *)
Natural == [j \in 0 .. 63 |-> CHOOSE i \in 0 .. 63 : zigzag[i + 1] = j]

Coefficients(block, ref) ==
    LET Samples(r) == Evaluated([x \in 0 .. 7 |-> 4 * (block[8 * r + x] - 128)])
        row == Evaluated([r \in 0 .. 7 |-> Transformed(Samples(r))])
        Rows(c) == Evaluated([r \in 0 .. 7 |-> row[r][c]])
        column == Evaluated([c \in 0 .. 7 |-> Transformed(Rows(c))])
        mean == Rounded(8 * (block[0] - 128), ref[1])   \* of a block of one colour
    IN  IF \A i \in 0 .. 63 : block[i] = block[0]
        THEN Evaluated([j \in 0 .. 63 |-> IF j = 0 THEN mean ELSE 0])
        ELSE Evaluated([j \in 0 .. 63 |->
                          Rounded(column[Natural[j] % 8][Natural[j] \div 8], 4 * ref[j + 1])])

-----------------------------------------------------------------------------
CodeBits(table, val) ==
    LET code == CHOOSE c \in DOMAIN table : table[c] = val IN BitsOf(code[2], code[1])

Category(v) == LET mag == IF v < 0 THEN -v ELSE v
               IN  CHOOSE n \in 0 .. 15 : mag < 2^n /\ (n > 0 => mag >= 2^(n - 1))
Number15(v) == LET n == Category(v) IN BitsOf(IF v < 0 THEN v + 2^n - 1 ELSE v, n)

(* The coefficients from the j-th in zigzag order on. *)
RECURSIVE AcBits(_, _, _, _)
AcBits(z, j, zeros, table) ==
    IF \A k \in j .. 63 : z[k] = 0 THEN IF j + zeros = 64 /\ zeros = 0 THEN <<>> ELSE CodeBits(table, 0)
    ELSE IF z[j] = 0
    THEN IF zeros = 15 THEN CodeBits(table, 240) \o AcBits(z, j + 1, 0, table)
         ELSE AcBits(z, j + 1, zeros + 1, table)
    ELSE CodeBits(table, 16 * zeros + Category(z[j])) \o Number15(z[j]) \o AcBits(z, j + 1, 0, table)

(* units: [c, coefs], whose means are differences within the sequence.     *)
UnitBits(units, k) ==
    LET u == units[k]
        before == {j \in 1 .. k - 1 : units[j].c = u.c}
        last == CHOOSE j \in before : \A i \in before : i <= j
        Bits(diff, dc, ac) == CodeBits(dc, Category(diff)) \o Number15(diff) \o AcBits(u.coefs, 1, 0, ac)
    IN  Bits(u.coefs[0] - IF before = {} THEN 0 ELSE units[last].coefs[0],
             IF u.c = 1 THEN dc_luminance ELSE dc_chrominance,
             IF u.c = 1 THEN ac_luminance ELSE ac_chrominance)

Stuffed(bits) ==
    LET ones == [i \in 1 .. (8 - (Len(bits) % 8)) % 8 |-> 1]
        Stuff(bytes) ==
            LET Sent(i) == IF bytes[i + 1] = 255 THEN <<255, 0>> ELSE <<bytes[i + 1]>>
            IN  Concat(Len(bytes), Sent)
    IN  Stuff(<<>> \o Packed(bits \o ones))

-----------------------------------------------------------------------------
(* How a camera codes an image: the sampling h_samp and v_samp of chroma,  *)
(* the units between restart markers (or 0), planar, pixart, and whether   *)
(* it sends its Huffman tables.                                            *)
Divisors(how) == IF how.pixart THEN pixart_quantization
                 ELSE << [i \in 1 .. 64 |-> 16], [i \in 1 .. 64 |-> 16] >>

BlockOf(s, how, c, bx, by) ==
    LET At8(i) == Yuv(Rgb(s, IF c = 1 THEN 8 * bx + (i % 8) ELSE how.h_samp * (8 * bx + (i % 8)),
                          IF c = 1 THEN 8 * by + i \div 8 ELSE how.v_samp * (8 * by + i \div 8)))[c]
    IN  [c |-> c, coefs |-> Coefficients(Evaluated([i \in 0 .. 63 |-> At8(i)]),
                                         Divisors(how)[IF c = 1 THEN 1 ELSE 2])]

(* The units of the n-th group of blocks of an interleaved scan. *)
Group(s, how, n) ==
    LET across == s.w \div (8 * how.h_samp)
        gx == n % across   gy == n \div across
        luma == how.h_samp * how.v_samp
        One(i) == <<BlockOf(s, how, IF i < luma THEN 1 ELSE 2 + i - luma,
                            IF i < luma THEN gx * how.h_samp + (i % how.h_samp) ELSE gx,
                            IF i < luma THEN gy * how.v_samp + i \div how.h_samp ELSE gy)>>
    IN  Concat(luma + 2, One)

(* The groups from first to last, with nothing referred to before them.    *)
Interval(s, how, first, last) ==
    LET OneGroup(i) == Group(s, how, first + i)
        size == how.h_samp * how.v_samp + 2
        Sent(units) ==
            LET Bits(k) == (IF how.pixart /\ k % size = 0 THEN BitsOf(68, 8) ELSE <<>>)
                           \o UnitBits(units, k + 1)
            IN  Stuffed(Concat(Len(units), Bits))
    IN  Sent(Concat(last - first + 1, OneGroup))

InterleavedScan(s, how) ==
    LET n == (s.w * s.h) \div (64 * how.h_samp * how.v_samp)
        size == IF how.restart = 0 THEN n ELSE how.restart
        Part(k) == Interval(s, how, k * size, (k + 1) * size - 1)
                   \o IF (k + 1) * size < n THEN <<255, 208 + (k % 8)>> ELSE <<255, 217>>
    IN  Concat(n \div size, Part)

PlanarScan(s, how, c) ==
    LET across == IF c = 1 THEN s.w \div 8 ELSE s.w \div (8 * how.h_samp)
        n == IF c = 1 THEN (s.w * s.h) \div 64
             ELSE (s.w * s.h) \div (64 * how.h_samp * how.v_samp)
        One(k) == <<BlockOf(s, how, c, k % across, k \div across)>>
        Sent(units) == LET Bits(k) == UnitBits(units, k + 1) IN Stuffed(Concat(n, Bits))
    IN  Sent(Concat(n, One)) \o IF c = 3 THEN <<255, 217>> ELSE <<255, 218>>

(* The first chunk begins with a byte of no known meaning. *)
Chunked(data) ==
    LET first == 1024 \div PixartScale - 6   second == 256 \div PixartScale
    IN  <<0>> \o SubSeq(data, 1, first) \o <<255, 255, 255, 3>>
        \o SubSeq(data, first + 1, first + second) \o <<255, 255, 255, 0>>
        \o SubSeq(data, first + second + 1, Len(data))

ScanOf(cs) == [i \in DOMAIN cs |-> [cid |-> cs[i], DC_table |-> IF cs[i] = 1 THEN 0 ELSE 1,
                                    AC_table |-> IF cs[i] = 1 THEN 0 ELSE 1]]

Scans(s, how) ==
    LET Single(data) == <<[components |-> ScanOf(<<1, 2, 3>>),
                           data |-> Bytes(IF how.pixart THEN Chunked(data) ELSE data)]>>
    IN  IF how.planar
        THEN <<>> \o [c \in 1 .. 3 |-> [components |-> ScanOf(<<c>>), data |-> Bytes(PlanarScan(s, how, c))]]
        ELSE Single(InterleavedScan(s, how))

HuffmanTables ==
    [marker |-> "DHT",
     tables |-> <<[class |-> "DC", number |-> 0, bits |-> bits_dc_luminance, vals |-> val_dc],
                  [class |-> "AC", number |-> 0, bits |-> bits_ac_luminance,
                   vals |-> val_ac_luminance],
                  [class |-> "DC", number |-> 1, bits |-> bits_dc_chrominance, vals |-> val_dc],
                  [class |-> "AC", number |-> 1, bits |-> bits_ac_chrominance,
                   vals |-> val_ac_chrominance]>>]

Segments(s, how, components) ==
    LET If(cond, seg) == IF cond THEN <<seg>> ELSE <<>>
        Component(i) == [cid |-> i, h |-> IF i = 1 THEN how.h_samp ELSE 1,
                         v |-> IF i = 1 THEN how.v_samp ELSE 1, Q_table |-> IF i = 1 THEN 0 ELSE 1]
    IN  <<[marker |-> "SOI"]>>
        \o If(~how.pixart, [marker |-> "DQT", tables |-> << <<0, Divisors(how)[1]>>,
                                                           <<1, Divisors(how)[2]>> >>])
        \o <<[marker |-> "SOF", width |-> s.w, height |-> s.h,
              components |-> [i \in 1 .. 3 |-> Component(i)]]>>
        \o If(how.tables, HuffmanTables)
        \o If(how.restart > 0, [marker |-> "DRI", interval |-> how.restart])
        \o <<[marker |-> "SOS", components |-> components]>>

(* Half of an image: the first half of its first scan.  What libjpeg finds *)
(* of it are the samples of about its upper half; the others it takes for  *)
(* grey.                                                                   *)
HalfScans(scans) ==
    <<[scans[1] EXCEPT !.data = [i \in 0 .. Cardinality(DOMAIN @) \div 2 - 1 |-> @[i]]]>>

CameraJpeg(s, how, whole) ==
    LET Found(y)  == whole \/ y < s.h \div 2
        Of(x, y, c) == IF Found(y) THEN Yuv(Rgb(s, x, y))[c] ELSE 128
        Y(x, y) == Of(x, y, 1)
        U(x, y) == Of(how.h_samp * x, how.v_samp * y, 2)
        V(x, y) == Of(how.h_samp * x, how.v_samp * y, 3)
        w == s.w \div how.h_samp   h == s.h \div how.v_samp
        Image(scans) ==
            [segments |-> Segments(s, how, scans[1].components),
             scans |-> IF whole THEN scans ELSE HalfScans(scans),
             w |-> s.w, h |-> s.h, h_samp |-> how.h_samp, v_samp |-> how.v_samp, complete |-> whole,
             samples |-> [y |-> Plane(s.w, s.h, Y), cb |-> Plane(w, h, U), cr |-> Plane(w, h, V)]]
    IN  Image(Scans(s, how))
=============================================================================
