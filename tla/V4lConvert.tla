----------------------------- MODULE V4lConvert -----------------------------
(***************************************************************************)
(* libv4lconvert's choice of formats: which pixel formats and sizes it     *)
(* tells the program the camera has, and which format it has the camera    *)
(* produce for the one the program asks for                                *)
(* (src/libvideo/libv4lconvert/libv4lconvert.c).                           *)
(*                                                                         *)
(* A camera is a record: formats, the pixel formats its driver enumerates, *)
(* in order; sizes, the frame sizes the driver lists for each; intervals,  *)
(* the frame intervals it has for each of those; uvc, driven by uvcvideo;  *)
(* others, its driver can do more than capture video (VBI, overlay, ...);  *)
(* flags, libv4lcontrol has flags for it; bandwidth of its bus, 0 if       *)
(* unknown; wraps, what the processor makes of a shift (see Bits).  A      *)
(* format is a pixel format, a size and the length of the image in bytes   *)
(* (sizeimage), 0 where the code leaves it unset.  The frame interval 1/n  *)
(* is written n.                                                           *)
(***************************************************************************)
EXTENDS Integers, Sequences, FiniteSets, SequencesExt

Row(fmts, bpp, rgb, yuv, nc) ==
    [i \in 1 .. Len(fmts) |->
        [fmt |-> fmts[i], bpp |-> bpp, rgb_rank |-> rgb, yuv_rank |-> yuv,
         needs_conversion |-> nc]]

SUPPORTED_DST_PIXFMTS == Row(<<"RGB24", "BGR24">>, 24, 1, 5, FALSE)
                         \o Row(<<"YUV420", "YVU420">>, 12, 6, 1, FALSE)

supported_src_pixfmts ==
    SUPPORTED_DST_PIXFMTS \o
    Row(<<"RGB565">>, 16, 4, 6, FALSE) \o
    Row(<<"YUYV", "YVYU", "UYVY">>, 16, 5, 4, FALSE) \o
    Row(<<"SPCA501", "SPCA505", "SPCA508", "CIT_YYVYUY", "KONICA420",
          "SN9C20X_I420", "M420", "HM12">>, 12, 6, 3, TRUE) \o
    Row(<<"CPIA1">>, 0, 6, 3, TRUE) \o
    Row(<<"MJPEG", "JPEG">>, 0, 7, 7, FALSE) \o
    Row(<<"PJPG", "JPGL", "OV511", "OV518">>, 0, 7, 7, TRUE) \o
    Row(<<"SBGGR8", "SGBRG8", "SGRBG8", "SRGGB8", "STV0680">>, 8, 8, 8, TRUE) \o
    Row(<<"SPCA561", "SN9C10X", "SN9C2028", "PAC207", "MR97310A",
          "JL2005BCD", "SQ905C">>, 0, 9, 9, TRUE) \o
    Row(<<"SE401">>, 0, 8, 9, TRUE) \o
    Row(<<"GREY">>, 8, 20, 20, FALSE) \o
    Row(<<"Y10BPACK">>, 10, 20, 20, FALSE)

SrcFormats == {supported_src_pixfmts[i].fmt : i \in DOMAIN supported_src_pixfmts}
SrcRow(fmt) ==
    supported_src_pixfmts[SelectInSeq(supported_src_pixfmts, LAMBDA r : r.fmt = fmt)]

(* Sets of source formats are masks, in which row i has the bit 1 << i -   *)
(* but 1 is an int of 32 bits, and the table is longer.  The C standard    *)
(* does not say what that is for the rows beyond: processors that shift by *)
(* i modulo 32 (x86, AArch64: wraps) give them the bits of the first rows, *)
(* GREY that of RGB565; others (32-bit ARM) give them none.                *)
MaskBits == 32
Bits(cam, i) == IF i <= MaskBits THEN {i} ELSE IF cam.wraps THEN {i - MaskBits} ELSE {}

Mask(cam, fmts) ==
    UNION {Bits(cam, i) : i \in {j \in DOMAIN supported_src_pixfmts :
                                   supported_src_pixfmts[j].fmt \in fmts}}
RowsOf(cam, mask) == {i \in DOMAIN supported_src_pixfmts : Bits(cam, i) \cap mask # {}}

supported_dst_pixfmts == <<"RGB24", "BGR24", "YUV420", "YVU420">>
v4lconvert_supported_dst_format(fmt) == Contains(supported_dst_pixfmts, fmt)

Format(fmt, w, h, image) == [fmt |-> fmt, w |-> w, h |-> h, image |-> image]

-----------------------------------------------------------------------------
(* v4lconvert_create: what it remembers of the camera, and the formats it  *)
(* then takes it to have.                                                  *)
supported_src_formats(cam) == Mask(cam, ToSet(cam.formats))
SupportedRows(cam) == RowsOf(cam, supported_src_formats(cam))
SupportedSrc(cam)  == {supported_src_pixfmts[i].fmt : i \in SupportedRows(cam)}

always_needs_conversion(cam) ==
    /\ ~cam.others
    /\ \A i \in DOMAIN cam.formats :
          cam.formats[i] \in SrcFormats /\ SrcRow(cam.formats[i]).needs_conversion

v4lcontrol_needs_conversion(cam) == cam.flags \/ always_needs_conversion(cam)

(* Such a camera is only offered in the four formats libv4lconvert makes.  *)
v4lconvert_supported_dst_fmt_only(cam) ==
    v4lcontrol_needs_conversion(cam) /\ SupportedSrc(cam) # {}

(* v4lconvert_get_framesizes: the sizes of all formats it can convert.     *)
(* (The code keeps a size only once; the first one of two is found.)       *)
framesizes(cam) ==
    FlattenSeq([i \in DOMAIN cam.formats |->
                   IF cam.formats[i] \in SrcFormats THEN cam.sizes[cam.formats[i]] ELSE <<>>])

(* The formats VIDIOC_ENUM_FMT counts up; nothing depends on their order.  *)
v4lconvert_enum_fmt(cam) ==
    IF v4lconvert_supported_dst_fmt_only(cam) THEN ToSet(supported_dst_pixfmts)
    ELSE ToSet(cam.formats) \cup (ToSet(supported_dst_pixfmts) \ SupportedSrc(cam))

Rounded(size) == <<size[1] - (size[1] % 8), size[2] - (size[2] % 2)>>

(* Mutant: the sizes as the driver has them. *)
EnumUnrounded(cam, fmt) ==
    IF v4lconvert_supported_dst_format(fmt) THEN framesizes(cam)
    ELSE IF v4lconvert_supported_dst_fmt_only(cam) \/ fmt \notin DOMAIN cam.sizes
         THEN <<>> ELSE cam.sizes[fmt]

v4lconvert_enum_framesizes(cam, fmt) ==
    IF v4lconvert_supported_dst_format(fmt)
    THEN [i \in DOMAIN framesizes(cam) |-> Rounded(framesizes(cam)[i])]
    ELSE IF v4lconvert_supported_dst_fmt_only(cam) \/ fmt \notin DOMAIN cam.sizes
         THEN <<>> ELSE cam.sizes[fmt]

-----------------------------------------------------------------------------
(* The driver's TRY_FMT: the closest size it has; a pixel format it does   *)
(* not know is replaced by its first one.                                  *)
Square(x) == x * x
SizeDiff(a, b) == Square(a[1] - b[1]) + Square(a[2] - b[2])
Closest(sizes, size) ==
    CHOOSE s \in Range(sizes) :
        \A t \in Range(sizes) : SizeDiff(s, size) <= SizeDiff(t, size)

DriverImage(fmt, w, h) ==
    IF fmt \in SrcFormats /\ SrcRow(fmt).bpp # 0
       THEN (w * h * SrcRow(fmt).bpp) \div 8 ELSE w * h

DriverTryFmt(cam, fmt, w, h) ==
    LET f == IF Contains(cam.formats, fmt) THEN fmt ELSE cam.formats[1]
        s == Closest(cam.sizes[f], <<w, h>>)
    IN  Format(f, s[1], s[2], DriverImage(f, s[1], s[2]))

-----------------------------------------------------------------------------
(* v4lconvert_get_rank: the cost of a source format for a destination; ten *)
(* more if it needs more bandwidth than the camera's bus has.              *)
FPS == 30
v4lconvert_get_rank(cam, fmt, w, h, dest) ==
    LET row    == SrcRow(fmt)
        needed == (w * h * FPS * row.bpp) \div 8
    IN  (IF dest \in {"RGB24", "BGR24"} THEN row.rgb_rank ELSE row.yuv_rank)
        - (IF fmt = dest THEN 1 ELSE 0)
        + (IF cam.bandwidth # 0 /\ needed > cam.bandwidth THEN 10 ELSE 0)

(* The index that costs least, the first one of those in the order of the  *)
(* table; a cost is a pair, the first component counting first.            *)
Cheaper(a, b) == a[1] < b[1] \/ (a[1] = b[1] /\ a[2] < b[2])
Best(cost) ==
    CHOOSE i \in DOMAIN cost : \A j \in DOMAIN cost \ {i} :
        Cheaper(cost[i], cost[j]) \/ (cost[i] = cost[j] /\ i < j)

NoFormat == Format("none", 0, 0, 0)

(* v4lconvert_do_try_format_uvc: the size first (the closest that fits,    *)
(* otherwise the first), then the cheapest format that has it.             *)
ClosestFit(sizes, dest) ==
    LET fits == {i \in DOMAIN sizes : sizes[i][1] <= dest.w /\ sizes[i][2] <= dest.h}
    IN  IF sizes = <<>> THEN <<0, 0>>
        ELSE IF fits = {} THEN sizes[1]
        ELSE sizes[Best([i \in fits |-> <<SizeDiff(sizes[i], <<dest.w, dest.h>>), 0>>])]

CheapestFormat(cam, dest, size) ==
    LET cands == RowsOf(cam, Mask(cam, {f \in ToSet(cam.formats) : Contains(cam.sizes[f], size)}))
        rank  == [i \in cands |-> <<v4lconvert_get_rank(cam,
                     supported_src_pixfmts[i].fmt, size[1], size[2], dest.fmt), 0>>]
    IN  [ok   |-> TRUE,
         dest |-> Format(dest.fmt, size[1], size[2], 0),
         src  |-> Format(IF cands = {} THEN "none" ELSE supported_src_pixfmts[Best(rank)].fmt,
                        size[1], size[2], 0)]

v4lconvert_do_try_format_uvc(cam, dest) ==
    CheapestFormat(cam, dest, ClosestFit(framesizes(cam), dest))

(* v4lconvert_do_try_format: of the formats the driver answers for, the    *)
(* one whose size comes closest, then the cheapest.                        *)
Cost(cam, try, dest) ==
    <<SizeDiff(<<try.w, try.h>>, <<dest.w, dest.h>>),
      v4lconvert_get_rank(cam, try.fmt, try.w, try.h, dest.fmt)>>

ConvertedFrom(src, dest) == [ok |-> TRUE, dest |-> [src EXCEPT !.fmt = dest.fmt], src |-> src]

v4lconvert_do_try_format(cam, dest) ==
    LET try(i) == DriverTryFmt(cam, supported_src_pixfmts[i].fmt, dest.w, dest.h)
        cands  == {i \in SupportedRows(cam) : try(i).fmt = supported_src_pixfmts[i].fmt}
    IN  IF cam.uvc THEN v4lconvert_do_try_format_uvc(cam, dest)
        ELSE IF cands = {} THEN [ok |-> FALSE, dest |-> dest, src |-> NoFormat]
        ELSE ConvertedFrom(try(Best([i \in cands |-> Cost(cam, try(i), dest)])), dest)

v4lconvert_fixup_fmt(f) ==
    CASE f.fmt \in {"RGB24", "BGR24"}   -> [f EXCEPT !.image = f.w * f.h * 3]
      [] f.fmt \in {"YUV420", "YVU420"} -> [f EXCEPT !.image = (f.w * f.h * 3) \div 2]
      [] OTHER -> f

-----------------------------------------------------------------------------
(* v4lconvert_try_format                                                   *)
v4lconvert_crop_res == {<<320, 240>>, <<160, 120>>, <<352, 288>>, <<176, 144>>}

Exact(try, dest) == try.dest.w = dest.w /\ try.dest.h = dest.h
Within(f, box) == f.w \in box[1][1] .. box[2][1] /\ f.h \in box[1][2] .. box[2][2]

(* A second try, at another size, whose result lies in one of the boxes is *)
(* what will be captured, and is cropped (or bordered) to the size asked   *)
(* for.                                                                    *)
Accepted(second, first, dest, boxes) ==
    IF second.ok /\ \E box \in boxes : Within(second.dest, box)
    THEN [second EXCEPT !.dest.w = dest.w, !.dest.h = dest.h] ELSE first

Retry(cam, dest, w, h, first, boxes) ==
    Accepted(v4lconvert_do_try_format(cam, [dest EXCEPT !.w = w, !.h = h]), first, dest, boxes)

SlightlyLarger(cam, dest, first) ==
    IF Exact(first, dest) THEN first
    ELSE Retry(cam, dest, dest.w + 7, dest.h + 1, first,
               {<<<<dest.w, dest.h>>, <<dest.w + 7, dest.h + 1>>>>})

WellKnown(cam, dest, first) ==
    IF Exact(first, dest) \/ <<dest.w, dest.h>> \notin v4lconvert_crop_res THEN first
    ELSE Retry(cam, dest, (dest.w * 113) \div 100, (dest.h * 124) \div 100, first,
               {<<<<dest.w - 16, dest.h - 16>>, <<dest.w, dest.h>>>>,
                <<<<dest.w, dest.h>>, <<(dest.w * 5) \div 4, (dest.h * 5) \div 4>>>>,
                <<<<dest.w * 2, dest.h * 2>>, <<(dest.w * 5) \div 2, (dest.h * 5) \div 2>>>>})

(* The size is rounded; what libv4lconvert cannot do is left to the driver.*)
Settled(cam, dest, try) ==
    LET size   == Rounded(<<try.dest.w, try.dest.h>>)
        final  == [try.dest EXCEPT !.w = size[1], !.h = size[2]]
        native == DriverTryFmt(cam, dest.fmt, dest.w, dest.h)
    IN  IF ~v4lconvert_supported_dst_format(dest.fmt) \/ ~try.ok
        THEN [dest |-> native, src |-> native]
        ELSE [dest |-> IF final.w # try.src.w \/ final.h # try.src.h
                          \/ final.fmt # try.src.fmt
                       THEN v4lconvert_fixup_fmt(final) ELSE final,
              src  |-> try.src]

v4lconvert_try_format(cam, asked) ==
    LET dest == IF /\ v4lconvert_supported_dst_fmt_only(cam)
                   /\ ~v4lconvert_supported_dst_format(asked.fmt)
                THEN [asked EXCEPT !.fmt = "RGB24"] ELSE asked
    IN  Settled(cam, dest, WellKnown(cam, dest, SlightlyLarger(cam, dest,
                              v4lconvert_do_try_format(cam, dest))))

(* The frame intervals of a format and size: the driver's, of the format   *)
(* and size an emulated one is converted from if it can be had exactly.    *)
NoIntervals == [type |-> "unsupported", values |-> {}]

DriverIntervals(cam, fmt, size) ==
    IF fmt \in DOMAIN cam.intervals /\ size \in DOMAIN cam.intervals[fmt]
    THEN cam.intervals[fmt][size] ELSE NoIntervals

SourceIntervals(cam, fmt, size, try) ==
    IF try.dest.fmt = fmt /\ <<try.dest.w, try.dest.h>> = size
    THEN DriverIntervals(cam, try.src.fmt, <<try.src.w, try.src.h>>) ELSE NoIntervals

v4lconvert_enum_frameintervals(cam, fmt, size) ==
    IF v4lconvert_supported_dst_format(fmt)
    THEN SourceIntervals(cam, fmt, size,
                         v4lconvert_try_format(cam, Format(fmt, size[1], size[2], 0)))
    ELSE IF v4lconvert_supported_dst_fmt_only(cam) THEN NoIntervals
    ELSE DriverIntervals(cam, fmt, size)

v4lconvert_needs_conversion(cam, src, dest) ==
    \/ src.w # dest.w \/ src.h # dest.h \/ src.fmt # dest.fmt
    \/ v4lcontrol_needs_conversion(cam) /\ v4lconvert_supported_dst_format(dest.fmt)
=============================================================================
