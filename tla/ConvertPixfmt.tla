---------------------------- MODULE ConvertPixfmt ---------------------------
(***************************************************************************)
(* v4lconvert_convert_pixfmt: which conversion each format of a frame and  *)
(* each format asked for get (src/libvideo/libv4lconvert/libv4lconvert.c). *)
(* One operator per case of its switch; src is the frame, src_size how     *)
(* many bytes of it the driver filled, f the format (fmt, w, h, bpl).      *)
(***************************************************************************)
EXTENDS Bayer, CameraFormats, CompressedBayer, Jpeg

IsYuv420(fmt) == fmt \in {"YUV420", "YVU420"}

CustomYuv == {"SPCA501", "SPCA505", "SPCA508", "CIT_YYVYUY", "KONICA420", "M420",
              "SN9C20X_I420", "CPIA1"}
ToUnpack == {"PAC207", "MR97310A", "JL2005BCD", "SN9C2028", "SQ905C", "STV0680"}

Good(dest) == [ok |-> TRUE, dest |-> dest]
GoodIf(ok, dest) == [ok |-> ok, dest |-> dest]

(* v4lconvert_fixup_fmt *)
fixup_fmt(fmt, w, h) ==
    [fmt |-> fmt, w |-> w, h |-> h, bpl |-> IF fmt \in {"RGB24", "BGR24"} THEN 3 * w ELSE w]

-----------------------------------------------------------------------------
(* The converter of pixfc-sse, which libv4lconvert keeps between frames.   *)
(* It converts frames of the size and the formats it was made for.         *)
NoPixfc == [w |-> 0, h |-> 0, from |-> "none", to |-> "none"]

(* Mutant: the formats are not compared. *)
RefreshBySize(pixfc, available, w, h, from, to) ==
    IF pixfc.w = w /\ pixfc.h = h THEN pixfc
    ELSE IF available THEN [w |-> w, h |-> h, from |-> from, to |-> to] ELSE NoPixfc

refresh_pixfc(pixfc, available, w, h, from, to) ==
    IF pixfc = [w |-> w, h |-> h, from |-> from, to |-> to] THEN pixfc
    ELSE IF available THEN [w |-> w, h |-> h, from |-> from, to |-> to] ELSE NoPixfc

pixfc_convert(p, src) ==
    LET C(x, y, k) == src[3 * (y * p.w + x) + (IF p.from = "BGR24" THEN 2 - k ELSE k)]
        Weigh(x, y, o, r, g, b) ==
            (o + r * C(x, y, 0) + g * C(x, y, 1) + b * C(x, y, 2)) \div 100000
        Y(x, y) == Weigh(x, y, 0, 29900, 58700, 11400)
        U(x, y) == Weigh(2 * x, 2 * y, 12800000, -14713, -28886, 43600)
        V(x, y) == Weigh(2 * x, 2 * y, 12800000, 61500, -51499, -10010)
    IN  CASE IsYuv420(p.to) -> Yuv420(p.w, p.h, FALSE, Y, U, V)
          [] p.from = "YUV420" /\ p.to = "RGB24" -> v4lconvert_yuv420_to_rgb24(src, p.w, p.h, FALSE)
          [] p.from = "YUV420" /\ p.to = "BGR24" -> v4lconvert_yuv420_to_bgr24(src, p.w, p.h, FALSE)
          [] p.from = "YUYV" /\ p.to = "RGB24" -> v4lconvert_yuyv_to_rgb24(src, p.w, p.h)
          [] p.from = "YUYV" /\ p.to = "BGR24" -> v4lconvert_yuyv_to_bgr24(src, p.w, p.h)
          [] p.from = "UYVY" /\ p.to = "RGB24" -> v4lconvert_uyvy_to_rgb24(src, p.w, p.h)
          [] p.from = "UYVY" /\ p.to = "BGR24" -> v4lconvert_uyvy_to_bgr24(src, p.w, p.h)

UsesPixfc(from, to) ==
    \/ from \in {"RGB24", "BGR24"} /\ to = "YUV420"
    \/ from \in {"YUV420", "YUYV", "UYVY"} /\ to \in {"RGB24", "BGR24"}

-----------------------------------------------------------------------------
(* JPEG, motion JPEG, and the JPEG of Pixart cameras.  j: tinyjpeg's state *)
(* and whether to use it; it is used from then on when libjpeg's way to    *)
(* YUV does not do the sampling of an image.                               *)
DecodeJpeg(img, j, f, rotated, dest) ==
    LET pixart == f.fmt = "PJPG"
        Tinyjpeg(r) ==
            [result |-> r.result, dest |-> r.dest, w |-> r.w, h |-> r.h,
             jpeg |-> [tinyjpeg |-> r.tinyjpeg, use_tinyjpeg |-> j.use_tinyjpeg \/ ~pixart]]
        Libjpeg(r) ==
            IF ~pixart /\ ~j.use_tinyjpeg /\ r.result # "EOPNOTSUPP"
            THEN [result |-> r.result, dest |-> r.dest, w |-> r.w, h |-> r.h, jpeg |-> j]
            ELSE Tinyjpeg(v4lconvert_decode_jpeg_tinyjpeg(j.tinyjpeg, img, f.w, f.h, rotated,
                                                          pixart, dest))
    IN  Libjpeg(v4lconvert_decode_jpeg_libjpeg(img, f.w, f.h, dest))

(* Formats of one camera family that are YUV: decoded to YUV420 first.     *)
DecodeCustomYuv(src, src_size, f, previous_frame, yvu) ==
    CASE f.fmt = "SPCA501"    -> Good(v4lconvert_spca501_to_yuv420(src, f.w, f.h, yvu))
      [] f.fmt = "SPCA505"    -> Good(v4lconvert_spca505_to_yuv420(src, f.w, f.h, yvu))
      [] f.fmt = "SPCA508"    -> Good(v4lconvert_spca508_to_yuv420(src, f.w, f.h, yvu))
      [] f.fmt = "CIT_YYVYUY" -> Good(v4lconvert_cit_yyvyuy_to_yuv420(src, f.w, f.h, yvu))
      [] f.fmt = "KONICA420"  -> Good(v4lconvert_konica_yuv420_to_yuv420(src, f.w, f.h, yvu))
      [] f.fmt = "M420"       -> Good(v4lconvert_m420_to_yuv420(src, f.w, f.h, yvu))
      [] f.fmt = "SN9C20X_I420" -> Good(v4lconvert_sn9c20x_to_yuv420(src, f.w, f.h, yvu))
      [] f.fmt = "CPIA1" ->
            v4lconvert_cpia1_to_yuv420(src, src_size, previous_frame, f.w, f.h, yvu)

ConvertCustomYuv(yuv, f, dest) ==
    IF dest = "RGB24" THEN v4lconvert_yuv420_to_rgb24(yuv, f.w, f.h, FALSE)
                      ELSE v4lconvert_yuv420_to_bgr24(yuv, f.w, f.h, FALSE)

ConvertHm12(src, f, dest) ==
    CASE dest = "RGB24"  -> v4lconvert_hm12_to_rgb24(src, f.w, f.h)
      [] dest = "BGR24"  -> v4lconvert_hm12_to_bgr24(src, f.w, f.h)
      [] dest = "YUV420" -> v4lconvert_hm12_to_yuv420(src, f.w, f.h, FALSE)
      [] dest = "YVU420" -> v4lconvert_hm12_to_yuv420(src, f.w, f.h, TRUE)

(* Compressed Bayer data is unpacked to raw Bayer data, of this order, and *)
(* goes on as a raw Bayer frame of full length.  SN9C10X is left out: its  *)
(* decoder is at odds with its own description of the format.              *)
UnpackedFormat(fmt) ==
    CASE fmt \in {"PAC207", "MR97310A", "SN9C2028"} -> "SBGGR8"
      [] fmt \in {"JL2005BCD", "SQ905C", "STV0680"}            -> "SRGGB8"

Unpack(src, src_size, f, frames_dropped) ==
    LET same(r) == [ok |-> r.ok, dest |-> r.dest, slower |-> FALSE,
                    frames_dropped |-> frames_dropped]
    IN  CASE f.fmt = "PAC207"    -> same(v4lconvert_decode_pac207(src, src_size, f.w, f.h))
          [] f.fmt = "MR97310A"  ->
                v4lconvert_decode_mr97310a(src, src_size, frames_dropped, f.w, f.h)
          [] f.fmt = "JL2005BCD" -> same(v4lconvert_decode_jl2005bcd(src, src_size, f.w, f.h))
          [] f.fmt = "SN9C2028"  -> same(Good(v4lconvert_decode_sn9c2028(src, f.w, f.h)))
          [] f.fmt = "SQ905C"    -> same(Good(v4lconvert_decode_sq905c(src, f.w, f.h)))
          [] f.fmt = "STV0680"   -> same(Good(v4lconvert_decode_stv0680(src, f.w, f.h)))

ConvertBayer(src, src_size, f, dest) ==
    GoodIf(src_size >= f.w * f.h,
           CASE dest = "RGB24"  -> v4lconvert_bayer_to_rgb24(src, f.w, f.h, f.fmt)
             [] dest = "BGR24"  -> v4lconvert_bayer_to_bgr24(src, f.w, f.h, f.fmt)
             [] dest = "YUV420" -> v4lconvert_bayer_to_yuv420(src, f.w, f.h, f.fmt, FALSE)
             [] dest = "YVU420" -> v4lconvert_bayer_to_yuv420(src, f.w, f.h, f.fmt, TRUE))

-----------------------------------------------------------------------------
(* SE401 is decoded to RGB24 and converted from there, whatever became of  *)
(* the decoding.                                                           *)
ConvertSe401(src, src_size, f, dest) ==
    LET d   == v4lconvert_se401_to_rgb24(src, src_size, f.w, f.h)
        rgb == [i \in 0 .. 3 * f.w * f.h - 1 |-> At(d.dest, i)]
    IN  GoodIf(d.ok,
               CASE dest = "RGB24"  -> rgb
                 [] dest = "BGR24"  -> v4lconvert_swap_rgb(rgb, f.w, f.h)
                 [] IsYuv420(dest)  ->
                       v4lconvert_rgb24_to_yuv420(rgb, f.w, f.h, 3 * f.w, FALSE, dest = "YVU420"))

ConvertGrey(src, src_size, f, dest) ==
    GoodIf(src_size >= f.w * f.h,
           IF IsYuv420(dest) THEN v4lconvert_grey_to_yuv420(src, f.w, f.h)
                             ELSE v4lconvert_grey_to_rgb24(src, f.w, f.h))

ConvertY10b(src, src_size, f, dest) ==
    GoodIf(src_size >= (f.w * f.h * 10) \div 8,
           IF IsYuv420(dest) THEN v4lconvert_y10b_to_yuv420(src, f.w, f.h)
                             ELSE v4lconvert_y10b_to_rgb24(src, f.w, f.h))

ConvertRgb565(src, src_size, f, dest) ==
    GoodIf(src_size >= f.w * f.h * 2,
           CASE dest = "RGB24" -> v4lconvert_rgb565_to_rgb24(src, f.w, f.h)
             [] dest = "BGR24" -> v4lconvert_rgb565_to_bgr24(src, f.w, f.h)
             [] IsYuv420(dest) ->
                   v4lconvert_rgb565_to_yuv420(src, f.w, f.h, f.bpl, dest = "YVU420"))

(* memcpy: without a look at bytesperline. *)
Copied(src, n) == [i \in 0 .. n - 1 |-> src[i]]

ConvertRgb24(src, src_size, f, dest, pixfc) ==
    GoodIf(src_size >= f.w * f.h * 3,
           CASE dest = "RGB24" -> Copied(src, f.w * f.h * 3)
             [] dest = "BGR24" -> v4lconvert_swap_rgb(src, f.w, f.h)
             [] dest = "YUV420" /\ pixfc # NoPixfc -> pixfc_convert(pixfc, src)
             [] dest = "YUV420" /\ pixfc = NoPixfc ->
                   v4lconvert_rgb24_to_yuv420(src, f.w, f.h, f.bpl, FALSE, FALSE)
             [] dest = "YVU420" -> v4lconvert_rgb24_to_yuv420(src, f.w, f.h, f.bpl, FALSE, TRUE))

ConvertBgr24(src, src_size, f, dest, pixfc) ==
    GoodIf(src_size >= f.w * f.h * 3,
           CASE dest = "RGB24" -> v4lconvert_swap_rgb(src, f.w, f.h)
             [] dest = "BGR24" -> Copied(src, f.w * f.h * 3)
             [] dest = "YUV420" /\ pixfc # NoPixfc -> pixfc_convert(pixfc, src)
             [] dest = "YUV420" /\ pixfc = NoPixfc ->
                   v4lconvert_rgb24_to_yuv420(src, f.w, f.h, f.bpl, TRUE, FALSE)
             [] dest = "YVU420" -> v4lconvert_rgb24_to_yuv420(src, f.w, f.h, f.bpl, TRUE, TRUE))

ConvertYuv420(src, src_size, f, dest, pixfc) ==
    GoodIf(src_size >= (f.w * f.h * 3) \div 2,
           CASE ~IsYuv420(dest) /\ pixfc # NoPixfc -> pixfc_convert(pixfc, src)
             [] dest = "RGB24" /\ pixfc = NoPixfc -> v4lconvert_yuv420_to_rgb24(src, f.w, f.h, FALSE)
             [] dest = "BGR24" /\ pixfc = NoPixfc -> v4lconvert_yuv420_to_bgr24(src, f.w, f.h, FALSE)
             [] dest = "YUV420" -> Copied(src, (f.w * f.h * 3) \div 2)
             [] dest = "YVU420" -> v4lconvert_swap_uv(src, f.w, f.h, f.bpl))

ConvertYvu420(src, src_size, f, dest) ==
    GoodIf(src_size >= (f.w * f.h * 3) \div 2,
           CASE dest = "RGB24"  -> v4lconvert_yuv420_to_rgb24(src, f.w, f.h, TRUE)
             [] dest = "BGR24"  -> v4lconvert_yuv420_to_bgr24(src, f.w, f.h, TRUE)
             [] dest = "YUV420" -> v4lconvert_swap_uv(src, f.w, f.h, f.bpl)
             [] dest = "YVU420" -> Copied(src, (f.w * f.h * 3) \div 2))

ConvertYuyv(src, src_size, f, dest, pixfc) ==
    GoodIf(src_size >= f.w * f.h * 2,
           CASE ~IsYuv420(dest) /\ pixfc # NoPixfc -> pixfc_convert(pixfc, src)
             [] dest = "RGB24" /\ pixfc = NoPixfc -> v4lconvert_yuyv_to_rgb24(src, f.w, f.h)
             [] dest = "BGR24" /\ pixfc = NoPixfc -> v4lconvert_yuyv_to_bgr24(src, f.w, f.h)
             [] IsYuv420(dest) -> v4lconvert_yuyv_to_yuv420(src, f.w, f.h, dest = "YVU420"))

(* YVYU is YUYV with U and V exchanged. *)
ConvertYvyu(src, src_size, f, dest) ==
    GoodIf(src_size >= f.w * f.h * 2,
           CASE dest = "RGB24" -> v4lconvert_yvyu_to_rgb24(src, f.w, f.h)
             [] dest = "BGR24" -> v4lconvert_yvyu_to_bgr24(src, f.w, f.h)
             [] IsYuv420(dest) -> v4lconvert_yuyv_to_yuv420(src, f.w, f.h, dest = "YUV420"))

ConvertUyvy(src, src_size, f, dest, pixfc) ==
    GoodIf(src_size >= f.w * f.h * 2,
           CASE ~IsYuv420(dest) /\ pixfc # NoPixfc -> pixfc_convert(pixfc, src)
             [] dest = "RGB24" /\ pixfc = NoPixfc -> v4lconvert_uyvy_to_rgb24(src, f.w, f.h)
             [] dest = "BGR24" /\ pixfc = NoPixfc -> v4lconvert_uyvy_to_bgr24(src, f.w, f.h)
             [] IsYuv420(dest) -> v4lconvert_uyvy_to_yuv420(src, f.w, f.h, dest = "YVU420"))

(* The formats that need no intermediate buffer. *)
ConvertPlain(src, src_size, f, dest, pixfc) ==
    CASE f.fmt = "HM12"     -> Good(ConvertHm12(src, f, dest))
      [] f.fmt \in RawBayer -> ConvertBayer(src, src_size, f, dest)
      [] f.fmt = "SE401"    -> ConvertSe401(src, src_size, f, dest)
      [] f.fmt = "GREY"     -> ConvertGrey(src, src_size, f, dest)
      [] f.fmt = "Y10BPACK" -> ConvertY10b(src, src_size, f, dest)
      [] f.fmt = "RGB565"   -> ConvertRgb565(src, src_size, f, dest)
      [] f.fmt = "RGB24"    -> ConvertRgb24(src, src_size, f, dest, pixfc)
      [] f.fmt = "BGR24"    -> ConvertBgr24(src, src_size, f, dest, pixfc)
      [] f.fmt = "YUV420"   -> ConvertYuv420(src, src_size, f, dest, pixfc)
      [] f.fmt = "YVU420"   -> ConvertYvu420(src, src_size, f, dest)
      [] f.fmt = "YUYV"     -> ConvertYuyv(src, src_size, f, dest, pixfc)
      [] f.fmt = "YVYU"     -> ConvertYvyu(src, src_size, f, dest)
      [] f.fmt = "UYVY"     -> ConvertUyvy(src, src_size, f, dest, pixfc)
=============================================================================
