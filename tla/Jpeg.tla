-------------------------------- MODULE Jpeg --------------------------------
(***************************************************************************)
(* JPEG images on both sides: v4l4j's own compressor, which makes the      *)
(* frames of a JPEG grabber (src/src/jpeg.c, pixfmt-conv.h), and           *)
(* libv4lconvert's decompression of a camera's JPEG frames                 *)
(* (src/libvideo/libv4lconvert/jpeg.c).                                    *)
(*                                                                         *)
(* libjpeg is external: what it reads of an image are the samples that     *)
(* were compressed, planes y, cb and cr (cb and cr are by h_samp narrower  *)
(* and by v_samp lower) or RGB pixels.  tinyjpeg, which is in this         *)
(* repository, reads the segments and the scans of an image.  An           *)
(* incomplete image ends before its end: tinyjpeg runs out of data;        *)
(* libjpeg is given an end of image by its source (jpeg_memsrcdest.c),     *)
(* warns, and leaves the rest of the picture grey.                         *)
(***************************************************************************)
EXTENDS TinyjpegDecode

JpegImage(segments, w, h, v_samp, samples) ==
    [segments |-> segments, w |-> w, h |-> h, h_samp |-> 2, v_samp |-> v_samp,
     complete |-> TRUE, samples |-> samples]

(* The segments libjpeg writes. *)
Written == [i \in 1 .. 5 |-> [marker |-> <<"SOI", "DQT", "SOF", "DHT", "SOS">>[i]]]

-----------------------------------------------------------------------------
(* v4l4j's compressor.  libjpeg is handed lines of the planes, so many in  *)
(* each pass of a loop that moves the pointers to the lines on by a stride. *)
lines_written_per_loop(palette) == IF palette = "YUV420" THEN 16 ELSE 8

LineAt(base, step, stride, line, lines) ==
    base + step * (line % lines) + stride * (line \div lines)

jpeg_encode_yuv420(src, w, h) ==
    LET lines == lines_written_per_loop("YUV420")
        Luma(x, y)    == src[LineAt(0, w, w * lines, y, lines) + x]
        Chroma(base, x, y) == src[LineAt(base, w \div 2, (w * lines) \div 4, y, lines \div 2) + x]
        Cb(x, y) == Chroma(w * h, x, y)
        Cr(x, y) == Chroma(w * h + (w * h) \div 4, x, y)
    IN  JpegImage(Written, w, h, 2, [y  |-> Plane(w, h, Luma),
                                     cb |-> Plane(w \div 2, h \div 2, Cb),
                                     cr |-> Plane(w \div 2, h \div 2, Cr)])

(* Four bytes of a packed format become two of y, one of u and one of v.   *)
Planar422(src, w, h, first, u, v) ==
    LET size == w * h
    IN  [i \in 0 .. 2 * size - 1 |->
            CASE i < size -> src[2 * i + first]
              [] i \in size .. size + size \div 2 - 1 -> src[4 * (i - size) + u]
              [] OTHER -> src[4 * (i - size - size \div 2) + v]]

convert_yuyv_to_yuv422p(src, w, h) == Planar422(src, w, h, 0, 1, 3)
convert_uyvy_to_yuv422p(src, w, h) == Planar422(src, w, h, 1, 0, 2)
convert_yvyu_to_yuv422p(src, w, h) == Planar422(src, w, h, 0, 3, 1)

jpeg_encode_yuv422p(conversion_buffer, w, h) ==
    LET lines == lines_written_per_loop("YUYV")
        Luma(x, y) == conversion_buffer[LineAt(0, w, w * lines, y, lines) + x]
        Chroma(base, x, y) ==
            conversion_buffer[LineAt(base, w \div 2, (w * lines) \div 2, y, lines) + x]
        Cb(x, y) == Chroma(w * h, x, y)
        Cr(x, y) == Chroma(w * h + (w * h) \div 2, x, y)
    IN  JpegImage(Written, w, h, 1, [y  |-> Plane(w, h, Luma), cb |-> Plane(w \div 2, h, Cb),
                                     cr |-> Plane(w \div 2, h, Cr)])

jpeg_encode_yuyv(src, w, h) == jpeg_encode_yuv422p(convert_yuyv_to_yuv422p(src, w, h), w, h)
jpeg_encode_uyvy(src, w, h) == jpeg_encode_yuv422p(convert_uyvy_to_yuv422p(src, w, h), w, h)
jpeg_encode_yvyu(src, w, h) == jpeg_encode_yuv422p(convert_yvyu_to_yuv422p(src, w, h), w, h)

(* The RGB formats: a line of pixels of n bytes, of which those at r, g    *)
(* and b are passed on.                                                    *)
RgbLines(src, w, h, n, r, g, b) ==
    LET Pixel(x, y) == LET at == n * (y * w + x) IN <<src[at + r], src[at + g], src[at + b]>>
    IN  JpegImage(Written, w, h, 2, [rgb |-> Rgb24(w, h, Pixel)])

jpeg_encode_rgb32(src, w, h) == RgbLines(src, w, h, 4, 1, 2, 3)
jpeg_encode_bgr32(src, w, h) == RgbLines(src, w, h, 4, 2, 1, 0)
jpeg_encode_rgb24(src, w, h) == RgbLines(src, w, h, 3, 0, 1, 2)
jpeg_encode_bgr24(src, w, h) == RgbLines(src, w, h, 3, 2, 1, 0)

(* The camera's image as it is. *)
jpeg_encode_jpeg(src) == src

(* Motion JPEG leaves out the Huffman tables: they are put before the scan *)
(* unless a DHT segment came before.                                       *)
jpeg_encode_mjpeg(src) ==
    LET has_dht == \E i \in DOMAIN src.segments : src.segments[i].marker = "DHT"
        scan    == SelectInSeq(src.segments, LAMBDA s : s.marker = "SOS")
    IN  IF has_dht THEN src
        ELSE [src EXCEPT !.segments = InsertAt(@, scan, [marker |-> "DHT"])]

(* init_jpeg_compressor chooses the encoder by the format of the frames. *)
Encoded(palette, src, w, h) ==
    CASE palette = "YUV420" -> jpeg_encode_yuv420(src, w, h)
      [] palette = "YUYV"   -> jpeg_encode_yuyv(src, w, h)
      [] palette = "YVYU"   -> jpeg_encode_yvyu(src, w, h)
      [] palette = "UYVY"   -> jpeg_encode_uyvy(src, w, h)
      [] palette = "RGB24"  -> jpeg_encode_rgb24(src, w, h)
      [] palette = "RGB32"  -> jpeg_encode_rgb32(src, w, h)
      [] palette = "BGR24"  -> jpeg_encode_bgr24(src, w, h)
      [] palette = "BGR32"  -> jpeg_encode_bgr32(src, w, h)
      [] palette = "MJPEG"  -> jpeg_encode_mjpeg(src)
      [] palette = "JPEG"   -> jpeg_encode_jpeg(src)

-----------------------------------------------------------------------------
(* Decompression: what libjpeg makes of an image. *)
Sample(img, x, y) ==
    LET c == (y \div img.v_samp) * (img.w \div img.h_samp) + x \div img.h_samp
    IN  <<img.samples.y[y * img.w + x], img.samples.cb[c], img.samples.cr[c]>>

DecodedRgb(img, dest) ==
    LET Rgb(x, y) == LET s == Sample(img, x, y) IN YuvToRgb(s[1], s[2], s[3])
        Pixel(x, y) == IF dest = "BGR24" THEN Swapped(Rgb(x, y)) ELSE Rgb(x, y)
    IN  Rgb24(img.w, img.h, Pixel)

Fails(result) == [result |-> result, dest |-> <<>>, w |-> 0, h |-> 0]
Decodes(img, dest) == [result |-> "ok", dest |-> dest, w |-> img.w, h |-> img.h]

(* libjpeg hands over the samples themselves, 8 * v_samp lines of y and 8  *)
(* of u and v at a time.  If the chroma has all lines, the second 8 of     *)
(* each 16 are written over the first.                                     *)
decode_libjpeg_h_samp2(img, yvu) ==
    LET half(y) == IF img.v_samp = 2 THEN y ELSE (y \div 8) * 16 + 8 + (y % 8)
        Y(x, y) == img.samples.y[y * img.w + x]
        U(x, y) == img.samples.cb[half(y) * (img.w \div 2) + x]
        V(x, y) == img.samples.cr[half(y) * (img.w \div 2) + x]
    IN  Yuv420(img.w, img.h, yvu, Y, U, V)

v4lconvert_decode_jpeg_libjpeg(img, width, height, dest) ==
    CASE <<img.w, img.h>> # <<width, height>> -> Fails("EIO")
      [] /\ <<img.w, img.h>> = <<width, height>>
         /\ dest \in {"YUV420", "YVU420"} /\ img.h_samp = 1 -> Fails("EOPNOTSUPP")
      [] /\ <<img.w, img.h>> = <<width, height>>
         /\ dest \in {"YUV420", "YVU420"} /\ img.h_samp = 2
         /\ width % 16 # 0 \/ height % (8 * img.v_samp) # 0 -> Fails("EIO")
      [] OTHER -> Decodes(img, IF dest \in {"RGB24", "BGR24"} THEN DecodedRgb(img, dest)
                               ELSE decode_libjpeg_h_samp2(img, dest = "YVU420"))
=============================================================================
