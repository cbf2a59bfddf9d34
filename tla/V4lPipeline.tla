----------------------------- MODULE V4lPipeline ----------------------------
(***************************************************************************)
(* v4lconvert_convert: what libv4lconvert does with a captured frame, and  *)
(* through which buffers it passes                                         *)
(* (src/libvideo/libv4lconvert/libv4lconvert.c).                           *)
(*                                                                         *)
(* An image is what a buffer holds: a pixel format, a size, how often it   *)
(* was processed and whether it was turned and mirrored.  Beside it the    *)
(* code keeps my_src_fmt, what it believes the current buffer holds: a     *)
(* step that believes something else produces Garbage.  Frames are whole   *)
(* here; what becomes of incomplete ones is in Pictures.                   *)
(***************************************************************************)
EXTENDS V4lConvert

Garbage == [fmt |-> "garbage", w |-> 0, h |-> 0, processed |-> 0,
            rotated |-> FALSE, hflip |-> FALSE, vflip |-> FALSE]

Jpegs == {"MJPEG", "JPEG", "PJPG"}
CompressedBayer == {"SPCA561", "SN9C10X", "PAC207", "MR97310A", "JL2005BCD",
                    "SN9C2028", "SQ905C", "STV0680"}
RawBayer == {"SBGGR8", "SGBRG8", "SGRBG8", "SRGGB8"}

(* A sensor mounted sideways delivers JPEG images with the sides exchanged *)
(* (V4LCONTROL_ROTATED_90_JPEG).                                           *)
Captured(cam, f) ==
    [Garbage EXCEPT !.fmt = f.fmt,
                    !.w = IF cam.rotated /\ f.fmt \in Jpegs THEN f.h ELSE f.w,
                    !.h = IF cam.rotated /\ f.fmt \in Jpegs THEN f.w ELSE f.h]

Needed(fmt, w, h) ==
    IF fmt \in {"RGB24", "BGR24"} THEN w * h * 3 ELSE (w * h * 3) \div 2

v4lconvert_processing_needs_double_conversion(src, dest) ==
    /\ src \notin {"RGB24", "BGR24"} \cup CompressedBayer \cup RawBayer
    /\ dest \notin {"RGB24", "BGR24"}

-----------------------------------------------------------------------------
(* The state of a conversion: the images in the buffers, my_src_fmt, the   *)
(* filters' do_process, and whether a step has failed.                     *)
Believed(p, buf) == p.buf[buf].fmt = p.fmt.fmt
                    /\ p.buf[buf].w = p.fmt.w /\ p.buf[buf].h = p.fmt.h

Write(p, buf, image) == [p EXCEPT !.buf[buf] = image]

(* v4lprocessing_processing: at most once per frame, and only on formats   *)
(* it knows.                                                               *)
v4lprocessing_processing(p, buf) ==
    IF ~p.do_process \/ p.fmt.fmt \notin {"RGB24", "BGR24"} \cup RawBayer THEN p
    ELSE [Write(p, buf, IF Believed(p, buf)
                        THEN [p.buf[buf] EXCEPT !.processed = @ + 1] ELSE Garbage)
          EXCEPT !.do_process = FALSE]

(* v4lconvert_convert_pixfmt: compressed Bayer is processed after it was   *)
(* unpacked; a JPEG image has the size its header says, which must be the  *)
(* one expected.                                                           *)
v4lconvert_convert_pixfmt(p, cam, from, to, dest_fmt) ==
    LET src  == p.fmt.fmt
        img  == p.buf[from]
        side == cam.rotated /\ src \in Jpegs
        size == IF side THEN <<p.fmt.h, p.fmt.w>> ELSE <<p.fmt.w, p.fmt.h>>
        once == src \in CompressedBayer /\ p.do_process
        out  == [img EXCEPT !.fmt = dest_fmt, !.processed = @ + IF once THEN 1 ELSE 0]
        good == img.fmt = src /\ <<img.w, img.h>> = size
    IN  IF \/ src \notin SrcFormats
           \/ src \in Jpegs /\ ~good
        THEN [p EXCEPT !.ok = FALSE]
        ELSE [Write(p, to, IF good THEN out ELSE Garbage) EXCEPT
                 !.fmt = v4lconvert_fixup_fmt(Format(dest_fmt, size[1], size[2], 0)),
                 !.do_process = @ /\ ~once]

(* Mutant: my_src_fmt keeps the sides as they were. *)
RotateUnnoticed(p, from, to) ==
    Write(p, to, IF Believed(p, from)
                 THEN [p.buf[from] EXCEPT !.w = p.fmt.h, !.h = p.fmt.w, !.rotated = TRUE]
                 ELSE Garbage)

v4lconvert_rotate90(p, from, to) ==
    [Write(p, to, IF Believed(p, from)
                  THEN [p.buf[from] EXCEPT !.w = p.fmt.h, !.h = p.fmt.w, !.rotated = TRUE]
                  ELSE Garbage)
     EXCEPT !.fmt.w = p.fmt.h, !.fmt.h = p.fmt.w]

v4lconvert_flip(p, from, to, hflip, vflip) ==
    Write(p, to, IF Believed(p, from)
                 THEN [p.buf[from] EXCEPT !.hflip = hflip, !.vflip = vflip] ELSE Garbage)

v4lconvert_crop(p, from, to, dest) ==
    Write(p, to, IF Believed(p, from) /\ p.fmt.fmt = dest.fmt
                 THEN [p.buf[from] EXCEPT !.w = dest.w, !.h = dest.h] ELSE Garbage)

-----------------------------------------------------------------------------
(* The way of a frame: how often it is converted, which other steps are    *)
(* taken, and the buffers between them.                                    *)
Way(cam, src_fmt, dest_fmt, set) ==
    LET flip    == set.hflip \/ set.vflip
        crop    == dest_fmt.w # src_fmt.w \/ dest_fmt.h # src_fmt.h
        moved   == cam.rotated \/ flip \/ crop
        convert == IF set.processing /\ v4lconvert_processing_needs_double_conversion(
                                            src_fmt.fmt, dest_fmt.fmt) THEN 2
                   ELSE IF dest_fmt.fmt # src_fmt.fmt \/ ~moved THEN 1 ELSE 0
        rotate90_src  == IF convert # 0 /\ moved THEN "convert2_buf" ELSE "src"
        rotate90_dest == IF flip \/ crop THEN "rotate90_buf" ELSE "dest"
        flip_src      == IF cam.rotated /\ (flip \/ crop) THEN "rotate90_buf" ELSE rotate90_src
        flip_dest     == IF crop THEN "flip_buf" ELSE "dest"
    IN  [flip |-> flip, crop |-> crop, moved |-> moved, convert |-> convert,
         convert2_src  |-> IF convert = 2 THEN "convert1_buf" ELSE "src",
         convert2_dest |-> IF moved THEN "convert2_buf" ELSE "dest",
         rotate90_src  |-> rotate90_src, rotate90_dest |-> rotate90_dest,
         flip_src      |-> flip_src,     flip_dest     |-> flip_dest,
         crop_src      |-> IF flip /\ crop THEN "flip_buf" ELSE flip_src]

Buffers == {"src", "convert1_buf", "convert2_buf", "rotate90_buf", "flip_buf", "dest"}

Arrived(cam, src_fmt, dest_fmt, set) ==
    [buf |-> [b \in Buffers |-> IF b = "src" THEN Captured(cam, src_fmt) ELSE Garbage],
     fmt |-> src_fmt, do_process |-> set.processing,
     ok  |-> dest_fmt.image >= Needed(dest_fmt.fmt, dest_fmt.w, dest_fmt.h)]

(* The steps, each taken if its condition holds and none has failed.       *)
When(c, p, next) == IF c /\ p.ok THEN next ELSE p

Convert1(p, cam, way) ==
    When(way.convert = 2, p, v4lconvert_convert_pixfmt(p, cam, "src", "convert1_buf", "RGB24"))
Process(p, set, buf) == When(set.processing, p, v4lprocessing_processing(p, buf))
Convert2(p, cam, way, fmt) ==
    When(way.convert # 0, p,
         v4lconvert_convert_pixfmt(p, cam, way.convert2_src, way.convert2_dest, fmt))
ProcessAgain(p, set, way) == IF way.convert # 0 THEN Process(p, set, way.convert2_dest) ELSE p
Rotate(p, cam, way) ==
    When(cam.rotated, p, v4lconvert_rotate90(p, way.rotate90_src, way.rotate90_dest))
Turn(p, set, way) ==
    When(way.flip, p, v4lconvert_flip(p, way.flip_src, way.flip_dest, set.hflip, set.vflip))
Cut(p, way, dest_fmt) == When(way.crop, p, v4lconvert_crop(p, way.crop_src, "dest", dest_fmt))

Steps(p, cam, set, way, dest_fmt) ==
    Cut(Turn(Rotate(ProcessAgain(Convert2(Process(Convert1(p, cam, way), set, way.convert2_src),
                                          cam, way, dest_fmt.fmt), set, way),
                    cam, way), set, way), way, dest_fmt)

(* v4lconvert_convert: set says which of the software controls are active. *)
(* The result is the image in the caller's buffer, and ok, FALSE if the    *)
(* call returned -1.                                                       *)
v4lconvert_convert(cam, src_fmt, dest_fmt, set) ==
    LET way  == Way(cam, src_fmt, dest_fmt, set)
        done == Steps(Arrived(cam, src_fmt, dest_fmt, set), cam, set, way, dest_fmt)
    IN  IF \/ src_fmt.fmt = dest_fmt.fmt /\ ~set.processing /\ ~way.moved
           \/ ~v4lconvert_supported_dst_format(dest_fmt.fmt)
        THEN [ok |-> TRUE, image |-> Captured(cam, src_fmt)]
        ELSE [ok |-> done.ok, image |-> done.buf["dest"]]
=============================================================================
