------------------------------- MODULE Pictures -----------------------------
(***************************************************************************)
(* A picture's way from the camera to the application, byte by byte:       *)
(* v4lconvert_convert (src/libvideo/libv4lconvert/libv4lconvert.c) and     *)
(* v4l4j's JPEG compressor after it, on frames a camera makes of a scene.  *)
(*                                                                         *)
(* V4lPipeline follows what the buffers of a conversion hold; here the     *)
(* buffers hold the bytes, and the question is whether the application     *)
(* sees the scene.  A handle (struct v4lconvert_data, made with a grabber) *)
(* keeps things between frames: the pixfc converter, CPIA1's previous      *)
(* frame and the count of MR97310A's incomplete frames.  White balance may *)
(* be switched on and off between frames: v4lconvert_convert then converts *)
(* twice, over RGB24.  What white balance does to the colours is in        *)
(* Processing; a scene in black and white it leaves alone.                 *)
(***************************************************************************)
EXTENDS ConvertPixfmt, CompressedFrames, FlipCrop

CONSTANT Jobs

(* A job: what a camera and an application agree on.  The camera's format  *)
(* fmt, w, h and bpl; the application's format dest, dw and dh, and        *)
(* whether it wants JPEG; the software controls hflip and vflip, and the   *)
(* values whitebalance may have; whether the sensor is mounted sideways;   *)
(* whether pixfc can be had; how the camera codes JPEG (see CameraJpegs)   *)
(* and whether its images are left to tinyjpeg (FORCE_TINYJPEG).           *)
(* And the bounds of a run: the scenes the camera may see, as [bg, patch], *)
(* the levels lo and hi of their colours, and how many frames are taken.   *)
(* And how exact the conversion is: see ShowsScene.                        *)
VARIABLES job,          \* the formats in use
          scene,        \* what the frame being handled shows
          sent,         \* what the camera sent last, if it sent anything
          frame,        \* the driver's buffer, how much was filled, if that was all, and
                        \* whether white balance is on when it is converted
          pic,          \* the picture so far
          f,            \* my_src_fmt
          step,         \* the last step that was taken
          handle,       \* what v4lconvert_data keeps
          synced,       \* no CPIA1 frame was lost since the last whole one
          missed,       \* the frames refused since the last picture
          shots
vars == <<job, scene, sent, frame, pic, f, step, handle, synced, missed, shots>>

Nothing == [none |-> TRUE]
FreshHandle == [pixfc |-> NoPixfc, previous_frame |-> Nothing, frames_dropped |-> 0,
                slower |-> 0, jpeg |-> [tinyjpeg |-> tinyjpeg_init, use_tinyjpeg |-> FALSE]]

-----------------------------------------------------------------------------
(* The camera. *)
Fit(j, s) == [w |-> IF j.rotated THEN j.h ELSE j.w, h |-> IF j.rotated THEN j.w ELSE j.h,
              bg |-> s.bg, patch |-> s.patch, lo |-> j.lo, hi |-> j.hi]

Jpegs == {"MJPEG", "JPEG", "PJPG"}

(* The bytes of a frame of format fmt. *)
Sequence(fmt, s, bpl, before, compressed) ==
    CASE fmt = "RGB24" -> RgbFrame(s, bpl, FALSE, <<>>)
      [] fmt = "BGR24" -> RgbFrame(s, bpl, TRUE, <<>>)
      [] fmt = "RGB32" -> RgbFrame(s, bpl, FALSE, <<0>>)
      [] fmt = "YUV420" -> PlanarFrame(s, bpl, 2, 3)
      [] fmt = "YVU420" -> PlanarFrame(s, bpl, 3, 2)
      [] fmt = "YUYV" -> PackedFrame(s, <<1, 2, 1, 3>>)
      [] fmt = "YVYU" -> PackedFrame(s, <<1, 3, 1, 2>>)
      [] fmt = "UYVY" -> PackedFrame(s, <<2, 1, 3, 1>>)
      [] fmt = "GREY" -> LET Row(y) == YLine(s, y) IN Concat(s.h, Row)
      [] fmt = "Y10BPACK" -> Y10bFrame(s)
      [] fmt = "RGB565" -> Rgb565Frame(s)
      [] fmt \in RawBayer -> LET Row(y) == RawLine(s, fmt, y) IN Concat(s.h, Row)
      [] fmt = "SPCA501" -> Spca501(s)
      [] fmt = "SPCA505" -> Spca505(s)
      [] fmt = "SPCA508" -> Spca508(s)
      [] fmt = "CIT_YYVYUY" -> CitYyvyuy(s)
      [] fmt = "KONICA420" -> Konica420(s)
      [] fmt = "M420" -> M420(s)
      [] fmt = "SN9C20X_I420" -> Sn9c20x(s)
      [] fmt = "CPIA1" -> CpiaFrame(s, before, compressed)
      [] fmt = "SE401" -> Se401(s)
      [] fmt = "STV0680" -> Stv0680(s)
      [] fmt = "MR97310A" -> Mr97310a(s)
      [] fmt = "SN9C2028" -> Sn9c2028(s)
      [] fmt = "PAC207" -> Pac207(s)
      [] fmt = "SQ905C" -> Sq905c(s)
      [] fmt = "JL2005BCD" -> Jl2005bcd(s)

(* Formats whose conversion looks at how much of the frame there is, and   *)
(* JPEG, whose decoders read to its end.                                   *)
MayEndEarly == {"RGB24", "BGR24", "YUV420", "YVU420", "YUYV", "YVYU", "UYVY", "GREY",
                 "Y10BPACK", "RGB565", "CPIA1", "SE401", "MR97310A", "PAC207", "JL2005BCD"}
                \cup RawBayer \cup Jpegs

(* The driver's buffer: behind the end of an incomplete frame, what it     *)
(* held before.                                                            *)
BufferSize(j) == IF j.fmt \in Jpegs \cup {"HM12"} THEN 0 ELSE 4 * j.w * j.h + 200
Filled(new, size, old) ==
    [i \in DOMAIN old |-> IF i < size THEN new[i + 1] ELSE old[i]]

-----------------------------------------------------------------------------
Moved(j) == j.rotated \/ j.hflip \/ j.vflip \/ j.dw # j.w \/ j.dh # j.h
Crops(j) == j.dw # j.w \/ j.dh # j.h

(* v4lconvert_processing_needs_double_conversion: processing is done on    *)
(* RGB or Bayer data.                                                      *)
NeedsDoubleConversion(from, to) ==
    /\ from \notin {"RGB24", "BGR24"} \cup RawBayer \cup ToUnpack
    /\ to \notin {"RGB24", "BGR24"}

(* v4lconvert_convert copies a frame that needs nothing done, converts     *)
(* twice, once, or only does the steps after a conversion.                 *)
CopiesFrame == job.fmt = job.dest /\ ~Moved(job) /\ ~frame.processing
Doubles  == frame.processing /\ NeedsDoubleConversion(job.fmt, job.dest)
Converts == Doubles \/ job.fmt # job.dest \/ ~Moved(job)

(* What the conversion in progress converts to, and which step follows it. *)
FirstOfTwo == Doubles /\ f.fmt = job.fmt
Dest == IF FirstOfTwo THEN "RGB24" ELSE job.dest
AfterConversion == CASE FirstOfTwo -> "doubled"
                     [] ~FirstOfTwo /\ Moved(job) -> "converted"
                     [] ~FirstOfTwo /\ ~Moved(job) -> "picture"

Init == /\ job \in Jobs
        /\ scene = Nothing /\ sent = Nothing /\ pic = Nothing
        /\ frame = [data |-> [i \in 0 .. BufferSize(job) - 1 |-> 0], size |-> 0, whole |-> TRUE,
                    processing |-> FALSE]
        /\ f = Nothing /\ step = "idle"
        /\ handle = [FreshHandle EXCEPT !.jpeg.use_tinyjpeg = job.tinyjpeg]
        /\ synced = FALSE /\ missed = 0
        /\ shots = 0

Ready == step \in {"idle", "delivered", "refused"}

(* The camera fills a buffer, or half of one.  It compresses a frame       *)
(* relative to the frame before, whatever became of that one here.         *)
Fill(s, data, size, whole) ==
    /\ \E p \in job.processing :
          frame' = [data |-> data, size |-> size, whole |-> whole, processing |-> p]
    /\ scene' = s /\ sent' = s

Capture ==
    /\ Ready /\ shots < job.shots
    /\ \E c \in job.scenes, whole \in BOOLEAN, compressed \in BOOLEAN :
          /\ whole \/ job.fmt \in MayEndEarly
          /\ compressed => job.fmt = "CPIA1" /\ sent # Nothing
          /\ \E s \in {Fit(job, c)} :
               CASE job.fmt \in Jpegs ->
                       Fill(s, CameraJpeg(s, job.coding, whole), 0, whole)
                 [] job.fmt = "HM12" -> Fill(s, Hm12(s), 0, TRUE)
                 [] OTHER ->
                       \E new \in {Sequence(job.fmt, s, job.bpl, sent, compressed)} :
                          \E size \in {IF whole THEN Len(new) ELSE Len(new) \div 2} :
                             Fill(s, Filled(new, size, frame.data), size, whole)
          /\ synced' = (whole /\ (synced \/ ~compressed))
    /\ f' = [fmt |-> job.fmt, w |-> job.w, h |-> job.h, bpl |-> job.bpl]
    /\ step' = "captured" /\ shots' = shots + 1
    /\ missed' = IF step = "delivered" THEN 0 ELSE missed
    /\ UNCHANGED <<job, pic, handle>>

-----------------------------------------------------------------------------
Finish(result, w, h) ==
    /\ pic' = result /\ step' = AfterConversion
    /\ f' = fixup_fmt(Dest, w, h)
    /\ UNCHANGED <<job, scene, sent, frame, synced, missed, shots>>

Refuse == /\ step' = "refused" /\ pic' = Nothing /\ missed' = missed + 1
          /\ UNCHANGED <<job, scene, sent, frame, f, synced, shots>>

(* Nothing to do: the frame is copied, as much of it as the driver filled. *)
CopyFrame ==
    /\ step = "captured" /\ CopiesFrame
    /\ pic' = frame.data /\ step' = "picture"
    /\ UNCHANGED <<job, scene, sent, frame, f, handle, synced, missed, shots>>

(* No conversion, only the steps that follow it: from the frame itself. *)
SkipConversion ==
    /\ step = "captured" /\ ~CopiesFrame /\ ~Converts
    /\ pic' = frame.data /\ step' = "converted"
    /\ UNCHANGED <<job, scene, sent, frame, f, handle, synced, missed, shots>>

ConvertJpeg ==
    /\ step = "captured" /\ ~CopiesFrame /\ job.fmt \in Jpegs
    /\ \E r \in {DecodeJpeg(frame.data, handle.jpeg, f, job.rotated, Dest)} :
          /\ handle' = [handle EXCEPT !.jpeg = r.jpeg]
          /\ IF r.result = "ok" THEN Finish(r.dest, r.w, r.h) ELSE Refuse

DecodeCustom ==
    /\ step = "captured" /\ job.fmt \in CustomYuv
    /\ \E before \in {IF handle.previous_frame # Nothing THEN handle.previous_frame
                      ELSE [i \in 0 .. (f.w * f.h * 3) \div 2 - 1 |-> 0]} :
       \E r \in {DecodeCustomYuv(frame.data, frame.size, f, before, Dest = "YVU420")} :
          IF ~r.ok THEN Refuse /\ UNCHANGED handle
          ELSE /\ handle' = IF job.fmt = "CPIA1" THEN [handle EXCEPT !.previous_frame = r.dest]
                            ELSE handle
               /\ IF IsYuv420(Dest) THEN Finish(r.dest, f.w, f.h)
                  ELSE /\ pic' = r.dest /\ step' = "decoded"
                       /\ UNCHANGED <<job, scene, sent, frame, f, synced, missed, shots>>

ConvertDecoded ==
    /\ step = "decoded"
    /\ Finish(ConvertCustomYuv(pic, f, Dest), f.w, f.h)
    /\ UNCHANGED handle

UnpackFrame ==
    /\ step = "captured" /\ job.fmt \in ToUnpack
    /\ \E r \in {Unpack(frame.data, frame.size, f, handle.frames_dropped)} :
          /\ handle' = [handle EXCEPT !.frames_dropped = r.frames_dropped,
                                      !.slower = @ + IF r.slower THEN 1 ELSE 0]
          /\ IF ~r.ok THEN Refuse
             ELSE /\ pic' = r.dest /\ step' = "unpacked"
                  /\ f' = [f EXCEPT !.fmt = UnpackedFormat(job.fmt), !.bpl = job.w]
                  /\ UNCHANGED <<job, scene, sent, frame, synced, missed, shots>>

ConvertUnpacked ==
    /\ step = "unpacked"
    /\ \E r \in {ConvertBayer(pic, f.w * f.h, f, Dest)} : Finish(r.dest, f.w, f.h)
    /\ UNCHANGED handle

(* The other formats, from the driver's buffer; and the second conversion, *)
(* from the buffer of the first, which is full.                            *)
Convert ==
    /\ \/ /\ step = "captured" /\ ~CopiesFrame /\ Converts
          /\ job.fmt \notin Jpegs \cup CustomYuv \cup ToUnpack
       \/ step = "doubled"
    /\ \E p \in {IF UsesPixfc(f.fmt, Dest)
                 THEN refresh_pixfc(handle.pixfc, job.pixfc, f.w, f.h, f.fmt, Dest)
                 ELSE handle.pixfc},
          src \in {IF step = "doubled" THEN pic ELSE frame.data},
          src_size \in {IF step = "doubled" THEN 3 * f.w * f.h ELSE frame.size} :
          /\ handle' = [handle EXCEPT !.pixfc = p]
          /\ \E r \in {ConvertPlain(src, src_size, f, Dest,
                                    IF UsesPixfc(f.fmt, Dest) THEN p ELSE NoPixfc)} :
                IF r.ok THEN Finish(r.dest, f.w, f.h) ELSE Refuse

-----------------------------------------------------------------------------
(* The steps after the conversion, each if its condition holds. *)
Step(from, cond, next, result, fmt) ==
    /\ step = from
    /\ step' = next
    /\ pic' = IF cond THEN result ELSE pic
    /\ f' = IF cond THEN fmt ELSE f
    /\ UNCHANGED <<job, scene, sent, frame, handle, synced, missed, shots>>

Rotate == Step("converted", job.rotated, "rotated", v4lconvert_rotate90(pic, f),
               fixup_fmt(f.fmt, f.h, f.w))

Flip == Step("rotated", job.hflip \/ job.vflip, "flipped",
             v4lconvert_flip(pic, f, job.hflip, job.vflip), fixup_fmt(f.fmt, f.w, f.h))

Crop == Step("flipped", Crops(job), "picture",
             v4lconvert_crop(pic, f, [fmt |-> job.dest, w |-> job.dw, h |-> job.dh]),
             fixup_fmt(f.fmt, job.dw, job.dh))

(* The application gets the picture, or v4l4j's compressor does first. *)
Deliver ==
    /\ step = "picture"
    /\ step' = "delivered"
    /\ pic' = IF job.jpeg THEN Encoded(job.dest, pic, job.dw, job.dh) ELSE pic
    /\ UNCHANGED <<job, scene, sent, frame, f, handle, synced, missed, shots>>

Next == \/ Capture \/ CopyFrame \/ SkipConversion \/ ConvertJpeg \/ DecodeCustom
        \/ ConvertDecoded \/ UnpackFrame \/ ConvertUnpacked \/ Convert
        \/ Rotate \/ Flip \/ Crop \/ Deliver

Spec == Init /\ [][Next]_vars

-----------------------------------------------------------------------------
(* What the application should see at x, y of its picture: the scene       *)
(* turned, mirrored, and cut, reduced or framed around its middle.         *)
Expected(x, y) ==
    LET turned == <<IF job.rotated THEN scene.h ELSE scene.w,
                    IF job.rotated THEN scene.w ELSE scene.h>>
        halved == turned[1] >= 2 * job.dw /\ turned[2] >= 2 * job.dh
        (* from the picture to the turned scene, along one side *)
        Back(v, have, want) ==
            IF halved THEN (have - 2 * want) \div 2 + 2 * v
            ELSE IF have >= want THEN (have - want) \div 2 + v ELSE v - (want - have) \div 2
        px == Back(x, turned[1], job.dw)   py == Back(y, turned[2], job.dh)
        fx == IF job.hflip THEN turned[1] - 1 - px ELSE px
        fy == IF job.vflip THEN turned[2] - 1 - py ELSE py
    IN  IF fx \notin 0 .. turned[1] - 1 \/ fy \notin 0 .. turned[2] - 1 THEN "border"
        ELSE IF job.rotated THEN Colour(scene, fy, scene.h - 1 - fx)
        ELSE Colour(scene, fx, fy)

Close(a, b, by) == a - b \in -by .. by

ShowsRgb(p, colour) ==
    LET by == job.tolerance
    IN  IF colour = "border" THEN p = <<0, 0, 0>>
        ELSE \A k \in 1 .. 3 : Close(p[k], Level(scene, k, colour), by)

ShowsYuv(p, colour) ==
    LET v == Yuv([k \in 1 .. 3 |-> Level(scene, k, colour)])
    IN  IF colour = "border" THEN p = <<16, 128, 128>>
        ELSE /\ Close(p[1], v[1], job.lumaTolerance)
             /\ Close(p[2], v[2], job.tolerance) /\ Close(p[3], v[3], job.tolerance)

(* The pixel at x, y of the picture delivered. *)
ShowsAt(x, y, colour) ==
    LET at == y * job.dw + x
        yvu == job.dest = "YVU420"
        Rgb3(buf) == IF job.dest = "BGR24" THEN <<buf[3 * at + 2], buf[3 * at + 1], buf[3 * at]>>
                     ELSE <<buf[3 * at], buf[3 * at + 1], buf[3 * at + 2]>>
    IN  CASE job.jpeg /\ "rgb" \in DOMAIN pic.samples ->
                ShowsRgb(<<pic.samples.rgb[3 * at], pic.samples.rgb[3 * at + 1],
                           pic.samples.rgb[3 * at + 2]>>, colour)
          [] job.jpeg /\ "rgb" \notin DOMAIN pic.samples -> ShowsYuv(Sample(pic, x, y), colour)
          [] ~job.jpeg /\ IsYuv420(job.dest) ->
                ShowsYuv(<<pic[at], pic[UAt(job.dw, job.dh, yvu, x, y)],
                           pic[VAt(job.dw, job.dh, yvu, x, y)]>>, colour)
          [] OTHER -> ShowsRgb(Rgb3(pic), colour)

(* Interpolation blurs edges: only pixels in the middle of their colour    *)
(* are looked at.                                                          *)
Middle(x, y, colour) ==
    \A dx \in {-job.blur, job.blur}, dy \in {-job.blur, job.blur} :
        LET nx == x + dx   ny == y + dy
        IN  nx \in 0 .. job.dw - 1 /\ ny \in 0 .. job.dh - 1 => Expected(nx, ny) = colour

ShowsScene ==
    \A x \in 0 .. job.dw - 1, y \in 0 .. job.dh - 1 :
        \E colour \in {Expected(x, y)} : Middle(x, y, colour) => ShowsAt(x, y, colour)

(* tinyjpeg takes Huffman tables that come with an image all for tables of *)
(* means.                                                                  *)
ReadsWrongTables == job.coding.tables /\ handle.jpeg.use_tinyjpeg

(* Conversions that show something else, each for a reason of its own in   *)
(* the code: the README tells which.                                       *)
GoesWrong(from, to) ==
    \/ from \in {"SE401", "RGB565"} /\ IsYuv420(to)
    \/ /\ from \in {"RGB24", "BGR24"} /\ IsYuv420(to)
       /\ job.pixfc => to = "YVU420"
    \/ from = "UYVY" /\ IsYuv420(to)
    \/ from = "HM12" /\ to = "BGR24"
    \/ /\ from \in {"MJPEG", "JPEG"} /\ ~handle.jpeg.use_tinyjpeg
       /\ job.coding.h_samp = 2 /\ job.coding.v_samp = 1 /\ IsYuv420(to)
    \/ from \in {"MJPEG", "JPEG"} /\ ReadsWrongTables

(* A frame that was all there, and CPIA1's compressed frames as long as no *)
(* frame was lost; with white balance, those it does not change.           *)
Sound ==
    /\ frame.whole /\ (job.fmt = "CPIA1" => synced)
    /\ IF Doubles THEN ~GoesWrong(job.fmt, "RGB24") /\ ~GoesWrong("RGB24", job.dest)
                  ELSE ~GoesWrong(job.fmt, job.dest)
    /\ frame.processing => {scene.bg, scene.patch} = {"black", "white"}

(* A JPEG image can be decoded by any decoder: the tables motion JPEG      *)
(* leaves out are there, before the scan.                                  *)
JpegReadable ==
    \E i, j \in DOMAIN pic.segments :
        i < j /\ pic.segments[i].marker = "DHT" /\ pic.segments[j].marker = "SOS"

(* A picture the application gets shows what the camera saw: every pixel   *)
(* in the middle of a colour has that colour, whatever formats the frame   *)
(* went through (v4lconvert_convert_pixfmt and the decoders), however it   *)
(* was turned, mirrored and cut (flip.c, crop.c), and whatever the handle  *)
(* kept from frames and conversions before (pixfc, previous_frame), white  *)
(* balance being switched on and off between frames; and a JPEG picture    *)
(* can be decoded (jpeg_encode_mjpeg).                                     *)
PictureKept == step = "delivered" /\ Sound => ShowsScene /\ (job.jpeg => JpegReadable)

(* libjpeg makes a picture of whatever there is of an image: the frames of *)
(* a JPEG camera are cut short unnoticed until tinyjpeg is used for them.  *)
LeftToLibjpeg == job.fmt \in {"MJPEG", "JPEG"} /\ ~handle.jpeg.use_tinyjpeg

(* A frame is refused if and only if something is missing: no complete     *)
(* frame is thrown away, and no incomplete one is shown, its rest being    *)
(* that of a frame before, where the conversion checks.  A frame already   *)
(* in the application's format is not converted, so nothing checks it, nor *)
(* does libjpeg, whose rest is grey; and of MR97310A's incomplete frames   *)
(* the third in a row is let through, not earlier and not later, and the   *)
(* camera has then been told to go slower (v4lconvert_decode_mr97310a).    *)
(* Whether tinyjpeg refuses an image whose tables it misreads is a matter  *)
(* of luck.                                                                *)
IncompleteRefused ==
    /\ step = "refused" => ~frame.whole \/ ReadsWrongTables
    /\ step = "delivered" /\ ~frame.whole =>
          \/ job.fmt = job.dest
          \/ LeftToLibjpeg
          \/ ReadsWrongTables
          \/ job.fmt = "MR97310A" /\ missed = 2 /\ handle.slower > 0
    /\ job.fmt = "MR97310A" => missed <= 2
=============================================================================
