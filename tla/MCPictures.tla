------------------------------ MODULE MCPictures ----------------------------
(***************************************************************************)
(* Instance of Pictures for TLC: one job for each conversion, and jobs for *)
(* the steps that turn, mirror and cut.                                    *)
(***************************************************************************)
EXTENDS Pictures

Bright == <<64, 192>>
Dim    == <<16, 48>>    \* sums of four stay below 256, see InnerLuma

Coloured == {[bg |-> "black", patch |-> "white"], [bg |-> "blue", patch |-> "red"],
             [bg |-> "white", patch |-> "green"]}
Two      == {[bg |-> "blue", patch |-> "red"], [bg |-> "white", patch |-> "green"]}
Greys    == {[bg |-> "black", patch |-> "white"], [bg |-> "white", patch |-> "black"]}

(* Sizes the formats allow; the others are 16 x 8.                         *)
Width(fmt)  == IF fmt \in {"SN9C20X_I420", "KONICA420", "JL2005BCD", "HM12"} THEN 32 ELSE 16
Height(fmt) == CASE fmt \in {"SN9C20X_I420", "KONICA420", "JL2005BCD"} \cup Jpegs -> 16
                 [] fmt = "HM12" -> 32
                 [] OTHER -> 8
LineBytes(fmt, w) == CASE fmt \in {"RGB24", "BGR24"} -> 3 * w [] fmt = "RGB32" -> 4 * w
                       [] fmt \in {"RGB565", "YUYV", "YVYU", "UYVY"} -> 2 * w [] OTHER -> w

Coding(fmt) == [h_samp |-> 2, v_samp |-> IF fmt = "PJPG" THEN 1 ELSE 2, restart |-> 0,
                planar |-> FALSE, pixart |-> fmt = "PJPG", tables |-> fmt = "JPEG"]

FromBayer(fmt) == fmt \in RawBayer \cup ToUnpack

Job(fmt, dest) ==
    LET w == Width(fmt)  h == Height(fmt)
        dim == FromBayer(fmt) /\ IsYuv420(dest)
        levels == IF dim THEN Dim ELSE Bright
    IN  [fmt |-> fmt, w |-> w, h |-> h, bpl |-> LineBytes(fmt, w), dest |-> dest,
         dw |-> w, dh |-> h, jpeg |-> FALSE, hflip |-> FALSE, vflip |-> FALSE,
         rotated |-> FALSE, pixfc |-> TRUE, processing |-> {FALSE}, coding |-> Coding(fmt),
         tinyjpeg |-> FALSE,
         scenes |-> IF fmt \in {"GREY", "Y10BPACK"} THEN Greys ELSE Coloured,
         lo |-> levels[1], hi |-> levels[2], shots |-> 1,
         tolerance |-> 5, lumaTolerance |-> IF dim THEN 16 ELSE 5,
         blur |-> IF FromBayer(fmt) THEN 2 ELSE 1]

Destinations == {"RGB24", "BGR24", "YUV420", "YVU420"}

Formats == {"RGB24", "BGR24", "YUV420", "YVU420", "YUYV", "YVYU", "UYVY", "GREY", "Y10BPACK",
            "RGB565", "SPCA501", "SPCA505", "SPCA508", "CIT_YYVYUY", "KONICA420", "M420",
            "SN9C20X_I420", "CPIA1", "SE401", "HM12", "MJPEG"}
           \cup RawBayer \cup ToUnpack

(* SQ905C's coding is not exact enough to keep the levels dim.             *)
Plain == {Job(fmt, dest) : fmt \in Formats, dest \in Destinations}
Conversions == {IF j.fmt = "SQ905C" THEN [j EXCEPT !.tolerance = 24] ELSE j
                   : j \in {k \in Plain : ~(k.fmt = "SQ905C" /\ IsYuv420(k.dest))}}

Sized(j, w, h) == [j EXCEPT !.w = w, !.h = h, !.dw = w, !.dh = h,
                            !.bpl = LineBytes(j.fmt, w)]

(* Compressed Bayer data whose neighbours differ a little, which is coded  *)
(* as differences.                                                         *)
Soft(fmt, lo, hi) == [Job(fmt, "RGB24") EXCEPT !.lo = lo, !.hi = hi]
SoftOnes == {Soft("MR97310A", 120, 128), Soft("SN9C2028", 64, 84),
             Soft("PAC207", 64, 132), Soft("PAC207", 64, 100)}

(* Grabbers that get several frames, between which white balance is        *)
(* switched on and off: frames converted once and twice in turn.           *)
Processed(fmt, dest, frames) ==
    [Job(fmt, dest) EXCEPT !.processing = BOOLEAN, !.shots = frames,
                           !.scenes = IF fmt \in {"GREY", "Y10BPACK"} THEN Greys
                                      ELSE Greys \cup Two]
Webcams == {Processed(fmt, "YUV420", 2) : fmt \in {"YUYV", "YUV420", "YVU420", "MJPEG", "SE401"}}
           \cup {Processed(fmt, "RGB24", 1) : fmt \in {"RGB24", "YUYV", "SGRBG8", "PAC207"}}
           \cup {Processed(fmt, "YUV420", 1)
                    : fmt \in {"GREY", "RGB565", "UYVY", "BGR24", "HM12", "SPCA501"}}
Cpias == {[Job("CPIA1", dest) EXCEPT !.scenes = Two, !.shots = 3]
             : dest \in {"RGB24", "YUV420"}}
         \cup {[Processed("CPIA1", "YUV420", 2) EXCEPT !.scenes = Two \cup Greys]}
Dropper == {[Job("MR97310A", "RGB24") EXCEPT !.scenes = Two, !.shots = 4]}
WithoutPixfc == {[Job(fmt, dest) EXCEPT !.pixfc = FALSE, !.scenes = Two]
                    : fmt \in {"YUV420", "YUYV", "UYVY"}, dest \in {"RGB24", "BGR24"}}
                \cup {[Job(fmt, "YUV420") EXCEPT !.pixfc = FALSE]
                         : fmt \in {"RGB24", "BGR24"}}

-----------------------------------------------------------------------------
(* The steps that move pixels: a frame of 16 x 8 as it is, halved, cut and *)
(* framed, each mirrored in the four ways.                                 *)
Mirrored(jobs) ==
    {[j EXCEPT !.hflip = h, !.vflip = v] : j \in jobs, h \in BOOLEAN, v \in BOOLEAN}
To(j, dw, dh) == [j EXCEPT !.dw = dw, !.dh = dh]
Delivered == {<<"RGB24", "RGB24">>, <<"YUV420", "YUV420">>, <<"YUYV", "BGR24">>,
              <<"YUYV", "YVU420">>}
MovedOnes ==
    Mirrored({[To(Job(c[1], c[2]), size[1], size[2]) EXCEPT !.scenes = Two]
                : c \in Delivered, size \in {<<16, 8>>, <<8, 4>>, <<12, 6>>, <<24, 16>>}})

(* Lines of the driver's with padding, where the conversion heeds it. *)
Pad(j) == [j EXCEPT !.scenes = Two,
                    !.bpl = @ + IF j.fmt = "RGB24" THEN 6 ELSE 4]
Paddeds == {Pad(Job("YUV420", "YVU420")), Pad([Job("RGB24", "RGB24") EXCEPT !.hflip = TRUE]),
            Pad([Job("YUV420", "YUV420") EXCEPT !.vflip = TRUE]),
            Pad([Job("YUV420", "YUV420") EXCEPT !.hflip = TRUE]),
            Pad(To(Job("YUV420", "YUV420"), 12, 6)), Pad(To(Job("RGB24", "RGB24"), 8, 4)),
            Pad(To(Job("RGB24", "RGB24"), 24, 16))}

(* A Pixart camera whose sensor is mounted sideways. *)
Turned(dest) == [Job("PJPG", dest) EXCEPT !.rotated = TRUE, !.w = 16, !.h = 32, !.dh = 32,
                                          !.scenes = {[bg |-> "blue", patch |-> "red"]}]
Sideways == {[Turned(dest) EXCEPT !.hflip = dest \in {"BGR24", "YVU420"},
                                  !.vflip = dest = "YVU420"] : dest \in Destinations}
            \cup {[Turned(dest) EXCEPT !.dh = 24] : dest \in {"RGB24", "YUV420"}}

(* Camera JPEG with all lines of chroma. *)
Chroma422 == {[Job("MJPEG", dest) EXCEPT !.coding.v_samp = 1] : dest \in Destinations}

(* Cameras whose images are left to tinyjpeg: every sampling, restart      *)
(* markers, planes in scans of their own, blocks with an edge in them, and *)
(* tables that come with the image.                                        *)
Tiny(dest, coding, w, h) ==
    [Sized(Job("MJPEG", dest), w, h) EXCEPT !.tinyjpeg = TRUE, !.coding = coding, !.scenes = Two]
Sampled(h, v) == [Coding("MJPEG") EXCEPT !.h_samp = h, !.v_samp = v]
Tinies ==
    {Tiny(dest, Sampled(2, 1), 32, 16) : dest \in Destinations}
    \cup {Tiny(dest, Sampled(1, 2), 16, 32) : dest \in {"BGR24", "YVU420"}}
    \cup {Tiny(dest, Sampled(1, 1), 16, 16) : dest \in Destinations}
    \cup {Tiny(dest, [Sampled(1, 1) EXCEPT !.restart = 2], 16, 16) : dest \in {"RGB24", "YUV420"}}
    \cup {Tiny("RGB24", [Sampled(2, 1) EXCEPT !.restart = 1], 32, 16)}
    \cup {[Tiny(dest, c, 32, 32) EXCEPT !.scenes = {[bg |-> "blue", patch |-> "red"]}]
             : dest \in {"RGB24", "YUV420"},
               c \in {Sampled(2, 2), [Sampled(2, 2) EXCEPT !.planar = TRUE]}}
    \cup {[Tiny(dest, Sampled(2, 1), 16, 8) EXCEPT !.tolerance = 16, !.lumaTolerance = 16]
             : dest \in {"RGB24", "YUV420"}}
    \cup {[Tiny("RGB24", [Sampled(2, 1) EXCEPT !.tables = TRUE], 32, 16) EXCEPT !.fmt = "JPEG"]}

(* Images whose sampling libjpeg's way to YUV does not do, with white      *)
(* balance switched on and off: from the first frame converted once on,    *)
(* tinyjpeg is used.                                                       *)
Fallbacks == {[Sized(Processed("MJPEG", "YUV420", 2), 16, 16 * v) EXCEPT
                  !.coding = Sampled(1, v), !.scenes = {[bg |-> "blue", patch |-> "red"]}]
                : v \in {1, 2}}

(* A JPEG grabber's frames, from what the camera sends or from RGB24. *)
Grabber(fmt, dest) == [Sized(Job(fmt, dest), 16, 16) EXCEPT !.jpeg = TRUE,
                         !.scenes = IF fmt = "GREY" THEN Greys ELSE Two]
Grabbers == {Grabber(fmt, fmt) : fmt \in {"YUV420", "YUYV", "YVYU", "UYVY", "RGB24", "RGB32",
                                         "BGR24", "MJPEG", "JPEG"}}
            \cup {Grabber("GREY", "RGB24"), Grabber("SPCA501", "YUV420")}

MCJobs == Conversions \cup SoftOnes \cup Webcams \cup Cpias \cup Dropper \cup WithoutPixfc
          \cup MovedOnes \cup Paddeds \cup Sideways \cup Chroma422 \cup Tinies \cup Fallbacks
          \cup Grabbers
=============================================================================
