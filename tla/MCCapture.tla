----------------------------- MODULE MCCapture ------------------------------
(* Capture on a handful of cameras, one of each kind the code tells apart. *)
EXTENDS Capture, TLC

Vga == <<640, 480>>
Qvga == <<320, 240>>
Cif == <<352, 288>>

Webcam(formats, sizes, uvc, flags, rotated) ==
    [formats |-> formats, sizes |-> [f \in ToSet(formats) |-> sizes],
     intervals |-> [f \in {} |-> {}], uvc |-> uvc, others |-> FALSE, flags |-> flags,
     rotated |-> rotated, bandwidth |-> 0, wraps |-> TRUE,
     enumstd |-> "fails", inputs |-> 0 :> {"WEBCAM"}, tunerOf |-> <<>>, tuners |-> <<>>]

Discrete(values) == [type |-> "discrete", values |-> values]
Stepwise(min, max) == [type |-> "stepwise", values |-> {min, max}]

(* A UVC webcam on a bus too slow for its uncompressed large images, some  *)
(* sizes of which only its JPEG format has.                                *)
UvcCamera == [Webcam(<<"YUYV", "MJPEG">>, <<Vga, Qvga>>, TRUE, FALSE, FALSE) EXCEPT
                 !.sizes["MJPEG"] = <<Vga, Cif, Qvga>>, !.bandwidth = 15000000,
                 !.intervals = "YUYV" :> (Vga :> Discrete({10}) @@ Qvga :> Discrete({25, 30}))
                    @@ "MJPEG" :> (Vga :> Discrete({15, 30}) @@ Cif :> Discrete({30})
                                   @@ Qvga :> Discrete({30}))]

(* UVC cameras with a format whose row has no bit of its own, on an x86    *)
(* and, with a size that only that format has, on an ARM.                  *)
GreyCamera == [Webcam(<<"YUYV", "GREY">>, <<Vga, Qvga>>, TRUE, FALSE, FALSE) EXCEPT
                  !.intervals = "YUYV" :> (Vga :> Discrete({10, 30})) @@ "GREY" :> (Vga :> Discrete({25}))]
GreyOnArm == [GreyCamera EXCEPT !.sizes["YUYV"] = <<Vga>>, !.wraps = FALSE]

(* The same kind of camera as the first, mounted upside down.              *)
UpsideDown == Webcam(<<"YUYV", "MJPEG">>, <<Vga, Qvga>>, TRUE, TRUE, FALSE)

(* A sensor slightly larger than the usual sizes, in Bayer format.         *)
BayerCamera == Webcam(<<"PAC207">>, <<Cif, <<356, 292>>>>, FALSE, FALSE, FALSE)

(* One whose driver can do more than capture video.                        *)
HybridCamera == [BayerCamera EXCEPT !.others = TRUE]
SidewaysCamera == Webcam(<<"PJPG">>, <<Vga, Qvga>>, FALSE, TRUE, TRUE)
NativeCamera ==
    [Webcam(<<"YUV420", "GREY">>, <<Vga, <<324, 244>>>>, FALSE, FALSE, FALSE) EXCEPT
        !.intervals = "YUV420" :> (Vga :> Stepwise(5, 15) @@ <<324, 244>> :> Stepwise(25, 25))]
PlanarCamera == [Webcam(<<"SPCA501", "YUYV">>, <<Cif, Qvga>>, FALSE, FALSE, FALSE) EXCEPT
                    !.enumstd = "unknown"]
UnknownCamera == Webcam(<<"SE401">>, <<Vga>>, FALSE, FALSE, FALSE)

(* Formats libvideo knows and libv4lconvert does not: alone, and beside    *)
(* one that it does.                                                       *)
PlainCamera == Webcam(<<"NV12">>, <<Vga>>, FALSE, FALSE, FALSE)
MixedCamera == Webcam(<<"NV12", "YUYV">>, <<Vga, Qvga>>, FALSE, FALSE, FALSE)

TvTuner == [radio |-> FALSE, capability |-> {}, rangelow |-> 704, rangehigh |-> 15328,
            clips |-> TRUE]
RadioTuner == [radio |-> TRUE, capability |-> {"V4L2_TUNER_CAP_LOW"}, rangelow |-> 1400000,
               rangehigh |-> 1728000, clips |-> FALSE]

(* A capture card: three inputs, with different standards, the second the  *)
(* television and the third, with none that libvideo knows, the radio.     *)
CaptureCard ==
    [Webcam(<<"BGR24", "YUYV">>, <<Vga, Cif>>, FALSE, FALSE, FALSE) EXCEPT
        !.enumstd = "analog",
        !.inputs = (0 :> {"PAL", "SECAM"}) @@ (1 :> {"NTSC", "PAL"}) @@ (2 :> {"OTHER"}),
        !.tunerOf = 1 :> 0 @@ 2 :> 1, !.tuners = 0 :> TvTuner @@ 1 :> RadioTuner]

(* One whose second tuner does not answer.                                 *)
DeafCard == [CaptureCard EXCEPT !.tuners = 0 :> TvTuner]

MCCameras == {UvcCamera, UpsideDown, GreyCamera, GreyOnArm, BayerCamera, HybridCamera,
              SidewaysCamera, NativeCamera,
              PlanarCamera, UnknownCamera, PlainCamera, MixedCamera, CaptureCard, DeafCard}
MCIntervals == {10, 15, 25, 30}
MCSizes == {<<0, 0>>, <<333, 250>>, <<320, 240>>}
=============================================================================
