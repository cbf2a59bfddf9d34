---------------------------- MODULE MCControlList ----------------------------
(* Drivers that between them have every type of control, every oddity the  *)
(* code straightens and every way of answering a query.                    *)
EXTENDS ControlList

Plain == [next |-> "next", ext |-> TRUE, flags |-> {}, always |-> FALSE, private |-> {}]

Off(q) == [q EXCEPT !.disabled = TRUE]
Class  == Query("CTRL_CLASS", 0, 0, 0)

(* A UVC camera: user and camera class, extended controls, menus that      *)
(* answer and one that does not, a write-only pan.                         *)
UvcCtrls == (USER_CLASS :> Class) @@ (BASE :> Query("INTEGER", 0, 4, 2))
            @@ (BASE + 24 :> Query("MENU", 0, 2, 0))
            @@ (CAMERA_CLASS :> Class) @@ (CAMERA_CLASS + 4 :> Query("INTEGER", 10, 15, 0))
            @@ (EXPOSURE_AUTO :> [Query("MENU", 0, 3, 1) EXCEPT !.menu = {1, 3}])
            @@ (CAMERA_CLASS + 2 :> Query("INTEGER_MENU", 1, 3, 0))
            @@ (CAMERA_CLASS + 3 :> Off(Query("INTEGER", 0, 1, 1)))
            @@ (PRIVATE_BASE :> [Query("MENU", 0, 2, 1) EXCEPT !.menu = {0, 2}])
            @@ (PRIVATE_BASE + 2 :> Query("STRING", 0, 4, 1))
Uvc == Plain @@ [ctrls |-> UvcCtrls,
                 values |-> (BASE :> {0, 2, 4}) @@ (BASE + 24 :> {0, 3})
                            @@ (PRIVATE_BASE :> {0, 2}) @@ (EXPOSURE_AUTO :> {1, 3})]

(* Odd bounds and values out of them, and a bitmask of all 32 bits.        *)
OddCtrls == (BASE :> Query("INTEGER", 6, -6, 0)) @@ (BASE + 1 :> Query("BOOLEAN", 0, 255, 255))
            @@ (BASE + 2 :> Query("BUTTON", 0, 1, 1)) @@ (BASE + 3 :> Query("BITMASK", -1, 7, 0))
            @@ (BASE + 4 :> Query("INTEGER64", 5, 9, 0)) @@ (BASE + 5 :> Query("BITMASK", 0, -1, 0))
Odd == Plain @@ [ctrls |-> OddCtrls,
                 values |-> (BASE :> {-6, 0, 9}) @@ (BASE + 1 :> {0, 255})
                            @@ (BASE + 3 :> {1, 12, -2}) @@ (BASE + 5 :> {5, -2})]

(* A gspca camera whose frames need conversion, with extended controls and *)
(* (older kernels) without.                                                *)
SoftCtrls == (IdOf.WHITEBALANCE :> Off(Query("BOOLEAN", 0, 1, 1)))
             @@ (IdOf.EXPOSURE :> Query("INTEGER", 0, 8, 8))
             @@ (IdOf.GAIN :> Query("INTEGER", 1, 5, 4))
Soft == [Plain EXCEPT !.flags = {"WANTS_WB", "WANTS_AUTOGAIN"}, !.always = TRUE]
        @@ [ctrls |-> SoftCtrls, values |-> (IdOf.EXPOSURE :> {0, 8}) @@ (IdOf.GAIN :> {1, 5})]
OldSoft == [Soft EXCEPT !.ext = FALSE]

(* Enumeration that stutters, and none at all with a gap in the private    *)
(* ids and a disabled one before it.                                       *)
Sticky == [Soft EXCEPT !.next = "sticky",
                       !.ctrls = @ @@ (CAMERA_CLASS + 2 :> Query("INTEGER", 0, 1, 1))
                                   @@ (PRIVATE_BASE :> Query("BOOLEAN", 0, 1, 1))]
Gaps == [Plain EXCEPT !.next = "none", !.ext = FALSE, !.flags = {"WANTS_AUTOGAIN"}]
        @@ [ctrls |-> SoftCtrls @@ (PRIVATE_BASE :> Off(Query("INTEGER", 0, 1, 1)))
                      @@ (PRIVATE_BASE + 1 :> Query("INTEGER", 0, 1, 1))
                      @@ (PRIVATE_BASE + 3 :> Query("INTEGER", 0, 1, 1)),
            values |-> (IdOf.EXPOSURE :> {0, 8}) @@ (PRIVATE_BASE + 1 :> {0, 1})]

(* Drivers with private ioctls: Philips cameras that turn, that cannot     *)
(* tell how far or where they are, and that do not turn at all; gspca; a   *)
(* QuickCam; drivers that answer the same ioctls to other ends.            *)
Bare == Plain @@ [ctrls |-> (BASE :> Query("INTEGER", 0, 1, 1)), values |-> (BASE :> {0, 1})]
With(values, private) == [Bare EXCEPT !.private = private, !.values = @ @@ values]
Angles == (PAN :> {-7, 0, 7}) @@ (TILT :> {-3, 0, 3})
Pwc == With(Angles, {"PWCPROBE", "MPTRESET", "MPTGRANGE", "MPTGANGLE"})
PwcBlind == With(Angles, {"PWCPROBE", "MPTRESET", "MPTGRANGE"})
PwcNoRange == With(Angles, {"PWCPROBE", "MPTRESET", "MPTGANGLE"})
PwcFixed == With(<<>>, {"PWCPROBE"})
Lights == LIGHT :> {0, 50, 60, 90}
Gspca == With(Lights, {"VIDIOPARAM", "LIGHTFREQ"})
LikeGspca == With(Lights, {"VIDIOPARAM"})
QcValues == [k \in {ProbeKey(QC_PROBE_INDEX, n) : n \in 0 .. 4} |->
                IF k = ProbeKey(QC_PROBE_INDEX, 2) THEN {0, 5} ELSE {1}]
Qc == [With(QcValues, {"QCVALUES", "USERLUT", "KEPTLUT"}) EXCEPT !.ext = FALSE]
LikeQc == With(LUT :> {0, 1}, {"USERLUT"})

MCDrivers == [uvc |-> Uvc, odd |-> Odd, soft |-> Soft, old_soft |-> OldSoft,
              sticky |-> Sticky, gaps |-> Gaps, pwc |-> Pwc, pwc_blind |-> PwcBlind,
              pwc_no_range |-> PwcNoRange, pwc_fixed |-> PwcFixed, gspca |-> Gspca,
              like_gspca |-> LikeGspca, qc |-> Qc, like_qc |-> LikeQc]
MCSoft    == [soft |-> Soft]
=============================================================================
