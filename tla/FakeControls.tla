---------------------------- MODULE FakeControls ----------------------------
(***************************************************************************)
(* The table of the controls libv4lconvert can do in software, and which   *)
(* of them a camera gets                                                   *)
(* (src/libvideo/libv4lconvert/control/libv4lcontrol.c).                   *)
(***************************************************************************)
EXTENDS Integers

Fake(min, max, default) == [minimum |-> min, maximum |-> max, default |-> default]

fake_controls ==
    [WHITEBALANCE    |-> Fake(0, 1, 0),
     HFLIP           |-> Fake(0, 1, 0),
     VFLIP           |-> Fake(0, 1, 0),
     GAMMA           |-> Fake(500, 3000, 1000),
     AUTOGAIN        |-> Fake(0, 1, 1),
     AUTOGAIN_TARGET |-> Fake(0, 255, 100)]

Ctrls == DOMAIN fake_controls

(* The software controls of a camera whose driver has the enabled controls *)
(* hw and whose flags in libv4lcontrol's tables are flags: the first four  *)
(* whenever frames are converted anyway, automatic gain when the tables    *)
(* ask for it and the camera has what the algorithm drives.                *)
SoftwareOf(hw, flags, always_needs_conversion) ==
    (IF always_needs_conversion \/ flags # {}
        THEN {"WHITEBALANCE", "HFLIP", "VFLIP", "GAMMA"} \ hw
        ELSE {})
    \cup
    (IF /\ "WANTS_AUTOGAIN" \in flags
        /\ "AUTOGAIN" \notin hw
        /\ {"EXPOSURE", "GAIN"} \subseteq hw
        THEN {"AUTOGAIN", "AUTOGAIN_TARGET"}
        ELSE {})

(* What a software control starts with (v4lcontrol_create, copy_queryctrl).*)
DefaultOf(c, flags, default_gamma) ==
    IF c = "WHITEBALANCE" /\ "WANTS_WB" \in flags THEN 1
    ELSE IF c = "GAMMA" /\ default_gamma # 0 THEN default_gamma
    ELSE fake_controls[c].default
=============================================================================
