---------------------------- MODULE DriverProbes ----------------------------
(***************************************************************************)
(* The private ioctls of three old drivers (src/libvideo/pwc-probe.c,      *)
(* gspca-probe.c, qc-probe.c) and the table of them in libvideo.c: how     *)
(* libvideo finds out that it talks to such a driver, which controls it    *)
(* makes of the ioctls, and how it reads and sets those.                   *)
(*                                                                         *)
(* A driver d has the set d.private of what it answers to:                 *)
(*   PWCPROBE (with the name of its card), MPTRESET, MPTGRANGE, MPTGANGLE, *)
(*   VIDIOPARAM of gspca, and LIGHTFREQ if it makes unknown frequencies 0, *)
(*   QCVALUES of the QuickCam, USERLUT, and KEPTLUT if it keeps the lookup *)
(*   table as it was written.                                              *)
(* hw has the values of the camera by key; every probe has ten keys, the   *)
(* numbers it gives its controls.                                          *)
(***************************************************************************)
EXTENDS Integers, Sequences

(* A control as struct v4l2_queryctrl has it.  menu: the items it answers  *)
(* VIDIOC_QUERYMENU for.                                                   *)
Query(type, min, max, step) ==
    [type |-> type, minimum |-> min, maximum |-> max, step |-> step,
     disabled |-> FALSE, menu |-> {}]

ProbeBase == 80
PWC_PROBE_INDEX == 0
GSPCA_PROBE_INDEX == 1
QC_PROBE_INDEX == 2

ProbeKey(index, id) == ProbeBase + 10 * index + id
ProbeOf(key)        == (key - ProbeBase) \div 10
IdIn(key)           == (key - ProbeBase) % 10

PAN   == ProbeKey(PWC_PROBE_INDEX, 1)
TILT  == ProbeKey(PWC_PROBE_INDEX, 2)
LIGHT == ProbeKey(GSPCA_PROBE_INDEX, 3)
LUT   == ProbeKey(QC_PROBE_INDEX, 9)   \* not a control: the table is the camera's, or the probe's

Put(hw, key, v) == IF key \in DOMAIN hw THEN [hw EXCEPT ![key] = v] ELSE hw
Centred(hw)     == Put(Put(hw, PAN, 0), TILT, 0)

(* What a probe finds: nb controls, or -1 if it is not the driver's, and   *)
(* what looking for them did to the camera.                                *)
Found(nb, hw) == [nb |-> nb, hw |-> hw]

(* What a call on a control comes to.                                      *)
Got(v) == [ok |-> TRUE, value |-> v]
GetFails == [ok |-> FALSE, value |-> 0]

-----------------------------------------------------------------------------
(* pwc.  Whether the camera can pan and tilt is found out by resetting it. *)
pwc_driver_probe(d, hw) ==
    IF "PWCPROBE" \notin d.private THEN Found(-1, hw)
    ELSE IF "MPTRESET" \in d.private THEN Found(3, Centred(hw))
    ELSE Found(0, hw)

(* Three slots were counted: the camera may have no range to fill two of   *)
(* them with.                                                              *)
pwc_list_ctrl(d) ==
    IF "MPTRESET" \notin d.private THEN <<>>
    ELSE <<Query("BUTTON", 0, 0, 0)>>
         \o IF "MPTGRANGE" \in d.private
            THEN <<Query("INTEGER", -7, 7, 1), Query("INTEGER", -3, 3, 1)>> ELSE <<>>

pwc_get_ctrl(d, hw, id) ==
    IF id \in {1, 2} /\ "MPTGANGLE" \in d.private
    THEN Got(hw[ProbeKey(PWC_PROBE_INDEX, id)]) ELSE GetFails

(* The camera is told both angles.  When it does not tell the old ones,    *)
(* the other angle is what the stack happened to hold.                     *)
pwc_set_ctrl(d, hw, id, v) ==
    LET key == ProbeKey(PWC_PROBE_INDEX, id)
        other == IF key = PAN THEN TILT ELSE PAN
    IN  IF id = 0 THEN {Centred(hw)}
        ELSE IF "MPTGANGLE" \in d.private THEN {Put(hw, key, v)}
        ELSE {Put(Put(hw, key, v), other, x) : x \in d.values[other]}

-----------------------------------------------------------------------------
(* gspca.  It is recognized by what becomes of four light frequencies.     *)
(* The camera is left with the last that was tried.                        *)
StoredLight(d, v) == IF "LIGHTFREQ" \notin d.private \/ v \in {0, 50, 60} THEN v ELSE 0

gspca_driver_probe(d, hw) ==
    LET tried == <<60, 50, 0, 90>>   expected == <<60, 50, 0, 0>>
        wrong == {i \in 1 .. 4 : StoredLight(d, tried[i]) # expected[i]}
        last == IF wrong = {} THEN 4 ELSE CHOOSE i \in wrong : \A j \in wrong : i <= j
    IN  IF "VIDIOPARAM" \notin d.private THEN Found(-1, hw)
        ELSE Found(IF wrong = {} THEN 4 ELSE -1, Put(hw, LIGHT, StoredLight(d, tried[last])))

gspca_list_ctrl ==
    <<Query("BOOLEAN", 0, 1, 0), Query("INTEGER", 0, 6, 0), Query("INTEGER", 0, 1000, 0),
      [Query("MENU", 0, 60, 0) EXCEPT !.menu = {0, 50, 60}]>>

(* Filling that menu, it writes the last name into the menu of the control *)
(* before, which has none: the process ends, and no program ever gets to   *)
(* read or set one of these controls.                                      *)
ListCrashes(probes) == \E i \in DOMAIN probes : probes[i] = GSPCA_PROBE_INDEX

-----------------------------------------------------------------------------
(* qc.  It is recognized by a lookup table it keeps; the camera's own is   *)
(* put back only if it does.                                               *)
qc_driver_probe(d, hw) ==
    IF "USERLUT" \notin d.private THEN Found(-1, hw)
    ELSE IF "KEPTLUT" \in d.private THEN Found(5, hw)
    ELSE Found(-1, Put(hw, LUT, 1))

qc_list_ctrl == [n \in 1 .. 5 |-> Query("INTEGER", 0, IF n = 3 THEN 5 ELSE 1, 1)]

qc_get_ctrl(d, hw, id) ==
    IF "QCVALUES" \in d.private THEN Got(hw[ProbeKey(QC_PROBE_INDEX, id)]) ELSE GetFails

qc_set_ctrl(hw, id, v) == {Put(hw, ProbeKey(QC_PROBE_INDEX, id), v)}

-----------------------------------------------------------------------------
(* libvideo's table: every probe is tried on every camera.                 *)
probe(index, d, hw) ==
    CASE index = PWC_PROBE_INDEX   -> pwc_driver_probe(d, hw)
      [] index = GSPCA_PROBE_INDEX -> gspca_driver_probe(d, hw)
      [] index = QC_PROBE_INDEX    -> qc_driver_probe(d, hw)

list_ctrl(index, d) ==
    CASE index = PWC_PROBE_INDEX   -> pwc_list_ctrl(d)
      [] index = GSPCA_PROBE_INDEX -> gspca_list_ctrl
      [] index = QC_PROBE_INDEX    -> qc_list_ctrl

get_ctrl(d, hw, key) ==
    IF ProbeOf(key) = QC_PROBE_INDEX THEN qc_get_ctrl(d, hw, IdIn(key))
    ELSE pwc_get_ctrl(d, hw, IdIn(key))

(* What may become of the camera's values if the driver does as it is told.*)
set_ctrl(d, hw, key, v) ==
    IF ProbeOf(key) = QC_PROBE_INDEX THEN qc_set_ctrl(hw, IdIn(key), v)
    ELSE pwc_set_ctrl(d, hw, IdIn(key), v)

(* The probes one after the other: what they do to the camera, and which   *)
(* found their driver, with how many controls in all.                      *)
known_driver_probes(d, hw) ==
    LET pwc == probe(PWC_PROBE_INDEX, d, hw)
        gspca == probe(GSPCA_PROBE_INDEX, d, pwc.hw)
        qc == probe(QC_PROBE_INDEX, d, gspca.hw)
        found == <<pwc, gspca, qc>>
        Counted(f) == IF f.nb = -1 THEN 0 ELSE f.nb
    IN  [hw |-> qc.hw, count |-> Counted(pwc) + Counted(gspca) + Counted(qc),
         probes |-> SelectSeq(<<0, 1, 2>>, LAMBDA i : found[i + 1].nb # -1)]

(* Slots that list_ctrl leaves alone stay zeroed: no type has number 0.    *)
Zeroed == Query("zeroed", 0, 0, 0)

(* The controls of the probes.  Each probe writes to the first slots, over *)
(* what another has put there.                                             *)
ProbeControls(d, found) ==
    LET Slot(n) ==
            LET writers == {i \in DOMAIN found.probes :
                               n <= Len(list_ctrl(found.probes[i], d))}
                last == CHOOSE i \in writers : \A j \in writers : j <= i
            IN  IF writers = {} THEN <<ProbeBase, Zeroed>>
                ELSE <<ProbeKey(found.probes[last], n - 1), list_ctrl(found.probes[last], d)[n]>>
    IN  [n \in 1 .. found.count |-> Slot(n)]
=============================================================================
