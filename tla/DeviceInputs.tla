---------------------------- MODULE DeviceInputs ----------------------------
(***************************************************************************)
(* The video inputs of a V4L2 camera and their tuners: what libvideo finds *)
(* out about them (check_inputs_v4l2 of src/libvideo/v4l2-query.c), the    *)
(* InputInfo and TunerInfo objects made of it (src/src/v4l4j_DeviceInfo.c),*)
(* the TunerList and findTuner of VideoDevice.java, and the frequency of a *)
(* tuner (Tuner.java, v4l2-tuner.c).                                       *)
(*                                                                         *)
(* Of the camera: cam.inputs, the standards of each input ({"WEBCAM"} if   *)
(* its mask is V4L2_STD_UNKNOWN); cam.tunerOf, the number of the tuner of  *)
(* each input that has one; cam.tuners, what VIDIOC_G_TUNER says of each   *)
(* tuner that answers, and whether it clips the frequencies it is set to.  *)
(* Frequencies are counted in the 1/16 of a unit the driver counts in:     *)
(* setFrequency divides by 0.0625 what getFrequency multiplies by it.      *)
(***************************************************************************)
EXTENDS Integers, SequencesExt, FiniteSets

(* The tuner of an input, <<>> if it has none.                             *)
NoTuner == <<>>

query_tuner(cam, index) ==
    LET t == cam.tuners[index]
    IN  <<[index |-> index, type |-> IF t.radio THEN "radio" ELSE "tv",
           \* the bit V4L1 had for kHz: no V4L2 driver means kHz by it
           unit |-> IF "VIDEO_TUNER_LOW" \in t.capability THEN "kHz" ELSE "MHz",
           rangelow |-> t.rangelow, rangehigh |-> t.rangehigh]>>

(* The standards libvideo knows, in its order.                             *)
add_supported_std(stds) ==
    SelectSeq(<<"PAL", "NTSC", "SECAM", "WEBCAM">>, LAMBDA std : std \in stds)

HasTuner(cam, i)      == i \in DOMAIN cam.tunerOf
TunersAnswer(cam)     == \A i \in DOMAIN cam.tunerOf : cam.tunerOf[i] \in DOMAIN cam.tuners

(* The inputs in the order of VIDIOC_ENUMINPUT; one tuner that does not    *)
(* answer fails the query of all of them.                                  *)
check_inputs_v4l2(cam) ==
    LET Input(i) == [index |-> i, supported_stds |-> add_supported_std(cam.inputs[i]),
                     tuner |-> IF HasTuner(cam, i) THEN query_tuner(cam, cam.tunerOf[i])
                               ELSE NoTuner]
    IN  IF TunersAnswer(cam)
        THEN [ok |-> TRUE, inputs |-> [n \in 1 .. Cardinality(DOMAIN cam.inputs) |-> Input(n - 1)]]
        ELSE [ok |-> FALSE, inputs |-> <<>>]

-----------------------------------------------------------------------------
(* The InputInfo objects: standards are a set, a tuner is one object.      *)
create_tuner_object(tuner) ==
    [index |-> tuner.index, type |-> tuner.type, unit |-> tuner.unit,
     rangeLow |-> tuner.rangelow, rangeHigh |-> tuner.rangehigh]

create_inputs_object(inputs) ==
    [n \in DOMAIN inputs |->
        [index |-> inputs[n].index, supportedStandards |-> ToSet(inputs[n].supported_stds),
         tuner |-> IF inputs[n].tuner = NoTuner THEN NoTuner
                   ELSE <<create_tuner_object(inputs[n].tuner[1])>>]]

(* The TunerList of the device: the tuner of each input that has one.      *)
WithTuner(inputs) == {n \in DOMAIN inputs : inputs[n].tuner # NoTuner}
TunerList(inputs) == {inputs[n].tuner[1] : n \in WithTuner(inputs)}

(* The first of that index.                                                *)
getTuner(inputs, index) ==
    inputs[Min({n \in WithTuner(inputs) : inputs[n].tuner[1].index = index})].tuner[1]

(* The tuner of a channel, NoTuner if it has none.                         *)
findTuner(inputs, ch) ==
    LET of == {n \in WithTuner(inputs) : inputs[n].index = ch}
    IN  IF of = {} THEN NoTuner
        ELSE <<getTuner(inputs, inputs[Min(of)].tuner[1].index)>>

-----------------------------------------------------------------------------
(* VIDIOC_S_FREQUENCY of a driver; freq has the frequency of each tuner.   *)
Clip(low, high, f) == IF f < low THEN low ELSE IF f > high THEN high ELSE f

Clipped(t, f) == Clip(t.rangelow, t.rangehigh, f)

set_tuner_freq_v4l2(cam, freq, index, f) ==
    [freq EXCEPT ![index] = IF cam.tuners[index].clips THEN Clipped(cam.tuners[index], f) ELSE f]

(* What a driver reports outside of the range it advertises is quirky.     *)
fix_quirky_values(cam, index, f) == Clipped(cam.tuners[index], f)

get_tuner_freq_v4l2(cam, freq, index) == fix_quirky_values(cam, index, freq[index])

getFrequency(cam, freq, tuner) == get_tuner_freq_v4l2(cam, freq, tuner.index)
=============================================================================
