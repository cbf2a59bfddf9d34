----------------------------- MODULE Processing -----------------------------
(***************************************************************************)
(* libv4lconvert's video processing (src/libvideo/libv4lconvert/processing)*)
(* over its software controls: white balance, automatic gain and gamma.    *)
(*                                                                         *)
(* Each frame goes through v4lprocessing_pre_processing (which filters are *)
(* active, has a control changed?) and, unless its decoding fails first,   *)
(* v4lprocessing_processing (recalculate the lookup tables if a control    *)
(* has changed or ten frames have passed, apply them).  Controls may be    *)
(* set between the two.  Automatic gain drives the camera's own gain and   *)
(* exposure; the frames already in flight were taken with the old ones.    *)
(***************************************************************************)
EXTENDS SoftControls, Sequences, SequencesExt

CONSTANTS
    Streamers,           \* the handles whose program captures
    NoHandle,
    GainRange, ExposureRange, \* the camera's two controls, see HwRange
    Luminance(_, _, _),  \* average brightness: light, exposure, gain
    Scenes,              \* what the camera may be looking at
    MaxScenes,           \* bound: changes of scene in one behaviour
    FramesInFlight       \* frames taken but not handed over yet

HwRange(r) == /\ r \in [minimum : Nat, maximum : Nat, step : Nat \ {0}, default : Nat]
              /\ r.default \in r.minimum .. r.maximum

ASSUME ProcessingAssumption ==
    /\ Streamers \subseteq Handles /\ NoHandle \notin Handles
    /\ HwRange(GainRange) /\ HwRange(ExposureRange)
    /\ FramesInFlight \in Nat \ {0} /\ MaxScenes \in Nat

VARIABLES
    streamer, \* the handle that captures, or NoHandle
    stage,    \* "idle", or "pre" between the two calls of a frame
    proc,     \* handle -> its struct v4lprocessing_data
    hw,       \* the camera's gain and exposure
    inflight, \* the settings of the frames in flight, oldest first
    scene,    \* light and colour averages of what the camera sees
    scenes    \* changes of scene so far

procVars == <<streamer, stage, proc, hw, inflight, scene, scenes>>
vars == <<controlVars, procVars>>

UPDATE_RATE == 10
Linear == <<>>     \* no white balance in the tables

(* hurried is history: it was white balance that last asked for an update. *)
FreshProc ==
    [do_process |-> FALSE, controls_changed |-> FALSE, counter |-> 0,
     hurried |-> FALSE, active |-> FALSE, wb |-> Linear, gamma |-> 0, avg |-> Linear,
     last_gain_correction |-> 0]

Settled == [i \in 1 .. FramesInFlight |-> hw]

Init ==
    /\ ControlsInit
    /\ streamer = NoHandle /\ stage = "idle"
    /\ proc = [h \in Streamers |-> FreshProc]
    /\ hw = [gain |-> GainRange.default, exposure |-> ExposureRange.default]
    /\ inflight = Settled
    /\ scene \in Scenes /\ scenes = 0

-----------------------------------------------------------------------------
(* The filters' "active" functions, in the values they read, and what they *)
(* forget when their filter is off.                                        *)
whitebalance_active == v4lcontrol_get_ctrl("WHITEBALANCE") # 0
autogain_active     == v4lcontrol_get_ctrl("AUTOGAIN") # 0
gamma_active        == v4lcontrol_get_ctrl("GAMMA") \notin {0, 1000}
AnyFilter == whitebalance_active \/ autogain_active \/ gamma_active

Forget(p) ==
    [p EXCEPT !.avg = IF whitebalance_active THEN @ ELSE Linear,
              !.last_gain_correction = IF autogain_active THEN @ ELSE 0]

(* White balance: the averages follow the scene by at most 128 per update. *)
Clip(x, lo, hi) == IF x < lo THEN lo ELSE IF x > hi THEN hi ELSE x
Distance(x, y)  == IF x < y THEN y - x ELSE x - y
Clipped(colours) == [i \in 1 .. 3 |-> Clip(colours[i], 512, 3072)]
(* Mutant: the average always moves by 128. *)
ApproachOvershooting(from, to) == IF from < to THEN from + 128 ELSE from - 128

Approach(from, to) ==
    IF Distance(from, to) <= 128 THEN to
    ELSE IF from < to THEN from + 128 ELSE from - 128

WhiteTable(avg) ==
    IF \A i, j \in 1 .. 3 : Distance(avg[i], avg[j]) < 64 THEN Linear ELSE avg

whitebalance_calculate_lookup_tables(p) ==
    LET seen       == Clipped(scene.colours)
        first      == p.avg = Linear
        avg        == IF first THEN seen
                      ELSE [i \in 1 .. 3 |-> Approach(p.avg[i], seen[i])]
        throttling == ~first /\ avg # seen
    IN  [p EXCEPT !.avg = avg, !.wb = WhiteTable(avg),
                  !.active = @ \/ WhiteTable(avg) # Linear,
                  !.counter = IF throttling /\ @ = 0 THEN UPDATE_RATE ELSE @,
                  !.hurried = throttling /\ p.counter = 0]

-----------------------------------------------------------------------------
(* Automatic gain: the knee algorithm.  C's division rounds towards 0.     *)
TruncDiv(a, b) == IF a >= 0 THEN a \div b ELSE -((-a) \div b)

exposure_low ==
    LET low   == (ExposureRange.maximum - ExposureRange.minimum) \div 10
        steps == low \div ExposureRange.step
    IN  Min({steps, 10}) * ExposureRange.step + ExposureRange.minimum

RangeOf(knob) == IF knob = "gain" THEN GainRange ELSE ExposureRange

autogain_adjust(knob, value, steps, limit, accel) ==
    LET ctrl       == RangeOf(knob)
        ctrl_range == (ctrl.maximum - ctrl.minimum) \div ctrl.step
        factor     == IF accel /\ Distance(steps, 0) >= 3 /\ ctrl_range > 256
                         THEN ctrl_range \div 256
                      ELSE IF accel /\ ctrl_range > 1024
                         THEN ctrl_range \div 1024 ELSE 1
        moved      == value + steps * ctrl.step * factor
    IN  IF steps > 0 THEN Min({moved, limit}) ELSE Max({moved, limit})

Move(knob, limit, accel) == [knob |-> knob, limit |-> limit, accel |-> accel]
Down == << Move("exposure", ExposureRange.default, TRUE),
           Move("gain",     GainRange.default,     TRUE),
           Move("exposure", exposure_low,          TRUE),
           Move("gain",     GainRange.minimum,     TRUE),
           Move("exposure", ExposureRange.minimum, FALSE) >>
Up   == << Move("exposure", exposure_low,          FALSE),
           Move("gain",     GainRange.default,     TRUE),
           Move("exposure", ExposureRange.default, TRUE),
           Move("gain",     GainRange.maximum,     TRUE),
           Move("exposure", ExposureRange.maximum, TRUE) >>

(* The first move of the list that still has room, 0 if none has.          *)
FirstMove(steps) ==
    IF steps < 0 THEN SelectInSeq(Down, LAMBDA m : hw[m.knob] > m.limit)
                 ELSE SelectInSeq(Up,   LAMBDA m : hw[m.knob] < m.limit)

GainSteps(p, frame) ==
    LET target == v4lcontrol_get_ctrl("AUTOGAIN_TARGET")
        steps  == TruncDiv(target - Luminance(scene.light, frame.exposure, frame.gain), 6)
        turned == \/ steps > 0 /\ p.last_gain_correction < 0
                  \/ steps < 0 /\ p.last_gain_correction > 0
    IN  IF turned THEN TruncDiv(steps, 2) ELSE steps

autogain_hw(p, frame) ==
    LET steps == GainSteps(p, frame)
        moves == IF steps < 0 THEN Down ELSE Up
        m     == moves[FirstMove(steps)]
    IN  IF steps = 0 \/ FirstMove(steps) = 0 THEN hw
        ELSE [hw EXCEPT ![m.knob] = autogain_adjust(m.knob, @, steps, m.limit, m.accel)]

(* Mutant: the next frame is not skipped. *)
GainWithoutDelay(p, frame) ==
    LET steps == GainSteps(p, frame)
    IN  IF steps = 0 \/ FirstMove(steps) = 0 THEN p
        ELSE [p EXCEPT !.last_gain_correction = steps, !.counter = UPDATE_RATE,
                       !.hurried = FALSE]

autogain_calculate_lookup_tables(p, frame) ==
    LET steps == GainSteps(p, frame)
    IN  IF steps = 0 \/ FirstMove(steps) = 0 THEN p
        ELSE [p EXCEPT !.last_gain_correction = steps, !.counter = UPDATE_RATE - 2,
                       !.hurried = FALSE]

gamma_calculate_lookup_tables(p) ==
    [p EXCEPT !.gamma = v4lcontrol_get_ctrl("GAMMA"), !.active = TRUE]

(* The filters run in this order, each only if it is active.               *)
v4lprocessing_update_lookup_tables(p, frame) ==
    LET linear  == [Forget(p) EXCEPT !.wb = Linear, !.gamma = 0, !.active = FALSE]
        white   == IF whitebalance_active
                      THEN whitebalance_calculate_lookup_tables(linear) ELSE linear
        gained  == IF autogain_active
                      THEN autogain_calculate_lookup_tables(white, frame) ELSE white
    IN  IF gamma_active THEN gamma_calculate_lookup_tables(gained) ELSE gained

-----------------------------------------------------------------------------
(* One handle at a time can stream; the frames start with current settings.*)
StartStream(h) ==
    /\ streamer = NoHandle
    /\ handle[h] = "ready"
    /\ streamer' = h
    /\ inflight' = Settled
    /\ UNCHANGED <<controlVars, stage, proc, hw, scene, scenes>>

StopStream ==
    /\ streamer # NoHandle /\ stage = "idle"
    /\ streamer' = NoHandle
    /\ UNCHANGED <<controlVars, stage, proc, hw, inflight, scene, scenes>>

(* Closing a handle frees its processing data with it.                     *)
Close(h) ==
    /\ streamer # h
    /\ Destroy(h)
    /\ proc' = [s \in Streamers |-> IF s = h THEN FreshProc ELSE proc[s]]
    /\ UNCHANGED <<streamer, stage, hw, inflight, scene, scenes>>

v4lprocessing_pre_processing(h) ==
    /\ streamer = h /\ stage = "idle"
    /\ stage' = "pre"
    /\ proc' = [proc EXCEPT ![h] = [Forget(proc[h]) EXCEPT
                    !.do_process = AnyFilter,
                    !.controls_changed = @ \/ ControlsChanged(h)]]
    /\ TakeSnapshot(h)
    /\ UNCHANGED <<shm_values, handle, sets, streamer, hw, inflight, scene, scenes>>

NextFrame == inflight' = Append(Tail(inflight), hw)

(* The tables are recalculated for this frame.                             *)
UpdateDue(p) == p.controls_changed \/ p.counter = UPDATE_RATE

v4lprocessing_processing(h) ==
    LET p     == proc[h]
        frame == Head(inflight)
        due   == UpdateDue(p)
        start == [p EXCEPT !.controls_changed = FALSE, !.counter = 0,
                           !.hurried = FALSE]
    IN  /\ streamer = h /\ stage = "pre"
        /\ stage' = "idle"
        /\ proc' = [proc EXCEPT ![h] =
               IF ~p.do_process THEN p
               ELSE [(IF due THEN v4lprocessing_update_lookup_tables(start, frame)
                             ELSE [p EXCEPT !.counter = @ + 1])
                        EXCEPT !.do_process = FALSE]]
        /\ hw' = IF p.do_process /\ due /\ autogain_active
                    THEN autogain_hw(start, frame) ELSE hw
        /\ NextFrame
        /\ UNCHANGED <<controlVars, streamer, scene, scenes>>

(* v4lconvert_convert gave the frame up before it came to the processing.  *)
DamagedFrame ==
    /\ stage = "pre"
    /\ stage' = "idle"
    /\ NextFrame
    /\ UNCHANGED <<controlVars, streamer, proc, hw, scene, scenes>>

ChangeScene ==
    /\ scenes < MaxScenes
    /\ scene' \in Scenes \ {scene}
    /\ scenes' = scenes + 1
    /\ UNCHANGED <<controlVars, streamer, stage, proc, hw, inflight>>

Next ==
    \/ UserStep /\ UNCHANGED procVars
    \/ \E h \in Handles : Close(h)
    \/ \E h \in Streamers :
           \/ StartStream(h)
           \/ v4lprocessing_pre_processing(h)
           \/ v4lprocessing_processing(h)
    \/ StopStream
    \/ DamagedFrame
    \/ ChangeScene

Spec == Init /\ [][Next]_vars

-----------------------------------------------------------------------------
(* Automatic gain does not correct twice for the same light: it acts on a  *)
(* frame that was taken with the settings in force, unless a control has   *)
(* just been changed (autogain.c: "we skip the next frame as that is still *)
(* captured with the old settings") or white balance asked for the update. *)
NoReactionToOldFrames ==
    [][ hw' # hw => \/ proc[streamer].controls_changed
                    \/ proc[streamer].hurried
                    \/ Head(inflight) = hw ]_vars

(* White balance asks for an update of the next frame "only if no other    *)
(* processing plugin has already asked for a shorter update cycle"         *)
(* (whitebalance.c): automatic gain does not come to judge by old frames   *)
(* because of it.  Not so: see README, section 4.                          *)
WhiteBalanceWaits ==
    [][ hw' # hw /\ proc[streamer].hurried
            => proc[streamer].controls_changed \/ Head(inflight) = hw ]_vars

(* A change of the controls or of the light may leave a few frames with    *)
(* the tables of before, even when a control goes there and back between   *)
(* two frames so that no change is seen; but once users and light stay as  *)
(* they are, every frame that is processed is in the end processed with    *)
(* the tables the controls and the light ask for.                          *)
RightTables(h) ==
    /\ proc'[h].gamma = IF gamma_active THEN v4lcontrol_get_ctrl("GAMMA") ELSE 0
    /\ proc'[h].wb = IF whitebalance_active
                        THEN WhiteTable(Clipped(scene.colours)) ELSE Linear

TablesSettle ==
    <>[][ \A h \in Streamers :
             v4lprocessing_processing(h) /\ proc[h].do_process => RightTables(h) ]_vars

(* "Gamma (software)", whose default is 1000, "== 1.0": with that value    *)
(* the frames' brightness is left alone.  Not so: see README, section 4.   *)
GammaOneIsNeutral ==
    [][ \A h \in Streamers :
           v4lprocessing_processing(h) /\ shm_values["GAMMA"] = 1000
               => proc'[h].gamma \in {0, 1000} ]_vars
=============================================================================
