---------------------------- MODULE SoftControls ----------------------------
(***************************************************************************)
(* The controls libv4lconvert adds to a camera in software                 *)
(* (src/libvideo/libv4lconvert/control/libv4lcontrol.c).                   *)
(*                                                                         *)
(* Their values live in a shared memory segment named after the user and   *)
(* the camera: every open handle on the camera, in whatever process, maps  *)
(* the same values, and nothing ever unlinks the segment.  The handle that *)
(* creates the segment fills in the defaults in a second step, so another  *)
(* handle can map it in between.                                           *)
(***************************************************************************)
EXTENDS FakeControls

CONSTANTS
    Handles,               \* struct v4lcontrol_data's on the same camera
    HwCtrls,               \* controls the driver itself has
    Flags,                 \* the camera's flags in libv4lcontrol's tables
    AlwaysNeedsConversion, \* every format of the camera must be converted
    DefaultGamma,          \* gamma the tables give this camera, 0 for none
    SetValues,             \* control -> values users try to set
    MaxSets                \* bound: accepted settings in one behaviour

(* The controls of this camera that are done in software. *)
controls == SoftwareOf(HwCtrls, Flags, AlwaysNeedsConversion)

ASSUME SoftControlsAssumption ==
    /\ controls # {}
    /\ MaxSets \in Nat
    /\ DOMAIN SetValues \subseteq controls

VARIABLES
    shm_values, \* the segment: control -> value, or Absent
    handle,     \* handle -> "closed", "creating" (segment made, not filled), "ready"
    old_values, \* handle -> values at its last v4lcontrol_controls_changed
    sets        \* settings accepted so far

controlVars == <<shm_values, handle, old_values, sets>>

Absent == <<>>
Zeros  == [c \in Ctrls |-> 0]

Defaults == [c \in Ctrls |-> DefaultOf(c, Flags, DefaultGamma)]

ControlsInit ==
    /\ shm_values = Absent
    /\ handle = [h \in Handles |-> "closed"]
    /\ old_values = [h \in Handles |-> Zeros]
    /\ sets = 0

(* Mutant: opening a handle resets the controls. *)
CreateAndReset(h) ==
    /\ handle[h] = "closed"
    /\ shm_values' = Defaults
    /\ handle' = [handle EXCEPT ![h] = "ready"]
    /\ old_values' = [old_values EXCEPT ![h] = Zeros]
    /\ UNCHANGED sets

(* v4lcontrol_create, up to the mapping: O_EXCL tells who creates.         *)
Create(h) ==
    /\ handle[h] = "closed"
    /\ IF shm_values = Absent
          THEN /\ shm_values' = Zeros
               /\ handle' = [handle EXCEPT ![h] = "creating"]
          ELSE /\ handle' = [handle EXCEPT ![h] = "ready"]
               /\ UNCHANGED shm_values
    /\ old_values' = [old_values EXCEPT ![h] = Zeros]
    /\ UNCHANGED sets

(* The end of v4lcontrol_create in the handle that created the segment.    *)
FillDefaults(h) ==
    /\ handle[h] = "creating"
    /\ shm_values' = Defaults
    /\ handle' = [handle EXCEPT ![h] = "ready"]
    /\ UNCHANGED <<old_values, sets>>

(* v4lcontrol_destroy: the segment stays.                                  *)
Destroy(h) ==
    /\ handle[h] = "ready"
    /\ handle' = [handle EXCEPT ![h] = "closed"]
    /\ UNCHANGED <<shm_values, old_values, sets>>

(* v4lcontrol_vidioc_s_ctrl: a value out of range is refused (EINVAL).     *)
SetCtrl(h, c, v) ==
    /\ handle[h] = "ready"
    /\ c \in controls
    /\ sets < MaxSets
    /\ v \in fake_controls[c].minimum .. fake_controls[c].maximum
    /\ shm_values' = [shm_values EXCEPT ![c] = v]
    /\ sets' = sets + 1
    /\ UNCHANGED <<handle, old_values>>

(* What v4lcontrol_get_ctrl answers: its type is bool, so every value but  *)
(* 0 reads as 1, and a camera mounted upside down has its flips inverted.  *)
v4lcontrol_get_ctrl(c) ==
    IF c \notin controls THEN 0
    ELSE IF \/ c = "HFLIP" /\ "HFLIPPED" \in Flags
            \/ c = "VFLIP" /\ "VFLIPPED" \in Flags
         THEN IF shm_values[c] = 0 THEN 1 ELSE 0
         ELSE IF shm_values[c] = 0 THEN 0 ELSE 1

(* v4lcontrol_controls_changed: the comparison and the new snapshot.       *)
ControlsChanged(h) == shm_values # old_values[h]

TakeSnapshot(h) == old_values' = [old_values EXCEPT ![h] = shm_values]

UserStep ==
    \E h \in Handles :
        \/ Create(h)
        \/ FillDefaults(h)
        \/ \E c \in DOMAIN SetValues : \E v \in SetValues[c] : SetCtrl(h, c, v)

(* Closing a handle, opening another one or restarting a program never     *)
(* changes a control: once the segment is filled in, only a user's setting *)
(* does.  (While a creator is between its two steps this does not hold:    *)
(* it overwrites what a faster handle has set.)                            *)
SettingsSurvive ==
    [][ (shm_values # Absent /\ \A h \in Handles : handle[h] # "creating")
            => (shm_values' # shm_values => sets' = sets + 1) ]_controlVars
=============================================================================
