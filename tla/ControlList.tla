----------------------------- MODULE ControlList -----------------------------
(***************************************************************************)
(* How libvideo finds the controls of a camera (v4l2-input.c: standard ids,*)
(* private ids, then whatever VIDIOC_QUERYCTRL enumerates; after them the  *)
(* private ioctls of module DriverProbes), straightens what drivers report *)
(* about them, and how Control.java reads and sets their values.           *)
(*                                                                         *)
(* Control ids are compressed to small numbers that keep their order.  The *)
(* driver is picked from Drivers; its values may also be changed by other  *)
(* programs, between any two native calls of a Java method.  The counting  *)
(* of calls in progress and the release of the list are module Controls.   *)
(***************************************************************************)
EXTENDS FakeControls, DriverProbes, SequencesExt

CONSTANTS
    Drivers,    \* name -> driver, see DriverType
    MaxChanges  \* bound: changed values in one behaviour

USER_CLASS   == 1
BASE         == 2               \* V4L2_CID_BASE; the offsets are the real ones
LASTP1       == BASE + 43
CAMERA_CLASS == 60              \* and FOCUS_ABSOLUTE, which is in that class
EXPOSURE_AUTO == CAMERA_CLASS + 1
PRIVATE_BASE == 70
LastId       == 75

IdOf == [WHITEBALANCE |-> BASE + 12, GAMMA |-> BASE + 16, EXPOSURE |-> BASE + 17,
         AUTOGAIN |-> BASE + 18, GAIN |-> BASE + 19, HFLIP |-> BASE + 20,
         VFLIP |-> BASE + 21, AUTOGAIN_TARGET |-> 50]

(* The menus the V4L2 header spells out, and their items.                  *)
KnownMenus == (BASE + 24        :> 0 .. 2)  \* POWER_LINE_FREQUENCY
              @@ (BASE + 31     :> 0 .. 2)  \* COLORFX
              @@ (52            :> 0 .. 5)  \* MPEG_STREAM_TYPE
              @@ (EXPOSURE_AUTO :> 0 .. 3)

(* Of a driver: its controls, the values each may hold, how it answers     *)
(* V4L2_CTRL_FLAG_NEXT_CTRL ("sticky": with the control asked for, if it   *)
(* exists), whether it has VIDIOC_G/S_EXT_CTRLS, which controls cannot be  *)
(* read, its flags in libv4lcontrol and the private ioctls it answers.     *)
DriverType(d) ==
    /\ DOMAIN d.ctrls \subseteq USER_CLASS .. LastId
    /\ DOMAIN d.values \subseteq DOMAIN d.ctrls \cup (ProbeBase .. LUT)
    /\ \A k \in DOMAIN d.values :
          /\ d.values[k] # {}
          /\ k \in DOMAIN d.ctrls => ~d.ctrls[k].disabled
    /\ d.next \in {"none", "next", "sticky"}
    /\ d.ext \in BOOLEAN /\ d.always \in BOOLEAN
    /\ d.private \subseteq {"PWCPROBE", "MPTRESET", "MPTGRANGE", "MPTGANGLE", "VIDIOPARAM",
                             "LIGHTFREQ", "QCVALUES", "USERLUT", "KEPTLUT"}
    /\ {"PWCPROBE", "MPTRESET"} \subseteq d.private => {PAN, TILT} \subseteq DOMAIN d.values

ASSUME ControlListAssumption == MaxChanges \in Nat /\ \A n \in DOMAIN Drivers : DriverType(Drivers[n])

VARIABLES
    name,    \* of the camera's driver
    hw,      \* its values: key -> value
    shm,     \* values of the software controls (module SoftControls)
    list,    \* control_list.controls, and the Control objects made of them
    phase,   \* "closed", "ready", "stuck" (native list, no Java list), "crashed"
    call,    \* the Java method between its two native calls, or NoCall
    result,  \* of the method that has just ended, if any
    changes

vars == <<name, list, hw, shm, phase, call, result, changes>>

driver == Drivers[name]

NoCall   == [op |-> "none", i |-> 0, old |-> 0]
NoResult == [op |-> "none", i |-> 0, outcome |-> "none", value |-> 0]

Threw(op, i)       == [op |-> op, i |-> i, outcome |-> "exception", value |-> 0]
Returned(op, i, v) == [op |-> op, i |-> i, outcome |-> "value", value |-> v]
-----------------------------------------------------------------------------
Enabled(d, id) == id \in DOMAIN d.ctrls /\ ~d.ctrls[id].disabled

Software(d) ==
    SoftwareOf({c \in DOMAIN IdOf : Enabled(d, IdOf[c])}, d.flags, d.always)

SoftwareIds(d) == {IdOf[c] : c \in Software(d)}
NameOf(id) == CHOOSE c \in Ctrls : IdOf[c] = id

(* v4lcontrol_vidioc_queryctrl for one id: a software control hides the    *)
(* driver's.                                                               *)
Known(d, id) == id \in SoftwareIds(d) \cup DOMAIN d.ctrls

queryctrl(d, id) ==
    IF id \in SoftwareIds(d)
       THEN LET c == NameOf(id)
            IN Query(IF c \in {"GAMMA", "AUTOGAIN_TARGET"} THEN "INTEGER" ELSE "BOOLEAN",
                     fake_controls[c].minimum, fake_controls[c].maximum, 1)
       ELSE d.ctrls[id]

(* ... and with V4L2_CTRL_FLAG_NEXT_CTRL: the lowest id above, among the   *)
(* driver's answer and the software controls.  None of it if the driver    *)
(* did not answer such a query when v4lcontrol_create tried one.           *)
NextIds(d, id) ==
    IF d.next = "none" \/ DOMAIN d.ctrls = {} THEN {}
    ELSE {i \in DOMAIN d.ctrls : i > id \/ (d.next = "sticky" /\ i = id)}
         \cup {i \in SoftwareIds(d) : i > id}

Listable(d, id) ==
    Known(d, id) /\ ~queryctrl(d, id).disabled /\ queryctrl(d, id).type # "CTRL_CLASS"

Sorted(ids) == SelectSeq([i \in 1 .. LastId |-> i], LAMBDA i : i \in ids)

StdIds(d) == Sorted({i \in BASE .. LASTP1 - 1 : Listable(d, i)})

(* The private ids end at the first one the driver does not know.          *)
PrivateIds(d) ==
    Sorted({i \in PRIVATE_BASE .. LastId :
               Listable(d, i) /\ \A j \in PRIVATE_BASE .. i : Known(d, j)})

(* The third loop, which steps past an answer that does not advance.       *)
Enumerated(d) ==
    LET from[id \in 0 .. LastId + 1] ==
            LET next == NextIds(d, id)
            IN IF next = {} THEN <<>>
               ELSE <<Min(next)>> \o from[IF Min(next) <= id THEN id + 1 ELSE Min(next)]
    IN from[0]

(* Mutant: the third loop lists again what the first two have found. *)
ListAgain(d) ==
    StdIds(d) \o PrivateIds(d) \o SelectSeq(Enumerated(d), LAMBDA id : Listable(d, id))

(* The ids count_v4l2_controls counts and create_v4l2_controls lists.      *)
V4l2Ids(d) ==
    LET found == StdIds(d) \o PrivateIds(d)
    IN found \o SelectSeq(Enumerated(d),
                          LAMBDA id : Listable(d, id) /\ id \notin ToSet(found))

fix_quirky_struct(q) ==
    CASE q.type = "INTEGER" ->
            [q EXCEPT !.step = IF @ = 0 THEN 1 ELSE @,
                      !.minimum = Min({q.minimum, q.maximum}),
                      !.maximum = Max({q.minimum, q.maximum})]
      [] q.type \in {"MENU", "INTEGER_MENU"} ->
            [q EXCEPT !.step = IF @ = 0 THEN 1 ELSE @]
      [] q.type = "BOOLEAN" -> [q EXCEPT !.step = 1, !.minimum = 0, !.maximum = 1]
      [] q.type = "BUTTON" -> [q EXCEPT !.step = 0, !.minimum = 0, !.maximum = 0]
      [] q.type = "INTEGER64" -> [q EXCEPT !.step = 1, !.minimum = 0, !.maximum = 0]
      [] q.type = "BITMASK" -> [q EXCEPT !.minimum = 0]
      [] OTHER -> q

(* The items of a menu: known ones by the header, else what the driver     *)
(* answers, else one per step (a step of 0 was straightened before).       *)
set_query_menu(id, q) ==
    IF q.type \notin {"MENU", "INTEGER_MENU"} THEN {}
    ELSE IF id \in DOMAIN KnownMenus THEN KnownMenus[id]
    ELSE IF q.menu # {} THEN q.menu
    ELSE {i \in q.minimum .. q.maximum : (i - q.minimum) % q.step = 0}

Control(key, q) ==
    [key |-> key, type |-> q.type, minimum |-> q.minimum, maximum |-> q.maximum,
     step |-> q.step, menu |-> q.menu]

create_v4l2_controls(d) ==
    LET ids == V4l2Ids(d)
    IN [n \in 1 .. Len(ids) |->
           LET q == fix_quirky_struct(queryctrl(d, ids[n]))
           IN Control(ids[n], [q EXCEPT !.menu = set_query_menu(ids[n], q)])]

get_control_list(d, found) ==
    create_v4l2_controls(d)
        \o [n \in 1 .. found.count |-> LET slot == ProbeControls(d, found)[n]
                                       IN  Control(slot[1], slot[2])]
-----------------------------------------------------------------------------
Init ==
    /\ name \in DOMAIN Drivers
    /\ hw \in {h \in [DOMAIN driver.values -> UNION {driver.values[k] : k \in DOMAIN driver.values}] :
                  \A k \in DOMAIN driver.values : h[k] \in driver.values[k]}
    /\ shm = [c \in Software(driver) |-> DefaultOf(c, driver.flags, 0)]
    /\ phase = "closed" /\ list = <<>>
    /\ call = NoCall /\ result = NoResult /\ changes = 0

Idle == phase = "ready" /\ call = NoCall

(* VideoDevice.getControlList().  The drivers are probed anew each time.   *)
(* A type translate_type() does not know throws with the list allocated,   *)
(* and does so again at the next call, which allocates another.            *)
GetControlList ==
    /\ phase \in {"closed", "stuck"}
    /\ LET found == known_driver_probes(driver, hw)
           controls == get_control_list(driver, found)
       IN /\ hw' = found.hw
          /\ IF ListCrashes(found.probes)
             THEN phase' = "crashed" /\ UNCHANGED list
             ELSE IF \E c \in ToSet(controls) : c.type = "zeroed"
                     THEN phase' = "stuck" /\ UNCHANGED list
                     ELSE phase' = "ready" /\ list' = controls
    /\ UNCHANGED <<name, shm, call, result, changes>>

(* VideoDevice.releaseControlList(). *)
ReleaseControlList ==
    /\ Idle
    /\ phase' = "closed" /\ list' = <<>> /\ result' = NoResult
    /\ UNCHANGED <<name, hw, shm, call, changes>>
-----------------------------------------------------------------------------
Clamp(c, v) == IF v < c.minimum THEN c.minimum ELSE IF v > c.maximum THEN c.maximum ELSE v

(* Two's complement integers of 32 bits compared as unsigned ones: -1 is   *)
(* 16#FFFFFFFF.                                                            *)
UnsignedAbove(a, b) == IF (a < 0) = (b < 0) THEN a > b ELSE a < 0

fix_quirky_values(c, v) ==
    IF c.type \in {"INTEGER", "BOOLEAN", "MENU", "BUTTON", "INTEGER_MENU"} THEN Clamp(c, v)
    ELSE IF c.type = "BITMASK" /\ UnsignedAbove(v, c.maximum) THEN c.maximum
    ELSE v

FromProbe(c) == c.key >= ProbeBase

(* A call on the driver itself ends well if the driver has the control:    *)
(* not one libv4lconvert does in software, nor one that cannot be read.    *)
DriverReads(c) == IF FromProbe(c) THEN get_ctrl(driver, hw, c.key).ok ELSE c.key \in DOMAIN hw

(* libv4lcontrol comes in only when the driver lacks VIDIOC_G/S_EXT_CTRLS: *)
(* V4L2_CTRL_ID2CLASS(id) is never V4L2_CID_USER_CLASS, one more than the  *)
(* class of the user controls.                                             *)
DoneInSoftware(c) == ~driver.ext /\ \E s \in DOMAIN shm : IdOf[s] = c.key

Readable(c) == DriverReads(c) \/ DoneInSoftware(c)

(* Mutant: the value of a control as the driver has it. *)
ValueOfTheDriver(c) == IF DoneInSoftware(c) THEN shm[NameOf(c.key)] ELSE hw[c.key]

(* get_control_value, of a readable control: the private ioctls' values    *)
(* are passed on as they are.                                              *)
get_control_value(c) ==
    IF DoneInSoftware(c) THEN fix_quirky_values(c, shm[NameOf(c.key)])
    ELSE IF FromProbe(c) THEN get_ctrl(driver, hw, c.key).value
    ELSE fix_quirky_values(c, hw[c.key])

OutOfRange(c, v) ==
    c.type \in {"INTEGER", "BOOLEAN", "MENU", "BUTTON"} /\ v \notin c.minimum .. c.maximum

(* The driver takes the next lower value it has, or its lowest.            *)
DriverStores(c, v) ==
    LET lower == {x \in driver.values[c.key] : x <= v}
    IN IF c.key \notin DOMAIN hw THEN v
       ELSE IF lower = {} THEN Min(driver.values[c.key]) ELSE Max(lower)

(* set_control_value succeeds.                                             *)
SetDone(c, v) ==
    /\ ~OutOfRange(c, v)
    /\ changes < MaxChanges /\ changes' = changes + 1
    /\ \/ /\ DoneInSoftware(c)
          /\ v \in fake_controls[NameOf(c.key)].minimum .. fake_controls[NameOf(c.key)].maximum
          /\ shm' = [shm EXCEPT ![NameOf(c.key)] = v]
          /\ UNCHANGED hw
       \/ /\ ~FromProbe(c) /\ DriverReads(c)
          /\ hw' = [hw EXCEPT ![c.key] = DriverStores(c, v)]
          /\ UNCHANGED shm
       \/ /\ FromProbe(c)
          /\ hw' \in set_ctrl(driver, hw, c.key, DriverStores(c, v))
          /\ UNCHANGED shm
       \/ /\ Enabled(driver, c.key)
          /\ ~DriverReads(c)             \* write-only: nothing is read back
          /\ UNCHANGED <<hw, shm>>

(* ... or fails: the driver may refuse any call, other than on a control   *)
(* in software, and does not know the ids of those.                        *)
SetFails(c, v) ==
    /\ OutOfRange(c, v) \/ ~DoneInSoftware(c)
    /\ UNCHANGED <<hw, shm, changes>>
-----------------------------------------------------------------------------
(* The arithmetic of Control's constructor: Math.round rounds halves up.   *)
defaultValue(c) ==
    IF c.minimum <= 0 /\ 0 <= c.maximum THEN 0
    ELSE ((c.maximum - c.minimum + 1) \div 2) + c.minimum

validValue(c, v) == v \in c.minimum .. c.maximum

(* The types the int methods take: the others throw UnsupportedMethod.     *)
TakesInts(c) == c.type \notin {"STRING", "INTEGER64"}


(* Control.getValue(). *)
GetValue(i) ==
    /\ Idle /\ TakesInts(list[i])
    /\ LET c == list[i]
       IN result' = IF c.type = "BUTTON" THEN Returned("get", i, 0)
                    ELSE IF Readable(c) THEN Returned("get", i, get_control_value(c))
                    ELSE Threw("get", i)
    /\ UNCHANGED <<name, list, hw, shm, phase, call, changes>>

(* Control.setValue(), up to the native call that sets the value.          *)
SetValue(i, value) ==
    /\ Idle /\ TakesInts(list[i])
    /\ LET c == list[i]
           v == IF c.type = "BUTTON" THEN 0 ELSE value
       IN IF c.type # "BUTTON" /\ ~validValue(c, v)
             THEN /\ result' = Threw("set", i)
                  /\ UNCHANGED <<hw, shm, call, changes>>
             ELSE \/ /\ SetDone(c, v)
                     /\ call' = [op |-> "set", i |-> i, old |-> 0]
                     /\ result' = NoResult
                  \/ /\ SetFails(c, v)
                     /\ result' = Threw("set", i)
                     /\ UNCHANGED call
    /\ UNCHANGED <<name, list, phase>>

(* ... and its nested getValue().                                          *)
SetValueReads ==
    /\ call.op = "set"
    /\ LET c == list[call.i]
       IN result' = IF c.type = "BUTTON" THEN Returned(call.op, call.i, 0)
                    ELSE IF Readable(c) THEN Returned(call.op, call.i, get_control_value(c))
                    ELSE Returned(call.op, call.i, defaultValue(c))
    /\ call' = NoCall
    /\ UNCHANGED <<name, list, hw, shm, phase, changes>>

(* Control.increaseValue() and decreaseValue(): the current value is read, *)
Step(i, op) ==
    /\ Idle /\ TakesInts(list[i])
    /\ call' = [op |-> op, i |-> i,
                old |-> IF Readable(list[i]) THEN get_control_value(list[i])
                        ELSE defaultValue(list[i])]
    /\ result' = NoResult
    /\ UNCHANGED <<name, list, hw, shm, phase, changes>>

(* ... and the next one is set, and returned.                              *)
StepSets ==
    /\ call.op \in {"increase", "decrease"}
    /\ LET c == list[call.i]
           v == IF call.op = "increase" THEN call.old + c.step ELSE call.old - c.step
       IN \/ /\ validValue(c, v)
             /\ SetDone(c, v)
             /\ result' = Returned(call.op, call.i, v)
          \/ /\ IF validValue(c, v) THEN SetFails(c, v) ELSE UNCHANGED <<hw, shm, changes>>
             /\ result' = Threw(call.op, call.i)
    /\ call' = NoCall
    /\ UNCHANGED <<name, list, phase>>

(* Another program, or the camera, changes a value.                        *)
OtherSets ==
    /\ changes < MaxChanges /\ changes' = changes + 1
    /\ \/ /\ \E k \in DOMAIN hw : \E v \in driver.values[k] : hw' = [hw EXCEPT ![k] = v]
          /\ UNCHANGED shm
       \/ /\ \E c \in DOMAIN shm :
                \E v \in {fake_controls[c].minimum, fake_controls[c].maximum} :
                    shm' = [shm EXCEPT ![c] = v]
          /\ UNCHANGED hw
    /\ result' = NoResult
    /\ UNCHANGED <<name, list, phase, call>>

(* The values a Java program tries: the bounds and their neighbours.       *)
Tried(c) == {c.minimum - 1, c.minimum, c.maximum, c.maximum + 1}

Next ==
    \/ GetControlList
    \/ ReleaseControlList
    \/ \E i \in 1 .. Len(list) :
        \/ GetValue(i)
        \/ \E v \in Tried(list[i]) : SetValue(i, v)
        \/ \E op \in {"increase", "decrease"} : Step(i, op)
    \/ SetValueReads
    \/ StepSets
    \/ OtherSets

Spec == Init /\ [][Next]_vars
-----------------------------------------------------------------------------
(* What the driver and libv4lconvert offer, by the rules of V4L2: a driver *)
(* that enumerates its controls offers all that are enabled, an older one  *)
(* the standard ids and the private ones up to the first gap.              *)
Offered(d) ==
    LET all == {id \in DOMAIN d.ctrls : Enabled(d, id) /\ d.ctrls[id].type # "CTRL_CLASS"}
               \cup {IdOf[c] : c \in Software(d)}
    IN IF d.next # "none" THEN all
       ELSE {id \in all : \/ id \in BASE .. LASTP1 - 1
                          \/ /\ id >= PRIVATE_BASE
                             /\ PRIVATE_BASE .. id \subseteq DOMAIN d.ctrls}

(* A driver with private ioctls offers what its own probe knows of it.     *)
ProbesOffer(d) ==
    (IF {"PWCPROBE", "MPTRESET", "MPTGRANGE"} \subseteq d.private
        THEN {ProbeKey(PWC_PROBE_INDEX, n) : n \in 0 .. 2} ELSE {})
    \cup (IF {"USERLUT", "KEPTLUT"} \subseteq d.private
             THEN {ProbeKey(QC_PROBE_INDEX, n) : n \in 0 .. 4} ELSE {})

(* The list a program gets has every control the camera offers and no      *)
(* other: nothing is lost between the three loops of v4l2-input.c, to the  *)
(* two ways of meeting a software control, or to disabled and class        *)
(* entries; nothing is listed twice unless the driver's enumeration        *)
(* stutters (the Java map, keyed by name, then merges the two); and a menu *)
(* always has items to choose from.                                        *)
ControlsListed ==
    phase = "ready" =>
        /\ {c.key : c \in ToSet(list)} =
              Offered(driver) \cup ProbesOffer(driver)
        /\ driver.next # "sticky" => Len(list) = Cardinality({c.key : c \in ToSet(list)})
        /\ \A c \in ToSet(list) : c.type \in {"MENU", "INTEGER_MENU"} => c.menu # {}

(* A value Control.java returns lies between the getMinValue() and         *)
(* getMaxValue() of that control, whatever odd bounds the driver reports,  *)
(* whatever value it holds, and whoever changes it between the two native  *)
(* calls of setValue(), increaseValue() or decreaseValue().  Of a bitmask  *)
(* the bits of value and bounds are meant: as int, the maximum of one with *)
(* all 32 bits is -1, below every value it returns but itself.             *)
ValuesAdvertised ==
    result.outcome = "value" =>
        LET c == list[result.i]
            v == result.value
        IN  IF c.type = "BITMASK"
            THEN ~UnsignedAbove(c.minimum, v) /\ ~UnsignedAbove(v, c.maximum)
            ELSE v \in c.minimum .. c.maximum

(* "Some controls (for example relative values like pan or tilt) are       *)
(* write-only" (Control.java): reading any other control the list offers   *)
(* does not fail, in particular not that of a software control.            *)
SoftwareControlsRead ==
    result.op = "get" /\ result.outcome = "exception"
        => list[result.i].key \notin SoftwareIds(driver)
=============================================================================
