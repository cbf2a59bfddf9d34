------------------------------ MODULE VideoDevice ------------------------------
(***************************************************************************)
(* VideoDevice: the object that hands out a frame grabber and a control    *)
(* list, counts them as its users, and closes the device file when it is   *)
(* released.  Its own State monitor guards the count; the object's monitor *)
(* serialises the methods that create and release the two parts; release() *)
(* takes only the former.  libvideo keeps the parts of the open device and *)
(* refuses to close it while one of them is in use.                        *)
(*                                                                         *)
(* What a thread does with a grabber is the business of FrameGrabber; here *)
(* a grabber is a part that is created, may refuse to be released, and is  *)
(* released.  loc[t] is where thread t stands in a method of VideoDevice,  *)
(* or inside a call on one of its Controls.                                *)
(***************************************************************************)
EXTENDS Integers, FiniteSets

CONSTANTS
  Threads,    (* threads of the application                                *)
  None,       (* no thread                                                 *)
  Faults,     (* what may fail: "init", "release", "controls", "describe", *)
              (* "interrupt"                                               *)
  AskTwice,   (* the application may ask for a grabber while one exists    *)
  MaxUses     (* bound on the uses that calls may lose or put back too many *)

ASSUME ThreadsAssumption == None \notin Threads
ASSUME FaultsAssumption ==
  /\ Faults \subseteq {"init", "release", "controls", "describe", "interrupt"}
  /\ AskTwice \in BOOLEAN
ASSUME BoundAssumption == MaxUses \in Nat \ {0}

VARIABLES
  state,     (* State.state: INIT or RELEASED                              *)
  temp,      (* State.temp                                                 *)
  users,     (* State.users                                                *)
  waiting,   (* threads in the wait set of State                           *)
  monitor,   (* owner of the VideoDevice's monitor                         *)
  grabber,   (* VideoDevice.fg is not null                                 *)
  controls,  (* VideoDevice.controls is not null                           *)
  parts,     (* parts of libvideo's struct video_device that are not NULL  *)
  open,      (* the device file is open, struct video_device allocated     *)
  loc        (* where each thread stands                                   *)

monitorVars == <<state, temp, users, waiting>>
objectVars  == <<monitor, grabber, controls>>
nativeVars  == <<parts, open>>
vars == <<monitorVars, objectVars, nativeVars, loc>>

Parts == {"info", "capture", "control", "tuners"}

Locations == {"idle", "grabber_init", "grabber_release", "controls_init", "controls_release",
              "control_call", "device_wait", "device_parts", "device_close", "device_commit"}

(* The constructor.  When the driver gives no information, the device is   *)
(* used without a DeviceInfo and without tuners; so it is when the lists   *)
(* of the DeviceInfo cannot be built, but libvideo has the part then.      *)
Init ==
  /\ state = "INIT" /\ temp = "INIT" /\ users = 0 /\ waiting = {}
  /\ monitor = None /\ grabber = FALSE /\ controls = FALSE
  /\ parts \in {{}, {"info", "tuners"}} \cup IF "describe" \in Faults THEN {{"info"}} ELSE {}
  /\ open = TRUE
  /\ loc = [t \in Threads |-> "idle"]

Goto(t, there) == loc' = [loc EXCEPT ![t] = there]
Step(t, here, there) == loc[t] = here /\ Goto(t, there)

(* synchronized (this), entered in one step and left in a later one. *)
Enter(t) == monitor = None /\ monitor' = t
Leave    == monitor' = None

-----------------------------------------------------------------------------
(* State.get() and State.put().  put() does not look at who calls it; when *)
(* the device was released it throws and counts nobody out.                *)
MayUse == state = "INIT" /\ temp # "RELEASED"

GetUse == users' = users + 1 /\ UNCHANGED <<state, temp, waiting>>

(* Mutant: the last user leaving tells nobody. *)
PutUseSilent == users' = users - 1 /\ UNCHANGED <<state, temp, waiting>>

PutUse ==
  /\ users' = IF state = "INIT" THEN users - 1 ELSE users
  /\ IF state = "INIT" /\ users = 1 /\ temp = "RELEASED" /\ waiting # {}
       THEN \E w \in waiting : waiting' = waiting \ {w}
       ELSE UNCHANGED waiting
  /\ UNCHANGED <<state, temp>>

-----------------------------------------------------------------------------
(* getRawFrameGrabber() and its five siblings. *)
GetGrabber(t) ==
  /\ loc[t] = "idle" /\ ~grabber /\ MayUse
  /\ Enter(t) /\ GetUse
  /\ Goto(t, "grabber_init")
  /\ UNCHANGED <<grabber, controls, nativeVars>>

(* A grabber exists.  The class test never succeeds, whatever the classes: *)
(* a use is put back that was not taken, and a StateException thrown.      *)
GetSecondGrabber(t) ==
  /\ AskTwice /\ users > -MaxUses
  /\ loc[t] = "idle" /\ grabber /\ monitor = None
  /\ PutUse
  /\ UNCHANGED <<objectVars, nativeVars, loc>>

(* Mutant: a grabber that failed to initialise keeps its use. *)
InitGrabberLeaks(t) ==
  /\ Step(t, "grabber_init", "idle") /\ Leave
  /\ \/ grabber' = TRUE /\ parts' = parts \cup {"capture"}
     \/ "init" \in Faults /\ UNCHANGED <<grabber, parts>>
  /\ UNCHANGED <<monitorVars, controls, open>>

(* Mutant: the grabber that failed stays in VideoDevice.fg. *)
InitGrabberKeeps(t) ==
  /\ Step(t, "grabber_init", "idle") /\ Leave
  /\ grabber' = TRUE
  /\ \/ parts' = parts \cup {"capture"} /\ UNCHANGED monitorVars
     \/ "init" \in Faults /\ PutUse /\ UNCHANGED parts
  /\ UNCHANGED <<controls, open>>

(* AbstractGrabber.init(); doInit() frees the capture part when it fails. *)
InitGrabber(t) ==
  /\ Step(t, "grabber_init", "idle") /\ Leave
  /\ \/ grabber' = TRUE /\ parts' = parts \cup {"capture"} /\ UNCHANGED monitorVars
     \/ "init" \in Faults /\ PutUse /\ UNCHANGED <<grabber, parts>>
  /\ UNCHANGED <<controls, open>>

ReleaseGrabber(t) ==
  /\ loc[t] = "idle" /\ grabber
  /\ Enter(t) /\ Goto(t, "grabber_release")
  /\ UNCHANGED <<monitorVars, grabber, controls, nativeVars>>

(* AbstractGrabber.release() may throw, for a capture that is just being   *)
(* started or stopped; the grabber stays with the device then.             *)
GrabberReleased(t) ==
  /\ Step(t, "grabber_release", "idle") /\ Leave
  /\ grabber' = FALSE /\ parts' = parts \ {"capture"} /\ PutUse
  /\ UNCHANGED <<controls, open>>

GrabberNotReleased(t) ==
  /\ "release" \in Faults
  /\ Step(t, "grabber_release", "idle") /\ Leave
  /\ UNCHANGED <<monitorVars, grabber, controls, nativeVars>>

-----------------------------------------------------------------------------
(* getControlList() *)
GetControls(t) ==
  /\ loc[t] = "idle" /\ ~controls /\ MayUse
  /\ Enter(t) /\ GetUse
  /\ Goto(t, "controls_init")
  /\ UNCHANGED <<grabber, controls, nativeVars>>

(* doGetControlList() fails on a control it cannot describe: the use is    *)
(* not put back, and for an unknown control type the part is not released. *)
InitControls(t) ==
  /\ Step(t, "controls_init", "idle") /\ Leave
  /\ \/ controls' = TRUE /\ parts' = parts \cup {"control"}
     \/ "controls" \in Faults /\ users < MaxUses /\ controls' = controls /\ parts' \in {parts, parts \cup {"control"}}
  /\ UNCHANGED <<monitorVars, grabber, open>>

(* A call on a Control of the list, counted by the State of the Control.   *)
(* releaseControlList() refuses further calls control by control, so one   *)
(* may still begin while it waits for another.  Module Controls has the    *)
(* details.                                                                *)
ControlCall(t) ==
  /\ loc[t] = "idle" /\ controls
  /\ Goto(t, "control_call")
  /\ UNCHANGED <<monitorVars, objectVars, nativeVars>>

ControlReturn(t) ==
  /\ Step(t, "control_call", "idle")
  /\ UNCHANGED <<monitorVars, objectVars, nativeVars>>

(* releaseControlList() *)
ReleaseControls(t) ==
  /\ loc[t] = "idle" /\ controls
  /\ Enter(t) /\ Goto(t, "controls_release")
  /\ UNCHANGED <<monitorVars, grabber, controls, nativeVars>>

FreeControls(t) ==
  /\ Step(t, "controls_release", "idle") /\ Leave
  /\ controls' = FALSE /\ parts' = parts \ {"control"} /\ PutUse
  /\ UNCHANGED <<grabber, open>>

(* ControlList.release() waits for every call in progress on a Control. *)
ControlsReleased(t) ==
  /\ \A u \in Threads : loc[u] # "control_call"
  /\ FreeControls(t)

-----------------------------------------------------------------------------
(* Mutant: one user is overlooked. *)
ReleaseOffByOne(t) ==
  /\ loc[t] = "idle" /\ MayUse
  /\ temp' = "RELEASED"
  /\ IF users <= 1
       THEN Goto(t, "device_parts") /\ UNCHANGED waiting
       ELSE Goto(t, "device_wait") /\ waiting' = waiting \cup {t}
  /\ UNCHANGED <<state, users, objectVars, nativeVars>>

(* release(wait).  Without wait a device in use is left as it was. *)
Release(t) ==
  /\ loc[t] = "idle" /\ MayUse
  /\ temp' = "RELEASED"
  /\ IF users = 0
       THEN Goto(t, "device_parts") /\ UNCHANGED waiting
       ELSE Goto(t, "device_wait") /\ waiting' = waiting \cup {t}
  /\ UNCHANGED <<state, users, objectVars, nativeVars>>

ReleaseWakes(t) ==
  /\ loc[t] = "device_wait" /\ t \notin waiting
  /\ IF users = 0
       THEN Goto(t, "device_parts") /\ UNCHANGED waiting
       ELSE UNCHANGED loc /\ waiting' = waiting \cup {t}
  /\ UNCHANGED <<state, temp, users, objectVars, nativeVars>>

(* Mutant: an interrupted release() does not take its request back. *)
ReleaseInterruptedKeeps(t) ==
  /\ "interrupt" \in Faults
  /\ Step(t, "device_wait", "idle") /\ t \in waiting
  /\ waiting' = waiting \ {t}
  /\ UNCHANGED <<state, temp, users, objectVars, nativeVars>>

(* The application interrupts the thread that waits. *)
ReleaseInterrupted(t) ==
  /\ "interrupt" \in Faults
  /\ Step(t, "device_wait", "idle") /\ t \in waiting
  /\ temp' = "INIT"
  /\ waiting' = waiting \ {t}
  /\ UNCHANGED <<state, users, objectVars, nativeVars>>

(* tuners.release(), doReleaseTunerActions(), deviceInfo.release(); the    *)
(* VideoDevice has a DeviceInfo when its constructor came as far as the    *)
(* tuners.                                                                 *)
ReleaseParts(t) ==
  /\ Step(t, "device_parts", "device_close")
  /\ parts' = IF "tuners" \in parts THEN parts \ {"info", "tuners"} ELSE parts
  /\ UNCHANGED <<monitorVars, objectVars, open>>

(* doRelease(): close_device() refuses while a part is left; the exception *)
(* leaves release() before its commit().                                   *)
ReleaseClose(t) ==
  /\ \/ parts = {} /\ Step(t, "device_close", "device_commit") /\ open' = FALSE
     \/ parts # {} /\ Step(t, "device_close", "idle") /\ UNCHANGED open
  /\ UNCHANGED <<monitorVars, objectVars, parts>>

ReleaseCommit(t) ==
  /\ Step(t, "device_commit", "idle")
  /\ state' = temp
  /\ UNCHANGED <<temp, users, waiting, objectVars, nativeVars>>

-----------------------------------------------------------------------------
(* Calls the application may make, and the steps that follow on a call. *)
Call(t) ==
  \/ GetGrabber(t) \/ GetSecondGrabber(t) \/ ReleaseGrabber(t)
  \/ GetControls(t) \/ ControlCall(t) \/ ReleaseControls(t)
  \/ Release(t) \/ ReleaseInterrupted(t)

CallStep(t) ==
  \/ InitGrabber(t) \/ GrabberReleased(t) \/ GrabberNotReleased(t)
  \/ InitControls(t) \/ ControlReturn(t) \/ ControlsReleased(t)
  \/ ReleaseWakes(t) \/ ReleaseParts(t) \/ ReleaseClose(t) \/ ReleaseCommit(t)

Next == \E t \in Threads : Call(t) \/ CallStep(t)

Spec == Init /\ [][Next]_vars

(* Every thread that is in a call keeps going.  The application does what  *)
(* its side of the contract asks: a part that was handed out is given back *)
(* in the end, and a grabber does not refuse its release for ever.  A      *)
(* release of the control list is not overtaken by calls for ever either,  *)
(* as a Control that is being released takes no further calls.             *)
Fairness ==
  /\ \A t \in Threads :
       /\ WF_vars(CallStep(t)) /\ SF_vars(GrabberReleased(t))
       /\ <>[](loc[t] = "controls_release") => <>[][\A u \in Threads : ~ControlCall(u)]_vars
  /\ SF_vars(\E t \in Threads : ReleaseGrabber(t))
  /\ SF_vars(\E t \in Threads : ReleaseControls(t))

LiveSpec == Spec /\ Fairness

-----------------------------------------------------------------------------
TypeOK ==
  /\ state \in {"INIT", "RELEASED"} /\ temp \in {"INIT", "RELEASED"}
  /\ users \in Int /\ waiting \subseteq Threads
  /\ monitor \in Threads \cup {None}
  /\ grabber \in BOOLEAN /\ controls \in BOOLEAN /\ open \in BOOLEAN
  /\ parts \subseteq Parts
  /\ loc \in [Threads -> Locations]

One(b) == IF b THEN 1 ELSE 0

(* The count is the number of parts handed out or in the making, whatever  *)
(* fails on the way and however the methods overlap with a release().      *)
UsesCounted ==
  users = One(grabber \/ \E t \in Threads : loc[t] = "grabber_init")
        + One(controls \/ \E t \in Threads : loc[t] = "controls_init")

Closing == {"device_parts", "device_close", "device_commit"}

(* release() "WILL wait() if a FrameGrabber or/and a ControlList is in     *)
(* use": it goes on to free the device only when nothing is in use.        *)
ReleaseWaits ==
  \A t \in Threads :
    loc[t] \in Closing =>
      ~grabber /\ ~controls /\ \A u \in Threads : loc[u] \notin {"grabber_init", "controls_init", "control_call"}

(* A release() that waits is woken: nobody sleeps when no user is left.    *)
NoLostWakeup == waiting # {} => users # 0

(* What the application was given exists: the object has a grabber exactly *)
(* when libvideo has the capture part, and a control list only with the    *)
(* control part, even for an application that breaks the rules.            *)
HandlesBacked ==
  /\ grabber <=> "capture" \in parts
  /\ controls => "control" \in parts

(* Nobody is in a native call of a part that is gone, or of a device whose *)
(* file was closed.                                                        *)
NativeCallsSafe ==
  \A t \in Threads :
    /\ loc[t] = "control_call" => open /\ "control" \in parts
    /\ loc[t] \in {"grabber_init", "controls_init"} => open
    /\ loc[t] = "grabber_release" => open /\ "capture" \in parts

(* release() is all or nothing: when nobody is in it any more, the device  *)
(* is closed for good or as usable as before.                              *)
ReleaseAllOrNothing ==
  (\A t \in Threads : loc[t] \notin Closing \cup {"device_wait"}) =>
    /\ temp = state
    /\ state = "RELEASED" <=> ~open

(* A release() that was called comes to an end, and so does every other    *)
(* call.                                                                   *)
CallsReturn == \A t \in Threads : loc[t] # "idle" ~> loc[t] = "idle"
===============================================================================
