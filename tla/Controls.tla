-------------------------------- MODULE Controls --------------------------------
(***************************************************************************)
(* VideoDevice with the Controls of its control list in place of the       *)
(* placeholder ControlCall: every Control has a State monitor of its own   *)
(* that counts the calls in progress, and ControlList.release() marks one  *)
(* control after the other and waits for the calls on it.                  *)
(*                                                                         *)
(* A thread with loc[t] = "control_call" or "controls_release" is in the   *)
(* detailed location at[t].  Values are left out: what counts here is      *)
(* whether a native call on a control succeeds, and how often a call puts  *)
(* back its use of the control on its way out.                             *)
(***************************************************************************)
EXTENDS VideoDevice

CONSTANTS
  Sliders,     (* controls with an int value: sliders, switches, menus, masks *)
  Buttons,     (* controls of type CTRL_TYPE_BUTTON                        *)
  Texts,       (* controls of type CTRL_TYPE_STRING and CTRL_TYPE_LONG     *)
  CallFaults   (* "get", "set", "increase": what a getValue(), setValue(),  *)
               (* increaseValue() may fail to do; "interrupt": a release    *)
               (* that waits for a control may be interrupted               *)

Ctls == Sliders \cup Buttons \cup Texts

ASSUME ControlsAssumption == IsFiniteSet(Threads) /\ None \notin Ctls
ASSUME KindsAssumption ==
  Sliders \cap Buttons = {} /\ Sliders \cap Texts = {} /\ Buttons \cap Texts = {}
ASSUME CallFaultsAssumption == CallFaults \subseteq {"get", "set", "increase", "interrupt"}

VARIABLES
  ctlTemp,      (* Control.State.temp; State.state never changes, as nobody  *)
                (* calls commit().  RELEASED, too, before there is a list.   *)
  ctlUsers,     (* Control.State.users                                       *)
  ctlWaiting,   (* threads in the wait set of the State of their control     *)
  at,           (* where a thread stands in the call on a control            *)
  ctl,          (* the control a thread calls, or waits for                  *)
  puts,         (* put()s a thread makes before its call ends                *)
  todo          (* controls release() has not come to yet                    *)

controlVars == <<ctlTemp, ctlUsers, ctlWaiting, at, ctl, puts, todo>>
allVars == <<vars, controlVars>>

NativeCalls == {"get", "set", "set_get", "increase_get", "increase_set",
                "decrease_get", "decrease_set", "text_set", "text_get"}
Stations == {"none", "set_nested", "put", "release", "release_wait"} \cup NativeCalls

ControlsInit ==
  /\ Init
  /\ ctlTemp = [c \in Ctls |-> "RELEASED"]
  /\ ctlUsers = [c \in Ctls |-> 0]
  /\ ctlWaiting = {}
  /\ at = [t \in Threads |-> "none"]
  /\ ctl = [t \in Threads |-> None]
  /\ puts = [t \in Threads |-> 0]
  /\ todo = {}

Move(t, here, there) == at[t] = here /\ at' = [at EXCEPT ![t] = there]

(* The call is over but for n times put(): the ones in a finally clause,   *)
(* and one more before it on some paths.                                   *)
Finish(t, here, n) ==
  /\ Move(t, here, "put")
  /\ puts' = [puts EXCEPT ![t] = n]

-----------------------------------------------------------------------------
(* Mutant: a control that is being released still takes calls. *)
MayGetStateOnly(c) == TRUE

(* Control.State.get(): refused once the control is being released. *)
MayGet(c) == ctlTemp[c] = "INIT"
Get(c) == ctlUsers' = [ctlUsers EXCEPT ![c] = @ + 1]

(* A call on control c begins: a use is taken, and n put()s are due at     *)
(* once if there is nothing else to do.                                    *)
Begin(t, c, there, n) ==
  /\ ControlCall(t)
  /\ MayGet(c) /\ ctlUsers[c] > -MaxUses /\ Get(c)
  /\ at' = [at EXCEPT ![t] = there]
  /\ ctl' = [ctl EXCEPT ![t] = c]
  /\ puts' = [puts EXCEPT ![t] = n]
  /\ UNCHANGED <<ctlTemp, ctlWaiting, todo>>

(* getValue(): the value of a button is 0, and is not read. *)
GetValue(t, c) ==
  \/ c \in Buttons /\ Begin(t, c, "put", 2)
  \/ c \in Sliders /\ Begin(t, c, "get", 0)

(* setValue(): validateValue() may refuse the value. *)
SetValue(t, c) ==
  \/ c \in Sliders \cup Buttons /\ Begin(t, c, "set", 0)
  \/ c \in Sliders /\ Begin(t, c, "put", 1)

(* getDiscreteValues(), getDiscreteValueNames(), getDiscreteValuesMap() *)
GetDiscreteValues(t, c) == c \in Sliders /\ Begin(t, c, "put", 1)

IncreaseValue(t, c) == c \in Sliders \cup Buttons /\ Begin(t, c, "increase_get", 0)
DecreaseValue(t, c) == c \in Sliders \cup Buttons /\ Begin(t, c, "decrease_get", 0)

(* getStringValue(), getLongValue() and setStringValue(), setLongValue() *)
GetText(t, c) == c \in Texts /\ Begin(t, c, "text_get", 0)
SetText(t, c) == c \in Texts /\ Begin(t, c, "text_set", 0)

-----------------------------------------------------------------------------
(* The native calls.  Where a ControlException is caught only to be thrown *)
(* again, put() is called in the catch clause and in the finally clause.   *)
(* Other exceptions, such as the InvalidValueException of doSetValue(),    *)
(* only meet the finally clause.                                           *)
Native(t) ==
  /\ \/ Finish(t, "get", 1)
     \/ "get" \in CallFaults /\ Finish(t, "get", 2)
     \/ Move(t, "set", "set_nested") /\ UNCHANGED puts
     \/ Finish(t, "set", 1)
     \/ "set" \in CallFaults /\ Finish(t, "set", 2)
     \/ Finish(t, "set_get", 2)
     \/ "get" \in CallFaults /\ Finish(t, "set_get", 3)
     \/ Move(t, "increase_get", "increase_set") /\ UNCHANGED puts
     \/ Finish(t, "increase_set", 1)
     \/ "increase" \in CallFaults /\ Finish(t, "increase_set", 2)
     \/ Move(t, "decrease_get", "decrease_set") /\ UNCHANGED puts
     \/ Finish(t, "decrease_set", 1)
     \/ Move(t, "text_set", "text_get") /\ UNCHANGED puts
     \/ Finish(t, "text_set", 1)
     \/ Finish(t, "text_get", 1)
  /\ UNCHANGED <<vars, ctlTemp, ctlUsers, ctlWaiting, ctl, todo>>

(* Mutant: the value is read back under the use of setValue() alone. *)
SetNestedUncounted(t) ==
  /\ Move(t, "set_nested", "set_get")
  /\ UNCHANGED <<vars, ctlTemp, ctlUsers, ctlWaiting, ctl, puts, todo>>

(* setValue() ends with getValue(), which takes a use of its own; a        *)
(* release() that came first makes it throw a StateException.              *)
SetNested(t) ==
  /\ at[t] = "set_nested"
  /\ \/ /\ MayGet(ctl[t]) /\ Get(ctl[t])
        /\ \/ ctl[t] \in Buttons /\ Finish(t, "set_nested", 3)
           \/ ctl[t] \in Sliders /\ Move(t, "set_nested", "set_get") /\ UNCHANGED puts
     \/ ~MayGet(ctl[t]) /\ Finish(t, "set_nested", 1) /\ UNCHANGED ctlUsers
  /\ UNCHANGED <<vars, ctlTemp, ctlWaiting, ctl, todo>>

(* Mutant: the last call tells nobody. *)
PutSilent(t) ==
  /\ at[t] = "put"
  /\ ctlUsers' = [ctlUsers EXCEPT ![ctl[t]] = @ - 1]
  /\ puts' = [puts EXCEPT ![t] = @ - 1]
  /\ IF puts[t] > 1
       THEN UNCHANGED <<vars, at, ctl>>
       ELSE /\ ControlReturn(t)
            /\ at' = [at EXCEPT ![t] = "none"]
            /\ ctl' = [ctl EXCEPT ![t] = None]
  /\ UNCHANGED <<ctlTemp, ctlWaiting, todo>>

(* Control.State.put(); after the last one the call returns. *)
Put(t) ==
  /\ at[t] = "put"
  /\ LET c == ctl[t]
         sleepers == {u \in ctlWaiting : ctl[u] = c}
     IN  /\ ctlUsers' = [ctlUsers EXCEPT ![c] = @ - 1]
         /\ IF ctlUsers[c] = 1 /\ ctlTemp[c] = "RELEASED" /\ sleepers # {}
              THEN \E w \in sleepers : ctlWaiting' = ctlWaiting \ {w}
              ELSE UNCHANGED ctlWaiting
  /\ puts' = [puts EXCEPT ![t] = @ - 1]
  /\ IF puts[t] > 1
       THEN UNCHANGED <<vars, at, ctl>>
       ELSE /\ ControlReturn(t)
            /\ at' = [at EXCEPT ![t] = "none"]
            /\ ctl' = [ctl EXCEPT ![t] = None]
  /\ UNCHANGED <<ctlTemp, todo>>

-----------------------------------------------------------------------------
(* getControlList() builds new Control objects.  A thread that is still in *)
(* a call on an old one is not followed into the next list.                *)
NewControls(t) ==
  /\ InitControls(t)
  /\ \A u \in Threads : ctl[u] = None
  /\ IF controls' THEN ctlTemp' = [c \in Ctls |-> "INIT"] /\ ctlUsers' = [c \in Ctls |-> 0]
                  ELSE UNCHANGED <<ctlTemp, ctlUsers>>
  /\ UNCHANGED <<ctlWaiting, at, ctl, puts, todo>>

(* Mutant: one control of the list is forgotten. *)
ReleaseListShort(t) ==
  /\ ReleaseControls(t)
  /\ at' = [at EXCEPT ![t] = "release"]
  /\ todo' \in {Ctls \ {c} : c \in Ctls}
  /\ UNCHANGED <<ctlTemp, ctlUsers, ctlWaiting, ctl, puts>>

ReleaseList(t) ==
  /\ ReleaseControls(t)
  /\ at' = [at EXCEPT ![t] = "release"]
  /\ todo' = Ctls
  /\ UNCHANGED <<ctlTemp, ctlUsers, ctlWaiting, ctl, puts>>

(* Mutant: a control is released under the calls in progress. *)
ReleaseControlAtOnce(t) ==
  /\ at[t] = "release"
  /\ \E c \in todo : todo' = todo \ {c} /\ ctlTemp' = [ctlTemp EXCEPT ![c] = "RELEASED"]
  /\ UNCHANGED <<vars, ctlUsers, ctlWaiting, at, ctl, puts>>

(* Mutant: a control nobody uses is not marked. *)
ReleaseControlUnmarked(t) ==
  /\ at[t] = "release"
  /\ \E c \in todo :
       /\ todo' = todo \ {c}
       /\ IF MayGet(c) /\ ctlUsers[c] # 0
            THEN /\ ctlTemp' = [ctlTemp EXCEPT ![c] = "RELEASED"]
                 /\ at' = [at EXCEPT ![t] = "release_wait"]
                 /\ ctl' = [ctl EXCEPT ![t] = c]
                 /\ ctlWaiting' = ctlWaiting \cup {t}
            ELSE UNCHANGED <<ctlTemp, at, ctl, ctlWaiting>>
  /\ UNCHANGED <<vars, ctlUsers, puts>>

(* Control.State.release() of the next control, in the order of a HashMap. *)
(* A control that was released before is passed over.                      *)
ReleaseControl(t) ==
  /\ at[t] = "release"
  /\ \E c \in todo :
       /\ todo' = todo \ {c}
       /\ ctlTemp' = [ctlTemp EXCEPT ![c] = "RELEASED"]
       /\ IF MayGet(c) /\ ctlUsers[c] # 0
            THEN /\ at' = [at EXCEPT ![t] = "release_wait"]
                 /\ ctl' = [ctl EXCEPT ![t] = c]
                 /\ ctlWaiting' = ctlWaiting \cup {t}
            ELSE UNCHANGED <<at, ctl, ctlWaiting>>
  /\ UNCHANGED <<vars, ctlUsers, puts>>

ControlWakes(t) ==
  /\ at[t] = "release_wait" /\ t \notin ctlWaiting
  /\ IF ctlUsers[ctl[t]] = 0
       THEN /\ at' = [at EXCEPT ![t] = "release"]
            /\ ctl' = [ctl EXCEPT ![t] = None]
            /\ UNCHANGED ctlWaiting
       ELSE ctlWaiting' = ctlWaiting \cup {t} /\ UNCHANGED <<at, ctl>>
  /\ UNCHANGED <<vars, ctlTemp, ctlUsers, puts, todo>>

(* An interrupt ends releaseControlList() with an exception; the controls  *)
(* it had come to stay released, and the list stays with the device.       *)
ControlInterrupted(t) ==
  /\ "interrupt" \in CallFaults
  /\ at[t] = "release_wait" /\ t \in ctlWaiting
  /\ Goto(t, "idle") /\ Leave
  /\ at' = [at EXCEPT ![t] = "none"]
  /\ ctl' = [ctl EXCEPT ![t] = None]
  /\ ctlWaiting' = ctlWaiting \ {t}
  /\ todo' = {}
  /\ UNCHANGED <<monitorVars, grabber, controls, nativeVars, ctlTemp, ctlUsers, puts>>

ListReleased(t) ==
  /\ Move(t, "release", "none") /\ todo = {}
  /\ FreeControls(t)
  /\ UNCHANGED <<ctlTemp, ctlUsers, ctlWaiting, ctl, puts, todo>>

-----------------------------------------------------------------------------
(* What VideoDevice does without touching a control. *)
OtherCall(t) ==
  /\ GetGrabber(t) \/ GetSecondGrabber(t) \/ ReleaseGrabber(t) \/ GetControls(t)
       \/ Release(t) \/ ReleaseInterrupted(t)
  /\ UNCHANGED controlVars

OtherStep(t) ==
  /\ InitGrabber(t) \/ GrabberReleased(t) \/ GrabberNotReleased(t)
       \/ ReleaseWakes(t) \/ ReleaseParts(t) \/ ReleaseClose(t) \/ ReleaseCommit(t)
  /\ UNCHANGED controlVars

CallControl(t) ==
  \/ ReleaseList(t) \/ ControlInterrupted(t)
  \/ \E c \in Ctls :
       \/ GetValue(t, c) \/ SetValue(t, c) \/ GetDiscreteValues(t, c)
       \/ IncreaseValue(t, c) \/ DecreaseValue(t, c) \/ GetText(t, c) \/ SetText(t, c)

ControlStep(t) ==
  \/ Native(t) \/ SetNested(t) \/ Put(t)
  \/ NewControls(t) \/ ReleaseControl(t) \/ ControlWakes(t) \/ ListReleased(t)

ControlsNext == \E t \in Threads : OtherCall(t) \/ OtherStep(t) \/ CallControl(t) \/ ControlStep(t)

ControlsSpec == ControlsInit /\ [][ControlsNext]_allVars

(* Every call keeps going, those on controls included; otherwise what      *)
(* VideoDevice asks of the application.                                    *)
ControlsFairness ==
  /\ \A t \in Threads :
       /\ WF_allVars(OtherStep(t) \/ ControlStep(t))
       /\ SF_allVars(GrabberReleased(t) /\ UNCHANGED controlVars)
  /\ SF_allVars(\E t \in Threads : ReleaseGrabber(t) /\ UNCHANGED controlVars)
  /\ SF_allVars(\E t \in Threads : ReleaseList(t))

ControlsLiveSpec == ControlsSpec /\ ControlsFairness

-----------------------------------------------------------------------------
ControlsTypeOK ==
  /\ TypeOK
  /\ ctlTemp \in [Ctls -> {"INIT", "RELEASED"}]
  /\ ctlUsers \in [Ctls -> Int]
  /\ ctlWaiting \subseteq Threads
  /\ at \in [Threads -> Stations]
  /\ ctl \in [Threads -> Ctls \cup {None}]
  /\ puts \in [Threads -> 0 .. 3]
  /\ todo \subseteq Ctls

(* The uses thread t has taken and not put back. *)
Uses(t) ==
  CASE at[t] \in {"none", "release", "release_wait"} -> 0
    [] at[t] = "put" -> puts[t]
    [] at[t] = "set_get" -> 2
    [] OTHER -> 1

UsesOn(c) == [t \in Threads |-> IF ctl[t] = c THEN Uses(t) ELSE 0]

(* The sum of the uses f: the n-th use of thread t is the pair <<t, n>>. *)
Total(f) == Cardinality({u \in Threads \X (1 .. 3) : u[2] <= f[u[1]]})

(* The count of a control is the number of uses its callers have, however  *)
(* their calls end and although setValue() takes two.                      *)
ControlUsesCounted == \A c \in Ctls : ctlUsers[c] = Total(UsesOn(c))

(* A thread that waits for the calls on a control does so while there is   *)
(* one: nobody sleeps through the put() of the last, which is the only one *)
(* to notify.                                                              *)
ControlWaitersWoken ==
  \A t \in ctlWaiting : \E u \in Threads \ {t} : ctl[u] = ctl[t]

(* A control accepts calls only while libvideo has the control part, also  *)
(* when a release was interrupted half way, or a list could not be made.   *)
ControlsBacked == \A c \in Ctls : ctlTemp[c] = "INIT" => controls /\ "control" \in parts

(* "This method must be called when the list of Controls is no longer      *)
(* used, so low-level resources can be freed": a releaseControlList()      *)
(* frees them.  Not so once a button was pressed: see README, section 4.   *)
ControlsFreed == \A t \in Threads : loc[t] = "controls_release" ~> "control" \notin parts

(* The placeholder of VideoDevice is a sound abstraction: with the use     *)
(* counts of the controls in its place, the list is still released only    *)
(* when no call on a control is in progress, and is released in the end.   *)
ImplementsDevice == LiveSpec
===============================================================================
