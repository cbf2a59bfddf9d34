-------------------------- MODULE VideoDevice_proofs --------------------------
(***************************************************************************)
(* Proofs about VideoDevice, for every set of threads.                     *)
(*                                                                         *)
(* Two facts hold whatever the application and the driver do: the types,   *)
(* and that a handle of the device is backed by its part in libvideo.  The *)
(* others are proved for careful use: the application asks for a grabber   *)
(* only when there is none, and v4l4j can describe the device and its      *)
(* controls.                                                               *)
(***************************************************************************)
EXTENDS VideoDevice, TLAPS

-----------------------------------------------------------------------------
(* The variables keep their types. *)
LEMMA TypeInit == Init => TypeOK
<1> SUFFICES ASSUME Init PROVE TypeOK
  OBVIOUS
<1>1. parts \subseteq Parts
  BY DEF Init, Parts
<1>2. loc \in [Threads -> Locations]
  BY DEF Init, Locations
<1>3. grabber \in BOOLEAN /\ controls \in BOOLEAN /\ open \in BOOLEAN
  BY Zenon DEF Init
<1>4. users \in Int /\ state \in {"INIT", "RELEASED"} /\ temp \in {"INIT", "RELEASED"}
  BY DEF Init
<1>5. waiting \subseteq Threads /\ monitor \in Threads \cup {None}
  BY Zenon DEF Init
<1> QED BY <1>1, <1>2, <1>3, <1>4, <1>5, Zenon DEF TypeOK

(* What the counting methods of State do to its own fields. *)
LEMMA PutUseTypes ==
  ASSUME TypeOK, PutUse
  PROVE  /\ users' \in Int /\ waiting' \subseteq Threads
         /\ state' = state /\ temp' = temp
  BY DEF TypeOK, PutUse

LEMMA TypeStep == TypeOK /\ [Next]_vars => TypeOK'
<1> SUFFICES ASSUME TypeOK, [Next]_vars PROVE TypeOK'
  OBVIOUS
<1> USE DEF TypeOK, Locations, Parts, Step, Goto, Enter, Leave, GetUse,
            monitorVars, objectVars, nativeVars
<1>1. ASSUME NEW t \in Threads, Call(t) PROVE TypeOK'
  <2>1. CASE GetGrabber(t)         BY <2>1 DEF GetGrabber
  <2>2. CASE GetSecondGrabber(t)   BY <2>2, PutUseTypes DEF GetSecondGrabber
  <2>3. CASE ReleaseGrabber(t)     BY <2>3 DEF ReleaseGrabber
  <2>4. CASE GetControls(t)        BY <2>4 DEF GetControls
  <2>5. CASE ControlCall(t)        BY <2>5 DEF ControlCall
  <2>6. CASE ReleaseControls(t)    BY <2>6 DEF ReleaseControls
  <2>7. CASE Release(t)            BY <2>7 DEF Release
  <2>8. CASE ReleaseInterrupted(t) BY <2>8 DEF ReleaseInterrupted
  <2> QED BY <1>1, <2>1, <2>2, <2>3, <2>4, <2>5, <2>6, <2>7, <2>8 DEF Call
<1>2. ASSUME NEW t \in Threads, CallStep(t) PROVE TypeOK'
  <2>1. CASE InitGrabber(t)
    <3>1. CASE parts' = parts \cup {"capture"} /\ grabber' = TRUE /\ UNCHANGED monitorVars
      BY <2>1, <3>1 DEF InitGrabber
    <3>2. CASE PutUse /\ UNCHANGED <<grabber, parts>>
      BY <2>1, <3>2, PutUseTypes DEF InitGrabber
    <3> QED BY <2>1, <3>1, <3>2, Zenon DEF InitGrabber
  <2>2. CASE GrabberReleased(t)    BY <2>2, PutUseTypes DEF GrabberReleased
  <2>3. CASE GrabberNotReleased(t) BY <2>3 DEF GrabberNotReleased
  <2>4. CASE InitControls(t)       BY <2>4 DEF InitControls
  <2>5. CASE ControlReturn(t)      BY <2>5 DEF ControlReturn
  <2>6. CASE ControlsReleased(t)   BY <2>6, PutUseTypes DEF ControlsReleased, FreeControls
  <2>7. CASE ReleaseWakes(t)       BY <2>7 DEF ReleaseWakes
  <2>8. CASE ReleaseParts(t)       BY <2>8 DEF ReleaseParts
  <2>9. CASE ReleaseClose(t)       BY <2>9 DEF ReleaseClose
  <2>10. CASE ReleaseCommit(t)     BY <2>10 DEF ReleaseCommit
  <2> QED BY <1>2, <2>1, <2>2, <2>3, <2>4, <2>5, <2>6, <2>7, <2>8, <2>9, <2>10 DEF CallStep
<1>3. CASE UNCHANGED vars
  BY <1>3 DEF vars
<1> QED BY <1>1, <1>2, <1>3 DEF Next

THEOREM TypeCorrect == Spec => []TypeOK
  BY TypeInit, TypeStep, PTL DEF Spec
-----------------------------------------------------------------------------
(* The inductive invariant.  Each part is a fact about where threads stand *)
(* that the code relies on without stating it.                             *)
Careful == Faults \cap {"controls", "describe"} = {} /\ AskTwice = FALSE

InMonitor == {"grabber_init", "grabber_release", "controls_init", "controls_release"}
Releasing == {"device_wait", "device_parts", "device_close", "device_commit"}

(* The object's monitor is owned by the one thread inside it. *)
Exclusive == \A t \in Threads : loc[t] \in InMonitor <=> monitor = t

(* A part is created only when there is none, and released or used only    *)
(* when there is one.                                                      *)
PartsInPlace ==
  \A t \in Threads :
    /\ loc[t] = "grabber_init" => ~grabber
    /\ loc[t] = "grabber_release" => grabber
    /\ loc[t] = "controls_init" => ~controls
    /\ loc[t] \in {"controls_release", "control_call"} => controls

(* The handles are backed in both directions.                              *)
Backed ==
  /\ grabber <=> "capture" \in parts
  /\ controls <=> "control" \in parts

(* The count, by cases on the two kinds of parts. *)
GrabberUses == IF grabber \/ (\E t \in Threads : loc[t] = "grabber_init") THEN 1 ELSE 0
ControlUses == IF controls \/ (\E t \in Threads : loc[t] = "controls_init") THEN 1 ELSE 0
Counted == users = GrabberUses + ControlUses

(* One thread at a time is past the test of release(), and nobody is after *)
(* the device was released.                                                *)
OneReleases ==
  /\ \A t, u \in Threads : loc[t] \in Releasing /\ loc[u] \in Releasing => t = u
  /\ \A t \in Threads : loc[t] \in Releasing => temp = "RELEASED" /\ state = "INIT"
  /\ state = "RELEASED" => temp = "RELEASED"
  /\ temp = "RELEASED" /\ state = "INIT" => \E t \in Threads : loc[t] \in Releasing
  /\ waiting \subseteq {t \in Threads : loc[t] = "device_wait"}

(* Beyond the wait nothing is in use any more, and at the end the device   *)
(* file is closed.                                                         *)
ClosedInOrder ==
  /\ \A t \in Threads : loc[t] \in Closing => users = 0
  /\ "info" \in parts => "tuners" \in parts
  /\ \A t \in Threads : loc[t] \in {"device_close", "device_commit"} => {"info", "tuners"} \cap parts = {}
  /\ state = "RELEASED" => users = 0
  /\ open <=> ~(state = "RELEASED" \/ \E t \in Threads : loc[t] = "device_commit")

Woken == waiting # {} => users # 0

IInv ==
  /\ TypeOK /\ Exclusive /\ PartsInPlace /\ Backed /\ Counted
  /\ OneReleases /\ ClosedInOrder /\ Woken

(* Who enters the monitor finds it free and leaves it free. *)
LEMMA ExclusiveStep ==
  ASSUME Careful, IInv, TypeOK', NEW t \in Threads, Call(t) \/ CallStep(t)
  PROVE  Exclusive'
<1> USE DEF IInv, TypeOK, Step, Goto, Enter, Leave, MayUse, GetUse, PutUse, monitorVars,
    objectVars, nativeVars, Exclusive, InMonitor
<1>1. CASE GetGrabber(t)
  BY <1>1, ThreadsAssumption DEF GetGrabber
<1>2. CASE ReleaseGrabber(t)
  BY <1>2, ThreadsAssumption DEF ReleaseGrabber
<1>3. CASE GetControls(t)
  BY <1>3, ThreadsAssumption DEF GetControls
<1>4. CASE ReleaseControls(t)
  BY <1>4, ThreadsAssumption DEF ReleaseControls
<1>5. CASE InitGrabber(t)
  BY <1>5, ThreadsAssumption DEF InitGrabber
<1>6. CASE GrabberReleased(t)
  BY <1>6, ThreadsAssumption DEF GrabberReleased
<1>7. CASE GrabberNotReleased(t)
  BY <1>7, ThreadsAssumption DEF GrabberNotReleased
<1>8. CASE InitControls(t)
  BY <1>8, ThreadsAssumption DEF Careful, InitControls
<1>9. CASE ControlsReleased(t)
  BY <1>9, ThreadsAssumption DEF ControlsReleased, FreeControls
<1>10. CASE GetSecondGrabber(t) \/ ControlCall(t) \/ Release(t) \/ ReleaseInterrupted(t)
          \/ ControlReturn(t) \/ ReleaseWakes(t)
  BY <1>10, ThreadsAssumption DEF Careful, GetSecondGrabber, ControlCall, Release,
          ReleaseInterrupted, ControlReturn, ReleaseWakes
<1>11. CASE ReleaseParts(t) \/ ReleaseClose(t) \/ ReleaseCommit(t)
  BY <1>11, ThreadsAssumption DEF ReleaseParts, ReleaseClose, ReleaseCommit
<1> QED BY <1>1, <1>2, <1>3, <1>4, <1>5, <1>6, <1>7, <1>8, <1>9, <1>10, <1>11 DEF Call,
          CallStep

(* Parts change only in the monitor, so what a call tested there stays true. *)
LEMMA PartsInPlaceStep ==
  ASSUME Careful, IInv, TypeOK', NEW t \in Threads, Call(t) \/ CallStep(t)
  PROVE  PartsInPlace'
<1> USE DEF IInv, TypeOK, Step, Goto, Enter, Leave, MayUse, GetUse, PutUse, monitorVars,
    objectVars, nativeVars, PartsInPlace, Exclusive, InMonitor
<1>1. CASE GetGrabber(t)
  BY <1>1 DEF GetGrabber
<1>2. CASE ReleaseGrabber(t)
  BY <1>2 DEF ReleaseGrabber
<1>3. CASE GetControls(t)
  BY <1>3 DEF GetControls
<1>4. CASE ControlCall(t)
  BY <1>4 DEF ControlCall
<1>5. CASE ReleaseControls(t)
  BY <1>5 DEF ReleaseControls
<1>6. CASE InitGrabber(t)
  BY <1>6 DEF InitGrabber
<1>7. CASE GrabberReleased(t)
  BY <1>7 DEF GrabberReleased
<1>8. CASE InitControls(t)
  BY <1>8 DEF Careful, InitControls
<1>9. CASE ControlsReleased(t)
  BY <1>9 DEF ControlsReleased, FreeControls
<1>10. CASE GetSecondGrabber(t) \/ Release(t) \/ ReleaseInterrupted(t) \/
          GrabberNotReleased(t) \/ ControlReturn(t) \/ ReleaseWakes(t)
  BY <1>10 DEF Careful, GetSecondGrabber, Release, ReleaseInterrupted,
          GrabberNotReleased, ControlReturn, ReleaseWakes
<1>11. CASE ReleaseParts(t) \/ ReleaseClose(t) \/ ReleaseCommit(t)
  BY <1>11 DEF ReleaseParts, ReleaseClose, ReleaseCommit
<1> QED BY <1>1, <1>2, <1>3, <1>4, <1>5, <1>6, <1>7, <1>8, <1>9, <1>10, <1>11 DEF Call,
          CallStep

(* A handle and its part come and go in one step. *)
LEMMA BackedStep ==
  ASSUME Careful, IInv, TypeOK', NEW t \in Threads, Call(t) \/ CallStep(t)
  PROVE  Backed'
<1> USE DEF IInv, TypeOK, Step, Goto, Enter, Leave, MayUse, GetUse, PutUse, monitorVars,
    objectVars, nativeVars, Backed
<1>1. CASE InitGrabber(t)
  BY <1>1 DEF InitGrabber
<1>2. CASE GrabberReleased(t)
  BY <1>2 DEF GrabberReleased
<1>3. CASE InitControls(t)
  BY <1>3 DEF Careful, InitControls
<1>4. CASE ControlsReleased(t)
  BY <1>4 DEF ControlsReleased, FreeControls
<1>5. CASE ReleaseParts(t)
  BY <1>5 DEF ReleaseParts
<1>6. CASE GetGrabber(t) \/ GetSecondGrabber(t) \/ ReleaseGrabber(t) \/ GetControls(t)
          \/ ControlCall(t) \/ ReleaseControls(t)
  BY <1>6 DEF Careful, GetGrabber, GetSecondGrabber, ReleaseGrabber, GetControls,
          ControlCall, ReleaseControls
<1>7. CASE Release(t) \/ ReleaseInterrupted(t) \/ GrabberNotReleased(t) \/
          ControlReturn(t) \/ ReleaseWakes(t) \/ ReleaseClose(t)
  BY <1>7 DEF Release, ReleaseInterrupted, GrabberNotReleased, ControlReturn,
          ReleaseWakes, ReleaseClose
<1>8. CASE ReleaseCommit(t)
  BY <1>8 DEF ReleaseCommit
<1> QED BY <1>1, <1>2, <1>3, <1>4, <1>5, <1>6, <1>7, <1>8 DEF Call, CallStep

(* Every part in the making or handed out is counted once. *)
LEMMA CountedStep ==
  ASSUME Careful, IInv, TypeOK', NEW t \in Threads, Call(t) \/ CallStep(t)
  PROVE  Counted'
<1> USE DEF IInv, TypeOK, Step, Goto, Enter, Leave, MayUse, GetUse, PutUse, monitorVars,
    objectVars, nativeVars, Counted, GrabberUses, ControlUses, PartsInPlace, Exclusive,
    InMonitor, ClosedInOrder
<1>1. CASE GetGrabber(t)
  BY <1>1, ThreadsAssumption DEF GetGrabber
<1>2. CASE GetSecondGrabber(t)
  BY <1>2, ThreadsAssumption DEF Careful, GetSecondGrabber
<1>3. CASE GetControls(t)
  BY <1>3, ThreadsAssumption DEF GetControls
<1>4. CASE InitGrabber(t)
  BY <1>4, ThreadsAssumption DEF InitGrabber
<1>5. CASE GrabberReleased(t)
  BY <1>5, ThreadsAssumption DEF GrabberReleased
<1>6. CASE InitControls(t)
  BY <1>6, ThreadsAssumption DEF Careful, InitControls
<1>7. CASE ControlsReleased(t)
  BY <1>7, ThreadsAssumption DEF ControlsReleased, FreeControls
<1>8. CASE ReleaseGrabber(t) \/ ControlCall(t) \/ ReleaseControls(t) \/ Release(t) \/
          ReleaseInterrupted(t) \/ GrabberNotReleased(t)
  BY <1>8, ThreadsAssumption DEF ReleaseGrabber, ControlCall, ReleaseControls, Release,
          ReleaseInterrupted, GrabberNotReleased
<1>9. CASE ControlReturn(t) \/ ReleaseWakes(t) \/ ReleaseParts(t) \/ ReleaseClose(t) \/
          ReleaseCommit(t)
  BY <1>9, ThreadsAssumption DEF ControlReturn, ReleaseWakes, ReleaseParts,
          ReleaseClose, ReleaseCommit
<1> QED BY <1>1, <1>2, <1>3, <1>4, <1>5, <1>6, <1>7, <1>8, <1>9 DEF Call, CallStep

(* When a release() gets to close_device() no part is left, so that it      *)
(* cannot fail.                                                             *)
LEMMA NothingLeft ==
  ASSUME IInv, NEW t \in Threads, loc[t] = "device_close"
  PROVE  parts = {}
<1>1. ~grabber /\ ~controls
  BY DEF IInv, ClosedInOrder, Closing, Counted, GrabberUses, ControlUses
<1>2. parts \cap {"info", "capture", "control", "tuners"} = {}
  BY <1>1 DEF IInv, ClosedInOrder, Backed
<1> QED BY <1>2 DEF IInv, TypeOK, Parts

(* Whoever is in release() is alone in it, and takes it to the end. *)
LEMMA OneReleasesStep ==
  ASSUME Careful, IInv, TypeOK', NEW t \in Threads, Call(t) \/ CallStep(t)
  PROVE  OneReleases'
<1> USE DEF IInv, TypeOK, Step, Goto, Enter, Leave, MayUse, GetUse, PutUse, monitorVars,
    objectVars, nativeVars, OneReleases, Releasing
<1>1. CASE Release(t)
  BY <1>1 DEF Release
<1>2. CASE ReleaseWakes(t)
  BY <1>2 DEF ReleaseWakes
<1>3. CASE ReleaseInterrupted(t)
  BY <1>3 DEF ReleaseInterrupted
<1>4. CASE ReleaseParts(t)
  BY <1>4 DEF ReleaseParts
<1>5. CASE ReleaseClose(t)
  BY <1>5, NothingLeft DEF ReleaseClose
<1>6. CASE ReleaseCommit(t)
  BY <1>6 DEF ReleaseCommit
<1>7. CASE GetGrabber(t) \/ GetSecondGrabber(t) \/ ReleaseGrabber(t) \/ GetControls(t)
          \/ ControlCall(t) \/ ReleaseControls(t)
  BY <1>7 DEF Careful, GetGrabber, GetSecondGrabber, ReleaseGrabber, GetControls,
          ControlCall, ReleaseControls
<1>8. CASE InitGrabber(t) \/ GrabberReleased(t) \/ GrabberNotReleased(t) \/
          InitControls(t) \/ ControlReturn(t) \/ ControlsReleased(t)
  BY <1>8 DEF Careful, InitGrabber, GrabberReleased, GrabberNotReleased, InitControls,
          ControlReturn, ControlsReleased, FreeControls
<1> QED BY <1>1, <1>2, <1>3, <1>4, <1>5, <1>6, <1>7, <1>8 DEF Call, CallStep

(* The device is closed after its last user left, and nobody comes back. *)
LEMMA ClosedInOrderStep ==
  ASSUME Careful, IInv, TypeOK', NEW t \in Threads, Call(t) \/ CallStep(t)
  PROVE  ClosedInOrder'
<1> USE DEF IInv, TypeOK, Step, Goto, Enter, Leave, MayUse, GetUse, PutUse, monitorVars,
    objectVars, nativeVars, ClosedInOrder, Closing, OneReleases, Releasing, Backed,
    Counted, GrabberUses, ControlUses, PartsInPlace, Parts
<1>1. CASE Release(t)
  BY <1>1 DEF Release
<1>2. CASE ReleaseWakes(t)
  BY <1>2 DEF ReleaseWakes
<1>3. CASE ReleaseParts(t)
  BY <1>3 DEF ReleaseParts
<1>4. CASE ReleaseClose(t)
  BY <1>4 DEF ReleaseClose
<1>5. CASE ReleaseCommit(t)
  BY <1>5 DEF ReleaseCommit
<1>6. CASE InitControls(t)
  BY <1>6 DEF Careful, InitControls
<1>7. CASE GetGrabber(t)
  BY <1>7 DEF GetGrabber
<1>8. CASE GetControls(t)
  BY <1>8 DEF GetControls
<1>9. CASE GrabberReleased(t)
  BY <1>9 DEF GrabberReleased
<1>10. CASE ControlsReleased(t)
  BY <1>10 DEF ControlsReleased, FreeControls
<1>11. CASE InitGrabber(t)
  BY <1>11 DEF InitGrabber
<1>12. CASE GetSecondGrabber(t) \/ ReleaseGrabber(t) \/ ControlCall(t) \/
          ReleaseControls(t) \/ ReleaseInterrupted(t) \/ GrabberNotReleased(t)
  BY <1>12 DEF Careful, GetSecondGrabber, ReleaseGrabber, ControlCall, ReleaseControls,
          ReleaseInterrupted, GrabberNotReleased
<1>13. CASE ControlReturn(t)
  BY <1>13 DEF ControlReturn
<1> QED BY <1>1, <1>2, <1>3, <1>4, <1>5, <1>6, <1>7, <1>8, <1>9, <1>10, <1>11, <1>12,
          <1>13 DEF Call, CallStep

(* The last user that leaves takes the waiting release() out of the wait set. *)
LEMMA WokenStep ==
  ASSUME Careful, IInv, TypeOK', NEW t \in Threads, Call(t) \/ CallStep(t)
  PROVE  Woken'
<1> USE DEF IInv, TypeOK, Step, Goto, Enter, Leave, MayUse, GetUse, PutUse, monitorVars,
    objectVars, nativeVars, Woken, OneReleases, Releasing
<1>1. CASE Release(t)
  BY <1>1 DEF Release
<1>2. CASE ReleaseWakes(t)
  BY <1>2 DEF ReleaseWakes
<1>3. CASE ReleaseInterrupted(t)
  BY <1>3 DEF ReleaseInterrupted
<1>4. CASE GrabberReleased(t)
  BY <1>4 DEF GrabberReleased
<1>5. CASE ControlsReleased(t)
  BY <1>5 DEF ControlsReleased, FreeControls
<1>6. CASE InitGrabber(t)
  BY <1>6 DEF InitGrabber
<1>7. CASE GetGrabber(t) \/ GetSecondGrabber(t) \/ ReleaseGrabber(t) \/ GetControls(t)
          \/ ControlCall(t) \/ ReleaseControls(t)
  BY <1>7 DEF Careful, GetGrabber, GetSecondGrabber, ReleaseGrabber, GetControls,
          ControlCall, ReleaseControls
<1>8. CASE GrabberNotReleased(t) \/ InitControls(t) \/ ControlReturn(t) \/
          ReleaseParts(t) \/ ReleaseClose(t) \/ ReleaseCommit(t)
  BY <1>8 DEF Careful, GrabberNotReleased, InitControls, ControlReturn, ReleaseParts,
          ReleaseClose, ReleaseCommit
<1> QED BY <1>1, <1>2, <1>3, <1>4, <1>5, <1>6, <1>7, <1>8 DEF Call, CallStep

LEMMA InvInit == ASSUME Careful PROVE Init => IInv
<1> SUFFICES ASSUME Init PROVE IInv
  OBVIOUS
<1>1. TypeOK
  BY TypeInit
<1>2. Exclusive /\ PartsInPlace
  BY ThreadsAssumption DEF Init, Exclusive, PartsInPlace, InMonitor
<1>3. Backed
  BY DEF Init, Backed
<1>4. Counted
  BY DEF Init, Counted, GrabberUses, ControlUses
<1>5. OneReleases /\ Woken
  BY DEF Init, OneReleases, Woken, Releasing
<1>6. ClosedInOrder
  BY DEF Init, ClosedInOrder, Closing, Careful
<1> QED BY <1>1, <1>2, <1>3, <1>4, <1>5, <1>6 DEF IInv

LEMMA InvStep ==
  ASSUME Careful, IInv, [Next]_vars
  PROVE  IInv'
<1>1. TypeOK'
  BY TypeStep DEF IInv
<1>2. ASSUME NEW t \in Threads, Call(t) \/ CallStep(t) PROVE IInv'
  BY <1>1, <1>2, ExclusiveStep, PartsInPlaceStep, BackedStep, CountedStep,
     OneReleasesStep, ClosedInOrderStep, WokenStep DEF IInv
<1>3. CASE UNCHANGED vars
  BY <1>3 DEF vars, monitorVars, objectVars, nativeVars, IInv, TypeOK, Exclusive, PartsInPlace,
     Backed, Counted, GrabberUses, ControlUses, OneReleases, ClosedInOrder, Woken
<1> QED BY <1>2, <1>3 DEF Next

LEMMA Invariance == ASSUME Careful PROVE Spec => []IInv
<1>1. IInv /\ [Next]_vars => IInv'
  BY InvStep
<1> QED BY <1>1, InvInit, PTL DEF Spec

-----------------------------------------------------------------------------
(* State.users counts the parts handed out or in the making, whatever      *)
(* fails on the way and however the methods overlap with a release().      *)
THEOREM UsesAreCounted == ASSUME Careful PROVE Spec => []UsesCounted
<1>1. IInv => UsesCounted
  BY DEF IInv, Counted, GrabberUses, ControlUses, UsesCounted, One
<1> QED BY <1>1, Invariance, PTL

(* release() frees the device only when no grabber, no control list and no *)
(* call on a control is left.                                              *)
THEOREM ReleaseWaitsForUsers == ASSUME Careful PROVE Spec => []ReleaseWaits
<1>1. ASSUME IInv PROVE ReleaseWaits
  <2> SUFFICES ASSUME NEW t \in Threads, loc[t] \in Closing
               PROVE  /\ ~grabber /\ ~controls
                      /\ \A u \in Threads : loc[u] \notin {"grabber_init", "controls_init", "control_call"}
    BY DEF ReleaseWaits
  <2>1. users = 0
    BY <1>1 DEF IInv, ClosedInOrder
  <2>2. GrabberUses = 0 /\ ControlUses = 0
    BY <1>1, <2>1 DEF IInv, Counted, GrabberUses, ControlUses
  <2> QED BY <1>1, <2>2 DEF IInv, GrabberUses, ControlUses, PartsInPlace
<1> QED BY <1>1, Invariance, PTL

(* A waiting release() never sleeps once the last user has left.           *)
THEOREM WaitersAreWoken == ASSUME Careful PROVE Spec => []NoLostWakeup
<1>1. IInv => NoLostWakeup
  BY DEF IInv, Woken, NoLostWakeup
<1> QED BY <1>1, Invariance, PTL

(* No native call is made on a part or a device that is gone.              *)
THEOREM NativeCallsAreSafe == ASSUME Careful PROVE Spec => []NativeCallsSafe
<1>1. ASSUME IInv PROVE NativeCallsSafe
  <2> SUFFICES ASSUME NEW t \in Threads,
                      loc[t] \in {"control_call", "grabber_init", "controls_init", "grabber_release"}
               PROVE  /\ open
                      /\ loc[t] = "control_call" => "control" \in parts
                      /\ loc[t] = "grabber_release" => "capture" \in parts
    BY DEF NativeCallsSafe
  <2>1. users # 0
    BY <1>1 DEF IInv, Counted, GrabberUses, ControlUses, PartsInPlace
  <2>2. open
    BY <1>1, <2>1 DEF IInv, ClosedInOrder, Closing
  <2> QED BY <1>1, <2>2 DEF IInv, PartsInPlace, Backed
<1> QED BY <1>1, Invariance, PTL

(* A release() of the device that is over has either closed it for good or *)
(* left it as it was, also when it was interrupted.                        *)
THEOREM ReleaseIsAllOrNothing == ASSUME Careful PROVE Spec => []ReleaseAllOrNothing
<1>1. IInv => ReleaseAllOrNothing
  BY DEF IInv, TypeOK, OneReleases, ClosedInOrder, Releasing, Closing, ReleaseAllOrNothing
<1> QED BY <1>1, Invariance, PTL

(* The handles are backed by libvideo's parts even for an application and  *)
(* a driver that are not careful.                                          *)
THEOREM HandlesAreBacked == Spec => []HandlesBacked
<1>1. Init => HandlesBacked
  BY DEF Init, HandlesBacked
<1>2. ASSUME HandlesBacked, [Next]_vars PROVE HandlesBacked'
  <2> USE <1>2 DEF HandlesBacked, Step, Enter, Leave, objectVars, nativeVars
  <2>1. ASSUME NEW t \in Threads, Call(t) PROVE HandlesBacked'
    BY <2>1 DEF Call, GetGrabber, GetSecondGrabber, ReleaseGrabber, GetControls, ControlCall,
                ReleaseControls, Release, ReleaseInterrupted
  <2>2. ASSUME NEW t \in Threads, InitGrabber(t) \/ GrabberReleased(t) \/ GrabberNotReleased(t)
        PROVE HandlesBacked'
    BY <2>2 DEF InitGrabber, GrabberReleased, GrabberNotReleased
  <2>3. ASSUME NEW t \in Threads, InitControls(t) \/ ControlReturn(t) \/ ControlsReleased(t)
        PROVE HandlesBacked'
    BY <2>3 DEF InitControls, ControlReturn, ControlsReleased, FreeControls
  <2>4. ASSUME NEW t \in Threads, ReleaseWakes(t) \/ ReleaseParts(t) \/ ReleaseClose(t) \/ ReleaseCommit(t)
        PROVE HandlesBacked'
    BY <2>4 DEF ReleaseWakes, ReleaseParts, ReleaseClose, ReleaseCommit
  <2>5. CASE UNCHANGED vars
    BY <2>5 DEF vars
  <2> QED BY <2>1, <2>2, <2>3, <2>4, <2>5 DEF Next, CallStep
<1> QED BY <1>1, <1>2, PTL DEF Spec
===============================================================================
