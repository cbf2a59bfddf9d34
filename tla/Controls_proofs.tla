---------------------------- MODULE Controls_proofs ----------------------------
(***************************************************************************)
(* Proofs about Controls, for every finite set of threads and every set of *)
(* controls without buttons, on which all native calls succeed: there the  *)
(* use counts are exact, and the module implements VideoDevice.            *)
(***************************************************************************)
EXTENDS Controls, VideoDevice_proofs, FiniteSetTheorems

-----------------------------------------------------------------------------
(* Sums of uses. *)
Pairs(f) == {u \in Threads \X (1 .. 3) : u[2] <= f[u[1]]}

LEMMA PairsFinite == ASSUME NEW f PROVE IsFiniteSet(Pairs(f))
<1>1. IsFiniteSet(Threads \X (1 .. 3))
  <2>1. IsFiniteSet(1 .. 3)
    <3>1. 1 \in Int /\ 3 \in Int
      OBVIOUS
    <3> QED BY <3>1, FS_Interval, Zenon
  <2> QED BY <2>1, FS_Product, ControlsAssumption, Zenon
<1>2. Pairs(f) \in SUBSET (Threads \X (1 .. 3))
  BY DEF Pairs
<1> QED BY <1>1, <1>2, FS_Subset

LEMMA TotalNat == ASSUME NEW f PROVE Total(f) \in Nat
  BY PairsFinite, FS_CardinalityType DEF Total, Pairs

(* One use more, or one less. *)
LEMMA TotalMore ==
  ASSUME NEW f \in [Threads -> 0 .. 3], NEW t \in Threads, f[t] # 3
  PROVE  Total([f EXCEPT ![t] = @ + 1]) = Total(f) + 1
<1> DEFINE g == [f EXCEPT ![t] = @ + 1]
           p == <<t, f[t] + 1>>
<1>1. Pairs(g) = Pairs(f) \cup {p}
  BY DEF Pairs
<1>2. p \notin Pairs(f)
  BY DEF Pairs
<1>3. Cardinality(Pairs(f) \cup {p}) = Cardinality(Pairs(f)) + 1
  <2> HIDE DEF p
  <2> QED BY <1>2, PairsFinite, FS_AddElement
<1> QED BY <1>1, <1>3 DEF Total, Pairs

LEMMA TotalLess ==
  ASSUME NEW f \in [Threads -> 0 .. 3], NEW t \in Threads, f[t] # 0
  PROVE  Total([f EXCEPT ![t] = @ - 1]) = Total(f) - 1
<1> DEFINE g == [f EXCEPT ![t] = @ - 1]
           p == <<t, f[t]>>
<1>1. Pairs(g) = Pairs(f) \ {p}
  BY DEF Pairs
<1>2. p \in Pairs(f)
  BY DEF Pairs
<1>3. Cardinality(Pairs(f) \ {p}) = Cardinality(Pairs(f)) - 1
  <2> HIDE DEF p
  <2> QED BY <1>2, PairsFinite, FS_RemoveElement
<1> QED BY <1>1, <1>3 DEF Total, Pairs

(* The sum is zero exactly when nobody has a use. *)
LEMMA TotalZero ==
  ASSUME NEW f \in [Threads -> 0 .. 3]
  PROVE  Total(f) = 0 <=> \A t \in Threads : f[t] = 0
<1>1. Total(f) = 0 <=> Pairs(f) = {}
  BY PairsFinite, FS_EmptySet DEF Total, Pairs
<1>2. ASSUME Pairs(f) = {}, NEW t \in Threads PROVE f[t] = 0
  <2>1. <<t, 1>> \notin Pairs(f)
    BY <1>2
  <2> QED BY <2>1 DEF Pairs
<1>3. ASSUME \A t \in Threads : f[t] = 0 PROVE Pairs(f) = {}
  BY <1>3 DEF Pairs
<1> QED BY <1>1, <1>2, <1>3

-----------------------------------------------------------------------------
(* The inductive invariant. *)
CarefulCalls == Careful /\ Buttons = {} /\ CallFaults = {}

InControl == NativeCalls \cup {"set_nested", "put"}

(* The detailed locations agree with the ones of VideoDevice. *)
Stationed ==
  \A t \in Threads :
    /\ loc[t] = "control_call" <=> at[t] \in InControl
    /\ loc[t] = "controls_release" <=> at[t] \in {"release", "release_wait"}
    /\ ctl[t] # None <=> at[t] \in InControl \cup {"release_wait"}
    /\ at[t] = "put" => puts[t] # 0

(* A release() has marked and emptied the controls it has come to, except  *)
(* that the one it waits for may have uses left, and no others.            *)
ReleasedSoFar ==
  \A t \in Threads : at[t] \in {"release", "release_wait"} =>
    /\ ctl[t] \notin todo
    /\ \A c \in todo : ctlTemp[c] = "INIT"
    /\ \A c \in Ctls \ todo : ctlTemp[c] = "RELEASED" /\ (ctlUsers[c] = 0 \/ ctl[t] = c)

SleepersAwaited ==
  \A t \in ctlWaiting : at[t] = "release_wait" /\ ctlUsers[ctl[t]] # 0

(* The controls take calls from the time there is a list until a release.  *)
Accepting ==
  /\ \A c \in Ctls : ctlTemp[c] = "INIT" => controls
  /\ controls /\ (\A t \in Threads : loc[t] # "controls_release") => \A c \in Ctls : ctlTemp[c] = "INIT"

CInv ==
  /\ IInv /\ ControlsTypeOK /\ Stationed /\ ControlUsesCounted
  /\ ReleasedSoFar /\ SleepersAwaited /\ Accepting

LEMMA UsesType == ASSUME ControlsTypeOK, NEW c \in Ctls PROVE UsesOn(c) \in [Threads -> 0 .. 3]
  BY DEF ControlsTypeOK, UsesOn, Uses

(* A thread that is in a call on a control is counted there. *)
LEMMA CallersCounted ==
  ASSUME CInv, NEW t \in Threads, at[t] \in InControl
  PROVE  ctl[t] \in Ctls /\ ctlUsers[ctl[t]] # 0
<1>1. ctl[t] \in Ctls
  BY DEF CInv, Stationed, ControlsTypeOK
<1>2. UsesOn(ctl[t])[t] # 0
  BY DEF CInv, Stationed, UsesOn, Uses, InControl, NativeCalls
<1>3. UsesOn(ctl[t]) \in [Threads -> 0 .. 3]
  BY <1>1, UsesType DEF CInv
<1> QED BY <1>1, <1>2, <1>3, TotalZero DEF CInv, ControlUsesCounted

-----------------------------------------------------------------------------
(* Every step of Controls is a step of VideoDevice, or none. *)
LEMMA ListReleasedRefines ==
  ASSUME CInv, NEW t \in Threads, ListReleased(t)
  PROVE  ControlsReleased(t)
<1>1. \A c \in Ctls : ctlUsers[c] = 0
  BY ControlsAssumption
     DEF CInv, ListReleased, Move, ReleasedSoFar, Stationed, InControl, NativeCalls, ControlsTypeOK
<1>2. \A u \in Threads : loc[u] # "control_call"
  BY <1>1, CallersCounted DEF CInv, Stationed
<1> QED BY <1>2 DEF ListReleased, ControlsReleased

LEMMA StepRefines ==
  ASSUME CarefulCalls, CInv, NEW t \in Threads,
         OtherCall(t) \/ OtherStep(t) \/ CallControl(t) \/ ControlStep(t)
  PROVE  Call(t) \/ CallStep(t) \/ UNCHANGED vars
<1>1. CASE OtherCall(t)
  BY <1>1 DEF OtherCall, Call
<1>2. CASE OtherStep(t)
  BY <1>2 DEF OtherStep, CallStep
<1>3. CASE CallControl(t)
  <2>1. CASE ReleaseList(t)
    BY <2>1 DEF ReleaseList, Call
  <2>2. ASSUME NEW c \in Ctls,
               GetValue(t, c) \/ SetValue(t, c) \/ GetDiscreteValues(t, c)
                 \/ IncreaseValue(t, c) \/ DecreaseValue(t, c) \/ GetText(t, c) \/ SetText(t, c)
        PROVE  ControlCall(t)
    BY <2>2 DEF GetValue, SetValue, GetDiscreteValues, IncreaseValue, DecreaseValue,
                GetText, SetText, Begin
  <2> QED BY <1>3, <2>1, <2>2 DEF CallControl, ControlInterrupted, CarefulCalls, Call
<1>4. CASE ControlStep(t)
  <2>1. CASE Put(t)
    BY <2>1 DEF Put, CallStep
  <2>2. CASE NewControls(t)
    BY <2>2 DEF NewControls, CallStep
  <2>3. CASE ListReleased(t)
    BY <2>3, ListReleasedRefines DEF CallStep
  <2>4. CASE Native(t) \/ SetNested(t) \/ ReleaseControl(t) \/ ControlWakes(t)
    BY <2>4 DEF Native, SetNested, ReleaseControl, ControlWakes
  <2> QED BY <1>4, <2>1, <2>2, <2>3, <2>4 DEF ControlStep
<1> QED BY <1>1, <1>2, <1>3, <1>4

LEMMA NextRefines ==
  ASSUME CarefulCalls, CInv, [ControlsNext]_allVars
  PROVE  [Next]_vars
  BY StepRefines DEF ControlsNext, Next, allVars

-----------------------------------------------------------------------------
(* What VideoDevice does without a control leaves the calls on controls,   *)
(* the releases of the list and the list itself alone.                     *)
LEMMA OthersAside ==
  ASSUME CarefulCalls, CInv, NEW t \in Threads, OtherCall(t) \/ OtherStep(t)
  PROVE  /\ UNCHANGED controlVars
         /\ controls' = controls
         /\ \A u \in Threads : \A there \in {"control_call", "controls_release"} :
               loc'[u] = there <=> loc[u] = there
<1> USE DEF CInv, IInv, TypeOK, Step, Goto, objectVars
<1>1. CASE OtherCall(t)
  BY <1>1 DEF OtherCall, GetGrabber, GetSecondGrabber, ReleaseGrabber, GetControls, Release, ReleaseInterrupted
<1>2. CASE OtherStep(t)
  BY <1>2 DEF OtherStep, InitGrabber, GrabberReleased, GrabberNotReleased, ReleaseWakes,
              ReleaseParts, ReleaseClose, ReleaseCommit
<1> QED BY <1>1, <1>2

(* The steps of Controls proper, for careful calls. *)
Begins(t, c) ==
  \E there \in Stations, n \in 0 .. 3 :
    /\ Begin(t, c, there, n)
    /\ there \in NativeCalls \ {"set_get"} \/ (there = "put" /\ n = 1)

LEMMA ControlSteps ==
  ASSUME CarefulCalls, NEW t \in Threads, CallControl(t) \/ ControlStep(t)
  PROVE  \/ \E c \in Ctls : Begins(t, c)
         \/ Native(t) \/ SetNested(t) \/ Put(t) \/ NewControls(t)
         \/ ReleaseList(t) \/ ReleaseControl(t) \/ ControlWakes(t) \/ ListReleased(t)
<1>1. ASSUME NEW c \in Ctls,
             GetValue(t, c) \/ SetValue(t, c) \/ GetDiscreteValues(t, c)
               \/ IncreaseValue(t, c) \/ DecreaseValue(t, c) \/ GetText(t, c) \/ SetText(t, c)
      PROVE  Begins(t, c)
  <2>1. \/ Begin(t, c, "get", 0) \/ Begin(t, c, "set", 0)
        \/ Begin(t, c, "increase_get", 0) \/ Begin(t, c, "decrease_get", 0)
        \/ Begin(t, c, "text_get", 0) \/ Begin(t, c, "text_set", 0) \/ Begin(t, c, "put", 1)
    BY <1>1, Zenon DEF CarefulCalls, GetValue, SetValue, GetDiscreteValues, IncreaseValue, DecreaseValue,
                GetText, SetText
  <2> QED BY <2>1 DEF Begins, Stations, NativeCalls
<1> QED BY <1>1 DEF CallControl, ControlStep, ControlInterrupted, CarefulCalls

(* In a careful native call nothing fails, and the call holds as many uses *)
(* afterwards as before.                                                   *)
LEMMA NativeKeepsUses ==
  ASSUME CarefulCalls, CInv, NEW t \in Threads, Native(t)
  PROVE  /\ at[t] \in NativeCalls
         /\ at'[t] \in InControl /\ at' = [at EXCEPT ![t] = at'[t]]
         /\ puts'[t] \in 0 .. 3 /\ puts' = [puts EXCEPT ![t] = puts'[t]]
         /\ at'[t] = "put" => puts'[t] # 0
         /\ Uses(t)' = Uses(t)
  BY DEF CarefulCalls, CInv, ControlsTypeOK, Native, Finish, Move, NativeCalls, InControl, Uses

LEMMA ControlsTypeStep ==
  ASSUME CarefulCalls, CInv, TypeOK', NEW t \in Threads,
         OtherCall(t) \/ OtherStep(t) \/ CallControl(t) \/ ControlStep(t)
  PROVE  ControlsTypeOK'
<1> USE DEF CInv, ControlsTypeOK
<1>1. CASE OtherCall(t) \/ OtherStep(t)
  BY <1>1, OthersAside DEF controlVars
<1>2. ASSUME NEW c \in Ctls, Begins(t, c) PROVE ControlsTypeOK'
  BY <1>2 DEF Begins, Begin, Get
<1>3. CASE Native(t)
  BY <1>3, NativeKeepsUses DEF Native, InControl, Stations
<1>4. CASE SetNested(t)
  BY <1>4 DEF SetNested, Get, Finish, Move, Stations, NativeCalls, CarefulCalls
<1>5. CASE Put(t)
  <2>1. puts[t] \in 1 .. 3 /\ puts' = [puts EXCEPT ![t] = @ - 1]
    BY <1>5 DEF Put, Stationed
  <2>2. ctl[t] \in Ctls
    BY <1>5, CallersCounted DEF Put, InControl
  <2>3. ctlUsers' = [ctlUsers EXCEPT ![ctl[t]] = @ - 1] /\ ctlTemp' = ctlTemp /\ todo' = todo
    BY <1>5, Zenon DEF Put
  <2>4. ctlUsers' \in [Ctls -> Int]
    BY <2>2, <2>3
  <2>5. (\E w : ctlWaiting' = ctlWaiting \ {w}) \/ ctlWaiting' = ctlWaiting
    BY <1>5, Zenon DEF Put
  <2>6. at' \in [Threads -> Stations] /\ ctl' \in [Threads -> Ctls \cup {None}]
    BY <1>5 DEF Put, Stations
  <2>7. puts' \in [Threads -> 0 .. 3]
    BY <2>1
  <2> QED BY <2>3, <2>4, <2>5, <2>6, <2>7
<1>6. CASE NewControls(t)
  <2>1. \/ ctlTemp' = [c \in Ctls |-> "INIT"] /\ ctlUsers' = [c \in Ctls |-> 0]
        \/ UNCHANGED <<ctlTemp, ctlUsers>>
    BY <1>6, Zenon DEF NewControls
  <2>2. ctlTemp' \in [Ctls -> {"INIT", "RELEASED"}] /\ ctlUsers' \in [Ctls -> Int]
    BY <2>1
  <2> QED BY <1>6, <2>2 DEF NewControls
<1>7. CASE ReleaseList(t)
  BY <1>7 DEF ReleaseList, Stations
<1>8. CASE ReleaseControl(t)
  BY <1>8 DEF ReleaseControl, Stations
<1>9. CASE ControlWakes(t)
  BY <1>9 DEF ControlWakes, Stations
<1>10. CASE ListReleased(t)
  BY <1>10 DEF ListReleased, Move, Stations
<1> QED BY <1>1, <1>2, <1>3, <1>4, <1>5, <1>6, <1>7, <1>8, <1>9, <1>10, ControlSteps

LEMMA StationedStep ==
  ASSUME CarefulCalls, CInv, NEW t \in Threads,
         OtherCall(t) \/ OtherStep(t) \/ CallControl(t) \/ ControlStep(t)
  PROVE  Stationed'
<1> USE ControlsAssumption DEF CInv, IInv, TypeOK, ControlsTypeOK, Stationed, Goto, Step, InControl, NativeCalls
<1>1. CASE OtherCall(t) \/ OtherStep(t)
  BY <1>1, OthersAside DEF controlVars
<1>2. ASSUME NEW c \in Ctls, Begins(t, c) PROVE Stationed'
  BY <1>2 DEF Begins, Begin, ControlCall
<1>3. CASE Native(t)
  BY <1>3, NativeKeepsUses DEF Native, vars
<1>4. CASE SetNested(t)
  BY <1>4 DEF SetNested, Finish, Move, vars
<1>5. CASE Put(t)
  BY <1>5 DEF Put, ControlReturn, vars
<1>6. CASE NewControls(t)
  BY <1>6 DEF NewControls, InitControls
<1>7. CASE ReleaseList(t)
  BY <1>7 DEF ReleaseList, ReleaseControls
<1>8. CASE ReleaseControl(t)
  BY <1>8 DEF ReleaseControl, vars
<1>9. CASE ControlWakes(t)
  BY <1>9 DEF ControlWakes, vars
<1>10. CASE ListReleased(t)
  BY <1>10 DEF ListReleased, Move, FreeControls
<1> QED BY <1>1, <1>2, <1>3, <1>4, <1>5, <1>6, <1>7, <1>8, <1>9, <1>10, ControlSteps

-----------------------------------------------------------------------------
(* The uses of control c that thread t has. *)
Share(t, c) == IF ctl[t] = c THEN Uses(t) ELSE 0

(* Thread t moves, the others stay. *)
OnlyMoves(t) ==
  \A u \in Threads \ {t} : at'[u] = at[u] /\ ctl'[u] = ctl[u] /\ puts'[u] = puts[u]

LEMMA ShareMoves ==
  ASSUME NEW t \in Threads, NEW c \in Ctls, OnlyMoves(t)
  PROVE  UsesOn(c)' = [UsesOn(c) EXCEPT ![t] = Share(t, c)']
  BY DEF OnlyMoves, UsesOn, Share, Uses

LEMMA ShareSame ==
  ASSUME CInv, NEW t \in Threads, NEW c \in Ctls, OnlyMoves(t), Share(t, c)' = Share(t, c)
  PROVE  UsesOn(c)' = UsesOn(c)
<1>1. UsesOn(c)' = [UsesOn(c) EXCEPT ![t] = Share(t, c)]
  BY ShareMoves
<1>2. UsesOn(c)[t] = Share(t, c)
  BY DEF UsesOn, Share
<1>3. UsesOn(c) \in [Threads -> 0 .. 3]
  BY UsesType DEF CInv
<1> QED BY <1>1, <1>2, <1>3

(* Total() depends on the state through its argument only. *)
LEMMA CountedNext ==
  ASSUME \A c \in Ctls : ctlUsers'[c] = Total(UsesOn(c)')
  PROVE  ControlUsesCounted'
  BY Zenon DEF ControlUsesCounted, Total

LEMMA ShareTaken ==
  ASSUME CInv, NEW t \in Threads, NEW c \in Ctls, OnlyMoves(t), Share(t, c) # 3,
         ctlUsers' = [ctlUsers EXCEPT ![c] = @ + 1],
         Share(t, c)' = Share(t, c) + 1,
         \A d \in Ctls \ {c} : Share(t, d)' = Share(t, d)
  PROVE  ControlUsesCounted'
<1>1. UsesOn(c) \in [Threads -> 0 .. 3] /\ UsesOn(c)[t] = Share(t, c)
  BY UsesType DEF CInv, UsesOn, Share
<1>2. UsesOn(c)' = [UsesOn(c) EXCEPT ![t] = @ + 1]
  BY <1>1, ShareMoves
<1>3. Total(UsesOn(c)') = Total(UsesOn(c)) + 1
  BY <1>1, <1>2, TotalMore
<1>4. \A d \in Ctls \ {c} : UsesOn(d)' = UsesOn(d)
  BY ShareSame
<1>5. \A d \in Ctls : ctlUsers'[d] = Total(UsesOn(d)')
  BY <1>3, <1>4 DEF CInv, ControlsTypeOK, ControlUsesCounted
<1> QED BY <1>5, CountedNext

LEMMA ShareGiven ==
  ASSUME CInv, NEW t \in Threads, NEW c \in Ctls, OnlyMoves(t), Share(t, c) # 0,
         ctlUsers' = [ctlUsers EXCEPT ![c] = @ - 1],
         Share(t, c)' = Share(t, c) - 1,
         \A d \in Ctls \ {c} : Share(t, d)' = Share(t, d)
  PROVE  ControlUsesCounted'
<1>1. UsesOn(c) \in [Threads -> 0 .. 3] /\ UsesOn(c)[t] = Share(t, c)
  BY UsesType DEF CInv, UsesOn, Share
<1>2. UsesOn(c)' = [UsesOn(c) EXCEPT ![t] = @ - 1]
  BY <1>1, ShareMoves
<1>3. Total(UsesOn(c)') = Total(UsesOn(c)) - 1
  BY <1>1, <1>2, TotalLess
<1>4. \A d \in Ctls \ {c} : UsesOn(d)' = UsesOn(d)
  BY ShareSame
<1>5. \A d \in Ctls : ctlUsers'[d] = Total(UsesOn(d)')
  BY <1>3, <1>4 DEF CInv, ControlsTypeOK, ControlUsesCounted
<1> QED BY <1>5, CountedNext

LEMMA ShareKept ==
  ASSUME CInv, NEW t \in Threads, OnlyMoves(t), ctlUsers' = ctlUsers,
         \A d \in Ctls : Share(t, d)' = Share(t, d)
  PROVE  ControlUsesCounted'
<1>1. \A d \in Ctls : UsesOn(d)' = UsesOn(d)
  BY ShareSame
<1>2. \A d \in Ctls : ctlUsers'[d] = Total(UsesOn(d)')
  BY <1>1 DEF CInv, ControlUsesCounted
<1> QED BY <1>2, CountedNext

LEMMA CountsStep ==
  ASSUME CarefulCalls, CInv, ControlsTypeOK', NEW t \in Threads,
         OtherCall(t) \/ OtherStep(t) \/ CallControl(t) \/ ControlStep(t)
  PROVE  ControlUsesCounted'
<1> USE ControlsAssumption DEF CInv, ControlsTypeOK, Stationed, InControl, NativeCalls, OnlyMoves, Share, Uses
<1>1. CASE OtherCall(t) \/ OtherStep(t)
  BY <1>1, OthersAside, ShareKept DEF controlVars
<1>2. ASSUME NEW c \in Ctls, Begins(t, c) PROVE ControlUsesCounted'
  <2>1. at[t] = "none" /\ ctl[t] = None
    BY <1>2 DEF Begins, Begin, ControlCall, Stations
  <2>2. OnlyMoves(t) /\ ctl'[t] = c /\ ctlUsers' = [ctlUsers EXCEPT ![c] = @ + 1]
    BY <1>2 DEF Begins, Begin, Get
  <2>3. Uses(t)' = 1
    BY <1>2 DEF Begins, Begin
  <2>4. Share(t, c)' = Share(t, c) + 1 /\ Share(t, c) # 3
    BY <2>1, <2>2, <2>3
  <2>5. \A d \in Ctls \ {c} : Share(t, d)' = Share(t, d)
    BY <2>1, <2>2
  <2> HIDE DEF CInv, OnlyMoves, Share, Uses
  <2> QED BY <2>2, <2>4, <2>5, ShareTaken
<1>3. CASE Native(t)
  BY <1>3, NativeKeepsUses, ShareKept DEF Native
<1>4. CASE SetNested(t)
  <2>1. CASE Get(ctl[t])
    <3>1. PICK c \in Ctls : ctl[t] = c
      BY <1>4 DEF SetNested
    <3>2. OnlyMoves(t) /\ ctlUsers' = [ctlUsers EXCEPT ![c] = @ + 1]
      BY <1>4, <2>1, <3>1 DEF SetNested, Get, Finish, Move
    <3>3. Uses(t) = 1 /\ Uses(t)' = 2 /\ ctl' = ctl
      BY <1>4, <2>1, <3>1 DEF SetNested, Get, Finish, Move, CarefulCalls
    <3>4. Share(t, c)' = Share(t, c) + 1 /\ Share(t, c) # 3
      BY <3>1, <3>3
    <3>5. \A d \in Ctls \ {c} : Share(t, d)' = Share(t, d)
      BY <3>1, <3>3
    <3> HIDE DEF CInv, OnlyMoves, Share, Uses
    <3> QED BY <3>2, <3>4, <3>5, ShareTaken
  <2>2. CASE Finish(t, "set_nested", 1) /\ UNCHANGED ctlUsers
    BY <1>4, <2>2, ShareKept DEF SetNested, Finish, Move
  <2> QED BY <1>4, <2>1, <2>2 DEF SetNested
<1>5. CASE Put(t)
  <2>1. PICK c \in Ctls : ctl[t] = c
    BY <1>5, CallersCounted DEF Put
  <2>2. ctlUsers' = [ctlUsers EXCEPT ![c] = @ - 1]
    BY <1>5, <2>1, Zenon DEF Put
  <2>3. OnlyMoves(t) /\ \A d \in Ctls \ {c} : Share(t, d)' = Share(t, d)
    BY <1>5, <2>1 DEF Put
  <2>4. Share(t, c)' = Share(t, c) - 1 /\ Share(t, c) # 0
    BY <1>5, <2>1 DEF Put
  <2> HIDE DEF CInv, OnlyMoves, Share, Uses
  <2> QED BY <2>2, <2>3, <2>4, ShareGiven
<1>6. CASE NewControls(t)
  <2>1. \A c \in Ctls : UsesOn(c)' = UsesOn(c) /\ \A u \in Threads : UsesOn(c)[u] = 0
    BY <1>6 DEF NewControls, UsesOn
  <2>2. \A c \in Ctls : Total(UsesOn(c)) = 0
    BY <2>1, UsesType, TotalZero
  <2>3. ctlUsers' = [c \in Ctls |-> 0] \/ ctlUsers' = ctlUsers
    BY <1>6, Zenon DEF NewControls
  <2> QED BY <2>1, <2>2, <2>3 DEF ControlUsesCounted, Total
<1>7. CASE ReleaseList(t)
  BY <1>7, ShareKept DEF ReleaseList, ReleaseControls
<1>8. CASE ReleaseControl(t)
  BY <1>8, ShareKept DEF ReleaseControl
<1>9. CASE ControlWakes(t)
  BY <1>9, ShareKept DEF ControlWakes
<1>10. CASE ListReleased(t)
  BY <1>10, ShareKept DEF ListReleased, Move
<1> QED BY <1>1, <1>2, <1>3, <1>4, <1>5, <1>6, <1>7, <1>8, <1>9, <1>10, ControlSteps

-----------------------------------------------------------------------------
(* One thread releases the list at a time. *)
LEMMA OneReleaser ==
  ASSUME CInv, NEW t \in Threads, NEW u \in Threads,
         loc[t] \in {"controls_init", "controls_release"}, at[u] \in {"release", "release_wait"}
  PROVE  t = u
  BY DEF CInv, IInv, Exclusive, InMonitor, Stationed

LEMMA ReleasedSoFarStep ==
  ASSUME CarefulCalls, CInv, NEW t \in Threads,
         OtherCall(t) \/ OtherStep(t) \/ CallControl(t) \/ ControlStep(t)
  PROVE  ReleasedSoFar'
<1> USE ControlsAssumption DEF CInv, ControlsTypeOK, Stationed, InControl, NativeCalls, ReleasedSoFar
<1>1. CASE OtherCall(t) \/ OtherStep(t)
  BY <1>1, OthersAside DEF controlVars
<1>2. ASSUME NEW c \in Ctls, Begins(t, c) PROVE ReleasedSoFar'
  BY <1>2 DEF Begins, Begin, Get, MayGet, Stations
<1>3. CASE Native(t)
  BY <1>3, NativeKeepsUses DEF Native
<1>4. CASE SetNested(t)
  BY <1>4 DEF SetNested, Get, MayGet, Finish, Move
<1>5. CASE Put(t)
  <2>1. PICK c \in Ctls : ctl[t] = c /\ ctlUsers[c] # 0
    BY <1>5, CallersCounted DEF Put
  <2>2. ctlUsers' = [ctlUsers EXCEPT ![c] = @ - 1] /\ UNCHANGED <<ctlTemp, todo>>
    BY <1>5, <2>1, Zenon DEF Put
  <2>3. \A u \in Threads : at'[u] \in {"release", "release_wait"} => at'[u] = at[u] /\ ctl'[u] = ctl[u]
    BY <1>5 DEF Put
  <2> QED BY <2>1, <2>2, <2>3
<1>6. CASE NewControls(t)
  BY <1>6, OneReleaser DEF NewControls, InitControls, Step
<1>7. CASE ReleaseList(t)
  <2>1. \A u \in Threads : at[u] \notin {"release", "release_wait"}
    BY <1>7, ThreadsAssumption DEF ReleaseList, ReleaseControls, Enter, IInv, Exclusive, InMonitor
  <2>2. /\ at' = [at EXCEPT ![t] = "release"] /\ todo' = Ctls
        /\ ctl' = ctl /\ ctl[t] = None /\ ctlTemp' = ctlTemp
    BY <1>7 DEF ReleaseList, ReleaseControls
  <2>3. \A c \in Ctls : ctlTemp[c] = "INIT"
    BY <1>7, <2>1 DEF ReleaseList, ReleaseControls, Accepting
  <2> QED BY <2>1, <2>2, <2>3
<1>8. CASE ReleaseControl(t)
  <2>1. at[t] = "release" /\ ctl[t] = None /\ \A u \in Threads : at[u] \in {"release", "release_wait"} => u = t
    BY <1>8, OneReleaser DEF ReleaseControl
  <2>2. PICK c \in todo :
          /\ todo' = todo \ {c} /\ ctlTemp' = [ctlTemp EXCEPT ![c] = "RELEASED"]
          /\ IF MayGet(c) /\ ctlUsers[c] # 0
               THEN at' = [at EXCEPT ![t] = "release_wait"] /\ ctl' = [ctl EXCEPT ![t] = c]
               ELSE UNCHANGED <<at, ctl>>
    BY <1>8 DEF ReleaseControl
  <2>3. CASE MayGet(c) /\ ctlUsers[c] # 0
    BY <1>8, <2>1, <2>2, <2>3 DEF ReleaseControl
  <2>4. CASE MayGet(c) /\ ctlUsers[c] = 0
    BY <1>8, <2>1, <2>2, <2>4 DEF ReleaseControl
  <2>5. CASE ~MayGet(c)
    BY <1>8, <2>1, <2>2, <2>5 DEF MayGet
  <2> QED BY <2>3, <2>4, <2>5
<1>9. CASE ControlWakes(t)
  BY <1>9, OneReleaser DEF ControlWakes
<1>10. CASE ListReleased(t)
  BY <1>10, OneReleaser DEF ListReleased, Move
<1> QED BY <1>1, <1>2, <1>3, <1>4, <1>5, <1>6, <1>7, <1>8, <1>9, <1>10, ControlSteps

LEMMA SleepersStep ==
  ASSUME CarefulCalls, CInv, NEW t \in Threads,
         OtherCall(t) \/ OtherStep(t) \/ CallControl(t) \/ ControlStep(t)
  PROVE  SleepersAwaited'
<1> USE ControlsAssumption DEF CInv, ControlsTypeOK, Stationed, InControl, NativeCalls, SleepersAwaited
<1>1. CASE OtherCall(t) \/ OtherStep(t)
  BY <1>1, OthersAside DEF controlVars
<1>2. ASSUME NEW c \in Ctls, Begins(t, c) PROVE SleepersAwaited'
  <2>1. \A u \in ctlWaiting : ctl[u] # c /\ u # t
    BY <1>2 DEF Begins, Begin, MayGet, ControlCall, ReleasedSoFar
  <2>2. /\ ctlWaiting' = ctlWaiting /\ ctlUsers' = [ctlUsers EXCEPT ![c] = @ + 1]
        /\ \A u \in ctlWaiting : at'[u] = at[u] /\ ctl'[u] = ctl[u]
    BY <1>2, <2>1 DEF Begins, Begin, Get
  <2> QED BY <2>1, <2>2
<1>3. CASE Native(t)
  BY <1>3, NativeKeepsUses DEF Native
<1>4. CASE SetNested(t)
  BY <1>4 DEF SetNested, Get, MayGet, Finish, Move, ReleasedSoFar
<1>5. CASE Put(t)
  <2>1. PICK c \in Ctls : ctl[t] = c
    BY <1>5, CallersCounted DEF Put
  <2>2. /\ ctlUsers' = [ctlUsers EXCEPT ![c] = @ - 1]
        /\ ctlWaiting' \subseteq ctlWaiting
        /\ \A u \in ctlWaiting : at'[u] = at[u] /\ ctl'[u] = ctl[u]
    BY <1>5, <2>1 DEF Put
  <2>3. ASSUME NEW u \in ctlWaiting', ctl[u] = c PROVE ctlUsers[c] # 1
    <3>1. u \in ctlWaiting /\ ctlTemp[c] = "RELEASED"
      BY <2>1, <2>2, <2>3 DEF ReleasedSoFar
    <3>2. \A w \in ctlWaiting : w = u
      BY <3>1, OneReleaser
    <3>3. ASSUME ctlUsers[c] = 1 PROVE u \notin ctlWaiting'
      BY <1>5, <2>1, <2>3, <3>1, <3>2, <3>3 DEF Put
    <3> QED BY <3>3
  <2> QED BY <2>1, <2>2, <2>3
<1>6. CASE NewControls(t)
  BY <1>6, OneReleaser DEF NewControls, InitControls, Step
<1>7. CASE ReleaseList(t)
  BY <1>7 DEF ReleaseList, ReleaseControls
<1>8. CASE ReleaseControl(t)
  BY <1>8 DEF ReleaseControl
<1>9. CASE ControlWakes(t)
  BY <1>9 DEF ControlWakes
<1>10. CASE ListReleased(t)
  BY <1>10 DEF ListReleased, Move
<1> QED BY <1>1, <1>2, <1>3, <1>4, <1>5, <1>6, <1>7, <1>8, <1>9, <1>10, ControlSteps

LEMMA AcceptingStep ==
  ASSUME CarefulCalls, CInv, NEW t \in Threads,
         OtherCall(t) \/ OtherStep(t) \/ CallControl(t) \/ ControlStep(t)
  PROVE  Accepting'
<1> USE DEF CInv, IInv, TypeOK, ControlsTypeOK, Accepting, Goto, Step
<1>1. CASE OtherCall(t) \/ OtherStep(t)
  BY <1>1, OthersAside DEF controlVars
<1>2. ASSUME NEW c \in Ctls, Begins(t, c) PROVE Accepting'
  BY <1>2 DEF Begins, Begin, ControlCall, objectVars
<1>3. CASE Native(t) \/ SetNested(t) \/ ControlWakes(t)
  BY <1>3 DEF Native, SetNested, ControlWakes, vars, objectVars
<1>4. CASE Put(t)
  BY <1>4 DEF Put, ControlReturn, vars, objectVars
<1>5. CASE NewControls(t)
  BY <1>5 DEF NewControls, InitControls, CarefulCalls, Careful
<1>6. CASE ReleaseList(t)
  BY <1>6 DEF ReleaseList, ReleaseControls
<1>7. CASE ReleaseControl(t)
  BY <1>7 DEF ReleaseControl, vars, objectVars, Stationed
<1>8. CASE ListReleased(t)
  <2>1. \A c \in Ctls : ctlTemp[c] = "RELEASED"
    BY <1>8 DEF ListReleased, Move, ReleasedSoFar
  <2> QED BY <1>8, <2>1 DEF ListReleased, FreeControls
<1> QED BY <1>1, <1>2, <1>3, <1>4, <1>5, <1>6, <1>7, <1>8, ControlSteps

-----------------------------------------------------------------------------
LEMMA ControlsInvInit == ASSUME CarefulCalls PROVE ControlsInit => CInv
<1> SUFFICES ASSUME ControlsInit PROVE CInv
  OBVIOUS
<1>1. IInv
  BY InvInit DEF ControlsInit, CarefulCalls
<1>2. ControlsTypeOK
  BY <1>1 DEF ControlsInit, ControlsTypeOK, Stations, IInv
<1>3. Stationed /\ ReleasedSoFar /\ SleepersAwaited
  BY DEF ControlsInit, Init, Stationed, ReleasedSoFar, SleepersAwaited, InControl, NativeCalls
<1>4. Accepting
  BY DEF ControlsInit, Init, Accepting
<1>5. ASSUME NEW c \in Ctls PROVE ctlUsers[c] = Total(UsesOn(c))
  <2>1. UsesOn(c) \in [Threads -> 0 .. 3] /\ \A t \in Threads : UsesOn(c)[t] = 0
    BY <1>2, UsesType DEF ControlsInit, UsesOn, Uses
  <2>2. ctlUsers[c] = 0
    BY DEF ControlsInit
  <2> QED BY <2>1, <2>2, TotalZero
<1> QED BY <1>1, <1>2, <1>3, <1>4, <1>5 DEF CInv, ControlUsesCounted

LEMMA ControlsInvStep ==
  ASSUME CarefulCalls, CInv, [ControlsNext]_allVars
  PROVE  CInv'
<1>1. IInv'
  BY NextRefines, InvStep DEF CInv, CarefulCalls
<1>2. ASSUME NEW t \in Threads,
             OtherCall(t) \/ OtherStep(t) \/ CallControl(t) \/ ControlStep(t)
      PROVE  CInv'
  <2>1. ControlsTypeOK'
    BY <1>1, <1>2, ControlsTypeStep DEF IInv
  <2> QED BY <1>1, <1>2, <2>1, StationedStep, CountsStep, ReleasedSoFarStep, SleepersStep,
             AcceptingStep DEF CInv
<1>3. CASE UNCHANGED allVars
  <2>1. /\ UNCHANGED <<loc, controls>> /\ UNCHANGED controlVars
    BY <1>3 DEF allVars, vars, objectVars
  <2>2. ControlsTypeOK' /\ Stationed' /\ ReleasedSoFar' /\ SleepersAwaited' /\ Accepting'
    BY <1>1, <2>1 DEF CInv, IInv, controlVars, ControlsTypeOK, Stationed, ReleasedSoFar, SleepersAwaited, Accepting
  <2>3. ControlUsesCounted'
    BY <2>1 DEF CInv, controlVars, ControlUsesCounted, UsesOn, Uses, Total
  <2> QED BY <1>1, <2>2, <2>3 DEF CInv
<1> QED BY <1>2, <1>3 DEF ControlsNext

LEMMA ControlsInvariance == ASSUME CarefulCalls PROVE ControlsSpec => []CInv
<1>1. CInv /\ [ControlsNext]_allVars => CInv'
  BY ControlsInvStep
<1> QED BY <1>1, ControlsInvInit, PTL DEF ControlsSpec

-----------------------------------------------------------------------------
(* The count of every control is the number of uses its callers have,      *)
(* although setValue() takes two and a release() may come in between.      *)
THEOREM ControlUsesAreCounted == ASSUME CarefulCalls PROVE ControlsSpec => []ControlUsesCounted
<1>1. CInv => ControlUsesCounted
  BY DEF CInv
<1> QED BY <1>1, ControlsInvariance, PTL

(* A release() that sleeps has a call to wait for, whose put() wakes it.   *)
THEOREM ControlWaitersAreWoken == ASSUME CarefulCalls PROVE ControlsSpec => []ControlWaitersWoken
<1>1. ASSUME CInv, NEW t \in ctlWaiting PROVE \E u \in Threads \ {t} : ctl[u] = ctl[t]
  <2>1. t \in Threads /\ at[t] = "release_wait" /\ ctl[t] \in Ctls
    BY <1>1 DEF CInv, ControlsTypeOK, SleepersAwaited, Stationed
  <2>2. PICK c \in Ctls : ctl[t] = c /\ ctlUsers[c] # 0
    BY <1>1, <2>1 DEF CInv, SleepersAwaited
  <2>3. UsesOn(c) \in [Threads -> 0 .. 3] /\ Total(UsesOn(c)) # 0
    BY <1>1, <2>2, UsesType DEF CInv, ControlUsesCounted
  <2>4. PICK u \in Threads : UsesOn(c)[u] # 0
    BY <2>3, TotalZero
  <2>5. ctl[u] = c /\ at[u] # "release_wait"
    BY <2>4 DEF UsesOn, Uses
  <2> QED BY <2>1, <2>2, <2>5
<1>2. CInv => ControlWaitersWoken
  BY <1>1 DEF ControlWaitersWoken
<1> QED BY <1>2, ControlsInvariance, PTL

(* The use counts of the controls implement what VideoDevice assumes of    *)
(* them: the list is released only when no call on a control is left.      *)
THEOREM ControlsImplementDevice == ASSUME CarefulCalls PROVE ControlsSpec => Spec
<1>1. ControlsInit => Init
  BY DEF ControlsInit
<1>2. CInv /\ [ControlsNext]_allVars => [Next]_vars
  BY NextRefines
<1> QED BY <1>1, <1>2, ControlsInvariance, PTL DEF ControlsSpec, Spec
-----------------------------------------------------------------------------
(* What holds of any callers: the rest of this module assumes nothing of   *)
(* them, nor of what may fail.                                             *)
Located ==
  /\ loc \in [Threads -> Locations] /\ at \in [Threads -> Stations]
  /\ ctlTemp \in [Ctls -> {"INIT", "RELEASED"}]

(* Whoever releases the list has marked the controls it has come to; the   *)
(* detailed locations of a release agree with those of VideoDevice.        *)
Marked ==
  \A t \in Threads :
    /\ loc[t] = "controls_release" <=> at[t] \in {"release", "release_wait"}
    /\ at[t] \in {"release", "release_wait"} => \A c \in Ctls \ todo : ctlTemp[c] = "RELEASED"

(* The inductive invariant.                                                *)
HInv == Located /\ Exclusive /\ Marked /\ HandlesBacked /\ ControlsBacked

(* A call on a control is of no concern to the monitor and the parts.      *)
LEMMA CallsAside ==
  ASSUME HInv, NEW t \in Threads, NEW c \in Ctls, NEW there \in Stations \ {"release",
     "release_wait"},
         NEW n, Begin(t, c, there, n)
  PROVE  HInv'
<1> USE DEF HInv, Located, Begin, ControlCall, Goto, objectVars, nativeVars, Locations
<1>1. Located' /\ HandlesBacked' /\ ControlsBacked'
  BY DEF HandlesBacked, ControlsBacked
<1>2. Exclusive'
  BY DEF Exclusive, InMonitor
<1>3. Marked'
  BY DEF Marked
<1> QED BY <1>1, <1>2, <1>3

(* The steps of calls on controls and of releases of the list keep the     *)
(* invariant.                                                              *)
LEMMA CallKeepsHandles ==
  ASSUME HInv, NEW t \in Threads, CallControl(t) \/ ControlStep(t)
  PROVE  HInv'
<1> USE ThreadsAssumption DEF HInv, Located, Goto, Step, Enter, Leave, Move, Finish, objectVars,
     nativeVars, vars, Locations, Stations, NativeCalls
<1>1. ASSUME NEW c \in Ctls, GetValue(t, c) \/ SetValue(t, c) \/ GetDiscreteValues(t, c)
               \/ IncreaseValue(t, c) \/ DecreaseValue(t, c) \/ GetText(t, c) \/ SetText(t, c)
      PROVE  HInv'
  <2> HIDE DEF HInv, Located
  <2>1. \/ Begin(t, c, "get", 0) \/ Begin(t, c, "set", 0)
        \/ Begin(t, c, "increase_get", 0) \/ Begin(t, c, "decrease_get", 0)
        \/ Begin(t, c, "text_get", 0) \/ Begin(t, c, "text_set", 0)
        \/ Begin(t, c, "put", 1) \/ Begin(t, c, "put", 2)
    BY <1>1, Zenon DEF GetValue, SetValue, GetDiscreteValues, IncreaseValue, DecreaseValue,
         GetText, SetText
  <2>2. PICK there \in Stations \ {"release", "release_wait"}, n \in 0 .. 3 : Begin(t, c, there, n)
    BY <2>1
  <2> QED BY <2>2, CallsAside
<1>2. CASE ReleaseList(t)
  <2>1. Located' /\ HandlesBacked' /\ ControlsBacked'
    BY <1>2 DEF ReleaseList, ReleaseControls, HandlesBacked, ControlsBacked
  <2>2. Exclusive'
    BY <1>2 DEF ReleaseList, ReleaseControls, Exclusive, InMonitor
  <2>3. \A u \in Threads \ {t} : loc'[u] # "controls_release"
    BY <1>2, <2>2 DEF ReleaseList, ReleaseControls, Exclusive, InMonitor
  <2>4. Marked'
    BY <1>2, <2>3 DEF ReleaseList, ReleaseControls, Marked
  <2> QED BY <2>1, <2>2, <2>4
<1>3. CASE ControlInterrupted(t)
  <2>1. loc[t] = "controls_release"
    BY <1>3 DEF ControlInterrupted, Marked
  <2>2. \A u \in Threads \ {t} : loc[u] # "controls_release"
    BY <2>1 DEF Exclusive, InMonitor
  <2>3. Located' /\ HandlesBacked' /\ ControlsBacked'
    BY <1>3 DEF ControlInterrupted, HandlesBacked, ControlsBacked
  <2>4. Exclusive' /\ Marked'
    BY <1>3, <2>1, <2>2 DEF ControlInterrupted, Exclusive, InMonitor, Marked
  <2> QED BY <2>3, <2>4
<1>4. CASE Native(t) \/ SetNested(t)
  <2>1. /\ UNCHANGED <<vars, ctlTemp, todo>>
        /\ at[t] \in {"set_nested"} \cup NativeCalls
        /\ \E there \in {"set_nested", "put"} \cup NativeCalls : at' = [at EXCEPT ![t] = there]
    BY <1>4 DEF Native, SetNested
  <2> QED BY <2>1 DEF HandlesBacked, ControlsBacked, Exclusive, Marked
<1>5. CASE Put(t)
  <2>1. UNCHANGED <<monitorVars, objectVars, nativeVars, ctlTemp, todo>> /\ at[t] = "put"
    BY <1>5, Zenon DEF Put, ControlReturn
  <2>2. \/ UNCHANGED <<loc, at>>
        \/ loc[t] = "control_call" /\ loc' = [loc EXCEPT ![t] = "idle"] /\ at' = [at EXCEPT ![t] = "none"]
    BY <1>5, Zenon DEF Put, ControlReturn
  <2> QED BY <2>1, <2>2 DEF HandlesBacked, ControlsBacked, Exclusive, InMonitor, Marked
<1>6. CASE NewControls(t)
  <2>1. /\ loc[t] = "controls_init" /\ loc' = [loc EXCEPT ![t] = "idle"] /\ monitor' = None
        /\ UNCHANGED <<at, todo, grabber>>
        /\ parts' \in {parts, parts \cup {"control"}}
        /\ controls' => controls \/ "control" \in parts'
        /\ controls => controls'
    BY <1>6 DEF NewControls, InitControls
  <2>2. \/ controls' /\ ctlTemp' = [c \in Ctls |-> "INIT"]
        \/ ctlTemp' = ctlTemp
    BY <1>6, Zenon DEF NewControls
  <2>3. Located' /\ HandlesBacked' /\ ControlsBacked'
    BY <2>1, <2>2 DEF HandlesBacked, ControlsBacked
  <2>4. Exclusive'
    BY <2>1 DEF Exclusive, InMonitor
  <2>5. \A u \in Threads : at[u] \notin {"release", "release_wait"}
    BY <2>1 DEF Exclusive, InMonitor, Marked
  <2>6. Marked'
    BY <2>1, <2>5 DEF Marked
  <2> QED BY <2>3, <2>4, <2>6
<1>7. CASE ReleaseControl(t)
  <2>1. PICK c \in todo : todo' = todo \ {c} /\ ctlTemp' = [ctlTemp EXCEPT ![c] = "RELEASED"]
    BY <1>7, Zenon DEF ReleaseControl
  <2>2. UNCHANGED vars /\ at[t] = "release"
    BY <1>7 DEF ReleaseControl
  <2>3. at' = at \/ at' = [at EXCEPT ![t] = "release_wait"]
    BY <1>7, Zenon DEF ReleaseControl
  <2> QED BY <2>1, <2>2, <2>3 DEF HandlesBacked, ControlsBacked, Exclusive, Marked
<1>8. CASE ControlWakes(t)
  <2>1. /\ UNCHANGED <<vars, ctlTemp, todo>> /\ at[t] = "release_wait"
        /\ \E there \in {"release", "release_wait"} : at' = [at EXCEPT ![t] = there]
    BY <1>8 DEF ControlWakes
  <2> QED BY <2>1 DEF HandlesBacked, ControlsBacked, Exclusive, Marked
<1>9. CASE ListReleased(t)
  <2>1. \A c \in Ctls : ctlTemp[c] = "RELEASED"
    BY <1>9 DEF ListReleased, Marked
  <2>2. Located' /\ HandlesBacked' /\ ControlsBacked'
    BY <1>9, <2>1 DEF ListReleased, FreeControls, HandlesBacked, ControlsBacked
  <2>3. Exclusive' /\ Marked'
    BY <1>9, <2>1 DEF ListReleased, FreeControls, Exclusive, InMonitor, Marked
  <2> QED BY <2>2, <2>3
<1> HIDE DEF HInv
<1> QED BY <1>1, <1>2, <1>3, <1>4, <1>5, <1>6, <1>7, <1>8, <1>9 DEF CallControl, ControlStep

(* So do the other steps of VideoDevice.                                   *)
LEMMA OthersKeepHandles ==
  ASSUME HInv, NEW t \in Threads, OtherCall(t) \/ OtherStep(t)
  PROVE  HInv'
<1> USE ThreadsAssumption DEF HInv, Located, Goto, Step, Enter, Leave, objectVars, nativeVars,
     controlVars, Locations, GetUse, PutUse, monitorVars
<1>1. CASE OtherCall(t)
  <2>1. Located' /\ HandlesBacked' /\ ControlsBacked'
    BY <1>1 DEF OtherCall, HandlesBacked, ControlsBacked, GetGrabber, GetSecondGrabber,
         ReleaseGrabber, GetControls, Release, ReleaseInterrupted
  <2>2. Exclusive' /\ Marked'
    BY <1>1 DEF OtherCall, Exclusive, InMonitor, Marked, GetGrabber, GetSecondGrabber,
         ReleaseGrabber, GetControls, Release, ReleaseInterrupted
  <2> QED BY <2>1, <2>2
<1>2. CASE OtherStep(t)
  <2>1. Located' /\ HandlesBacked' /\ ControlsBacked'
    BY <1>2 DEF OtherStep, HandlesBacked, ControlsBacked, InitGrabber, GrabberReleased,
         GrabberNotReleased, ReleaseWakes, ReleaseParts, ReleaseClose, ReleaseCommit
  <2>2. Exclusive' /\ Marked'
    BY <1>2 DEF OtherStep, Exclusive, InMonitor, Marked, InitGrabber, GrabberReleased,
         GrabberNotReleased, ReleaseWakes, ReleaseParts, ReleaseClose, ReleaseCommit
  <2> QED BY <2>1, <2>2
<1> QED BY <1>1, <1>2

(* The invariant always holds.                                             *)
LEMMA HandlesInvariance == ControlsSpec => []HInv
<1>1. ControlsInit => HInv
  BY ThreadsAssumption DEF ControlsInit, Init, HInv, Located, Locations, Stations, Exclusive,
       InMonitor, Marked, HandlesBacked, ControlsBacked
<1>2. HInv /\ [ControlsNext]_allVars => HInv'
  <2>1. ASSUME HInv, UNCHANGED allVars PROVE HInv'
    BY <2>1 DEF HInv, allVars, vars, objectVars, nativeVars, controlVars, Located, Exclusive,
         Marked, HandlesBacked, ControlsBacked
  <2> QED BY <2>1, CallKeepsHandles, OthersKeepHandles DEF ControlsNext
<1> QED BY <1>1, <1>2, PTL DEF ControlsSpec

(* A control accepts calls only while the device has its list and libvideo *)
(* its description, whatever fails or is interrupted, with any callers.    *)
THEOREM ControlsStayBacked == ControlsSpec => []ControlsBacked
<1>1. HInv => ControlsBacked
  BY DEF HInv
<1> QED BY <1>1, HandlesInvariance, PTL
===============================================================================
