-------------------------- MODULE FrameGrabber_proofs --------------------------
(***************************************************************************)
(* Proofs about FrameGrabber, for every set of threads and sources, every  *)
(* number of buffers and every queue capacity, with every fault.           *)
(*                                                                         *)
(* TypeOK and UsersCounted are proved together: that "users" stays a       *)
(* natural number rests on the count being exact, and the count on what    *)
(* the locations of the threads say about their variables.                 *)
(*                                                                         *)
(* NoLostWakeup follows for a grabber that one thread starts and releases. *)
(***************************************************************************)
EXTENDS FrameGrabber, TLAPS, FiniteSetTheorems, SequenceTheorems

(* TypeOK, in the groups of variables that actions leave alone together. *)
MonitorTypes ==
  state \in GrabberStates /\ temp \in GrabberStates /\ users \in Nat /\ waiting \subseteq Threads

DriverTypes == queued \subseteq Buffers /\ streaming \in BOOLEAN /\ freed \in BOOLEAN

SourceTypes ==
  /\ pushSource \in Sources \cup {None}
  /\ pushState \in [Sources -> {"STOPPED", "RUNNING", "ABOUT_TO_STOP"}]
  /\ run \in [Sources -> RunLocations]
  /\ intr \in [Sources -> BOOLEAN]
  /\ cur \in [Sources -> Frames \cup {None}]

FrameTypes ==
  /\ available \in Seq(Frames) /\ Len(available) <= QueueCapacity
  /\ recycled \in [Frames -> BOOLEAN]
  /\ bufferIndex \in [Frames -> Buffers] /\ lastIndex \in Buffers
  /\ lock \in [Frames -> Threads \cup {None}]
  /\ held \subseteq Frames

CallTypes ==
  /\ pc \in [Threads -> Locations]
  /\ arg \in [Threads -> Frames \cup {None}]
  /\ pos \in [Threads -> 0 .. NumBuffers + 1]
  /\ src \in [Threads -> Sources \cup {None}]
  /\ releasing \in [Threads -> BOOLEAN]

(* Where a thread stands says what its variables hold ...                  *)
CallLocated ==
  \A t \in Threads :
    /\ pc[t] \in InRecycle => arg[t] \in Frames
    /\ pc[t] = "start_fill" => pos[t] \in Frames
    /\ pc[t] = "stop_recycle" => pos[t] # 0
    /\ pc[t] \in {"undo_interrupt", "undo_join", "stop_interrupt", "stop_join"} => src[t] \in Sources

(* ... a push thread between the queue and the callback has a frame ...    *)
RunLocated == \A s \in Sources : run[s] \in {"fill", "deliver", "put"} => cur[s] \in Frames

(* ... and a source has a push thread exactly until it has stopped.        *)
ThreadOfSource == \A s \in Sources : pushState[s] = "STOPPED" <=> run[s] = "none"

IInv == TypeOK /\ CallLocated /\ RunLocated /\ ThreadOfSource /\ UsersCounted

LEMMA Types == TypeOK <=> MonitorTypes /\ DriverTypes /\ SourceTypes /\ FrameTypes /\ CallTypes
  BY Zenon DEF TypeOK, MonitorTypes, DriverTypes, SourceTypes, FrameTypes, CallTypes

(* Inside is finite, so its cardinality is a number that grows and shrinks *)
(* by one with its elements.                                               *)
LEMMA InsideFinite == IsFiniteSet(Inside)
  BY FS_Subset, ThreadsAssumption DEF Inside

LEMMA InsideEnter ==
  ASSUME SourceTypes, UsersCounted, NEW s \in Sources, run[s] \notin InGetNext,
         NEW l \in InGetNext, run' = [run EXCEPT ![s] = l], users' = users + 1
  PROVE  UsersCounted'
<1>1. Inside' = Inside \cup {s} /\ s \notin Inside
  BY DEF Inside, SourceTypes
<1> QED BY <1>1, InsideFinite, FS_AddElement DEF UsersCounted

LEMMA InsideLeave ==
  ASSUME SourceTypes, UsersCounted, NEW s \in Sources, run[s] \in InGetNext,
         NEW l, l \notin InGetNext, run' = [run EXCEPT ![s] = l], users' = users - 1
  PROVE  UsersCounted'
<1>1. Inside' = Inside \ {s} /\ s \in Inside
  BY DEF Inside, SourceTypes
<1> QED BY <1>1, InsideFinite, FS_RemoveElement DEF UsersCounted

LEMMA InsideStay ==
  ASSUME SourceTypes, UsersCounted, NEW s \in Sources,
         NEW l, run[s] \in InGetNext <=> l \in InGetNext,
         run' = [run EXCEPT ![s] = l], users' = users
  PROVE  UsersCounted'
<1>1. Inside' = Inside
  BY DEF Inside, SourceTypes
<1> QED BY <1>1 DEF UsersCounted

(* A push thread is counted in where it enters getNextVideoFrame() and     *
   counted out on every way it leaves.                                     *)
LEMMA UsersCountedStep ==
  ASSUME IInv, [Next]_vars
  PROVE  UsersCounted'
<1> USE Types DEF IInv, RunFrom, InGetNext, InCallback
<1>1. ASSUME NEW t \in Threads, Call(t) \/ CallStep(t) PROVE UsersCounted'
  <2>1. CASE StartSource(t)
    BY <2>1, ThreadsAssumption, InsideStay DEF StartSource, Rollback, stateVars,
      ThreadOfSource, SourceTypes, Inside, UsersCounted
  <2>2. CASE StartUndo(t)
    BY <2>2 DEF StartUndo, SourceStop, SourceInterrupt, SourceJoin, stateVars, Inside,
      UsersCounted
  <2>3. CASE StopSource(t)
    BY <2>3 DEF StopSource, SourceStop, SourceInterrupt, SourceJoin, stateVars, Inside,
      UsersCounted
  <2>4. CASE UNCHANGED <<run, users>>
    BY <2>4 DEF UsersCounted, Inside
  <2> QED BY <1>1, <2>1, <2>2, <2>3, <2>4 DEF Call, CallStep, SetCaptureCallback,
      RecycleCall, StartCall, StopCall, ReleaseCall, VideoInputCall, VideoInputNative,
      StartWait, StartNative, StartCommit, StartFill, StartRollback, StopNative,
      StopUsers, StopRecycle, StopClear, StopCommit, ReleaseMark, ReleaseNative,
      ReleaseCommit, RecycleTemp, RecycleEnqueue, RecyclePut, RecycleDone, stateVars,
      driverVars, sourceVars, frameVars, callVars, Request, Rollback, Commit, Passes,
      Waits, LeaveRecycle, EnterRecycle
<1>2. ASSUME NEW s \in Sources, PushStep(s) \/ PushFill(s) PROVE UsersCounted'
  <2>1. CASE PushLoop(s)
    BY <2>1, InsideStay DEF PushLoop, stateVars
  <2>2. CASE PushGet(s)
    BY <2>2, InsideEnter DEF PushGet, GetUser
  <2>3. CASE PushAvail(s)
    BY <2>3, InsideStay DEF PushAvail, stateVars
  <2>4. CASE PushFrameFails(s)
    BY <2>4, InsideStay DEF PushFrameFails, stateVars
  <2>5. CASE PushDeliver(s)
    BY <2>5, InsideStay DEF PushDeliver, stateVars
  <2>6. CASE PushPut(s)
    BY <2>6, InsideLeave DEF PushPut, PutUser
  <2>7. CASE PushPutThrows(s)
    BY <2>7, InsideLeave DEF PushPutThrows, PutUser
  <2>8. CASE PushReturn(s)
    BY <2>8, InsideStay DEF PushReturn, stateVars
  <2>9. CASE PushCaught(s)
    BY <2>9, InsideStay DEF PushCaught, stateVars
  <2>10. CASE PushExceptionDone(s)
    BY <2>10, InsideStay DEF PushExceptionDone, stateVars
  <2>11. CASE PushExit(s)
    BY <2>11, InsideStay DEF PushExit, stateVars
  <2>12. CASE PushFill(s)
    BY <2>12, InsideStay DEF PushFill, stateVars
  <2> QED BY <1>2, <2>1, <2>2, <2>3, <2>4, <2>5, <2>6, <2>7, <2>8, <2>9, <2>10, <2>11,
      <2>12 DEF PushStep, stateVars, driverVars, sourceVars, frameVars, callVars, Request,
      Rollback, Commit, Passes, Waits, LeaveRecycle, EnterRecycle
<1>3. CASE Open
  BY <1>3 DEF Open, sourceVars, UsersCounted, Inside
<1>4. CASE UNCHANGED vars
  BY <1>4 DEF vars, stateVars, driverVars, sourceVars, frameVars, callVars, UsersCounted,
    Inside
<1> QED BY <1>1, <1>2, <1>3, <1>4 DEF Next

(* The monitor's fields. *)
LEMMA MonitorTypesStep ==
  ASSUME IInv, users' \in Nat, [Next]_vars
  PROVE  MonitorTypes'
<1> USE Types DEF IInv, MonitorTypes, GrabberStates
<1>1. ASSUME NEW t \in Threads, Call(t) \/ CallStep(t) PROVE MonitorTypes'
  <2>1. CASE StartCall(t)
    BY <2>1 DEF StartCall, Request
  <2>2. CASE StartSource(t)
    BY <2>2 DEF StartSource, Rollback, stateVars
  <2>3. CASE StartWait(t)
    BY <2>3 DEF StartWait, Passes, Waits, stateVars
  <2>4. CASE StartCommit(t)
    BY <2>4 DEF StartCommit, Commit
  <2>5. CASE StartUndo(t)
    BY <2>5 DEF StartUndo, SourceStop, SourceInterrupt, SourceJoin, stateVars
  <2>6. CASE StartRollback(t)
    BY <2>6 DEF StartRollback, Rollback
  <2>7. CASE StopCall(t)
    BY <2>7 DEF StopCall, Request
  <2>8. CASE StopSource(t)
    BY <2>8 DEF StopSource, SourceStop, SourceInterrupt, SourceJoin, stateVars
  <2>9. CASE StopUsers(t)
    BY <2>9 DEF StopUsers, Passes, Waits, stateVars
  <2>10. CASE StopCommit(t)
    BY <2>10 DEF StopCommit, Commit
  <2>11. CASE ReleaseCall(t)
    BY <2>11 DEF ReleaseCall, Request, stateVars
  <2>12. CASE ReleaseMark(t)
    BY <2>12 DEF ReleaseMark, Request, stateVars
  <2>13. CASE ReleaseCommit(t)
    BY <2>13 DEF ReleaseCommit, Commit
  <2>14. CASE UNCHANGED <<state, temp, users, waiting>>
    BY <2>14 DEF MonitorTypes
  <2> QED BY <1>1, <2>1, <2>2, <2>3, <2>4, <2>5, <2>6, <2>7, <2>8, <2>9, <2>10, <2>11,
      <2>12, <2>13, <2>14 DEF Call, CallStep, SetCaptureCallback, RecycleCall,
      VideoInputCall, VideoInputNative, StartNative, StartFill, StopNative, StopRecycle,
      StopClear, ReleaseNative, RecycleTemp, RecycleEnqueue, RecyclePut, RecycleDone,
      stateVars, driverVars, sourceVars, frameVars, callVars, LeaveRecycle, EnterRecycle
<1>2. ASSUME NEW s \in Sources, PushStep(s) \/ PushFill(s) PROVE MonitorTypes'
  <2>1. CASE PushGet(s)
    BY <2>1 DEF PushGet, GetUser, Notify
  <2>2. CASE PushPut(s)
    BY <2>2 DEF PushPut, PutUser, Notify
  <2>3. CASE PushPutThrows(s)
    BY <2>3 DEF PushPutThrows, PutUser, Notify
  <2>4. CASE UNCHANGED <<state, temp, users, waiting>>
    BY <2>4 DEF MonitorTypes
  <2> QED BY <1>2, <2>1, <2>2, <2>3, <2>4 DEF PushStep, PushLoop, PushAvail,
      PushFrameFails, PushDeliver, PushReturn, PushCaught, PushExceptionDone, PushExit,
      PushFill, stateVars, driverVars, sourceVars, frameVars, callVars, LeaveRecycle,
      EnterRecycle
<1>3. CASE Open
  BY <1>3 DEF Open, MonitorTypes
<1>4. CASE UNCHANGED vars
  BY <1>4 DEF vars, stateVars, driverVars, sourceVars, frameVars, callVars, MonitorTypes
<1> QED BY <1>1, <1>2, <1>3, <1>4 DEF Next

(* The driver's queue. *)
LEMMA DriverTypesStep ==
  ASSUME IInv, [Next]_vars
  PROVE  DriverTypes'
<1> USE Types DEF IInv, DriverTypes, Buffers
<1>1. ASSUME NEW t \in Threads, Call(t) \/ CallStep(t) PROVE DriverTypes'
  <2>1. CASE StartNative(t)
    <3>1. CASE StartCapture
      BY <2>1, <3>1 DEF StartCapture
    <3>2. CASE StartCaptureFails("streamon" \in Faults)
      <4>1. PICK k \in 0 .. NumBuffers : queued' = queued \cup 0 .. k - 1 /\ UNCHANGED <<streaming, freed>>
        BY <3>2 DEF StartCaptureFails
      <4> QED BY <4>1, NumBuffersAssumption
    <3> QED BY <2>1, <3>1, <3>2 DEF StartNative
  <2>2. CASE StopNative(t)
    BY <2>2 DEF StopNative, StopCapture
  <2>3. CASE ReleaseNative(t)
    BY <2>3 DEF ReleaseNative, FreeCapture
  <2>4. CASE RecycleEnqueue(t)
    BY <2>4 DEF RecycleEnqueue, Enqueue, FrameTypes, CallLocated, InRecycle, Step, At
  <2>5. CASE UNCHANGED driverVars
    BY <2>5 DEF DriverTypes, driverVars
  <2> QED BY <1>1, <2>1, <2>2, <2>3, <2>4, <2>5 DEF Call, CallStep, SetCaptureCallback,
      RecycleCall, StartCall, StopCall, ReleaseCall, VideoInputCall, VideoInputNative,
      StartSource, StartWait, StartCommit, StartFill, StartUndo, StartRollback,
      StopSource, StopUsers, StopRecycle, StopClear, StopCommit, ReleaseMark,
      ReleaseCommit, RecycleTemp, RecyclePut, RecycleDone, stateVars, driverVars,
      sourceVars, frameVars, callVars, StartUndo, StopSource, SourceStop, SourceInterrupt,
      SourceJoin
<1>2. ASSUME NEW s \in Sources, PushStep(s) \/ PushFill(s) PROVE DriverTypes'
  <2>1. CASE PushFill(s)
    BY <2>1 DEF PushFill, Dequeue
  <2>2. CASE UNCHANGED driverVars
    BY <2>2 DEF DriverTypes, driverVars
  <2> QED BY <1>2, <2>1, <2>2 DEF PushStep, PushLoop, PushGet, PushAvail, PushFrameFails,
      PushDeliver, PushPut, PushPutThrows, PushReturn, PushCaught, PushExceptionDone,
      PushExit, stateVars, driverVars, sourceVars, frameVars, callVars, StartUndo,
      StopSource, SourceStop, SourceInterrupt, SourceJoin
<1>3. CASE Open
  BY <1>3 DEF Open, driverVars
<1>4. CASE UNCHANGED vars
  BY <1>4 DEF vars, stateVars, driverVars, sourceVars, frameVars, callVars, DriverTypes,
    driverVars
<1> QED BY <1>1, <1>2, <1>3, <1>4 DEF Next

(* The push sources and their threads. *)
LEMMA SourceTypesStep ==
  ASSUME IInv, [Next]_vars
  PROVE  SourceTypes'
<1> USE Types DEF IInv, SourceTypes, RunLocations, InGetNext, InCallback, RunFrom
<1>1. ASSUME NEW t \in Threads, Call(t) \/ CallStep(t) PROVE SourceTypes'
  <2>1. CASE \E s \in Sources : SetCaptureCallback(t, s)
    BY <2>1 DEF SetCaptureCallback
  <2>2. CASE StartSource(t)
    BY <2>2 DEF StartSource
  <2>3. CASE StartUndo(t)
    BY <2>3 DEF StartUndo, SourceStop, SourceInterrupt, SourceJoin, ClearInterrupt
  <2>4. CASE StopSource(t)
    BY <2>4 DEF StopSource, SourceStop, SourceInterrupt, SourceJoin, ClearInterrupt
  <2>5. CASE StopUsers(t)
    BY <2>5 DEF StopUsers, ClearInterrupt
  <2>6. CASE RecyclePut(t)
    BY <2>6 DEF RecyclePut, ClearInterrupt
  <2>7. CASE UNCHANGED sourceVars
    BY <2>7 DEF SourceTypes, sourceVars
  <2> QED BY <1>1, <2>1, <2>2, <2>3, <2>4, <2>5, <2>6, <2>7 DEF Call, CallStep,
      RecycleCall, StartCall, StopCall, ReleaseCall, VideoInputCall, VideoInputNative,
      StartWait, StartNative, StartCommit, StartFill, StartRollback, StopNative,
      StopRecycle, StopClear, StopCommit, ReleaseMark, ReleaseNative, ReleaseCommit,
      RecycleTemp, RecycleEnqueue, RecycleDone, stateVars, driverVars, sourceVars,
      frameVars, callVars, Rollback
<1>2. ASSUME NEW s \in Sources, PushStep(s) \/ PushFill(s) PROVE SourceTypes'
  <2>1. CASE PushLoop(s)
    BY <2>1 DEF PushLoop, ClearInterrupt
  <2>2. CASE PushGet(s)
    BY <2>2 DEF PushGet
  <2>3. CASE PushAvail(s)
    <3>1. CASE available # <<>> /\ cur' = [cur EXCEPT ![s] = Head(available)] /\ UNCHANGED intr
      <4>1. Head(available) \in Frames
        BY <3>1, HeadTailProperties DEF FrameTypes
      <4> QED BY <2>3, <3>1, <4>1 DEF PushAvail
    <3>2. CASE ClearInterrupt(s) /\ UNCHANGED cur
      BY <2>3, <3>2 DEF PushAvail, ClearInterrupt
    <3> QED BY <2>3, <3>1, <3>2 DEF PushAvail
  <2>4. CASE PushFrameFails(s)
    BY <2>4 DEF PushFrameFails
  <2>5. CASE PushDeliver(s)
    BY <2>5 DEF PushDeliver
  <2>6. CASE PushPut(s)
    BY <2>6 DEF PushPut
  <2>7. CASE PushPutThrows(s)
    BY <2>7 DEF PushPutThrows
  <2>8. CASE PushReturn(s)
    BY <2>8 DEF PushReturn
  <2>9. CASE PushCaught(s)
    BY <2>9 DEF PushCaught
  <2>10. CASE PushExceptionDone(s)
    BY <2>10 DEF PushExceptionDone
  <2>11. CASE PushExit(s)
    BY <2>11 DEF PushExit
  <2>12. CASE PushFill(s)
    BY <2>12 DEF PushFill
  <2> QED BY <1>2, <2>1, <2>2, <2>3, <2>4, <2>5, <2>6, <2>7, <2>8, <2>9, <2>10, <2>11,
      <2>12 DEF PushStep, stateVars, driverVars, sourceVars, frameVars, callVars, Rollback
<1>3. CASE Open
  BY <1>3 DEF Open, sourceVars
<1>4. CASE UNCHANGED vars
  BY <1>4 DEF vars, stateVars, driverVars, sourceVars, frameVars, callVars, SourceTypes,
    sourceVars
<1> QED BY <1>1, <1>2, <1>3, <1>4 DEF Next

(* A push thread leaves the queue with a frame and loses it only on its way out. *)
LEMMA RunLocatedStep ==
  ASSUME IInv, [Next]_vars
  PROVE  RunLocated'
<1> USE Types DEF IInv, RunLocated, SourceTypes, RunFrom
<1>1. ASSUME NEW t \in Threads, Call(t) \/ CallStep(t) PROVE RunLocated'
  <2>1. CASE StartSource(t)
    BY <2>1 DEF StartSource
  <2>2. CASE StartUndo(t)
    BY <2>2 DEF StartUndo, SourceStop, SourceInterrupt, SourceJoin
  <2>3. CASE StopSource(t)
    BY <2>3 DEF StopSource, SourceStop, SourceInterrupt, SourceJoin
  <2>4. CASE UNCHANGED <<run, cur>>
    BY <2>4 DEF RunLocated
  <2> QED BY <1>1, <2>1, <2>2, <2>3, <2>4 DEF Call, CallStep, SetCaptureCallback,
      RecycleCall, StartCall, StopCall, ReleaseCall, VideoInputCall, VideoInputNative,
      StartWait, StartNative, StartCommit, StartFill, StartRollback, StopNative,
      StopUsers, StopRecycle, StopClear, StopCommit, ReleaseMark, ReleaseNative,
      ReleaseCommit, RecycleTemp, RecycleEnqueue, RecyclePut, RecycleDone, stateVars,
      driverVars, sourceVars, frameVars, callVars
<1>2. ASSUME NEW s \in Sources, PushStep(s) \/ PushFill(s) PROVE RunLocated'
  <2>1. CASE PushLoop(s)
    BY <2>1 DEF PushLoop
  <2>2. CASE PushGet(s)
    BY <2>2 DEF PushGet
  <2>3. CASE PushAvail(s)
    BY <2>3, HeadTailProperties DEF PushAvail, FrameTypes
  <2>4. CASE PushFrameFails(s)
    BY <2>4 DEF PushFrameFails
  <2>5. CASE PushDeliver(s)
    BY <2>5 DEF PushDeliver
  <2>6. CASE PushPut(s)
    BY <2>6 DEF PushPut
  <2>7. CASE PushPutThrows(s)
    BY <2>7 DEF PushPutThrows
  <2>8. CASE PushReturn(s)
    BY <2>8 DEF PushReturn
  <2>9. CASE PushCaught(s)
    BY <2>9 DEF PushCaught
  <2>10. CASE PushExceptionDone(s)
    BY <2>10 DEF PushExceptionDone
  <2>11. CASE PushExit(s)
    BY <2>11 DEF PushExit
  <2>12. CASE PushFill(s)
    BY <2>12 DEF PushFill
  <2> QED BY <1>2, <2>1, <2>2, <2>3, <2>4, <2>5, <2>6, <2>7, <2>8, <2>9, <2>10, <2>11,
      <2>12 DEF PushStep, stateVars, driverVars, sourceVars, frameVars, callVars
<1>3. CASE Open
  BY <1>3 DEF Open, sourceVars, RunLocated
<1>4. CASE UNCHANGED vars
  BY <1>4 DEF vars, stateVars, driverVars, sourceVars, frameVars, callVars, RunLocated
<1> QED BY <1>1, <1>2, <1>3, <1>4 DEF Next

(* Push threads are born with startCapture() and die with run(). *)
LEMMA ThreadOfSourceStep ==
  ASSUME IInv, [Next]_vars
  PROVE  ThreadOfSource'
<1> USE Types DEF IInv, ThreadOfSource, SourceTypes, RunFrom
<1>1. ASSUME NEW t \in Threads, Call(t) \/ CallStep(t) PROVE ThreadOfSource'
  <2>1. CASE StartSource(t)
    BY <2>1 DEF StartSource
  <2>2. CASE StartUndo(t)
    BY <2>2 DEF StartUndo, SourceStop, SourceInterrupt, SourceJoin
  <2>3. CASE StopSource(t)
    BY <2>3 DEF StopSource, SourceStop, SourceInterrupt, SourceJoin
  <2>4. CASE UNCHANGED <<run, pushState>>
    BY <2>4 DEF ThreadOfSource
  <2> QED BY <1>1, <2>1, <2>2, <2>3, <2>4 DEF Call, CallStep, SetCaptureCallback,
      RecycleCall, StartCall, StopCall, ReleaseCall, VideoInputCall, VideoInputNative,
      StartWait, StartNative, StartCommit, StartFill, StartRollback, StopNative,
      StopUsers, StopRecycle, StopClear, StopCommit, ReleaseMark, ReleaseNative,
      ReleaseCommit, RecycleTemp, RecycleEnqueue, RecyclePut, RecycleDone, stateVars,
      driverVars, sourceVars, frameVars, callVars
<1>2. ASSUME NEW s \in Sources, PushStep(s) \/ PushFill(s) PROVE ThreadOfSource'
  <2>1. CASE PushLoop(s)
    BY <2>1 DEF PushLoop
  <2>2. CASE PushGet(s)
    BY <2>2 DEF PushGet
  <2>3. CASE PushAvail(s)
    BY <2>3 DEF PushAvail
  <2>4. CASE PushFrameFails(s)
    BY <2>4 DEF PushFrameFails
  <2>5. CASE PushDeliver(s)
    BY <2>5 DEF PushDeliver
  <2>6. CASE PushPut(s)
    BY <2>6 DEF PushPut
  <2>7. CASE PushPutThrows(s)
    BY <2>7 DEF PushPutThrows
  <2>8. CASE PushReturn(s)
    BY <2>8 DEF PushReturn
  <2>9. CASE PushCaught(s)
    BY <2>9 DEF PushCaught
  <2>10. CASE PushExceptionDone(s)
    BY <2>10 DEF PushExceptionDone
  <2>11. CASE PushExit(s)
    BY <2>11 DEF PushExit
  <2>12. CASE PushFill(s)
    BY <2>12 DEF PushFill
  <2> QED BY <1>2, <2>1, <2>2, <2>3, <2>4, <2>5, <2>6, <2>7, <2>8, <2>9, <2>10, <2>11,
      <2>12 DEF PushStep, stateVars, driverVars, sourceVars, frameVars, callVars
<1>3. CASE Open
  BY <1>3 DEF Open, sourceVars, ThreadOfSource
<1>4. CASE UNCHANGED vars
  BY <1>4 DEF vars, stateVars, driverVars, sourceVars, frameVars, callVars, ThreadOfSource
<1> QED BY <1>1, <1>2, <1>3, <1>4 DEF Next

(* The frames and their queue, which never gets longer than its capacity. *)
LEMMA FrameTypesStep ==
  ASSUME IInv, [Next]_vars
  PROVE  FrameTypes'
<1> USE Types DEF IInv, TypeOK
<1>1. ASSUME NEW t \in Threads, Call(t) \/ CallStep(t) PROVE FrameTypes'
  <2>1. CASE \E f \in Frames : RecycleCall(t, f)
    BY <2>1 DEF RecycleCall, EnterRecycle, FrameTypes
  <2>2. CASE StartFill(t)
    <3>1. pos[t] \in Frames
      BY <2>2 DEF StartFill, At, CallLocated
    <3>2. /\ available' \in Seq(Frames) /\ Len(available') <= QueueCapacity
      BY <2>2, <3>1, AppendProperties, CapacityAssumption DEF StartFill, FrameTypes
    <3> QED BY <2>2, <3>2 DEF StartFill, FrameTypes
  <2>3. CASE StopRecycle(t)
    <3>1. lock' = lock \/ \E f \in Frames : lock' = [lock EXCEPT ![f] = t]
      <4>1. CASE pos[t] > NumBuffers
        BY <2>3, <4>1, CapacityAssumption, NumBuffersAssumption DEF StopRecycle, CallTypes
      <4>2. CASE pos[t] <= NumBuffers
        <5>1. pos[t] \in Frames
          BY <2>3, <4>2, NumBuffersAssumption DEF StopRecycle, At, CallTypes, CallLocated, Frames
        <5>2. EnterRecycle(t, pos[t])
          BY <2>3, <4>2, NumBuffersAssumption DEF StopRecycle, CallTypes
        <5> QED BY <5>1, <5>2 DEF EnterRecycle
      <4> QED BY <4>1, <4>2, NumBuffersAssumption DEF CallTypes
    <3> QED BY <2>3, <3>1 DEF StopRecycle, FrameTypes
  <2>4. CASE StopClear(t)
    BY <2>4, EmptySeq, CapacityAssumption DEF StopClear, FrameTypes
  <2>5. CASE StopCommit(t)
    BY <2>5 DEF StopCommit, FrameTypes
  <2>6. CASE RecycleTemp(t)
    BY <2>6 DEF RecycleTemp, LeaveRecycle, FrameTypes
  <2>7. CASE RecyclePut(t)
    <3>1. arg[t] \in Frames
      BY <2>7 DEF RecyclePut, At, CallLocated, InRecycle
    <3>2. /\ available' \in Seq(Frames) /\ Len(available') <= QueueCapacity
      <4>1. CASE available' = available
        BY <4>1 DEF FrameTypes
      <4>2. CASE available' = Append(available, arg[t]) /\ Len(available) < QueueCapacity
        BY <3>1, <4>2, AppendProperties, CapacityAssumption DEF FrameTypes
      <4> QED BY <2>7, <4>1, <4>2 DEF RecyclePut
    <3>3. lock' \in [Frames -> Threads \cup {None}]
      BY <2>7 DEF RecyclePut, LeaveRecycle, FrameTypes
    <3> QED BY <2>7, <3>2, <3>3 DEF RecyclePut, FrameTypes
  <2>8. CASE RecycleDone(t)
    BY <2>8 DEF RecycleDone, LeaveRecycle, FrameTypes
  <2>9. CASE UNCHANGED frameVars
    BY <2>9 DEF FrameTypes, frameVars
  <2> QED BY <1>1, <2>1, <2>2, <2>3, <2>4, <2>5, <2>6, <2>7, <2>8, <2>9 DEF Call,
      CallStep, SetCaptureCallback, StartCall, StopCall, ReleaseCall, VideoInputCall,
      VideoInputNative, StartSource, StartWait, StartNative, StartCommit, StartUndo,
      StartRollback, StopSource, StopNative, StopUsers, ReleaseMark, ReleaseNative,
      ReleaseCommit, RecycleEnqueue, stateVars, driverVars, sourceVars, frameVars,
      callVars, StartUndo, StopSource, SourceStop, SourceInterrupt, SourceJoin
<1>2. ASSUME NEW s \in Sources, PushStep(s) \/ PushFill(s) PROVE FrameTypes'
  <2>1. CASE PushAvail(s)
    <3>1. /\ available' \in Seq(Frames) /\ Len(available') <= QueueCapacity
      <4>1. CASE available' = available
        BY <4>1 DEF FrameTypes
      <4>2. CASE available' = Tail(available) /\ available # <<>>
        BY <4>2, HeadTailProperties, LenProperties, CapacityAssumption DEF FrameTypes
      <4> QED BY <2>1, <4>1, <4>2 DEF PushAvail
    <3> QED BY <2>1, <3>1 DEF PushAvail, FrameTypes
  <2>2. CASE PushFill(s)
    BY <2>2 DEF PushFill, FrameTypes
  <2>3. CASE PushDeliver(s)
    BY <2>3 DEF PushDeliver, FrameTypes, SourceTypes
  <2>4. CASE PushPut(s)
    BY <2>4 DEF PushPut, FrameTypes, RunLocated, RunFrom
  <2>5. CASE UNCHANGED frameVars
    BY <2>5 DEF FrameTypes, frameVars
  <2> QED BY <1>2, <2>1, <2>2, <2>3, <2>4, <2>5 DEF PushStep, PushLoop, PushGet,
      PushFrameFails, PushPutThrows, PushReturn, PushCaught, PushExceptionDone, PushExit,
      stateVars, driverVars, sourceVars, frameVars, callVars, StartUndo, StopSource,
      SourceStop, SourceInterrupt, SourceJoin
<1>3. CASE Open
  BY <1>3 DEF Open, frameVars, FrameTypes
<1>4. CASE UNCHANGED vars
  BY <1>4 DEF vars, stateVars, driverVars, sourceVars, frameVars, callVars, FrameTypes,
    frameVars
<1> QED BY <1>1, <1>2, <1>3, <1>4 DEF Next

(* The local variables of calls. *)
LEMMA CallTypesStep ==
  ASSUME IInv, [Next]_vars
  PROVE  CallTypes'
<1> USE Types DEF IInv, CallTypes, CallLocated, Locations, InStart, InStop, InRecycle,
    InRelease
<1>1. ASSUME NEW t \in Threads, Call(t) \/ CallStep(t) PROVE CallTypes'
  <2>1. CASE \E f \in Frames : RecycleCall(t, f)
    BY <2>1 DEF RecycleCall, EnterRecycle, Goto, Frames
  <2>2. CASE StartCall(t)
    BY <2>2 DEF StartCall, Goto, Step, Frames
  <2>3. CASE StopCall(t)
    BY <2>3 DEF StopCall, Goto, Step, Frames
  <2>4. CASE ReleaseCall(t)
    BY <2>4 DEF ReleaseCall, Goto, Step, Frames
  <2>5. CASE VideoInputCall(t)
    BY <2>5 DEF VideoInputCall, Goto, Step, Frames
  <2>6. CASE VideoInputNative(t)
    BY <2>6 DEF VideoInputNative, Goto, Step, Frames
  <2>7. CASE StartSource(t)
    BY <2>7 DEF StartSource, At, Goto, Frames
  <2>8. CASE StartWait(t)
    BY <2>8 DEF StartWait, Goto, Step, Frames
  <2>9. CASE StartNative(t)
    BY <2>9 DEF StartNative, Goto, Step, Frames
  <2>10. CASE StartCommit(t)
    BY <2>10, NumBuffersAssumption DEF StartCommit, Goto, Step, Frames
  <2>11. CASE StartFill(t)
    BY <2>11, NumBuffersAssumption DEF StartFill, At, Goto, Frames
  <2>12. CASE StartUndo(t)
    <3>1. CASE SourceStop(t, "undo_source", "undo_interrupt", "undo_rollback")
      <4>1. CASE pushSource = None
        BY <3>1, <4>1 DEF SourceStop, Goto
      <4>2. CASE pushSource # None /\ pushState[pushSource] = "RUNNING"
        BY <3>1, <4>2 DEF SourceStop, Goto, SourceTypes
      <4>3. CASE pushSource # None /\ pushState[pushSource] # "RUNNING"
        BY <3>1, <4>3 DEF SourceStop, Goto
      <4> QED BY <4>1, <4>2, <4>3
    <3>2. CASE SourceInterrupt(t, "undo_interrupt", "undo_join")
      BY <3>2 DEF SourceInterrupt, Step, At, Goto
    <3>3. CASE SourceJoin(t, "undo_join", "undo_rollback")
      BY <3>3 DEF SourceJoin, Goto
    <3> QED BY <2>12, <3>1, <3>2, <3>3 DEF StartUndo
  <2>13. CASE StartRollback(t)
    BY <2>13 DEF StartRollback, Goto, Step, Frames
  <2>14. CASE StopSource(t)
    <3>1. CASE SourceStop(t, "stop_source", "stop_interrupt", "stop_native")
      <4>1. CASE pushSource = None
        BY <3>1, <4>1 DEF SourceStop, Goto
      <4>2. CASE pushSource # None /\ pushState[pushSource] = "RUNNING"
        BY <3>1, <4>2 DEF SourceStop, Goto, SourceTypes
      <4>3. CASE pushSource # None /\ pushState[pushSource] # "RUNNING"
        BY <3>1, <4>3 DEF SourceStop, Goto
      <4> QED BY <4>1, <4>2, <4>3
    <3>2. CASE SourceInterrupt(t, "stop_interrupt", "stop_join")
      BY <3>2 DEF SourceInterrupt, Step, At, Goto
    <3>3. CASE SourceJoin(t, "stop_join", "stop_native")
      BY <3>3 DEF SourceJoin, Goto
    <3> QED BY <2>14, <3>1, <3>2, <3>3 DEF StopSource
  <2>15. CASE StopNative(t)
    BY <2>15 DEF StopNative, Goto, Step, Frames
  <2>16. CASE StopUsers(t)
    <3>1. CASE Goto(t, "stop_recycle") /\ pos' = [pos EXCEPT ![t] = 1]
      BY <2>16, <3>1, NumBuffersAssumption DEF StopUsers, Goto
    <3>2. CASE UNCHANGED <<pc, pos>>
      BY <2>16, <3>2 DEF StopUsers
    <3> QED BY <2>16, <3>1, <3>2 DEF StopUsers
  <2>17. CASE StopRecycle(t)
    <3>1. CASE pos[t] > NumBuffers
      BY <2>17, <3>1, NumBuffersAssumption DEF StopRecycle, Goto
    <3>2. CASE pos[t] <= NumBuffers
      <4>1. pos[t] \in Frames
        BY <2>17, <3>2, NumBuffersAssumption DEF StopRecycle, At, Frames
      <4>2. pos' = [pos EXCEPT ![t] = pos[t] + 1] /\ EnterRecycle(t, pos[t])
        BY <2>17, <3>2, NumBuffersAssumption DEF StopRecycle
      <4>3. pos[t] + 1 \in 1 .. NumBuffers + 1
        BY <4>1, NumBuffersAssumption DEF Frames
      <4>4. CASE UNCHANGED <<arg, pc>>
        BY <2>17, <4>2, <4>3, <4>4, NumBuffersAssumption DEF StopRecycle, At
      <4>5. CASE /\ arg' = [arg EXCEPT ![t] = pos[t]]
                 /\ \E l \in {"recycle_temp", "recycle_enqueue"} : Goto(t, l)
        BY <2>17, <4>1, <4>2, <4>3, <4>5, NumBuffersAssumption DEF StopRecycle, Goto
      <4> QED BY <4>2, <4>4, <4>5 DEF EnterRecycle
    <3> QED BY <3>1, <3>2, NumBuffersAssumption
  <2>18. CASE StopClear(t)
    BY <2>18 DEF StopClear, Goto, Step, Frames
  <2>19. CASE StopCommit(t)
    BY <2>19 DEF StopCommit, Goto, Step, Frames
  <2>20. CASE ReleaseMark(t)
    BY <2>20 DEF ReleaseMark, Goto, Step, Frames
  <2>21. CASE ReleaseNative(t)
    BY <2>21 DEF ReleaseNative, Goto, Step, Frames
  <2>22. CASE ReleaseCommit(t)
    BY <2>22 DEF ReleaseCommit, Goto, Step, Frames
  <2>23. CASE RecycleTemp(t)
    BY <2>23 DEF RecycleTemp, LeaveRecycle, Back, At, Goto, Frames
  <2>24. CASE RecycleEnqueue(t)
    BY <2>24 DEF RecycleEnqueue, Step, At, Goto, Frames
  <2>25. CASE RecyclePut(t)
    BY <2>25 DEF RecyclePut, LeaveRecycle, Back, At, Goto, Frames
  <2>26. CASE RecycleDone(t)
    BY <2>26 DEF RecycleDone, LeaveRecycle, Back, At, Goto, Frames
  <2>27. CASE UNCHANGED callVars
    BY <2>27 DEF CallTypes, callVars
  <2> QED BY <1>1, <2>1, <2>2, <2>3, <2>4, <2>5, <2>6, <2>7, <2>8, <2>9, <2>10, <2>11,
      <2>12, <2>13, <2>14, <2>15, <2>16, <2>17, <2>18, <2>19, <2>20, <2>21, <2>22, <2>23,
      <2>24, <2>25, <2>26, <2>27 DEF Call, CallStep, SetCaptureCallback, stateVars,
      driverVars, sourceVars, frameVars, callVars
<1>2. ASSUME NEW s \in Sources, PushStep(s) \/ PushFill(s) PROVE CallTypes'
  <2>1. CASE UNCHANGED callVars
    BY <2>1 DEF CallTypes, callVars
  <2> QED BY <1>2, <2>1 DEF PushStep, PushLoop, PushGet, PushAvail, PushFrameFails,
      PushDeliver, PushPut, PushPutThrows, PushReturn, PushCaught, PushExceptionDone,
      PushExit, PushFill, stateVars, driverVars, sourceVars, frameVars, callVars
<1>3. CASE Open
  BY <1>3 DEF Open, callVars, CallTypes
<1>4. CASE UNCHANGED vars
  BY <1>4 DEF vars, stateVars, driverVars, sourceVars, frameVars, callVars, CallTypes,
    callVars
<1> QED BY <1>1, <1>2, <1>3, <1>4 DEF Next

(* What a call has set before it gets to a location stays set there. *)
LEMMA CallLocatedStep ==
  ASSUME IInv, [Next]_vars
  PROVE  CallLocated'
<1> USE Types DEF IInv, CallTypes, CallLocated, Locations, InStart, InStop, InRecycle,
    InRelease
<1>1. ASSUME NEW t \in Threads, Call(t) \/ CallStep(t) PROVE CallLocated'
  <2>1. CASE \E f \in Frames : RecycleCall(t, f)
    BY <2>1 DEF RecycleCall, EnterRecycle, Goto, Frames
  <2>2. CASE StartCall(t)
    BY <2>2 DEF StartCall, Goto, Step, Frames
  <2>3. CASE StopCall(t)
    BY <2>3 DEF StopCall, Goto, Step, Frames
  <2>4. CASE ReleaseCall(t)
    BY <2>4 DEF ReleaseCall, Goto, Step, Frames
  <2>5. CASE VideoInputCall(t)
    BY <2>5 DEF VideoInputCall, Goto, Step, Frames
  <2>6. CASE VideoInputNative(t)
    BY <2>6 DEF VideoInputNative, Goto, Step, Frames
  <2>7. CASE StartSource(t)
    BY <2>7 DEF StartSource, At, Goto, Frames
  <2>8. CASE StartWait(t)
    BY <2>8 DEF StartWait, Goto, Step, Frames
  <2>9. CASE StartNative(t)
    BY <2>9 DEF StartNative, Goto, Step, Frames
  <2>10. CASE StartCommit(t)
    BY <2>10, NumBuffersAssumption DEF StartCommit, Goto, Step, Frames
  <2>11. CASE StartFill(t)
    BY <2>11, NumBuffersAssumption DEF StartFill, At, Goto, Frames
  <2>12. CASE StartUndo(t)
    <3>1. CASE SourceStop(t, "undo_source", "undo_interrupt", "undo_rollback")
      <4>1. CASE pushSource = None
        BY <3>1, <4>1 DEF SourceStop, Goto
      <4>2. CASE pushSource # None /\ pushState[pushSource] = "RUNNING"
        BY <3>1, <4>2 DEF SourceStop, Goto, SourceTypes
      <4>3. CASE pushSource # None /\ pushState[pushSource] # "RUNNING"
        BY <3>1, <4>3 DEF SourceStop, Goto
      <4> QED BY <4>1, <4>2, <4>3
    <3>2. CASE SourceInterrupt(t, "undo_interrupt", "undo_join")
      BY <3>2 DEF SourceInterrupt, Step, At, Goto
    <3>3. CASE SourceJoin(t, "undo_join", "undo_rollback")
      BY <3>3 DEF SourceJoin, Goto
    <3> QED BY <2>12, <3>1, <3>2, <3>3 DEF StartUndo
  <2>13. CASE StartRollback(t)
    BY <2>13 DEF StartRollback, Goto, Step, Frames
  <2>14. CASE StopSource(t)
    <3>1. CASE SourceStop(t, "stop_source", "stop_interrupt", "stop_native")
      <4>1. CASE pushSource = None
        BY <3>1, <4>1 DEF SourceStop, Goto
      <4>2. CASE pushSource # None /\ pushState[pushSource] = "RUNNING"
        BY <3>1, <4>2 DEF SourceStop, Goto, SourceTypes
      <4>3. CASE pushSource # None /\ pushState[pushSource] # "RUNNING"
        BY <3>1, <4>3 DEF SourceStop, Goto
      <4> QED BY <4>1, <4>2, <4>3
    <3>2. CASE SourceInterrupt(t, "stop_interrupt", "stop_join")
      BY <3>2 DEF SourceInterrupt, Step, At, Goto
    <3>3. CASE SourceJoin(t, "stop_join", "stop_native")
      BY <3>3 DEF SourceJoin, Goto
    <3> QED BY <2>14, <3>1, <3>2, <3>3 DEF StopSource
  <2>15. CASE StopNative(t)
    BY <2>15 DEF StopNative, Goto, Step, Frames
  <2>16. CASE StopUsers(t)
    <3>1. CASE Goto(t, "stop_recycle") /\ pos' = [pos EXCEPT ![t] = 1]
      BY <2>16, <3>1, NumBuffersAssumption DEF StopUsers, Goto
    <3>2. CASE UNCHANGED <<pc, pos>>
      BY <2>16, <3>2 DEF StopUsers
    <3> QED BY <2>16, <3>1, <3>2 DEF StopUsers
  <2>17. CASE StopRecycle(t)
    <3>1. CASE pos[t] > NumBuffers
      BY <2>17, <3>1, NumBuffersAssumption DEF StopRecycle, Goto
    <3>2. CASE pos[t] <= NumBuffers
      <4>1. pos[t] \in Frames
        BY <2>17, <3>2, NumBuffersAssumption DEF StopRecycle, At, Frames
      <4>2. pos' = [pos EXCEPT ![t] = pos[t] + 1] /\ EnterRecycle(t, pos[t])
        BY <2>17, <3>2, NumBuffersAssumption DEF StopRecycle
      <4>3. pos[t] + 1 \in 1 .. NumBuffers + 1
        BY <4>1, NumBuffersAssumption DEF Frames
      <4>4. CASE UNCHANGED <<arg, pc>>
        BY <2>17, <4>2, <4>3, <4>4, NumBuffersAssumption DEF StopRecycle, At
      <4>5. CASE /\ arg' = [arg EXCEPT ![t] = pos[t]]
                 /\ \E l \in {"recycle_temp", "recycle_enqueue"} : Goto(t, l)
        BY <2>17, <4>1, <4>2, <4>3, <4>5, NumBuffersAssumption DEF StopRecycle, Goto
      <4> QED BY <4>2, <4>4, <4>5 DEF EnterRecycle
    <3> QED BY <3>1, <3>2, NumBuffersAssumption
  <2>18. CASE StopClear(t)
    BY <2>18 DEF StopClear, Goto, Step, Frames
  <2>19. CASE StopCommit(t)
    BY <2>19 DEF StopCommit, Goto, Step, Frames
  <2>20. CASE ReleaseMark(t)
    BY <2>20 DEF ReleaseMark, Goto, Step, Frames
  <2>21. CASE ReleaseNative(t)
    BY <2>21 DEF ReleaseNative, Goto, Step, Frames
  <2>22. CASE ReleaseCommit(t)
    BY <2>22 DEF ReleaseCommit, Goto, Step, Frames
  <2>23. CASE RecycleTemp(t)
    BY <2>23 DEF RecycleTemp, LeaveRecycle, Back, At, Goto, Frames
  <2>24. CASE RecycleEnqueue(t)
    BY <2>24 DEF RecycleEnqueue, Step, At, Goto, Frames
  <2>25. CASE RecyclePut(t)
    BY <2>25 DEF RecyclePut, LeaveRecycle, Back, At, Goto, Frames
  <2>26. CASE RecycleDone(t)
    BY <2>26 DEF RecycleDone, LeaveRecycle, Back, At, Goto, Frames
  <2>27. CASE UNCHANGED callVars
    BY <2>27 DEF CallLocated, callVars
  <2> QED BY <1>1, <2>1, <2>2, <2>3, <2>4, <2>5, <2>6, <2>7, <2>8, <2>9, <2>10, <2>11,
      <2>12, <2>13, <2>14, <2>15, <2>16, <2>17, <2>18, <2>19, <2>20, <2>21, <2>22, <2>23,
      <2>24, <2>25, <2>26, <2>27 DEF Call, CallStep, SetCaptureCallback, stateVars,
      driverVars, sourceVars, frameVars, callVars
<1>2. ASSUME NEW s \in Sources, PushStep(s) \/ PushFill(s) PROVE CallLocated'
  <2>1. CASE UNCHANGED callVars
    BY <2>1 DEF CallLocated, callVars
  <2> QED BY <1>2, <2>1 DEF PushStep, PushLoop, PushGet, PushAvail, PushFrameFails,
      PushDeliver, PushPut, PushPutThrows, PushReturn, PushCaught, PushExceptionDone,
      PushExit, PushFill, stateVars, driverVars, sourceVars, frameVars, callVars
<1>3. CASE Open
  BY <1>3 DEF Open, callVars, CallLocated
<1>4. CASE UNCHANGED vars
  BY <1>4 DEF vars, stateVars, driverVars, sourceVars, frameVars, callVars, CallLocated,
    callVars
<1> QED BY <1>1, <1>2, <1>3, <1>4 DEF Next

LEMMA InvInit == Init => IInv
<1> SUFFICES ASSUME Init PROVE IInv
  OBVIOUS
<1>1. MonitorTypes
  BY DEF Init, StateInit, MonitorTypes, GrabberStates
<1>2. DriverTypes
  BY Zenon DEF Init, DriverInit, DriverTypes
<1>3. SourceTypes
  BY DEF Init, SourceTypes, RunLocations
<1>4. FrameTypes
  <2>1. available \in Seq(Frames) /\ Len(available) <= QueueCapacity
    BY EmptySeq, CapacityAssumption DEF Init
  <2>2. bufferIndex \in [Frames -> Buffers] /\ lastIndex \in Buffers
    BY NumBuffersAssumption DEF Init, Buffers
  <2>3. recycled \in [Frames -> BOOLEAN] /\ lock \in [Frames -> Threads \cup {None}] /\ held \subseteq Frames
    BY DEF Init
  <2> QED BY <2>1, <2>2, <2>3 DEF FrameTypes
<1>5. CallTypes
  BY NumBuffersAssumption DEF Init, CallTypes, Locations
<1>6. CallLocated /\ RunLocated /\ ThreadOfSource
  BY DEF Init, CallLocated, RunLocated, ThreadOfSource, InRecycle
<1>7. UsersCounted
  <2>1. Inside = {}
    BY DEF Init, Inside, InGetNext
  <2> QED BY <2>1, FS_EmptySet DEF Init, StateInit, UsersCounted
<1> QED BY <1>1, <1>2, <1>3, <1>4, <1>5, <1>6, <1>7, Types DEF IInv

(* The primed groups make up the primed TypeOK. *)
LEMMA InvStep == IInv /\ [Next]_vars => IInv'
<1> SUFFICES ASSUME IInv, [Next]_vars PROVE IInv'
  OBVIOUS
<1>1. UsersCounted' /\ SourceTypes'
  BY UsersCountedStep, SourceTypesStep
<1>2. users' \in Nat
  <2>1. IsFiniteSet(Inside')
    BY FS_Subset, ThreadsAssumption DEF Inside
  <2> QED BY <1>1, <2>1, FS_CardinalityType DEF UsersCounted
<1>3. MonitorTypes' /\ DriverTypes' /\ FrameTypes' /\ CallTypes'
  BY <1>2, MonitorTypesStep, DriverTypesStep, FrameTypesStep, CallTypesStep
<1>4. CallLocated' /\ RunLocated' /\ ThreadOfSource'
  BY CallLocatedStep, RunLocatedStep, ThreadOfSourceStep
<1>5. TypeOK'
  BY <1>1, <1>3, Zenon DEF TypeOK, MonitorTypes, DriverTypes, SourceTypes, FrameTypes, CallTypes
<1> QED BY <1>1, <1>4, <1>5 DEF IInv

LEMMA Invariance == Spec => []IInv
  BY InvInit, InvStep, PTL DEF Spec

-----------------------------------------------------------------------------
(* The variables keep their types: in particular the queue of available    *)
(* frames never exceeds its capacity, every location finds the frame, the  *)
(* position and the source it works with, and users does not go below 0.   *)
THEOREM TypeCorrect == Spec => []TypeOK
<1>1. IInv => TypeOK
  BY DEF IInv
<1> QED BY <1>1, Invariance, PTL

(* State.users is the number of push threads inside getNextVideoFrame(),   *)
(* for any number of sources and threads and whatever fails.               *)
THEOREM UsersAreCounted == Spec => []UsersCounted
<1>1. IInv => UsersCounted
  BY DEF IInv
<1> QED BY <1>1, Invariance, PTL

-----------------------------------------------------------------------------
(***************************************************************************)
(* Who is where: what the two fields of the State monitor say about the    *)
(* calls in progress, when one thread starts and releases the grabber      *)
(* (OneOwner).  Nothing else is assumed: any thread may stop the capture   *)
(* at any time, and everything may fail.                                   *)
(***************************************************************************)

(* From INIT, start() and release() do not look at temp: two threads that  *)
(* start or release the grabber are not kept apart by the code.            *)
OneOwner == \A t, u \in Starters \cup Releasers : t = u

(* t is in stopCapture(), its loop over the frames included. *)
Stops(t) == pc[t] \in InStop \/ (pc[t] \in InRecycle /\ pos[t] # 0)

(* The pairs of state and temp that occur.                                 *)
PhasesPaired ==
  /\ state = "UNINIT" => temp \in {"UNINIT", "INIT"}
  /\ state = "INIT" => temp \in {"INIT", "STARTED", "RELEASED"}
  /\ state = "STARTED" => temp \in {"STARTED", "STOPPED"}
  /\ state = "STOPPED" => temp \in {"STOPPED", "STARTED", "RELEASED"}
  /\ state = "RELEASED" => temp = "RELEASED"

(* Who can be at a location of t, and what the fields are meanwhile: no    *)
(* other call moves them on before this one commits or rolls back.         *)
Placed(t) ==
  /\ pc[t] \in InStart => t \in Starters
  /\ pc[t] \in InRelease => t \in Releasers
  /\ Stops(t) => t \in Stoppers \cup Releasers
  /\ pc[t] \in InStart \ {"start_fill"} => temp = "STARTED" /\ state \in {"INIT", "STOPPED"}
  /\ Stops(t) => temp = "STOPPED" /\ state = "STARTED"
  /\ pc[t] \in {"release_native", "release_commit"} => temp = "RELEASED" /\ state \in {"INIT", "STOPPED"}
  /\ pos[t] # 0 => pc[t] \in {"start_fill", "stop_recycle", "recycle_temp"}
  /\ releasing[t] => t \in Releasers /\ Stops(t)
  /\ t \in waiting => pc[t] \in {"start_wait", "stop_users"}

(* Every thread is placed so.                                              *)
CallsPlaced == \A t \in Threads : Placed(t)

(* No two threads are in stopCapture().                                    *)
OneStops == \A t, u \in Threads : Stops(t) /\ Stops(u) => t = u

(* The inductive invariant of this module.                                 *)
CInv == IInv /\ PhasesPaired /\ CallsPlaced /\ OneStops /\ NoLostWakeup

(* The steps of calls.  A call begins where the monitor lets it, and what  *)
(* follows is where the monitor was left by the step before.               *)
LEMMA CallKeepsCalls ==
  ASSUME OneOwner, CInv, NEW t \in Threads, Call(t) \/ CallStep(t)
  PROVE  PhasesPaired' /\ CallsPlaced' /\ OneStops'
<1> USE Types DEF CInv, IInv, PhasesPaired, CallsPlaced, OneStops, OneOwner, Placed, Stops,
    CallTypes, InStart, InStop, InRecycle, InRelease, At, Goto, Step, stateVars, Free
<1>1. ASSUME NEW s \in Sources, SetCaptureCallback(t, s) PROVE PhasesPaired' /\ CallsPlaced' /\ OneStops'
  BY <1>1, RolesAssumption DEF SetCaptureCallback, callVars
<1>2. ASSUME NEW f \in Frames, RecycleCall(t, f) PROVE PhasesPaired' /\ CallsPlaced' /\ OneStops'
  BY <1>2, RolesAssumption DEF RecycleCall, EnterRecycle, IsStarted, NotReleased
<1>3. CASE StartCall(t)
  BY <1>3, RolesAssumption DEF StartCall, MayStart, Request
<1>4. CASE StopCall(t)
  BY <1>4, RolesAssumption DEF StopCall, MayStop, Request
<1>5. CASE ReleaseCall(t)
  BY <1>5, RolesAssumption DEF ReleaseCall, MayStop, Request
<1>6. CASE VideoInputCall(t)
  BY <1>6, RolesAssumption DEF VideoInputCall
<1>7. CASE VideoInputNative(t)
  BY <1>7, RolesAssumption DEF VideoInputNative
<1>8. CASE StartSource(t)
  BY <1>8, RolesAssumption DEF StartSource, Rollback
<1>9. CASE StartWait(t)
  BY <1>9, RolesAssumption DEF StartWait, Passes, Waits
<1>10. CASE StartNative(t)
  BY <1>10, RolesAssumption DEF StartNative
<1>11. CASE StartCommit(t)
  BY <1>11, RolesAssumption DEF StartCommit, Commit
<1>12. CASE StartFill(t)
  BY <1>12, RolesAssumption, NumBuffersAssumption DEF StartFill, CallLocated, Frames
<1>13. CASE StartUndo(t)
  BY <1>13, RolesAssumption DEF StartUndo, SourceStop, SourceInterrupt, SourceJoin
<1>14. CASE StartRollback(t)
  BY <1>14, RolesAssumption DEF StartRollback, Rollback
<1>15. CASE StopSource(t)
  BY <1>15, RolesAssumption DEF StopSource, SourceStop, SourceInterrupt, SourceJoin
<1>16. CASE StopNative(t)
  BY <1>16, RolesAssumption DEF StopNative
<1>17. CASE StopUsers(t)
  BY <1>17, RolesAssumption DEF StopUsers, Passes, Waits
<1>18. CASE StopRecycle(t)
  BY <1>18, RolesAssumption DEF StopRecycle, EnterRecycle, IsStarted, NotReleased
<1>19. CASE StopClear(t)
  BY <1>19, RolesAssumption DEF StopClear
<1>20. CASE StopCommit(t)
  BY <1>20, RolesAssumption DEF StopCommit, Commit
<1>21. CASE ReleaseMark(t)
  BY <1>21, RolesAssumption DEF ReleaseMark, MayRelease, Request
<1>22. CASE ReleaseNative(t)
  BY <1>22, RolesAssumption DEF ReleaseNative
<1>23. CASE ReleaseCommit(t)
  BY <1>23, RolesAssumption DEF ReleaseCommit, Commit
<1>24. CASE RecycleTemp(t)
  BY <1>24, RolesAssumption DEF RecycleTemp, LeaveRecycle, Back
<1>25. CASE RecycleEnqueue(t)
  BY <1>25, RolesAssumption DEF RecycleEnqueue
<1>26. CASE RecyclePut(t)
  BY <1>26, RolesAssumption DEF RecyclePut, LeaveRecycle, Back
<1>27. CASE RecycleDone(t)
  BY <1>27, RolesAssumption DEF RecycleDone, LeaveRecycle, Back
<1> QED BY <1>1, <1>2, <1>3, <1>4, <1>5, <1>6, <1>7, <1>8, <1>9, <1>10, <1>11, <1>12, <1>13, <1>14, <1>15,
    <1>16, <1>17, <1>18, <1>19, <1>20, <1>21, <1>22, <1>23, <1>24, <1>25, <1>26, <1>27 DEF Call, CallStep

(* A notify() that finds a waiting thread finds the only one: the thread   *)
(* that starts waits while there is no user, the one that stops while      *)
(* there is one.                                                           *)
LEMMA AloneInWaitSet ==
  ASSUME OneOwner, CInv, NEW t \in waiting, NEW u \in waiting
  PROVE  t = u
<1>1. t \in Threads /\ u \in Threads
  BY Types DEF CInv, IInv, MonitorTypes
<1>2. \A w \in waiting : \/ pc[w] = "start_wait" /\ w \in Starters /\ users = 0
                         \/ Stops(w) /\ users # 0
  BY Types DEF CInv, IInv, MonitorTypes, CallsPlaced, Placed, NoLostWakeup, At, InStart, InStop, Stops
<1> QED BY <1>1, <1>2 DEF OneOwner, CInv, OneStops

(* A notify() wakes one thread, and never does a second sleep: the owner   *)
(* waits for users in startCapture() and stopCapture() alone, and they     *)
(* exclude each other.                                                     *)
LEMMA NotifyWakesAll ==
  ASSUME OneOwner, CInv, Notify
  PROVE  waiting' = {}
<1>1. CASE waiting = {}
  BY <1>1 DEF Notify
<1>2. CASE waiting # {}
  <2>1. PICK w \in waiting : waiting' = waiting \ {w}
    BY <1>2 DEF Notify
  <2> QED BY <2>1, AloneInWaitSet
<1> QED BY <1>1, <1>2

(* A push thread changes who waits and how many users there are, and moves *)
(* no call on.                                                             *)
LEMMA PushKeepsCalls ==
  ASSUME NEW s \in Sources, PushStep(s) \/ PushFill(s)
  PROVE  /\ UNCHANGED <<state, temp, callVars>>
         /\ \/ UNCHANGED <<users, waiting>>
            \/ GetUser
            \/ PutUser
  BY Zenon DEF PushStep, PushLoop, PushGet, PushAvail, PushFrameFails, PushDeliver, PushPut,
    PushPutThrows, PushReturn, PushCaught, PushExceptionDone, PushExit, PushFill, stateVars,
    GetUser, PutUser

(* The invariant holds of a new grabber.                                   *)
LEMMA CallsInit == Init => CInv
  BY InvInit DEF CInv, Init, StateInit, PhasesPaired, CallsPlaced, OneStops, NoLostWakeup,
    Placed, Stops, InStart, InStop, InRecycle, InRelease

(* Every step keeps the invariant.                                         *)
LEMMA CallsStep ==
  ASSUME OneOwner, CInv, [Next]_vars
  PROVE  CInv'
<1> USE Types DEF MonitorTypes, CallTypes
<1>1. IInv /\ TypeOK /\ IInv' /\ users \in Nat /\ users' \in Nat
  BY InvStep, Types DEF CInv, IInv, TypeOK
<1>2. ASSUME NEW t \in Threads, Call(t) \/ CallStep(t)
      PROVE  CInv'
  <2>1. PhasesPaired' /\ CallsPlaced' /\ OneStops'
    BY <1>2, CallKeepsCalls
  <2>2. NoLostWakeup'
    <3> USE DEF CInv, NoLostWakeup, CallsPlaced, Placed, At, Goto, Step, stateVars
    <3>1. CASE StartWait(t)
      BY <1>1, <3>1 DEF StartWait, Passes, Waits
    <3>2. CASE StopUsers(t)
      BY <1>1, <3>2 DEF StopUsers, Passes, Waits
    <3>3. CASE StartUndo(t)
      BY <1>1, <3>3 DEF StartUndo, SourceStop, SourceInterrupt, SourceJoin
    <3>4. CASE StopSource(t)
      BY <1>1, <3>4 DEF StopSource, SourceStop, SourceInterrupt, SourceJoin
    <3>5. CASE UNCHANGED <<users, waiting>> /\ \A u \in waiting : pc'[u] = pc[u]
      BY <3>5
    <3> QED BY <1>1, <1>2, <3>1, <3>2, <3>3, <3>4, <3>5 DEF Call, CallStep, SetCaptureCallback,
        RecycleCall, EnterRecycle, StartCall, StopCall, ReleaseCall, VideoInputCall, Free, VideoInputNative,
        StartSource, StartNative, StartCommit, StartFill, StartRollback, StopNative,
        StopRecycle, StopClear, StopCommit, ReleaseMark, ReleaseNative, ReleaseCommit,
        RecycleTemp, RecycleEnqueue, RecyclePut, RecycleDone, LeaveRecycle, Request, Rollback, Commit,
        callVars
  <2> QED BY <1>1, <2>1, <2>2 DEF CInv
<1>3. ASSUME NEW s \in Sources, PushStep(s) \/ PushFill(s)
      PROVE  CInv'
  <2>1. UNCHANGED <<state, temp, callVars>>
    BY <1>3, PushKeepsCalls
  <2>2. CASE UNCHANGED <<users, waiting>>
    BY <1>1, <2>1, <2>2 DEF CInv, PhasesPaired, CallsPlaced, OneStops, NoLostWakeup, Placed, Stops,
      callVars, At
  <2>3. CASE waiting' = {}
    BY <1>1, <2>1, <2>3 DEF CInv, PhasesPaired, CallsPlaced, OneStops, NoLostWakeup, Placed, Stops,
      callVars, At
  <2>4. CASE UNCHANGED waiting /\ users # 0 /\ users' # 0
    BY <1>1, <2>1, <2>4 DEF CInv, PhasesPaired, CallsPlaced, OneStops, NoLostWakeup, Placed, Stops,
      callVars, At
  <2> QED BY <1>1, <1>3, <2>2, <2>3, <2>4, NotifyWakesAll, PushKeepsCalls DEF GetUser, PutUser
<1>4. CASE Open
  BY <1>1, <1>4 DEF Open, MayInit, callVars, CInv, PhasesPaired, CallsPlaced, OneStops, NoLostWakeup,
    Placed, Stops, At
<1>5. CASE UNCHANGED vars
  BY <1>1, <1>5 DEF vars, stateVars, callVars, CInv, PhasesPaired, CallsPlaced, OneStops, NoLostWakeup,
    Placed, Stops, At
<1> QED BY <1>2, <1>3, <1>4, <1>5 DEF Next

(* So it always holds.                                                     *)
LEMMA CallsInvariance == OneOwner => (Spec => []CInv)
<1> SUFFICES ASSUME OneOwner PROVE Spec => []CInv
  OBVIOUS
<1>1. CInv /\ [Next]_vars => CInv'
  BY CallsStep
<1> QED BY <1>1, CallsInit, PTL DEF Spec

-----------------------------------------------------------------------------
(* notify() in place of notifyAll() loses no wakeup when one thread starts *)
(* and releases the grabber, whoever stops it: startCapture() and          *)
(* stopCapture() never wait in the State monitor's one wait set together.  *)
THEOREM NoWakeupIsLost == OneOwner => (Spec => []NoLostWakeup)
<1>1. CInv => NoLostWakeup
  BY DEF CInv
<1> QED BY <1>1, CallsInvariance, PTL
=============================================================================
