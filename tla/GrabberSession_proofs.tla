----------------------- MODULE GrabberSession_proofs ------------------------
(***************************************************************************)
(* What outlives a capture and what the application sees of it: no frame   *)
(* gets lost while capturing, a grabber at rest can be started again, and  *)
(* the grabber implements CaptureSession, step by step.                    *)
(***************************************************************************)
EXTENDS GrabberFrames_proofs

(* A capture that nobody has asked to stop,                                *)
Capturing == state = "STARTED" /\ temp = "STARTED"

(* or that is being started, with its push thread already alive.           *)
Underway == Capturing \/ \E t \in Threads : pc[t] \in {"start_wait", "start_native", "start_commit"}

(* From the start of the push thread to the request to stop, an interrupt  *)
(* is only ever one the push thread gave itself, on its way out of run().  *)
Undisturbed == Underway => \A s \in Sources : intr[s] => run[s] \in {"none", "loop", "exit"}

(* A recycle() that is about to end has put its frame into the queue, from *)
(* where a push thread may have taken it.                                  *)
PassedOn == Capturing => \A t \in Threads :
  pc[t] = "recycle_done" => InQueue(arg[t]) \/ \E s \in Sources : cur[s] = arg[t]

(* f is where startCapture() will add it, in the queue, with a push        *)
(* thread, with the application or on its way back.                        *)
Accounted(f) ==
  \/ InQueue(f) \/ f \in held
  \/ \E s \in Sources : cur[s] = f
  \/ \E t \in Threads : arg[t] = f
  \/ \E t \in Threads : pc[t] = "start_fill" /\ f >= pos[t]

(* While capturing every frame is.                                         *)
AllAccounted == Capturing => \A f \in Frames : Accounted(f)

(* The inductive invariant for frames that do not get lost.                *)
AInv == FInv /\ Undisturbed /\ PassedOn /\ AllAccounted

(* The device does not fail while it streams, every frame is converted,    *)
(* and the queue was made as long as the driver granted buffers.           *)
Lossless == Careful /\ Faults \cap {"dqbuf", "convert"} = {} /\ NumBuffers <= QueueCapacity

(* A frame about to be added is not in the queue, so there is room for it. *)
LEMMA RoomInQueue ==
  ASSUME FInv, NumBuffers <= QueueCapacity
  PROVE  QueueNeverFull
<1> SUFFICES ASSUME NEW t \in Threads, pc[t] \in {"recycle_put", "start_fill"}
             PROVE  Len(available) < QueueCapacity
  BY DEF QueueNeverFull
<1> USE FrameFacts, NumBuffersAssumption, CapacityAssumption DEF FInv, FramesOK
<1> DEFINE elems == {f \in Frames : InQueue(f)}
<1>1. PICK f \in Frames : ~InQueue(f)
  <2>1. CASE pc[t] = "recycle_put"
    BY <2>1, RecyclesItself DEF GivesApart, Gives
  <2>2. CASE pc[t] = "start_fill"
    BY <2>2 DEF FillApart, Frames
  <2> QED BY <2>1, <2>2
<1>2. IsFiniteSet(Frames) /\ Cardinality(Frames) = NumBuffers
  BY FS_Interval DEF Frames
<1>3. elems \subseteq Frames /\ elems # Frames
  BY <1>1
<1>4. IsFiniteSet(elems) /\ Cardinality(elems) = Len(available)
  BY QueueCounts
<1>5. Cardinality(elems) <= NumBuffers /\ Cardinality(elems) # NumBuffers
  <2> HIDE DEF elems
  <2> QED BY <1>2, <1>3, FS_Subset
<1>6. Len(available) \in Nat
  BY LenProperties
<1> QED BY <1>4, <1>5, <1>6

(* Only startCapture() brings the grabber to STARTED / STARTED. *)
LEMMA StartedByCommit ==
  ASSUME SInv, [Next]_vars, Capturing'
  PROVE  Capturing \/ \E t \in Threads : StartCommit(t)
<1> USE SourcesFacts, ThreadsAssumption DEF SInv, Capturing, CInv, CallsPlaced, Placed, Stops, InStart,
    InStop, InRelease, At, Goto, Step, RunFrom, stateVars, sourceVars, frameVars, callVars, driverVars
<1>1. ASSUME NEW t \in Threads, Call(t) \/ CallStep(t) PROVE Capturing \/ \E u \in Threads : StartCommit(u)
  <2>1. CASE \E s \in Sources : SetCaptureCallback(t, s)
    BY <2>1 DEF SetCaptureCallback
  <2>2. CASE \E f \in Frames : RecycleCall(t, f)
    BY <2>2 DEF RecycleCall
  <2>3. CASE StartCall(t)
    BY <2>3, Types DEF StartCall, MayStart, Request
  <2>4. CASE StopCall(t)
    BY <2>4 DEF StopCall, MayStop, Request, Free
  <2>5. CASE ReleaseCall(t)
    BY <2>5 DEF ReleaseCall, MayStop, Request, Free
  <2>6. CASE VideoInputCall(t)
    BY <2>6 DEF VideoInputCall, Free, NotReleased
  <2>7. CASE VideoInputNative(t)
    BY <2>7 DEF VideoInputNative
  <2>8. CASE StartSource(t)
    BY <2>8 DEF StartSource, Rollback
  <2>9. CASE StartWait(t)
    BY <2>9 DEF StartWait, Passes, Waits, stateVars
  <2>10. CASE StartNative(t)
    BY <2>10 DEF StartNative, StartCapture, StartCaptureFails
  <2>11. CASE StartCommit(t)
    BY <2>11
  <2>12. CASE StartFill(t)
    BY <2>12 DEF StartFill
  <2>13. CASE SourceStop(t, "undo_source", "undo_interrupt", "undo_rollback")
    BY <2>13 DEF SourceStop
  <2>14. CASE SourceInterrupt(t, "undo_interrupt", "undo_join")
    BY <2>14 DEF SourceInterrupt
  <2>15. CASE SourceJoin(t, "undo_join", "undo_rollback")
    BY <2>15 DEF SourceJoin, Interrupted, ClearInterrupt
  <2>16. CASE StartRollback(t)
    BY <2>16 DEF StartRollback, Rollback
  <2>17. CASE SourceStop(t, "stop_source", "stop_interrupt", "stop_native")
    BY <2>17 DEF SourceStop
  <2>18. CASE SourceInterrupt(t, "stop_interrupt", "stop_join")
    BY <2>18 DEF SourceInterrupt
  <2>19. CASE SourceJoin(t, "stop_join", "stop_native")
    BY <2>19 DEF SourceJoin, Interrupted, ClearInterrupt
  <2>20. CASE StopNative(t)
    BY <2>20 DEF StopNative, StopCapture
  <2>21. CASE StopUsers(t)
    BY <2>21 DEF StopUsers, Passes, Waits, Interrupted, ClearInterrupt
  <2>22. CASE StopRecycle(t)
    BY <2>22 DEF StopRecycle
  <2>23. CASE StopClear(t)
    BY <2>23 DEF StopClear
  <2>24. CASE StopCommit(t)
    BY <2>24 DEF StopCommit, Commit
  <2>25. CASE ReleaseMark(t)
    BY <2>25 DEF ReleaseMark, MayRelease, Request
  <2>26. CASE ReleaseNative(t)
    BY <2>26 DEF ReleaseNative, FreeCapture
  <2>27. CASE ReleaseCommit(t)
    BY <2>27 DEF ReleaseCommit, Commit
  <2>28. CASE RecycleTemp(t)
    BY <2>28 DEF RecycleTemp
  <2>29. CASE RecycleEnqueue(t)
    BY <2>29 DEF RecycleEnqueue
  <2>30. CASE RecyclePut(t)
    BY <2>30 DEF RecyclePut
  <2>31. CASE RecycleDone(t)
    BY <2>31 DEF RecycleDone
  <2> QED BY <1>1, <2>1, <2>2, <2>3, <2>4, <2>5, <2>6, <2>7, <2>8, <2>9, <2>10, <2>11, <2>12, <2>13, <2>14,
      <2>15, <2>16, <2>17, <2>18, <2>19, <2>20, <2>21, <2>22, <2>23, <2>24, <2>25, <2>26, <2>27, <2>28,
      <2>29, <2>30, <2>31, Zenon DEF Call, CallStep, StartUndo, StopSource
<1>2. ASSUME NEW s \in Sources, PushStep(s) \/ PushFill(s) PROVE Capturing \/ \E u \in Threads : StartCommit(u)
  <2>1. CASE PushLoop(s)
    BY <2>1 DEF PushLoop, ClearInterrupt
  <2>2. CASE PushGet(s)
    BY <2>2 DEF PushGet, GetUser
  <2>3. CASE PushAvail(s)
    BY <2>3 DEF PushAvail, ClearInterrupt
  <2>4. CASE PushFrameFails(s)
    BY <2>4 DEF PushFrameFails
  <2>5. CASE PushDeliver(s)
    BY <2>5 DEF PushDeliver
  <2>6. CASE PushPut(s)
    BY <2>6 DEF PushPut, PutUser
  <2>7. CASE PushPutThrows(s)
    BY <2>7 DEF PushPutThrows, PutUser
  <2>8. CASE PushReturn(s)
    BY <2>8 DEF PushReturn
  <2>9. CASE PushCaught(s)
    BY <2>9 DEF PushCaught, IsStarted, NotReleased
  <2>10. CASE PushExceptionDone(s)
    BY <2>10 DEF PushExceptionDone
  <2>11. CASE PushExit(s)
    BY <2>11 DEF PushExit
  <2>12. CASE PushFill(s)
    BY <2>12 DEF PushFill, Dequeue
  <2> QED BY <1>2, <2>1, <2>2, <2>3, <2>4, <2>5, <2>6, <2>7, <2>8, <2>9, <2>10, <2>11, <2>12, Zenon DEF PushStep
<1>3. CASE Open
  BY <1>3 DEF Open
<1>4. CASE UNCHANGED vars
  BY <1>4 DEF vars
<1> QED BY <1>1, <1>2, <1>3, <1>4 DEF Next

(* A step that interrupts nobody.                                          *)
LEMMA UndisturbedKept ==
  ASSUME SInv, Undisturbed, Underway' => Underway,
         \A s \in Sources : intr'[s] =>
           \/ intr[s] /\ (run'[s] = run[s] \/ run[s] \notin {"none", "loop", "exit"})
           \/ run'[s] \in {"none", "loop", "exit"}
  PROVE  Undisturbed'
  BY DEF Undisturbed

(* A stop and an undo interrupt the push thread, and neither is under way  *)
(* together with a start.                                                  *)
LEMMA InterruptNotUnderway ==
  ASSUME Careful, SInv, NEW t \in Threads,
         \/ SourceInterrupt(t, "undo_interrupt", "undo_join")
         \/ SourceInterrupt(t, "stop_interrupt", "stop_join")
  PROVE  ~Underway'
<1> USE SourcesFacts DEF SInv, CInv, CallsPlaced, Placed, InStart, Stops, InStop
<1>1. /\ UNCHANGED <<state, temp>> /\ pc[t] \in {"undo_interrupt", "stop_interrupt"}
      /\ pc'[t] \in {"undo_join", "stop_join"} /\ \A u \in Threads \ {t} : pc'[u] = pc[u]
  BY DEF SourceInterrupt, Step, At, Goto
<1>2. ~Capturing
  BY <1>1 DEF Capturing
<1>3. \A u \in Threads : pc'[u] \notin {"start_wait", "start_native", "start_commit"}
  BY <1>1, OwnsAlone DEF OneOwner
<1> QED BY <1>1, <1>2, <1>3 DEF Underway, Capturing

(* A push thread starts without an interrupt.                              *)
LEMMA StartUndisturbed ==
  ASSUME Careful, SInv, Undisturbed, NEW t \in Threads, StartSource(t)
  PROVE  Undisturbed'
<1> USE SourcesFacts DEF SInv
<1>1. CASE UNCHANGED <<run, intr>> /\ pc'[t] = "idle" /\ UNCHANGED <<state>>
  <2>1. temp' = "STARTED" => temp = "STARTED"
    BY <1>1 DEF StartSource, At, CInv, CallsPlaced, Placed, InStart
  <2>2. Underway' => Underway
    BY <1>1, <2>1 DEF Underway, Capturing, StartSource, Goto
  <2> QED BY <1>1, <2>2, UndisturbedKept
<1>2. CASE /\ pushSource # None /\ pushState[pushSource] = "STOPPED"
           /\ run' = [run EXCEPT ![pushSource] = "loop"]
           /\ intr' = [intr EXCEPT ![pushSource] = FALSE]
  <2>1. \A s \in Sources : run[s] = "none"
    BY <1>2 DEF SourcesOK, OnlyCurrentRuns, CInv, IInv, ThreadOfSource
  <2> QED BY <1>2, <2>1 DEF Undisturbed
<1> QED BY <1>1, <1>2 DEF StartSource, At, Goto, Rollback, stateVars

(* Every step keeps Undisturbed.                                           *)
LEMMA UndisturbedStep ==
  ASSUME Careful, SInv, Undisturbed, [Next]_vars
  PROVE  Undisturbed'
<1> USE SourcesFacts, ThreadsAssumption DEF SInv, Underway, Capturing, InCallback, CInv, CallsPlaced,
    Placed, InStart, InRelease, Stops, InStop, At, Goto, Step, RunFrom, stateVars, sourceVars, frameVars,
    callVars, driverVars
<1>1. ASSUME NEW t \in Threads, Call(t) \/ CallStep(t) PROVE Undisturbed'
  <2>1. CASE \E s \in Sources : SetCaptureCallback(t, s)
    BY <2>1, UndisturbedKept DEF SetCaptureCallback, IsStarted, NotReleased, Free
  <2>2. CASE \E f \in Frames : RecycleCall(t, f)
    BY <2>2, UndisturbedKept DEF RecycleCall, EnterRecycle, Free
  <2>3. CASE StartCall(t)
    BY <2>3, UndisturbedKept DEF StartCall, MayStart, Request, Free
  <2>4. CASE StopCall(t)
    BY <2>4, UndisturbedKept DEF StopCall, MayStop, Request, Free
  <2>5. CASE ReleaseCall(t)
    BY <2>5, UndisturbedKept DEF ReleaseCall, MayStop, Request, Free
  <2>6. CASE VideoInputCall(t)
    BY <2>6, UndisturbedKept DEF VideoInputCall, Free, NotReleased
  <2>7. CASE VideoInputNative(t)
    BY <2>7, UndisturbedKept DEF VideoInputNative
  <2>8. CASE StartSource(t)
    BY <2>8, StartUndisturbed
  <2>9. CASE StartWait(t)
    BY <2>9, UndisturbedKept DEF StartWait, Passes, Waits
  <2>10. CASE StartNative(t)
    BY <2>10, UndisturbedKept DEF StartNative, StartCapture, StartCaptureFails
  <2>11. CASE StartCommit(t)
    BY <2>11, UndisturbedKept DEF StartCommit, Commit
  <2>12. CASE StartFill(t)
    BY <2>12, UndisturbedKept DEF StartFill
  <2>13. CASE SourceStop(t, "undo_source", "undo_interrupt", "undo_rollback")
    BY <2>13, UndisturbedKept DEF SourceStop
  <2>14. CASE SourceInterrupt(t, "undo_interrupt", "undo_join")
    BY <2>14, InterruptNotUnderway DEF Undisturbed
  <2>15. CASE SourceJoin(t, "undo_join", "undo_rollback")
    BY <2>15, UndisturbedKept DEF SourceJoin, Interrupted, ClearInterrupt
  <2>16. CASE StartRollback(t)
    BY <2>16, UndisturbedKept DEF StartRollback, Rollback
  <2>17. CASE SourceStop(t, "stop_source", "stop_interrupt", "stop_native")
    BY <2>17, UndisturbedKept DEF SourceStop
  <2>18. CASE SourceInterrupt(t, "stop_interrupt", "stop_join")
    BY <2>18, InterruptNotUnderway DEF Undisturbed
  <2>19. CASE SourceJoin(t, "stop_join", "stop_native")
    BY <2>19, UndisturbedKept DEF SourceJoin, Interrupted, ClearInterrupt
  <2>20. CASE StopNative(t)
    BY <2>20, UndisturbedKept DEF StopNative, StopCapture
  <2>21. CASE StopUsers(t)
    BY <2>21, UndisturbedKept DEF StopUsers, Passes, Waits, Interrupted, ClearInterrupt
  <2>22. CASE StopRecycle(t)
    BY <2>22, UndisturbedKept DEF StopRecycle, EnterRecycle, IsStarted, NotReleased
  <2>23. CASE StopClear(t)
    BY <2>23, UndisturbedKept DEF StopClear
  <2>24. CASE StopCommit(t)
    BY <2>24, UndisturbedKept DEF StopCommit, Commit
  <2>25. CASE ReleaseMark(t)
    BY <2>25, UndisturbedKept DEF ReleaseMark, MayRelease, Request
  <2>26. CASE ReleaseNative(t)
    BY <2>26, UndisturbedKept DEF ReleaseNative, FreeCapture
  <2>27. CASE ReleaseCommit(t)
    BY <2>27, UndisturbedKept DEF ReleaseCommit, Commit
  <2>28. CASE RecycleTemp(t)
    BY <2>28, UndisturbedKept DEF RecycleTemp, LeaveRecycle, Back
  <2>29. CASE RecycleEnqueue(t)
    BY <2>29, UndisturbedKept DEF RecycleEnqueue, Enqueue
  <2>30. CASE RecyclePut(t)
    BY <2>30, UndisturbedKept DEF RecyclePut, LeaveRecycle, Back, Interrupted, ClearInterrupt
  <2>31. CASE RecycleDone(t)
    BY <2>31, UndisturbedKept DEF RecycleDone, LeaveRecycle, Back
  <2> QED BY <1>1, <2>1, <2>2, <2>3, <2>4, <2>5, <2>6, <2>7, <2>8, <2>9, <2>10, <2>11, <2>12, <2>13, <2>14,
      <2>15, <2>16, <2>17, <2>18, <2>19, <2>20, <2>21, <2>22, <2>23, <2>24, <2>25, <2>26, <2>27, <2>28,
      <2>29, <2>30, <2>31, Zenon DEF Call, CallStep, StartUndo, StopSource
<1>2. ASSUME NEW s \in Sources, PushStep(s) \/ PushFill(s) PROVE Undisturbed'
  <2>1. CASE PushLoop(s)
    BY <2>1, UndisturbedKept DEF PushLoop, ClearInterrupt
  <2>2. CASE PushGet(s)
    BY <2>2, UndisturbedKept DEF PushGet, GetUser
  <2>3. CASE PushAvail(s)
    BY <2>3, UndisturbedKept DEF PushAvail, ClearInterrupt
  <2>4. CASE PushFrameFails(s)
    BY <2>4, UndisturbedKept DEF PushFrameFails
  <2>5. CASE PushDeliver(s)
    BY <2>5, UndisturbedKept DEF PushDeliver
  <2>6. CASE PushPut(s)
    BY <2>6, UndisturbedKept DEF PushPut, PutUser
  <2>7. CASE PushPutThrows(s)
    BY <2>7, UndisturbedKept DEF PushPutThrows, PutUser
  <2>8. CASE PushReturn(s)
    BY <2>8, UndisturbedKept DEF PushReturn
  <2>9. CASE PushCaught(s)
    BY <2>9, UndisturbedKept DEF PushCaught, IsStarted, NotReleased
  <2>10. CASE PushExceptionDone(s)
    BY <2>10, UndisturbedKept DEF PushExceptionDone
  <2>11. CASE PushExit(s)
    BY <2>11, UndisturbedKept DEF PushExit
  <2>12. CASE PushFill(s)
    BY <2>12, UndisturbedKept DEF PushFill, Dequeue
  <2> QED BY <1>2, <2>1, <2>2, <2>3, <2>4, <2>5, <2>6, <2>7, <2>8, <2>9, <2>10, <2>11, <2>12, Zenon DEF PushStep
<1>3. CASE Open
  BY <1>3, UndisturbedKept DEF Open
<1>4. CASE UNCHANGED vars
  BY <1>4, UndisturbedKept DEF vars
<1> QED BY <1>1, <1>2, <1>3, <1>4 DEF Next

-----------------------------------------------------------------------------
(* Most steps leave every frame where it is, unless they end the capture.  *)
LEMMA AccountedKept ==
  ASSUME FInv, PassedOn, AllAccounted,
         Capturing' =>
           /\ Capturing /\ UNCHANGED <<available, cur>> /\ held \subseteq held'
           /\ \A u \in Threads :
                /\ arg[u] # None => arg'[u] = arg[u]
                /\ pc[u] = "start_fill" => pc'[u] = "start_fill" /\ pos'[u] = pos[u]
                /\ pc'[u] = "recycle_done" => pc[u] = "recycle_done" /\ arg'[u] = arg[u]
  PROVE  PassedOn' /\ AllAccounted'
<1> USE ThreadsAssumption DEF FInv
<1>1. PassedOn'
  <2> SUFFICES ASSUME Capturing', NEW t \in Threads, pc'[t] = "recycle_done"
               PROVE  InQueue(arg[t])' \/ \E s \in Sources : cur'[s] = arg'[t]
    BY DEF PassedOn
  <2>1. InQueue(arg[t]) \/ \E s \in Sources : cur[s] = arg[t]
    BY DEF PassedOn
  <2> QED BY <2>1 DEF InQueue
<1>2. AllAccounted'
  <2> SUFFICES ASSUME Capturing', NEW f \in Frames PROVE Accounted(f)'
    BY DEF AllAccounted, Frames
  <2>1. Accounted(f) /\ f # None
    BY DEF AllAccounted, Frames
  <2> QED BY <2>1 DEF Accounted, InQueue
<1> QED BY <1>1, <1>2

(* startCapture() commits before it fills the queue.                       *)
LEMMA CommitAccounts ==
  ASSUME FInv, NEW t \in Threads, StartCommit(t)
  PROVE  PassedOn' /\ AllAccounted'
<1> USE SourcesFacts DEF FInv
<1>1. /\ pc[t] = "start_commit" /\ pc' = [pc EXCEPT ![t] = "start_fill"] /\ pos' = [pos EXCEPT ![t] = 1]
      /\ UNCHANGED arg
  BY DEF StartCommit, Step, At, Goto
<1>2. state # "STARTED"
  BY <1>1 DEF SInv, CInv, CallsPlaced, Placed, InStart
<1>3. \A u \in Threads : ~Recycles(u) /\ ~Stops(u)
  BY <1>2, NothingOut DEF FramesOK, SInv, CInv, CallsPlaced, Placed
<1>4. \A u \in Threads : pc'[u] # "recycle_done"
  BY <1>1, <1>3 DEF Recycles, Stops, InRecycle
<1>5. \A f \in Frames : Accounted(f)'
  BY <1>1 DEF Accounted, Frames
<1> QED BY <1>4, <1>5 DEF PassedOn, AllAccounted, Frames

(* startCapture() adds the next frame.                                     *)
LEMMA FillAccounts ==
  ASSUME AInv, NumBuffers <= QueueCapacity, NEW t \in Threads, StartFill(t)
  PROVE  PassedOn' /\ AllAccounted'
<1> USE SourcesFacts, FrameFacts, NumBuffersAssumption DEF AInv, FInv
<1>1. /\ pc[t] = "start_fill" /\ pos[t] \in Frames /\ Len(available) < QueueCapacity
      /\ UNCHANGED <<state, temp, cur, held, arg>>
      /\ \A u \in Threads \ {t} : pc'[u] = pc[u] /\ pos'[u] = pos[u]
  BY RoomInQueue DEF StartFill, At, Goto, QueueNeverFull, stateVars, sourceVars
<1>2. /\ available' = Append(available, pos[t])
      /\ pc'[t] \in {"start_fill", "idle"}
      /\ pos[t] < NumBuffers => pc'[t] = "start_fill" /\ pos'[t] = pos[t] + 1
  BY <1>1 DEF StartFill, Goto, Frames
<1>3. \A f \in Frames : InQueue(f)' <=> InQueue(f) \/ f = pos[t]
  BY <1>1, <1>2, QueueAppend
<1>4. PassedOn'
  <2> SUFFICES ASSUME Capturing, NEW u \in Threads, pc'[u] = "recycle_done"
               PROVE  InQueue(arg[u])' \/ \E s \in Sources : cur[s] = arg[u]
    BY <1>1 DEF PassedOn, Capturing
  <2>1. pc[u] = "recycle_done" /\ arg[u] \in Frames
    BY <1>1, <1>2 DEF InRecycle
  <2>2. InQueue(arg[u]) \/ \E s \in Sources : cur[s] = arg[u]
    BY <2>1 DEF PassedOn
  <2> QED BY <1>1, <1>3, <2>1, <2>2
<1>5. AllAccounted'
  <2> SUFFICES ASSUME Capturing, NEW f \in Frames PROVE Accounted(f)'
    BY <1>1 DEF AllAccounted, Capturing, Frames
  <2>1. Accounted(f)
    BY DEF AllAccounted
  <2>2. CASE f >= pos[t]
    <3>1. CASE f = pos[t]
      BY <1>3, <3>1 DEF Accounted
    <3>2. CASE f # pos[t]
      <4>1. pos[t] < NumBuffers /\ f >= pos[t] + 1
        BY <1>1, <2>2, <3>2 DEF Frames
      <4> QED BY <1>2, <4>1 DEF Accounted
    <3> QED BY <3>1, <3>2
  <2>3. CASE ~(f >= pos[t])
    <3>1. \/ InQueue(f) \/ f \in held \/ \E s \in Sources : cur[s] = f
          \/ \E u \in Threads : arg[u] = f
          \/ \E u \in Threads \ {t} : pc[u] = "start_fill" /\ f >= pos[u]
      BY <2>1, <2>3 DEF Accounted
    <3>2. InQueue(f) => InQueue(f)'
      BY <1>3
    <3> QED BY <1>1, <3>1, <3>2 DEF Accounted
  <2> QED BY <2>2, <2>3
<1> QED BY <1>4, <1>5

(* The push thread takes a frame from the queue.                           *)
LEMMA AvailAccounts ==
  ASSUME AInv, NEW s \in Sources, PushAvail(s)
  PROVE  PassedOn' /\ AllAccounted'
<1> USE SourcesFacts, FrameFacts, ThreadsAssumption DEF AInv, FInv
<1>1. run[s] = "avail" /\ UNCHANGED <<state, temp, pc, arg, pos, held>>
  BY DEF PushAvail, RunFrom, stateVars, callVars
<1>2. CASE UNCHANGED <<cur, available>>
  BY <1>1, <1>2, AccountedKept DEF Capturing
<1>3. CASE available # <<>> /\ cur' = [cur EXCEPT ![s] = Head(available)] /\ available' = Tail(available)
  <2>1. \A f \in Frames : InQueue(f)' <=> InQueue(f) /\ f # Head(available)
    BY <1>3, QueueTake DEF FramesOK
  <2>2. cur[s] = None /\ cur'[s] = Head(available)
    BY <1>1, <1>3 DEF FramesOK, FrameInHand
  <2>3. PassedOn'
    <3> SUFFICES ASSUME Capturing, NEW u \in Threads, pc[u] = "recycle_done"
                 PROVE  InQueue(arg[u])' \/ \E v \in Sources : cur'[v] = arg[u]
      BY <1>1 DEF PassedOn, Capturing
    <3>1. arg[u] \in Frames /\ (InQueue(arg[u]) \/ \E v \in Sources : cur[v] = arg[u])
      BY DEF PassedOn, InRecycle
    <3>2. arg[u] # None
      BY <3>1 DEF Frames
    <3>3. CASE InQueue(arg[u])
      <4>1. (\E i \in DOMAIN available' : available'[i] = arg[u]) \/ arg[u] = Head(available)
        BY <2>1, <3>1, <3>3 DEF InQueue
      <4> QED BY <1>1, <2>2, <4>1 DEF InQueue
    <3>4. CASE \E v \in Sources : cur[v] = arg[u]
      BY <1>3, <2>2, <3>2, <3>4
    <3> QED BY <3>1, <3>3, <3>4
  <2>4. AllAccounted'
    <3> SUFFICES ASSUME Capturing, NEW f \in Frames PROVE Accounted(f)'
      BY <1>1 DEF AllAccounted, Capturing, Frames
    <3>1. Accounted(f) /\ f # None
      BY DEF AllAccounted, Frames
    <3>2. InQueue(f) => InQueue(f)' \/ cur'[s] = f
      BY <2>1, <2>2
    <3>3. \A v \in Sources : cur[v] = f => cur'[v] = f
      BY <1>3, <2>2, <3>1
    <3> QED BY <1>1, <3>1, <3>2, <3>3 DEF Accounted
  <2> QED BY <2>3, <2>4
<1> QED BY <1>2, <1>3 DEF PushAvail

(* What it took it delivers, as long as no stop was requested.             *)
LEMMA PutAccounts ==
  ASSUME AInv, NEW s \in Sources, PushPut(s)
  PROVE  PassedOn' /\ AllAccounted'
<1> USE SourcesFacts, FrameFacts, ThreadsAssumption DEF AInv, FInv
<1>1. /\ run[s] = "put" /\ cur[s] \in Frames /\ UNCHANGED <<state, temp, pc, arg, pos, available>>
      /\ cur' = [cur EXCEPT ![s] = None] /\ (temp # "STOPPED" => held' = held \cup {cur[s]})
  BY DEF PushPut, RunFrom, PutUser, PutThrows, callVars
<1> SUFFICES ASSUME Capturing PROVE PassedOn' /\ AllAccounted'
  BY <1>1 DEF PassedOn, AllAccounted, Capturing
<1>2. held' = held \cup {cur[s]}
  BY <1>1 DEF Capturing
<1>3. \A u \in Threads : pc[u] = "recycle_done" =>
        arg[u] # cur[s] /\ (InQueue(arg[u]) \/ \E v \in Sources : cur[v] = arg[u])
  <2> SUFFICES ASSUME NEW u \in Threads, pc[u] = "recycle_done"
               PROVE  arg[u] # cur[s] /\ (InQueue(arg[u]) \/ \E v \in Sources : cur[v] = arg[u])
    OBVIOUS
  <2>1. Recycles(u) /\ cur[s] # None
    BY <1>1, RecyclesItself DEF Frames
  <2> QED BY <1>1, <2>1 DEF FramesOK, HandApart, PassedOn
<1>4. PassedOn'
  BY <1>1, <1>3 DEF PassedOn, InQueue
<1>5. AllAccounted'
  <2> SUFFICES ASSUME NEW f \in Frames PROVE Accounted(f)'
    BY DEF AllAccounted, Frames
  <2>1. Accounted(f)
    BY DEF AllAccounted
  <2>2. \A v \in Sources : cur[v] = f => cur'[v] = f \/ f \in held'
    BY <1>1, <1>2
  <2> QED BY <1>1, <1>2, <2>1, <2>2 DEF Accounted, InQueue
<1> QED BY <1>4, <1>5

(* Neither fillBuffer(), while the device streams, nor                     *)
(* prepareForDelivery() throws.                                            *)
LEMMA FrameFailsAccounts ==
  ASSUME AInv, Faults \cap {"dqbuf", "convert"} = {}, NEW s \in Sources, PushFrameFails(s)
  PROVE  PassedOn' /\ AllAccounted'
<1>1. ~Capturing
  BY DEF PushFrameFails, AInv, FInv, SInv, DeviceOK, StreamsWhenStarted, Capturing
<1> QED BY <1>1 DEF PushFrameFails, stateVars, PassedOn, AllAccounted, Capturing

(* recycle() takes a frame from the application and puts it into the queue *)
(* before it lets go of it, unless a stop was requested meanwhile.         *)
LEMMA RecycleCallAccounts ==
  ASSUME AInv, NEW t \in Threads, NEW f \in Frames, RecycleCall(t, f)
  PROVE  PassedOn' /\ AllAccounted'
<1> USE SourcesFacts, FrameFacts, ThreadsAssumption DEF AInv, FInv
<1>1. /\ pc[t] = "idle" /\ f \in held /\ held' = held \ {f} /\ UNCHANGED <<state, temp, cur, pos, available>>
      /\ \A u \in Threads \ {t} : pc'[u] = pc[u] /\ arg'[u] = arg[u]
      /\ pc'[t] \notin {"start_fill", "recycle_done"}
  BY DEF RecycleCall, EnterRecycle, Free, Goto, stateVars, sourceVars
<1> SUFFICES ASSUME Capturing PROVE PassedOn' /\ AllAccounted'
  BY <1>1 DEF PassedOn, AllAccounted, Capturing
<1>2. arg'[t] = f
  <2>1. ~recycled[f] /\ IsStarted
    BY <1>1 DEF FramesOK, HeldApart, Capturing, IsStarted, NotReleased
  <2> QED BY <2>1 DEF RecycleCall, EnterRecycle, IsStarted
<1>3. arg[t] = None
  BY <1>1 DEF SInv, LocksOK, LockOfRecycle, InRecycle
<1>4. PassedOn'
  BY <1>1 DEF PassedOn, InQueue
<1>5. AllAccounted'
  <2> SUFFICES ASSUME NEW g \in Frames PROVE Accounted(g)'
    BY DEF AllAccounted, Frames
  <2>1. Accounted(g) /\ g # None
    BY DEF AllAccounted, Frames
  <2> QED BY <1>1, <1>2, <1>3, <2>1 DEF Accounted, InQueue
<1> QED BY <1>4, <1>5

(* A frame on its way back arrives in the queue.                           *)
LEMMA RecycleAccounts ==
  ASSUME AInv, NEW t \in Threads, RecycleTemp(t) \/ RecyclePut(t) \/ RecycleDone(t)
  PROVE  PassedOn' /\ AllAccounted'
<1> USE SourcesFacts, FrameFacts, ThreadsAssumption DEF AInv, FInv, InRecycle
<1>1. /\ pc[t] \in InRecycle /\ arg[t] \in Frames /\ UNCHANGED <<state, temp, cur, pos, held>>
      /\ \A u \in Threads \ {t} : pc'[u] = pc[u] /\ arg'[u] = arg[u]
      /\ pc'[t] # "start_fill"
  BY DEF RecycleTemp, RecyclePut, RecycleDone, LeaveRecycle, Back, At, Goto, stateVars, sourceVars
<1> SUFFICES ASSUME Capturing PROVE PassedOn' /\ AllAccounted'
  BY <1>1 DEF PassedOn, AllAccounted, Capturing
<1>2. CASE RecycleTemp(t)
  <2>1. pc'[t] # "recycle_done" /\ UNCHANGED <<arg, available>>
    BY <1>2 DEF RecycleTemp, Goto, Capturing
  <2> QED BY <1>1, <2>1, AccountedKept
<1>3. CASE RecyclePut(t)
  <2>1. pc[t] = "recycle_put" /\ ~Interrupted(t)
    BY <1>3 DEF RecyclePut, At, Interrupted, Undisturbed, Underway, SInv, SourcesOK, CallsFromCallback,
      InCallback
  <2>2. pc'[t] = "recycle_done" /\ arg' = arg /\ available' = Append(available, arg[t])
    BY <1>3, <2>1 DEF RecyclePut, Goto
  <2>3. \A g \in Frames : InQueue(g)' <=> InQueue(g) \/ g = arg[t]
    BY <1>1, <2>2, QueueAppend
  <2>4. PassedOn'
    <3> SUFFICES ASSUME NEW u \in Threads, pc'[u] = "recycle_done"
                 PROVE  InQueue(arg[u])' \/ \E s \in Sources : cur[s] = arg[u]
      BY <1>1, <2>2 DEF PassedOn
    <3>1. CASE u = t
      <4>1. \E i \in DOMAIN available' : available'[i] = arg[t]
        BY <1>1, <2>3 DEF InQueue
      <4> QED BY <2>2, <3>1, <4>1 DEF InQueue
    <3>2. CASE u # t
      BY <1>1, <2>3, <3>2 DEF PassedOn
    <3> QED BY <3>1, <3>2
  <2>5. AllAccounted'
    <3> SUFFICES ASSUME NEW g \in Frames PROVE Accounted(g)'
      BY DEF AllAccounted, Frames
    <3>1. Accounted(g) /\ (InQueue(g) => InQueue(g)')
      BY <2>3 DEF AllAccounted
    <3> QED BY <1>1, <2>1, <2>2, <3>1 DEF Accounted
  <2> QED BY <2>4, <2>5
<1>4. CASE RecycleDone(t)
  <2>1. pc[t] = "recycle_done" /\ pc'[t] # "recycle_done" /\ UNCHANGED available
    BY <1>4 DEF RecycleDone, At, LeaveRecycle, Goto, Back
  <2>2. InQueue(arg[t]) \/ \E s \in Sources : cur[s] = arg[t]
    BY <2>1 DEF PassedOn
  <2>3. PassedOn'
    BY <1>1, <2>1 DEF PassedOn, InQueue
  <2>4. AllAccounted'
    <3> SUFFICES ASSUME NEW g \in Frames PROVE Accounted(g)'
      BY DEF AllAccounted, Frames
    <3>1. Accounted(g)
      BY DEF AllAccounted
    <3>2. InQueue(g)' <=> InQueue(g)
      BY <2>1 DEF InQueue
    <3> QED BY <1>1, <2>1, <2>2, <3>1, <3>2 DEF Accounted
  <2> QED BY <2>3, <2>4
<1> QED BY <1>2, <1>3, <1>4

(* Every step keeps account of the frames.                                 *)
LEMMA AccountedStep ==
  ASSUME Lossless, AInv, [Next]_vars
  PROVE  PassedOn' /\ AllAccounted'
<1> USE SourcesFacts, ThreadsAssumption DEF AInv, FInv, SInv, Capturing, CInv, CallsPlaced, Placed, InStart,
    InRelease, Stops, InStop, At, Goto, Step, RunFrom, stateVars, sourceVars, frameVars, callVars,
    driverVars, Lossless
<1>1. ASSUME NEW t \in Threads, Call(t) \/ CallStep(t) PROVE PassedOn' /\ AllAccounted'
  <2>1. CASE \E s \in Sources : SetCaptureCallback(t, s)
    BY <2>1, AccountedKept DEF SetCaptureCallback, IsStarted, NotReleased, Free
  <2>2. CASE \E f \in Frames : RecycleCall(t, f)
    BY <2>2, RecycleCallAccounts
  <2>3. CASE StartCall(t)
    BY <2>3, AccountedKept DEF StartCall, MayStart, Request, Free
  <2>4. CASE StopCall(t)
    BY <2>4, AccountedKept DEF StopCall, MayStop, Request, Free
  <2>5. CASE ReleaseCall(t)
    BY <2>5, AccountedKept DEF ReleaseCall, MayStop, Request, Free
  <2>6. CASE VideoInputCall(t)
    BY <2>6, AccountedKept DEF VideoInputCall, Free, NotReleased
  <2>7. CASE VideoInputNative(t)
    BY <2>7, AccountedKept DEF VideoInputNative
  <2>8. CASE StartSource(t)
    BY <2>8, AccountedKept DEF StartSource, Rollback
  <2>9. CASE StartWait(t)
    BY <2>9, AccountedKept DEF StartWait, Passes, Waits
  <2>10. CASE StartNative(t)
    BY <2>10, AccountedKept DEF StartNative, StartCapture, StartCaptureFails
  <2>11. CASE StartCommit(t)
    BY <2>11, CommitAccounts
  <2>12. CASE StartFill(t)
    BY <2>12, FillAccounts
  <2>13. CASE SourceStop(t, "undo_source", "undo_interrupt", "undo_rollback")
    BY <2>13, AccountedKept DEF SourceStop
  <2>14. CASE SourceInterrupt(t, "undo_interrupt", "undo_join")
    BY <2>14, AccountedKept DEF SourceInterrupt
  <2>15. CASE SourceJoin(t, "undo_join", "undo_rollback")
    BY <2>15, AccountedKept DEF SourceJoin, Interrupted, ClearInterrupt
  <2>16. CASE StartRollback(t)
    BY <2>16, AccountedKept DEF StartRollback, Rollback
  <2>17. CASE SourceStop(t, "stop_source", "stop_interrupt", "stop_native")
    BY <2>17, AccountedKept DEF SourceStop
  <2>18. CASE SourceInterrupt(t, "stop_interrupt", "stop_join")
    BY <2>18, AccountedKept DEF SourceInterrupt
  <2>19. CASE SourceJoin(t, "stop_join", "stop_native")
    BY <2>19, AccountedKept DEF SourceJoin, Interrupted, ClearInterrupt
  <2>20. CASE StopNative(t)
    BY <2>20, AccountedKept DEF StopNative, StopCapture
  <2>21. CASE StopUsers(t)
    BY <2>21, AccountedKept DEF StopUsers, Passes, Waits, Interrupted, ClearInterrupt
  <2>22. CASE StopRecycle(t)
    BY <2>22, AccountedKept DEF StopRecycle, EnterRecycle, IsStarted, NotReleased
  <2>23. CASE StopClear(t)
    BY <2>23, AccountedKept DEF StopClear
  <2>24. CASE StopCommit(t)
    BY <2>24, AccountedKept DEF StopCommit, Commit
  <2>25. CASE ReleaseMark(t)
    BY <2>25, AccountedKept DEF ReleaseMark, MayRelease, Request
  <2>26. CASE ReleaseNative(t)
    BY <2>26, AccountedKept DEF ReleaseNative, FreeCapture
  <2>27. CASE ReleaseCommit(t)
    BY <2>27, AccountedKept DEF ReleaseCommit, Commit
  <2>28. CASE RecycleTemp(t)
    BY <2>28, RecycleAccounts
  <2>29. CASE RecycleEnqueue(t)
    BY <2>29, AccountedKept DEF RecycleEnqueue, Enqueue
  <2>30. CASE RecyclePut(t)
    BY <2>30, RecycleAccounts
  <2>31. CASE RecycleDone(t)
    BY <2>31, RecycleAccounts
  <2> QED BY <1>1, <2>1, <2>2, <2>3, <2>4, <2>5, <2>6, <2>7, <2>8, <2>9, <2>10, <2>11, <2>12, <2>13, <2>14,
      <2>15, <2>16, <2>17, <2>18, <2>19, <2>20, <2>21, <2>22, <2>23, <2>24, <2>25, <2>26, <2>27, <2>28,
      <2>29, <2>30, <2>31, Zenon DEF Call, CallStep, StartUndo, StopSource
<1>2. ASSUME NEW s \in Sources, PushStep(s) \/ PushFill(s) PROVE PassedOn' /\ AllAccounted'
  <2>1. CASE PushLoop(s)
    BY <2>1, AccountedKept DEF PushLoop, ClearInterrupt
  <2>2. CASE PushGet(s)
    BY <2>2, AccountedKept DEF PushGet, GetUser
  <2>3. CASE PushAvail(s)
    BY <2>3, AvailAccounts
  <2>4. CASE PushFrameFails(s)
    BY <2>4, FrameFailsAccounts
  <2>5. CASE PushDeliver(s)
    BY <2>5, AccountedKept DEF PushDeliver
  <2>6. CASE PushPut(s)
    BY <2>6, PutAccounts
  <2>7. CASE PushPutThrows(s)
    BY <2>7, AccountedKept DEF PushPutThrows, PutUser
  <2>8. CASE PushReturn(s)
    BY <2>8, AccountedKept DEF PushReturn
  <2>9. CASE PushCaught(s)
    BY <2>9, AccountedKept DEF PushCaught, IsStarted, NotReleased
  <2>10. CASE PushExceptionDone(s)
    BY <2>10, AccountedKept DEF PushExceptionDone
  <2>11. CASE PushExit(s)
    BY <2>11, AccountedKept DEF PushExit
  <2>12. CASE PushFill(s)
    BY <2>12, AccountedKept DEF PushFill, Dequeue
  <2> QED BY <1>2, <2>1, <2>2, <2>3, <2>4, <2>5, <2>6, <2>7, <2>8, <2>9, <2>10, <2>11, <2>12, Zenon DEF PushStep
<1>3. CASE Open
  BY <1>3, AccountedKept DEF Open
<1>4. CASE UNCHANGED vars
  BY <1>4, AccountedKept DEF vars
<1> QED BY <1>1, <1>2, <1>3, <1>4 DEF Next

(* So no frame is ever unaccounted for.                                    *)
LEMMA AccountsInvariance == Lossless => (Spec => []AInv)
<1> SUFFICES ASSUME Lossless PROVE Spec => []AInv
  OBVIOUS
<1>1. Init => AInv
  BY FramesInit DEF AInv, Init, StateInit, Undisturbed, Underway, Capturing, PassedOn, AllAccounted
<1>2. AInv /\ [Next]_vars => AInv'
  BY SourcesStep, FramesStep, UndisturbedStep, AccountedStep DEF AInv, FInv, Lossless
<1> QED BY <1>1, <1>2, PTL DEF Spec

(* While capturing no frame gets lost and the queue has room for it when   *)
(* it comes back: add() never throws and put() never blocks.               *)
THEOREM NoFrameGetsLost == Lossless => (Spec => []NoFrameLost)
<1> SUFFICES ASSUME Lossless PROVE Spec => []NoFrameLost
  OBVIOUS
<1>1. AInv => NoFrameLost
  <2> SUFFICES ASSUME AInv PROVE NoFrameLost
    OBVIOUS
  <2>1. QueueNeverFull
    BY RoomInQueue DEF AInv, Lossless
  <2>2. IsStarted => Capturing
    BY DEF IsStarted, Capturing, AInv, FInv, SInv, CInv, PhasesPaired
  <2> QED BY <2>1, <2>2 DEF NoFrameLost, AInv, AllAccounted, Accounted
<1> QED BY <1>1, AccountsInvariance, PTL

-----------------------------------------------------------------------------
(* From the stopped stream to the next one the driver's queue is empty.    *)
Drained ==
  (\/ state # "STARTED" /\ \A t \in Threads : pc[t] # "start_commit"
   \/ \E t \in Threads : PastJoin(t) /\ pc[t] # "stop_native")
  => queued = {}

(* The stream can be switched on, only push threads recycle, and who stops *)
(* the capture is who starts it.                                           *)
Orderly == Careful /\ "streamon" \notin Faults /\ Recyclers \subseteq Sources /\ Stoppers \subseteq Starters

(* A step that hands no buffer to the driver and stops no capture.         *)
LEMMA DrainedKept ==
  ASSUME Drained, queued' \subseteq queued,
         \/ state # "STARTED" \/ state' = state \/ state' = "STARTED"
         \/ \E t \in Threads : PastJoin(t) /\ pc[t] # "stop_native",
         state # "STARTED" => \A t \in Threads : pc[t] = "start_commit" => pc'[t] = "start_commit",
         \A t \in Threads : PastJoin(t)' /\ pc'[t] # "stop_native" => PastJoin(t) /\ pc[t] # "stop_native"
  PROVE  Drained'
  BY DEF Drained

(* The native start() finds an empty queue. *)
LEMMA StartDrained ==
  ASSUME Orderly, SInv, Drained, NEW t \in Threads, StartNative(t)
  PROVE  Drained'
<1> USE SourcesFacts DEF SInv, CInv, CallsPlaced, Placed, Orderly
<1>1. pc[t] = "start_native" /\ t \in Starters /\ state # "STARTED" /\ UNCHANGED state /\ pos' = pos
  BY DEF StartNative, At, InStart, stateVars
<1>2. \A u \in Threads : u # t => pc[u] \notin InStart /\ ~Stops(u)
  BY <1>1, OwnsAlone DEF OneOwner
<1>3. queued = {}
  BY <1>1, <1>2 DEF Drained, InStart
<1>4. StartCapture /\ Goto(t, "start_commit")
  BY <1>3 DEF StartNative, StartCaptureFails
<1>5. \A u \in Threads : ~PastJoin(u)'
  BY <1>1, <1>2, <1>4 DEF PastJoin, Goto, Stops, InStop, InStart, InRecycle
<1> QED BY <1>1, <1>4, <1>5 DEF Drained, Goto

(* No recycle() gives a buffer back once the push thread is joined.        *)
LEMMA EnqueueDrained ==
  ASSUME Orderly, SInv, Drained, NEW t \in Threads, RecycleEnqueue(t)
  PROVE  Drained'
<1> USE SourcesFacts DEF SInv, CInv
<1>1. /\ pc[t] = "recycle_enqueue" /\ Recycles(t) /\ UNCHANGED <<state, pos>>
      /\ pc' = [pc EXCEPT ![t] = "recycle_put"]
  <2>1. pc[t] = "recycle_enqueue" /\ pc' = [pc EXCEPT ![t] = "recycle_put"] /\ UNCHANGED <<state, pos>>
    BY DEF RecycleEnqueue, Step, At, Goto, stateVars
  <2> QED BY <2>1 DEF CallsPlaced, Placed, Recycles, InRecycle
<1>2. state = "STARTED" /\ t \in Sources
  BY <1>1 DEF LocksOK, LockOfRecycle, Orderly
<1>3. run[t] \in InCallback
  BY <1>1, <1>2 DEF SourcesOK, CallsFromCallback
<1>4. \A u \in Threads : ~PastJoin(u)
  <2> SUFFICES ASSUME NEW u \in Threads, PastJoin(u) PROVE FALSE
    OBVIOUS
  <2>1. u = t
    BY <1>2, <1>3 DEF SourcesOK, JoinedSources, InCallback
  <2> QED BY <1>1, <2>1 DEF PastJoin, Recycles, InStop, InRecycle
<1> QED BY <1>1, <1>2, <1>4 DEF Drained, PastJoin, InStop, InRecycle, Recycles

(* startCapture() commits: nobody is past the join of a stop.              *)
LEMMA CommitDrained ==
  ASSUME Orderly, SInv, Drained, NEW t \in Threads, StartCommit(t)
  PROVE  Drained'
<1> USE SourcesFacts DEF SInv, CInv, CallsPlaced, Placed, Orderly
<1>1. /\ pc[t] = "start_commit" /\ t \in Starters /\ state # "STARTED" /\ state' = "STARTED"
      /\ pc' = [pc EXCEPT ![t] = "start_fill"] /\ pos' = [pos EXCEPT ![t] = 1]
  BY DEF StartCommit, Commit, Step, At, Goto, InStart
<1>2. \A u \in Threads : u # t => pc[u] \notin InStart /\ ~Stops(u)
  BY <1>1, OwnsAlone DEF OneOwner
<1>3. \A u \in Threads : ~PastJoin(u)'
  BY <1>1, <1>2 DEF PastJoin, Stops, InStop, InStart, InRecycle
<1> QED BY <1>1, <1>3 DEF Drained

(* A start that is undone has no stream, and no other start is under way.  *)
LEMMA UndoDrained ==
  ASSUME Orderly, SInv, Drained, NEW t \in Threads,
         \/ SourceStop(t, "undo_source", "undo_interrupt", "undo_rollback")
         \/ SourceJoin(t, "undo_join", "undo_rollback")
  PROVE  Drained'
<1> USE SourcesFacts DEF SInv, CInv, CallsPlaced, Placed, Orderly
<1>1. /\ pc[t] \in {"undo_source", "undo_join"} /\ t \in Starters /\ state # "STARTED" /\ queued' = queued
  BY DEF SourceStop, SourceJoin, At, InStart, driverVars
<1>2. \A u \in Threads : pc[u] # "start_commit"
  BY <1>1, OwnsAlone DEF OneOwner, InStart
<1> QED BY <1>1, <1>2 DEF Drained

(* Every step keeps Drained.                                               *)
LEMMA DrainedStep ==
  ASSUME Orderly, SInv, Drained, [Next]_vars
  PROVE  Drained'
<1> USE SourcesFacts, ThreadsAssumption DEF SInv, CInv, CallsPlaced, Placed, PastJoin, InRecycle, InRelease,
    Stops, InStop, At, Goto, Step, RunFrom, stateVars, sourceVars, frameVars, callVars, driverVars
<1>1. ASSUME NEW t \in Threads, Call(t) \/ CallStep(t) PROVE Drained'
  <2>1. CASE \E s \in Sources : SetCaptureCallback(t, s)
    BY <2>1, DrainedKept DEF SetCaptureCallback, IsStarted, NotReleased, Free
  <2>2. CASE \E f \in Frames : RecycleCall(t, f)
    BY <2>2, DrainedKept DEF RecycleCall, EnterRecycle, Free
  <2>3. CASE StartCall(t)
    BY <2>3, DrainedKept DEF StartCall, MayStart, Request, Free
  <2>4. CASE StopCall(t)
    BY <2>4, DrainedKept DEF StopCall, MayStop, Request, Free
  <2>5. CASE ReleaseCall(t)
    BY <2>5, DrainedKept DEF ReleaseCall, MayStop, Request, Free
  <2>6. CASE VideoInputCall(t)
    BY <2>6, DrainedKept DEF VideoInputCall, Free, NotReleased
  <2>7. CASE VideoInputNative(t)
    BY <2>7, DrainedKept DEF VideoInputNative
  <2>8. CASE StartSource(t)
    BY <2>8, DrainedKept DEF StartSource, Rollback
  <2>9. CASE StartWait(t)
    BY <2>9, DrainedKept DEF StartWait, Passes, Waits
  <2>10. CASE StartNative(t)
    BY <2>10, StartDrained
  <2>11. CASE StartCommit(t)
    BY <2>11, CommitDrained
  <2>12. CASE StartFill(t)
    BY <2>12, DrainedKept DEF StartFill
  <2>13. CASE SourceStop(t, "undo_source", "undo_interrupt", "undo_rollback")
    BY <2>13, UndoDrained
  <2>14. CASE SourceInterrupt(t, "undo_interrupt", "undo_join")
    BY <2>14, DrainedKept DEF SourceInterrupt
  <2>15. CASE SourceJoin(t, "undo_join", "undo_rollback")
    BY <2>15, UndoDrained
  <2>16. CASE StartRollback(t)
    BY <2>16, DrainedKept DEF StartRollback, Rollback
  <2>17. CASE SourceStop(t, "stop_source", "stop_interrupt", "stop_native")
    BY <2>17, DrainedKept DEF SourceStop
  <2>18. CASE SourceInterrupt(t, "stop_interrupt", "stop_join")
    BY <2>18, DrainedKept DEF SourceInterrupt
  <2>19. CASE SourceJoin(t, "stop_join", "stop_native")
    BY <2>19, DrainedKept DEF SourceJoin, Interrupted, ClearInterrupt
  <2>20. CASE StopNative(t)
    BY <2>20 DEF StopNative, StopCapture, Drained
  <2>21. CASE StopUsers(t)
    BY <2>21, DrainedKept DEF StopUsers, Passes, Waits, Interrupted, ClearInterrupt
  <2>22. CASE StopRecycle(t)
    BY <2>22, DrainedKept DEF StopRecycle, EnterRecycle, IsStarted, NotReleased
  <2>23. CASE StopClear(t)
    BY <2>23, DrainedKept DEF StopClear
  <2>24. CASE StopCommit(t)
    BY <2>24, DrainedKept DEF StopCommit, Commit
  <2>25. CASE ReleaseMark(t)
    BY <2>25, DrainedKept DEF ReleaseMark, MayRelease, Request
  <2>26. CASE ReleaseNative(t)
    BY <2>26 DEF ReleaseNative, FreeCapture, Drained
  <2>27. CASE ReleaseCommit(t)
    BY <2>27, DrainedKept DEF ReleaseCommit, Commit
  <2>28. CASE RecycleTemp(t)
    BY <2>28, DrainedKept DEF RecycleTemp, LeaveRecycle, Back
  <2>29. CASE RecycleEnqueue(t)
    BY <2>29, EnqueueDrained
  <2>30. CASE RecyclePut(t)
    BY <2>30, DrainedKept DEF RecyclePut, LeaveRecycle, Back, Interrupted, ClearInterrupt
  <2>31. CASE RecycleDone(t)
    BY <2>31, DrainedKept DEF RecycleDone, LeaveRecycle, Back
  <2> QED BY <1>1, <2>1, <2>2, <2>3, <2>4, <2>5, <2>6, <2>7, <2>8, <2>9, <2>10, <2>11, <2>12, <2>13, <2>14,
      <2>15, <2>16, <2>17, <2>18, <2>19, <2>20, <2>21, <2>22, <2>23, <2>24, <2>25, <2>26, <2>27, <2>28,
      <2>29, <2>30, <2>31, Zenon DEF Call, CallStep, StartUndo, StopSource
<1>2. ASSUME NEW s \in Sources, PushStep(s) \/ PushFill(s) PROVE Drained'
  <2>1. CASE PushLoop(s)
    BY <2>1, DrainedKept DEF PushLoop, ClearInterrupt
  <2>2. CASE PushGet(s)
    BY <2>2, DrainedKept DEF PushGet, GetUser
  <2>3. CASE PushAvail(s)
    BY <2>3, DrainedKept DEF PushAvail, ClearInterrupt
  <2>4. CASE PushFrameFails(s)
    BY <2>4, DrainedKept DEF PushFrameFails
  <2>5. CASE PushDeliver(s)
    BY <2>5, DrainedKept DEF PushDeliver
  <2>6. CASE PushPut(s)
    BY <2>6, DrainedKept DEF PushPut, PutUser
  <2>7. CASE PushPutThrows(s)
    BY <2>7, DrainedKept DEF PushPutThrows, PutUser
  <2>8. CASE PushReturn(s)
    BY <2>8, DrainedKept DEF PushReturn
  <2>9. CASE PushCaught(s)
    BY <2>9, DrainedKept DEF PushCaught, IsStarted, NotReleased
  <2>10. CASE PushExceptionDone(s)
    BY <2>10, DrainedKept DEF PushExceptionDone
  <2>11. CASE PushExit(s)
    BY <2>11, DrainedKept DEF PushExit
  <2>12. CASE PushFill(s)
    BY <2>12, DrainedKept DEF PushFill, Dequeue
  <2> QED BY <1>2, <2>1, <2>2, <2>3, <2>4, <2>5, <2>6, <2>7, <2>8, <2>9, <2>10, <2>11, <2>12, Zenon DEF PushStep
<1>3. CASE Open
  BY <1>3, DrainedKept DEF Open, MayInit
<1>4. CASE UNCHANGED vars
  BY <1>4, DrainedKept DEF vars
<1> QED BY <1>1, <1>2, <1>3, <1>4 DEF Next

(* So it always holds.                                                     *)
LEMMA DrainedInvariance == Orderly => (Spec => [](SInv /\ Drained))
<1> SUFFICES ASSUME Orderly PROVE Spec => [](SInv /\ Drained)
  OBVIOUS
<1>1. Init => SInv /\ Drained
  BY SourcesInit DEF Init, DriverInit, Drained
<1>2. SInv /\ Drained /\ [Next]_vars => SInv' /\ Drained'
  BY SourcesStep, DrainedStep DEF Orderly
<1> QED BY <1>1, <1>2, PTL DEF Spec

(* A grabber at rest can be started again: no buffer is left with the      *)
(* driver, and the push source has stopped.                                *)
THEOREM RestingIsReady == Orderly => (Spec => []ReadyToStart)
<1> SUFFICES ASSUME Orderly PROVE Spec => []ReadyToStart
  OBVIOUS
<1>1. SInv /\ Drained => ReadyToStart
  <2> SUFFICES ASSUME SInv, Drained, AtRest PROVE DriverReady /\ SourceReady
    BY DEF ReadyToStart
  <2> USE SourcesFacts DEF SInv, CInv
  <2>1. state # "STARTED" /\ \A t \in Threads : pc[t] \notin Launching
    BY DEF AtRest, CallsPlaced, Placed, InStart, Launching
  <2>2. DriverReady
    BY <2>1 DEF DriverReady, Drained, Launching
  <2>3. \A s \in Sources : run[s] = "none"
    BY <2>1 DEF SourcesOK, RunsWhenStarted, Orderly
  <2>4. SourceReady
    BY <2>3, Types DEF SourceReady, IInv, ThreadOfSource, SourceTypes
  <2> QED BY <2>2, <2>4
<1> QED BY <1>1, DrainedInvariance, PTL

-----------------------------------------------------------------------------
(* A grabber that is being released has its release() in progress.         *)
ClosingInProgress ==
  state # "RELEASED" /\ temp = "RELEASED" => \E t \in Threads : pc[t] \in {"release_native", "release_commit"}

(* What the application sees of the frames it holds, as in                 *)
(* ImplementsSession.                                                      *)
View == [f \in held |-> bufferIndex[f]]

(* What the application sees does not change. *)
SameSession == UNCHANGED <<Phase, View>>

(* The application sees no difference while its frames keep their buffers. *)
LEMMA SameView ==
  ASSUME held' = held, \A f \in held : bufferIndex'[f] = bufferIndex[f]
  PROVE  View' = View
  BY DEF View

(* A start that begins or is rolled back is no phase of its own.           *)
LEMMA SamePhase ==
  ASSUME \/ UNCHANGED <<state, temp>>
         \/ /\ state \in {"INIT", "STOPPED"} /\ state' = state
            /\ temp # "RELEASED" /\ temp' # "RELEASED"
  PROVE  Phase' = Phase
  BY DEF Phase

(* Most steps are invisible to the application.                            *)
LEMMA SessionStutters ==
  ASSUME SInv, ClosingInProgress, UNCHANGED <<held, bufferIndex>>,
         \/ UNCHANGED <<state, temp>>
         \/ /\ state \in {"INIT", "STOPPED"} /\ state' = state
            /\ temp # "RELEASED" /\ temp' # "RELEASED",
         temp' = "RELEASED" => temp = "RELEASED",
         \A t \in Threads : pc[t] \in {"release_native", "release_commit"} =>
           pc'[t] \in {"release_native", "release_commit"}
  PROVE  SameSession /\ ClosingInProgress'
<1>1. ClosingInProgress'
  BY DEF ClosingInProgress
<1> QED BY <1>1, SamePhase, SameView DEF SameSession

(* The one owner is in no call, so nobody releases the grabber. *)
LEMMA NotClosing ==
  ASSUME Careful, SInv, ClosingInProgress, NEW t \in Starters \cup Releasers,
         pc[t] \notin {"release_native", "release_commit"},
         state # "RELEASED"
  PROVE  temp # "RELEASED"
<1>1. \A u \in Threads : pc[u] \in InRelease => u = t
  BY OwnsAlone, RolesAssumption DEF OneOwner, SInv, CInv, CallsPlaced, Placed
<1> QED BY <1>1 DEF ClosingInProgress, InRelease

(* A step is one of the session, or invisible.                             *)
SessionMoves == SameSession \/ Session!SessionNext

(* init() opens the session, or fails.                                     *)
LEMMA OpenMoves ==
  ASSUME SInv, ClosingInProgress, Open
  PROVE  SessionMoves /\ ClosingInProgress'
<1>1. /\ state = "UNINIT" /\ temp' = "INIT" /\ state' \in {"UNINIT", "INIT"}
      /\ UNCHANGED <<held, bufferIndex>>
  BY DEF Open, MayInit, frameVars
<1>2. View' = View
  BY <1>1, SameView
<1>3. CASE state' = "UNINIT"
  BY <1>1, <1>2, <1>3 DEF SessionMoves, SameSession, Phase, ClosingInProgress
<1>4. CASE state' = "INIT"
  BY <1>1, <1>2, <1>4 DEF SessionMoves, Session!SessionNext, Session!Open, Phase, View, ClosingInProgress
<1> QED BY <1>1, <1>3, <1>4

(* The commits: the session captures, is idle again, is released.          *)
LEMMA CommitMoves ==
  ASSUME Careful, SInv, ClosingInProgress, NEW t \in Threads, StartCommit(t) \/ StopCommit(t) \/ ReleaseCommit(t)
  PROVE  SessionMoves /\ ClosingInProgress'
<1> USE DEF SInv, CInv, CallsPlaced, Placed
<1>1. state' = temp /\ temp' = temp /\ bufferIndex' = bufferIndex
  BY DEF StartCommit, StopCommit, ReleaseCommit, Commit, frameVars
<1>2. ClosingInProgress'
  BY <1>1 DEF ClosingInProgress
<1>3. CASE StartCommit(t)
  <2>1. state \in {"INIT", "STOPPED"} /\ temp = "STARTED" /\ held' = held
    BY <1>3 DEF StartCommit, Step, At, InStart, frameVars
  <2>2. Phase = "idle" /\ Phase' = "capturing" /\ View' = View
    BY <1>1, <2>1, SameView DEF Phase
  <2> QED BY <1>2, <2>2 DEF SessionMoves, Session!SessionNext, Session!Begin, View
<1>4. CASE StopCommit(t)
  <2>1. state = "STARTED" /\ temp = "STOPPED" /\ held' = {}
    BY <1>4 DEF StopCommit, Step, At, Stops, InStop, Careful
  <2>2. Phase = "stopping" /\ Phase' = "idle"
    BY <1>1, <2>1 DEF Phase
  <2>3. View' = Session!NoView
    BY <2>1 DEF View, Session!NoView
  <2> QED BY <1>2, <2>2, <2>3 DEF SessionMoves, Session!SessionNext, Session!End, View, Careful
<1>5. CASE ReleaseCommit(t)
  <2>1. state \in {"INIT", "STOPPED"} /\ temp = "RELEASED" /\ held' = held
    BY <1>5 DEF ReleaseCommit, Step, At, frameVars
  <2>2. Phase = "closing" /\ Phase' = "released" /\ View' = View
    BY <1>1, <2>1, SameView DEF Phase
  <2> QED BY <1>2, <2>2 DEF SessionMoves, Session!SessionNext, Session!Closed, View
<1> QED BY <1>3, <1>4, <1>5

(* A request to stop halts the session.                                    *)
LEMMA StopMoves ==
  ASSUME Careful, SInv, ClosingInProgress, NEW t \in Threads, StopCall(t) \/ ReleaseCall(t)
  PROVE  SessionMoves /\ ClosingInProgress'
<1> USE SourcesFacts DEF SInv, CInv, StopCall, ReleaseCall, Free, Goto
<1>1. held' = held /\ bufferIndex' = bufferIndex /\ pc[t] = "idle" /\ \A u \in Threads \ {t} : pc'[u] = pc[u]
  BY DEF frameVars
<1>2. View' = View
  BY <1>1, SameView
<1>3. CASE MayStop /\ Request("STOPPED")
  <2>1. Phase = "capturing" /\ Phase' = "stopping"
    BY <1>3, Types DEF MayStop, Request, Phase
  <2> QED BY <1>2, <1>3, <2>1 DEF SessionMoves, Session!SessionNext, Session!Halt, View, ClosingInProgress,
      Request
<1>4. CASE UNCHANGED stateVars
  BY <1>1, <1>4, SessionStutters DEF stateVars, SessionMoves
<1> QED BY <1>3, <1>4

(* release() closes the session once nothing captures.                     *)
LEMMA ReleaseMoves ==
  ASSUME Careful, SInv, ClosingInProgress, NEW t \in Threads, ReleaseMark(t)
  PROVE  SessionMoves /\ ClosingInProgress'
<1> USE SourcesFacts DEF SInv, CInv, CallsPlaced, Placed, ReleaseMark, Goto, At
<1>1. /\ UNCHANGED <<held, bufferIndex>> /\ pc[t] = "release_mark"
      /\ \A u \in Threads \ {t} : pc'[u] = pc[u]
      /\ t \in Releasers
  BY DEF frameVars, InRelease
<1>2. View' = View
  BY <1>1, SameView
<1>3. CASE MayRelease /\ Request("RELEASED") /\ Goto(t, "release_native")
  <2>1. temp # "RELEASED"
    BY <1>1, <1>3, NotClosing DEF MayRelease
  <2>2. Phase = "idle" /\ Phase' = "closing"
    BY <1>3, <2>1 DEF MayRelease, Request, Phase
  <2> QED BY <1>1, <1>2, <1>3, <2>2 DEF SessionMoves, Session!SessionNext, Session!Close, View,
      ClosingInProgress
<1>4. CASE UNCHANGED stateVars /\ Goto(t, "idle")
  BY <1>1, <1>4, SessionStutters DEF stateVars, SessionMoves
<1> QED BY <1>3, <1>4

(* startCapture() is asked for, or rolled back: nothing happened yet.      *)
LEMMA StartMoves ==
  ASSUME Careful, SInv, ClosingInProgress, NEW t \in Threads, StartCall(t) \/ StartSource(t) \/ StartRollback(t)
  PROVE  SessionMoves /\ ClosingInProgress'
<1> USE SourcesFacts DEF SInv, CInv, CallsPlaced, Placed, Goto, At, Step, Free
<1>1. /\ held' = held /\ bufferIndex' = bufferIndex /\ pc[t] \in {"idle", "start_source", "undo_rollback"}
      /\ \A u \in Threads \ {t} : pc'[u] = pc[u]
      /\ t \in Starters /\ state \in {"INIT", "STOPPED"}
  BY DEF frameVars, StartCall, MayStart, StartSource, StartRollback, InStart
<1>2. temp # "RELEASED"
  BY <1>1, NotClosing
<1>3. state' = state /\ temp' \in {"STARTED", state, temp}
  BY DEF StartCall, Request, StartSource, StartRollback, Rollback, stateVars
<1> QED BY <1>1, <1>2, <1>3, SessionStutters DEF SessionMoves

(* nextFrame() is called with a frame that shows a buffer of its own.      *)
LEMMA PutMoves ==
  ASSUME Careful, BInv, ClosingInProgress, NEW s \in Sources, PushPut(s)
  PROVE  SessionMoves /\ ClosingInProgress'
<1> USE SourcesFacts, FrameFacts DEF BInv, FInv
<1>1. /\ run[s] = "put" /\ cur[s] \in Frames /\ UNCHANGED <<state, temp, pc, bufferIndex>>
      /\ held' = held \/ (temp # "STOPPED" /\ held' = held \cup {cur[s]})
  BY DEF PushPut, RunFrom, PutUser, PutThrows, callVars
<1>2. CASE held' = held
  BY <1>1, <1>2, SessionStutters DEF SessionMoves
<1>3. CASE temp # "STOPPED" /\ held' = held \cup {cur[s]}
  <2> PICK f \in Frames : f = cur[s]
    BY <1>1
  <2> PICK b \in Buffers : b = bufferIndex[f]
    OBVIOUS
  <2>1. state = "STARTED"
    BY <1>1, NothingOut DEF FramesOK
  <2>2. Phase = "capturing" /\ Phase' = "capturing"
    BY <1>1, <1>3, <2>1 DEF Phase
  <2>3. f \in Frames /\ b \in Buffers /\ f \notin held
    BY <1>1 DEF FramesOK, HeldApart
  <2>4. \A g \in held : bufferIndex[g] # b
    BY <1>1, <2>3 DEF CarriedOK, CarriedOnce, Carries
  <2>5. View' = [g \in held \cup {f} |-> IF g = f THEN b ELSE View[g]] /\ DOMAIN View = held
    BY <1>1, <1>3 DEF View
  <2>6. Session!Deliver(f, b)
    BY <2>2, <2>3, <2>4, <2>5 DEF Session!Deliver, View
  <2>7. ClosingInProgress'
    BY <1>1 DEF ClosingInProgress
  <2>8. Session!SessionNext
    BY <2>3, <2>6 DEF Session!SessionNext
  <2> QED BY <2>7, <2>8 DEF SessionMoves
<1> QED BY <1>1, <1>2, <1>3

(* recycle() gives a frame back.                                           *)
LEMMA RecycleMoves ==
  ASSUME Careful, BInv, ClosingInProgress, NEW t \in Threads, NEW f \in Frames, RecycleCall(t, f)
  PROVE  SessionMoves /\ ClosingInProgress'
<1> USE SourcesFacts DEF BInv, FInv
<1>1. /\ f \in held /\ held' = held \ {f} /\ UNCHANGED <<state, temp, bufferIndex>> /\ pc[t] = "idle"
      /\ \A u \in Threads \ {t} : pc'[u] = pc[u]
  BY DEF RecycleCall, EnterRecycle, Free, Goto, stateVars
<1>2. Phase' = Phase
  BY <1>1, SamePhase
<1>3. View' = [g \in held \ {f} |-> View[g]] /\ DOMAIN View = held
  BY <1>1 DEF View
<1>4. Session!GiveBack(f)
  BY <1>1, <1>2, <1>3 DEF Session!GiveBack, View
<1>5. ClosingInProgress'
  BY <1>1 DEF ClosingInProgress
<1> QED BY <1>4, <1>5 DEF SessionMoves, Session!SessionNext

(* The buffer of a frame is changed before the application has the frame.  *)
LEMMA DeliverMoves ==
  ASSUME Careful, BInv, ClosingInProgress, NEW s \in Sources, PushDeliver(s)
  PROVE  SessionMoves /\ ClosingInProgress'
<1> USE SourcesFacts, FrameFacts DEF BInv, FInv
<1>1. /\ cur[s] \in Frames /\ UNCHANGED <<state, temp, pc, held>>
      /\ bufferIndex' = [bufferIndex EXCEPT ![cur[s]] = lastIndex]
  BY DEF PushDeliver, RunFrom, stateVars, callVars
<1>2. \A f \in held : bufferIndex'[f] = bufferIndex[f]
  BY <1>1 DEF FramesOK, HeldApart
<1> QED BY <1>1, <1>2, SamePhase, SameView DEF SessionMoves, SameSession, ClosingInProgress

(* Every step.                                                             *)
LEMMA SessionStep ==
  ASSUME Careful, BInv, ClosingInProgress, [Next]_vars
  PROVE  SessionMoves /\ ClosingInProgress'
<1> USE SourcesFacts DEF BInv, FInv, SessionMoves, At, Goto, Step, RunFrom, stateVars, sourceVars,
    frameVars, callVars
<1>1. ASSUME NEW t \in Threads, Call(t) \/ CallStep(t) PROVE SessionMoves /\ ClosingInProgress'
  <2>1. CASE \E s \in Sources : SetCaptureCallback(t, s)
    BY <2>1, SessionStutters DEF SetCaptureCallback, IsStarted, NotReleased, Free
  <2>2. CASE \E f \in Frames : RecycleCall(t, f)
    BY <2>2, RecycleMoves
  <2>3. CASE StartCall(t)
    BY <2>3, StartMoves
  <2>4. CASE StopCall(t)
    BY <2>4, StopMoves
  <2>5. CASE ReleaseCall(t)
    BY <2>5, StopMoves
  <2>6. CASE VideoInputCall(t)
    BY <2>6, SessionStutters DEF VideoInputCall, Free, NotReleased
  <2>7. CASE VideoInputNative(t)
    BY <2>7, SessionStutters DEF VideoInputNative
  <2>8. CASE StartSource(t)
    BY <2>8, StartMoves
  <2>9. CASE StartWait(t)
    BY <2>9, SessionStutters DEF StartWait, Passes, Waits
  <2>10. CASE StartNative(t)
    BY <2>10, SessionStutters DEF StartNative, StartCapture, StartCaptureFails
  <2>11. CASE StartCommit(t)
    BY <2>11, CommitMoves
  <2>12. CASE StartFill(t)
    BY <2>12, SessionStutters DEF StartFill
  <2>13. CASE SourceStop(t, "undo_source", "undo_interrupt", "undo_rollback")
    BY <2>13, SessionStutters DEF SourceStop
  <2>14. CASE SourceInterrupt(t, "undo_interrupt", "undo_join")
    BY <2>14, SessionStutters DEF SourceInterrupt
  <2>15. CASE SourceJoin(t, "undo_join", "undo_rollback")
    BY <2>15, SessionStutters DEF SourceJoin, Interrupted, ClearInterrupt
  <2>16. CASE StartRollback(t)
    BY <2>16, StartMoves
  <2>17. CASE SourceStop(t, "stop_source", "stop_interrupt", "stop_native")
    BY <2>17, SessionStutters DEF SourceStop
  <2>18. CASE SourceInterrupt(t, "stop_interrupt", "stop_join")
    BY <2>18, SessionStutters DEF SourceInterrupt
  <2>19. CASE SourceJoin(t, "stop_join", "stop_native")
    BY <2>19, SessionStutters DEF SourceJoin, Interrupted, ClearInterrupt
  <2>20. CASE StopNative(t)
    BY <2>20, SessionStutters DEF StopNative, StopCapture
  <2>21. CASE StopUsers(t)
    BY <2>21, SessionStutters DEF StopUsers, Passes, Waits, Interrupted, ClearInterrupt
  <2>22. CASE StopRecycle(t)
    BY <2>22, SessionStutters DEF StopRecycle, EnterRecycle, IsStarted, NotReleased
  <2>23. CASE StopClear(t)
    BY <2>23, SessionStutters DEF StopClear
  <2>24. CASE StopCommit(t)
    BY <2>24, CommitMoves
  <2>25. CASE ReleaseMark(t)
    BY <2>25, ReleaseMoves
  <2>26. CASE ReleaseNative(t)
    BY <2>26, SessionStutters DEF ReleaseNative, FreeCapture
  <2>27. CASE ReleaseCommit(t)
    BY <2>27, CommitMoves
  <2>28. CASE RecycleTemp(t)
    BY <2>28, SessionStutters DEF RecycleTemp, LeaveRecycle, Back
  <2>29. CASE RecycleEnqueue(t)
    BY <2>29, SessionStutters DEF RecycleEnqueue, Enqueue
  <2>30. CASE RecyclePut(t)
    BY <2>30, SessionStutters DEF RecyclePut, LeaveRecycle, Back, Interrupted, ClearInterrupt
  <2>31. CASE RecycleDone(t)
    BY <2>31, SessionStutters DEF RecycleDone, LeaveRecycle, Back
  <2> QED BY <1>1, <2>1, <2>2, <2>3, <2>4, <2>5, <2>6, <2>7, <2>8, <2>9, <2>10, <2>11, <2>12, <2>13, <2>14,
      <2>15, <2>16, <2>17, <2>18, <2>19, <2>20, <2>21, <2>22, <2>23, <2>24, <2>25, <2>26, <2>27, <2>28,
      <2>29, <2>30, <2>31, Zenon DEF Call, CallStep, StartUndo, StopSource
<1>2. ASSUME NEW s \in Sources, PushStep(s) \/ PushFill(s) PROVE SessionMoves /\ ClosingInProgress'
  <2>1. CASE PushLoop(s)
    BY <2>1, SessionStutters DEF PushLoop, ClearInterrupt
  <2>2. CASE PushGet(s)
    BY <2>2, SessionStutters DEF PushGet, GetUser
  <2>3. CASE PushAvail(s)
    BY <2>3, SessionStutters DEF PushAvail, ClearInterrupt
  <2>4. CASE PushFrameFails(s)
    BY <2>4, SessionStutters DEF PushFrameFails
  <2>5. CASE PushDeliver(s)
    BY <2>5, DeliverMoves
  <2>6. CASE PushPut(s)
    BY <2>6, PutMoves
  <2>7. CASE PushPutThrows(s)
    BY <2>7, SessionStutters DEF PushPutThrows, PutUser
  <2>8. CASE PushReturn(s)
    BY <2>8, SessionStutters DEF PushReturn
  <2>9. CASE PushCaught(s)
    BY <2>9, SessionStutters DEF PushCaught, IsStarted, NotReleased
  <2>10. CASE PushExceptionDone(s)
    BY <2>10, SessionStutters DEF PushExceptionDone
  <2>11. CASE PushExit(s)
    BY <2>11, SessionStutters DEF PushExit
  <2>12. CASE PushFill(s)
    BY <2>12, SessionStutters DEF PushFill, Dequeue
  <2> QED BY <1>2, <2>1, <2>2, <2>3, <2>4, <2>5, <2>6, <2>7, <2>8, <2>9, <2>10, <2>11, <2>12, Zenon DEF PushStep
<1>3. CASE Open
  BY <1>3, OpenMoves
<1>4. CASE UNCHANGED vars
  BY <1>4, SessionStutters DEF vars
<1> QED BY <1>1, <1>2, <1>3, <1>4 DEF Next

(* Every step of the grabber is a step of a capture session, or changes    *)
(* nothing the application can see.                                        *)
THEOREM GrabberImplementsSession == Careful => (Spec => ImplementsSession)
<1> SUFFICES ASSUME Careful PROVE Spec => ImplementsSession
  OBVIOUS
<1>1. Init => Session!SessionInit /\ ClosingInProgress
  BY DEF Init, StateInit, Session!SessionInit, Session!NoView, Phase, ClosingInProgress
<1>2. BInv /\ ClosingInProgress /\ [Next]_vars => ClosingInProgress' /\ [Session!SessionNext]_(Session!sessionVars)
  BY SessionStep DEF SessionMoves, SameSession, Session!sessionVars, View
<1> QED BY <1>1, <1>2, BuffersInvariance, PTL DEF Spec, ImplementsSession, Session!SessionSpec
=============================================================================
