----------------------------- MODULE FrameGrabber -----------------------------
(***************************************************************************)
(* A v4l4j frame grabber at work: AbstractGrabber with its State monitor   *)
(* (GrabberState), its PushSource objects and their push threads, its      *)
(* BaseVideoFrames, and the V4L2 buffers behind it (DriverQueue).          *)
(*                                                                         *)
(* Threads interleave between any two accesses to shared state.  pc[t] is  *)
(* where thread t stands in the FrameGrabber or VideoFrame method it is    *)
(* calling, "idle" when it calls none; run[s] is where the push thread of  *)
(* PushSource s stands in PushSource.run(), "none" when there is no such   *)
(* thread.  A push thread calls methods itself from the callback object.   *)
(***************************************************************************)
EXTENDS GrabberState, DriverQueue, Sequences

CONSTANTS
  Apps,           (* threads of the application                            *)
  Sources,        (* PushSource objects, each also naming its push thread  *)
  None,           (* no source, no thread, no frame                        *)
  QueueCapacity,  (* buffers asked for (v4l4j.num_driver_buffers)          *)
  Configurers,    (* threads that may call setCaptureCallback()            *)
  Starters,       (* threads that may call startCapture()                  *)
  Stoppers,       (* threads that may call stopCapture()                   *)
  Releasers,      (* threads that may call release()                       *)
  Recyclers,      (* threads that may call VideoFrame.recycle()            *)
  InputUsers,     (* threads that may call setVideoInputNStandard() & co.  *)
  Faults,         (* what may fail: "streamon", "dqbuf", "convert",        *)
                  (* "callback"                                            *)
  DropAtStop,     (* the application forgets its frames when a stop ends   *)
  SplitRead,      (* recycle() reads state and temp at two instants        *)
  PatientStop     (* nobody calls stopCapture() during a startCapture()    *)

Threads == Apps \cup Sources

ASSUME ThreadsAssumption ==
  /\ Apps \cap Sources = {} /\ IsFiniteSet(Sources)
  /\ None \notin Threads /\ None \notin 1 .. NumBuffers
ASSUME RolesAssumption ==
  /\ Configurers \cup Starters \cup Releasers \subseteq Apps
  /\ Stoppers \cup Recyclers \cup InputUsers \subseteq Threads
ASSUME CapacityAssumption == QueueCapacity \in Nat \ {0}
ASSUME FaultsAssumption ==
  /\ Faults \subseteq {"streamon", "dqbuf", "convert", "callback"}
  /\ {DropAtStop, SplitRead, PatientStop} \subseteq BOOLEAN

VARIABLES
  pushSource,   (* AbstractGrabber.pushSource, None before a callback is set *)
  pushState,    (* PushSource.state of each source                           *)
  run,          (* location of each push thread in run()                     *)
  intr,         (* interrupt flag of each push thread                        *)
  cur,          (* the frame a push thread took from the queue               *)
  available,    (* AbstractGrabber.availableVideoFrames                      *)
  recycled,     (* BaseVideoFrame.recycled                                   *)
  bufferIndex,  (* BaseVideoFrame.bufferIndex                                *)
  lastIndex,    (* AbstractGrabber.lastCapturedFrameBufferIndex              *)
  lock,         (* owner of each frame's monitor                             *)
  held,         (* frames delivered to the application and not given back    *)
  pc,           (* location of each thread in the method it calls            *)
  arg,          (* frame a thread is recycling                               *)
  pos,          (* position of a thread in a loop over videoFrames, 0 if none *)
  src,          (* PushSource whose stopCapture() a thread is in             *)
  releasing     (* the stopCapture() in progress was called by release()     *)

sourceVars == <<pushSource, pushState, run, intr, cur>>
frameVars  == <<available, recycled, bufferIndex, lastIndex, lock, held>>
callVars   == <<pc, arg, pos, src, releasing>>
vars == <<stateVars, driverVars, sourceVars, frameVars, callVars>>

(* AbstractGrabber.videoFrames: one frame per granted buffer. *)
Frames == 1 .. NumBuffers

InStart == {"start_source", "start_wait", "start_native", "start_commit", "start_fill",
            "undo_source", "undo_interrupt", "undo_join", "undo_rollback"}
InStop == {"stop_source", "stop_interrupt", "stop_join", "stop_native", "stop_users",
           "stop_recycle", "stop_clear", "stop_commit"}
InRecycle == {"recycle_temp", "recycle_enqueue", "recycle_put", "recycle_done"}
InRelease == {"release_mark", "release_native", "release_commit"}
Locations == {"idle", "input_native"} \cup InStart \cup InStop \cup InRecycle \cup InRelease

(* Locations of a push thread inside getNextVideoFrame(). *)
InGetNext == {"avail", "fill", "deliver", "put", "put_throws"}
InCallback == {"nextFrame", "exception"}
RunLocations == {"none", "loop", "get", "caught", "exit"} \cup InGetNext \cup InCallback

Init ==
  /\ StateInit /\ DriverInit
  /\ pushSource = None
  /\ pushState = [s \in Sources |-> "STOPPED"]
  /\ run = [s \in Sources |-> "none"]
  /\ intr = [s \in Sources |-> FALSE]
  /\ cur = [s \in Sources |-> None]
  /\ available = <<>>
  /\ recycled = [f \in Frames |-> TRUE]
  /\ bufferIndex = [f \in Frames |-> 0]
  /\ lastIndex = 0
  /\ lock = [f \in Frames |-> None]
  /\ held = {}
  /\ pc = [t \in Threads |-> "idle"]
  /\ arg = [t \in Threads |-> None]
  /\ pos = [t \in Threads |-> 0]
  /\ src = [t \in Threads |-> None]
  /\ releasing = [t \in Threads |-> FALSE]

(* t can call a method: an application thread that is in none, or a push   *)
(* thread that runs the callback object's code.                            *)
Free(t) == pc[t] = "idle" /\ (t \in Sources => run[t] \in InCallback)

At(t, here) == pc[t] = here
Goto(t, there) == pc' = [pc EXCEPT ![t] = there]
Step(t, here, there) == At(t, here) /\ Goto(t, there)

(* Only push threads are interrupted, by PushSource.stopCapture() or by    *)
(* themselves.  An InterruptedException clears the flag.                   *)
Interrupted(t) == t \in Sources /\ intr[t]
ClearInterrupt(t) == intr' = [intr EXCEPT ![t] = FALSE]

-----------------------------------------------------------------------------
(* init(): called once, by the VideoDevice method that builds the grabber, *)
(* before any other thread can see it.  doInit() may fail, which leaves    *)
(* temp at INIT and the grabber unusable.                                  *)
Open ==
  /\ MayInit
  /\ \/ state' = "INIT" /\ temp' = "INIT"
     \/ state' = state /\ temp' = "INIT"
  /\ UNCHANGED <<users, waiting, driverVars, sourceVars, frameVars, callVars>>

(* setCaptureCallback(): refused while started; installs a new PushSource. *)
SetCaptureCallback(t, s) ==
  /\ t \in Configurers /\ Free(t)
  /\ state # "UNINIT" /\ NotReleased /\ ~IsStarted
  /\ s # pushSource /\ run[s] = "none" /\ \A u \in Threads : src[u] # s
  /\ pushSource' = s
  /\ UNCHANGED <<stateVars, driverVars, pushState, run, intr, cur, frameVars, callVars>>

(* setVideoInputNStandard(), getVideoInput(), getVideoStandard(): an       *)
(* unsynchronised checkReleased(), then the native call.                   *)
VideoInputCall(t) ==
  /\ t \in InputUsers /\ Free(t)
  /\ state # "UNINIT" /\ NotReleased
  /\ Goto(t, "input_native")
  /\ UNCHANGED <<stateVars, driverVars, sourceVars, frameVars, arg, pos, src, releasing>>

VideoInputNative(t) ==
  /\ Step(t, "input_native", "idle")
  /\ UNCHANGED <<stateVars, driverVars, sourceVars, frameVars, arg, pos, src, releasing>>

-----------------------------------------------------------------------------
(* startCapture() *)
StartCall(t) ==
  /\ t \in Starters /\ Free(t)
  /\ MayStart /\ Request("STARTED")
  /\ Goto(t, "start_source")
  /\ UNCHANGED <<driverVars, sourceVars, frameVars, arg, pos, src, releasing>>

(* Without a callback the state is rolled back.  PushSource.startCapture() *)
(* throws, and nothing is rolled back, when the source has not stopped.    *)
StartSource(t) ==
  /\ At(t, "start_source")
  /\ \/ /\ pushSource = None
        /\ Rollback /\ Goto(t, "idle")
        /\ UNCHANGED <<pushState, run, intr>>
     \/ /\ pushSource # None /\ pushState[pushSource] # "STOPPED"
        /\ Goto(t, "idle")
        /\ UNCHANGED <<stateVars, pushState, run, intr>>
     \/ /\ pushSource # None /\ pushState[pushSource] = "STOPPED"
        /\ pushState' = [pushState EXCEPT ![pushSource] = "RUNNING"]
        /\ run' = [run EXCEPT ![pushSource] = "loop"]
        /\ intr' = [intr EXCEPT ![pushSource] = FALSE]
        /\ Goto(t, "start_wait")
        /\ UNCHANGED stateVars
  /\ UNCHANGED <<driverVars, pushSource, cur, frameVars, arg, pos, src, releasing>>

(* state.waitForAtLeastOneUser() *)
StartWait(t) ==
  /\ At(t, "start_wait")
  /\ \/ Passes(t, users # 0) /\ Goto(t, "start_native")
     \/ Waits(t, users # 0) /\ UNCHANGED pc
  /\ UNCHANGED <<driverVars, sourceVars, frameVars, arg, pos, src, releasing>>

(* The native start(): enqueue all buffers and switch the stream on. *)
StartNative(t) ==
  /\ At(t, "start_native")
  /\ \/ StartCapture /\ Goto(t, "start_commit")
     \/ StartCaptureFails("streamon" \in Faults) /\ Goto(t, "undo_source")
  /\ UNCHANGED <<stateVars, sourceVars, frameVars, arg, pos, src, releasing>>

StartCommit(t) ==
  /\ Step(t, "start_commit", "start_fill")
  /\ Commit
  /\ pos' = [pos EXCEPT ![t] = 1]
  /\ UNCHANGED <<driverVars, sourceVars, frameVars, arg, src, releasing>>

(* Mutant: the last frame is left out. *)
StartFillShort(t) ==
  /\ At(t, "start_fill")
  /\ available' = Append(available, pos[t])
  /\ pos' = [pos EXCEPT ![t] = IF @ + 1 < NumBuffers THEN @ + 1 ELSE 0]
  /\ Goto(t, IF pos[t] + 1 < NumBuffers THEN "start_fill" ELSE "idle")
  /\ UNCHANGED <<stateVars, driverVars, sourceVars, arg, src, releasing,
                 recycled, bufferIndex, lastIndex, lock, held>>

(* availableVideoFrames.addAll(videoFrames): one add() after the other;    *)
(* add() throws when the queue is full.                                    *)
StartFill(t) ==
  /\ At(t, "start_fill")
  /\ LET more == Len(available) < QueueCapacity /\ pos[t] < NumBuffers
     IN  /\ Goto(t, IF more THEN "start_fill" ELSE "idle")
         /\ pos' = [pos EXCEPT ![t] = IF more THEN @ + 1 ELSE 0]
  /\ available' = IF Len(available) < QueueCapacity THEN Append(available, pos[t])
                                                    ELSE available
  /\ UNCHANGED <<stateVars, driverVars, sourceVars, arg, src, releasing,
                 recycled, bufferIndex, lastIndex, lock, held>>

-----------------------------------------------------------------------------
(* PushSource.stopCapture(), called by stopCapture() ("stop") and by a     *)
(* startCapture() whose native part failed ("undo").  Without a source the *)
(* call ends in a NullPointerException.                                    *)
SourceStop(t, here, interrupt, after) ==
  /\ At(t, here)
  /\ \/ /\ pushSource # None /\ pushState[pushSource] = "RUNNING"
        /\ pushState' = [pushState EXCEPT ![pushSource] = "ABOUT_TO_STOP"]
        /\ src' = [src EXCEPT ![t] = pushSource]
        /\ Goto(t, interrupt)
        /\ UNCHANGED releasing
     \/ /\ pushSource # None /\ pushState[pushSource] # "RUNNING"
        /\ Goto(t, after)
        /\ UNCHANGED <<pushState, src, releasing>>
     \/ /\ pushSource = None
        /\ Goto(t, "idle")
        /\ releasing' = [releasing EXCEPT ![t] = FALSE]
        /\ UNCHANGED <<pushState, src>>
  /\ UNCHANGED <<stateVars, driverVars, pushSource, run, intr, cur, frameVars, arg, pos>>

(* Mutant: the push thread is joined without being interrupted. *)
SourceNoInterrupt(t, here, join) ==
  Step(t, here, join) /\ UNCHANGED <<stateVars, driverVars, sourceVars, frameVars, arg, pos, src, releasing>>

(* if (thread.isAlive()) thread.interrupt(), which also ends a wait(). *)
SourceInterrupt(t, here, join) ==
  /\ Step(t, here, join)
  /\ intr' = [intr EXCEPT ![src[t]] = run[src[t]] # "none"]
  /\ waiting' = waiting \ {src[t]}
  /\ UNCHANGED <<state, temp, users, driverVars, pushSource, pushState, run, cur, frameVars, arg, pos, src, releasing>>

(* Mutant: the push thread is not waited for. *)
SourceNoJoin(t, here, after) ==
  /\ Step(t, here, after)
  /\ src' = [src EXCEPT ![t] = None]
  /\ UNCHANGED <<stateVars, driverVars, sourceVars, frameVars, arg, pos, releasing>>

(* while (state == STATE_ABOUT_TO_STOP) thread.join(), unless the caller   *)
(* is the push thread itself.  A join() that is interrupted is tried again. *)
SourceJoin(t, here, after) ==
  /\ At(t, here)
  /\ \/ /\ t = src[t] \/ pushState[src[t]] # "ABOUT_TO_STOP"
        /\ src' = [src EXCEPT ![t] = None]
        /\ Goto(t, after)
        /\ UNCHANGED intr
     \/ /\ t # src[t] /\ pushState[src[t]] = "ABOUT_TO_STOP" /\ Interrupted(t)
        /\ ClearInterrupt(t)
        /\ UNCHANGED <<pc, src>>
  /\ UNCHANGED <<stateVars, driverVars, pushSource, pushState, run, cur, frameVars, arg, pos, releasing>>

StartUndo(t) ==
  \/ SourceStop(t, "undo_source", "undo_interrupt", "undo_rollback")
  \/ SourceInterrupt(t, "undo_interrupt", "undo_join")
  \/ SourceJoin(t, "undo_join", "undo_rollback")

(* Mutant: the exception is propagated without a rollback. *)
StartNoRollback(t) ==
  Step(t, "undo_rollback", "idle") /\ UNCHANGED <<stateVars, driverVars, sourceVars, frameVars, arg, pos, src, releasing>>

StartRollback(t) ==
  /\ Step(t, "undo_rollback", "idle")
  /\ Rollback
  /\ UNCHANGED <<driverVars, sourceVars, frameVars, arg, pos, src, releasing>>

-----------------------------------------------------------------------------
(* stopCapture() *)
StopCall(t) ==
  /\ t \in Stoppers /\ Free(t)
  /\ PatientStop => \A u \in Threads : pc[u] \notin InStart
  /\ MayStop /\ Request("STOPPED")
  /\ Goto(t, "stop_source")
  /\ UNCHANGED <<driverVars, sourceVars, frameVars, arg, pos, src, releasing>>

StopSource(t) ==
  \/ SourceStop(t, "stop_source", "stop_interrupt", "stop_native")
  \/ SourceInterrupt(t, "stop_interrupt", "stop_join")
  \/ SourceJoin(t, "stop_join", "stop_native")

(* Mutant: the stream is left on. *)
StopNativeSkipped(t) ==
  Step(t, "stop_native", "stop_users") /\ UNCHANGED <<stateVars, driverVars, sourceVars, frameVars, arg, pos, src, releasing>>

StopNative(t) ==
  /\ Step(t, "stop_native", "stop_users")
  /\ StopCapture
  /\ UNCHANGED <<stateVars, sourceVars, frameVars, arg, pos, src, releasing>>

(* state.waitTillNoMoreUsers(), which ignores an interrupt. *)
StopUsers(t) ==
  /\ At(t, "stop_users")
  /\ \/ /\ Passes(t, users = 0)
        /\ Goto(t, "stop_recycle")
        /\ pos' = [pos EXCEPT ![t] = 1]
        /\ UNCHANGED intr
     \/ ~Interrupted(t) /\ Waits(t, users = 0) /\ UNCHANGED <<pc, pos, intr>>
     \/ /\ Interrupted(t) /\ users # 0
        /\ ClearInterrupt(t)
        /\ UNCHANGED <<stateVars, pc, pos>>
  /\ UNCHANGED <<driverVars, pushSource, pushState, run, cur, frameVars, arg, src, releasing>>

(* for (frame : videoFrames) try { frame.recycle() }: BaseVideoFrame.recycle *)
(* takes the frame's monitor, so a recycle() in progress delays the loop.    *)
(* It throws at once when the frame is recycled, otherwise it goes on to     *)
(* recycleVideoBuffer(), which calls isStarted() without the State monitor:  *)
(* with SplitRead, temp is read later than state.                            *)
EnterRecycle(t, f) ==
  /\ lock[f] = None
  /\ LET goesOn == /\ ~recycled[f]
                   /\ IF SplitRead THEN NotReleased /\ state = "STARTED" ELSE IsStarted
     IN  IF goesOn
           THEN /\ lock' = [lock EXCEPT ![f] = t]
                /\ arg' = [arg EXCEPT ![t] = f]
                /\ Goto(t, IF SplitRead THEN "recycle_temp" ELSE "recycle_enqueue")
           ELSE UNCHANGED <<lock, arg, pc>>

(* Mutant: the loop over the frames is left out, and with it the wait for  *)
(* the recycle() calls in progress.                                        *)
StopRecycleSkipped(t) ==
  /\ Step(t, "stop_recycle", "stop_clear")
  /\ pos' = [pos EXCEPT ![t] = 0]
  /\ UNCHANGED <<stateVars, driverVars, sourceVars, frameVars, arg, src, releasing>>

StopRecycle(t) ==
  /\ At(t, "stop_recycle")
  /\ \/ /\ pos[t] <= NumBuffers
        /\ EnterRecycle(t, pos[t])
        /\ pos' = [pos EXCEPT ![t] = @ + 1]
     \/ /\ pos[t] > NumBuffers
        /\ Goto(t, "stop_clear")
        /\ pos' = [pos EXCEPT ![t] = 0]
        /\ UNCHANGED <<lock, arg>>
  /\ UNCHANGED <<stateVars, driverVars, sourceVars, src, releasing,
                 available, recycled, bufferIndex, lastIndex, held>>

(* Mutant: the queue is not cleared. *)
StopClearSkipped(t) ==
  Step(t, "stop_clear", "stop_commit") /\ UNCHANGED <<stateVars, driverVars, sourceVars, frameVars, arg, pos, src, releasing>>

StopClear(t) ==
  /\ Step(t, "stop_clear", "stop_commit")
  /\ available' = <<>>
  /\ UNCHANGED <<stateVars, driverVars, sourceVars, arg, pos, src, releasing,
                 recycled, bufferIndex, lastIndex, lock, held>>

(* stopCapture() ends here, or returns to the release() that called it. *)
StopCommit(t) ==
  /\ Step(t, "stop_commit", IF releasing[t] THEN "release_mark" ELSE "idle")
  /\ Commit
  /\ held' = IF DropAtStop THEN {} ELSE held
  /\ releasing' = [releasing EXCEPT ![t] = FALSE]
  /\ UNCHANGED <<driverVars, sourceVars, arg, pos, src,
                 available, recycled, bufferIndex, lastIndex, lock>>

-----------------------------------------------------------------------------
(* release(), called by VideoDevice.releaseFrameGrabber(): stopCapture(),  *)
(* a StateException of which is swallowed, then state.release(), the       *)
(* native doRelease() and commit().                                        *)
ReleaseCall(t) ==
  /\ t \in Releasers /\ Free(t) /\ state # "UNINIT"
  /\ IF MayStop
       THEN /\ Request("STOPPED")
            /\ Goto(t, "stop_source")
            /\ releasing' = [releasing EXCEPT ![t] = TRUE]
       ELSE UNCHANGED <<stateVars, releasing>> /\ Goto(t, "release_mark")
  /\ UNCHANGED <<driverVars, sourceVars, frameVars, arg, pos, src>>

ReleaseMark(t) ==
  /\ At(t, "release_mark")
  /\ \/ MayRelease /\ Request("RELEASED") /\ Goto(t, "release_native")
     \/ ~MayRelease /\ UNCHANGED stateVars /\ Goto(t, "idle")
  /\ UNCHANGED <<driverVars, sourceVars, frameVars, arg, pos, src, releasing>>

ReleaseNative(t) ==
  /\ Step(t, "release_native", "release_commit")
  /\ FreeCapture
  /\ UNCHANGED <<stateVars, sourceVars, frameVars, arg, pos, src, releasing>>

ReleaseCommit(t) ==
  /\ Step(t, "release_commit", "idle")
  /\ Commit
  /\ UNCHANGED <<driverVars, sourceVars, frameVars, arg, pos, src, releasing>>

-----------------------------------------------------------------------------
(* VideoFrame.recycle(), called by a thread of the application on a frame  *)
(* it holds and gives up with the call, whatever its outcome.              *)
RecycleCall(t, f) ==
  /\ t \in Recyclers /\ Free(t) /\ f \in held
  /\ held' = held \ {f}
  /\ EnterRecycle(t, f)
  /\ UNCHANGED <<stateVars, driverVars, sourceVars, pos, src, releasing,
                 available, recycled, bufferIndex, lastIndex>>

(* Where recycle() returns to: the loop of stopCapture(), or the caller. *)
Back(t) == IF pos[t] = 0 THEN "idle" ELSE "stop_recycle"

LeaveRecycle(t) ==
  /\ lock' = [lock EXCEPT ![arg[t]] = None]
  /\ arg' = [arg EXCEPT ![t] = None]
  /\ Goto(t, Back(t))

(* isStarted(), second read: temp. *)
RecycleTemp(t) ==
  /\ At(t, "recycle_temp")
  /\ \/ temp \notin {"STOPPED", "RELEASED"} /\ Goto(t, "recycle_enqueue") /\ UNCHANGED <<lock, arg>>
     \/ temp \in {"STOPPED", "RELEASED"} /\ LeaveRecycle(t)
  /\ UNCHANGED <<stateVars, driverVars, sourceVars, pos, src, releasing,
                 available, recycled, bufferIndex, lastIndex, held>>

(* Mutants: the buffer is not given back; the buffer captured last is. *)
RecycleEnqueueSkipped(t) ==
  Step(t, "recycle_enqueue", "recycle_put") /\ UNCHANGED <<stateVars, driverVars, sourceVars, frameVars, arg, pos, src, releasing>>
RecycleEnqueueLast(t) ==
  /\ Step(t, "recycle_enqueue", "recycle_put")
  /\ Enqueue(lastIndex)
  /\ UNCHANGED <<stateVars, sourceVars, frameVars, arg, pos, src, releasing>>

RecycleEnqueue(t) ==
  /\ Step(t, "recycle_enqueue", "recycle_put")
  /\ Enqueue(bufferIndex[arg[t]])
  /\ UNCHANGED <<stateVars, sourceVars, frameVars, arg, pos, src, releasing>>

(* availableVideoFrames.put(frame): blocks while the queue is full; an     *)
(* interrupted thread gets an InterruptedException, which clears its flag  *)
(* and leaves the frame as it was.                                         *)
RecyclePut(t) ==
  /\ At(t, "recycle_put")
  /\ \/ /\ ~Interrupted(t) /\ Len(available) < QueueCapacity
        /\ available' = Append(available, arg[t])
        /\ Goto(t, "recycle_done")
        /\ UNCHANGED <<intr, lock, arg>>
     \/ /\ Interrupted(t)
        /\ ClearInterrupt(t)
        /\ LeaveRecycle(t)
        /\ UNCHANGED available
  /\ UNCHANGED <<stateVars, driverVars, pushSource, pushState, run, cur, pos, src, releasing,
                 recycled, bufferIndex, lastIndex, held>>

RecycleDone(t) ==
  /\ At(t, "recycle_done")
  /\ recycled' = [recycled EXCEPT ![arg[t]] = TRUE]
  /\ LeaveRecycle(t)
  /\ UNCHANGED <<stateVars, driverVars, sourceVars, pos, src, releasing,
                 available, bufferIndex, lastIndex, held>>

-----------------------------------------------------------------------------
(* PushSource.run() *)
RunFrom(s, here, there) == run[s] = here /\ run' = [run EXCEPT ![s] = there]

(* while (!Thread.interrupted()) *)
PushLoop(s) ==
  /\ RunFrom(s, "loop", IF intr[s] THEN "exit" ELSE "get")
  /\ ClearInterrupt(s)
  /\ UNCHANGED <<stateVars, driverVars, pushSource, pushState, cur, frameVars, callVars>>

(* Mutant: the call is not counted in. *)
PushGetUncounted(s) ==
  RunFrom(s, "get", "avail") /\ UNCHANGED <<stateVars, driverVars, pushSource, pushState, intr, cur, frameVars, callVars>>

(* getNextVideoFrame(): state.get() *)
PushGet(s) ==
  /\ RunFrom(s, "get", "avail")
  /\ GetUser
  /\ UNCHANGED <<driverVars, pushSource, pushState, intr, cur, frameVars, callVars>>

(* getAvailableVideoFrame(): poll() or take(); a frame, or an interrupt. *)
PushAvail(s) ==
  /\ \/ /\ ~intr[s] /\ available # <<>>
        /\ cur' = [cur EXCEPT ![s] = Head(available)]
        /\ available' = Tail(available)
        /\ RunFrom(s, "avail", "fill")
        /\ UNCHANGED intr
     \/ /\ intr[s]
        /\ ClearInterrupt(s)
        /\ RunFrom(s, "avail", "put_throws")
        /\ UNCHANGED <<cur, available>>
  /\ UNCHANGED <<stateVars, driverVars, pushSource, pushState, callVars,
                 recycled, bufferIndex, lastIndex, lock, held>>

(* fillBuffer(): a captured buffer. *)
PushFill(s) ==
  /\ RunFrom(s, "fill", "deliver")
  /\ \E b \in Buffers : Dequeue(b) /\ lastIndex' = b
  /\ UNCHANGED <<stateVars, pushSource, pushState, intr, cur, callVars,
                 available, recycled, bufferIndex, lock, held>>

(* fillBuffer() throws: the device does not stream, or an I/O error; or    *)
(* prepareForDelivery() does, on the length -1 of a frame libv4lconvert    *)
(* could not convert.  The frame object taken from the queue is not put    *)
(* back, and in the second case neither is the captured buffer.            *)
PushFrameFails(s) ==
  /\ \/ RunFrom(s, "fill", "put_throws") /\ (~streaming \/ "dqbuf" \in Faults)
     \/ /\ RunFrom(s, "deliver", "put_throws") /\ "convert" \in Faults
        /\ lock[cur[s]] = None
  /\ cur' = [cur EXCEPT ![s] = None]
  /\ UNCHANGED <<stateVars, driverVars, pushSource, pushState, intr, frameVars, callVars>>

(* Mutant: prepareForDelivery() is not synchronized. *)
PushDeliverUnlocked(s) ==
  /\ RunFrom(s, "deliver", "put")
  /\ recycled' = [recycled EXCEPT ![cur[s]] = FALSE]
  /\ bufferIndex' = [bufferIndex EXCEPT ![cur[s]] = lastIndex]
  /\ UNCHANGED <<stateVars, driverVars, pushSource, pushState, intr, cur, callVars,
                 available, lastIndex, lock, held>>

(* BaseVideoFrame.prepareForDelivery(), synchronized on the frame. *)
PushDeliver(s) ==
  /\ RunFrom(s, "deliver", "put")
  /\ lock[cur[s]] = None
  /\ recycled' = [recycled EXCEPT ![cur[s]] = FALSE]
  /\ bufferIndex' = [bufferIndex EXCEPT ![cur[s]] = lastIndex]
  /\ UNCHANGED <<stateVars, driverVars, pushSource, pushState, intr, cur, callVars,
                 available, lastIndex, lock, held>>

(* The finally clause, state.put(), with a frame to return: nextFrame() is *)
(* called with it, unless put() throws because a stop was requested.       *)
PushPut(s) ==
  /\ PutUser
  /\ \/ ~PutThrows /\ RunFrom(s, "put", "nextFrame") /\ held' = held \cup {cur[s]}
     \/ PutThrows /\ RunFrom(s, "put", "caught") /\ UNCHANGED held
  /\ cur' = [cur EXCEPT ![s] = None]
  /\ UNCHANGED <<driverVars, pushSource, pushState, intr, callVars,
                 available, recycled, bufferIndex, lastIndex, lock>>

(* Mutant: put() is not in a finally clause. *)
PushPutForgotten(s) ==
  RunFrom(s, "put_throws", "caught") /\ UNCHANGED <<stateVars, driverVars, pushSource, pushState, intr, cur, frameVars, callVars>>

(* Mutant: put() is called in a catch clause and in the finally clause. *)
PushPutTwice(s) ==
  /\ RunFrom(s, "put_throws", "caught")
  /\ users' = users - 2
  /\ UNCHANGED <<state, temp, waiting>>
  /\ UNCHANGED <<driverVars, pushSource, pushState, intr, cur, frameVars, callVars>>

(* The finally clause on the way out with an exception. *)
PushPutThrows(s) ==
  /\ RunFrom(s, "put_throws", "caught")
  /\ PutUser
  /\ UNCHANGED <<driverVars, pushSource, pushState, intr, cur, frameVars, callVars>>

(* nextFrame() returns or throws an Exception, which is ignored; an Error  *)
(* it throws is caught further out.                                        *)
PushReturn(s) ==
  /\ pc[s] = "idle"
  /\ \/ RunFrom(s, "nextFrame", "loop")
     \/ "callback" \in Faults /\ RunFrom(s, "nextFrame", "caught")
  /\ UNCHANGED <<stateVars, driverVars, pushSource, pushState, intr, cur, frameVars, callVars>>

(* catch (Throwable): exceptionReceived() is called if the capture is      *)
(* active; then the thread interrupts itself, so that the loop ends.       *)
PushCaught(s) ==
  /\ RunFrom(s, "caught", IF IsStarted THEN "exception" ELSE "loop")
  /\ intr' = [intr EXCEPT ![s] = IF IsStarted THEN @ ELSE TRUE]
  /\ UNCHANGED <<stateVars, driverVars, pushSource, pushState, cur, frameVars, callVars>>

PushExceptionDone(s) ==
  /\ pc[s] = "idle"
  /\ RunFrom(s, "exception", "loop")
  /\ intr' = [intr EXCEPT ![s] = TRUE]
  /\ UNCHANGED <<stateVars, driverVars, pushSource, pushState, cur, frameVars, callVars>>

PushExit(s) ==
  /\ RunFrom(s, "exit", "none")
  /\ pushState' = [pushState EXCEPT ![s] = "STOPPED"]
  /\ intr' = [intr EXCEPT ![s] = FALSE]
  /\ UNCHANGED <<stateVars, driverVars, pushSource, cur, frameVars, callVars>>

-----------------------------------------------------------------------------
(* The steps a call takes once it was made. *)
CallStep(t) ==
  \/ VideoInputNative(t)
  \/ StartSource(t) \/ StartWait(t) \/ StartNative(t) \/ StartCommit(t) \/ StartFill(t)
  \/ StartUndo(t) \/ StartRollback(t)
  \/ StopSource(t) \/ StopNative(t) \/ StopUsers(t) \/ StopRecycle(t) \/ StopClear(t) \/ StopCommit(t)
  \/ ReleaseMark(t) \/ ReleaseNative(t) \/ ReleaseCommit(t)
  \/ RecycleTemp(t) \/ RecycleEnqueue(t) \/ RecyclePut(t) \/ RecycleDone(t)

(* The calls the application may make. *)
Call(t) ==
  \/ \E s \in Sources : SetCaptureCallback(t, s)
  \/ \E f \in Frames : RecycleCall(t, f)
  \/ StartCall(t) \/ StopCall(t) \/ ReleaseCall(t) \/ VideoInputCall(t)

(* The steps of a push thread other than the driver's answer. *)
PushStep(s) ==
  \/ PushLoop(s) \/ PushGet(s) \/ PushAvail(s) \/ PushFrameFails(s) \/ PushDeliver(s)
  \/ PushPut(s) \/ PushPutThrows(s) \/ PushReturn(s) \/ PushCaught(s)
  \/ PushExceptionDone(s) \/ PushExit(s)

Next ==
  \/ Open
  \/ \E t \in Threads : Call(t) \/ CallStep(t)
  \/ \E s \in Sources : PushStep(s) \/ PushFill(s)

Spec == Init /\ [][Next]_vars

-----------------------------------------------------------------------------
(* Fairness.  The JVM schedules every runnable thread, so a call that was  *)
(* made and a push thread keep going, callbacks return, monitors are       *)
(* granted.  The application is not obliged to call anything.  Whether the *)
(* device delivers another frame is not the scheduler's business: a camera *)
(* that keeps streaming is the separate assumption DeviceFairness.         *)
ThreadFairness ==
  /\ \A t \in Threads : WF_vars(CallStep(t))
  /\ \A s \in Sources : WF_vars(PushStep(s))
DeviceFairness == \A s \in Sources : WF_vars(PushFill(s))

SilentDeviceSpec == Spec /\ ThreadFairness
LiveSpec == SilentDeviceSpec /\ DeviceFairness

-----------------------------------------------------------------------------
(* Type correctness. *)
TypeOK ==
  /\ state \in GrabberStates /\ temp \in GrabberStates
  /\ users \in Nat /\ waiting \subseteq Threads
  /\ queued \subseteq Buffers /\ streaming \in BOOLEAN /\ freed \in BOOLEAN
  /\ pushSource \in Sources \cup {None}
  /\ pushState \in [Sources -> {"STOPPED", "RUNNING", "ABOUT_TO_STOP"}]
  /\ run \in [Sources -> RunLocations]
  /\ intr \in [Sources -> BOOLEAN]
  /\ cur \in [Sources -> Frames \cup {None}]
  /\ available \in Seq(Frames) /\ Len(available) <= QueueCapacity
  /\ recycled \in [Frames -> BOOLEAN]
  /\ bufferIndex \in [Frames -> Buffers] /\ lastIndex \in Buffers
  /\ lock \in [Frames -> Threads \cup {None}]
  /\ held \subseteq Frames
  /\ pc \in [Threads -> Locations]
  /\ arg \in [Threads -> Frames \cup {None}]
  /\ pos \in [Threads -> 0 .. NumBuffers + 1]
  /\ src \in [Threads -> Sources \cup {None}]
  /\ releasing \in [Threads -> BOOLEAN]

Inside == {s \in Sources : run[s] \in InGetNext}
InQueue(f) == \E i \in DOMAIN available : available[i] = f

(* State.users is the number of push threads inside getNextVideoFrame():   *)
(* every way out of it, also the ones that throw, passes through put().    *)
UsersCounted == users = Cardinality(Inside)

(* notify() is enough: no thread sleeps in the State monitor while the     *)
(* condition it waits for already holds, although startCapture() and       *)
(* stopCapture() wait in the same wait set for opposite conditions.        *)
NoLostWakeup ==
  \A t \in waiting :
    /\ At(t, "start_wait") => users = 0
    /\ At(t, "stop_users") => users # 0

(* The driver always has a buffer to fill when a push thread asks for one: *)
(* recycleVideoBuffer() returns the buffer to the driver before it makes   *)
(* the frame available, and startCapture() queues all buffers first.       *)
DriverHasBuffer ==
  streaming => Cardinality(queued) >= Len(available) + Cardinality({s \in Sources : run[s] = "fill"})

(* A VideoFrame object has one user: it is not twice in the queue, nor in  *)
(* the queue or with a push thread while the application uses it, so v4l4j *)
(* never overwrites the image the application is reading.                  *)
FrameHasOneUser ==
  /\ \A i, j \in DOMAIN available : available[i] = available[j] => i = j
  /\ \A f \in held : ~InQueue(f) /\ \A s \in Sources : cur[s] # f
  /\ \A s \in Sources : cur[s] # None => ~InQueue(cur[s])

(* The buffer behind a frame the application holds is neither with the     *)
(* driver nor behind another held frame: recycling gives back the right    *)
(* one, once.                                                              *)
HeldBuffersOwned ==
  \A f \in held :
    /\ bufferIndex[f] \notin queued
    /\ \A g \in held : bufferIndex[f] = bufferIndex[g] => f = g

(* A frame the application holds can be used and recycled: it is not       *)
(* marked recycled, whichever way a recycle() and the next delivery of the *)
(* same object overlap, and the buffer behind it is its own.               *)
HeldFramesUsable == HeldBuffersOwned /\ \A f \in held : ~recycled[f]

(* The frame queue has room for whatever startCapture() and recycle() put  *)
(* into it: add() never throws and put() never blocks.                     *)
QueueNeverFull ==
  \A t \in Threads :
    pc[t] \in {"recycle_put", "start_fill"} => Len(available) < QueueCapacity

(* While capturing no frame object gets lost: it is available, being       *)
(* filled, held, or being recycled (what PushSourceTest counts), and the   *)
(* queue has room for it when it comes back.                               *)
NoFrameLost ==
  /\ QueueNeverFull
  /\ (IsStarted /\ \A t \in Threads : pc[t] # "start_fill") =>
       \A f \in Frames :
         \/ InQueue(f) \/ f \in held
         \/ \E s \in Sources : cur[s] = f
         \/ \E t \in Threads : arg[t] = f

(* What stopCapture() leaves behind once committed: an empty queue, a      *)
(* device that does not stream, nobody in getNextVideoFrame(), and no      *)
(* recycle() that could still put a frame into the queue.                  *)
QuietWhenStopped ==
  (state = "STOPPED" /\ temp = "STOPPED") =>
    /\ available = <<>> /\ ~streaming /\ users = 0
    /\ \A t \in Threads : pc[t] \notin {"recycle_enqueue", "recycle_put", "recycle_done"}

(* No native call is made on a device whose buffers were freed.            *)
NoNativeCallAfterFree ==
  freed =>
    /\ \A t \in Threads : pc[t] \notin {"start_native", "stop_native", "recycle_enqueue",
                                         "input_native", "release_native"}
    /\ \A s \in Sources : run[s] # "fill"

(* A startCapture() that did not succeed leaves nothing behind: "about to  *)
(* be started" is true only while such a call is in progress.              *)
FailedStartRollsBack ==
  (temp = "STARTED" /\ state # "STARTED") => \E t \in Threads : pc[t] \in InStart

(* A grabber at rest can be started again: no buffer is stuck in the       *)
(* driver's queue, where start_capture would fail on it, and the push      *)
(* source accepts a new startCapture().                                    *)
AtRest == state \in {"INIT", "STOPPED"} /\ temp = state
DriverReady == queued = {}
SourceReady == pushSource # None => pushState[pushSource] = "STOPPED"
ReadyToStart == AtRest => DriverReady /\ SourceReady

(* Every call that was made returns.                                       *)
CallsReturn == \A t \in Threads : pc[t] # "idle" ~> pc[t] = "idle"
StopReturns == \A t \in Threads : pc[t] \in InStop ~> pc[t] \notin InStop
-----------------------------------------------------------------------------
(* FrameGrabber implements CaptureSession.  The phase is read off the      *)
(* monitor's two fields; a startCapture() that has not committed is still  *)
(* "idle", so that one that fails or is rolled back is a stutter.          *)
Phase ==
  CASE state = "UNINIT"   -> "new"
    [] state = "RELEASED" -> "released"
    [] state = "STARTED"  -> IF temp = "STOPPED" THEN "stopping" ELSE "capturing"
    [] OTHER              -> IF temp = "RELEASED" THEN "closing" ELSE "idle"

Session == INSTANCE CaptureSession WITH
  ForgetAtEnd <- DropAtStop,
  phase <- Phase,
  view <- [f \in held |-> bufferIndex[f]]

(* Every step of the grabber is a step of an abstract capture session or   *)
(* changes nothing the application can see.                                *)
ImplementsSession == Session!SessionSpec

(* ... and every stop and release that was begun is completed. *)
ImplementsLiveSession == Session!SessionLiveSpec
================================================================================
