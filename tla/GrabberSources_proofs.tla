----------------------- MODULE GrabberSources_proofs ------------------------
(***************************************************************************)
(* Push threads, the device and the locks of the frames, for a careful     *)
(* application.  What its threads do is bounded by what the examples of    *)
(* v4l4j do; what may fail is not.                                         *)
(***************************************************************************)
EXTENDS FrameGrabber_proofs

(* One thread configures, starts, releases and selects inputs; a stop does *)
(* not cut into its start; it forgets its frames when a stop ends (the     *)
(* code recycles them).  Any thread may recycle, and while application     *)
(* threads do, recycle() is taken to read state and temp at once.  A push  *)
(* thread may stop the capture from its callback unless there is more than *)
(* one: a callback that was replaced may still be running.                 *)
Careful ==
  /\ \A t, u \in Configurers \cup Starters \cup Releasers \cup InputUsers : t = u
  /\ PatientStop /\ DropAtStop
  /\ SplitRead => Recyclers \subseteq Sources
  /\ Stoppers \subseteq Starters \/ \A s, u \in Sources : s = u

(* startCapture() between the start of the push thread and its commit or   *)
(* rollback.                                                               *)
Launching == {"start_wait", "start_native", "start_commit", "undo_source", "undo_interrupt", "undo_join"}

(* A push thread that was told to stop and can only leave run(). *)
Leaving(s) ==
  /\ pushState[s] = "ABOUT_TO_STOP"
  /\ run[s] \in InCallback \cup {"loop", "caught", "exit"}
  /\ run[s] \in InCallback \cup {"loop"} => intr[s]

(* PushSource.stopCapture() has returned in stopCapture() or in the undo.  *)
PastJoin(t) ==
  \/ pc[t] \in (InStop \ {"stop_source", "stop_interrupt", "stop_join"}) \cup {"undo_rollback"}
  \/ pc[t] \in InRecycle /\ pos[t] # 0

(* A push thread that lives is that of the current source.                 *)
OnlyCurrentRuns == \A s \in Sources : run[s] # "none" => s = pushSource

(* Outside STARTED a push thread lives while a start is under way, and,    *)
(* when push threads may stop the capture, while it leaves after it did.   *)
RunsWhenStarted ==
  state # "STARTED" => \A s \in Sources : run[s] # "none" =>
    \/ /\ \E t \in Threads : pc[t] \in Launching
       /\ run[s] \in {"loop", "get", "avail", "put_throws", "caught", "exit"}
    \/ ~(Stoppers \subseteq Starters) /\ Leaving(s) /\ pc[s] \notin InRecycle

(* Until something stops it the current source is not about to stop.       *)
CurrentGoesOn ==
  (\/ state = "STARTED" /\ temp = "STARTED"
   \/ \E t \in Threads : pc[t] \in {"start_wait", "start_native", "start_commit", "undo_source", "stop_source"})
  => pushSource # None /\ pushState[pushSource] # "ABOUT_TO_STOP"

(* PushSource.stopCapture() stops the current source; a thread that stops  *)
(* itself has been interrupted when it is about to skip the join.          *)
StopsCurrent == \A t \in Threads :
  pc[t] \in {"undo_interrupt", "undo_join", "stop_interrupt", "stop_join"} =>
    /\ src[t] = pushSource /\ pushState[src[t]] \in {"ABOUT_TO_STOP", "STOPPED"}
    /\ pc[t] \in {"undo_join", "stop_join"} /\ src[t] = t => intr[t]

(* After the join every push thread has ended, but for the one that stops  *)
(* the capture itself.                                                     *)
JoinedSources == \A t \in Threads : PastJoin(t) =>
  \A s \in Sources : run[s] = "none" \/ (s = t /\ intr[t] /\ pushState[t] = "ABOUT_TO_STOP")

(* A push thread makes calls from its callback object only.                *)
CallsFromCallback == \A s \in Sources : pc[s] # "idle" => run[s] \in InCallback

(* A request to stop has its stopCapture().                                *)
StopInProgress == state = "STARTED" /\ temp = "STOPPED" => \E t \in Threads : Stops(t)

(* The push threads.                                                       *)
SourcesOK ==
  /\ OnlyCurrentRuns /\ RunsWhenStarted /\ CurrentGoesOn /\ StopsCurrent
  /\ JoinedSources /\ CallsFromCallback /\ StopInProgress

(* t is in a recycle() of its own, not in one stopCapture() makes. *)
Recycles(t) == pc[t] \in InRecycle /\ pos[t] = 0

(* recycle() works with the frame locked; one that the application called  *)
(* has found the capture started, and stays in it.                         *)
LockOfRecycle == \A t \in Threads :
  /\ pc[t] \in InRecycle => lock[arg[t]] = t
  /\ arg[t] # None => pc[t] \in InRecycle
  /\ Recycles(t) => state = "STARTED" /\ t \in Recyclers
  /\ pc[t] = "recycle_temp" => SplitRead

(* Whoever has a frame locked is recycling it.                             *)
OwnerRecycles == \A f \in Frames : lock[f] # None => pc[lock[f]] \in InRecycle /\ arg[lock[f]] = f

(* stopCapture() has had the locks of the frames it has passed, so that no *)
(* recycle() which saw STARTED is left behind it.                          *)
LocksPassed == \A t \in Threads, f \in Frames :
  /\ pc[t] \in {"stop_clear", "stop_commit"} => lock[f] = None
  /\ pc[t] = "stop_recycle" /\ f < pos[t] => lock[f] = None
  /\ pc[t] \in InRecycle /\ pos[t] # 0 /\ f < pos[t] => lock[f] \in {None, t}

(* The frames become available before anything ends the new capture.       *)
FillsStarted == \A t \in Threads : pc[t] = "start_fill" => state = "STARTED" /\ temp = "STARTED"

(* The queue is empty outside STARTED and when a stop commits.             *)
EmptyUnlessStarted == state # "STARTED" \/ (\E t \in Threads : pc[t] = "stop_commit") => available = <<>>

(* So is what the application holds.                                       *)
HeldWhenStarted == state # "STARTED" => held = {}

(* Frame locks and the queue.                                              *)
LocksOK ==
  LockOfRecycle /\ OwnerRecycles /\ LocksPassed /\ FillsStarted /\ EmptyUnlessStarted /\ HeldWhenStarted

(* The device streams while capturing; whoever passed the native stop has  *)
(* stopped it.                                                             *)
StreamsWhenStarted ==
  /\ streaming => state = "STARTED" \/ \E t \in Threads : pc[t] = "start_commit"
  /\ state = "STARTED" /\ temp = "STARTED" => streaming
  /\ \A t \in Threads : Stops(t) /\ PastJoin(t) /\ pc[t] # "stop_native" => ~streaming

(* A start commits with every buffer at the driver.                        *)
StartsFull == (\E t \in Threads : pc[t] = "start_commit") => streaming /\ queued = Buffers

(* The buffers are freed by a release() that has marked the grabber.       *)
FreedAtRelease == freed => temp = "RELEASED" /\ (state = "RELEASED" \/ \E t \in Threads : pc[t] = "release_commit")

(* A video input call is made by the owner, before that.                   *)
InputBeforeFree == \A t \in Threads : pc[t] = "input_native" => t \in InputUsers /\ ~freed

(* The device.                                                             *)
DeviceOK == StreamsWhenStarted /\ StartsFull /\ FreedAtRelease /\ InputBeforeFree

(* The inductive invariant of this module.                                 *)
SInv == CInv /\ SourcesOK /\ LocksOK /\ DeviceOK

(* A careful application has one owner.                                    *)
LEMMA OwnsAlone == Careful => OneOwner
  BY DEF Careful, OneOwner

(* The types the following proofs need.                                    *)
LEMMA SourcesFacts ==
  ASSUME SInv
  PROVE  /\ run \in [Sources -> RunLocations] /\ intr \in [Sources -> BOOLEAN]
         /\ pushState \in [Sources -> {"STOPPED", "RUNNING", "ABOUT_TO_STOP"}]
         /\ pc \in [Threads -> Locations] /\ arg \in [Threads -> Frames \cup {None}]
         /\ pos \in [Threads -> 0 .. NumBuffers + 1] /\ src \in [Threads -> Sources \cup {None}]
         /\ lock \in [Frames -> Threads \cup {None}]
         /\ cur \in [Sources -> Frames \cup {None}]
         /\ Sources \subseteq Threads /\ None \notin Threads
  BY Types, ThreadsAssumption DEF SInv, CInv, IInv, SourceTypes, CallTypes, FrameTypes, Threads

(* Once the source is joined nobody is inside getNextVideoFrame(). *)
LEMMA JoinedNoUsers ==
  ASSUME SInv, NEW t \in Threads, PastJoin(t)
  PROVE  users = 0
<1>1. Inside = {}
  BY SourcesFacts DEF SInv, SourcesOK, JoinedSources, CallsFromCallback, PastJoin, Inside, InGetNext,
    InCallback, InStop, InRecycle
<1> QED BY <1>1, FS_EmptySet DEF SInv, CInv, IInv, UsersCounted

(* One call at most is about to stop a source: the one owner in the undo   *)
(* of its start, or the thread that stops.                                 *)
InSourceStop(t) == pc[t] \in {"undo_interrupt", "undo_join", "stop_interrupt", "stop_join"}

(* One thread at a time is in PushSource.stopCapture().                    *)
LEMMA OneSourceStop ==
  ASSUME Careful, SInv, NEW t \in Threads, NEW u \in Threads, InSourceStop(t), InSourceStop(u)
  PROVE  t = u
  BY OwnsAlone DEF InSourceStop, OneOwner, SInv, CInv, CallsPlaced, OneStops, Placed, Stops, InStop, InStart

(* The steps of PushSource.stopCapture() and the push threads they are     *)
(* about.                                                                  *)
LEMMA SourceStopKeepsStops ==
  ASSUME Careful, SInv, NEW t \in Threads,
         \/ SourceStop(t, "undo_source", "undo_interrupt", "undo_rollback")
         \/ SourceStop(t, "stop_source", "stop_interrupt", "stop_native")
  PROVE  StopsCurrent'
<1> USE SourcesFacts DEF SourceStop, At, Goto
<1>1. /\ UNCHANGED <<pushSource, intr>> /\ \A u \in Threads \ {t} : pc'[u] = pc[u] /\ src'[u] = src[u]
      /\ \A s \in Sources : pushState'[s] \in {pushState[s], "ABOUT_TO_STOP"}
  OBVIOUS
<1>2. pc'[t] \in {"undo_interrupt", "stop_interrupt"} =>
        pushSource \in Sources /\ src'[t] = pushSource /\ pushState'[pushSource] = "ABOUT_TO_STOP"
  BY Types DEF SInv, CInv, IInv, SourceTypes
<1>3. pc'[t] \in {"undo_interrupt", "stop_interrupt", "undo_rollback", "stop_native", "idle"}
  OBVIOUS
<1>4. ASSUME NEW u \in Threads \ {t}, InSourceStop(u) PROVE src[u] \in Sources
  BY <1>4 DEF InSourceStop, SInv, CInv, IInv, CallLocated
<1> QED BY <1>1, <1>2, <1>3, <1>4 DEF SInv, SourcesOK, StopsCurrent, InSourceStop

(* The interrupt.                                                          *)
LEMMA InterruptKeepsStops ==
  ASSUME Careful, SInv, NEW t \in Threads,
         \/ SourceInterrupt(t, "undo_interrupt", "undo_join")
         \/ SourceInterrupt(t, "stop_interrupt", "stop_join")
  PROVE  StopsCurrent'
<1> USE SourcesFacts DEF SourceInterrupt, At, Goto, Step
<1>1. /\ InSourceStop(t) /\ src[t] \in Sources /\ src[t] = pushSource
      /\ pushState[src[t]] \in {"ABOUT_TO_STOP", "STOPPED"}
  BY DEF SInv, CInv, IInv, CallLocated, SourcesOK, StopsCurrent, InSourceStop
<1>2. \A u \in Threads \ {t} : ~InSourceStop(u) /\ pc'[u] = pc[u]
  BY <1>1, OneSourceStop
<1>3. ASSUME src[t] = t PROVE intr'[t] = TRUE
  <2>1. run[t] # "none"
    BY <1>1, <1>3 DEF SInv, SourcesOK, CallsFromCallback, InCallback
  <2>2. (run[t] # "none") = TRUE
    BY <2>1
  <2>3. intr' = [intr EXCEPT ![t] = TRUE]
    BY <1>3, <2>2, Zenon
  <2> QED BY <1>1, <1>3, <2>3
<1> QED BY <1>1, <1>2, <1>3 DEF StopsCurrent, InSourceStop

(* A push thread that is not in the callback is in no call, so nobody who  *)
(* stops it is past the join, and nobody who stops it is itself.           *)
LEMMA PushKeepsStops ==
  ASSUME SInv, NEW s \in Sources, run[s] \notin InCallback \cup {"none"}, UNCHANGED <<pushSource, pc, pos, src>>,
         \A u \in Sources \ {s} : run'[u] = run[u] /\ intr'[u] = intr[u] /\ pushState'[u] = pushState[u],
         pushState'[s] \in {pushState[s], "STOPPED"}
  PROVE  StopsCurrent' /\ JoinedSources'
<1> USE SourcesFacts DEF SInv, SourcesOK
<1>1. pc[s] = "idle"
  BY DEF CallsFromCallback
<1>2. \A t \in Threads : ~PastJoin(t)
  BY <1>1 DEF JoinedSources, PastJoin, InStop, InRecycle
<1>3. JoinedSources'
  BY <1>2 DEF JoinedSources, PastJoin
<1>4. ASSUME NEW t \in Threads, InSourceStop(t)
      PROVE  src[t] \in Sources /\ (src[t] = t => intr'[t] = intr[t])
  <2>1. src[t] \in Sources /\ t # s
    BY <1>1, <1>4 DEF InSourceStop, CInv, IInv, CallLocated
  <2> QED BY <2>1
<1>5. StopsCurrent'
  BY <1>4 DEF StopsCurrent, InSourceStop
<1> QED BY <1>3, <1>5

(* A blocked put() that is interrupted ends its recycle().                 *)
LEMMA RecyclePutKeepsRuns ==
  ASSUME SInv, NEW t \in Threads, RecyclePut(t)
  PROVE  RunsWhenStarted'
<1>1. /\ pc[t] = "recycle_put" /\ UNCHANGED <<state, run, pushState>>
      /\ \A u \in Threads \ {t} : pc'[u] = pc[u]
      /\ \A u \in Sources \ {t} : intr'[u] = intr[u]
  BY SourcesFacts DEF RecyclePut, At, Goto, LeaveRecycle, ClearInterrupt, stateVars
<1> QED BY <1>1, SourcesFacts DEF SInv, SourcesOK, RunsWhenStarted, Launching, Leaving, InRecycle

(* The stop that commits has joined every push thread but its own.         *)
LEMMA StopCommitKeepsRuns ==
  ASSUME SInv, NEW t \in Threads, StopCommit(t)
  PROVE  RunsWhenStarted'
<1> USE SourcesFacts DEF SInv, SourcesOK, CInv
<1>1. /\ pc[t] = "stop_commit" /\ UNCHANGED <<run, intr, pushState>>
      /\ pc' = [pc EXCEPT ![t] = IF releasing[t] THEN "release_mark" ELSE "idle"]
  BY DEF StopCommit, Step, At, Goto, sourceVars
<1>2. Stops(t) /\ PastJoin(t)
  BY <1>1 DEF Stops, PastJoin, InStop
<1>3. ASSUME NEW s \in Sources, run[s] # "none"
      PROVE  s = t /\ intr[s] /\ pushState[s] = "ABOUT_TO_STOP" /\ run[s] \in InCallback
  BY <1>1, <1>2, <1>3 DEF JoinedSources, CallsFromCallback
<1>4. t \in Sources => ~(Stoppers \subseteq Starters)
  BY <1>2, RolesAssumption, ThreadsAssumption DEF CallsPlaced, Placed
<1> QED BY <1>1, <1>3, <1>4 DEF RunsWhenStarted, Leaving, InRecycle

(* The undo of a failed start waits for its push thread.                   *)
LEMMA UndoJoinKeepsRuns ==
  ASSUME SInv, NEW t \in Threads, SourceJoin(t, "undo_join", "undo_rollback")
  PROVE  RunsWhenStarted'
<1> USE SourcesFacts DEF SInv, SourcesOK, CInv
<1>1. pc[t] = "undo_join" /\ t \notin Sources /\ UNCHANGED <<state, run, pushState>>
  BY RolesAssumption, ThreadsAssumption DEF SourceJoin, At, CallsPlaced, Placed, InStart, stateVars
<1>2. src[t] \in Sources /\ src[t] = pushSource /\ pushState[src[t]] \in {"ABOUT_TO_STOP", "STOPPED"}
  BY <1>1 DEF StopsCurrent, IInv, CallLocated
<1>3. pushState[src[t]] = "STOPPED"
  BY <1>1, <1>2 DEF SourceJoin, Interrupted
<1>4. \A s \in Sources : run[s] = "none"
  BY <1>2, <1>3 DEF OnlyCurrentRuns, IInv, ThreadOfSource
<1> QED BY <1>1, <1>4 DEF RunsWhenStarted

(* After the undo stopped the source nobody takes it for running.          *)
LEMMA UndoStopKeepsCurrent ==
  ASSUME Careful, SInv, NEW t \in Threads, SourceStop(t, "undo_source", "undo_interrupt", "undo_rollback")
  PROVE  CurrentGoesOn'
<1> USE SourcesFacts DEF SInv, CInv
<1>1. /\ pc[t] = "undo_source" /\ UNCHANGED <<state, temp>> /\ \A u \in Threads \ {t} : pc'[u] = pc[u]
      /\ pc'[t] \in {"undo_interrupt", "undo_rollback", "idle"}
  BY DEF SourceStop, At, Goto, stateVars
<1>2. t \in Starters /\ state # "STARTED" /\ temp = "STARTED"
  BY <1>1 DEF CallsPlaced, Placed, InStart
<1>3. \A u \in Threads \ {t} : pc[u] \notin InStart /\ pc[u] # "stop_source"
  BY <1>2, OwnsAlone DEF OneOwner, CallsPlaced, Placed, Stops, InStop
<1> QED BY <1>1, <1>2, <1>3 DEF CurrentGoesOn, InStart

(* A new source is installed only while no push thread runs: an owner who  *)
(* alone stops the grabber is in no stopCapture() now, and with one source *)
(* there is nothing else to install.                                       *)
LEMMA CallbackKeepsSources ==
  ASSUME Careful, SInv, NEW t \in Threads, NEW s \in Sources, SetCaptureCallback(t, s)
  PROVE  OnlyCurrentRuns' /\ StopsCurrent' /\ CurrentGoesOn'
<1>1. /\ t \in Configurers /\ pc[t] = "idle" /\ ~(state = "STARTED" /\ temp = "STARTED")
      /\ s # pushSource /\ run[s] = "none" /\ pushSource' = s
      /\ UNCHANGED <<state, temp, pc, src, run, intr, pushState>>
  BY DEF SetCaptureCallback, Free, IsStarted, NotReleased, stateVars, callVars
<1>2. \A u \in Threads : pc[u] \in InStart => FALSE
  BY <1>1 DEF Careful, SInv, CInv, CallsPlaced, Placed, InStart
<1>3. CASE Stoppers \subseteq Starters
  <2>1. \A u \in Threads : ~Stops(u)
    BY <1>1, <1>3 DEF Careful, SInv, CInv, CallsPlaced, Placed, Stops, InStop, InRecycle
  <2>2. state # "STARTED"
    BY <1>1, <2>1, Types DEF SInv, SourcesOK, StopInProgress, CInv, PhasesPaired
  <2>3. \A u \in Sources : run[u] = "none"
    BY <1>2, <1>3, <2>2 DEF SInv, SourcesOK, RunsWhenStarted, Launching, InStart
  <2> QED BY <1>1, <1>2, <2>1, <2>3 DEF OnlyCurrentRuns, StopsCurrent, CurrentGoesOn, Stops, InStart, InStop
<1>4. CASE \A x, y \in Sources : x = y
  <2>1. pushSource = None
    BY <1>1, <1>4, Types DEF SInv, CInv, IInv, SourceTypes
  <2>2. \A u \in Threads : pc[u] \notin {"stop_source", "stop_interrupt", "stop_join"}
    BY <2>1, SourcesFacts DEF SInv, CInv, IInv, CallLocated, SourcesOK, StopsCurrent, CurrentGoesOn
  <2> QED BY <1>1, <1>2, <1>4, <2>2 DEF OnlyCurrentRuns, StopsCurrent, CurrentGoesOn, InStart
<1> QED BY <1>3, <1>4 DEF Careful

(* The wait for users starts and stops no thread.                          *)
LEMMA StopUsersKeepsJoined ==
  ASSUME Careful, SInv, NEW t \in Threads, StopUsers(t)
  PROVE  JoinedSources'
<1>1. UNCHANGED <<run, intr, pushState>> /\ \A u \in Threads : PastJoin(u)' => PastJoin(u)
  BY SourcesFacts, JoinedNoUsers DEF StopUsers, Passes, Waits, PastJoin, At, Goto, InStop, InRecycle
<1> QED BY <1>1 DEF SInv, SourcesOK, JoinedSources

(* The push thread looks at its interrupt flag and at the state of its     *)
(* source.                                                                 *)
LEMMA LoopKeepsRuns ==
  ASSUME Careful, SInv, NEW s \in Sources, PushLoop(s)
  PROVE  RunsWhenStarted'
<1> USE SourcesFacts DEF PushLoop, RunFrom, ClearInterrupt, stateVars, callVars, SInv, SourcesOK,
    RunsWhenStarted, Leaving
<1>1. CASE intr[s]
  BY <1>1 DEF InCallback
<1>2. CASE ~intr[s]
  BY <1>2 DEF InCallback
<1> QED BY <1>1, <1>2

(* take() returns a frame, blocks, or throws when interrupted.             *)
LEMMA AvailKeepsSources ==
  ASSUME Careful, SInv, NEW s \in Sources, PushAvail(s)
  PROVE  RunsWhenStarted' /\ StopsCurrent' /\ JoinedSources'
<1>1. run[s] = "avail" /\ UNCHANGED <<state, temp, pushSource, pushState, callVars>>
  BY DEF PushAvail, RunFrom, stateVars, callVars
<1>a. \/ run' = [run EXCEPT ![s] = "put_throws"] /\ intr' = [intr EXCEPT ![s] = FALSE]
      \/ available # <<>> /\ run' = [run EXCEPT ![s] = "fill"] /\ UNCHANGED intr
  BY DEF PushAvail, RunFrom, ClearInterrupt
<1> USE <1>1, <1>a, SourcesFacts DEF SInv, SourcesOK, callVars, stateVars
<1>2. RunsWhenStarted'
  BY DEF LocksOK, EmptyUnlessStarted, RunsWhenStarted, Leaving, InCallback
<1>3. StopsCurrent'
  <2>1. ASSUME NEW t \in Threads, pc[t] # "idle", t \in Sources PROVE intr'[t] = intr[t]
    <3>1. t # s
      BY <2>1 DEF CallsFromCallback, InCallback
    <3> QED BY <2>1, <3>1
  <2> QED BY <2>1 DEF StopsCurrent
<1>4. JoinedSources'
  BY DEF JoinedSources, CallsFromCallback, InCallback, PastJoin, InRecycle, InStop
<1> QED BY <1>2, <1>3, <1>4

(* recycle() takes the lock of its frame.                                  *)
LEMMA RecycleCallKeepsLocks ==
  ASSUME Careful, SInv, NEW t \in Threads, NEW f \in Frames, RecycleCall(t, f)
  PROVE  OwnerRecycles' /\ LocksPassed'
<1>1. pc[t] = "idle" /\ pos' = pos
  BY DEF RecycleCall, Free
<1>2. CASE UNCHANGED <<lock, arg, pc>>
  BY <1>1, <1>2 DEF SInv, LocksOK, OwnerRecycles, LocksPassed
<1>3. CASE /\ lock[f] = None /\ lock' = [lock EXCEPT ![f] = t] /\ arg' = [arg EXCEPT ![t] = f]
           /\ \E l \in {"recycle_temp", "recycle_enqueue"} : pc' = [pc EXCEPT ![t] = l]
           /\ state = "STARTED" /\ IF SplitRead THEN TRUE ELSE temp # "STOPPED"
  <2>1. OwnerRecycles'
    BY <1>1, <1>3, SourcesFacts DEF SInv, LocksOK, OwnerRecycles, InRecycle
  <2>2. pos[t] = 0
    BY <1>1 DEF SInv, CInv, CallsPlaced, Placed
  <2>3. \A u \in Threads : ~(Stops(u) /\ PastJoin(u))
    <3> SUFFICES ASSUME NEW u \in Threads, Stops(u), PastJoin(u) PROVE FALSE
      OBVIOUS
    <3>1. temp = "STOPPED" /\ t # u
      BY <1>1 DEF SInv, CInv, CallsPlaced, Placed, Stops, InStop, InRecycle
    <3>2. t \in Sources
      BY <1>3, <3>1 DEF RecycleCall, Careful
    <3> QED BY <3>1, <3>2 DEF RecycleCall, Free, SInv, SourcesOK, JoinedSources, InCallback
  <2>4. LocksPassed'
    BY <1>1, <1>3, <2>2, <2>3, SourcesFacts DEF SInv, LocksOK, LocksPassed, InRecycle, Stops, PastJoin,
      InStop
  <2> QED BY <2>1, <2>4
<1> QED BY <1>2, <1>3 DEF RecycleCall, EnterRecycle, Goto, IsStarted

(* Calls that take or leave no frame's monitor. *)
LEMMA LocksLeftAlone ==
  ASSUME Careful, SInv, NEW t \in Threads,
         \/ StartCall(t)
         \/ StopCall(t)
         \/ VideoInputCall(t)
         \/ VideoInputNative(t)
         \/ StartCommit(t)
         \/ StartFill(t)
         \/ SourceInterrupt(t, "undo_interrupt", "undo_join")
         \/ StartRollback(t)
         \/ SourceInterrupt(t, "stop_interrupt", "stop_join")
         \/ StopNative(t)
         \/ StopClear(t)
         \/ StopCommit(t)
         \/ ReleaseNative(t)
         \/ ReleaseCommit(t)
         \/ StartSource(t)
         \/ StartWait(t)
         \/ SourceStop(t, "stop_source", "stop_interrupt", "stop_native")
         \/ SourceJoin(t, "stop_join", "stop_native")
         \/ StopUsers(t)
         \/ ReleaseMark(t)
         \/ ReleaseCall(t)
         \/ StartNative(t)
         \/ SourceStop(t, "undo_source", "undo_interrupt", "undo_rollback")
         \/ SourceJoin(t, "undo_join", "undo_rollback")
  PROVE  OwnerRecycles'
<1>1. UNCHANGED <<lock, arg>> /\ pc[t] \notin InRecycle /\ \A u \in Threads \ {t} : pc'[u] = pc[u]
  BY SourcesFacts DEF StartCall, StopCall, ReleaseCall, VideoInputCall, VideoInputNative, StartSource,
    StartWait,
    StartNative, StartCommit, StartFill, StartRollback, StopNative, StopUsers, StopClear, StopCommit,
    ReleaseMark,
    ReleaseNative, ReleaseCommit, SourceStop, SourceInterrupt, SourceJoin, Free, Goto, At, Step, frameVars,
    InRecycle
<1> QED BY <1>1, SourcesFacts DEF SInv, LocksOK, OwnerRecycles

(* stopCapture() takes the lock of one frame after the other.              *)
LEMMA StopRecycleKeepsLocks ==
  ASSUME Careful, SInv, NEW t \in Threads, StopRecycle(t)
  PROVE  LockOfRecycle' /\ OwnerRecycles' /\ LocksPassed'
<1> USE SourcesFacts, NumBuffersAssumption DEF Frames
<1>0. pc[t] = "stop_recycle" /\ pos[t] \in 1 .. NumBuffers + 1
  BY DEF StopRecycle, At, SInv, CInv, IInv, CallLocated
<1>a. \A f \in Frames : lock[f] # t
  BY <1>0 DEF SInv, LocksOK, OwnerRecycles, InRecycle
<1>b. arg[t] = None /\ \A u \in Threads : Stops(u) => u = t
  BY <1>0 DEF SInv, CInv, OneStops, Stops, InStop, LocksOK, LockOfRecycle, InRecycle
<1>1. CASE /\ pos[t] <= NumBuffers /\ lock[pos[t]] = None /\ UNCHANGED <<lock, arg, pc, state>>
           /\ pos' = [pos EXCEPT ![t] = pos[t] + 1]
  <2>1. LockOfRecycle' /\ OwnerRecycles'
    BY <1>0, <1>1 DEF SInv, LocksOK, LockOfRecycle, OwnerRecycles, InRecycle, Recycles
  <2>2. LocksPassed'
    BY <1>0, <1>1 DEF SInv, LocksOK, LocksPassed, InRecycle
  <2> QED BY <2>1, <2>2
<1>2. CASE /\ pos[t] <= NumBuffers /\ lock[pos[t]] = None /\ lock' = [lock EXCEPT ![pos[t]] = t]
           /\ arg' = [arg EXCEPT ![t] = pos[t]] /\ UNCHANGED state
           /\ \E l \in {"recycle_temp", "recycle_enqueue"} : pc' = [pc EXCEPT ![t] = l] /\ (l = "recycle_temp" => SplitRead)
           /\ pos' = [pos EXCEPT ![t] = pos[t] + 1]
  <2>1. LockOfRecycle'
    BY <1>0, <1>2, <1>a DEF SInv, LocksOK, LockOfRecycle, InRecycle, Recycles
  <2>2. OwnerRecycles'
    BY <1>0, <1>2 DEF SInv, LocksOK, OwnerRecycles, InRecycle
  <2>3. LocksPassed'
    BY <1>0, <1>2, <1>b DEF SInv, LocksOK, LocksPassed, InRecycle, InStop, Stops
  <2> QED BY <2>1, <2>2, <2>3
<1>3. CASE /\ pos[t] > NumBuffers /\ pc' = [pc EXCEPT ![t] = "stop_clear"] /\ pos' = [pos EXCEPT ![t] = 0]
           /\ UNCHANGED <<lock, arg, state>>
  <2>1. LockOfRecycle' /\ OwnerRecycles'
    BY <1>0, <1>3 DEF SInv, LocksOK, LockOfRecycle, OwnerRecycles, InRecycle, Recycles
  <2>2. LocksPassed'
    BY <1>0, <1>3 DEF SInv, LocksOK, LocksPassed, InRecycle
  <2> QED BY <2>1, <2>2
<1> QED BY <1>1, <1>2, <1>3 DEF StopRecycle, EnterRecycle, Goto, stateVars

(* A recycle() that ends lets its monitor go and no other. *)
LEMMA LeaveRecycleKeepsLocks ==
  ASSUME Careful, SInv, NEW t \in Threads, pc[t] \in InRecycle, LeaveRecycle(t), UNCHANGED <<pos, state>>
  PROVE  LockOfRecycle' /\ OwnerRecycles' /\ LocksPassed'
<1> USE SourcesFacts, NumBuffersAssumption DEF Frames
<1>0. arg[t] \in Frames /\ lock[arg[t]] = t
  BY DEF SInv, CInv, IInv, CallLocated, LocksOK, LockOfRecycle
<1>1. /\ lock' = [lock EXCEPT ![arg[t]] = None] /\ arg' = [arg EXCEPT ![t] = None]
      /\ \E l \in {"idle", "stop_recycle"} : pc' = [pc EXCEPT ![t] = l] /\ (l = "stop_recycle" => pos[t] # 0)
  BY DEF LeaveRecycle, Back, Goto
<1>2. \A f \in Frames : lock[f] = t => f = arg[t]
  BY <1>0 DEF SInv, LocksOK, OwnerRecycles
<1>3. LockOfRecycle'
  BY <1>0, <1>1 DEF SInv, LocksOK, LockOfRecycle, InRecycle, Recycles
<1>4. OwnerRecycles'
  BY <1>0, <1>1, <1>2 DEF SInv, LocksOK, OwnerRecycles, InRecycle
<1>5. LocksPassed'
  BY <1>0, <1>1, <1>2 DEF SInv, LocksOK, LocksPassed, InRecycle
<1> QED BY <1>3, <1>4, <1>5

(* The other steps of recycle() leave the locks, or give one back.         *)
LEMMA RecycleStepsKeepLocks ==
  ASSUME Careful, SInv, NEW t \in Threads, RecycleTemp(t) \/ RecyclePut(t) \/ RecycleEnqueue(t) \/ RecycleDone(t)
  PROVE  LockOfRecycle' /\ OwnerRecycles' /\ LocksPassed'
<1>1. pc[t] \in InRecycle /\ UNCHANGED <<pos, state>>
  BY DEF RecycleTemp, RecyclePut, RecycleEnqueue, RecycleDone, At, Step, stateVars, InRecycle
<1>2. CASE /\ UNCHANGED <<lock, arg>>
           /\ \E l \in {"recycle_enqueue", "recycle_put", "recycle_done"} : pc' = [pc EXCEPT ![t] = l]
  BY <1>1, <1>2, SourcesFacts DEF SInv, LocksOK, LockOfRecycle, OwnerRecycles, LocksPassed, InRecycle,
    Recycles
<1> QED BY <1>1, <1>2, LeaveRecycleKeepsLocks DEF RecycleTemp, RecyclePut, RecycleEnqueue, RecycleDone,
    Goto, Step, frameVars

(* Every step keeps OnlyCurrentRuns.                                       *)
LEMMA OnlyCurrentRunsStep ==
  ASSUME Careful, SInv, IInv', [Next]_vars
  PROVE  OnlyCurrentRuns'
<1> USE SourcesFacts DEF OnlyCurrentRuns, SourcesOK, SInv, At, Goto, Step, RunFrom, stateVars, callVars,
  sourceVars, frameVars, driverVars, InStart, InStop, InRecycle, InRelease
<1>1. ASSUME NEW t \in Threads, Call(t) \/ CallStep(t) PROVE OnlyCurrentRuns'
  <2>1. ASSUME NEW f \in Frames, RecycleCall(t, f) PROVE OnlyCurrentRuns'
    BY <2>1 DEF RecycleCall, EnterRecycle, IsStarted, NotReleased, Free
  <2>2. CASE StartCall(t) \/ StopCall(t) \/ ReleaseCall(t) \/ VideoInputCall(t) \/ VideoInputNative(t) \/
             StartSource(t) \/ StartWait(t) \/ StartNative(t)
    BY <2>2 DEF StartCall, MayStart, Request, Free, StopCall, MayStop, ReleaseCall, VideoInputCall,
      NotReleased, VideoInputNative, StartSource, Rollback, StartWait, Passes, Waits, StartNative,
      StartCapture, StartCaptureFails
  <2>3. CASE StartCommit(t) \/ StartFill(t) \/ SourceStop(t, "undo_source", "undo_interrupt", "undo_rollback") \/
             SourceInterrupt(t, "undo_interrupt", "undo_join") \/ SourceJoin(t, "undo_join",
             "undo_rollback") \/ StartRollback(t) \/ SourceStop(t, "stop_source", "stop_interrupt",
             "stop_native") \/ SourceInterrupt(t, "stop_interrupt", "stop_join")
    BY <2>3 DEF StartCommit, Commit, StartFill, SourceStop, SourceInterrupt, SourceJoin, Interrupted,
      ClearInterrupt, StartRollback, Rollback
  <2>4. CASE SourceJoin(t, "stop_join", "stop_native") \/ StopNative(t) \/ StopUsers(t) \/ StopRecycle(t) \/
             StopClear(t) \/ StopCommit(t) \/ ReleaseMark(t) \/ ReleaseNative(t)
    BY <2>4 DEF SourceJoin, Interrupted, ClearInterrupt, StopNative, StopCapture, StopUsers, Passes, Waits,
      StopRecycle, EnterRecycle, IsStarted, NotReleased, StopClear, StopCommit, Commit, ReleaseMark,
      MayRelease, Request, ReleaseNative, FreeCapture
  <2>5. CASE ReleaseCommit(t) \/ RecycleTemp(t) \/ RecycleEnqueue(t) \/ RecyclePut(t) \/ RecycleDone(t)
    BY <2>5 DEF ReleaseCommit, Commit, RecycleTemp, LeaveRecycle, Back, RecycleEnqueue, Enqueue, RecyclePut,
      Interrupted, ClearInterrupt, RecycleDone
  <2>6. ASSUME NEW s \in Sources, SetCaptureCallback(t, s) PROVE OnlyCurrentRuns'
    BY <2>6, CallbackKeepsSources
  <2> QED BY <1>1, <2>1, <2>2, <2>3, <2>4, <2>5, <2>6, Zenon DEF Call, CallStep, StartUndo, StopSource
<1>2. ASSUME NEW s \in Sources, PushStep(s) \/ PushFill(s) PROVE OnlyCurrentRuns'
  <2>1. CASE PushLoop(s) \/ PushGet(s) \/ PushAvail(s) \/ PushFrameFails(s) \/ PushDeliver(s) \/ PushPut(s) \/
             PushPutThrows(s) \/ PushReturn(s)
    BY <2>1 DEF PushLoop, ClearInterrupt, PushGet, GetUser, PushAvail, PushFrameFails, PushDeliver, PushPut,
      PutUser, PushPutThrows, PushReturn
  <2>2. CASE PushCaught(s) \/ PushExceptionDone(s) \/ PushExit(s) \/ PushFill(s)
    BY <2>2 DEF PushCaught, IsStarted, NotReleased, PushExceptionDone, PushExit, PushFill, Dequeue
  <2> QED BY <1>2, <2>1, <2>2, Zenon DEF PushStep
<1>3. CASE Open
  BY <1>3 DEF Open, MayInit, CInv, PhasesPaired
<1>4. CASE UNCHANGED vars
  BY <1>4 DEF vars
<1> QED BY <1>1, <1>2, <1>3, <1>4 DEF Next

(* Every step keeps RunsWhenStarted.                                       *)
LEMMA RunsWhenStartedStep ==
  ASSUME Careful, SInv, IInv', [Next]_vars
  PROVE  RunsWhenStarted'
<1> USE SourcesFacts DEF RunsWhenStarted, SourcesOK, SInv, At, Goto, Step, RunFrom, stateVars, callVars,
  sourceVars, frameVars, driverVars, InStart, InStop, InRecycle, InRelease, Leaving, Launching, InCallback
<1>1. ASSUME NEW t \in Threads, Call(t) \/ CallStep(t) PROVE RunsWhenStarted'
  <2>1. ASSUME NEW s \in Sources, SetCaptureCallback(t, s) PROVE RunsWhenStarted'
    BY <2>1 DEF SetCaptureCallback, IsStarted, NotReleased, Free
  <2>2. ASSUME NEW f \in Frames, RecycleCall(t, f) PROVE RunsWhenStarted'
    BY <2>2 DEF RecycleCall, EnterRecycle, IsStarted, NotReleased, Free
  <2>3. CASE StartCommit(t)
    BY <2>3 DEF CInv, CallsPlaced, OneStops, Placed, Stops, StartCommit, Commit
  <2>4. CASE SourceStop(t, "undo_source", "undo_interrupt", "undo_rollback")
    BY <2>4, OwnsAlone, RolesAssumption, NumBuffersAssumption DEF CInv, CallsPlaced, OneStops, Placed,
      Stops,
      OneOwner, Careful, PhasesPaired, IInv, ThreadOfSource, CallLocated, Frames, CurrentGoesOn,
      OnlyCurrentRuns, SourceStop
  <2>5. CASE SourceJoin(t, "stop_join", "stop_native")
    BY <2>5 DEF CInv, CallsPlaced, OneStops, Placed, Stops, SourceJoin, Interrupted, ClearInterrupt
  <2>6. CASE StopUsers(t)
    BY <2>6 DEF CInv, CallsPlaced, OneStops, Placed, Stops, StopUsers, Passes, Waits, Interrupted,
      ClearInterrupt
  <2>7. CASE ReleaseCommit(t)
    BY <2>7 DEF CInv, CallsPlaced, OneStops, Placed, Stops, ReleaseCommit, Commit
  <2>8. CASE StartCall(t)
    BY <2>8 DEF StartCall, MayStart, Request, Free
  <2>9. CASE StopCall(t)
    BY <2>9 DEF StopCall, MayStop, Request, Free
  <2>10. CASE ReleaseCall(t)
    BY <2>10 DEF ReleaseCall, MayStop, Request, Free
  <2>11. CASE VideoInputCall(t)
    BY <2>11 DEF VideoInputCall, Free, NotReleased
  <2>12. CASE VideoInputNative(t)
    BY <2>12 DEF VideoInputNative
  <2>13. CASE StartSource(t)
    BY <2>13 DEF StartSource, Rollback
  <2>14. CASE StartWait(t)
    BY <2>14 DEF StartWait, Passes, Waits
  <2>15. CASE StartNative(t)
    BY <2>15 DEF StartNative, StartCapture, StartCaptureFails
  <2>16. CASE SourceInterrupt(t, "undo_interrupt", "undo_join")
    BY <2>16 DEF SourceInterrupt
  <2>17. CASE StartRollback(t)
    BY <2>17 DEF StartRollback, Rollback
  <2>18. CASE SourceStop(t, "stop_source", "stop_interrupt", "stop_native")
    BY <2>18 DEF SourceStop
  <2>19. CASE SourceInterrupt(t, "stop_interrupt", "stop_join")
    BY <2>19 DEF SourceInterrupt
  <2>20. CASE StopNative(t)
    BY <2>20 DEF StopNative, StopCapture
  <2>21. CASE StopRecycle(t)
    BY <2>21 DEF StopRecycle, EnterRecycle, IsStarted, NotReleased
  <2>22. CASE StopClear(t)
    BY <2>22 DEF StopClear
  <2>23. CASE ReleaseMark(t)
    BY <2>23 DEF ReleaseMark, MayRelease, Request
  <2>24. CASE ReleaseNative(t)
    BY <2>24 DEF ReleaseNative, FreeCapture
  <2>25. CASE RecycleTemp(t)
    BY <2>25 DEF RecycleTemp, LeaveRecycle, Back
  <2>26. CASE RecycleEnqueue(t)
    BY <2>26 DEF RecycleEnqueue, Enqueue
  <2>27. CASE RecycleDone(t)
    BY <2>27 DEF RecycleDone, LeaveRecycle, Back
  <2>28. CASE StartFill(t)
    BY <2>28 DEF StartFill
  <2>29. CASE SourceJoin(t, "undo_join", "undo_rollback")
    BY <2>29, UndoJoinKeepsRuns
  <2>30. CASE StopCommit(t)
    BY <2>30, StopCommitKeepsRuns
  <2>31. CASE RecyclePut(t)
    BY <2>31, RecyclePutKeepsRuns
  <2> QED BY <1>1, <2>1, <2>2, <2>3, <2>4, <2>5, <2>6, <2>7, <2>8, <2>9, <2>10, <2>11, <2>12, <2>13, <2>14,
    <2>15, <2>16, <2>17, <2>18, <2>19, <2>20, <2>21, <2>22, <2>23, <2>24, <2>25, <2>26, <2>27, <2>28, <2>29,
    <2>30, <2>31, Zenon DEF Call, CallStep, StartUndo, StopSource
<1>2. ASSUME NEW s \in Sources, PushStep(s) \/ PushFill(s) PROVE RunsWhenStarted'
  <2>1. CASE PushGet(s)
    BY <2>1 DEF PushGet, GetUser
  <2>2. CASE PushFrameFails(s)
    BY <2>2 DEF PushFrameFails
  <2>3. CASE PushDeliver(s)
    BY <2>3 DEF PushDeliver
  <2>4. CASE PushPut(s)
    BY <2>4 DEF PushPut, PutUser
  <2>5. CASE PushPutThrows(s)
    BY <2>5 DEF PushPutThrows, PutUser
  <2>6. CASE PushReturn(s)
    BY <2>6 DEF PushReturn
  <2>7. CASE PushCaught(s)
    BY <2>7 DEF PushCaught, IsStarted, NotReleased
  <2>8. CASE PushExceptionDone(s)
    BY <2>8 DEF PushExceptionDone
  <2>9. CASE PushExit(s)
    BY <2>9 DEF PushExit
  <2>10. CASE PushFill(s)
    BY <2>10 DEF PushFill, Dequeue
  <2>11. CASE PushLoop(s)
    BY <2>11, LoopKeepsRuns
  <2>12. CASE PushAvail(s)
    BY <2>12, AvailKeepsSources
  <2> QED BY <1>2, <2>1, <2>2, <2>3, <2>4, <2>5, <2>6, <2>7, <2>8, <2>9, <2>10, <2>11, <2>12, Zenon DEF
    PushStep
<1>3. CASE Open
  BY <1>3 DEF Open, MayInit, CInv, PhasesPaired
<1>4. CASE UNCHANGED vars
  BY <1>4 DEF vars
<1> QED BY <1>1, <1>2, <1>3, <1>4 DEF Next

(* Every step keeps CurrentGoesOn.                                         *)
LEMMA CurrentGoesOnStep ==
  ASSUME Careful, SInv, IInv', [Next]_vars
  PROVE  CurrentGoesOn'
<1> USE SourcesFacts DEF CurrentGoesOn, SourcesOK, SInv, At, Goto, Step, RunFrom, stateVars, callVars,
  sourceVars, frameVars, driverVars, InStart, InStop, InRecycle, InRelease
<1>1. ASSUME NEW t \in Threads, Call(t) \/ CallStep(t) PROVE CurrentGoesOn'
  <2>1. ASSUME NEW f \in Frames, RecycleCall(t, f) PROVE CurrentGoesOn'
    BY <2>1 DEF RecycleCall, EnterRecycle, IsStarted, NotReleased, Free
  <2>2. CASE StopCall(t)
    BY <2>2, OwnsAlone, RolesAssumption, NumBuffersAssumption DEF CInv, CallsPlaced, OneStops, Placed,
      Stops,
      OneOwner, Careful, PhasesPaired, IInv, ThreadOfSource, CallLocated, Frames, StopCall, MayStop,
      Request,
      Free
  <2>3. CASE ReleaseCall(t)
    BY <2>3, OwnsAlone, RolesAssumption, NumBuffersAssumption DEF CInv, CallsPlaced, OneStops, Placed,
      Stops,
      OneOwner, Careful, PhasesPaired, IInv, ThreadOfSource, CallLocated, Frames, ReleaseCall, MayStop,
      Request, Free
  <2>4. CASE StartSource(t)
    BY <2>4 DEF CInv, CallsPlaced, OneStops, Placed, Stops, StartSource, Rollback
  <2>5. CASE StartRollback(t)
    BY <2>5 DEF CInv, CallsPlaced, OneStops, Placed, Stops, StartRollback, Rollback
  <2>6. CASE SourceStop(t, "stop_source", "stop_interrupt", "stop_native")
    BY <2>6 DEF CInv, CallsPlaced, OneStops, Placed, Stops, SourceStop
  <2>7. CASE StopCommit(t)
    BY <2>7 DEF CInv, CallsPlaced, OneStops, Placed, Stops, StopCommit, Commit
  <2>8. CASE ReleaseCommit(t)
    BY <2>8 DEF CInv, CallsPlaced, OneStops, Placed, Stops, ReleaseCommit, Commit
  <2>9. CASE StartCall(t) \/ VideoInputCall(t) \/ VideoInputNative(t) \/ StartWait(t)
    BY <2>9 DEF StartCall, MayStart, Request, Free, VideoInputCall, NotReleased, VideoInputNative,
      StartWait,
      Passes, Waits
  <2>10. CASE StartNative(t) \/ StartCommit(t) \/ StartFill(t) \/ SourceInterrupt(t, "undo_interrupt",
             "undo_join")
    BY <2>10 DEF StartNative, StartCapture, StartCaptureFails, StartCommit, Commit, StartFill,
      SourceInterrupt
  <2>11. CASE SourceJoin(t, "undo_join", "undo_rollback") \/ SourceInterrupt(t, "stop_interrupt", "stop_join") \/
             SourceJoin(t, "stop_join", "stop_native") \/ StopNative(t)
    BY <2>11 DEF SourceJoin, Interrupted, ClearInterrupt, SourceInterrupt, StopNative, StopCapture
  <2>12. CASE StopUsers(t) \/ StopRecycle(t) \/ StopClear(t) \/ ReleaseMark(t)
    BY <2>12 DEF StopUsers, Passes, Waits, Interrupted, ClearInterrupt, StopRecycle, EnterRecycle,
      IsStarted,
      NotReleased, StopClear, ReleaseMark, MayRelease, Request
  <2>13. CASE ReleaseNative(t) \/ RecycleTemp(t) \/ RecycleEnqueue(t) \/ RecyclePut(t)
    BY <2>13 DEF ReleaseNative, FreeCapture, RecycleTemp, LeaveRecycle, Back, RecycleEnqueue, Enqueue,
      RecyclePut, Interrupted, ClearInterrupt
  <2>14. CASE RecycleDone(t)
    BY <2>14 DEF RecycleDone, LeaveRecycle, Back
  <2>15. ASSUME NEW s \in Sources, SetCaptureCallback(t, s) PROVE CurrentGoesOn'
    BY <2>15, CallbackKeepsSources
  <2>16. CASE SourceStop(t, "undo_source", "undo_interrupt", "undo_rollback")
    BY <2>16, UndoStopKeepsCurrent
  <2> QED BY <1>1, <2>1, <2>2, <2>3, <2>4, <2>5, <2>6, <2>7, <2>8, <2>9, <2>10, <2>11, <2>12, <2>13, <2>14,
    <2>15, <2>16, Zenon DEF Call, CallStep, StartUndo, StopSource
<1>2. ASSUME NEW s \in Sources, PushStep(s) \/ PushFill(s) PROVE CurrentGoesOn'
  <2>1. CASE PushLoop(s)
    BY <2>1 DEF PushLoop, ClearInterrupt
  <2>2. CASE PushGet(s)
    BY <2>2 DEF PushGet, GetUser
  <2>3. CASE PushAvail(s)
    BY <2>3 DEF PushAvail, ClearInterrupt
  <2>4. CASE PushFrameFails(s)
    BY <2>4 DEF PushFrameFails
  <2>5. CASE PushDeliver(s)
    BY <2>5 DEF PushDeliver
  <2>6. CASE PushPut(s)
    BY <2>6 DEF PushPut, PutUser
  <2>7. CASE PushPutThrows(s)
    BY <2>7 DEF PushPutThrows, PutUser
  <2>8. CASE PushReturn(s)
    BY <2>8 DEF PushReturn
  <2>9. CASE PushCaught(s)
    BY <2>9 DEF PushCaught, IsStarted, NotReleased
  <2>10. CASE PushExceptionDone(s)
    BY <2>10 DEF PushExceptionDone
  <2>11. CASE PushExit(s)
    BY <2>11 DEF PushExit
  <2>12. CASE PushFill(s)
    BY <2>12 DEF PushFill, Dequeue
  <2> QED BY <1>2, <2>1, <2>2, <2>3, <2>4, <2>5, <2>6, <2>7, <2>8, <2>9, <2>10, <2>11, <2>12, Zenon DEF
    PushStep
<1>3. CASE Open
  BY <1>3 DEF Open, MayInit, CInv, PhasesPaired
<1>4. CASE UNCHANGED vars
  BY <1>4 DEF vars
<1> QED BY <1>1, <1>2, <1>3, <1>4 DEF Next

(* Every step keeps StopsCurrent.                                          *)
LEMMA StopsCurrentStep ==
  ASSUME Careful, SInv, IInv', [Next]_vars
  PROVE  StopsCurrent'
<1> USE SourcesFacts DEF StopsCurrent, SourcesOK, SInv, At, Goto, Step, RunFrom, stateVars, callVars,
  sourceVars, frameVars, driverVars, InStart, InStop, InRecycle, InRelease
<1>1. ASSUME NEW t \in Threads, Call(t) \/ CallStep(t) PROVE StopsCurrent'
  <2>1. ASSUME NEW f \in Frames, RecycleCall(t, f) PROVE StopsCurrent'
    BY <2>1 DEF RecycleCall, EnterRecycle, IsStarted, NotReleased, Free
  <2>2. CASE StartSource(t)
    BY <2>2, OwnsAlone, RolesAssumption, NumBuffersAssumption DEF CInv, CallsPlaced, OneStops, Placed,
      Stops,
      OneOwner, Careful, PhasesPaired, IInv, ThreadOfSource, CallLocated, Frames, StartSource, Rollback
  <2>3. CASE StartCall(t) \/ StopCall(t) \/ ReleaseCall(t) \/ VideoInputCall(t) \/ VideoInputNative(t) \/
             StartWait(t) \/ StartNative(t) \/ StartCommit(t)
    BY <2>3 DEF StartCall, MayStart, Request, Free, StopCall, MayStop, ReleaseCall, VideoInputCall,
      NotReleased, VideoInputNative, StartWait, Passes, Waits, StartNative, StartCapture, StartCaptureFails,
      StartCommit, Commit
  <2>4. CASE StartFill(t) \/ SourceJoin(t, "undo_join", "undo_rollback") \/ StartRollback(t) \/ SourceJoin(t,
             "stop_join", "stop_native") \/ StopNative(t) \/ StopUsers(t) \/ StopRecycle(t) \/
             StopClear(t)
    BY <2>4 DEF StartFill, SourceJoin, Interrupted, ClearInterrupt, StartRollback, Rollback, StopNative,
      StopCapture, StopUsers, Passes, Waits, StopRecycle, EnterRecycle, IsStarted, NotReleased, StopClear
  <2>5. CASE StopCommit(t) \/ ReleaseMark(t) \/ ReleaseNative(t) \/ ReleaseCommit(t) \/ RecycleTemp(t) \/
             RecycleEnqueue(t) \/ RecyclePut(t) \/ RecycleDone(t)
    BY <2>5 DEF StopCommit, Commit, ReleaseMark, MayRelease, Request, ReleaseNative, FreeCapture,
      ReleaseCommit, RecycleTemp, LeaveRecycle, Back, RecycleEnqueue, Enqueue, RecyclePut, Interrupted,
      ClearInterrupt, RecycleDone
  <2>6. ASSUME NEW s \in Sources, SetCaptureCallback(t, s) PROVE StopsCurrent'
    BY <2>6, CallbackKeepsSources
  <2>7. CASE SourceStop(t, "undo_source", "undo_interrupt", "undo_rollback") \/ SourceStop(t, "stop_source",
             "stop_interrupt", "stop_native")
    BY <2>7, SourceStopKeepsStops
  <2>8. CASE SourceInterrupt(t, "undo_interrupt", "undo_join") \/ SourceInterrupt(t, "stop_interrupt",
             "stop_join")
    BY <2>8, InterruptKeepsStops
  <2> QED BY <1>1, <2>1, <2>2, <2>3, <2>4, <2>5, <2>6, <2>7, <2>8, Zenon DEF Call, CallStep, StartUndo,
    StopSource
<1>2. ASSUME NEW s \in Sources, PushStep(s) \/ PushFill(s) PROVE StopsCurrent'
  <2>1. CASE PushLoop(s)
    BY <2>1, PushKeepsStops DEF InCallback, PushLoop, ClearInterrupt
  <2>2. CASE PushGet(s)
    BY <2>2, PushKeepsStops DEF InCallback, PushGet, GetUser, ClearInterrupt
  <2>3. CASE PushFrameFails(s)
    BY <2>3, PushKeepsStops DEF InCallback, PushFrameFails, ClearInterrupt
  <2>4. CASE PushDeliver(s)
    BY <2>4, PushKeepsStops DEF InCallback, PushDeliver, ClearInterrupt
  <2>5. CASE PushPut(s)
    BY <2>5, PushKeepsStops DEF InCallback, PushPut, PutUser, ClearInterrupt
  <2>6. CASE PushPutThrows(s)
    BY <2>6, PushKeepsStops DEF InCallback, PushPutThrows, PutUser, ClearInterrupt
  <2>7. CASE PushCaught(s)
    BY <2>7, PushKeepsStops DEF InCallback, PushCaught, IsStarted, NotReleased, ClearInterrupt
  <2>8. CASE PushExit(s)
    BY <2>8, PushKeepsStops DEF InCallback, PushExit, ClearInterrupt
  <2>9. CASE PushFill(s)
    BY <2>9, PushKeepsStops DEF InCallback, PushFill, Dequeue, ClearInterrupt
  <2>10. CASE PushReturn(s) \/ PushExceptionDone(s)
    BY <2>10 DEF PushReturn, PushExceptionDone
  <2>11. CASE PushAvail(s)
    BY <2>11, AvailKeepsSources
  <2> QED BY <1>2, <2>1, <2>2, <2>3, <2>4, <2>5, <2>6, <2>7, <2>8, <2>9, <2>10, <2>11, Zenon DEF PushStep
<1>3. CASE Open
  BY <1>3 DEF Open, MayInit, CInv, PhasesPaired
<1>4. CASE UNCHANGED vars
  BY <1>4 DEF vars
<1> QED BY <1>1, <1>2, <1>3, <1>4 DEF Next

(* Every step keeps JoinedSources.                                         *)
LEMMA JoinedSourcesStep ==
  ASSUME Careful, SInv, IInv', [Next]_vars
  PROVE  JoinedSources'
<1> USE SourcesFacts DEF JoinedSources, SourcesOK, SInv, At, Goto, Step, RunFrom, stateVars, callVars,
  sourceVars, frameVars, driverVars, InStart, InStop, InRecycle, InRelease, PastJoin
<1>1. ASSUME NEW t \in Threads, Call(t) \/ CallStep(t) PROVE JoinedSources'
  <2>1. ASSUME NEW s \in Sources, SetCaptureCallback(t, s) PROVE JoinedSources'
    BY <2>1 DEF SetCaptureCallback, IsStarted, NotReleased, Free
  <2>2. ASSUME NEW f \in Frames, RecycleCall(t, f) PROVE JoinedSources'
    BY <2>2 DEF CInv, CallsPlaced, OneStops, Placed, Stops, RecycleCall, EnterRecycle, IsStarted,
      NotReleased,
      Free
  <2>3. CASE StartSource(t)
    BY <2>3, OwnsAlone, RolesAssumption, NumBuffersAssumption DEF CInv, CallsPlaced, OneStops, Placed,
      Stops,
      OneOwner, Careful, PhasesPaired, IInv, ThreadOfSource, CallLocated, Frames, StartSource, Rollback
  <2>4. CASE SourceStop(t, "undo_source", "undo_interrupt", "undo_rollback")
    BY <2>4, OwnsAlone, RolesAssumption, NumBuffersAssumption DEF CInv, CallsPlaced, OneStops, Placed,
      Stops,
      OneOwner, Careful, PhasesPaired, IInv, ThreadOfSource, CallLocated, Frames, CurrentGoesOn,
      OnlyCurrentRuns, SourceStop
  <2>5. CASE SourceJoin(t, "undo_join", "undo_rollback")
    BY <2>5, OwnsAlone, RolesAssumption, NumBuffersAssumption DEF CInv, CallsPlaced, OneStops, Placed,
      Stops,
      OneOwner, Careful, PhasesPaired, IInv, ThreadOfSource, CallLocated, Frames, StopsCurrent,
      OnlyCurrentRuns, SourceJoin, Interrupted, ClearInterrupt
  <2>6. CASE SourceStop(t, "stop_source", "stop_interrupt", "stop_native")
    BY <2>6, OwnsAlone, RolesAssumption, NumBuffersAssumption DEF CInv, CallsPlaced, OneStops, Placed,
      Stops,
      OneOwner, Careful, PhasesPaired, IInv, ThreadOfSource, CallLocated, Frames, CurrentGoesOn,
      OnlyCurrentRuns, SourceStop
  <2>7. CASE SourceJoin(t, "stop_join", "stop_native")
    BY <2>7, OwnsAlone, RolesAssumption, NumBuffersAssumption DEF CInv, CallsPlaced, OneStops, Placed,
      Stops,
      OneOwner, Careful, PhasesPaired, IInv, ThreadOfSource, CallLocated, Frames, StopsCurrent,
      OnlyCurrentRuns, SourceJoin, Interrupted, ClearInterrupt
  <2>8. CASE RecyclePut(t)
    BY <2>8 DEF CInv, CallsPlaced, OneStops, Placed, Stops, RecyclePut, LeaveRecycle, Back, Interrupted,
      ClearInterrupt
  <2>9. CASE StartCall(t) \/ StopCall(t)
    BY <2>9 DEF StartCall, MayStart, Request, Free, StopCall, MayStop
  <2>10. CASE ReleaseCall(t) \/ VideoInputCall(t)
    BY <2>10 DEF ReleaseCall, MayStop, Request, Free, VideoInputCall, NotReleased
  <2>11. CASE VideoInputNative(t) \/ StartWait(t)
    BY <2>11 DEF VideoInputNative, StartWait, Passes, Waits
  <2>12. CASE StartNative(t) \/ StartCommit(t)
    BY <2>12 DEF StartNative, StartCapture, StartCaptureFails, StartCommit, Commit
  <2>13. CASE SourceInterrupt(t, "undo_interrupt", "undo_join") \/ StartRollback(t)
    BY <2>13 DEF SourceInterrupt, StartRollback, Rollback
  <2>14. CASE SourceInterrupt(t, "stop_interrupt", "stop_join") \/ StopNative(t)
    BY <2>14 DEF SourceInterrupt, StopNative, StopCapture
  <2>15. CASE StopRecycle(t) \/ StopClear(t)
    BY <2>15 DEF StopRecycle, EnterRecycle, IsStarted, NotReleased, StopClear
  <2>16. CASE StopCommit(t) \/ ReleaseMark(t)
    BY <2>16 DEF StopCommit, Commit, ReleaseMark, MayRelease, Request
  <2>17. CASE ReleaseNative(t) \/ ReleaseCommit(t)
    BY <2>17 DEF ReleaseNative, FreeCapture, ReleaseCommit, Commit
  <2>18. CASE RecycleTemp(t) \/ RecycleEnqueue(t)
    BY <2>18 DEF RecycleTemp, LeaveRecycle, Back, RecycleEnqueue, Enqueue
  <2>19. CASE RecycleDone(t)
    BY <2>19 DEF RecycleDone, LeaveRecycle, Back
  <2>20. CASE StartFill(t)
    BY <2>20 DEF StartFill
  <2>21. CASE StopUsers(t)
    BY <2>21, StopUsersKeepsJoined
  <2> QED BY <1>1, <2>1, <2>2, <2>3, <2>4, <2>5, <2>6, <2>7, <2>8, <2>9, <2>10, <2>11, <2>12, <2>13, <2>14,
    <2>15, <2>16, <2>17, <2>18, <2>19, <2>20, <2>21, Zenon DEF Call, CallStep, StartUndo, StopSource
<1>2. ASSUME NEW s \in Sources, PushStep(s) \/ PushFill(s) PROVE JoinedSources'
  <2>1. CASE PushLoop(s)
    BY <2>1, PushKeepsStops DEF InCallback, PushLoop, ClearInterrupt
  <2>2. CASE PushGet(s)
    BY <2>2, PushKeepsStops DEF InCallback, PushGet, GetUser, ClearInterrupt
  <2>3. CASE PushFrameFails(s)
    BY <2>3, PushKeepsStops DEF InCallback, PushFrameFails, ClearInterrupt
  <2>4. CASE PushDeliver(s)
    BY <2>4, PushKeepsStops DEF InCallback, PushDeliver, ClearInterrupt
  <2>5. CASE PushPut(s)
    BY <2>5, PushKeepsStops DEF InCallback, PushPut, PutUser, ClearInterrupt
  <2>6. CASE PushPutThrows(s)
    BY <2>6, PushKeepsStops DEF InCallback, PushPutThrows, PutUser, ClearInterrupt
  <2>7. CASE PushCaught(s)
    BY <2>7, PushKeepsStops DEF InCallback, PushCaught, IsStarted, NotReleased, ClearInterrupt
  <2>8. CASE PushExit(s)
    BY <2>8, PushKeepsStops DEF InCallback, PushExit, ClearInterrupt
  <2>9. CASE PushFill(s)
    BY <2>9, PushKeepsStops DEF InCallback, PushFill, Dequeue, ClearInterrupt
  <2>10. CASE PushReturn(s) \/ PushExceptionDone(s)
    BY <2>10 DEF PushReturn, PushExceptionDone
  <2>11. CASE PushAvail(s)
    BY <2>11, AvailKeepsSources
  <2> QED BY <1>2, <2>1, <2>2, <2>3, <2>4, <2>5, <2>6, <2>7, <2>8, <2>9, <2>10, <2>11, Zenon DEF PushStep
<1>3. CASE Open
  BY <1>3 DEF Open, MayInit, CInv, PhasesPaired
<1>4. CASE UNCHANGED vars
  BY <1>4 DEF vars
<1> QED BY <1>1, <1>2, <1>3, <1>4 DEF Next

(* Every step keeps CallsFromCallback.                                     *)
LEMMA CallsFromCallbackStep ==
  ASSUME Careful, SInv, IInv', [Next]_vars
  PROVE  CallsFromCallback'
<1> USE SourcesFacts DEF CallsFromCallback, SourcesOK, SInv, At, Goto, Step, RunFrom, stateVars, callVars,
  sourceVars, frameVars, driverVars, InStart, InStop, InRecycle, InRelease, InCallback
<1>1. ASSUME NEW t \in Threads, Call(t) \/ CallStep(t) PROVE CallsFromCallback'
  <2>1. ASSUME NEW s \in Sources, SetCaptureCallback(t, s) PROVE CallsFromCallback'
    BY <2>1 DEF SetCaptureCallback, IsStarted, NotReleased, Free
  <2>2. ASSUME NEW f \in Frames, RecycleCall(t, f) PROVE CallsFromCallback'
    BY <2>2 DEF RecycleCall, EnterRecycle, IsStarted, NotReleased, Free
  <2>3. CASE StartSource(t)
    BY <2>3, OwnsAlone, RolesAssumption, NumBuffersAssumption DEF CInv, CallsPlaced, OneStops, Placed,
      Stops,
      OneOwner, Careful, PhasesPaired, IInv, ThreadOfSource, CallLocated, Frames, StartSource, Rollback
  <2>4. CASE StartCall(t) \/ StopCall(t) \/ ReleaseCall(t) \/ VideoInputCall(t) \/ VideoInputNative(t) \/
             StartWait(t) \/ StartNative(t) \/ StartCommit(t)
    BY <2>4 DEF StartCall, MayStart, Request, Free, StopCall, MayStop, ReleaseCall, VideoInputCall,
      NotReleased, VideoInputNative, StartWait, Passes, Waits, StartNative, StartCapture, StartCaptureFails,
      StartCommit, Commit
  <2>5. CASE StartFill(t) \/ SourceStop(t, "undo_source", "undo_interrupt", "undo_rollback") \/
             SourceInterrupt(t, "undo_interrupt", "undo_join") \/ SourceJoin(t, "undo_join",
             "undo_rollback") \/ StartRollback(t) \/ SourceStop(t, "stop_source", "stop_interrupt",
             "stop_native") \/ SourceInterrupt(t, "stop_interrupt", "stop_join") \/ SourceJoin(t,
             "stop_join", "stop_native")
    BY <2>5 DEF StartFill, SourceStop, SourceInterrupt, SourceJoin, Interrupted, ClearInterrupt,
      StartRollback, Rollback
  <2>6. CASE StopNative(t) \/ StopUsers(t) \/ StopRecycle(t) \/ StopClear(t) \/ StopCommit(t) \/ ReleaseMark(t)
             \/ ReleaseNative(t) \/ ReleaseCommit(t)
    BY <2>6 DEF StopNative, StopCapture, StopUsers, Passes, Waits, Interrupted, ClearInterrupt, StopRecycle,
      EnterRecycle, IsStarted, NotReleased, StopClear, StopCommit, Commit, ReleaseMark, MayRelease, Request,
      ReleaseNative, FreeCapture, ReleaseCommit
  <2>7. CASE RecycleTemp(t) \/ RecycleEnqueue(t) \/ RecyclePut(t) \/ RecycleDone(t)
    BY <2>7 DEF RecycleTemp, LeaveRecycle, Back, RecycleEnqueue, Enqueue, RecyclePut, Interrupted,
      ClearInterrupt, RecycleDone
  <2> QED BY <1>1, <2>1, <2>2, <2>3, <2>4, <2>5, <2>6, <2>7, Zenon DEF Call, CallStep, StartUndo, StopSource
<1>2. ASSUME NEW s \in Sources, PushStep(s) \/ PushFill(s) PROVE CallsFromCallback'
  <2>1. CASE PushLoop(s) \/ PushGet(s) \/ PushAvail(s) \/ PushFrameFails(s) \/ PushDeliver(s) \/ PushPut(s) \/
             PushPutThrows(s) \/ PushReturn(s)
    BY <2>1 DEF PushLoop, ClearInterrupt, PushGet, GetUser, PushAvail, PushFrameFails, PushDeliver, PushPut,
      PutUser, PushPutThrows, PushReturn
  <2>2. CASE PushCaught(s) \/ PushExceptionDone(s) \/ PushExit(s) \/ PushFill(s)
    BY <2>2 DEF PushCaught, IsStarted, NotReleased, PushExceptionDone, PushExit, PushFill, Dequeue
  <2> QED BY <1>2, <2>1, <2>2, Zenon DEF PushStep
<1>3. CASE Open
  BY <1>3 DEF Open, MayInit, CInv, PhasesPaired
<1>4. CASE UNCHANGED vars
  BY <1>4 DEF vars
<1> QED BY <1>1, <1>2, <1>3, <1>4 DEF Next

(* Every step keeps StopInProgress.                                        *)
LEMMA StopInProgressStep ==
  ASSUME Careful, SInv, IInv', [Next]_vars
  PROVE  StopInProgress'
<1> USE SourcesFacts DEF StopInProgress, SourcesOK, SInv, At, Goto, Step, RunFrom, stateVars, callVars,
  sourceVars, frameVars, driverVars, InStart, InStop, InRecycle, InRelease, Stops
<1>1. ASSUME NEW t \in Threads, Call(t) \/ CallStep(t) PROVE StopInProgress'
  <2>1. ASSUME NEW s \in Sources, SetCaptureCallback(t, s) PROVE StopInProgress'
    BY <2>1 DEF SetCaptureCallback, IsStarted, NotReleased, Free
  <2>2. ASSUME NEW f \in Frames, RecycleCall(t, f) PROVE StopInProgress'
    BY <2>2 DEF RecycleCall, EnterRecycle, IsStarted, NotReleased, Free
  <2>3. CASE SourceStop(t, "stop_source", "stop_interrupt", "stop_native")
    BY <2>3, OwnsAlone, RolesAssumption, NumBuffersAssumption DEF CInv, CallsPlaced, OneStops, Placed,
      OneOwner, Careful, PhasesPaired, IInv, ThreadOfSource, CallLocated, Frames, CurrentGoesOn, SourceStop
  <2>4. CASE StartCall(t) \/ StopCall(t) \/ ReleaseCall(t) \/ VideoInputCall(t) \/ VideoInputNative(t) \/
             StartSource(t) \/ StartWait(t) \/ StartNative(t)
    BY <2>4 DEF StartCall, MayStart, Request, Free, StopCall, MayStop, ReleaseCall, VideoInputCall,
      NotReleased, VideoInputNative, StartSource, Rollback, StartWait, Passes, Waits, StartNative,
      StartCapture, StartCaptureFails
  <2>5. CASE StartCommit(t) \/ StartFill(t) \/ SourceStop(t, "undo_source", "undo_interrupt", "undo_rollback") \/
             SourceInterrupt(t, "undo_interrupt", "undo_join") \/ SourceJoin(t, "undo_join",
             "undo_rollback") \/ StartRollback(t) \/ SourceInterrupt(t, "stop_interrupt",
             "stop_join") \/ SourceJoin(t, "stop_join", "stop_native")
    BY <2>5 DEF StartCommit, Commit, StartFill, SourceStop, SourceInterrupt, SourceJoin, Interrupted,
      ClearInterrupt, StartRollback, Rollback
  <2>6. CASE StopNative(t) \/ StopUsers(t) \/ StopRecycle(t) \/ StopClear(t) \/ StopCommit(t) \/ ReleaseMark(t)
             \/ ReleaseNative(t) \/ ReleaseCommit(t)
    BY <2>6 DEF StopNative, StopCapture, StopUsers, Passes, Waits, Interrupted, ClearInterrupt, StopRecycle,
      EnterRecycle, IsStarted, NotReleased, StopClear, StopCommit, Commit, ReleaseMark, MayRelease, Request,
      ReleaseNative, FreeCapture, ReleaseCommit
  <2>7. CASE RecycleTemp(t) \/ RecycleEnqueue(t) \/ RecyclePut(t) \/ RecycleDone(t)
    BY <2>7 DEF RecycleTemp, LeaveRecycle, Back, RecycleEnqueue, Enqueue, RecyclePut, Interrupted,
      ClearInterrupt, RecycleDone
  <2> QED BY <1>1, <2>1, <2>2, <2>3, <2>4, <2>5, <2>6, <2>7, Zenon DEF Call, CallStep, StartUndo, StopSource
<1>2. ASSUME NEW s \in Sources, PushStep(s) \/ PushFill(s) PROVE StopInProgress'
  <2>1. CASE PushLoop(s) \/ PushGet(s) \/ PushAvail(s) \/ PushFrameFails(s) \/ PushDeliver(s) \/ PushPut(s) \/
             PushPutThrows(s) \/ PushReturn(s)
    BY <2>1 DEF PushLoop, ClearInterrupt, PushGet, GetUser, PushAvail, PushFrameFails, PushDeliver, PushPut,
      PutUser, PushPutThrows, PushReturn
  <2>2. CASE PushCaught(s) \/ PushExceptionDone(s) \/ PushExit(s) \/ PushFill(s)
    BY <2>2 DEF PushCaught, IsStarted, NotReleased, PushExceptionDone, PushExit, PushFill, Dequeue
  <2> QED BY <1>2, <2>1, <2>2, Zenon DEF PushStep
<1>3. CASE Open
  BY <1>3 DEF Open, MayInit, CInv, PhasesPaired
<1>4. CASE UNCHANGED vars
  BY <1>4 DEF vars
<1> QED BY <1>1, <1>2, <1>3, <1>4 DEF Next

(* Every step keeps LockOfRecycle.                                         *)
LEMMA LockOfRecycleStep ==
  ASSUME Careful, SInv, IInv', [Next]_vars
  PROVE  LockOfRecycle'
<1> USE SourcesFacts DEF LockOfRecycle, LocksOK, SInv, At, Goto, Step, RunFrom, stateVars, callVars,
  sourceVars, frameVars, driverVars, InStart, InStop, InRecycle, InRelease, Recycles
<1>1. ASSUME NEW t \in Threads, Call(t) \/ CallStep(t) PROVE LockOfRecycle'
  <2>1. ASSUME NEW s \in Sources, SetCaptureCallback(t, s) PROVE LockOfRecycle'
    BY <2>1 DEF SetCaptureCallback, IsStarted, NotReleased, Free
  <2>2. ASSUME NEW f \in Frames, RecycleCall(t, f) PROVE LockOfRecycle'
    BY <2>2, OwnsAlone, RolesAssumption, NumBuffersAssumption DEF CInv, CallsPlaced, OneStops, Placed,
      Stops,
      OneOwner, Careful, PhasesPaired, IInv, ThreadOfSource, CallLocated, Frames, RecycleCall, EnterRecycle,
      IsStarted, NotReleased, Free
  <2>3. CASE StartCommit(t)
    BY <2>3 DEF CInv, CallsPlaced, OneStops, Placed, Stops, StartCommit, Commit
  <2>4. CASE StopCommit(t)
    BY <2>4, OwnsAlone, RolesAssumption, NumBuffersAssumption DEF CInv, CallsPlaced, OneStops, Placed,
      Stops,
      OneOwner, Careful, PhasesPaired, IInv, ThreadOfSource, CallLocated, Frames, LocksPassed, StopCommit,
      Commit
  <2>5. CASE ReleaseCommit(t)
    BY <2>5 DEF CInv, CallsPlaced, OneStops, Placed, Stops, ReleaseCommit, Commit
  <2>6. CASE StartCall(t) \/ StopCall(t) \/ ReleaseCall(t) \/ VideoInputCall(t) \/ VideoInputNative(t) \/
             StartSource(t) \/ StartWait(t) \/ StartNative(t)
    BY <2>6 DEF StartCall, MayStart, Request, Free, StopCall, MayStop, ReleaseCall, VideoInputCall,
      NotReleased, VideoInputNative, StartSource, Rollback, StartWait, Passes, Waits, StartNative,
      StartCapture, StartCaptureFails
  <2>7. CASE StartFill(t) \/ SourceStop(t, "undo_source", "undo_interrupt", "undo_rollback") \/
             SourceInterrupt(t, "undo_interrupt", "undo_join") \/ SourceJoin(t, "undo_join",
             "undo_rollback") \/ StartRollback(t) \/ SourceStop(t, "stop_source", "stop_interrupt",
             "stop_native") \/ SourceInterrupt(t, "stop_interrupt", "stop_join") \/ SourceJoin(t,
             "stop_join", "stop_native")
    BY <2>7 DEF StartFill, SourceStop, SourceInterrupt, SourceJoin, Interrupted, ClearInterrupt,
      StartRollback, Rollback
  <2>8. CASE StopNative(t) \/ StopUsers(t) \/ StopClear(t) \/ ReleaseMark(t) \/ ReleaseNative(t)
    BY <2>8 DEF StopNative, StopCapture, StopUsers, Passes, Waits, Interrupted, ClearInterrupt, StopClear,
      ReleaseMark, MayRelease, Request, ReleaseNative, FreeCapture
  <2>9. CASE StopRecycle(t)
    BY <2>9, StopRecycleKeepsLocks
  <2>10. CASE RecycleTemp(t) \/ RecycleEnqueue(t) \/ RecyclePut(t) \/ RecycleDone(t)
    BY <2>10, RecycleStepsKeepLocks
  <2> QED BY <1>1, <2>1, <2>2, <2>3, <2>4, <2>5, <2>6, <2>7, <2>8, <2>9, <2>10, Zenon DEF Call, CallStep,
    StartUndo, StopSource
<1>2. ASSUME NEW s \in Sources, PushStep(s) \/ PushFill(s) PROVE LockOfRecycle'
  <2>1. CASE PushLoop(s) \/ PushGet(s) \/ PushAvail(s) \/ PushFrameFails(s) \/ PushDeliver(s) \/ PushPut(s) \/
             PushPutThrows(s) \/ PushReturn(s)
    BY <2>1 DEF PushLoop, ClearInterrupt, PushGet, GetUser, PushAvail, PushFrameFails, PushDeliver, PushPut,
      PutUser, PushPutThrows, PushReturn
  <2>2. CASE PushCaught(s) \/ PushExceptionDone(s) \/ PushExit(s) \/ PushFill(s)
    BY <2>2 DEF PushCaught, IsStarted, NotReleased, PushExceptionDone, PushExit, PushFill, Dequeue
  <2> QED BY <1>2, <2>1, <2>2, Zenon DEF PushStep
<1>3. CASE Open
  BY <1>3 DEF Open, MayInit, CInv, PhasesPaired
<1>4. CASE UNCHANGED vars
  BY <1>4 DEF vars
<1> QED BY <1>1, <1>2, <1>3, <1>4 DEF Next

(* Every step keeps OwnerRecycles.                                         *)
LEMMA OwnerRecyclesStep ==
  ASSUME Careful, SInv, IInv', [Next]_vars
  PROVE  OwnerRecycles'
<1> USE SourcesFacts DEF OwnerRecycles, LocksOK, SInv, At, Goto, Step, RunFrom, stateVars, callVars,
  sourceVars, frameVars, driverVars, InStart, InStop, InRecycle, InRelease, Frames
<1>1. ASSUME NEW t \in Threads, Call(t) \/ CallStep(t) PROVE OwnerRecycles'
  <2>1. ASSUME NEW s \in Sources, SetCaptureCallback(t, s) PROVE OwnerRecycles'
    BY <2>1 DEF SetCaptureCallback, IsStarted, NotReleased, Free
  <2>2. ASSUME NEW f \in Frames, RecycleCall(t, f) PROVE OwnerRecycles'
    BY <2>2, RecycleCallKeepsLocks
  <2>3. CASE StartCall(t) \/ StopCall(t) \/ ReleaseCall(t) \/ VideoInputCall(t) \/ VideoInputNative(t) \/
             StartSource(t) \/ StartWait(t) \/ StartNative(t) \/ StartCommit(t) \/ StartFill(t) \/
             SourceStop(t, "undo_source", "undo_interrupt", "undo_rollback") \/ SourceInterrupt(t,
             "undo_interrupt", "undo_join") \/ SourceJoin(t, "undo_join", "undo_rollback") \/
             StartRollback(t) \/ SourceStop(t, "stop_source", "stop_interrupt", "stop_native") \/
             SourceInterrupt(t, "stop_interrupt", "stop_join") \/ SourceJoin(t, "stop_join",
             "stop_native") \/ StopNative(t) \/ StopUsers(t) \/ StopClear(t) \/ StopCommit(t) \/
             ReleaseMark(t) \/ ReleaseNative(t) \/ ReleaseCommit(t)
    BY <2>3, LocksLeftAlone
  <2>4. CASE StopRecycle(t)
    BY <2>4, StopRecycleKeepsLocks
  <2>5. CASE RecycleTemp(t) \/ RecycleEnqueue(t) \/ RecyclePut(t) \/ RecycleDone(t)
    BY <2>5, RecycleStepsKeepLocks
  <2> QED BY <1>1, <2>1, <2>2, <2>3, <2>4, <2>5, Zenon DEF Call, CallStep, StartUndo, StopSource
<1>2. ASSUME NEW s \in Sources, PushStep(s) \/ PushFill(s) PROVE OwnerRecycles'
  <2>1. CASE PushLoop(s) \/ PushGet(s) \/ PushAvail(s) \/ PushFrameFails(s) \/ PushDeliver(s) \/ PushPut(s) \/
             PushPutThrows(s) \/ PushReturn(s)
    BY <2>1 DEF PushLoop, ClearInterrupt, PushGet, GetUser, PushAvail, PushFrameFails, PushDeliver, PushPut,
      PutUser, PushPutThrows, PushReturn
  <2>2. CASE PushCaught(s) \/ PushExceptionDone(s) \/ PushExit(s) \/ PushFill(s)
    BY <2>2 DEF PushCaught, IsStarted, NotReleased, PushExceptionDone, PushExit, PushFill, Dequeue
  <2> QED BY <1>2, <2>1, <2>2, Zenon DEF PushStep
<1>3. CASE Open
  BY <1>3 DEF Open, MayInit, CInv, PhasesPaired
<1>4. CASE UNCHANGED vars
  BY <1>4 DEF vars
<1> QED BY <1>1, <1>2, <1>3, <1>4 DEF Next

(* Every step keeps LocksPassed.                                           *)
LEMMA LocksPassedStep ==
  ASSUME Careful, SInv, IInv', [Next]_vars
  PROVE  LocksPassed'
<1> USE SourcesFacts DEF LocksPassed, LocksOK, SInv, At, Goto, Step, RunFrom, stateVars, callVars,
    sourceVars,
  frameVars, driverVars, InStart, InStop, InRecycle, InRelease, Frames
<1>1. ASSUME NEW t \in Threads, Call(t) \/ CallStep(t) PROVE LocksPassed'
  <2>1. ASSUME NEW s \in Sources, SetCaptureCallback(t, s) PROVE LocksPassed'
    BY <2>1 DEF SetCaptureCallback, IsStarted, NotReleased, Free
  <2>2. CASE StartCall(t) \/ StopCall(t) \/ ReleaseCall(t) \/ VideoInputCall(t) \/ VideoInputNative(t) \/
             StartSource(t) \/ StartWait(t) \/ StartNative(t)
    BY <2>2 DEF StartCall, MayStart, Request, Free, StopCall, MayStop, ReleaseCall, VideoInputCall,
      NotReleased, VideoInputNative, StartSource, Rollback, StartWait, Passes, Waits, StartNative,
      StartCapture, StartCaptureFails
  <2>3. CASE StartCommit(t) \/ StartFill(t) \/ SourceStop(t, "undo_source", "undo_interrupt", "undo_rollback") \/
             SourceInterrupt(t, "undo_interrupt", "undo_join") \/ SourceJoin(t, "undo_join",
             "undo_rollback") \/ StartRollback(t) \/ SourceStop(t, "stop_source", "stop_interrupt",
             "stop_native") \/ SourceInterrupt(t, "stop_interrupt", "stop_join")
    BY <2>3 DEF StartCommit, Commit, StartFill, SourceStop, SourceInterrupt, SourceJoin, Interrupted,
      ClearInterrupt, StartRollback, Rollback
  <2>4. CASE SourceJoin(t, "stop_join", "stop_native") \/ StopNative(t) \/ StopUsers(t) \/ StopClear(t) \/
             StopCommit(t) \/ ReleaseMark(t) \/ ReleaseNative(t) \/ ReleaseCommit(t)
    BY <2>4 DEF SourceJoin, Interrupted, ClearInterrupt, StopNative, StopCapture, StopUsers, Passes, Waits,
      StopClear, StopCommit, Commit, ReleaseMark, MayRelease, Request, ReleaseNative, FreeCapture,
      ReleaseCommit
  <2>5. ASSUME NEW f \in Frames, RecycleCall(t, f) PROVE LocksPassed'
    BY <2>5, RecycleCallKeepsLocks
  <2>6. CASE StopRecycle(t)
    BY <2>6, StopRecycleKeepsLocks
  <2>7. CASE RecycleTemp(t) \/ RecycleEnqueue(t) \/ RecyclePut(t) \/ RecycleDone(t)
    BY <2>7, RecycleStepsKeepLocks
  <2> QED BY <1>1, <2>1, <2>2, <2>3, <2>4, <2>5, <2>6, <2>7, Zenon DEF Call, CallStep, StartUndo, StopSource
<1>2. ASSUME NEW s \in Sources, PushStep(s) \/ PushFill(s) PROVE LocksPassed'
  <2>1. CASE PushLoop(s) \/ PushGet(s) \/ PushAvail(s) \/ PushFrameFails(s) \/ PushDeliver(s) \/ PushPut(s) \/
             PushPutThrows(s) \/ PushReturn(s)
    BY <2>1 DEF PushLoop, ClearInterrupt, PushGet, GetUser, PushAvail, PushFrameFails, PushDeliver, PushPut,
      PutUser, PushPutThrows, PushReturn
  <2>2. CASE PushCaught(s) \/ PushExceptionDone(s) \/ PushExit(s) \/ PushFill(s)
    BY <2>2 DEF PushCaught, IsStarted, NotReleased, PushExceptionDone, PushExit, PushFill, Dequeue
  <2> QED BY <1>2, <2>1, <2>2, Zenon DEF PushStep
<1>3. CASE Open
  BY <1>3 DEF Open, MayInit, CInv, PhasesPaired
<1>4. CASE UNCHANGED vars
  BY <1>4 DEF vars
<1> QED BY <1>1, <1>2, <1>3, <1>4 DEF Next

(* Every step keeps FillsStarted.                                          *)
LEMMA FillsStartedStep ==
  ASSUME Careful, SInv, IInv', [Next]_vars
  PROVE  FillsStarted'
<1> USE SourcesFacts DEF FillsStarted, LocksOK, SInv, At, Goto, Step, RunFrom, stateVars, callVars,
  sourceVars, frameVars, driverVars, InStart, InStop, InRecycle, InRelease
<1>1. ASSUME NEW t \in Threads, Call(t) \/ CallStep(t) PROVE FillsStarted'
  <2>1. ASSUME NEW s \in Sources, SetCaptureCallback(t, s) PROVE FillsStarted'
    BY <2>1 DEF SetCaptureCallback, IsStarted, NotReleased, Free
  <2>2. ASSUME NEW f \in Frames, RecycleCall(t, f) PROVE FillsStarted'
    BY <2>2 DEF RecycleCall, EnterRecycle, IsStarted, NotReleased, Free
  <2>3. CASE StopCall(t)
    BY <2>3, OwnsAlone, RolesAssumption, NumBuffersAssumption DEF CInv, CallsPlaced, OneStops, Placed,
      Stops,
      OneOwner, Careful, PhasesPaired, IInv, ThreadOfSource, CallLocated, Frames, StopCall, MayStop,
      Request,
      Free
  <2>4. CASE ReleaseCall(t)
    BY <2>4, OwnsAlone, RolesAssumption, NumBuffersAssumption DEF CInv, CallsPlaced, OneStops, Placed,
      Stops,
      OneOwner, Careful, PhasesPaired, IInv, ThreadOfSource, CallLocated, Frames, ReleaseCall, MayStop,
      Request, Free
  <2>5. CASE StartCommit(t)
    BY <2>5 DEF CInv, CallsPlaced, OneStops, Placed, Stops, StartCommit, Commit
  <2>6. CASE StartCall(t) \/ VideoInputCall(t) \/ VideoInputNative(t) \/ StartSource(t) \/ StartWait(t) \/
             StartNative(t) \/ StartFill(t) \/ SourceStop(t, "undo_source", "undo_interrupt",
             "undo_rollback")
    BY <2>6 DEF StartCall, MayStart, Request, Free, VideoInputCall, NotReleased, VideoInputNative,
      StartSource, Rollback, StartWait, Passes, Waits, StartNative, StartCapture, StartCaptureFails,
      StartFill, SourceStop
  <2>7. CASE SourceInterrupt(t, "undo_interrupt", "undo_join") \/ SourceJoin(t, "undo_join", "undo_rollback") \/
             StartRollback(t) \/ SourceStop(t, "stop_source", "stop_interrupt", "stop_native") \/
             SourceInterrupt(t, "stop_interrupt", "stop_join") \/ SourceJoin(t, "stop_join",
             "stop_native") \/ StopNative(t) \/ StopUsers(t)
    BY <2>7 DEF SourceInterrupt, SourceJoin, Interrupted, ClearInterrupt, StartRollback, Rollback,
      SourceStop,
      StopNative, StopCapture, StopUsers, Passes, Waits
  <2>8. CASE StopRecycle(t) \/ StopClear(t) \/ StopCommit(t) \/ ReleaseMark(t) \/ ReleaseNative(t) \/
             ReleaseCommit(t) \/ RecycleTemp(t) \/ RecycleEnqueue(t)
    BY <2>8 DEF StopRecycle, EnterRecycle, IsStarted, NotReleased, StopClear, StopCommit, Commit,
      ReleaseMark,
      MayRelease, Request, ReleaseNative, FreeCapture, ReleaseCommit, RecycleTemp, LeaveRecycle, Back,
      RecycleEnqueue, Enqueue
  <2>9. CASE RecyclePut(t) \/ RecycleDone(t)
    BY <2>9 DEF RecyclePut, LeaveRecycle, Back, Interrupted, ClearInterrupt, RecycleDone
  <2> QED BY <1>1, <2>1, <2>2, <2>3, <2>4, <2>5, <2>6, <2>7, <2>8, <2>9, Zenon DEF Call, CallStep,
      StartUndo,
    StopSource
<1>2. ASSUME NEW s \in Sources, PushStep(s) \/ PushFill(s) PROVE FillsStarted'
  <2>1. CASE PushLoop(s) \/ PushGet(s) \/ PushAvail(s) \/ PushFrameFails(s) \/ PushDeliver(s) \/ PushPut(s) \/
             PushPutThrows(s) \/ PushReturn(s)
    BY <2>1 DEF PushLoop, ClearInterrupt, PushGet, GetUser, PushAvail, PushFrameFails, PushDeliver, PushPut,
      PutUser, PushPutThrows, PushReturn
  <2>2. CASE PushCaught(s) \/ PushExceptionDone(s) \/ PushExit(s) \/ PushFill(s)
    BY <2>2 DEF PushCaught, IsStarted, NotReleased, PushExceptionDone, PushExit, PushFill, Dequeue
  <2> QED BY <1>2, <2>1, <2>2, Zenon DEF PushStep
<1>3. CASE Open
  BY <1>3 DEF Open, MayInit, CInv, PhasesPaired
<1>4. CASE UNCHANGED vars
  BY <1>4 DEF vars
<1> QED BY <1>1, <1>2, <1>3, <1>4 DEF Next

(* Every step keeps EmptyUnlessStarted.                                    *)
LEMMA EmptyUnlessStartedStep ==
  ASSUME Careful, SInv, IInv', [Next]_vars
  PROVE  EmptyUnlessStarted'
<1> USE SourcesFacts DEF EmptyUnlessStarted, LocksOK, SInv, At, Goto, Step, RunFrom, stateVars, callVars,
  sourceVars, frameVars, driverVars, InStart, InStop, InRecycle, InRelease
<1>1. ASSUME NEW t \in Threads, Call(t) \/ CallStep(t) PROVE EmptyUnlessStarted'
  <2>1. ASSUME NEW s \in Sources, SetCaptureCallback(t, s) PROVE EmptyUnlessStarted'
    BY <2>1 DEF SetCaptureCallback, IsStarted, NotReleased, Free
  <2>2. ASSUME NEW f \in Frames, RecycleCall(t, f) PROVE EmptyUnlessStarted'
    BY <2>2 DEF RecycleCall, EnterRecycle, IsStarted, NotReleased, Free
  <2>3. CASE StartCommit(t)
    BY <2>3 DEF CInv, CallsPlaced, OneStops, Placed, Stops, StartCommit, Commit
  <2>4. CASE StartFill(t)
    BY <2>4, OwnsAlone, RolesAssumption, NumBuffersAssumption DEF CInv, CallsPlaced, OneStops, Placed,
      Stops,
      OneOwner, Careful, PhasesPaired, IInv, ThreadOfSource, CallLocated, Frames, FillsStarted, StartFill
  <2>5. CASE ReleaseCommit(t)
    BY <2>5 DEF CInv, CallsPlaced, OneStops, Placed, Stops, ReleaseCommit, Commit
  <2>6. CASE RecyclePut(t)
    BY <2>6, OwnsAlone, RolesAssumption, NumBuffersAssumption DEF CInv, CallsPlaced, OneStops, Placed,
      Stops,
      OneOwner, Careful, PhasesPaired, IInv, ThreadOfSource, CallLocated, Frames, LockOfRecycle,
      LocksPassed,
      Recycles, RecyclePut, LeaveRecycle, Back, Interrupted, ClearInterrupt
  <2>7. CASE StartCall(t) \/ StopCall(t) \/ ReleaseCall(t) \/ VideoInputCall(t) \/ VideoInputNative(t) \/
             StartSource(t) \/ StartWait(t) \/ StartNative(t)
    BY <2>7 DEF StartCall, MayStart, Request, Free, StopCall, MayStop, ReleaseCall, VideoInputCall,
      NotReleased, VideoInputNative, StartSource, Rollback, StartWait, Passes, Waits, StartNative,
      StartCapture, StartCaptureFails
  <2>8. CASE SourceStop(t, "undo_source", "undo_interrupt", "undo_rollback") \/ SourceInterrupt(t,
             "undo_interrupt", "undo_join") \/ SourceJoin(t, "undo_join", "undo_rollback") \/
             StartRollback(t) \/ SourceStop(t, "stop_source", "stop_interrupt", "stop_native") \/
             SourceInterrupt(t, "stop_interrupt", "stop_join") \/ SourceJoin(t, "stop_join",
             "stop_native") \/ StopNative(t)
    BY <2>8 DEF SourceStop, SourceInterrupt, SourceJoin, Interrupted, ClearInterrupt, StartRollback,
      Rollback,
      StopNative, StopCapture
  <2>9. CASE StopUsers(t) \/ StopRecycle(t) \/ StopClear(t) \/ StopCommit(t) \/ ReleaseMark(t) \/
             ReleaseNative(t) \/ RecycleTemp(t) \/ RecycleEnqueue(t)
    BY <2>9 DEF StopUsers, Passes, Waits, Interrupted, ClearInterrupt, StopRecycle, EnterRecycle, IsStarted,
      NotReleased, StopClear, StopCommit, Commit, ReleaseMark, MayRelease, Request, ReleaseNative,
      FreeCapture, RecycleTemp, LeaveRecycle, Back, RecycleEnqueue, Enqueue
  <2>10. CASE RecycleDone(t)
    BY <2>10 DEF RecycleDone, LeaveRecycle, Back
  <2> QED BY <1>1, <2>1, <2>2, <2>3, <2>4, <2>5, <2>6, <2>7, <2>8, <2>9, <2>10, Zenon DEF Call, CallStep,
    StartUndo, StopSource
<1>2. ASSUME NEW s \in Sources, PushStep(s) \/ PushFill(s) PROVE EmptyUnlessStarted'
  <2>1. CASE PushLoop(s) \/ PushGet(s) \/ PushAvail(s) \/ PushFrameFails(s) \/ PushDeliver(s) \/ PushPut(s) \/
             PushPutThrows(s) \/ PushReturn(s)
    BY <2>1 DEF PushLoop, ClearInterrupt, PushGet, GetUser, PushAvail, PushFrameFails, PushDeliver, PushPut,
      PutUser, PushPutThrows, PushReturn
  <2>2. CASE PushCaught(s) \/ PushExceptionDone(s) \/ PushExit(s) \/ PushFill(s)
    BY <2>2 DEF PushCaught, IsStarted, NotReleased, PushExceptionDone, PushExit, PushFill, Dequeue
  <2> QED BY <1>2, <2>1, <2>2, Zenon DEF PushStep
<1>3. CASE Open
  BY <1>3 DEF Open, MayInit, CInv, PhasesPaired
<1>4. CASE UNCHANGED vars
  BY <1>4 DEF vars
<1> QED BY <1>1, <1>2, <1>3, <1>4 DEF Next

(* Every step keeps HeldWhenStarted.                                       *)
LEMMA HeldWhenStartedStep ==
  ASSUME Careful, SInv, IInv', [Next]_vars
  PROVE  HeldWhenStarted'
<1> USE SourcesFacts DEF HeldWhenStarted, LocksOK, SInv, At, Goto, Step, RunFrom, stateVars, callVars,
  sourceVars, frameVars, driverVars, InStart, InStop, InRecycle, InRelease
<1>1. ASSUME NEW t \in Threads, Call(t) \/ CallStep(t) PROVE HeldWhenStarted'
  <2>1. ASSUME NEW s \in Sources, SetCaptureCallback(t, s) PROVE HeldWhenStarted'
    BY <2>1 DEF SetCaptureCallback, IsStarted, NotReleased, Free
  <2>2. ASSUME NEW f \in Frames, RecycleCall(t, f) PROVE HeldWhenStarted'
    BY <2>2 DEF RecycleCall, EnterRecycle, IsStarted, NotReleased, Free
  <2>3. CASE StartCommit(t)
    BY <2>3 DEF CInv, CallsPlaced, OneStops, Placed, Stops, StartCommit, Commit
  <2>4. CASE StopCommit(t)
    BY <2>4, OwnsAlone, RolesAssumption, NumBuffersAssumption DEF CInv, CallsPlaced, OneStops, Placed,
      Stops,
      OneOwner, Careful, PhasesPaired, IInv, ThreadOfSource, CallLocated, Frames, StopCommit, Commit
  <2>5. CASE ReleaseCommit(t)
    BY <2>5 DEF CInv, CallsPlaced, OneStops, Placed, Stops, ReleaseCommit, Commit
  <2>6. CASE StartCall(t) \/ StopCall(t) \/ ReleaseCall(t) \/ VideoInputCall(t) \/ VideoInputNative(t) \/
             StartSource(t) \/ StartWait(t) \/ StartNative(t)
    BY <2>6 DEF StartCall, MayStart, Request, Free, StopCall, MayStop, ReleaseCall, VideoInputCall,
      NotReleased, VideoInputNative, StartSource, Rollback, StartWait, Passes, Waits, StartNative,
      StartCapture, StartCaptureFails
  <2>7. CASE StartFill(t) \/ SourceStop(t, "undo_source", "undo_interrupt", "undo_rollback") \/
             SourceInterrupt(t, "undo_interrupt", "undo_join") \/ SourceJoin(t, "undo_join",
             "undo_rollback") \/ StartRollback(t) \/ SourceStop(t, "stop_source", "stop_interrupt",
             "stop_native") \/ SourceInterrupt(t, "stop_interrupt", "stop_join") \/ SourceJoin(t,
             "stop_join", "stop_native")
    BY <2>7 DEF StartFill, SourceStop, SourceInterrupt, SourceJoin, Interrupted, ClearInterrupt,
      StartRollback, Rollback
  <2>8. CASE StopNative(t) \/ StopUsers(t) \/ StopRecycle(t) \/ StopClear(t) \/ ReleaseMark(t) \/
             ReleaseNative(t) \/ RecycleTemp(t) \/ RecycleEnqueue(t)
    BY <2>8 DEF StopNative, StopCapture, StopUsers, Passes, Waits, Interrupted, ClearInterrupt, StopRecycle,
      EnterRecycle, IsStarted, NotReleased, StopClear, ReleaseMark, MayRelease, Request, ReleaseNative,
      FreeCapture, RecycleTemp, LeaveRecycle, Back, RecycleEnqueue, Enqueue
  <2>9. CASE RecyclePut(t) \/ RecycleDone(t)
    BY <2>9 DEF RecyclePut, LeaveRecycle, Back, Interrupted, ClearInterrupt, RecycleDone
  <2> QED BY <1>1, <2>1, <2>2, <2>3, <2>4, <2>5, <2>6, <2>7, <2>8, <2>9, Zenon DEF Call, CallStep,
      StartUndo,
    StopSource
<1>2. ASSUME NEW s \in Sources, PushStep(s) \/ PushFill(s) PROVE HeldWhenStarted'
  <2>1. CASE PushPut(s)
    BY <2>1, OwnsAlone, RolesAssumption, NumBuffersAssumption DEF CInv, CallsPlaced, OneStops, Placed,
      Stops,
      OneOwner, Careful, PhasesPaired, IInv, ThreadOfSource, CallLocated, Frames, SourcesOK,
      RunsWhenStarted,
      Leaving, InCallback, PushPut, PutUser
  <2>2. CASE PushLoop(s) \/ PushGet(s) \/ PushAvail(s) \/ PushFrameFails(s) \/ PushDeliver(s) \/ PushPutThrows(s)
             \/ PushReturn(s) \/ PushCaught(s)
    BY <2>2 DEF PushLoop, ClearInterrupt, PushGet, GetUser, PushAvail, PushFrameFails, PushDeliver,
      PushPutThrows, PutUser, PushReturn, PushCaught, IsStarted, NotReleased
  <2>3. CASE PushExceptionDone(s) \/ PushExit(s) \/ PushFill(s)
    BY <2>3 DEF PushExceptionDone, PushExit, PushFill, Dequeue
  <2> QED BY <1>2, <2>1, <2>2, <2>3, Zenon DEF PushStep
<1>3. CASE Open
  BY <1>3 DEF Open, MayInit, CInv, PhasesPaired
<1>4. CASE UNCHANGED vars
  BY <1>4 DEF vars
<1> QED BY <1>1, <1>2, <1>3, <1>4 DEF Next

(* Every step keeps StreamsWhenStarted.                                    *)
LEMMA StreamsWhenStartedStep ==
  ASSUME Careful, SInv, IInv', [Next]_vars
  PROVE  StreamsWhenStarted'
<1> USE SourcesFacts DEF StreamsWhenStarted, DeviceOK, SInv, At, Goto, Step, RunFrom, stateVars, callVars,
  sourceVars, frameVars, driverVars, InStart, InStop, InRecycle, InRelease, Stops, PastJoin
<1>1. ASSUME NEW t \in Threads, Call(t) \/ CallStep(t) PROVE StreamsWhenStarted'
  <2>1. ASSUME NEW s \in Sources, SetCaptureCallback(t, s) PROVE StreamsWhenStarted'
    BY <2>1 DEF SetCaptureCallback, IsStarted, NotReleased, Free
  <2>2. ASSUME NEW f \in Frames, RecycleCall(t, f) PROVE StreamsWhenStarted'
    BY <2>2 DEF CInv, CallsPlaced, OneStops, Placed, RecycleCall, EnterRecycle, IsStarted, NotReleased, Free
  <2>3. CASE StartSource(t)
    BY <2>3 DEF CInv, CallsPlaced, OneStops, Placed, StartSource, Rollback
  <2>4. CASE StartNative(t)
    BY <2>4 DEF CInv, CallsPlaced, OneStops, Placed, StartNative, StartCapture, StartCaptureFails
  <2>5. CASE StartCommit(t)
    BY <2>5, OwnsAlone, RolesAssumption, NumBuffersAssumption DEF CInv, CallsPlaced, OneStops, Placed,
      OneOwner, Careful, PhasesPaired, IInv, ThreadOfSource, CallLocated, Frames, StartsFull, StartCommit,
      Commit
  <2>6. CASE StartRollback(t)
    BY <2>6 DEF CInv, CallsPlaced, OneStops, Placed, StartRollback, Rollback
  <2>7. CASE StopNative(t)
    BY <2>7 DEF CInv, CallsPlaced, OneStops, Placed, StopNative, StopCapture
  <2>8. CASE StopCommit(t)
    BY <2>8 DEF CInv, CallsPlaced, OneStops, Placed, StopCommit, Commit
  <2>9. CASE ReleaseCommit(t)
    BY <2>9 DEF CInv, CallsPlaced, OneStops, Placed, ReleaseCommit, Commit
  <2>10. CASE StartCall(t)
    BY <2>10 DEF StartCall, MayStart, Request, Free
  <2>11. CASE StopCall(t)
    BY <2>11 DEF StopCall, MayStop, Request, Free
  <2>12. CASE ReleaseCall(t)
    BY <2>12 DEF ReleaseCall, MayStop, Request, Free
  <2>13. CASE VideoInputCall(t)
    BY <2>13 DEF VideoInputCall, Free, NotReleased
  <2>14. CASE VideoInputNative(t)
    BY <2>14 DEF VideoInputNative
  <2>15. CASE StartWait(t)
    BY <2>15 DEF StartWait, Passes, Waits
  <2>16. CASE StartFill(t)
    BY <2>16 DEF StartFill
  <2>17. CASE SourceStop(t, "undo_source", "undo_interrupt", "undo_rollback")
    BY <2>17 DEF SourceStop
  <2>18. CASE SourceInterrupt(t, "undo_interrupt", "undo_join")
    BY <2>18 DEF SourceInterrupt
  <2>19. CASE SourceJoin(t, "undo_join", "undo_rollback")
    BY <2>19 DEF SourceJoin, Interrupted, ClearInterrupt
  <2>20. CASE SourceStop(t, "stop_source", "stop_interrupt", "stop_native")
    BY <2>20 DEF SourceStop
  <2>21. CASE SourceInterrupt(t, "stop_interrupt", "stop_join")
    BY <2>21 DEF SourceInterrupt
  <2>22. CASE SourceJoin(t, "stop_join", "stop_native")
    BY <2>22 DEF SourceJoin, Interrupted, ClearInterrupt
  <2>23. CASE StopUsers(t)
    BY <2>23 DEF StopUsers, Passes, Waits, Interrupted, ClearInterrupt
  <2>24. CASE StopRecycle(t)
    BY <2>24 DEF StopRecycle, EnterRecycle, IsStarted, NotReleased
  <2>25. CASE StopClear(t)
    BY <2>25 DEF StopClear
  <2>26. CASE ReleaseMark(t)
    BY <2>26 DEF ReleaseMark, MayRelease, Request
  <2>27. CASE ReleaseNative(t)
    BY <2>27 DEF ReleaseNative, FreeCapture
  <2>28. CASE RecycleTemp(t)
    BY <2>28 DEF RecycleTemp, LeaveRecycle, Back
  <2>29. CASE RecycleEnqueue(t)
    BY <2>29 DEF RecycleEnqueue, Enqueue
  <2>30. CASE RecyclePut(t)
    BY <2>30 DEF RecyclePut, LeaveRecycle, Back, Interrupted, ClearInterrupt
  <2>31. CASE RecycleDone(t)
    BY <2>31 DEF RecycleDone, LeaveRecycle, Back
  <2> QED BY <1>1, <2>1, <2>2, <2>3, <2>4, <2>5, <2>6, <2>7, <2>8, <2>9, <2>10, <2>11, <2>12, <2>13, <2>14,
    <2>15, <2>16, <2>17, <2>18, <2>19, <2>20, <2>21, <2>22, <2>23, <2>24, <2>25, <2>26, <2>27, <2>28, <2>29,
    <2>30, <2>31, Zenon DEF Call, CallStep, StartUndo, StopSource
<1>2. ASSUME NEW s \in Sources, PushStep(s) \/ PushFill(s) PROVE StreamsWhenStarted'
  <2>1. CASE PushLoop(s)
    BY <2>1 DEF PushLoop, ClearInterrupt
  <2>2. CASE PushGet(s)
    BY <2>2 DEF PushGet, GetUser
  <2>3. CASE PushAvail(s)
    BY <2>3 DEF PushAvail, ClearInterrupt
  <2>4. CASE PushFrameFails(s)
    BY <2>4 DEF PushFrameFails
  <2>5. CASE PushDeliver(s)
    BY <2>5 DEF PushDeliver
  <2>6. CASE PushPut(s)
    BY <2>6 DEF PushPut, PutUser
  <2>7. CASE PushPutThrows(s)
    BY <2>7 DEF PushPutThrows, PutUser
  <2>8. CASE PushReturn(s)
    BY <2>8 DEF PushReturn
  <2>9. CASE PushCaught(s)
    BY <2>9 DEF PushCaught, IsStarted, NotReleased
  <2>10. CASE PushExceptionDone(s)
    BY <2>10 DEF PushExceptionDone
  <2>11. CASE PushExit(s)
    BY <2>11 DEF PushExit
  <2>12. CASE PushFill(s)
    BY <2>12 DEF PushFill, Dequeue
  <2> QED BY <1>2, <2>1, <2>2, <2>3, <2>4, <2>5, <2>6, <2>7, <2>8, <2>9, <2>10, <2>11, <2>12, Zenon DEF
    PushStep
<1>3. CASE Open
  BY <1>3 DEF Open, MayInit, CInv, PhasesPaired
<1>4. CASE UNCHANGED vars
  BY <1>4 DEF vars
<1> QED BY <1>1, <1>2, <1>3, <1>4 DEF Next

(* Every step keeps StartsFull.                                            *)
LEMMA StartsFullStep ==
  ASSUME Careful, SInv, IInv', [Next]_vars
  PROVE  StartsFull'
<1> USE SourcesFacts DEF StartsFull, DeviceOK, SInv, At, Goto, Step, RunFrom, stateVars, callVars,
    sourceVars,
  frameVars, driverVars, InStart, InStop, InRecycle, InRelease
<1>1. ASSUME NEW t \in Threads, Call(t) \/ CallStep(t) PROVE StartsFull'
  <2>1. ASSUME NEW s \in Sources, SetCaptureCallback(t, s) PROVE StartsFull'
    BY <2>1 DEF SetCaptureCallback, IsStarted, NotReleased, Free
  <2>2. ASSUME NEW f \in Frames, RecycleCall(t, f) PROVE StartsFull'
    BY <2>2 DEF RecycleCall, EnterRecycle, IsStarted, NotReleased, Free
  <2>3. CASE StartNative(t)
    BY <2>3, OwnsAlone, RolesAssumption, NumBuffersAssumption DEF CInv, CallsPlaced, OneStops, Placed,
      Stops,
      OneOwner, Careful, PhasesPaired, IInv, ThreadOfSource, CallLocated, Frames, StartNative, StartCapture,
      StartCaptureFails
  <2>4. CASE StopNative(t)
    BY <2>4 DEF CInv, CallsPlaced, OneStops, Placed, Stops, StopNative, StopCapture
  <2>5. CASE ReleaseNative(t)
    BY <2>5 DEF CInv, CallsPlaced, OneStops, Placed, Stops, ReleaseNative, FreeCapture
  <2>6. CASE RecycleEnqueue(t)
    BY <2>6, OwnsAlone, RolesAssumption, NumBuffersAssumption, Types DEF CInv, CallsPlaced, OneStops,
      Placed,
      Stops, OneOwner, Careful, PhasesPaired, IInv, ThreadOfSource, CallLocated, Frames, FrameTypes,
      Enqueue,
      Buffers, RecycleEnqueue
  <2>7. CASE StartCall(t) \/ StopCall(t) \/ ReleaseCall(t) \/ VideoInputCall(t) \/ VideoInputNative(t) \/
             StartSource(t) \/ StartWait(t) \/ StartCommit(t)
    BY <2>7 DEF StartCall, MayStart, Request, Free, StopCall, MayStop, ReleaseCall, VideoInputCall,
      NotReleased, VideoInputNative, StartSource, Rollback, StartWait, Passes, Waits, StartCommit, Commit
  <2>8. CASE StartFill(t) \/ SourceStop(t, "undo_source", "undo_interrupt", "undo_rollback") \/
             SourceInterrupt(t, "undo_interrupt", "undo_join") \/ SourceJoin(t, "undo_join",
             "undo_rollback") \/ StartRollback(t) \/ SourceStop(t, "stop_source", "stop_interrupt",
             "stop_native") \/ SourceInterrupt(t, "stop_interrupt", "stop_join") \/ SourceJoin(t,
             "stop_join", "stop_native")
    BY <2>8 DEF StartFill, SourceStop, SourceInterrupt, SourceJoin, Interrupted, ClearInterrupt,
      StartRollback, Rollback
  <2>9. CASE StopUsers(t) \/ StopRecycle(t) \/ StopClear(t) \/ StopCommit(t) \/ ReleaseMark(t) \/
             ReleaseCommit(t) \/ RecycleTemp(t) \/ RecyclePut(t)
    BY <2>9 DEF StopUsers, Passes, Waits, Interrupted, ClearInterrupt, StopRecycle, EnterRecycle, IsStarted,
      NotReleased, StopClear, StopCommit, Commit, ReleaseMark, MayRelease, Request, ReleaseCommit,
      RecycleTemp, LeaveRecycle, Back, RecyclePut
  <2>10. CASE RecycleDone(t)
    BY <2>10 DEF RecycleDone, LeaveRecycle, Back
  <2> QED BY <1>1, <2>1, <2>2, <2>3, <2>4, <2>5, <2>6, <2>7, <2>8, <2>9, <2>10, Zenon DEF Call, CallStep,
    StartUndo, StopSource
<1>2. ASSUME NEW s \in Sources, PushStep(s) \/ PushFill(s) PROVE StartsFull'
  <2>1. CASE PushFill(s)
    BY <2>1, OwnsAlone, RolesAssumption, NumBuffersAssumption DEF CInv, CallsPlaced, OneStops, Placed,
      Stops,
      OneOwner, Careful, PhasesPaired, IInv, ThreadOfSource, CallLocated, Frames, SourcesOK,
      RunsWhenStarted,
      Leaving, InCallback, PushFill, Dequeue
  <2>2. CASE PushLoop(s) \/ PushGet(s) \/ PushAvail(s) \/ PushFrameFails(s) \/ PushDeliver(s) \/ PushPut(s) \/
             PushPutThrows(s) \/ PushReturn(s)
    BY <2>2 DEF PushLoop, ClearInterrupt, PushGet, GetUser, PushAvail, PushFrameFails, PushDeliver, PushPut,
      PutUser, PushPutThrows, PushReturn
  <2>3. CASE PushCaught(s) \/ PushExceptionDone(s) \/ PushExit(s)
    BY <2>3 DEF PushCaught, IsStarted, NotReleased, PushExceptionDone, PushExit
  <2> QED BY <1>2, <2>1, <2>2, <2>3, Zenon DEF PushStep
<1>3. CASE Open
  BY <1>3 DEF Open, MayInit, CInv, PhasesPaired
<1>4. CASE UNCHANGED vars
  BY <1>4 DEF vars
<1> QED BY <1>1, <1>2, <1>3, <1>4 DEF Next

(* Every step keeps FreedAtRelease.                                        *)
LEMMA FreedAtReleaseStep ==
  ASSUME Careful, SInv, IInv', [Next]_vars
  PROVE  FreedAtRelease'
<1> USE SourcesFacts DEF FreedAtRelease, DeviceOK, SInv, At, Goto, Step, RunFrom, stateVars, callVars,
  sourceVars, frameVars, driverVars, InStart, InStop, InRecycle, InRelease
<1>1. ASSUME NEW t \in Threads, Call(t) \/ CallStep(t) PROVE FreedAtRelease'
  <2>1. ASSUME NEW s \in Sources, SetCaptureCallback(t, s) PROVE FreedAtRelease'
    BY <2>1 DEF SetCaptureCallback, IsStarted, NotReleased, Free
  <2>2. ASSUME NEW f \in Frames, RecycleCall(t, f) PROVE FreedAtRelease'
    BY <2>2 DEF RecycleCall, EnterRecycle, IsStarted, NotReleased, Free
  <2>3. CASE StartCall(t)
    BY <2>3, OwnsAlone, RolesAssumption, NumBuffersAssumption DEF CInv, CallsPlaced, OneStops, Placed,
      Stops,
      OneOwner, Careful, PhasesPaired, IInv, ThreadOfSource, CallLocated, Frames, StartCall, MayStart,
      Request, Free
  <2>4. CASE StopCall(t)
    BY <2>4 DEF CInv, CallsPlaced, OneStops, Placed, Stops, StopCall, MayStop, Request, Free
  <2>5. CASE ReleaseCall(t)
    BY <2>5 DEF CInv, CallsPlaced, OneStops, Placed, Stops, ReleaseCall, MayStop, Request, Free
  <2>6. CASE StartSource(t)
    BY <2>6 DEF CInv, CallsPlaced, OneStops, Placed, Stops, StartSource, Rollback
  <2>7. CASE StartRollback(t)
    BY <2>7 DEF CInv, CallsPlaced, OneStops, Placed, Stops, StartRollback, Rollback
  <2>8. CASE ReleaseNative(t)
    BY <2>8 DEF CInv, CallsPlaced, OneStops, Placed, Stops, ReleaseNative, FreeCapture
  <2>9. CASE VideoInputCall(t) \/ VideoInputNative(t) \/ StartWait(t) \/ StartNative(t) \/ StartCommit(t) \/
             StartFill(t) \/ SourceStop(t, "undo_source", "undo_interrupt", "undo_rollback") \/
             SourceInterrupt(t, "undo_interrupt", "undo_join")
    BY <2>9 DEF VideoInputCall, Free, NotReleased, VideoInputNative, StartWait, Passes, Waits, StartNative,
      StartCapture, StartCaptureFails, StartCommit, Commit, StartFill, SourceStop, SourceInterrupt
  <2>10. CASE SourceJoin(t, "undo_join", "undo_rollback") \/ SourceStop(t, "stop_source", "stop_interrupt",
             "stop_native") \/ SourceInterrupt(t, "stop_interrupt", "stop_join") \/ SourceJoin(t,
             "stop_join", "stop_native") \/ StopNative(t) \/ StopUsers(t) \/ StopRecycle(t) \/
             StopClear(t)
    BY <2>10 DEF SourceJoin, Interrupted, ClearInterrupt, SourceStop, SourceInterrupt, StopNative,
      StopCapture, StopUsers, Passes, Waits, StopRecycle, EnterRecycle, IsStarted, NotReleased, StopClear
  <2>11. CASE StopCommit(t) \/ ReleaseMark(t) \/ ReleaseCommit(t) \/ RecycleTemp(t) \/ RecycleEnqueue(t) \/
             RecyclePut(t) \/ RecycleDone(t)
    BY <2>11 DEF StopCommit, Commit, ReleaseMark, MayRelease, Request, ReleaseCommit, RecycleTemp,
      LeaveRecycle, Back, RecycleEnqueue, Enqueue, RecyclePut, Interrupted, ClearInterrupt, RecycleDone
  <2> QED BY <1>1, <2>1, <2>2, <2>3, <2>4, <2>5, <2>6, <2>7, <2>8, <2>9, <2>10, <2>11, Zenon DEF Call,
    CallStep, StartUndo, StopSource
<1>2. ASSUME NEW s \in Sources, PushStep(s) \/ PushFill(s) PROVE FreedAtRelease'
  <2>1. CASE PushLoop(s) \/ PushGet(s) \/ PushAvail(s) \/ PushFrameFails(s) \/ PushDeliver(s) \/ PushPut(s) \/
             PushPutThrows(s) \/ PushReturn(s)
    BY <2>1 DEF PushLoop, ClearInterrupt, PushGet, GetUser, PushAvail, PushFrameFails, PushDeliver, PushPut,
      PutUser, PushPutThrows, PushReturn
  <2>2. CASE PushCaught(s) \/ PushExceptionDone(s) \/ PushExit(s) \/ PushFill(s)
    BY <2>2 DEF PushCaught, IsStarted, NotReleased, PushExceptionDone, PushExit, PushFill, Dequeue
  <2> QED BY <1>2, <2>1, <2>2, Zenon DEF PushStep
<1>3. CASE Open
  BY <1>3 DEF Open, MayInit, CInv, PhasesPaired
<1>4. CASE UNCHANGED vars
  BY <1>4 DEF vars
<1> QED BY <1>1, <1>2, <1>3, <1>4 DEF Next

(* Every step keeps InputBeforeFree.                                       *)
LEMMA InputBeforeFreeStep ==
  ASSUME Careful, SInv, IInv', [Next]_vars
  PROVE  InputBeforeFree'
<1> USE SourcesFacts DEF InputBeforeFree, DeviceOK, SInv, At, Goto, Step, RunFrom, stateVars, callVars,
  sourceVars, frameVars, driverVars, InStart, InStop, InRecycle, InRelease
<1>1. ASSUME NEW t \in Threads, Call(t) \/ CallStep(t) PROVE InputBeforeFree'
  <2>1. ASSUME NEW s \in Sources, SetCaptureCallback(t, s) PROVE InputBeforeFree'
    BY <2>1 DEF SetCaptureCallback, IsStarted, NotReleased, Free
  <2>2. ASSUME NEW f \in Frames, RecycleCall(t, f) PROVE InputBeforeFree'
    BY <2>2 DEF RecycleCall, EnterRecycle, IsStarted, NotReleased, Free
  <2>3. CASE VideoInputCall(t)
    BY <2>3, OwnsAlone, RolesAssumption, NumBuffersAssumption DEF CInv, CallsPlaced, OneStops, Placed,
      Stops,
      OneOwner, Careful, PhasesPaired, IInv, ThreadOfSource, CallLocated, Frames, FreedAtRelease,
      VideoInputCall, Free, NotReleased
  <2>4. CASE ReleaseNative(t)
    BY <2>4, OwnsAlone, RolesAssumption, NumBuffersAssumption DEF CInv, CallsPlaced, OneStops, Placed,
      Stops,
      OneOwner, Careful, PhasesPaired, IInv, ThreadOfSource, CallLocated, Frames, ReleaseNative, FreeCapture
  <2>5. CASE StartCall(t) \/ StopCall(t) \/ ReleaseCall(t) \/ VideoInputNative(t) \/ StartSource(t) \/
             StartWait(t) \/ StartNative(t) \/ StartCommit(t)
    BY <2>5 DEF StartCall, MayStart, Request, Free, StopCall, MayStop, ReleaseCall, VideoInputNative,
      StartSource, Rollback, StartWait, Passes, Waits, StartNative, StartCapture, StartCaptureFails,
      StartCommit, Commit
  <2>6. CASE StartFill(t) \/ SourceStop(t, "undo_source", "undo_interrupt", "undo_rollback") \/
             SourceInterrupt(t, "undo_interrupt", "undo_join") \/ SourceJoin(t, "undo_join",
             "undo_rollback") \/ StartRollback(t) \/ SourceStop(t, "stop_source", "stop_interrupt",
             "stop_native") \/ SourceInterrupt(t, "stop_interrupt", "stop_join") \/ SourceJoin(t,
             "stop_join", "stop_native")
    BY <2>6 DEF StartFill, SourceStop, SourceInterrupt, SourceJoin, Interrupted, ClearInterrupt,
      StartRollback, Rollback
  <2>7. CASE StopNative(t) \/ StopUsers(t) \/ StopRecycle(t) \/ StopClear(t) \/ StopCommit(t) \/ ReleaseMark(t)
             \/ ReleaseCommit(t) \/ RecycleTemp(t)
    BY <2>7 DEF StopNative, StopCapture, StopUsers, Passes, Waits, Interrupted, ClearInterrupt, StopRecycle,
      EnterRecycle, IsStarted, NotReleased, StopClear, StopCommit, Commit, ReleaseMark, MayRelease, Request,
      ReleaseCommit, RecycleTemp, LeaveRecycle, Back
  <2>8. CASE RecycleEnqueue(t) \/ RecyclePut(t) \/ RecycleDone(t)
    BY <2>8 DEF RecycleEnqueue, Enqueue, RecyclePut, LeaveRecycle, Back, Interrupted, ClearInterrupt,
      RecycleDone
  <2> QED BY <1>1, <2>1, <2>2, <2>3, <2>4, <2>5, <2>6, <2>7, <2>8, Zenon DEF Call, CallStep, StartUndo,
    StopSource
<1>2. ASSUME NEW s \in Sources, PushStep(s) \/ PushFill(s) PROVE InputBeforeFree'
  <2>1. CASE PushLoop(s) \/ PushGet(s) \/ PushAvail(s) \/ PushFrameFails(s) \/ PushDeliver(s) \/ PushPut(s) \/
             PushPutThrows(s) \/ PushReturn(s)
    BY <2>1 DEF PushLoop, ClearInterrupt, PushGet, GetUser, PushAvail, PushFrameFails, PushDeliver, PushPut,
      PutUser, PushPutThrows, PushReturn
  <2>2. CASE PushCaught(s) \/ PushExceptionDone(s) \/ PushExit(s) \/ PushFill(s)
    BY <2>2 DEF PushCaught, IsStarted, NotReleased, PushExceptionDone, PushExit, PushFill, Dequeue
  <2> QED BY <1>2, <2>1, <2>2, Zenon DEF PushStep
<1>3. CASE Open
  BY <1>3 DEF Open, MayInit, CInv, PhasesPaired
<1>4. CASE UNCHANGED vars
  BY <1>4 DEF vars
<1> QED BY <1>1, <1>2, <1>3, <1>4 DEF Next

(* The invariant holds of a new grabber.                                   *)
LEMMA SourcesInit == Init => SInv
<1> SUFFICES ASSUME Init PROVE SInv
  OBVIOUS
<1>1. CInv
  BY CallsInit
<1>2. SourcesOK
  BY DEF Init, StateInit, SourcesOK, OnlyCurrentRuns, RunsWhenStarted, CurrentGoesOn, StopsCurrent,
    JoinedSources, CallsFromCallback, StopInProgress, PastJoin, InStop, InRecycle, Threads
<1>3. LocksOK
  BY DEF Init, StateInit, LocksOK, LockOfRecycle, OwnerRecycles, LocksPassed, FillsStarted,
    EmptyUnlessStarted, HeldWhenStarted, Recycles, InRecycle
<1>4. DeviceOK
  BY DEF Init, StateInit, DriverInit, DeviceOK, StreamsWhenStarted, StartsFull, FreedAtRelease,
    InputBeforeFree, Stops, InStop, InRecycle
<1> QED BY <1>1, <1>2, <1>3, <1>4 DEF SInv

(* Every step keeps the invariant.                                         *)
LEMMA SourcesStep ==
  ASSUME Careful, SInv, [Next]_vars
  PROVE  SInv'
<1>1. CInv'
  BY OwnsAlone, CallsStep DEF SInv
<1>2. IInv'
  BY <1>1 DEF CInv
<1>3. SourcesOK'
  BY <1>2, OnlyCurrentRunsStep, RunsWhenStartedStep, CurrentGoesOnStep, StopsCurrentStep, JoinedSourcesStep,
    CallsFromCallbackStep, StopInProgressStep DEF SourcesOK
<1>4. LocksOK'
  BY <1>2, LockOfRecycleStep, OwnerRecyclesStep, LocksPassedStep, FillsStartedStep, EmptyUnlessStartedStep,
    HeldWhenStartedStep DEF LocksOK
<1>5. DeviceOK'
  BY <1>2, StreamsWhenStartedStep, StartsFullStep, FreedAtReleaseStep, InputBeforeFreeStep DEF DeviceOK
<1> QED BY <1>1, <1>3, <1>4, <1>5 DEF SInv

(* So it always holds.                                                     *)
LEMMA SourcesInvariance == Careful => (Spec => []SInv)
<1> SUFFICES ASSUME Careful PROVE Spec => []SInv
  OBVIOUS
<1>1. SInv /\ [Next]_vars => SInv'
  BY SourcesStep
<1> QED BY <1>1, SourcesInit, PTL DEF Spec

-----------------------------------------------------------------------------
(* After release() has freed the buffers no call makes a native call any   *)
(* more and no push thread is at one.                                      *)
THEOREM NativeCallsEndBeforeFree == Careful => (Spec => []NoNativeCallAfterFree)
<1> SUFFICES ASSUME Careful PROVE Spec => []NoNativeCallAfterFree
  OBVIOUS
<1>1. SInv => NoNativeCallAfterFree
  <2> SUFFICES ASSUME SInv, freed PROVE NoNativeCallAfterFree
    BY DEF NoNativeCallAfterFree
  <2>1. state # "STARTED" /\ temp = "RELEASED"
    BY DEF SInv, CInv, CallsPlaced, Placed, DeviceOK, FreedAtRelease
  <2>2. \A t \in Threads : pc[t] \notin {"start_native", "stop_native", "input_native"}
    BY <2>1 DEF SInv, CInv, CallsPlaced, Placed, Stops, InStart, InStop, DeviceOK, InputBeforeFree
  <2>3. \A t \in Threads : pc[t] # "recycle_enqueue"
    BY <2>1, SourcesFacts DEF SInv, CInv, CallsPlaced, Placed, Stops, InRecycle, LocksOK, LockOfRecycle,
      Recycles
  <2>4. \A t \in Threads : pc[t] # "release_native"
    BY OwnsAlone DEF SInv, CInv, CallsPlaced, Placed, InRelease, OneOwner, DeviceOK, FreedAtRelease
  <2>5. \A s \in Sources : run[s] # "fill"
    BY <2>1 DEF SInv, SourcesOK, RunsWhenStarted, Leaving, InCallback
  <2> QED BY <2>2, <2>3, <2>4, <2>5 DEF NoNativeCallAfterFree
<1> QED BY <1>1, SourcesInvariance, PTL

(* What stopCapture() leaves behind: nothing in the queue, a device that   *)
(* does not stream, nobody in getNextVideoFrame(), no recycle() on its way *)
(* into the queue.                                                         *)
THEOREM StoppedIsQuiet == Careful => (Spec => []QuietWhenStopped)
<1> SUFFICES ASSUME Careful PROVE Spec => []QuietWhenStopped
  OBVIOUS
<1>1. SInv => QuietWhenStopped
  <2> SUFFICES ASSUME SInv, state = "STOPPED", temp = "STOPPED" PROVE QuietWhenStopped
    BY DEF QuietWhenStopped
  <2>1. \A t \in Threads : pc[t] \notin InStart \ {"start_fill"}
    BY DEF SInv, CInv, CallsPlaced, Placed
  <2>2. available = <<>> /\ ~streaming
    BY <2>1 DEF SInv, LocksOK, EmptyUnlessStarted, DeviceOK, StreamsWhenStarted, InStart
  <2>3. Inside = {}
    BY <2>1 DEF SInv, SourcesOK, RunsWhenStarted, Leaving, InCallback, Launching, InStart, Inside, InGetNext
  <2>4. users = 0
    BY <2>3, FS_EmptySet DEF SInv, CInv, IInv, UsersCounted
  <2>5. \A t \in Threads : pc[t] \notin {"recycle_enqueue", "recycle_put", "recycle_done"}
    BY SourcesFacts DEF SInv, CInv, CallsPlaced, Placed, Stops, InRecycle, LocksOK, LockOfRecycle, Recycles
  <2> QED BY <2>2, <2>4, <2>5 DEF QuietWhenStopped
<1> QED BY <1>1, SourcesInvariance, PTL

(* A startCapture() that fails takes back "about to be started", when no   *)
(* push thread stops the capture itself: its source would refuse the next  *)
(* start while it is on its way out.                                       *)
THEOREM FailedStartsRollBack == Careful /\ Stoppers \subseteq Starters => (Spec => []FailedStartRollsBack)
<1> SUFFICES ASSUME Careful, Stoppers \subseteq Starters PROVE Spec => []FailedStartRollsBack
  OBVIOUS
<1>1. SInv /\ FailedStartRollsBack /\ [Next]_vars => FailedStartRollsBack'
  <2> SUFFICES ASSUME SInv, FailedStartRollsBack, [Next]_vars PROVE FailedStartRollsBack'
    OBVIOUS
  <2> USE SourcesFacts DEF FailedStartRollsBack, InStart, At, Goto, Step, stateVars
  <2>1. ASSUME NEW t \in Threads, Call(t) \/ CallStep(t) PROVE FailedStartRollsBack'
    <3>1. CASE StartSource(t)
      <4> USE DEF SInv, CInv
      <4>1. t \in Starters /\ state \in {"INIT", "STOPPED"} /\ \A u \in Threads : pc[u] \notin Launching
        BY <3>1, OwnsAlone DEF StartSource, CallsPlaced, Placed, OneOwner, Launching
      <4>2. \A s \in Sources : run[s] = "none"
        BY <4>1 DEF SourcesOK, RunsWhenStarted
      <4>3. pushSource # None => pushState[pushSource] = "STOPPED"
        BY <4>2, Types DEF IInv, SourceTypes, ThreadOfSource
      <4> QED BY <3>1, <4>1, <4>3 DEF StartSource, Rollback
    <3>2. CASE StartUndo(t)
      BY <3>2 DEF StartUndo, SourceStop, SourceInterrupt, SourceJoin, SInv, SourcesOK, CurrentGoesOn
    <3>3. CASE StopSource(t)
      BY <3>3 DEF StopSource, SourceStop, SourceInterrupt, SourceJoin
    <3>4. CASE StartFill(t) \/ StartCommit(t)
      BY <3>4 DEF StartFill, StartCommit, Commit, SInv, CInv, CallsPlaced, Placed, LocksOK, FillsStarted
    <3>5. CASE StartNative(t) \/ StartWait(t) \/ StartRollback(t) \/ StartCall(t)
      BY <3>5 DEF StartNative, StartWait, Passes, Waits, StartRollback, Rollback, StartCall, Request
    <3>6. CASE /\ pc[t] \notin InStart /\ \A u \in Threads \ {t} : pc'[u] = pc[u]
               /\ \/ UNCHANGED <<state, temp>>
                  \/ state' = temp /\ UNCHANGED temp
                  \/ temp' \in {"STOPPED", "RELEASED"} /\ UNCHANGED state
      BY <3>6
    <3> QED BY <2>1, <3>1, <3>2, <3>3, <3>4, <3>5, <3>6 DEF Call, CallStep, SetCaptureCallback,
        RecycleCall, EnterRecycle, StopCall, ReleaseCall, VideoInputCall, Free, Request, VideoInputNative,
        StopNative,
        StopUsers, Passes, Waits, StopRecycle, StopClear, StopCommit, Commit, ReleaseMark, ReleaseNative,
        ReleaseCommit, RecycleTemp, RecycleEnqueue, RecyclePut, RecycleDone, LeaveRecycle, callVars
  <2>2. ASSUME NEW s \in Sources, PushStep(s) \/ PushFill(s) PROVE FailedStartRollsBack'
    BY <2>2, PushKeepsCalls DEF callVars
  <2>3. CASE Open \/ UNCHANGED vars
    BY <2>3 DEF Open, vars, callVars
  <2> QED BY <2>1, <2>2, <2>3 DEF Next
<1>2. Init => FailedStartRollsBack
  BY DEF Init, StateInit, FailedStartRollsBack
<1> QED BY <1>1, <1>2, SourcesInvariance, PTL DEF Spec
=============================================================================
