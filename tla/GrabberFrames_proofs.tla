------------------------ MODULE GrabberFrames_proofs ------------------------
(***************************************************************************)
(* Frames and their buffers.  In the first part, that a frame is in one    *)
(* place; in the second, that a frame on its way to the application, with  *)
(* it or back has a buffer to itself; in the third, that every buffer the  *)
(* driver lacks has a frame outside the queue, so that a push thread which *)
(* took a frame from the queue finds a buffer at the driver.               *)
(***************************************************************************)
EXTENDS GrabberSources_proofs

(* t gives a frame back and has not passed it on yet. *)
Gives(t) == Recycles(t) /\ pc[t] # "recycle_done"

(* A push thread has a frame between taking it from the queue and handing  *)
(* it over.                                                                *)
FrameInHand == \A s \in Sources : cur[s] # None => run[s] \in {"fill", "deliver", "put"}

(* No frame is in the queue twice.                                         *)
QueueDistinct == \A i, j \in DOMAIN available : available[i] = available[j] => i = j

(* A frame the application holds is nowhere else, and not marked recycled. *)
HeldApart == \A f \in held :
  /\ ~InQueue(f) /\ ~recycled[f]
  /\ \A s \in Sources : cur[s] # f
  /\ \A t \in Threads : Recycles(t) => arg[t] # f

(* A frame a push thread has is not in the queue, and nobody is about to   *)
(* put it there; whoever did has left recycle() when the push thread has   *)
(* prepared the frame for delivery, which takes its lock.                  *)
HandApart == \A s \in Sources : cur[s] # None =>
  /\ ~InQueue(cur[s])
  /\ \A t \in Threads : Gives(t) => arg[t] # cur[s]
  /\ run[s] = "put" => ~recycled[cur[s]] /\ \A t \in Threads : Recycles(t) => arg[t] # cur[s]

(* A frame on its way back is not in the queue yet.                        *)
GivesApart == \A t \in Threads : Gives(t) => ~InQueue(arg[t])

(* The frames startCapture() has still to add are nowhere.                 *)
FillApart == \A t \in Threads : pc[t] = "start_fill" => \A f \in Frames : f >= pos[t] =>
  /\ ~InQueue(f) /\ f \notin held
  /\ \A s \in Sources : cur[s] # f
  /\ \A u \in Threads : Recycles(u) => arg[u] # f

(* Where frames are.                                                       *)
FramesOK == FrameInHand /\ QueueDistinct /\ HeldApart /\ HandApart /\ GivesApart /\ FillApart

(* The inductive invariant about frames.                                   *)
FInv == SInv /\ FramesOK

-----------------------------------------------------------------------------
(* The types the following proofs need.                                    *)
LEMMA FrameFacts ==
  ASSUME SInv
  PROVE  /\ available \in Seq(Frames) /\ held \subseteq Frames
         /\ recycled \in [Frames -> BOOLEAN] /\ bufferIndex \in [Frames -> Buffers]
         /\ lastIndex \in Buffers /\ queued \subseteq Buffers
         /\ \A t \in Threads : pc[t] = "start_fill" => pos[t] \in Frames
         /\ \A t \in Threads : pc[t] \in InRecycle => arg[t] \in Frames
         /\ \A s \in Sources : run[s] \in {"fill", "deliver", "put"} => cur[s] \in Frames
  BY Types DEF SInv, CInv, IInv, FrameTypes, DriverTypes, CallLocated, RunLocated

(* A step that leaves the queue alone.                                     *)
LEMMA QueueKept == UNCHANGED available => (\A f \in Frames : InQueue(f)' <=> InQueue(f))
  BY DEF InQueue

(* What put() and add() do to the queue.                                   *)
LEMMA QueueAppend ==
  ASSUME available \in Seq(Frames), NEW f \in Frames, available' = Append(available, f)
  PROVE  /\ \A g \in Frames : InQueue(g)' <=> InQueue(g) \/ g = f
         /\ QueueDistinct /\ ~InQueue(f) => QueueDistinct'
  BY DEF InQueue, QueueDistinct

(* What take() does to the queue.                                          *)
LEMMA QueueTake ==
  ASSUME available \in Seq(Frames), available # <<>>, QueueDistinct, available' = Tail(available)
  PROVE  /\ Head(available) \in Frames /\ InQueue(Head(available))
         /\ \A g \in Frames : InQueue(g)' <=> InQueue(g) /\ g # Head(available)
         /\ QueueDistinct'
<1> DEFINE n == Len(available)
<1>1. /\ n \in Nat /\ n >= 1 /\ DOMAIN available = 1 .. n /\ \A i \in 1 .. n : available[i] \in Frames
      /\ Head(available) = available[1]
  BY EmptySeq, LenProperties, ElementOfSeq
<1>2. /\ Len(available') = n - 1 /\ DOMAIN available' = 1 .. n - 1
      /\ \A i \in 1 .. n - 1 : available'[i] = available[i + 1]
  BY <1>1
<1>3. Head(available) \in Frames /\ InQueue(Head(available))
  BY <1>1 DEF InQueue
<1>4. QueueDistinct'
  BY <1>1, <1>2 DEF QueueDistinct
<1>5. ASSUME NEW g \in Frames PROVE InQueue(g)' <=> InQueue(g) /\ g # Head(available)
  <2>1. ASSUME InQueue(g)' PROVE InQueue(g) /\ g # Head(available)
    <3>1. PICK i \in 1 .. n - 1 : available'[i] = g
      BY <1>2, <2>1 DEF InQueue
    <3>2. i + 1 \in 1 .. n /\ available[i + 1] = g /\ i + 1 # 1
      BY <1>1, <1>2, <3>1
    <3> QED BY <1>1, <3>2 DEF InQueue, QueueDistinct
  <2>2. ASSUME InQueue(g), g # Head(available) PROVE InQueue(g)'
    <3>1. PICK i \in 1 .. n : available[i] = g
      BY <1>1, <2>2 DEF InQueue
    <3>2. i - 1 \in 1 .. n - 1 /\ available'[i - 1] = g
      BY <1>1, <1>2, <2>2, <3>1
    <3> QED BY <1>2, <3>2 DEF InQueue
  <2> QED BY <2>1, <2>2
<1> QED BY <1>3, <1>4, <1>5

(* One push thread lives at a time.                                        *)
LEMMA OneRuns ==
  ASSUME SInv, NEW s \in Sources, NEW u \in Sources, run[s] # "none", run[u] # "none"
  PROVE  s = u
  BY DEF SInv, SourcesOK, OnlyCurrentRuns

(* One thread at a time recycles a given frame.                            *)
LEMMA OneRecycles ==
  ASSUME SInv, NEW t \in Threads, NEW u \in Threads, Recycles(t), Recycles(u), arg[t] = arg[u]
  PROVE  t = u
  BY DEF SInv, LocksOK, LockOfRecycle, Recycles

(* Only the first step of a recycle() is ever made by the loop of stopCapture(). *)
LEMMA RecyclesItself ==
  ASSUME SInv, NEW t \in Threads, pc[t] \in {"recycle_enqueue", "recycle_put", "recycle_done"}
  PROVE  Recycles(t) /\ pos[t] = 0 /\ arg[t] \in Frames
  BY FrameFacts DEF SInv, CInv, CallsPlaced, Placed, Recycles, InRecycle

(* While the state is not STARTED no frame is anywhere. *)
LEMMA NothingOut ==
  ASSUME SInv, FrameInHand, state # "STARTED"
  PROVE  /\ available = <<>> /\ held = {} /\ \A t \in Threads : ~Recycles(t)
         /\ \A s \in Sources : run[s] \notin {"fill", "deliver", "put"} /\ cur[s] = None
  BY DEF SInv, LocksOK, EmptyUnlessStarted, HeldWhenStarted, LockOfRecycle, SourcesOK, RunsWhenStarted,
    Leaving,
    InCallback, FrameInHand

(***************************************************************************)
(* The steps that move a frame, one lemma each.                            *)
(***************************************************************************)
(* startCapture() commits: every frame is about to be made available, and  *)
(* none is anywhere else.                                                  *)
LEMMA CommitKeepsFrames ==
  ASSUME Careful, FInv, NEW t \in Threads, StartCommit(t)
  PROVE  FramesOK'
<1> USE SourcesFacts, FrameFacts DEF FInv, SInv, FramesOK
<1>1. /\ pc[t] = "start_commit" /\ pc' = [pc EXCEPT ![t] = "start_fill"] /\ pos' = [pos EXCEPT ![t] = 1]
      /\ UNCHANGED <<run, cur, arg, available, recycled, held>>
  BY DEF StartCommit, Step, At, Goto, sourceVars, frameVars
<1>2. state # "STARTED"
  BY <1>1 DEF CInv, CallsPlaced, Placed, InStart
<1>3. /\ available = <<>> /\ held = {} /\ \A u \in Threads : ~Recycles(u)
      /\ \A s \in Sources : cur[s] = None
  BY <1>2, NothingOut
<1>4. \A u \in Threads : ~Recycles(u)' /\ ~Gives(u)'
  BY <1>1, <1>3 DEF Recycles, Gives, InRecycle
<1>5. \A f \in Frames : ~InQueue(f)'
  BY <1>1, <1>3 DEF InQueue
<1> QED BY <1>1, <1>3, <1>4, <1>5, ThreadsAssumption DEF FrameInHand, QueueDistinct, HeldApart, HandApart,
     GivesApart, FillApart, Frames

(* A frame goes into the queue, by startCapture() or at the end of a       *)
(* recycle(): it was nowhere else.                                         *)
LEMMA FillKeepsFrames ==
  ASSUME Careful, FInv, NEW t \in Threads, StartFill(t)
  PROVE  FramesOK'
<1> USE SourcesFacts, FrameFacts DEF FInv, FramesOK
<1>1. /\ pc[t] = "start_fill" /\ pos[t] \in Frames /\ UNCHANGED <<run, cur, arg, recycled, held>>
      /\ \A u \in Threads \ {t} : pc'[u] = pc[u] /\ pos'[u] = pos[u]
      /\ pc'[t] \in {"start_fill", "idle"}
  BY DEF StartFill, At, Goto, sourceVars
<1>2. pc'[t] = "start_fill" => pos'[t] = pos[t] + 1
  BY <1>1, NumBuffersAssumption DEF StartFill, Goto, Frames
<1>3. /\ \A f \in Frames : InQueue(f)' => InQueue(f) \/ f = pos[t]
      /\ QueueDistinct'
  <2>1. ~InQueue(pos[t])
    BY <1>1 DEF FillApart, Frames
  <2>2. CASE available' = Append(available, pos[t])
    BY <1>1, <2>1, <2>2, QueueAppend
  <2>3. CASE UNCHANGED available
    BY <2>3, QueueKept DEF QueueDistinct
  <2> QED BY <2>2, <2>3 DEF StartFill
<1>4. \A u \in Threads : (Recycles(u)' <=> Recycles(u)) /\ (Gives(u)' <=> Gives(u))
  BY <1>1 DEF Recycles, Gives, InRecycle
<1>5. \A u \in Threads : pc[u] = "start_fill" => u = t
  BY <1>1, OwnsAlone DEF SInv, CInv, CallsPlaced, Placed, InStart, OneOwner
<1>6. /\ pos[t] \notin held /\ \A s \in Sources : cur[s] # pos[t]
      /\ \A u \in Threads : Recycles(u) => arg[u] # pos[t]
  BY <1>1 DEF FillApart, Frames
<1>7. FrameInHand' /\ HeldApart'
  BY <1>1, <1>3, <1>4, <1>6 DEF FrameInHand, HeldApart
<1>8. HandApart'
  BY <1>1, <1>3, <1>4, <1>6 DEF HandApart, FrameInHand
<1>9. GivesApart'
  BY <1>1, <1>3, <1>4, <1>6 DEF GivesApart, Gives, Recycles
<1>10. FillApart'
  <2> SUFFICES ASSUME pc'[t] = "start_fill" PROVE FillApart'
    BY <1>1, <1>5 DEF FillApart
  <2>1. \A f \in Frames : f >= pos'[t] => f >= pos[t] /\ f # pos[t]
    BY <1>1, <1>2 DEF Frames
  <2> QED BY <1>1, <1>3, <1>4, <1>5, <2>1 DEF FillApart
<1> QED BY <1>3, <1>7, <1>8, <1>9, <1>10

(* recycle() puts the frame into the queue, or is interrupted and loses    *)
(* it.                                                                     *)
LEMMA RecyclePutKeepsFrames ==
  ASSUME Careful, FInv, NEW t \in Threads, RecyclePut(t)
  PROVE  FramesOK'
<1> USE SourcesFacts, FrameFacts DEF FInv, FramesOK
<1>1. /\ pc[t] = "recycle_put" /\ UNCHANGED <<run, cur, pos, recycled, held>>
      /\ \A u \in Threads \ {t} : pc'[u] = pc[u] /\ arg'[u] = arg[u]
      /\ Recycles(t) /\ Gives(t) /\ arg[t] \in Frames /\ pos[t] = 0
  BY RecyclesItself DEF RecyclePut, At, Goto, LeaveRecycle, Gives
<1>2. \/ available' = Append(available, arg[t]) /\ pc'[t] = "recycle_done" /\ arg'[t] = arg[t]
      \/ UNCHANGED available /\ pc'[t] = "idle"
  BY <1>1 DEF RecyclePut, LeaveRecycle, Back, Goto
<1>3. /\ \A f \in Frames : InQueue(f)' => InQueue(f) \/ f = arg[t]
      /\ QueueDistinct'
  <2>1. ~InQueue(arg[t])
    BY <1>1 DEF GivesApart
  <2>2. CASE available' = Append(available, arg[t])
    BY <1>1, <2>1, <2>2, QueueAppend
  <2>3. CASE UNCHANGED available
    BY <2>3, QueueKept DEF QueueDistinct
  <2> QED BY <1>2, <2>2, <2>3
<1>4. \A u \in Threads :
        /\ Recycles(u)' => Recycles(u) /\ arg'[u] = arg[u]
        /\ Gives(u)' => Gives(u) /\ arg'[u] = arg[u] /\ u # t
  BY <1>1, <1>2 DEF Recycles, Gives, InRecycle
<1>5. FrameInHand' /\ HeldApart'
  BY <1>1, <1>3, <1>4 DEF FrameInHand, HeldApart
<1>6. HandApart'
  BY <1>1, <1>3, <1>4 DEF HandApart, FrameInHand
<1>7. GivesApart'
  BY <1>1, <1>3, <1>4, OneRecycles DEF GivesApart, Gives, Recycles
<1>8. FillApart'
  <2>1. \A u \in Threads : pc'[u] = "start_fill" => pc[u] = "start_fill"
    BY <1>1, <1>2
  <2> SUFFICES ASSUME NEW u \in Threads, pc[u] = "start_fill", NEW f \in Frames, f >= pos[u]
               PROVE  /\ ~InQueue(f)' /\ f \notin held /\ \A s \in Sources : cur[s] # f
                      /\ \A w \in Threads : Recycles(w)' => arg'[w] # f
    BY <1>1, <2>1 DEF FillApart
  <2>2. /\ ~InQueue(f) /\ f \notin held /\ \A s \in Sources : cur[s] # f
        /\ \A w \in Threads : Recycles(w) => arg[w] # f
    BY DEF FillApart
  <2> QED BY <1>1, <1>3, <1>4, <2>2
<1> QED BY <1>3, <1>5, <1>6, <1>7, <1>8

(* recycle() is called with a held frame. *)
LEMMA RecycleCallKeepsFrames ==
  ASSUME Careful, FInv, NEW t \in Threads, NEW f \in Frames, RecycleCall(t, f)
  PROVE  FramesOK'
<1> USE SourcesFacts, FrameFacts DEF FInv, FramesOK
<1>1. /\ pc[t] = "idle" /\ f \in held /\ held' = held \ {f} /\ UNCHANGED <<run, cur, pos, recycled, available>>
      /\ \A u \in Threads \ {t} : pc'[u] = pc[u] /\ arg'[u] = arg[u]
      /\ (pc'[t] \in {"recycle_temp", "recycle_enqueue"} /\ arg'[t] = f) \/ pc'[t] = "idle"
  BY DEF RecycleCall, Free, EnterRecycle, Goto, sourceVars
<1>2. \A u \in Threads :
        /\ Recycles(u)' => (Recycles(u) /\ arg'[u] = arg[u]) \/ arg'[u] = f
        /\ Gives(u)' => (Gives(u) /\ arg'[u] = arg[u]) \/ arg'[u] = f
  BY <1>1 DEF Recycles, Gives, InRecycle
<1>3. \A g \in Frames : InQueue(g)' <=> InQueue(g)
  BY <1>1, QueueKept
<1>4. FrameInHand' /\ QueueDistinct' /\ HeldApart'
  BY <1>1, <1>2, <1>3 DEF FrameInHand, QueueDistinct, HeldApart
<1>5. HandApart'
  BY <1>1, <1>2, <1>3 DEF HandApart, HeldApart, FrameInHand
<1>6. GivesApart'
  BY <1>1, <1>2, <1>3 DEF GivesApart, HeldApart, Gives, Recycles
<1>7. FillApart'
  <2>1. \A u \in Threads : pc'[u] = "start_fill" => pc[u] = "start_fill" /\ pos'[u] = pos[u]
    BY <1>1
  <2> SUFFICES ASSUME NEW u \in Threads, pc[u] = "start_fill", NEW g \in Frames, g >= pos[u]
               PROVE  /\ ~InQueue(g)' /\ g \notin held' /\ \A s \in Sources : cur'[s] # g
                      /\ \A w \in Threads : Recycles(w)' => arg'[w] # g
    BY <2>1 DEF FillApart
  <2>2. /\ ~InQueue(g) /\ g \notin held /\ \A s \in Sources : cur[s] # g
        /\ \A w \in Threads : Recycles(w) => arg[w] # g
    BY DEF FillApart
  <2> QED BY <1>1, <1>2, <1>3, <2>2
<1> QED BY <1>4, <1>5, <1>6, <1>7

(* The push thread takes the first frame of the queue ...                  *)
LEMMA AvailKeepsFrames ==
  ASSUME Careful, FInv, NEW s \in Sources, PushAvail(s)
  PROVE  FramesOK'
<1> USE SourcesFacts, FrameFacts DEF FInv, FramesOK
<1>1. /\ run[s] = "avail" /\ UNCHANGED <<pc, pos, arg, recycled, held>>
      /\ \A u \in Threads : (Recycles(u)' <=> Recycles(u)) /\ (Gives(u)' <=> Gives(u))
  BY DEF PushAvail, RunFrom, callVars, Recycles, Gives
<1>2. CASE UNCHANGED <<cur, available>> /\ run' = [run EXCEPT ![s] = "put_throws"]
  <2>1. \A g \in Frames : InQueue(g)' <=> InQueue(g)
    BY <1>2, QueueKept
  <2>2. FrameInHand' /\ QueueDistinct' /\ HeldApart' /\ FillApart'
    BY <1>1, <1>2, <2>1 DEF FrameInHand, QueueDistinct, HeldApart, FillApart
  <2>3. HandApart' /\ GivesApart'
    BY <1>1, <1>2, <2>1 DEF FrameInHand, HandApart, GivesApart, Gives, Recycles
  <2> QED BY <2>2, <2>3
<1>3. CASE /\ available # <<>> /\ cur' = [cur EXCEPT ![s] = Head(available)]
           /\ available' = Tail(available) /\ run' = [run EXCEPT ![s] = "fill"]
  <2>1. /\ Head(available) \in Frames /\ InQueue(Head(available)) /\ QueueDistinct'
        /\ \A g \in Frames : InQueue(g)' <=> InQueue(g) /\ g # Head(available)
    BY <1>3, QueueTake
  <2>2. FrameInHand' /\ HeldApart'
    BY <1>1, <1>3, <2>1 DEF FrameInHand, HeldApart
  <2>3. FillApart'
    BY <1>1, <1>3, <2>1 DEF FillApart
  <2>4. HandApart'
    BY <1>1, <1>3, <2>1 DEF FrameInHand, HandApart, GivesApart
  <2>5. GivesApart'
    BY <1>1, <1>3, <2>1 DEF GivesApart, Gives, Recycles
  <2> QED BY <2>1, <2>2, <2>3, <2>4, <2>5
<1> QED BY <1>2, <1>3 DEF PushAvail, RunFrom

(* ... waits for the end of a recycle() of the same object ...             *)
LEMMA DeliverKeepsFrames ==
  ASSUME Careful, FInv, NEW s \in Sources, PushDeliver(s)
  PROVE  FramesOK'
<1> USE SourcesFacts, FrameFacts DEF FInv, FramesOK
<1>1. /\ run[s] = "deliver" /\ run' = [run EXCEPT ![s] = "put"] /\ lock[cur[s]] = None /\ cur[s] \in Frames
      /\ recycled' = [recycled EXCEPT ![cur[s]] = FALSE] /\ UNCHANGED <<pc, pos, arg, held, cur, available>>
      /\ \A u \in Threads : (Recycles(u)' <=> Recycles(u)) /\ (Gives(u)' <=> Gives(u))
  BY DEF PushDeliver, RunFrom, callVars, Recycles, Gives
<1>2. \A g \in Frames : InQueue(g)' <=> InQueue(g)
  BY <1>1, QueueKept
<1>3. \A u \in Threads : Recycles(u) => arg[u] # cur[s]
  BY <1>1 DEF SInv, LocksOK, LockOfRecycle, Recycles
<1>4. FrameInHand' /\ QueueDistinct' /\ HeldApart' /\ FillApart'
  BY <1>1, <1>2 DEF FrameInHand, QueueDistinct, HeldApart, FillApart
<1>5. HandApart' /\ GivesApart'
  BY <1>1, <1>2, <1>3 DEF FrameInHand, HandApart, GivesApart, Gives, Recycles
<1> QED BY <1>4, <1>5

(* ... and hands it to the application, or drops it.                       *)
LEMMA PutKeepsFrames ==
  ASSUME Careful, FInv, NEW s \in Sources, PushPut(s)
  PROVE  FramesOK'
<1> USE SourcesFacts, FrameFacts DEF FInv, FramesOK
<1>1. /\ run[s] = "put" /\ cur[s] \in Frames /\ cur' = [cur EXCEPT ![s] = None]
      /\ UNCHANGED <<pc, pos, arg, recycled, available>> /\ held' \in {held, held \cup {cur[s]}}
      /\ \E l \in {"nextFrame", "caught"} : run' = [run EXCEPT ![s] = l]
      /\ \A u \in Threads : (Recycles(u)' <=> Recycles(u)) /\ (Gives(u)' <=> Gives(u))
  BY DEF PushPut, RunFrom, callVars, Recycles, Gives
<1>2. \A g \in Frames : InQueue(g)' <=> InQueue(g)
  BY <1>1, QueueKept
<1>3. cur[s] # None /\ \A u \in Sources : u # s => cur[u] # cur[s]
  BY <1>1, OneRuns, ThreadsAssumption DEF FrameInHand, Frames
<1>4. FrameInHand' /\ QueueDistinct' /\ GivesApart'
  BY <1>1, <1>2 DEF FrameInHand, QueueDistinct, GivesApart, Gives, Recycles
<1>5. HeldApart'
  BY <1>1, <1>2, <1>3, ThreadsAssumption DEF HeldApart, HandApart, Frames
<1>6. HandApart'
  BY <1>1, <1>2 DEF HandApart, FrameInHand
<1>7. FillApart'
  BY <1>1, <1>2, <1>3, ThreadsAssumption DEF FillApart, Frames
<1> QED BY <1>4, <1>5, <1>6, <1>7

(* stopCapture() empties the queue. *)
LEMMA ClearKeepsFrames ==
  ASSUME Careful, FInv, NEW t \in Threads, StopClear(t)
  PROVE  FramesOK'
<1> USE SourcesFacts, FrameFacts DEF FInv, FramesOK
<1>1. /\ available' = <<>> /\ UNCHANGED <<run, cur, arg, pos, recycled, held>>
      /\ pc[t] = "stop_clear" /\ pc' = [pc EXCEPT ![t] = "stop_commit"]
  BY DEF StopClear, Step, At, Goto, sourceVars
<1>2. \A f \in Frames : ~InQueue(f)'
  BY <1>1 DEF InQueue
<1>3. \A u \in Threads : (Recycles(u)' <=> Recycles(u)) /\ (Gives(u)' <=> Gives(u))
  BY <1>1 DEF Recycles, Gives, InRecycle
<1>4. FrameInHand' /\ QueueDistinct' /\ HeldApart' /\ FillApart'
  BY <1>1, <1>2, <1>3 DEF FrameInHand, QueueDistinct, HeldApart, FillApart
<1>5. HandApart' /\ GivesApart'
  BY <1>1, <1>2, <1>3 DEF FrameInHand, HandApart, GivesApart, Gives, Recycles
<1> QED BY <1>4, <1>5

(* A recycle() that ends marks its frame, which nobody else uses. *)
LEMMA RecycleDoneKeepsFrames ==
  ASSUME Careful, FInv, NEW t \in Threads, RecycleDone(t) \/ RecycleTemp(t) \/ RecycleEnqueue(t)
  PROVE  FramesOK'
<1> USE SourcesFacts, FrameFacts DEF FInv, FramesOK
<1>1. /\ UNCHANGED <<run, cur, pos, held, available>> /\ pc[t] \in InRecycle /\ arg[t] \in Frames
      /\ \A u \in Threads \ {t} : pc'[u] = pc[u] /\ arg'[u] = arg[u]
  BY DEF RecycleDone, RecycleTemp, RecycleEnqueue, Step, At, Goto, LeaveRecycle, sourceVars, frameVars,
    InRecycle
<1>2. \A u \in Threads :
        /\ Recycles(u)' => Recycles(u) /\ arg'[u] = arg[u]
        /\ Gives(u)' => Gives(u) /\ arg'[u] = arg[u]
  BY <1>1 DEF RecycleDone, RecycleTemp, RecycleEnqueue, Step, At, Goto, LeaveRecycle, Back, Recycles, Gives,
    InRecycle
<1>3. /\ pc'[t] = "start_fill" => FALSE
      /\ UNCHANGED recycled \/ (Recycles(t) /\ \A g \in Frames : g # arg[t] => recycled'[g] = recycled[g])
  BY <1>1, RecyclesItself DEF RecycleDone, RecycleTemp, RecycleEnqueue, Step, At, Goto, LeaveRecycle, Back,
    frameVars
<1>4. \A g \in Frames : InQueue(g)' <=> InQueue(g)
  BY <1>1, QueueKept
<1>5. FrameInHand' /\ QueueDistinct' /\ HeldApart'
  BY <1>1, <1>2, <1>3, <1>4 DEF FrameInHand, QueueDistinct, HeldApart
<1>6. HandApart'
  BY <1>1, <1>2, <1>3, <1>4 DEF HandApart, FrameInHand
<1>7. GivesApart'
  BY <1>1, <1>2, <1>4 DEF GivesApart, Gives, Recycles
<1>8. FillApart'
  BY <1>1, <1>2, <1>3, <1>4 DEF FillApart
<1> QED BY <1>5, <1>6, <1>7, <1>8

(* Every other step moves no frame: it may only drop one.                  *)
LEMMA NoFrameMoves ==
  ASSUME FInv, UNCHANGED <<available, recycled>>, held' \subseteq held,
         \A s \in Sources : cur'[s] # None =>
           /\ cur'[s] = cur[s] /\ run'[s] \in {"fill", "deliver", "put"}
           /\ run'[s] = "put" => run[s] = "put",
         \A u \in Threads :
           /\ Recycles(u)' => Recycles(u) /\ arg'[u] = arg[u]
           /\ Gives(u)' => Gives(u) /\ arg'[u] = arg[u]
           /\ pc'[u] = "start_fill" => pc[u] = "start_fill" /\ pos'[u] = pos[u]
  PROVE  FramesOK'
<1> USE FrameFacts, QueueKept DEF FInv, FramesOK
<1>1. FrameInHand' /\ QueueDistinct'
  BY DEF FrameInHand, QueueDistinct
<1>2. HeldApart'
  BY ThreadsAssumption DEF HeldApart, Frames
<1>3. HandApart'
  <2> SUFFICES ASSUME NEW s \in Sources, cur'[s] # None
               PROVE  /\ (~InQueue(cur[s]))' /\ \A t \in Threads : Gives(t)' => arg'[t] # cur'[s]
                      /\ run'[s] = "put" => ~recycled'[cur'[s]] /\ \A t \in Threads : Recycles(t)' => arg'[t] # cur'[s]
    BY DEF HandApart
  <2>1. cur'[s] = cur[s] /\ cur[s] # None /\ cur[s] \in Frames
    BY SourcesFacts
  <2>2. /\ ~InQueue(cur[s]) /\ \A t \in Threads : Gives(t) => arg[t] # cur[s]
        /\ run[s] = "put" => ~recycled[cur[s]] /\ \A t \in Threads : Recycles(t) => arg[t] # cur[s]
    BY <2>1 DEF HandApart
  <2> QED BY <2>1, <2>2 DEF InQueue
<1>4. GivesApart'
  BY DEF GivesApart, Gives, Recycles
<1>5. FillApart'
  BY ThreadsAssumption DEF FillApart, Frames
<1> QED BY <1>1, <1>2, <1>3, <1>4, <1>5

(* Every step keeps frames apart.                                          *)
LEMMA FramesStep ==
  ASSUME Careful, FInv, [Next]_vars
  PROVE  FramesOK'
<1> USE SourcesFacts, ThreadsAssumption DEF FInv, Recycles, Gives, InRecycle, At, Goto, Step, RunFrom,
    stateVars, sourceVars, frameVars, callVars
<1>0. FrameInHand /\ \A s \in Sources : cur[s] # None => run[s] \in {"fill", "deliver", "put"}
  BY DEF FramesOK, FrameInHand
<1>1. ASSUME NEW t \in Threads, Call(t) \/ CallStep(t) PROVE FramesOK'
  <2>1. ASSUME NEW s \in Sources, SetCaptureCallback(t, s) PROVE FramesOK'
    BY <1>0, <2>1, NoFrameMoves DEF SetCaptureCallback, IsStarted, NotReleased, Free
  <2>2. ASSUME NEW f \in Frames, RecycleCall(t, f) PROVE FramesOK'
    BY <2>2, RecycleCallKeepsFrames
  <2>3. CASE StartCall(t)
    BY <1>0, <2>3, NoFrameMoves DEF StartCall, MayStart, Request, Free
  <2>4. CASE StopCall(t)
    BY <1>0, <2>4, NoFrameMoves DEF StopCall, MayStop, Request, Free
  <2>5. CASE ReleaseCall(t)
    BY <1>0, <2>5, NoFrameMoves DEF ReleaseCall, MayStop, Request, Free
  <2>6. CASE VideoInputCall(t)
    BY <1>0, <2>6, NoFrameMoves DEF VideoInputCall, Free, NotReleased
  <2>7. CASE VideoInputNative(t)
    BY <1>0, <2>7, NoFrameMoves DEF VideoInputNative
  <2>8. CASE StartSource(t)
    <3>1. /\ UNCHANGED <<available, recycled, held, cur, arg, pos>> /\ \A u \in Threads \ {t} : pc'[u] = pc[u]
          /\ pc[t] = "start_source" /\ pc'[t] \in {"idle", "start_wait"}
      BY <2>8 DEF StartSource
    <3>2. \A s \in Sources : run[s] # "none" => run'[s] = run[s]
      BY <2>8 DEF StartSource, SInv, CInv, IInv, ThreadOfSource
    <3> QED BY <1>0, <3>1, <3>2, NoFrameMoves
  <2>9. CASE StartWait(t)
    BY <1>0, <2>9, NoFrameMoves DEF StartWait, Passes, Waits
  <2>10. CASE StartNative(t)
    BY <1>0, <2>10, NoFrameMoves DEF StartNative, StartCapture, StartCaptureFails
  <2>11. CASE StartCommit(t)
    BY <2>11, CommitKeepsFrames
  <2>12. CASE StartFill(t)
    BY <2>12, FillKeepsFrames
  <2>13. CASE SourceStop(t, "undo_source", "undo_interrupt", "undo_rollback")
    BY <1>0, <2>13, NoFrameMoves DEF SourceStop
  <2>14. CASE SourceInterrupt(t, "undo_interrupt", "undo_join")
    BY <1>0, <2>14, NoFrameMoves DEF SourceInterrupt
  <2>15. CASE SourceJoin(t, "undo_join", "undo_rollback")
    BY <1>0, <2>15, NoFrameMoves DEF SourceJoin, Interrupted, ClearInterrupt
  <2>16. CASE StartRollback(t)
    BY <1>0, <2>16, NoFrameMoves DEF StartRollback, Rollback
  <2>17. CASE SourceStop(t, "stop_source", "stop_interrupt", "stop_native")
    BY <1>0, <2>17, NoFrameMoves DEF SourceStop
  <2>18. CASE SourceInterrupt(t, "stop_interrupt", "stop_join")
    BY <1>0, <2>18, NoFrameMoves DEF SourceInterrupt
  <2>19. CASE SourceJoin(t, "stop_join", "stop_native")
    BY <1>0, <2>19, NoFrameMoves DEF SourceJoin, Interrupted, ClearInterrupt
  <2>20. CASE StopNative(t)
    BY <1>0, <2>20, NoFrameMoves DEF StopNative, StopCapture
  <2>21. CASE StopUsers(t)
    BY <1>0, <2>21, NoFrameMoves DEF StopUsers, Passes, Waits, Interrupted, ClearInterrupt
  <2>22. CASE StopRecycle(t)
    BY <1>0, <2>22, NoFrameMoves DEF StopRecycle, EnterRecycle, IsStarted, NotReleased
  <2>23. CASE StopClear(t)
    BY <2>23, ClearKeepsFrames
  <2>24. CASE StopCommit(t)
    <3>1. /\ UNCHANGED <<available, recycled, cur, run, arg, pos>> /\ held' = {}
          /\ \A u \in Threads \ {t} : pc'[u] = pc[u]
          /\ pc[t] = "stop_commit" /\ pc'[t] \in {"idle", "release_mark"}
      BY <2>24 DEF StopCommit, Careful
    <3> QED BY <1>0, <3>1, NoFrameMoves
  <2>25. CASE ReleaseMark(t)
    BY <1>0, <2>25, NoFrameMoves DEF ReleaseMark, MayRelease, Request
  <2>26. CASE ReleaseNative(t)
    BY <1>0, <2>26, NoFrameMoves DEF ReleaseNative, FreeCapture
  <2>27. CASE ReleaseCommit(t)
    BY <1>0, <2>27, NoFrameMoves DEF ReleaseCommit, Commit
  <2>28. CASE RecycleTemp(t)
    BY <2>28, RecycleDoneKeepsFrames
  <2>29. CASE RecycleEnqueue(t)
    BY <2>29, RecycleDoneKeepsFrames
  <2>30. CASE RecyclePut(t)
    BY <2>30, RecyclePutKeepsFrames
  <2>31. CASE RecycleDone(t)
    BY <2>31, RecycleDoneKeepsFrames
  <2> QED BY <1>1, <2>1, <2>2, <2>3, <2>4, <2>5, <2>6, <2>7, <2>8, <2>9, <2>10, <2>11, <2>12, <2>13, <2>14,
    <2>15, <2>16, <2>17, <2>18, <2>19, <2>20, <2>21, <2>22, <2>23, <2>24, <2>25, <2>26, <2>27, <2>28, <2>29,
    <2>30, <2>31, Zenon DEF Call, CallStep, StartUndo, StopSource
<1>2. ASSUME NEW s \in Sources, PushStep(s) \/ PushFill(s) PROVE FramesOK'
  <2>1. CASE PushLoop(s)
    BY <1>0, <2>1, NoFrameMoves DEF PushLoop, ClearInterrupt
  <2>2. CASE PushGet(s)
    BY <1>0, <2>2, NoFrameMoves DEF PushGet, GetUser
  <2>3. CASE PushAvail(s)
    BY <2>3, AvailKeepsFrames
  <2>4. CASE PushFrameFails(s)
    BY <1>0, <2>4, NoFrameMoves DEF PushFrameFails
  <2>5. CASE PushDeliver(s)
    BY <2>5, DeliverKeepsFrames
  <2>6. CASE PushPut(s)
    BY <2>6, PutKeepsFrames
  <2>7. CASE PushPutThrows(s)
    BY <1>0, <2>7, NoFrameMoves DEF PushPutThrows, PutUser
  <2>8. CASE PushReturn(s)
    BY <1>0, <2>8, NoFrameMoves DEF PushReturn
  <2>9. CASE PushCaught(s)
    BY <1>0, <2>9, NoFrameMoves DEF PushCaught, IsStarted, NotReleased
  <2>10. CASE PushExceptionDone(s)
    BY <1>0, <2>10, NoFrameMoves DEF PushExceptionDone
  <2>11. CASE PushExit(s)
    BY <1>0, <2>11, NoFrameMoves DEF PushExit
  <2>12. CASE PushFill(s)
    BY <1>0, <2>12, NoFrameMoves DEF PushFill, Dequeue
  <2> QED BY <1>2, <2>1, <2>2, <2>3, <2>4, <2>5, <2>6, <2>7, <2>8, <2>9, <2>10, <2>11, <2>12, Zenon DEF
    PushStep
<1>3. CASE Open
  BY <1>0, <1>3, NoFrameMoves DEF Open
<1>4. CASE UNCHANGED vars
  BY <1>0, <1>4, NoFrameMoves DEF vars
<1> QED BY <1>1, <1>2, <1>3, <1>4 DEF Next

(* The invariant holds of a new grabber.                                   *)
LEMMA FramesInit == Init => FInv
<1> SUFFICES ASSUME Init PROVE FInv
  OBVIOUS
<1>1. SInv
  BY SourcesInit
<1>2. FramesOK
  BY DEF Init, FramesOK, FrameInHand, QueueDistinct, HeldApart, HandApart, GivesApart, FillApart, Gives,
    Recycles, InRecycle
<1> QED BY <1>1, <1>2 DEF FInv

(* So it always holds.                                                     *)
LEMMA FramesInvariance == Careful => (Spec => []FInv)
<1> SUFFICES ASSUME Careful PROVE Spec => []FInv
  OBVIOUS
<1>1. FInv /\ [Next]_vars => FInv'
  BY SourcesStep, FramesStep DEF FInv
<1> QED BY <1>1, FramesInit, PTL DEF Spec

-----------------------------------------------------------------------------
(* A VideoFrame object is never in the queue twice, nor in the queue or    *)
(* with a push thread while the application holds it, whatever recycle()   *)
(* calls and deliveries overlap.                                           *)
THEOREM FramesHaveOneUser == Careful => (Spec => []FrameHasOneUser)
<1> SUFFICES ASSUME Careful PROVE Spec => []FrameHasOneUser
  OBVIOUS
<1>1. FInv => FrameHasOneUser
  BY DEF FInv, FramesOK, QueueDistinct, HeldApart, HandApart, FrameHasOneUser
<1> QED BY <1>1, FramesInvariance, PTL

-----------------------------------------------------------------------------

(* f is on its way to the application, with it, or given back by it before *)
(* its buffer is with the driver again: bufferIndex[f] is a buffer of f's. *)
Carries(f) ==
  \/ f \in held
  \/ \E t \in Threads : Recycles(t) /\ pc[t] \in {"recycle_temp", "recycle_enqueue"} /\ arg[t] = f
  \/ \E s \in Sources : run[s] = "put" /\ cur[s] = f

(* The driver does not have the buffer of such a frame,                    *)
CarriedOut == \A f \in Frames : Carries(f) => bufferIndex[f] \notin queued

(* nor does another such frame.                                            *)
CarriedOnce == \A f, g \in Frames : Carries(f) /\ Carries(g) /\ bufferIndex[f] = bufferIndex[g] => f = g

(* The buffer a push thread has just dequeued is not that of a frame that carries one. *)
DequeuedApart == \A s \in Sources : run[s] = "deliver" =>
  lastIndex \notin queued /\ \A f \in Frames : Carries(f) => bufferIndex[f] # lastIndex

(* f stands for a buffer the driver does not have.  A frame the code lost  *)
(* is also away.                                                           *)
Away(f) ==
  /\ ~InQueue(f)
  /\ \A s \in Sources : cur[s] = f => run[s] = "put"
  /\ \A t \in Threads : pc[t] = "start_fill" => f < pos[t]
  /\ \A t \in Threads : Recycles(t) /\ arg[t] = f => pc[t] \in {"recycle_temp", "recycle_enqueue"}

(* The frame about to be delivered stands for the buffer just dequeued, a  *)
(* frame that carries a buffer for that one, a lost frame for any.         *)
StandsFor(f, b) ==
  \/ \E s \in Sources : run[s] = "deliver" /\ cur[s] = f /\ lastIndex = b
  \/ Away(f) /\ (Carries(f) => bufferIndex[f] = b)

(* Every buffer the driver misses has a frame of its own outside the queue. *)
MissingAway == streaming =>
  \E h \in Injection(Buffers \ queued, Frames) : \A b \in Buffers \ queued : StandsFor(h[b], b)

(* Buffers on their way to the application, with it, and back.             *)
CarriedOK == CarriedOut /\ CarriedOnce /\ DequeuedApart

(* The inductive invariant about buffers.                                  *)
BInv == FInv /\ CarriedOK /\ MissingAway

-----------------------------------------------------------------------------
(* Most steps give no frame a buffer and give none to the driver.          *)
LEMMA CarriedKept ==
  ASSUME FInv, CarriedOK, UNCHANGED <<bufferIndex, lastIndex>>, queued' \subseteq queued,
         \A s \in Sources : run'[s] = "deliver" => run[s] = "deliver",
         \A s \in Sources : run'[s] = "put" => run[s] = "put" /\ cur'[s] = cur[s],
         \A u \in Threads : Recycles(u)' /\ pc'[u] \in {"recycle_temp", "recycle_enqueue"} =>
           Recycles(u) /\ pc[u] \in {"recycle_temp", "recycle_enqueue"} /\ arg'[u] = arg[u],
         held' \subseteq held
  PROVE  CarriedOK'
<1>1. \A f \in Frames : Carries(f)' => Carries(f)
  BY DEF Carries
<1>2. CarriedOut'
  BY <1>1 DEF CarriedOK, CarriedOut
<1>3. CarriedOnce'
  BY <1>1 DEF CarriedOK, CarriedOnce
<1>4. DequeuedApart'
  BY <1>1 DEF CarriedOK, DequeuedApart
<1> QED BY <1>2, <1>3, <1>4 DEF CarriedOK

(* The same for steps that move frames.                                    *)
LEMMA CarriedKeptFrom ==
  ASSUME FInv, CarriedOK, UNCHANGED <<bufferIndex, lastIndex, queued>>,
         \A s \in Sources : run'[s] = "deliver" => run[s] = "deliver",
         \A f \in Frames : Carries(f)' => Carries(f)
  PROVE  CarriedOK'
<1>2. CarriedOut'
  BY DEF CarriedOK, CarriedOut
<1>3. CarriedOnce'
  BY DEF CarriedOK, CarriedOnce
<1>4. DequeuedApart'
  BY DEF CarriedOK, DequeuedApart
<1> QED BY <1>2, <1>3, <1>4 DEF CarriedOK

(* The driver hands out a buffer it had: no frame carries it. *)
LEMMA FillKeepsCarried ==
  ASSUME FInv, CarriedOK, NEW s \in Sources, PushFill(s)
  PROVE  CarriedOK'
<1> USE SourcesFacts, FrameFacts DEF FInv
<1>1. PICK b \in Buffers : b \in queued /\ queued' = queued \ {b} /\ lastIndex' = b
  BY DEF PushFill, Dequeue
<1>2. /\ run[s] = "fill" /\ run' = [run EXCEPT ![s] = "deliver"]
      /\ UNCHANGED <<bufferIndex, cur, held, pc, arg, pos>>
  BY DEF PushFill, RunFrom, callVars
<1>3. \A f \in Frames : Carries(f)' => Carries(f)
  BY <1>2 DEF Carries, Recycles
<1>4. CarriedOut' /\ CarriedOnce'
  BY <1>1, <1>2, <1>3 DEF CarriedOK, CarriedOut, CarriedOnce
<1>5. DequeuedApart'
  BY <1>1, <1>2, <1>3 DEF CarriedOK, CarriedOut, DequeuedApart
<1> QED BY <1>4, <1>5 DEF CarriedOK

(* The frame that is about to be delivered gets the buffer just dequeued. *)
LEMMA DeliverKeepsCarried ==
  ASSUME FInv, CarriedOK, NEW s \in Sources, PushDeliver(s)
  PROVE  CarriedOK'
<1> USE SourcesFacts, FrameFacts DEF FInv
<1>1. /\ run[s] = "deliver" /\ run' = [run EXCEPT ![s] = "put"] /\ cur[s] \in Frames
      /\ bufferIndex' = [bufferIndex EXCEPT ![cur[s]] = lastIndex]
      /\ UNCHANGED <<lastIndex, queued, cur, held, pc, arg, pos>>
  BY DEF PushDeliver, RunFrom, callVars, driverVars
<1>2. \A f \in Frames : Carries(f)' => Carries(f) \/ f = cur[s]
  BY <1>1 DEF Carries, Recycles
<1>3. lastIndex \notin queued /\ \A f \in Frames : Carries(f) => bufferIndex[f] # lastIndex
  BY <1>1 DEF CarriedOK, DequeuedApart
<1>4. CarriedOut'
  BY <1>1, <1>2, <1>3 DEF CarriedOK, CarriedOut
<1>5. CarriedOnce'
  BY <1>1, <1>2, <1>3 DEF CarriedOK, CarriedOnce
<1>6. \A u \in Sources : run'[u] # "deliver"
  BY <1>1, OneRuns
<1>7. DequeuedApart'
  BY <1>6 DEF DequeuedApart
<1> QED BY <1>4, <1>5, <1>7 DEF CarriedOK

(* recycle() gives back the buffer of its frame, and that frame only.      *)
LEMMA EnqueueKeepsCarried ==
  ASSUME FInv, CarriedOK, NEW t \in Threads, RecycleEnqueue(t)
  PROVE  CarriedOK'
<1> USE SourcesFacts, FrameFacts DEF FInv, InRecycle
<1>1. /\ pc[t] = "recycle_enqueue" /\ pc' = [pc EXCEPT ![t] = "recycle_put"]
      /\ queued' = queued \cup {bufferIndex[arg[t]]}
      /\ UNCHANGED <<bufferIndex, lastIndex, cur, run, held, arg, pos>>
  BY DEF RecycleEnqueue, Enqueue, Step, At, Goto, sourceVars, frameVars
<1>2. Recycles(t) /\ arg[t] \in Frames /\ Carries(arg[t])
  BY <1>1, RecyclesItself DEF Carries
<1>3. \A f \in Frames : Carries(f)' => Carries(f) /\ f # arg[t]
  <2>1. arg[t] \notin held /\ \A s \in Sources : run[s] = "put" => cur[s] # arg[t]
    BY <1>1, <1>2, ThreadsAssumption DEF FramesOK, HeldApart, HandApart, Frames
  <2> QED BY <1>1, <1>2, <2>1, OneRecycles DEF Carries, Recycles
<1>4. CarriedOut'
  BY <1>1, <1>2, <1>3 DEF CarriedOK, CarriedOut, CarriedOnce
<1>5. CarriedOnce'
  BY <1>1, <1>3 DEF CarriedOK, CarriedOnce
<1>6. DequeuedApart'
  BY <1>1, <1>2, <1>3 DEF CarriedOK, DequeuedApart
<1> QED BY <1>4, <1>5, <1>6 DEF CarriedOK

(* startCapture() gives all buffers to the driver: no frame carries one.   *)
LEMMA StartKeepsCarried ==
  ASSUME FInv, CarriedOK, NEW t \in Threads, StartNative(t)
  PROVE  CarriedOK'
<1> USE SourcesFacts DEF FInv
<1>1. /\ pc[t] = "start_native" /\ pc'[t] \in {"start_commit", "undo_source"}
      /\ \A u \in Threads \ {t} : pc'[u] = pc[u]
      /\ UNCHANGED <<cur, run, held, arg, pos>>
  BY DEF StartNative, At, Goto, sourceVars, frameVars
<1>2. state # "STARTED"
  BY <1>1 DEF SInv, CInv, CallsPlaced, Placed, InStart
<1>3. /\ held = {} /\ \A u \in Threads : ~Recycles(u)
      /\ \A s \in Sources : run[s] \notin {"fill", "deliver", "put"}
  BY <1>2, NothingOut DEF FramesOK
<1>4. \A f \in Frames : ~Carries(f)'
  BY <1>1, <1>3 DEF Carries, Recycles, InRecycle
<1> QED BY <1>1, <1>3, <1>4 DEF CarriedOK, CarriedOut, CarriedOnce, DequeuedApart

(* The application takes a frame, or gives it back: it carries its buffer  *)
(* before and after.                                                       *)
LEMMA HandOverKeepsCarried ==
  ASSUME FInv, CarriedOK,
         \/ \E s \in Sources : PushPut(s)
         \/ \E t \in Threads, f \in Frames : RecycleCall(t, f)
  PROVE  CarriedOK'
<1> USE SourcesFacts, FrameFacts DEF FInv
<1>1. CASE \E s \in Sources : PushPut(s)
  <2>1. PICK s \in Sources : PushPut(s)
    BY <1>1
  <2>2. /\ run[s] = "put" /\ cur' = [cur EXCEPT ![s] = None]
        /\ UNCHANGED <<bufferIndex, lastIndex, queued, pc, arg, pos>> /\ held' \in {held, held \cup {cur[s]}}
        /\ \E l \in {"nextFrame", "caught"} : run' = [run EXCEPT ![s] = l]
    BY <2>1 DEF PushPut, RunFrom, callVars, driverVars
  <2>3. \A f \in Frames : Carries(f)' => Carries(f)
    BY <2>2 DEF Carries, Recycles
  <2> QED BY <2>2, <2>3, CarriedKeptFrom
<1>2. CASE \E t \in Threads, f \in Frames : RecycleCall(t, f)
  <2>1. PICK t \in Threads, g \in Frames : RecycleCall(t, g)
    BY <1>2
  <2>2. /\ g \in held /\ held' = held \ {g} /\ UNCHANGED <<bufferIndex, lastIndex, queued, run, cur, pos>>
        /\ \A u \in Threads \ {t} : pc'[u] = pc[u] /\ arg'[u] = arg[u]
        /\ pc'[t] = "idle" \/ arg'[t] = g
    BY <2>1 DEF RecycleCall, Free, EnterRecycle, Goto, sourceVars, driverVars
  <2>3. \A f \in Frames : Carries(f)' => Carries(f)
    BY <2>2 DEF Carries, Recycles, InRecycle
  <2> QED BY <2>2, <2>3, CarriedKeptFrom
<1> QED BY <1>1, <1>2

(* Every step keeps it.                                                    *)
LEMMA CarriedStep ==
  ASSUME Careful, FInv, CarriedOK, [Next]_vars
  PROVE  CarriedOK'
<1> USE SourcesFacts, ThreadsAssumption DEF FInv, Recycles, InRecycle, At, Goto, Step, RunFrom, stateVars,
    sourceVars, frameVars, callVars, driverVars
<1>1. ASSUME NEW t \in Threads, Call(t) \/ CallStep(t) PROVE CarriedOK'
  <2>1. CASE \E s \in Sources : SetCaptureCallback(t, s)
    BY <2>1, CarriedKept DEF SetCaptureCallback, IsStarted, NotReleased, Free
  <2>2. CASE \E f \in Frames : RecycleCall(t, f)
    BY <2>2, HandOverKeepsCarried
  <2>3. CASE StartCall(t)
    BY <2>3, CarriedKept DEF StartCall, MayStart, Request, Free
  <2>4. CASE StopCall(t)
    BY <2>4, CarriedKept DEF StopCall, MayStop, Request, Free
  <2>5. CASE ReleaseCall(t)
    BY <2>5, CarriedKept DEF ReleaseCall, MayStop, Request, Free
  <2>6. CASE VideoInputCall(t)
    BY <2>6, CarriedKept DEF VideoInputCall, Free, NotReleased
  <2>7. CASE VideoInputNative(t)
    BY <2>7, CarriedKept DEF VideoInputNative
  <2>8. CASE StartSource(t)
    BY <2>8, CarriedKept DEF StartSource, SInv, CInv, IInv, ThreadOfSource
  <2>9. CASE StartWait(t)
    BY <2>9, CarriedKept DEF StartWait, Passes, Waits
  <2>10. CASE StartNative(t)
    BY <2>10, StartKeepsCarried
  <2>11. CASE StartCommit(t)
    BY <2>11, CarriedKept DEF StartCommit, Commit
  <2>12. CASE StartFill(t)
    BY <2>12, CarriedKept DEF StartFill
  <2>13. CASE SourceStop(t, "undo_source", "undo_interrupt", "undo_rollback")
    BY <2>13, CarriedKept DEF SourceStop
  <2>14. CASE SourceInterrupt(t, "undo_interrupt", "undo_join")
    BY <2>14, CarriedKept DEF SourceInterrupt
  <2>15. CASE SourceJoin(t, "undo_join", "undo_rollback")
    BY <2>15, CarriedKept DEF SourceJoin, Interrupted, ClearInterrupt
  <2>16. CASE StartRollback(t)
    BY <2>16, CarriedKept DEF StartRollback, Rollback
  <2>17. CASE SourceStop(t, "stop_source", "stop_interrupt", "stop_native")
    BY <2>17, CarriedKept DEF SourceStop
  <2>18. CASE SourceInterrupt(t, "stop_interrupt", "stop_join")
    BY <2>18, CarriedKept DEF SourceInterrupt
  <2>19. CASE SourceJoin(t, "stop_join", "stop_native")
    BY <2>19, CarriedKept DEF SourceJoin, Interrupted, ClearInterrupt
  <2>20. CASE StopNative(t)
    BY <2>20, CarriedKept DEF StopNative, StopCapture
  <2>21. CASE StopUsers(t)
    BY <2>21, CarriedKept DEF StopUsers, Passes, Waits, Interrupted, ClearInterrupt
  <2>22. CASE StopRecycle(t)
    BY <2>22, CarriedKept DEF StopRecycle, EnterRecycle, IsStarted, NotReleased
  <2>23. CASE StopClear(t)
    BY <2>23, CarriedKept DEF StopClear
  <2>24. CASE StopCommit(t)
    BY <2>24, CarriedKept DEF StopCommit, Careful
  <2>25. CASE ReleaseMark(t)
    BY <2>25, CarriedKept DEF ReleaseMark, MayRelease, Request
  <2>26. CASE ReleaseNative(t)
    BY <2>26, CarriedKept DEF ReleaseNative, FreeCapture
  <2>27. CASE ReleaseCommit(t)
    BY <2>27, CarriedKept DEF ReleaseCommit, Commit
  <2>28. CASE RecycleTemp(t)
    BY <2>28, CarriedKept DEF RecycleTemp, LeaveRecycle, Back
  <2>29. CASE RecycleEnqueue(t)
    BY <2>29, EnqueueKeepsCarried
  <2>30. CASE RecyclePut(t)
    BY <2>30, CarriedKept DEF RecyclePut, LeaveRecycle, Back, Interrupted, ClearInterrupt
  <2>31. CASE RecycleDone(t)
    BY <2>31, CarriedKept DEF RecycleDone, LeaveRecycle, Back
  <2> QED BY <1>1, <2>1, <2>2, <2>3, <2>4, <2>5, <2>6, <2>7, <2>8, <2>9, <2>10, <2>11, <2>12, <2>13, <2>14,
      <2>15, <2>16, <2>17, <2>18, <2>19, <2>20, <2>21, <2>22, <2>23, <2>24, <2>25, <2>26, <2>27, <2>28,
      <2>29, <2>30, <2>31, Zenon DEF Call, CallStep, StartUndo, StopSource
<1>2. ASSUME NEW s \in Sources, PushStep(s) \/ PushFill(s) PROVE CarriedOK'
  <2>1. CASE PushLoop(s)
    BY <2>1, CarriedKept DEF PushLoop, ClearInterrupt
  <2>2. CASE PushGet(s)
    BY <2>2, CarriedKept DEF PushGet, GetUser
  <2>3. CASE PushAvail(s)
    BY <2>3, CarriedKept DEF PushAvail, ClearInterrupt
  <2>4. CASE PushFrameFails(s)
    BY <2>4, CarriedKept DEF PushFrameFails
  <2>5. CASE PushDeliver(s)
    BY <2>5, DeliverKeepsCarried
  <2>6. CASE PushPut(s)
    BY <2>6, HandOverKeepsCarried
  <2>7. CASE PushPutThrows(s)
    BY <2>7, CarriedKept DEF PushPutThrows, PutUser
  <2>8. CASE PushReturn(s)
    BY <2>8, CarriedKept DEF PushReturn
  <2>9. CASE PushCaught(s)
    BY <2>9, CarriedKept DEF PushCaught, IsStarted, NotReleased
  <2>10. CASE PushExceptionDone(s)
    BY <2>10, CarriedKept DEF PushExceptionDone
  <2>11. CASE PushExit(s)
    BY <2>11, CarriedKept DEF PushExit
  <2>12. CASE PushFill(s)
    BY <2>12, FillKeepsCarried
  <2> QED BY <1>2, <2>1, <2>2, <2>3, <2>4, <2>5, <2>6, <2>7, <2>8, <2>9, <2>10, <2>11, <2>12, Zenon DEF PushStep
<1>3. CASE Open
  BY <1>3, CarriedKept DEF Open
<1>4. CASE UNCHANGED vars
  BY <1>4, CarriedKept DEF vars
<1> QED BY <1>1, <1>2, <1>3, <1>4 DEF Next

-----------------------------------------------------------------------------
(* A step that takes no buffer from the driver, after which the frames     *)
(* that stood for the missing ones still do.                               *)
LEMMA MissingKeptFrom ==
  ASSUME FInv, MissingAway, streaming' => streaming /\ queued \subseteq queued',
         \A f \in Frames : \A b \in Buffers \ queued' : StandsFor(f, b) => StandsFor(f, b)'
  PROVE  MissingAway'
<1> SUFFICES ASSUME streaming'
             PROVE  \E h \in Injection(Buffers \ queued', Frames) : \A b \in Buffers \ queued' : StandsFor(h[b], b)'
  BY DEF MissingAway, Buffers, Frames
<1>1. PICK h \in Injection(Buffers \ queued, Frames) : \A b \in Buffers \ queued : StandsFor(h[b], b)
  BY DEF MissingAway
<1>2. PICK g \in Injection(Buffers \ queued', Frames) : \A b \in Buffers \ queued' : g[b] = h[b]
  <2> DEFINE g == [b \in Buffers \ queued' |-> h[b]]
  <2>1. g \in Injection(Buffers \ queued', Frames)
    BY <1>1 DEF Injection, IsInjective
  <2> QED BY <2>1
<1>3. \A b \in Buffers \ queued' : g[b] = h[b] /\ h[b] \in Frames /\ StandsFor(h[b], b)
  BY <1>1, <1>2 DEF Injection
<1>4. ASSUME NEW b \in Buffers \ queued' PROVE StandsFor(g[b], b)'
  <2>1. PICK f \in Frames : f = g[b] /\ StandsFor(f, b)
    BY <1>3
  <2>2. StandsFor(f, b)'
    BY <2>1
  <2> QED BY <2>1, <2>2
<1> QED BY <1>2, <1>4

(* Most steps take no buffer from the driver and bring no frame back.      *)
LEMMA MissingKept ==
  ASSUME FInv, MissingAway, UNCHANGED <<bufferIndex, lastIndex>>,
         streaming' => streaming /\ queued \subseteq queued',
         \A s \in Sources : run[s] = "deliver" => run'[s] = "deliver" /\ cur'[s] = cur[s],
         \A s \in Sources : cur'[s] # None => cur'[s] = cur[s] /\ (run[s] = "put" => run'[s] = "put"),
         available' \in {available, <<>>},
         \A u \in Threads :
           /\ pc'[u] = "start_fill" => pc[u] = "start_fill" /\ pos'[u] = pos[u]
           /\ Recycles(u)' /\ pc'[u] \notin {"recycle_temp", "recycle_enqueue"} =>
                Recycles(u) /\ pc[u] \notin {"recycle_temp", "recycle_enqueue"} /\ arg'[u] = arg[u]
           /\ Recycles(u)' /\ pc'[u] \in {"recycle_temp", "recycle_enqueue"} =>
                Recycles(u) /\ pc[u] \in {"recycle_temp", "recycle_enqueue"} /\ arg'[u] = arg[u],
         \A s \in Sources : run'[s] = "put" => run[s] = "put" /\ cur'[s] = cur[s],
         held' \subseteq held
  PROVE  MissingAway'
<1>1. ASSUME NEW f \in Frames, Away(f) PROVE Away(f)'
  <2>1. ~InQueue(f)'
    BY <1>1 DEF Away, InQueue
  <2>2. f # None
    BY ThreadsAssumption DEF Frames
  <2> QED BY <1>1, <2>1, <2>2 DEF Away
<1>2. \A f \in Frames : Carries(f)' => Carries(f)
  BY DEF Carries
<1>3. \A f \in Frames : \A b \in Buffers \ queued' : StandsFor(f, b) => StandsFor(f, b)'
  BY <1>1, <1>2 DEF StandsFor
<1> QED BY <1>3, MissingKeptFrom

(* The buffer handed out is missing, and its push thread delivers it.      *)
LEMMA FillKeepsMissing ==
  ASSUME FInv, MissingAway, NEW s \in Sources, PushFill(s)
  PROVE  MissingAway'
<1> USE SourcesFacts, FrameFacts DEF FInv
<1>1. PICK c \in Buffers : c \in queued /\ streaming /\ queued' = queued \ {c} /\ lastIndex' = c /\ UNCHANGED streaming
  BY DEF PushFill, Dequeue
<1>2. /\ run[s] = "fill" /\ run' = [run EXCEPT ![s] = "deliver"]
      /\ UNCHANGED <<bufferIndex, available, cur, held, pc, arg, pos>>
  BY DEF PushFill, RunFrom, callVars
<1>3. \A u \in Sources : run[u] # "deliver"
  BY <1>2, OneRuns
<1>4. \A f \in Frames : Away(f) => Away(f)'
  BY <1>2 DEF Away, InQueue, Recycles
<1>5. \A f \in Frames : Carries(f)' => Carries(f)
  BY <1>2 DEF Carries, Recycles
<1>6. \A f \in Frames : \A b \in Buffers : StandsFor(f, b) => StandsFor(f, b)' /\ f # cur[s]
  BY <1>2, <1>3, <1>4, <1>5 DEF StandsFor, Away
<1>7. PICK h \in Injection(Buffers \ queued, Frames) : \A b \in Buffers \ queued : StandsFor(h[b], b)
  BY <1>1 DEF MissingAway
<1> DEFINE missing == Buffers \ queued
           more == Buffers \ queued'
<1>8. cur[s] \in Frames
  BY <1>2
<1>9. \A b \in more : b # c => b \in missing
  BY <1>1
<1>10. /\ \A b \in missing : h[b] \in Frames /\ StandsFor(h[b], b)
       /\ \A a, b \in missing : h[a] = h[b] => a = b
  BY <1>7 DEF Injection, IsInjective
<1>11. PICK g \in Injection(more, Frames) : \A b \in more : g[b] = IF b = c THEN cur[s] ELSE h[b]
  <2> DEFINE i == [b \in more |-> IF b = c THEN cur[s] ELSE h[b]]
  <2>1. i \in [more -> Frames]
    BY <1>8, <1>9, <1>10
  <2>2. ASSUME NEW a \in more, NEW b \in more, i[a] = i[b] PROVE a = b
    <3> HIDE DEF more, missing
    <3> QED BY <1>6, <1>9, <1>10, <2>2 DEF missing
  <2>3. i \in Injection(more, Frames)
    BY <2>1, <2>2 DEF Injection, IsInjective
  <2> QED BY <2>3
<1>12. ASSUME NEW b \in Buffers \ queued' PROVE StandsFor(g[b], b)'
  <2>1. CASE b = c
    BY <1>1, <1>2, <1>11, <2>1 DEF StandsFor
  <2>2. CASE b # c
    <3>1. PICK f \in Frames : f = g[b] /\ StandsFor(f, b)
      BY <1>9, <1>10, <1>11, <2>2
    <3>2. StandsFor(f, b)'
      BY <1>6, <3>1
    <3> QED BY <3>1, <3>2
  <2> QED BY <2>1, <2>2
<1> QED BY <1>11, <1>12 DEF MissingAway, Buffers, Frames

(* A frame whose monitor is free is nowhere but with its push thread.      *)
LEMMA DeliveredApart ==
  ASSUME FInv, NEW s \in Sources, run[s] = "deliver", lock[cur[s]] = None
  PROVE  /\ cur[s] \in Frames /\ ~InQueue(cur[s]) /\ cur[s] \notin held
         /\ \A u \in Sources : cur[u] = cur[s] => u = s
         /\ \A u \in Threads : Recycles(u) => arg[u] # cur[s]
         /\ \A u \in Threads : pc[u] = "start_fill" => cur[s] < pos[u]
<1> USE SourcesFacts, FrameFacts DEF FInv
<1>1. cur[s] \in Frames
  OBVIOUS
<1>2. ~InQueue(cur[s]) /\ cur[s] \notin held
  BY <1>1, ThreadsAssumption DEF FramesOK, HandApart, HeldApart, Frames
<1>3. \A u \in Sources : cur[u] = cur[s] => u = s
  BY <1>1, OneRuns, ThreadsAssumption DEF FramesOK, FrameInHand, Frames
<1>4. \A u \in Threads : Recycles(u) => arg[u] # cur[s]
  BY <1>1 DEF SInv, LocksOK, LockOfRecycle, Recycles
<1>5. ASSUME NEW u \in Threads, pc[u] = "start_fill" PROVE cur[s] < pos[u]
  <2>1. ~(cur[s] >= pos[u])
    BY <1>1, <1>5 DEF FramesOK, FillApart
  <2> QED BY <1>1, <1>5, <2>1, NumBuffersAssumption DEF Frames
<1> QED BY <1>1, <1>2, <1>3, <1>4, <1>5

(* ... until it carries it to the application, ...                         *)
LEMMA DeliverKeepsMissing ==
  ASSUME FInv, MissingAway, NEW s \in Sources, PushDeliver(s)
  PROVE  MissingAway'
<1> USE SourcesFacts, FrameFacts DEF FInv
<1>1. /\ run[s] = "deliver" /\ run' = [run EXCEPT ![s] = "put"] /\ cur[s] \in Frames
      /\ bufferIndex' = [bufferIndex EXCEPT ![cur[s]] = lastIndex] /\ lock[cur[s]] = None
      /\ UNCHANGED <<lastIndex, queued, streaming, available, cur, held, pc, arg, pos>>
  BY DEF PushDeliver, RunFrom, callVars, driverVars
<1>2. \A f \in Frames : Away(f) => Away(f)' /\ f # cur[s]
  BY <1>1 DEF Away, InQueue, Recycles
<1>3. Away(cur[s])'
  BY <1>1, DeliveredApart DEF Away, InQueue, Recycles
<1>4. \A u \in Sources : run[u] = "deliver" => u = s
  BY <1>1, OneRuns
<1>5. \A f \in Frames : f # cur[s] => (Carries(f)' => Carries(f))
  BY <1>1 DEF Carries, Recycles
<1>6. ASSUME NEW f \in Frames, NEW b \in Buffers \ queued', StandsFor(f, b) PROVE StandsFor(f, b)'
  <2>1. CASE f = cur[s]
    <3>1. lastIndex = b
      BY <1>2, <1>4, <1>6, <2>1 DEF StandsFor
    <3> QED BY <1>1, <1>3, <2>1, <3>1 DEF StandsFor
  <2>2. CASE f # cur[s]
    BY <1>1, <1>2, <1>4, <1>5, <1>6, <2>2 DEF StandsFor
  <2> QED BY <2>1, <2>2
<1> QED BY <1>1, <1>6, MissingKeptFrom

(* ... or is lost with it.                                                 *)
LEMMA FailureKeepsMissing ==
  ASSUME FInv, MissingAway, NEW s \in Sources, PushFrameFails(s)
  PROVE  MissingAway'
<1> USE SourcesFacts, FrameFacts DEF FInv
<1>1. /\ run[s] \in {"fill", "deliver"} /\ run' = [run EXCEPT ![s] = "put_throws"]
      /\ cur' = [cur EXCEPT ![s] = None] /\ (run[s] = "deliver" => lock[cur[s]] = None)
      /\ UNCHANGED <<bufferIndex, lastIndex, queued, streaming, available, held, pc, arg, pos>>
  BY DEF PushFrameFails, RunFrom, callVars, driverVars, frameVars
<1>2. ASSUME NEW f \in Frames, Away(f) PROVE Away(f)'
  <2>1. f # None
    BY ThreadsAssumption DEF Frames
  <2> QED BY <1>1, <1>2, <2>1 DEF Away, InQueue, Recycles
<1>3. \A f \in Frames : Carries(f)' => Carries(f)
  BY <1>1 DEF Carries, Recycles
<1>4. ASSUME run[s] = "deliver", NEW f \in Frames, f = cur[s] PROVE Away(f)' /\ ~Carries(f)'
  <2>1. /\ ~InQueue(f) /\ f \notin held /\ \A u \in Sources : cur[u] = f => u = s
        /\ \A u \in Threads : Recycles(u) => arg[u] # f
        /\ \A u \in Threads : pc[u] = "start_fill" => f < pos[u]
    BY <1>1, <1>4, DeliveredApart
  <2>2. \A u \in Sources : cur'[u] # f
    BY <1>1, <1>4, <2>1, ThreadsAssumption DEF Frames
  <2> QED BY <1>1, <2>1, <2>2 DEF Away, Carries, InQueue, Recycles
<1>5. \A u \in Sources : run[u] = "deliver" => u = s
  BY <1>1, OneRuns
<1>6. ASSUME NEW f \in Frames, NEW b \in Buffers \ queued', StandsFor(f, b) PROVE StandsFor(f, b)'
  <2>1. CASE Away(f) /\ (Carries(f) => bufferIndex[f] = b)
    BY <1>1, <1>2, <1>3, <2>1 DEF StandsFor
  <2>2. CASE \E u \in Sources : run[u] = "deliver" /\ cur[u] = f /\ lastIndex = b
    BY <1>4, <1>5, <2>2 DEF StandsFor
  <2> QED BY <1>6, <2>1, <2>2 DEF StandsFor
<1> QED BY <1>1, <1>6, MissingKeptFrom

(* The application takes a frame, gives it back, or loses it.              *)
LEMMA HandOverKeepsMissing ==
  ASSUME FInv, MissingAway,
         \/ \E s \in Sources : PushPut(s)
         \/ \E t \in Threads, f \in Frames : RecycleCall(t, f)
  PROVE  MissingAway'
<1> USE SourcesFacts, FrameFacts DEF FInv
<1>1. CASE \E s \in Sources : PushPut(s)
  <2>1. PICK s \in Sources : PushPut(s)
    BY <1>1
  <2>2. /\ run[s] = "put" /\ cur' = [cur EXCEPT ![s] = None]
        /\ UNCHANGED <<bufferIndex, lastIndex, queued, streaming, available, pc, arg, pos>>
        /\ held' \in {held, held \cup {cur[s]}}
        /\ \E l \in {"nextFrame", "caught"} : run' = [run EXCEPT ![s] = l]
    BY <2>1 DEF PushPut, RunFrom, callVars, driverVars
  <2>3. \A f \in Frames : Carries(f)' => Carries(f)
    BY <2>2 DEF Carries, Recycles
  <2>4. ASSUME NEW f \in Frames, Away(f) PROVE Away(f)'
    <3>1. f # None
      BY ThreadsAssumption DEF Frames
    <3> QED BY <2>2, <2>4, <3>1 DEF Away, InQueue, Recycles
  <2>5. \A u \in Sources : run[u] # "deliver"
    BY <2>2, OneRuns
  <2>6. \A f \in Frames : \A b \in Buffers \ queued' : StandsFor(f, b) => StandsFor(f, b)'
    BY <2>2, <2>3, <2>4, <2>5 DEF StandsFor
  <2> QED BY <2>2, <2>6, MissingKeptFrom
<1>2. CASE \E t \in Threads, f \in Frames : RecycleCall(t, f)
  <2>1. PICK t \in Threads, g \in Frames : RecycleCall(t, g)
    BY <1>2
  <2>2. /\ g \in held /\ held' = held \ {g} /\ pc[t] = "idle"
        /\ UNCHANGED <<bufferIndex, lastIndex, queued, streaming, available, run, cur, pos>>
        /\ \A u \in Threads \ {t} : pc'[u] = pc[u] /\ arg'[u] = arg[u]
        /\ pc'[t] = "idle" \/ (arg'[t] = g /\ pc'[t] \in {"recycle_temp", "recycle_enqueue"})
    BY <2>1 DEF RecycleCall, Free, EnterRecycle, Goto, sourceVars, driverVars
  <2>3. \A f \in Frames : Carries(f)' => Carries(f)
    BY <2>2 DEF Carries, Recycles, InRecycle
  <2>4. \A f \in Frames : Away(f) => Away(f)'
    BY <2>2 DEF Away, InQueue, Recycles, InRecycle
  <2>6. \A f \in Frames : \A b \in Buffers \ queued' : StandsFor(f, b) => StandsFor(f, b)'
    BY <2>2, <2>3, <2>4 DEF StandsFor
  <2> QED BY <2>2, <2>6, MissingKeptFrom
<1> QED BY <1>1, <1>2

(* A frame that goes into the queue stands for no buffer any more.         *)
LEMMA QueueKeepsMissing ==
  ASSUME FInv, MissingAway, NEW t \in Threads, RecyclePut(t) \/ StartFill(t)
  PROVE  MissingAway'
<1> USE SourcesFacts, FrameFacts DEF FInv
<1>1. /\ UNCHANGED <<bufferIndex, lastIndex, queued, streaming, run, cur>>
      /\ \A u \in Threads \ {t} : pc'[u] = pc[u] /\ pos'[u] = pos[u] /\ arg'[u] = arg[u]
  BY DEF RecyclePut, StartFill, LeaveRecycle, Goto, driverVars, sourceVars
<1>2. CASE StartFill(t)
  <2>1. /\ pc[t] = "start_fill" /\ pos[t] \in Frames /\ pc'[t] \in {"start_fill", "idle"}
        /\ pc'[t] = "start_fill" => pos'[t] = pos[t] + 1
        /\ available' \in {available, Append(available, pos[t])} /\ arg' = arg /\ held' = held
    BY <1>2, NumBuffersAssumption DEF StartFill, At, Goto, Frames
  <2>2. ASSUME NEW f \in Frames, Away(f) PROVE Away(f)'
    <3>1. f < pos[t] /\ ~InQueue(f)
      BY <2>1, <2>2 DEF Away
    <3>5. f # pos[t]
      BY <2>1, <3>1 DEF Frames
    <3>2. ~InQueue(f)'
      <4>1. CASE available' = available
        BY <3>1, <4>1 DEF InQueue
      <4>2. CASE available' = Append(available, pos[t])
        BY <2>1, <3>1, <3>5, <4>2, QueueAppend
      <4> QED BY <2>1, <4>1, <4>2
    <3>3. \A u \in Threads : Recycles(u)' => Recycles(u) /\ arg'[u] = arg[u] /\ pc'[u] = pc[u]
      BY <1>1, <2>1 DEF Recycles, InRecycle
    <3>4. \A u \in Threads : pc'[u] = "start_fill" => f < pos'[u]
      <4> SUFFICES ASSUME NEW u \in Threads, pc'[u] = "start_fill" PROVE f < pos'[u]
        OBVIOUS
      <4>1. CASE u = t
        BY <2>1, <3>1, <4>1, NumBuffersAssumption DEF Frames
      <4>2. CASE u # t
        BY <1>1, <2>2, <4>2 DEF Away
      <4> QED BY <4>1, <4>2
    <3> QED BY <1>1, <2>2, <3>2, <3>3, <3>4 DEF Away
  <2>3. \A f \in Frames : Carries(f)' => Carries(f)
    BY <1>1, <2>1 DEF Carries, Recycles, InRecycle
  <2>4. \A f \in Frames : \A b \in Buffers \ queued' : StandsFor(f, b) => StandsFor(f, b)'
    BY <1>1, <2>2, <2>3 DEF StandsFor
  <2> QED BY <1>1, <2>4, MissingKeptFrom
<1>3. CASE RecyclePut(t)
  <2>1. pc[t] = "recycle_put" /\ Recycles(t) /\ arg[t] \in Frames /\ pos[t] = 0 /\ pos' = pos /\ held' = held
    BY <1>3, RecyclesItself DEF RecyclePut, At
  <2>2. \/ available' = Append(available, arg[t]) /\ pc'[t] = "recycle_done" /\ arg'[t] = arg[t]
        \/ available' = available /\ pc'[t] = "idle"
    BY <1>3, <2>1 DEF RecyclePut, LeaveRecycle, Back, Goto
  <2>3. ASSUME NEW f \in Frames, Away(f) PROVE Away(f)'
    <3>1. f # arg[t] /\ ~InQueue(f)
      BY <2>1, <2>3 DEF Away
    <3>2. ~InQueue(f)'
      BY <2>1, <2>2, <3>1, QueueAppend, QueueKept
    <3>3. \A u \in Threads : Recycles(u)' /\ arg'[u] = f => u # t
      BY <2>1, <2>2, <3>1 DEF Recycles, InRecycle
    <3> QED BY <1>1, <2>1, <2>2, <2>3, <3>2, <3>3 DEF Away, Recycles
  <2>4. \A f \in Frames : Carries(f)' => Carries(f)
    BY <1>1, <2>1, <2>2 DEF Carries, Recycles, InRecycle
  <2>5. \A f \in Frames : \A b \in Buffers \ queued' : StandsFor(f, b) => StandsFor(f, b)'
    BY <1>1, <2>3, <2>4 DEF StandsFor
  <2> QED BY <1>1, <2>5, MissingKeptFrom
<1> QED BY <1>2, <1>3

(* The frame the push thread takes from the queue stood for none.          *)
LEMMA AvailKeepsMissing ==
  ASSUME FInv, MissingAway, NEW s \in Sources, PushAvail(s)
  PROVE  MissingAway'
<1> USE SourcesFacts, FrameFacts DEF FInv
<1>1. /\ run[s] = "avail" /\ UNCHANGED <<bufferIndex, lastIndex, queued, streaming, held, pc, pos, arg>>
      /\ \E l \in {"fill", "put_throws"} : run' = [run EXCEPT ![s] = l]
  BY DEF PushAvail, RunFrom, callVars, driverVars
<1>4. \A u \in Sources : run[u] # "deliver"
  BY <1>1, OneRuns
<1>5. SUFFICES \A f \in Frames : Away(f) => Away(f)'
  <2>1. \A f \in Frames : Carries(f)' => Carries(f)
    <3>1. \A u \in Sources : run'[u] = "put" => run[u] = "put" /\ cur'[u] = cur[u]
      BY <1>1 DEF PushAvail
    <3> QED BY <1>1, <3>1 DEF Carries, Recycles
  <2>2. (\A f \in Frames : Away(f) => Away(f)') =>
        \A f \in Frames : \A b \in Buffers \ queued' : StandsFor(f, b) => StandsFor(f, b)'
    BY <1>1, <1>4, <2>1 DEF StandsFor
  <2> QED BY <1>1, <2>2, MissingKeptFrom
<1>2. CASE UNCHANGED <<cur, available>>
  <2>1. \A f \in Frames : Away(f) => Away(f)'
    <3> SUFFICES ASSUME NEW f \in Frames, Away(f) PROVE Away(f)'
      OBVIOUS
    <3>1. cur[s] # f
      BY <1>1 DEF Away
    <3> QED BY <1>1, <1>2, <3>1 DEF Away, InQueue, Recycles
  <2> QED BY <2>1
<1>3. CASE available # <<>> /\ cur' = [cur EXCEPT ![s] = Head(available)] /\ available' = Tail(available)
  <2>1. InQueue(Head(available)) /\ \A f \in Frames : InQueue(f)' => InQueue(f)
    BY <1>3, QueueTake DEF FramesOK
  <2>2. ASSUME NEW f \in Frames, Away(f) PROVE Away(f)'
    <3>1. f # Head(available) /\ ~InQueue(f)'
      BY <2>1, <2>2 DEF Away
    <3> QED BY <1>1, <1>3, <2>2, <3>1 DEF Away, Recycles
  <2> QED BY <2>2
<1> QED BY <1>2, <1>3 DEF PushAvail

(* recycle() gives the buffer of its frame back before the frame goes into *)
(* the queue.                                                              *)
LEMMA EnqueueKeepsMissing ==
  ASSUME FInv, MissingAway, NEW t \in Threads, RecycleEnqueue(t)
  PROVE  MissingAway'
<1> USE SourcesFacts, FrameFacts DEF FInv, InRecycle
<1>1. /\ pc[t] = "recycle_enqueue" /\ pc' = [pc EXCEPT ![t] = "recycle_put"]
      /\ queued' = queued \cup {bufferIndex[arg[t]]}
      /\ UNCHANGED <<bufferIndex, lastIndex, streaming, available, cur, run, held, arg, pos>>
  BY DEF RecycleEnqueue, Enqueue, Step, At, Goto, sourceVars, frameVars
<1>2. \A f \in Frames : Away(f) /\ f # arg[t] => Away(f)'
  BY <1>1 DEF Away, InQueue, Recycles
<1>3. Recycles(t) /\ arg[t] \in Frames /\ Carries(arg[t])
  BY <1>1, RecyclesItself DEF Carries
<1>4. \A f \in Frames : Carries(f)' => Carries(f)
  BY <1>1 DEF Carries, Recycles
<1>5. ASSUME NEW f \in Frames, NEW b \in Buffers \ queued', StandsFor(f, b) PROVE StandsFor(f, b)'
  <2>1. CASE Away(f) /\ (Carries(f) => bufferIndex[f] = b)
    <3>1. f # arg[t]
      BY <1>1, <1>3, <1>5, <2>1
    <3> QED BY <1>1, <1>2, <1>4, <2>1, <3>1 DEF StandsFor
  <2>2. CASE \E u \in Sources : run[u] = "deliver" /\ cur[u] = f /\ lastIndex = b
    BY <1>1, <2>2 DEF StandsFor
  <2> QED BY <1>5, <2>1, <2>2 DEF StandsFor
<1> QED BY <1>1, <1>5, MissingKeptFrom

(* No buffer needs a frame when the driver has them all.                   *)
LEMMA NoneMissing ==
  ASSUME queued' = Buffers
  PROVE  MissingAway'
<1>1. Buffers \ queued' = {}
  OBVIOUS
<1>2. [b \in {} |-> b] \in Injection({}, Frames)
  BY DEF Injection, IsInjective
<1> QED BY <1>1, <1>2 DEF MissingAway, Buffers, Frames

(* The driver has every buffer when startCapture() commits ... *)
LEMMA CommitKeepsMissing ==
  ASSUME FInv, MissingAway, NEW t \in Threads, StartCommit(t)
  PROVE  MissingAway'
  BY NoneMissing DEF FInv, SInv, DeviceOK, StartsFull, StartCommit, Step, At, driverVars

(* ... and there is no stream when release() frees them.                   *)
LEMMA ReleaseKeepsMissing ==
  ASSUME FInv, MissingAway, NEW t \in Threads, ReleaseNative(t)
  PROVE  MissingAway'
<1>1. pc[t] = "release_native" /\ streaming' = streaming
  BY DEF ReleaseNative, Step, At, FreeCapture
<1>2. temp = "RELEASED" /\ state # "STARTED"
  BY <1>1 DEF FInv, SInv, CInv, CallsPlaced, Placed
<1>3. ~streaming
  BY <1>2 DEF FInv, SInv, CInv, CallsPlaced, Placed, InStart, DeviceOK, StreamsWhenStarted
<1> QED BY <1>1, <1>3 DEF MissingAway

(* Every step keeps MissingAway.                                           *)
LEMMA MissingStep ==
  ASSUME Careful, FInv, MissingAway, [Next]_vars
  PROVE  MissingAway'
<1> USE SourcesFacts, ThreadsAssumption DEF FInv, Recycles, InRecycle, At, Goto, Step, RunFrom, stateVars,
    sourceVars, frameVars, callVars, driverVars
<1>1. ASSUME NEW t \in Threads, Call(t) \/ CallStep(t) PROVE MissingAway'
  <2>1. CASE \E s \in Sources : SetCaptureCallback(t, s)
    BY <2>1, MissingKept DEF SetCaptureCallback, IsStarted, NotReleased, Free
  <2>2. CASE \E f \in Frames : RecycleCall(t, f)
    BY <2>2, HandOverKeepsMissing
  <2>3. CASE StartCall(t)
    BY <2>3, MissingKept DEF StartCall, MayStart, Request, Free
  <2>4. CASE StopCall(t)
    BY <2>4, MissingKept DEF StopCall, MayStop, Request, Free
  <2>5. CASE ReleaseCall(t)
    BY <2>5, MissingKept DEF ReleaseCall, MayStop, Request, Free
  <2>6. CASE VideoInputCall(t)
    BY <2>6, MissingKept DEF VideoInputCall, Free, NotReleased
  <2>7. CASE VideoInputNative(t)
    BY <2>7, MissingKept DEF VideoInputNative
  <2>8. CASE StartSource(t)
    BY <2>8, MissingKept DEF StartSource, SInv, CInv, IInv, ThreadOfSource
  <2>9. CASE StartWait(t)
    BY <2>9, MissingKept DEF StartWait, Passes, Waits
  <2>10. CASE StartNative(t)
    <3>1. CASE StartCapture
      BY <2>10, <3>1, NoneMissing DEF StartNative, StartCapture
    <3>2. CASE StartCaptureFails("streamon" \in Faults)
      BY <2>10, <3>2, MissingKept DEF StartNative, StartCaptureFails
    <3> QED BY <2>10, <3>1, <3>2 DEF StartNative
  <2>11. CASE StartCommit(t)
    BY <2>11, CommitKeepsMissing
  <2>12. CASE StartFill(t)
    BY <2>12, QueueKeepsMissing
  <2>13. CASE SourceStop(t, "undo_source", "undo_interrupt", "undo_rollback")
    BY <2>13, MissingKept DEF SourceStop
  <2>14. CASE SourceInterrupt(t, "undo_interrupt", "undo_join")
    BY <2>14, MissingKept DEF SourceInterrupt
  <2>15. CASE SourceJoin(t, "undo_join", "undo_rollback")
    BY <2>15, MissingKept DEF SourceJoin, Interrupted, ClearInterrupt
  <2>16. CASE StartRollback(t)
    BY <2>16, MissingKept DEF StartRollback, Rollback
  <2>17. CASE SourceStop(t, "stop_source", "stop_interrupt", "stop_native")
    BY <2>17, MissingKept DEF SourceStop
  <2>18. CASE SourceInterrupt(t, "stop_interrupt", "stop_join")
    BY <2>18, MissingKept DEF SourceInterrupt
  <2>19. CASE SourceJoin(t, "stop_join", "stop_native")
    BY <2>19, MissingKept DEF SourceJoin, Interrupted, ClearInterrupt
  <2>20. CASE StopNative(t)
    BY <2>20 DEF StopNative, StopCapture, MissingAway
  <2>21. CASE StopUsers(t)
    BY <2>21, MissingKept DEF StopUsers, Passes, Waits, Interrupted, ClearInterrupt
  <2>22. CASE StopRecycle(t)
    BY <2>22, MissingKept DEF StopRecycle, EnterRecycle, IsStarted, NotReleased
  <2>23. CASE StopClear(t)
    BY <2>23, MissingKept DEF StopClear
  <2>24. CASE StopCommit(t)
    BY <2>24, MissingKept DEF StopCommit, Commit
  <2>25. CASE ReleaseMark(t)
    BY <2>25, MissingKept DEF ReleaseMark, MayRelease, Request
  <2>26. CASE ReleaseNative(t)
    BY <2>26, ReleaseKeepsMissing
  <2>27. CASE ReleaseCommit(t)
    BY <2>27, MissingKept DEF ReleaseCommit, Commit
  <2>28. CASE RecycleTemp(t)
    BY <2>28, MissingKept DEF RecycleTemp, LeaveRecycle, Back
  <2>29. CASE RecycleEnqueue(t)
    BY <2>29, EnqueueKeepsMissing
  <2>30. CASE RecyclePut(t)
    BY <2>30, QueueKeepsMissing
  <2>31. CASE RecycleDone(t)
    BY <2>31, MissingKept DEF RecycleDone, LeaveRecycle, Back
  <2> QED BY <1>1, <2>1, <2>2, <2>3, <2>4, <2>5, <2>6, <2>7, <2>8, <2>9, <2>10, <2>11, <2>12, <2>13, <2>14,
      <2>15, <2>16, <2>17, <2>18, <2>19, <2>20, <2>21, <2>22, <2>23, <2>24, <2>25, <2>26, <2>27, <2>28,
      <2>29, <2>30, <2>31, Zenon DEF Call, CallStep, StartUndo, StopSource
<1>2. ASSUME NEW s \in Sources, PushStep(s) \/ PushFill(s) PROVE MissingAway'
  <2>1. CASE PushLoop(s)
    BY <2>1, MissingKept DEF PushLoop, ClearInterrupt
  <2>2. CASE PushGet(s)
    BY <2>2, MissingKept DEF PushGet, GetUser
  <2>3. CASE PushAvail(s)
    BY <2>3, AvailKeepsMissing
  <2>4. CASE PushFrameFails(s)
    BY <2>4, FailureKeepsMissing
  <2>5. CASE PushDeliver(s)
    BY <2>5, DeliverKeepsMissing
  <2>6. CASE PushPut(s)
    BY <2>6, HandOverKeepsMissing
  <2>7. CASE PushPutThrows(s)
    BY <2>7, MissingKept DEF PushPutThrows, PutUser
  <2>8. CASE PushReturn(s)
    BY <2>8, MissingKept DEF PushReturn
  <2>9. CASE PushCaught(s)
    BY <2>9, MissingKept DEF PushCaught, IsStarted, NotReleased
  <2>10. CASE PushExceptionDone(s)
    BY <2>10, MissingKept DEF PushExceptionDone
  <2>11. CASE PushExit(s)
    BY <2>11, MissingKept DEF PushExit
  <2>12. CASE PushFill(s)
    BY <2>12, FillKeepsMissing
  <2> QED BY <1>2, <2>1, <2>2, <2>3, <2>4, <2>5, <2>6, <2>7, <2>8, <2>9, <2>10, <2>11, <2>12, Zenon DEF PushStep
<1>3. CASE Open
  BY <1>3, MissingKept DEF Open
<1>4. CASE UNCHANGED vars
  BY <1>4, MissingKept DEF vars
<1> QED BY <1>1, <1>2, <1>3, <1>4 DEF Next

(* The invariant holds of a new grabber.                                   *)
LEMMA BuffersInit == Init => BInv
<1> SUFFICES ASSUME Init PROVE BInv
  OBVIOUS
<1>1. FInv
  BY FramesInit
<1>2. CarriedOK /\ MissingAway
  BY DEF Init, DriverInit, CarriedOK, CarriedOut, CarriedOnce, DequeuedApart, MissingAway, Carries,
    Recycles, InRecycle
<1> QED BY <1>1, <1>2 DEF BInv

(* Every step keeps the invariant.                                         *)
LEMMA BuffersStep ==
  ASSUME Careful, BInv, [Next]_vars
  PROVE  BInv'
  BY SourcesStep, FramesStep, CarriedStep, MissingStep DEF BInv, FInv

(* So it always holds.                                                     *)
LEMMA BuffersInvariance == Careful => (Spec => []BInv)
<1> SUFFICES ASSUME Careful PROVE Spec => []BInv
  OBVIOUS
<1>1. BInv /\ [Next]_vars => BInv'
  BY BuffersStep
<1> QED BY <1>1, BuffersInit, PTL DEF Spec

-----------------------------------------------------------------------------
(* A frame the application holds is not marked recycled, and its buffer is *)
(* neither with the driver nor behind another held frame.                  *)
THEOREM HeldFramesStayUsable == Careful => (Spec => []HeldFramesUsable)
<1> SUFFICES ASSUME Careful PROVE Spec => []HeldFramesUsable
  OBVIOUS
<1>1. BInv => HeldFramesUsable
  BY FrameFacts DEF BInv, FInv, FramesOK, HeldApart, CarriedOK, CarriedOut, CarriedOnce, Carries,
    HeldFramesUsable, HeldBuffersOwned
<1> QED BY <1>1, BuffersInvariance, PTL

(* The elements of a sequence without repetition are as many as it is long. *)
LEMMA DistinctCount ==
  ASSUME NEW S, NEW q \in Seq(S), \A i, j \in DOMAIN q : q[i] = q[j] => i = j,
         NEW elems, \A x : x \in elems <=> \E i \in DOMAIN q : q[i] = x
  PROVE  IsFiniteSet(elems) /\ Cardinality(elems) = Len(q)
<1>1. Len(q) \in Nat /\ DOMAIN q = 1 .. Len(q)
  BY LenProperties
<1>2. q \in [1 .. Len(q) -> elems]
  BY <1>1, LenProperties
<1>3. q \in Bijection(1 .. Len(q), elems)
  BY <1>1, <1>2 DEF Bijection, Injection, Surjection, IsInjective
<1>4. IsFiniteSet(1 .. Len(q)) /\ Cardinality(1 .. Len(q)) = Len(q)
  BY <1>1, FS_Interval
<1> QED BY <1>3, <1>4, FS_Bijection DEF ExistsBijection

(* Two sets without a common element.                                      *)
LEMMA DisjointCount ==
  ASSUME NEW S, NEW T, IsFiniteSet(S), IsFiniteSet(T), S \cap T = {}
  PROVE  /\ IsFiniteSet(S \cup T) /\ Cardinality(S \cup T) = Cardinality(S) + Cardinality(T)
         /\ Cardinality(S) \in Nat /\ Cardinality(T) \in Nat
<1>1. Cardinality(S) \in Nat /\ Cardinality(T) \in Nat
  BY FS_CardinalityType
<1>2. Cardinality(S \cap T) = 0
  BY FS_EmptySet
<1>3. IsFiniteSet(S \cup T) /\ Cardinality(S \cup T) = Cardinality(S) + Cardinality(T) - Cardinality(S \cap T)
  BY FS_Union
<1> QED BY <1>1, <1>2, <1>3

(* The queue is as long as there are frames in it.                         *)
LEMMA QueueCounts ==
  ASSUME available \in Seq(Frames), QueueDistinct
  PROVE  LET elems == {f \in Frames : InQueue(f)}
         IN  IsFiniteSet(elems) /\ Cardinality(elems) = Len(available)
<1> DEFINE elems == {f \in Frames : InQueue(f)}
<1>1. \A x : x \in elems <=> \E i \in DOMAIN available : available[i] = x
  BY LenProperties, ElementOfSeq DEF InQueue
<1>2. \A i, j \in DOMAIN available : available[i] = available[j] => i = j
  BY DEF QueueDistinct
<1> HIDE DEF elems
<1>3. IsFiniteSet(elems) /\ Cardinality(elems) = Len(available)
  BY <1>1, <1>2, DistinctCount
<1> QED BY <1>3 DEF elems

(* The driver always has a buffer for the push thread that asks for one:   *)
(* the buffers it misses have frames of their own outside the queue, none  *)
(* of them the frame that is about to be filled.                           *)
THEOREM DriverAlwaysHasBuffer == Careful => (Spec => []DriverHasBuffer)
<1> SUFFICES ASSUME Careful PROVE Spec => []DriverHasBuffer
  OBVIOUS
<1>1. BInv => DriverHasBuffer
  <2> SUFFICES ASSUME BInv, streaming
               PROVE  Cardinality(queued) >= Len(available) + Cardinality({s \in Sources : run[s] = "fill"})
    BY DEF DriverHasBuffer
  <2> USE SourcesFacts, FrameFacts, NumBuffersAssumption DEF BInv, FInv, FramesOK
  <2> DEFINE fillers == {s \in Sources : run[s] = "fill"}
             elems == {f \in Frames : InQueue(f)}
             filled == {f \in Frames : \E s \in fillers : cur[s] = f}
             missing == Buffers \ queued
             outside == Frames \ (elems \cup filled)
  <2>1. /\ IsFiniteSet(Frames) /\ Cardinality(Frames) = NumBuffers
        /\ IsFiniteSet(Buffers) /\ Cardinality(Buffers) = NumBuffers
    BY FS_Interval DEF Frames, Buffers
  <2>2. IsFiniteSet(elems) /\ Cardinality(elems) = Len(available)
    BY QueueCounts
  <2>3. IsFiniteSet(filled) /\ Cardinality(filled) = Cardinality(fillers)
    <3>1. CASE fillers = {}
      BY <3>1, FS_EmptySet
    <3>2. CASE fillers # {}
      <4>1. PICK s \in Sources : run[s] = "fill"
        BY <3>2
      <4>2. fillers = {s}
        BY <4>1, OneRuns
      <4>3. cur[s] \in Frames
        BY <4>1
      <4>4. filled = {cur[s]}
        BY <4>2, <4>3
      <4> HIDE DEF fillers, filled
      <4> QED BY <4>2, <4>4, FS_Singleton
    <3> QED BY <3>1, <3>2
  <2>4. elems \cap filled = {}
    BY ThreadsAssumption DEF HandApart, Frames
  <2>5. IsFiniteSet(elems \cup filled) /\ Cardinality(elems \cup filled) = Len(available) + Cardinality(fillers)
    <3> HIDE DEF elems, filled, fillers
    <3>1. /\ IsFiniteSet(elems \cup filled)
          /\ Cardinality(elems \cup filled) = Cardinality(elems) + Cardinality(filled)
      BY <2>2, <2>3, <2>4, DisjointCount
    <3> QED BY <2>2, <2>3, <3>1
  <2>6. PICK h \in Injection(missing, Frames) : \A b \in missing : StandsFor(h[b], b)
    BY DEF MissingAway
  <2>7. ASSUME NEW f \in Frames, NEW b \in missing, StandsFor(f, b) PROVE f \in outside
    <3>1. CASE Away(f)
      BY <3>1 DEF Away
    <3>2. CASE \E s \in Sources : run[s] = "deliver" /\ cur[s] = f
      <4>1. f # None
        BY ThreadsAssumption DEF Frames
      <4> QED BY <3>2, <4>1, OneRuns DEF HandApart
    <3> QED BY <2>7, <3>1, <3>2 DEF StandsFor
  <2>8. h \in Injection(missing, outside)
    <3>1. \A b \in missing : h[b] \in outside
      BY <2>6, <2>7 DEF Injection
    <3> HIDE DEF missing, outside
    <3> QED BY <2>6, <3>1 DEF Injection, IsInjective
  <2>9. IsFiniteSet(outside) /\ Cardinality(outside) = NumBuffers - (Len(available) + Cardinality(fillers))
    <3>1. outside \cap (elems \cup filled) = {} /\ outside \cup (elems \cup filled) = Frames
      OBVIOUS
    <3>2. IsFiniteSet(outside)
      BY <2>1, FS_Subset
    <3> DEFINE inside == elems \cup filled
    <3>3. IsFiniteSet(inside) /\ Cardinality(inside) = Len(available) + Cardinality(fillers)
      BY <2>5
    <3> HIDE DEF outside, fillers, inside
    <3>4. /\ Cardinality(outside \cup inside) = Cardinality(outside) + Cardinality(inside)
          /\ Cardinality(outside) \in Nat /\ Cardinality(inside) \in Nat
      BY <3>1, <3>2, <3>3, DisjointCount DEF inside
    <3>5. outside \cup inside = Frames
      BY <3>1 DEF inside
    <3>6. Len(available) \in Nat /\ Cardinality(fillers) \in Nat
      BY <2>3, FS_CardinalityType, LenProperties DEF fillers
    <3>7. Cardinality(outside \cup inside) = NumBuffers
      BY <2>1, <3>5
    <3> QED BY <3>2, <3>3, <3>4, <3>6, <3>7
  <2>10. Cardinality(missing) <= Cardinality(outside)
    BY <2>8, <2>9, FS_Injection
  <2>11. IsFiniteSet(queued) /\ Cardinality(missing) = NumBuffers - Cardinality(queued)
    <3>1. missing \cap queued = {} /\ missing \cup queued = Buffers
      OBVIOUS
    <3>2. IsFiniteSet(missing) /\ IsFiniteSet(queued)
      BY <2>1, FS_Subset
    <3> HIDE DEF missing
    <3>3. /\ Cardinality(missing \cup queued) = Cardinality(missing) + Cardinality(queued)
          /\ Cardinality(missing) \in Nat /\ Cardinality(queued) \in Nat
      BY <3>1, <3>2, DisjointCount
    <3>4. Cardinality(missing \cup queued) = NumBuffers
      BY <2>1, <3>1
    <3> QED BY <3>2, <3>3, <3>4
  <2>12. Len(available) \in Nat /\ Cardinality(fillers) \in Nat /\ Cardinality(queued) \in Nat
    BY <2>2, <2>3, <2>11, FS_CardinalityType
  <2> QED BY <2>9, <2>10, <2>11, <2>12
<1> QED BY <1>1, BuffersInvariance, PTL

=============================================================================
