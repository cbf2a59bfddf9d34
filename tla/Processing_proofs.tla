-------------------------- MODULE Processing_proofs --------------------------
(***************************************************************************)
(* Proofs about SoftControls and Processing: for any handles, any camera   *)
(* (its controls, flags and ranges), any light and any way brightness      *)
(* depends on exposure and gain, and any number of settings and changes of *)
(* the light.                                                              *)
(***************************************************************************)
EXTENDS Processing, TLAPS, SequenceTheorems

(* How many frames may be in flight: the two that autogain.c skips.        *)
ShortPipeline == FramesInFlight <= 2

(* The frames in flight are a queue of fixed length.                       *)
PipelineFull == inflight = [i \in 1 .. FramesInFlight |-> inflight[i]]

(* struct v4lprocessing_data, and its counter.                             *)
ProcFields == {"do_process", "controls_changed", "counter", "hurried", "active",
               "wb", "gamma", "avg", "last_gain_correction"}
IsProc(p)  == p = [f \in ProcFields |-> p[f]]
Counts(p)  == p.counter \in 0 .. UPDATE_RATE

ProcsOK ==
  /\ proc = [h \in Streamers |-> proc[h]]
  /\ \A h \in Streamers : IsProc(proc[h]) /\ Counts(proc[h])

StreamerOK == streamer \in Streamers \cup {NoHandle}

(* The i-th frame in flight was taken before the last correction.          *)
IsOld(i) == inflight[i] # hw

(* Unless white balance cuts in, the next update is not due before the old *)
(* frames are through.                                                     *)
OldFramesPass ==
  streamer # NoHandle /\ ~proc[streamer].hurried
    => \A i \in 1 .. FramesInFlight : IsOld(i) => proc[streamer].counter + i <= UPDATE_RATE

PInv == PipelineFull /\ ProcsOK /\ StreamerOK /\ OldFramesPass

-----------------------------------------------------------------------------
(* Settings.                                                               *)

(* A step that opens a handle other than the first, or closes one, leaves  *)
(* the values alone; a setting is counted.                                 *)
THEOREM SettingsOutliveHandles == Spec => SettingsSurvive
<1> DEFINE Filled == shm_values # Absent /\ \A h \in Handles : handle[h] # "creating"
           Kept   == Filled => (shm_values' # shm_values => sets' = sets + 1)
<1>1. ASSUME Next, Filled, shm_values' # shm_values
      PROVE  sets' = sets + 1
  <2>1. CASE UserStep
    <3>1. PICK h \in Handles : Create(h) \/ FillDefaults(h)
                 \/ \E c \in DOMAIN SetValues : \E v \in SetValues[c] : SetCtrl(h, c, v)
      BY <2>1 DEF UserStep
    <3>2. ~Create(h)
      BY <1>1 DEF Create
    <3>3. ~FillDefaults(h)
      BY <1>1 DEF FillDefaults
    <3> QED BY <3>1, <3>2, <3>3 DEF SetCtrl
  <2>2. ASSUME NEW h \in Handles, Close(h)
        PROVE  FALSE
    BY <1>1, <2>2 DEF Close, Destroy
  <2>3. ASSUME NEW h \in Streamers, StartStream(h)
        PROVE  FALSE
    BY <1>1, <2>3 DEF StartStream, controlVars
  <2>4. ASSUME NEW h \in Streamers, v4lprocessing_pre_processing(h)
        PROVE  FALSE
    BY <1>1, <2>4 DEF v4lprocessing_pre_processing
  <2>5. ASSUME NEW h \in Streamers, v4lprocessing_processing(h)
        PROVE  FALSE
    BY <1>1, <2>5, Zenon DEF v4lprocessing_processing, controlVars
  <2>6. ~StopStream /\ ~DamagedFrame /\ ~ChangeScene
    BY <1>1 DEF StopStream, DamagedFrame, ChangeScene, controlVars
  <2> QED BY <1>1, <2>1, <2>2, <2>3, <2>4, <2>5, <2>6 DEF Next
<1>2. [Next]_vars => [Kept]_controlVars
  BY <1>1 DEF vars, controlVars
<1> QED BY <1>2, PTL DEF Spec, SettingsSurvive

-----------------------------------------------------------------------------
(* Frames in flight.                                                       *)

(* A new frame comes in at the end, the others move up.                    *)
LEMMA FramesMoveUp ==
  ASSUME PipelineFull, NextFrame
  PROVE  /\ PipelineFull'
         /\ \A i \in 1 .. FramesInFlight :
              inflight'[i] = IF i = FramesInFlight THEN hw ELSE inflight[i + 1]
<1> DEFINE S == {inflight[i] : i \in 1 .. FramesInFlight} \cup {hw}
<1>1. FramesInFlight \in Nat \ {0}
  BY ProcessingAssumption
<1>2. inflight \in [1 .. FramesInFlight -> S]
  BY DEF PipelineFull
<1>3. inflight \in Seq(S) /\ Len(inflight) = FramesInFlight /\ hw \in S
  <2>1. inflight \in Seq(S)
    BY <1>1, <1>2
  <2>2. DOMAIN inflight = 1 .. FramesInFlight
    BY <1>2
  <2> QED BY <1>1, <2>1, <2>2
<1> HIDE DEF S
<1>4. inflight' = Append(Tail(inflight), hw)
  BY DEF NextFrame
<1>5. /\ Tail(inflight) \in Seq(S) /\ Len(Tail(inflight)) = FramesInFlight - 1
      /\ \A i \in 1 .. FramesInFlight - 1 : Tail(inflight)[i] = inflight[i + 1]
  BY <1>1, <1>3
<1>6. inflight' \in Seq(S) /\ Len(inflight') = FramesInFlight
  BY <1>1, <1>3, <1>4, <1>5
<1>7. inflight' \in [1 .. FramesInFlight -> S]
  BY <1>1, <1>6
<1>8. PipelineFull'
  BY <1>7 DEF PipelineFull
<1>9. \A i \in 1 .. FramesInFlight :
        inflight'[i] = IF i = FramesInFlight THEN hw ELSE inflight[i + 1]
  BY <1>1, <1>3, <1>4, <1>5
<1> QED BY <1>8, <1>9

(* A stream starts with frames taken with the settings in force.           *)
LEMMA SettledIsFull ==
  ASSUME inflight' = Settled, hw' = hw
  PROVE  PipelineFull' /\ \A i \in 1 .. FramesInFlight : ~IsOld(i)'
BY DEF Settled, PipelineFull, IsOld

-----------------------------------------------------------------------------
(* The update of the lookup tables.                                        *)

(* What an update may leave in the counter: nothing, the two frames that   *)
(* automatic gain skips, or white balance's hurry.                         *)
Asked(p) == p.counter \in {0, UPDATE_RATE - 2} \/ (p.counter = UPDATE_RATE /\ p.hurried = TRUE)

(* Filters that are off forget what they knew, and nothing of the counter. *)
LEMMA ForgetKeepsCounter ==
  ASSUME NEW p, IsProc(p)
  PROVE  LET q == Forget(p) IN
         IsProc(q) /\ q.counter = p.counter /\ q.hurried = p.hurried
BY DEF Forget, IsProc, ProcFields

(* White balance hurries, or leaves the counter alone.                     *)
LEMMA WhiteBalanceAsks ==
  ASSUME NEW p, IsProc(p), p.counter = 0, p.hurried = FALSE
  PROVE  LET q == whitebalance_calculate_lookup_tables(p) IN
         IsProc(q) /\ (q.counter = 0 \/ (q.counter = UPDATE_RATE /\ q.hurried = TRUE))
<1> DEFINE seen       == Clipped(scene.colours)
           first      == p.avg = Linear
           avg        == IF first THEN seen
                         ELSE [i \in 1 .. 3 |-> Approach(p.avg[i], seen[i])]
           throttling == ~first /\ avg # seen
           white      == WhiteTable(avg)
           turnedOn   == p.active \/ white # Linear
           hurry      == throttling /\ p.counter = 0
           count      == IF throttling /\ p.counter = 0 THEN UPDATE_RATE ELSE p.counter
           q == [p EXCEPT !.avg = avg, !.wb = white, !.active = turnedOn,
                          !.counter = count, !.hurried = hurry]
<1>1. whitebalance_calculate_lookup_tables(p) = q
  BY Zenon DEF whitebalance_calculate_lookup_tables
<1>2. count = 0 \/ (count = UPDATE_RATE /\ hurry = TRUE)
  OBVIOUS
<1> HIDE DEF avg, white, turnedOn, hurry, count
<1>3. IsProc(q)
  BY DEF IsProc, ProcFields
<1>4. q.counter = count /\ q.hurried = hurry
  BY DEF IsProc, ProcFields
<1> HIDE DEF q
<1> QED BY <1>1, <1>2, <1>3, <1>4, Zenon

(* Automatic gain asks for two frames, or leaves the counter alone.        *)
LEMMA AutogainAsks ==
  ASSUME NEW p, NEW frame, IsProc(p)
  PROVE  LET q == autogain_calculate_lookup_tables(p, frame) IN
         IsProc(q) /\ (q = p \/ q.counter = UPDATE_RATE - 2)
<1> DEFINE steps == GainSteps(p, frame)
           q == [p EXCEPT !.last_gain_correction = steps, !.counter = UPDATE_RATE - 2,
                          !.hurried = FALSE]
<1>1. autogain_calculate_lookup_tables(p, frame) \in {p, q}
  BY Zenon DEF autogain_calculate_lookup_tables
<1> HIDE DEF steps
<1>2. IsProc(q)
  BY DEF IsProc, ProcFields
<1>3. q.counter = UPDATE_RATE - 2
  BY DEF IsProc, ProcFields
<1> HIDE DEF q
<1> QED BY <1>1, <1>2, <1>3

(* Gamma leaves the counter alone.                                         *)
LEMMA GammaAsksNothing ==
  ASSUME NEW p, IsProc(p)
  PROVE  LET q == gamma_calculate_lookup_tables(p) IN
         IsProc(q) /\ q.counter = p.counter /\ q.hurried = p.hurried
BY DEF gamma_calculate_lookup_tables, IsProc, ProcFields

(* The filters in turn, as v4lprocessing_processing calls them.            *)
LEMMA UpdateAsks ==
  ASSUME NEW p, NEW frame, IsProc(p), p.counter = 0, p.hurried = FALSE
  PROVE  LET q == v4lprocessing_update_lookup_tables(p, frame) IN
         IsProc(q) /\ Asked(q)
<1> DEFINE linear == [Forget(p) EXCEPT !.wb = Linear, !.gamma = 0, !.active = FALSE]
           white  == IF whitebalance_active
                        THEN whitebalance_calculate_lookup_tables(linear) ELSE linear
           gained == IF autogain_active
                        THEN autogain_calculate_lookup_tables(white, frame) ELSE white
<1>1. IsProc(linear) /\ linear.counter = 0 /\ linear.hurried = FALSE
  BY ForgetKeepsCounter DEF IsProc, ProcFields
<1> HIDE DEF linear
<1>2. IsProc(white) /\ (white.counter = 0 \/ (white.counter = UPDATE_RATE /\ white.hurried = TRUE))
  BY <1>1, WhiteBalanceAsks
<1> HIDE DEF white
<1>3. IsProc(gained) /\ Asked(gained)
  BY <1>2, AutogainAsks DEF Asked
<1> HIDE DEF gained
<1>4. v4lprocessing_update_lookup_tables(p, frame)
        = IF gamma_active THEN gamma_calculate_lookup_tables(gained) ELSE gained
  BY Zenon DEF v4lprocessing_update_lookup_tables, linear, white, gained
<1> QED BY <1>3, <1>4, GammaAsksNothing DEF Asked

-----------------------------------------------------------------------------
(* The invariant.                                                          *)

(* A handle's data at the end of v4lprocessing_processing.                 *)
Processed(p, frame) ==
  IF ~p.do_process THEN p
  ELSE [(IF UpdateDue(p)
           THEN v4lprocessing_update_lookup_tables(
                  [p EXCEPT !.controls_changed = FALSE, !.counter = 0, !.hurried = FALSE], frame)
           ELSE [p EXCEPT !.counter = @ + 1]) EXCEPT !.do_process = FALSE]

(* A frame either brings the next update one nearer, or leaves it where it *)
(* is, or was an update itself.                                            *)
LEMMA ProcessedCounts ==
  ASSUME NEW p, NEW frame, IsProc(p), Counts(p)
  PROVE  LET q == Processed(p, frame) IN
         /\ IsProc(q) /\ Counts(q)
         /\ ~(p.do_process /\ UpdateDue(p)) =>
              q.hurried = p.hurried /\ q.counter <= p.counter + 1
         /\ (p.do_process /\ UpdateDue(p)) => Asked(q)
<1> DEFINE start == [p EXCEPT !.controls_changed = FALSE, !.counter = 0, !.hurried = FALSE]
           q     == Processed(p, frame)
<1>1. CASE ~p.do_process
  <2>1. q = p
    BY <1>1 DEF Processed
  <2> QED BY <1>1, <2>1 DEF Counts, UPDATE_RATE
<1>2. CASE p.do_process /\ UpdateDue(p)
  <2> DEFINE r == v4lprocessing_update_lookup_tables(start, frame)
  <2>1. IsProc(start)
    BY DEF IsProc, ProcFields
  <2>2. start.counter = 0 /\ start.hurried = FALSE
    BY DEF IsProc, ProcFields
  <2>3. q = [r EXCEPT !.do_process = FALSE]
    BY <1>2, Zenon DEF Processed
  <2> HIDE DEF start
  <2>4. IsProc(r) /\ Asked(r)
    BY <2>1, <2>2, UpdateAsks
  <2> HIDE DEF r, q
  <2>5. IsProc(q)
    BY <2>3, <2>4 DEF IsProc, ProcFields
  <2>6. q.counter = r.counter /\ q.hurried = r.hurried
    BY <2>3, <2>4 DEF IsProc, ProcFields
  <2>7. Asked(q) /\ Counts(q)
    BY <2>4, <2>6 DEF Asked, Counts, UPDATE_RATE
  <2> QED BY <1>2, <2>5, <2>7 DEF q
<1>3. CASE p.do_process /\ ~UpdateDue(p)
  <2> DEFINE next == p.counter + 1
  <2>1. q = [[p EXCEPT !.counter = next] EXCEPT !.do_process = FALSE]
    BY <1>3, Zenon DEF Processed
  <2>2. p.counter # UPDATE_RATE
    BY <1>3 DEF UpdateDue
  <2>3. next \in 0 .. UPDATE_RATE /\ next <= p.counter + 1
    BY <2>2 DEF Counts, UPDATE_RATE
  <2> HIDE DEF q, next
  <2>4. IsProc(q)
    BY <2>1 DEF IsProc, ProcFields
  <2>5. q.hurried = p.hurried /\ q.counter = next
    BY <2>1 DEF IsProc, ProcFields
  <2> QED BY <1>3, <2>3, <2>4, <2>5 DEF q, Counts
<1> QED BY <1>1, <1>2, <1>3

LEMMA PInvInit == Init => PInv
<1> SUFFICES ASSUME Init PROVE PInv
  OBVIOUS
<1>1. IsProc(FreshProc)
  BY DEF IsProc, ProcFields, FreshProc
<1>2. Counts(FreshProc)
  BY DEF Counts, FreshProc, UPDATE_RATE
<1>3. ProcsOK
  BY <1>1, <1>2 DEF Init, ProcsOK
<1> QED BY <1>3 DEF Init, PInv, PipelineFull, StreamerOK, OldFramesPass, Settled

(* Frames move up, and the streaming handle's counter does not outrun them.*)
LEMMA PassingOn ==
  ASSUME PInv, NextFrame, streamer' = streamer, hw' = hw, ProcsOK',
         streamer \in Streamers,
         proc'[streamer].hurried = proc[streamer].hurried,
         proc'[streamer].counter <= proc[streamer].counter + 1
  PROVE  PInv'
<1>1. /\ PipelineFull'
      /\ \A i \in 1 .. FramesInFlight :
           inflight'[i] = IF i = FramesInFlight THEN hw ELSE inflight[i + 1]
  BY FramesMoveUp DEF PInv
<1>2. FramesInFlight \in Nat \ {0}
  BY ProcessingAssumption
<1>3. proc[streamer].counter \in Int /\ proc'[streamer].counter \in Int
  BY DEF PInv, ProcsOK, Counts, UPDATE_RATE
<1>4. OldFramesPass'
  BY <1>1, <1>2, <1>3 DEF PInv, OldFramesPass, IsOld, UPDATE_RATE
<1> QED BY <1>1, <1>4 DEF PInv, StreamerOK

LEMMA ProcessingKeepsInv ==
  ASSUME ShortPipeline, PInv, NEW h \in Streamers, v4lprocessing_processing(h)
  PROVE  PInv'
<1> DEFINE p == proc[h]
           q == Processed(p, Head(inflight))
<1>1. streamer = h /\ streamer' = h /\ NextFrame
  BY Zenon DEF v4lprocessing_processing
<1>2. proc' = [proc EXCEPT ![h] = q]
  BY Zenon DEF v4lprocessing_processing, Processed, UpdateDue
<1>3. hw' # hw => p.do_process /\ UpdateDue(p)
  BY Zenon DEF v4lprocessing_processing
<1>4. IsProc(p) /\ Counts(p)
  BY DEF PInv, ProcsOK
<1>5. /\ IsProc(q) /\ Counts(q)
      /\ ~(p.do_process /\ UpdateDue(p)) => q.hurried = p.hurried /\ q.counter <= p.counter + 1
      /\ (p.do_process /\ UpdateDue(p)) => Asked(q)
  BY <1>4, ProcessedCounts
<1> HIDE DEF q
<1>6. proc'[h] = q /\ ProcsOK'
  BY <1>2, <1>5 DEF PInv, ProcsOK
<1>7. CASE p.do_process /\ UpdateDue(p)
  <2>1. PipelineFull'
    BY <1>1, FramesMoveUp DEF PInv
  <2>2. OldFramesPass'
    BY <1>1, <1>5, <1>6, <1>7, ProcessingAssumption
       DEF OldFramesPass, ShortPipeline, Asked, UPDATE_RATE
  <2> QED BY <1>1, <1>6, <2>1, <2>2 DEF PInv, StreamerOK
<1>8. CASE ~(p.do_process /\ UpdateDue(p))
  BY <1>1, <1>3, <1>5, <1>6, <1>8, PassingOn
<1> QED BY <1>7, <1>8

LEMMA PreProcessingKeepsInv ==
  ASSUME PInv, NEW h \in Streamers, v4lprocessing_pre_processing(h)
  PROVE  PInv'
<1> DEFINE p == proc[h]
           f == Forget(p)
           changed == f.controls_changed \/ ControlsChanged(h)
           filters == AnyFilter
           q == [f EXCEPT !.do_process = filters, !.controls_changed = changed]
<1>1. IsProc(p) /\ Counts(p)
  BY DEF PInv, ProcsOK
<1>2. IsProc(f) /\ f.counter = p.counter /\ f.hurried = p.hurried
  BY <1>1, ForgetKeepsCounter
<1>3. proc' = [proc EXCEPT ![h] = q]
  BY Zenon DEF v4lprocessing_pre_processing
<1> HIDE DEF f, changed, filters
<1>4. IsProc(q)
  BY <1>2 DEF IsProc, ProcFields
<1>5. q.counter = p.counter /\ q.hurried = p.hurried
  BY <1>2 DEF IsProc, ProcFields
<1> HIDE DEF q
<1>6. Counts(q)
  BY <1>1, <1>5 DEF Counts
<1>7. proc'[h] = q /\ ProcsOK'
  BY <1>3, <1>4, <1>6 DEF PInv, ProcsOK
<1>8. streamer = h /\ streamer' = h /\ hw' = hw /\ inflight' = inflight
  BY Zenon DEF v4lprocessing_pre_processing
<1> QED BY <1>5, <1>7, <1>8 DEF PInv, PipelineFull, StreamerOK, OldFramesPass, IsOld

LEMMA CloseKeepsInv ==
  ASSUME PInv, NEW h \in Handles, Close(h)
  PROVE  PInv'
<1>1. /\ streamer # h /\ streamer' = streamer /\ hw' = hw /\ inflight' = inflight
      /\ proc' = [s \in Streamers |-> IF s = h THEN FreshProc ELSE proc[s]]
  BY DEF Close
<1>2. IsProc(FreshProc) /\ Counts(FreshProc)
  BY DEF IsProc, ProcFields, FreshProc, Counts, UPDATE_RATE
<1>3. ProcsOK'
  BY <1>1, <1>2 DEF PInv, ProcsOK
<1>4. streamer # NoHandle => proc'[streamer] = proc[streamer]
  BY <1>1 DEF PInv, StreamerOK
<1> QED BY <1>1, <1>3, <1>4 DEF PInv, PipelineFull, StreamerOK, OldFramesPass, IsOld

LEMMA PInvStep ==
  ASSUME ShortPipeline, PInv, [Next]_vars
  PROVE  PInv'
<1>1. ASSUME UNCHANGED procVars
      PROVE  PInv'
  BY <1>1 DEF procVars, PInv, PipelineFull, ProcsOK, StreamerOK, OldFramesPass, IsOld
<1>2. ASSUME NEW h \in Streamers, StartStream(h)
      PROVE  PInv'
  <2>1. streamer' = h /\ inflight' = Settled /\ hw' = hw /\ proc' = proc
    BY <1>2 DEF StartStream
  <2>2. PipelineFull' /\ \A i \in 1 .. FramesInFlight : ~IsOld(i)'
    BY <2>1, SettledIsFull
  <2> QED BY <2>1, <2>2 DEF PInv, ProcsOK, StreamerOK, OldFramesPass
<1>3. ASSUME StopStream
      PROVE  PInv'
  BY <1>3 DEF StopStream, PInv, PipelineFull, ProcsOK, StreamerOK, OldFramesPass
<1>4. ASSUME DamagedFrame
      PROVE  PInv'
  <2>1. NextFrame /\ streamer' = streamer /\ hw' = hw /\ proc' = proc
    BY <1>4 DEF DamagedFrame
  <2>2. ProcsOK'
    BY <2>1 DEF PInv, ProcsOK
  <2>3. CASE streamer = NoHandle
    <3>1. PipelineFull'
      BY <2>1, FramesMoveUp DEF PInv
    <3> QED BY <2>1, <2>2, <2>3, <3>1 DEF PInv, StreamerOK, OldFramesPass
  <2>4. CASE streamer \in Streamers
    <3>1. proc[streamer].counter <= proc[streamer].counter + 1
      BY <2>4 DEF PInv, ProcsOK, Counts, UPDATE_RATE
    <3> QED BY <2>1, <2>2, <2>4, <3>1, PassingOn
  <2> QED BY <2>3, <2>4 DEF PInv, StreamerOK
<1>5. ASSUME ChangeScene
      PROVE  PInv'
  BY <1>5 DEF ChangeScene, PInv, PipelineFull, ProcsOK, StreamerOK, OldFramesPass, IsOld
<1>6. CASE Next
  BY <1>1, <1>2, <1>3, <1>4, <1>5, <1>6, CloseKeepsInv, PreProcessingKeepsInv, ProcessingKeepsInv
     DEF Next
<1>7. CASE UNCHANGED vars
  BY <1>1, <1>7 DEF vars
<1> QED BY <1>6, <1>7

(* A correction because of the counter, and not because of a control or of *)
(* white balance, is made by a frame taken with the settings in force.     *)
LEMMA CorrectionsAreFresh ==
  ASSUME ShortPipeline, PInv, [Next]_vars, hw' # hw
  PROVE  \/ proc[streamer].controls_changed
         \/ proc[streamer].hurried
         \/ Head(inflight) = hw
<1>1. PICK h \in Streamers : v4lprocessing_processing(h)
  BY DEF Next, procVars, Close, StartStream, v4lprocessing_pre_processing, StopStream,
     DamagedFrame, ChangeScene, vars
<1>2. streamer = h /\ UpdateDue(proc[h])
  BY <1>1, Zenon DEF v4lprocessing_processing
<1>3. NoHandle \notin Streamers /\ FramesInFlight \in Nat \ {0}
  BY ProcessingAssumption
<1>4. CASE proc[h].counter = UPDATE_RATE /\ ~proc[h].hurried
  <2>1. ~IsOld(1)
    BY <1>2, <1>3, <1>4 DEF PInv, OldFramesPass, UPDATE_RATE
  <2>2. Head(inflight) = inflight[1]
    BY <1>3 DEF PInv, PipelineFull
  <2> QED BY <2>1, <2>2 DEF IsOld
<1> QED BY <1>2, <1>4 DEF UpdateDue

(* Automatic gain judges by frames that show its last correction, if no    *)
(* more than two are in flight.                                            *)
THEOREM OldFramesAreIgnored ==
  ASSUME ShortPipeline
  PROVE  Spec => NoReactionToOldFrames
<1>1. Init => PInv
  BY PInvInit
<1>2. PInv /\ [Next]_vars => PInv'
  BY PInvStep
<1>3. PInv /\ [Next]_vars =>
        [hw' # hw => \/ proc[streamer].controls_changed
                     \/ proc[streamer].hurried
                     \/ Head(inflight) = hw]_vars
  BY CorrectionsAreFresh
<1> QED BY <1>1, <1>2, <1>3, PTL DEF Spec, NoReactionToOldFrames
==============================================================================
