------------------------------ MODULE DriverQueue ------------------------------
(***************************************************************************)
(* The V4L2 buffer queue of one capture device, as libvideo's v4l2-input.c *)
(* drives it: start_capture, dequeue_buffer, enqueue_buffer, stop_capture  *)
(* and free_capture.  The kernel side is external: VIDIOC_QBUF refuses a   *)
(* buffer that is queued already, VIDIOC_STREAMOFF takes every buffer out  *)
(* of the queue, a blocking VIDIOC_DQBUF waits for a queued buffer while   *)
(* the device streams and fails when it does not.                          *)
(***************************************************************************)
EXTENDS Integers, FiniteSets

CONSTANT NumBuffers   (* buffers the driver granted (req.count)            *)

ASSUME NumBuffersAssumption == NumBuffers \in Nat \ {0}

VARIABLES
  queued,     (* indices of the buffers the driver owns                    *)
  streaming,  (* between VIDIOC_STREAMON and VIDIOC_STREAMOFF              *)
  freed       (* free_capture has unmapped and freed the buffers           *)

driverVars == <<queued, streaming, freed>>

Buffers == 0 .. NumBuffers - 1

DriverInit == queued = {} /\ streaming = FALSE /\ freed = FALSE

(* start_capture_v4l2: every buffer is enqueued in index order, then the   *)
(* stream is switched on.  The first VIDIOC_QBUF that fails ends the call; *)
(* buffers enqueued before it stay with the driver.                        *)
CanEnqueueAll == queued = {}

StartCapture ==
  /\ CanEnqueueAll
  /\ queued' = Buffers
  /\ streaming' = TRUE
  /\ UNCHANGED freed

(* It fails on buffer k: k is queued already, or the ioctl fails for a     *)
(* reason of the device (fault).  k = NumBuffers is VIDIOC_STREAMON.       *)
StartCaptureFails(fault) ==
  \E k \in 0 .. NumBuffers :
    /\ \A b \in 0 .. k - 1 : b \notin queued
    /\ k \in queued \/ fault
    /\ queued' = queued \cup 0 .. k - 1
    /\ UNCHANGED <<streaming, freed>>

(* dequeue_buffer_v4l2 returning buffer b. *)
Dequeue(b) ==
  /\ streaming
  /\ b \in queued
  /\ queued' = queued \ {b}
  /\ UNCHANGED <<streaming, freed>>

(* enqueue_buffer_v4l2: the error of a refused buffer is logged, not       *)
(* reported.                                                               *)
Enqueue(b) == queued' = queued \cup {b} /\ UNCHANGED <<streaming, freed>>

(* stop_capture_v4l2 *)
StopCapture == queued' = {} /\ streaming' = FALSE /\ UNCHANGED freed

(* free_capture_v4l2: munmap, then VIDIOC_REQBUFS with a count of 0. *)
FreeCapture == queued' = {} /\ freed' = TRUE /\ UNCHANGED streaming
================================================================================
