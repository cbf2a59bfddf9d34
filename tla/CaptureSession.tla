---------------------------- MODULE CaptureSession ----------------------------
(***************************************************************************)
(* What a FrameGrabber promises to an application that uses it, without    *)
(* threads, monitors, queues or locations: the life of the grabber, and    *)
(* the frames the application holds, each a view on one driver buffer.     *)
(*                                                                         *)
(* - a frame is delivered only while capturing, never once a stop has been *)
(*   asked for, and never a frame object the application still holds;      *)
(* - the image of a held frame is not touched: its buffer stays the one it *)
(*   was delivered with, and is not delivered again under another frame;   *)
(* - a stop that was asked for completes, and then capture can begin anew  *)
(*   or the grabber be closed for good.                                    *)
(***************************************************************************)
EXTENDS Integers

CONSTANTS
  Frames,        (* the VideoFrame objects of the grabber                    *)
  Buffers,       (* the driver's buffers                                     *)
  ForgetAtEnd    (* the application drops the frames it holds at a stop      *)

VARIABLES
  phase,  (* where the grabber is in its life                                *)
  view    (* the held frames, each with the buffer it shows                  *)

sessionVars == <<phase, view>>

Phases == {"new", "idle", "capturing", "stopping", "closing", "released"}
NoView == [f \in {} |-> 0]

SessionInit == phase = "new" /\ view = NoView

Open    == phase = "new"       /\ phase' = "idle"      /\ UNCHANGED view
Begin   == phase = "idle"      /\ phase' = "capturing" /\ UNCHANGED view
Halt    == phase = "capturing" /\ phase' = "stopping"  /\ UNCHANGED view
Close   == phase = "idle"      /\ phase' = "closing"   /\ UNCHANGED view
Closed  == phase = "closing"   /\ phase' = "released"  /\ UNCHANGED view

End ==
  /\ phase = "stopping"
  /\ phase' = "idle"
  /\ view' = IF ForgetAtEnd THEN NoView ELSE view

Deliver(f, b) ==
  /\ phase = "capturing"
  /\ f \notin DOMAIN view
  /\ \A g \in DOMAIN view : view[g] # b
  /\ view' = [g \in DOMAIN view \cup {f} |-> IF g = f THEN b ELSE view[g]]
  /\ UNCHANGED phase

GiveBack(f) ==
  /\ f \in DOMAIN view
  /\ view' = [g \in DOMAIN view \ {f} |-> view[g]]
  /\ UNCHANGED phase

SessionNext ==
  \/ Open \/ Begin \/ Halt \/ End \/ Close \/ Closed
  \/ \E f \in Frames : GiveBack(f) \/ \E b \in Buffers : Deliver(f, b)

SessionSpec == SessionInit /\ [][SessionNext]_sessionVars

(* A stop or a release that has begun gets to its end. *)
SessionLiveSpec == SessionSpec /\ WF_sessionVars(End) /\ WF_sessionVars(Closed)
===============================================================================
