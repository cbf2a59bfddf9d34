---------------------------- MODULE MCFrameGrabber ----------------------------
(***************************************************************************)
(* Instances of FrameGrabber for TLC.  The .cfg files name the threads:    *)
(* "main" is the thread of the application that owns the grabber, "worker" *)
(* another thread of it, "s1" and "s2" are push sources.                   *)
(***************************************************************************)
EXTENDS FrameGrabber
===============================================================================
