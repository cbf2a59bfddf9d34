------------------------------ MODULE MCControls ------------------------------
(***************************************************************************)
(* Instances of Controls for TLC: threads "t1" .. "t3" share a device      *)
(* whose driver has one control of each kind the run is about.             *)
(***************************************************************************)
EXTENDS Controls
===============================================================================
