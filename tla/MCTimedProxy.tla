---------------------------- MODULE MCTimedProxy ----------------------------
(* Instances of TimedProxy for TLC. *)
EXTENDS TimedProxy
=============================================================================
