----------------------------- MODULE MCRqReport -----------------------------
(* Instances of RqReport for TLC. *)
EXTENDS RqReport
=============================================================================
