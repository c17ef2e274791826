---------------------------- MODULE MCRqEncoder -----------------------------
(* Instances of RqEncoder for TLC. *)
EXTENDS RqEncoder
=============================================================================
