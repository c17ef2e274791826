---------------------------- MODULE MCRqPipeline ----------------------------
(* Instances of RqPipeline for TLC. *)
EXTENDS RqPipeline
=============================================================================
