------------------------- MODULE MCOnOffApplication -------------------------
(* The streaming server with the periods and times of the .cfg files. *)
EXTENDS OnOffApplication
=============================================================================
