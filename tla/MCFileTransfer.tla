--------------------------- MODULE MCFileTransfer ---------------------------
(* File transfers with the sizes of the .cfg files. *)
EXTENDS FileTransfer
=============================================================================
