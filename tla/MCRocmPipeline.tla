--------------------------- MODULE MCRocmPipeline ---------------------------
(***************************************************************************)
(* Instances of RocmPipeline for TLC; the constants are in the .cfg files. *)
(***************************************************************************)
EXTENDS RocmPipeline
=============================================================================
