---------------------------- MODULE MCDmlFences -----------------------------
(***************************************************************************)
(* Instances of DmlFences for TLC; the constants are in the .cfg files.    *)
(***************************************************************************)
EXTENDS DmlFences
=============================================================================
