---------------------------- MODULE MCTranscode -----------------------------
(***************************************************************************)
(* Instances of Transcode for TLC; the constants are in the .cfg files.    *)
(***************************************************************************)
EXTENDS Transcode
=============================================================================
