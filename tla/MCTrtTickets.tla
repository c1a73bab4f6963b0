---------------------------- MODULE MCTrtTickets ----------------------------
(***************************************************************************)
(* Instances of TrtTickets for TLC; the constants are in the .cfg files.   *)
(***************************************************************************)
EXTENDS TrtTickets
=============================================================================
