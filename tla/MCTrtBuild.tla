---------------------------- MODULE MCTrtBuild ------------------------------
(***************************************************************************)
(* Instances of TrtBuild for TLC: a model and an interpolation engine, and *)
(* two chains that share the model.  The interpolation engine, even a      *)
(* whole one, may not load.                                                *)
(***************************************************************************)
EXTENDS TrtBuild

CONSTANTS model, rife

MCEngines == {model, rife}
MCFrail == {rife}
MCChains == {<<model>>, <<model, rife>>}
=============================================================================
