---------------------------- MODULE MCRocmBuild -----------------------------
(***************************************************************************)
(* Instances of RocmBuild for TLC: a chain of a model and RIFE, and one of *)
(* the model alone.                                                        *)
(***************************************************************************)
EXTENDS RocmBuild

CONSTANTS model, interp

MCEngines == {model, interp}
MCChains == {[models |-> <<model>>, rife |-> <<interp>>],
             [models |-> <<model>>, rife |-> << >>]}
=============================================================================
