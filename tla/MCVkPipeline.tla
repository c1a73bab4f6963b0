---------------------------- MODULE MCVkPipeline ----------------------------
(***************************************************************************)
(* Instances of VkPipeline for TLC: what num_workers is, and how the       *)
(* filter collects.                                                        *)
(***************************************************************************)
EXTENDS VkPipeline

Mode(n, oldest, looks) ==
    [workers |-> n, oldestFirst |-> oldest, looks |-> looks]

\* The format of the frames changes, and changes back; or it does not.
Changing == [f \in Frames |-> IF f \in {2, 3} THEN "p010" ELSE "nv12"]
Alike == [f \in Frames |-> "nv12"]

\* The setting of the comment in aji_wait, one worker and any drain, and two
\* workers under a filter that only ever collects its oldest ticket.
MCModes == {Mode(1, FALSE, Changing), Mode(2, TRUE, Alike)}
MCParallelDrain == {Mode(2, FALSE, Alike)}
=============================================================================
