----------------------------- MODULE MCTrtChain -----------------------------
(***************************************************************************)
(* Instances of TrtChain for TLC: a 4:3 and a 16:9 video, and a profile    *)
(* with a chain for either; a network may be missing.                      *)
(***************************************************************************)
EXTENDS TrtChain, MCFiles

\* The larger video is enlarged far, and taken back to what the dynamic engine
\* takes.  For the smaller one RIFE comes first, on a frame made smaller, and
\* two networks with a resize between them follow; without the second
\* network RIFE comes last.
MCSection ==
    (1 :> [Chain(<<Model("sd", 250, 0), Model("sd", 100, 0)>>, FALSE, TRUE)
             EXCEPT !.min = <<700, 700>>]
     @@ 2 :> Chain(<<Model("sd", 50, 0), Model("balanced", 100, 360)>>,
                   TRUE, TRUE)
     @@ 3 :> Chain(<<Model("sd", 100, 0)>>, TRUE, FALSE))

MCConf == {File(1 :> MCSection, <<1280, 720>>)}

MCLibraries == {{"sd", "balanced"}, {"sd"}}

\* The hypothesis of the theorems about sizes.
ASSUME SizesTyped == ProfilesTyped
=============================================================================
