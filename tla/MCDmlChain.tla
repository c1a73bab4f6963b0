----------------------------- MODULE MCDmlChain -----------------------------
(***************************************************************************)
(* An instance of DmlChain for TLC.                                        *)
(***************************************************************************)
EXTENDS DmlChain, MCFiles

\* The larger video goes through an fp16 and an fp32 network, with a resize
\* between them if it has the first chain, which RIFE follows.  The smaller
\* one is made smaller still before RIFE, or is only interpolated; in the
\* other slot it is enlarged before RIFE, and that is all.
MCSection ==
    (1 :> [Chain(<<Model("sd", 100, 0), Model("performance", 50, 0)>>,
                 TRUE, FALSE) EXCEPT !.min = <<700, 700>>]
     @@ 2 :> [Chain(<<Model("sd", 50, 0), Model("performance", 100, 0)>>,
                    FALSE, TRUE) EXCEPT !.min = <<700, 700>>]
     @@ 3 :> Chain(<<Model("balanced", 40, 0)>>, TRUE, TRUE)
     @@ 4 :> Chain(<<>>, TRUE, FALSE))

MCOther ==
    (1 :> [Chain(<<Model("sd", 100, 0), Model("performance", 100, 0)>>,
                 FALSE, TRUE) EXCEPT !.min = <<700, 700>>]
     @@ 2 :> Chain(<<Model(NoNet, 150, 0)>>, TRUE, TRUE))

MCConf == {File(1 :> MCSection @@ 2 :> MCOther, NoCap)}

MCHalf == "sd" :> TRUE @@ "balanced" :> TRUE @@ "performance" :> FALSE
           @@ "balanced sharp" :> TRUE @@ "performance sharp" :> FALSE
MCLibraries == {{"sd", "performance"}, {"sd", "balanced", "performance"}}

\* The hypothesis of the theorems about sizes.
ASSUME SizesTyped == ProfilesTyped
=============================================================================
