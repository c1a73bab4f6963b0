------------------------------- MODULE MCFiles -------------------------------
(***************************************************************************)
(* Files of profiles, for the instances of TrtChain and DmlChain.          *)
(***************************************************************************)
EXTENDS Profile

Model(net, factor, height) ==
    [net |-> net, factor |-> factor, height |-> height]
Chain(models, isRife, isBefore) ==
    [min |-> <<0, 0>>, max |-> <<0, 0>>, minFps |-> 0, maxFps |-> 0,
     models |-> models, rife |-> isRife, before |-> isBefore]
File(slots, cap) ==
    [version |-> 2, settings |-> [legacy |-> FALSE, cap |-> cap],
     sharp |-> {1001}, slots |-> slots]

MCScale == "sd" :> 2 @@ "balanced" :> 2 @@ "performance" :> 2
            @@ "balanced sharp" :> 2 @@ "performance sharp" :> 2
MCSizes == {<<640, 480>>, <<1280, 720>>}
=============================================================================
