------------------------------- MODULE Profile -------------------------------
(***************************************************************************)
(* animejanai.conf (src/aji_conf.cpp): what a file says, what the library  *)
(* reads in it, and the chain it picks for a video.  Pure operators.       *)
(*                                                                         *)
(* A file is a record; where there is none, nothing is in it (NoFile):     *)
(*   version, settings: config_version and trt_engine_settings;            *)
(*   sharp: the built-in slots whose preset is "sharp";                    *)
(*   slots: its [slot_N] sections.  A section maps the number of a chain   *)
(*   to the keys of that chain, and these map the number of a model to     *)
(*   the keys of the model.  A key that is not in the file has its         *)
(*   default there.                                                        *)
(* Settings are a record too: whether they are the materialized default of *)
(* version 1, and the size of --maxShapes or NoCap.                        *)
(***************************************************************************)
EXTENDS Integers, SequencesExt

NoNet == "no net"
NoCap == <<>>
Inf == 2000000000

(***************************************************************************)
(* parse_chain.  Model numbers are counted, not listed: with model_1 and   *)
(* model_3, models 1 and 2 are read.                                       *)
(***************************************************************************)
NoModel == [net |-> NoNet, factor |-> 100, height |-> 0]

Models(keys) ==
    [m \in 1..Cardinality(DOMAIN keys) |->
        IF m \in DOMAIN keys THEN keys[m] ELSE NoModel]

Limit(d) == IF d = 0 THEN Inf ELSE d
Pixels(res) == IF Inf \in {res[1], res[2]} THEN Inf ELSE res[1] * res[2]

ParseChain(keys) ==
    [minPx |-> Pixels(keys.min),
     maxPx |-> Pixels(<<Limit(keys.max[1]), Limit(keys.max[2])>>),
     minFps |-> keys.minFps, maxFps |-> Limit(keys.maxFps),
     models |-> Models(keys.models),
     rife |-> keys.rife, before |-> keys.before]

\* The chains of a section, by number.
ParseSlot(section) ==
    LET ids == SetToSortSeq(DOMAIN section, <)
    IN [i \in DOMAIN ids |-> ParseChain(section[ids[i]])]

(***************************************************************************)
(* The built-in slots: Quality, Balanced, Performance and the benchmarks.  *)
(***************************************************************************)
BuiltInChain(minPx, maxPx, maxFps, net) ==
    [minPx |-> minPx, maxPx |-> maxPx, minFps |-> 0, maxFps |-> maxFps,
     models |-> <<[NoModel EXCEPT !.net = net]>>,
     rife |-> FALSE, before |-> TRUE]

BuiltIn ==
    LET px1080 == 1920 * 1080
        px720 == 1280 * 720
        hd(net) == BuiltInChain(px720, px1080, 31, net)
        sd == BuiltInChain(0, px720, 31, "sd")
        any(net) == BuiltInChain(0, Inf, Inf, net)
        doubled(before) ==
            [any("balanced") EXCEPT !.rife = TRUE, !.before = before]
    IN [s \in {1001, 1002, 1003, 1010, 1011, 1012, 1013} |->
          CASE s = 1001 -> <<hd("balanced"), sd,
                             BuiltInChain(0, px1080, 61, "balanced")>>
            [] s = 1002 -> <<hd("balanced"), sd>>
            [] s = 1003 -> <<hd("performance"), sd>>
            [] s = 1010 -> <<any("balanced")>>
            [] s = 1011 -> <<any("performance")>>
            [] s = 1012 -> <<doubled(FALSE)>>
            [] s = 1013 -> <<doubled(TRUE)>>]

SharpNet(net) ==
    CASE net = "balanced" -> "balanced sharp"
      [] net = "performance" -> "performance sharp"
      [] OTHER -> net

\* apply_sharp_presets: of slots 1001 to 1003 only.
Sharpen(slots, sharp) ==
    [s \in DOMAIN slots |->
        IF s \notin sharp \cap {1001, 1002, 1003} THEN slots[s]
        ELSE [i \in DOMAIN slots[s] |->
                [slots[s][i] EXCEPT !.models =
                    [m \in DOMAIN @ |->
                        [@[m] EXCEPT !.net = SharpNet(@)]]]]]

(***************************************************************************)
(* aji_conf_load: a section of the file replaces the built-in slot, after  *)
(* the presets were applied.                                               *)
(***************************************************************************)
DefaultSettings == [legacy |-> FALSE, cap |-> NoCap]
NoFile == [version |-> 1, settings |-> DefaultSettings,
           sharp |-> {}, slots |-> <<>>]

Load(file) ==
    [slots |->
        [s \in DOMAIN file.slots |-> ParseSlot(file.slots[s])]
            @@ Sharpen(BuiltIn, file.sharp),
     settings |->
        IF file.version < 2 /\ file.settings.legacy
        THEN DefaultSettings ELSE file.settings]

(***************************************************************************)
(* The choice of a chain: the first of the slot whose ranges hold the      *)
(* video and whose models are all in the directory, as a sequence of at    *)
(* most one chain.                                                         *)
(***************************************************************************)
Missing(chain, library) ==
    {chain.models[m].net : m \in DOMAIN chain.models} \ (library \cup {NoNet})

Matches(chain, size, fps) ==
    /\ chain.minPx <= size[1] * size[2] /\ size[1] * size[2] <= chain.maxPx
    /\ chain.minFps <= fps /\ fps <= chain.maxFps

Select(conf, slot, size, fps, library) ==
    LET chains == IF slot \in DOMAIN conf.slots THEN conf.slots[slot] ELSE <<>>
        usable == SelectSeq(chains, LAMBDA c : /\ Matches(c, size, fps)
                                               /\ Missing(c, library) = {})
    IN SubSeq(usable, 1, Min({1, Len(usable)}))
=============================================================================
