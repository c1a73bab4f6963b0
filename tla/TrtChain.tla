------------------------------ MODULE TrtChain ------------------------------
(***************************************************************************)
(* The chain of the TensorRT backend (src/aji_trt.cpp): aji_configure      *)
(* turns the profile into steps and allocates for them; aji_infer runs     *)
(* the steps, as a captured CUDA graph when it can; aji_resize and         *)
(* aji_infer_rife do what comes before and between.                        *)
(*                                                                         *)
(* One thread makes all calls.  What can go wrong is memory: two chain     *)
(* buffers, two staging buffers and four plans are kept from call to call, *)
(* replaced when a frame needs others, and referred to by their addresses  *)
(* in a graph.  A plan is modelled by the description it was made from, a  *)
(* buffer by its size, a graph by what it computes and by those of its     *)
(* addresses that were freed since it was captured.  `faults' notes what   *)
(* the last call did that no call may do.                                  *)
(*                                                                         *)
(* The GPU's own asynchrony is in TrtTickets, the building of engines in   *)
(* TrtBuild; here a build is an outcome of aji_configure.                  *)
(***************************************************************************)
EXTENDS Profile, ChainGeometry

CONSTANTS
    Files,       \* what animejanai.conf may say; it is read again each time
    Slots,       \* the slots the user may have selected (aji_set_slot)
    Libraries,   \* the sets of networks that may be in the model directory
    Scale,       \* of each network
    Sizes, Rates,               \* of the videos
    Formats, Sitings, Colours,  \* of the frames (colours: matrix and range)
    RifeDir,     \* is there a rife_model_dir?
    OrderFirst,  \* does the caller ask aji_rife_before_upscale before it
                 \* asks aji_pre_resize, or the latter alone?
    DirectModes  \* {TRUE}: an engine file instead of a profile; or {FALSE}

ASSUME ChainAssumption ==
    /\ Sizes \subseteq (Nat \X Nat) /\ Rates \subseteq Nat
    /\ Formats \subseteq {"nv12", "p010", "yuv444p16"}
    /\ RifeDir \in BOOLEAN /\ OrderFirst \in BOOLEAN
    /\ DirectModes \subseteq BOOLEAN

VARIABLES
    direct,   \* not conf_mode
    source,   \* the video of the last aji_configure
    cfg,      \* its answer; in_w.., out_w.., steps, active
    hoist,    \* pre_resize_plan as <<from, to>>, or <<>> (has_pre_resize)
    rife,     \* enabled, before_upscale, w and h, format, staging
    buf,      \* the chain buffers: which are allocated, and buf_bytes
    plans,    \* pre_plan, post_plan, pr_pre_plan, pr_post_plan
    stage,    \* stage_in_bytes, stage_out_bytes
    graph,    \* graph_exec
    graphOk,  \* graph_ok
    faults

vars == <<direct, source, cfg, hoist, rife, buf, plans, stage, graph,
          graphOk, faults>>

Null == [what |-> "null"]
NoGraph == [key |-> Null, did |-> Null, uses |-> {}, dead |-> {}]
RifeOff == [on |-> FALSE, before |-> FALSE, size |-> <<0, 0>>,
            format |-> "none", staging |-> "none"]
Idle(ans, s) == [ans |-> ans, active |-> FALSE, in |-> s, out |-> s,
                 steps |-> <<>>, models |-> <<>>, cap |-> NoCap]

DirectMax == CHOOSE s \in Sizes : \A t \in Sizes : ~ Exceeds(t, s)
Times(s, k) == <<s[1] * k, s[2] * k>>
DirectStep(s) == [kind |-> "direct", from |-> s, to |-> Times(s, 2)]

(***************************************************************************)
(* The model loop of aji_configure.  The picture starts at size s; each    *)
(* model may resize it and then runs its network.  The result has the      *)
(* steps, the last size, and the bytes of the largest picture the code     *)
(* counts.                                                                 *)
(***************************************************************************)
Push(acc, kind, s) ==
    [size |-> s, bytes |-> acc.bytes,
     steps |-> Append(acc.steps, [kind |-> kind, from |-> acc.size, to |-> s])]

Resized(acc, s) == IF s = acc.size THEN acc ELSE Push(acc, "resize", s)

\* Without an explicit height, the cap of a dynamic engine applies.
Capped(acc, cap) ==
    IF cap = NoCap \/ ~ Exceeds(acc.size, cap) THEN acc
    ELSE LET s == FitWithin(acc.size, cap)
         IN IF Drawable(s) THEN Resized(acc, s) ELSE acc

Counted(acc) == [acc EXCEPT !.bytes = Max({@, Bytes(acc.size)})]

\* Fault: the result of a network is not counted.
RunUncounted(acc, net) ==
    IF net = NoNet THEN acc ELSE Push(acc, net, Times(acc.size, Scale[net]))

Run(acc, net) ==
    IF net = NoNet THEN acc
    ELSE Counted(Push(acc, net, Times(acc.size, Scale[net])))

\* One turn of the loop.
Through(acc, m, cap) ==
    LET fitted ==
            IF m.height # 0 /\ m.height # acc.size[2]
            THEN Push(acc, "resize", FitBox(acc.size, m.height))
            ELSE Capped(IF m.height # 0 THEN acc
                        ELSE Resized(acc, ByFactor(acc.size, m.factor)), cap)
    IN Run(Counted(fitted), m.net)

Walk(models, s, cap) ==
    FoldLeft(LAMBDA acc, m : Through(acc, m, cap),
             [size |-> s, steps |-> <<>>, bytes |-> Bytes(s)], models)

\* Fault: without skip_resize.
ResizedTwice(models) == models

\* The first model once its resize was taken out and put before RIFE.
Unresized(models) ==
    [models EXCEPT ![1].factor = 100, ![1].height = 0]

\* A dynamic engine refuses an input over its cap.
Accepted(steps, cap) ==
    \A i \in DOMAIN steps :
        steps[i].kind # "resize" /\ cap # NoCap
            => ~ Exceeds(steps[i].from, cap)

(***************************************************************************)
(* Memory.  Freeing something a graph refers to leaves a dead address in   *)
(* it; the graph itself goes when it is destroyed.                         *)
(***************************************************************************)
Kill(g, freed) == [g EXCEPT !.dead = @ \cup (freed \cap g.uses)]

\* Fault: buf_bytes outlives its buffers.
EnsureBuffersKeeps(need, fails) ==
    IF need <= buf.bytes /\ buf.live = {1, 2} THEN buf
    ELSE [live |-> {b \in {1, 2} : fails = 0 \/ b < fails},
          bytes |-> IF fails = 0 THEN need ELSE buf.bytes]

\* ensure_buffers; fails: the buffer cudaMalloc fails for, or 0.
Suffices(need) == need <= buf.bytes /\ buf.live = {1, 2}

EnsureBuffers(need, fails) ==
    IF Suffices(need) THEN buf
    ELSE [live |-> {b \in {1, 2} : fails = 0 \/ b < fails},
          bytes |-> IF fails = 0 THEN need ELSE 0]

\* ensure_stage, when it does not fail.
Grown(bytes, need) == IF bytes >= need THEN bytes ELSE need

Is444(format) == format = "yuv444p16"
Depth(format) == IF format = "nv12" THEN 1 ELSE 2
StageBytes(f) ==
    LET y == f.size[1] * f.size[2] * Depth(f.format)
    IN IF Is444(f.format) THEN 3 * y ELSE (3 * y) \div 2

(***************************************************************************)
(* aji_create and the two aji_configure.                                   *)
(***************************************************************************)
Init ==
    /\ direct \in DirectModes
    /\ source = <<0, 0>>
    /\ cfg = Idle("none", <<0, 0>>)
    /\ hoist = <<>>
    /\ rife = RifeOff
    /\ buf = IF direct THEN [live |-> {1, 2}, bytes |-> Bytes(DirectMax) * 4]
             ELSE [live |-> {}, bytes |-> 0]
    /\ plans = [pre |-> Null, post |-> Null, prPre |-> Null, prPost |-> Null]
    /\ stage = [in |-> 0, out |-> 0]
    /\ graph = NoGraph
    /\ graphOk = TRUE
    /\ faults = {}

\* An engine of a file takes any size up to the one it was probed with.
ConfigureDirect ==
    /\ direct
    /\ source' \in Sizes
    /\ cfg' = [ans |-> "active", active |-> TRUE, in |-> source',
               out |-> Times(source', 2), steps |-> <<DirectStep(source')>>,
               models |-> <<>>, cap |-> NoCap]
    /\ faults' = {}
    /\ UNCHANGED <<direct, hoist, rife, buf, plans, stage, graph,
                   graphOk>>

(***************************************************************************)
(* What a chain comes to for a video of size s: where the picture starts   *)
(* once the first model's resize is put before RIFE, the steps, and the    *)
(* size of the buffers.                                                    *)
(***************************************************************************)
Outline(chain, cap, s) ==
    LET before == chain.rife /\ RifeDir /\ chain.before
        start == IF before /\ chain.models # <<>>
                 THEN ResizeTarget(chain.models[1], s) ELSE s
        models == IF start # s THEN Unresized(chain.models) ELSE chain.models
        walk == Walk(models, start, cap)
    IN [chain |-> chain, cap |-> cap, start |-> start, steps |-> walk.steps,
        end |-> walk.size, rife |-> chain.rife /\ RifeDir,
        need |-> IF start # s THEN Max({walk.bytes, Bytes(s)})
                 ELSE walk.bytes]

\* The chains a slot may select for a video, over all files and libraries;
\* the empty sequence is no chain.
Outlines ==
    [sl \in Slots |-> [s \in Sizes |->
        UNION {LET conf == Load(file)
                   picked == Select(conf, sl, s, fps, library)
               IN {[i \in DOMAIN picked |->
                        Outline(picked[i], conf.settings.cap, s)]} :
               file \in Files, fps \in Rates, library \in Libraries}]]

(***************************************************************************)
(* What may go wrong on the way through a configure; an engine that is     *)
(* built in the background is no error.  "rife building" goes on without   *)
(* RIFE, every other trouble ends the call.                                *)
(***************************************************************************)
Troubles == {"none", "hoist plan", "resize plan", "engine", "building",
             "rife engine", "rife memory", "rife building", "buffer 1",
             "buffer 2"}

Kinds(steps) == {steps[i].kind : i \in DOMAIN steps}

\* May that happen in this chain?
CanMeet(trouble, o) ==
    CASE trouble = "hoist plan" -> o.start # source'
      [] trouble = "resize plan" -> "resize" \in Kinds(o.steps)
      [] trouble \in {"engine", "building"} -> Kinds(o.steps) \ {"resize"} # {}
      [] OTHER ->
            /\ Accepted(o.steps, o.cap)
            /\ trouble \in {"rife engine", "rife memory", "rife building"}
                 => o.rife
            /\ trouble \in {"buffer 1", "buffer 2"}
                 => /\ ~ Suffices(o.need)
                    /\ o.steps # <<>> \/ o.start # source'

\* Fault: RIFE gets the size the chain ends with, whatever the order.
SetupRifeLast(o) ==
    [on |-> TRUE, before |-> o.chain.before, size |-> o.end,
     format |-> "none", staging |-> "none"]

\* setup_rife, once its engine is there.
SetupRife(o) ==
    [on |-> TRUE, before |-> o.chain.before,
     size |-> IF o.chain.before THEN o.start ELSE o.end,
     format |-> "none", staging |-> "none"]

\* Fault: the graph outlives the steps it was captured from.
TornLater(g) == Kill(g, {"steps"})

\* The teardown at the head of the call; the pre and post plans, the
\* buffers and the staging stay.
Torn(g) == NoGraph
TearDown ==
    /\ graph' = Torn(graph)
    /\ plans' = [plans EXCEPT !.prPre = Null, !.prPost = Null]

NoChain ==
    /\ cfg' = Idle("passthrough", source')
    /\ hoist' = <<>> /\ rife' = RifeOff
    /\ UNCHANGED buf

\* The call ends early: what was set up until then stays.
EndsEarly(o, trouble) ==
    /\ trouble \notin {"none", "rife building"}
    /\ cfg' = Idle(IF trouble = "building" THEN "passthrough" ELSE "error",
                   source')
    /\ rife' = IF trouble \in {"buffer 1", "buffer 2"} /\ o.rife
               THEN SetupRife(o) ELSE RifeOff
    /\ buf' = IF trouble = "buffer 1" THEN EnsureBuffers(o.need, 1)
              ELSE IF trouble = "buffer 2" THEN EnsureBuffers(o.need, 2)
              ELSE buf

\* Nothing to do but RIFE, if that; or a chain to run.
Completes(o, trouble) ==
    /\ trouble \in {"none", "rife building"}
    /\ rife' = IF o.rife /\ trouble = "none" THEN SetupRife(o) ELSE RifeOff
    /\ IF o.steps = <<>> /\ o.start = source'
       THEN cfg' = Idle("passthrough", source') /\ UNCHANGED buf
       ELSE /\ cfg' = [ans |-> "active", active |-> TRUE, in |-> o.start,
                       out |-> o.end, steps |-> o.steps,
                       models |-> o.chain.models, cap |-> o.cap]
            /\ buf' = EnsureBuffers(o.need, 0)

Activate(o, trouble) ==
    /\ CanMeet(trouble, o)
    /\ hoist' = IF o.start # source' /\ trouble # "hoist plan"
                THEN <<source', o.start>> ELSE <<>>
    /\ EndsEarly(o, trouble) \/ Completes(o, trouble)

\* Only here does it matter what aji_set_slot was last told.
Configure ==
    /\ ~ direct
    /\ source' \in Sizes
    /\ \E slot \in Slots : \E o \in Outlines[slot][source'] :
         IF o = <<>> THEN NoChain
         ELSE \E trouble \in Troubles : Activate(o[1], trouble)
    /\ TearDown
    /\ faults' = {}
    /\ UNCHANGED <<direct, stage, graphOk>>

(***************************************************************************)
(* A frame is its format, size, siting and colours; its place in memory    *)
(* does not matter, as the graph only ever sees the staging buffers.  4:4:4 *)
(* has no siting worth the name.                                           *)
(***************************************************************************)
Frame(size) ==
    {f \in [format : Formats, size : {size}, siting : Sitings,
            colours : Colours] : Is444(f.format) => f.siting = "left"}
Output(size) == [format : Formats, size : {size}]

PreDesc(in) == [format |-> in.format, size |-> in.size, siting |-> in.siting]
PostDesc(out) == [format |-> out.format, size |-> out.size]

\* Fault: a plan is looked up without the siting of the frame.
PreKeyUnsited(desc) == [desc EXCEPT !.siting = "left"]

\* What tells plans and graphs apart: pre_key, post_key, graph_key.
PreKey(desc) == desc
PostKey(desc) == desc
GraphKey(in, out) == [in |-> in, out |-> out]

(***************************************************************************)
(* Plans are made when a frame of another key comes along.  `luck' is what *)
(* the frame meets; a plan that cannot be made leaves none behind.         *)
(***************************************************************************)
Lucks == {"fine", "pre plan", "kernel", "post plan"}

Renew(plan, desc, sameKey, fails) ==
    IF plan # Null /\ sameKey THEN plan
    ELSE IF fails THEN Null ELSE desc

PreAfter(plan, in, luck) ==
    IF Is444(in.format) THEN plan
    ELSE Renew(plan, PreDesc(in), PreKey(plan) = PreKey(PreDesc(in)),
               luck = "pre plan")
PostAfter(plan, out, luck) ==
    IF Is444(out.format) \/ luck \in {"pre plan", "kernel"} THEN plan
    ELSE Renew(plan, PostDesc(out), PostKey(plan) = PostKey(PostDesc(out)),
               luck = "post plan")

\* Did the call come as far as its luck says?
Meets(luck, pre, post, in, out) ==
    CASE luck = "pre plan" ->
            ~ Is444(in.format) /\ PreAfter(pre, in, luck) = Null
      [] luck = "post plan" ->
            ~ Is444(out.format) /\ PostAfter(post, out, luck) = Null
      [] OTHER -> TRUE

\* The plans that were freed, of a and b before, x and y after.
Freed(a, b, x, y) ==
    (IF a # x THEN {"pre"} ELSE {}) \cup (IF b # y THEN {"post"} ELSE {})

(***************************************************************************)
(* What a run of the chain computes, with the plans it is given, and what  *)
(* the frame asks for.                                                     *)
(***************************************************************************)
Computes(in, out, pre, post) ==
    [pre |-> IF Is444(in.format) THEN PreDesc(in) ELSE pre,
     colours |-> in.colours, steps |-> cfg.steps,
     post |-> IF Is444(out.format) THEN PostDesc(out) ELSE post]
Asks(in, out) == Computes(in, out, PreDesc(in), PostDesc(out))

\* The chain goes back and forth between the buffers.
Largest(from) ==
    Max({Bytes(from)} \cup {Bytes(cfg.steps[i].to) : i \in DOMAIN cfg.steps})
BufferFaults(need) ==
    (IF buf.live # {1, 2} THEN {"dead memory"} ELSE {})
        \cup (IF need > buf.bytes THEN {"overrun"} ELSE {})
PictureFaults(did, asked) == IF did # asked THEN {"wrong picture"} ELSE {}

\* run_chain on a frame: the plain path, and the warm-up of a capture.
RunChain(in, out, luck) ==
    LET pre == PreAfter(plans.pre, in, luck)
        post == PostAfter(plans.post, out, luck)
    IN [pre |-> pre, post |-> post, ok |-> luck = "fine",
        freed |-> Freed(plans.pre, plans.post, pre, post),
        did |-> Computes(in, out, pre, post)]

Ran(r, in, out) ==
    /\ plans' = [plans EXCEPT !.pre = r.pre, !.post = r.post]
    /\ faults' = IF ~ r.ok THEN {}
                 ELSE BufferFaults(Largest(in.size))
                        \cup PictureFaults(r.did, Asks(in, out))

\* The buffers and plans a graph of this frame has addresses of.
Captures(in, out) ==
    {"stage in", "stage out", "buffers", "steps"}
        \cup (IF Is444(in.format) THEN {} ELSE {"pre"})
        \cup (IF Is444(out.format) THEN {} ELSE {"post"})

(***************************************************************************)
(* aji_infer.  run_chain on the caller's frame: with a default stream, or  *)
(* when graphs are given up; `freed' went on the way there.                *)
(***************************************************************************)
RunPlain(in, out, freed) ==
    \E luck \in Lucks :
        LET r == RunChain(in, out, luck)
        IN /\ Meets(luck, plans.pre, plans.post, in, out)
           /\ Ran(r, in, out)
           /\ graph' = Kill(graph, freed \cup r.freed)

Plain(in, out) ==
    /\ RunPlain(in, out, {})
    /\ UNCHANGED <<stage, graphOk>>

\* infer_via_graph needs staging for both frames.
Staged(in, out) ==
    [in |-> Grown(stage.in, StageBytes(in)),
     out |-> Grown(stage.out, StageBytes(out))]
Moved(new) ==
    (IF new.in # stage.in THEN {"stage in"} ELSE {})
        \cup (IF new.out # stage.out THEN {"stage out"} ELSE {})

\* It cannot be had, or the copy into it fails: graphs are given up.
StagingFails(in, out) ==
    LET all == Staged(in, out)
    IN \E new \in {[stage EXCEPT !.in = 0], [all EXCEPT !.out = 0], all} :
        /\ new.in = 0 => all.in # stage.in
        /\ new.in # 0 /\ new.out = 0 => all.out # stage.out
        /\ stage' = new
        /\ graphOk' = FALSE
        /\ RunPlain(in, out, Moved(new))

\* No graph for this key: run once to allocate, then capture.  A run that
\* fails is the answer; a capture that fails leaves the frame computed.
Capture(in, out) ==
    /\ graph = NoGraph \/ GraphKey(in, out) # graph.key
    /\ stage' = Staged(in, out)
    /\ \E luck \in Lucks, captured \in BOOLEAN :
        LET r == RunChain(in, out, luck)
        IN /\ Meets(luck, plans.pre, plans.post, in, out)
           /\ captured => r.ok
           /\ Ran(r, in, out)
           /\ graphOk' = (captured \/ ~ r.ok)
           /\ graph' = IF ~ captured THEN NoGraph
                       ELSE [key |-> GraphKey(in, out), did |-> r.did,
                             uses |-> Captures(in, out), dead |-> {}]

Captured(in, out) == graph # NoGraph /\ GraphKey(in, out) = graph.key

\* The graph of this key is launched.
Launch(in, out) ==
    /\ Captured(in, out)
    /\ stage' = Staged(in, out)
    /\ graph' = Kill(graph, Moved(stage'))
    /\ faults' = BufferFaults(Largest(in.size))
                    \cup PictureFaults(graph.did, Asks(in, out))
                    \cup (IF graph'.dead # {} THEN {"dead memory"} ELSE {})
    /\ UNCHANGED <<plans, graphOk>>

\* The launch fails: graphs are given up.
LaunchFails(in, out) ==
    /\ Captured(in, out)
    /\ stage' = Staged(in, out)
    /\ graphOk' = FALSE
    /\ RunPlain(in, out, Moved(stage'))

ViaGraph(in, out) ==
    \/ StagingFails(in, out) \/ Capture(in, out)
    \/ Launch(in, out) \/ LaunchFails(in, out)

(***************************************************************************)
(* The caller.  It sends frames while a chain is active: at the source's   *)
(* size, or, when aji_pre_resize answers 1, at the size aji_resize gave    *)
(* them; with OrderFirst it asks that only if RIFE comes first.  All its   *)
(* work goes to one stream.                                                *)
(***************************************************************************)
RifeFirst == rife.on /\ rife.before
PreResize == hoist # <<>>

Shrinks == cfg.ans = "active" /\ PreResize /\ (OrderFirst => RifeFirst)
Sent == IF Shrinks THEN hoist[2] ELSE source

Refused == {"refused"}

Infer ==
    /\ cfg.ans = "active"
    /\ \E in \in Frame(Sent), out \in Output(cfg.out) :
         IF in.size # cfg.in THEN
            /\ faults' = Refused
            /\ UNCHANGED <<plans, stage, graph, graphOk>>
         ELSE IF graphOk THEN ViaGraph(in, out)
         ELSE Plain(in, out)
    /\ UNCHANGED <<direct, source, cfg, hoist, rife, buf>>

(***************************************************************************)
(* aji_resize: the chain buffers again, and plans of its own.              *)
(***************************************************************************)
Resize ==
    /\ Shrinks
    /\ \E in \in Frame(source), luck \in Lucks :
        LET out == [format |-> in.format, size |-> hoist[2]]
            pre == PreAfter(plans.prPre, in, luck)
            post == PostAfter(plans.prPost, out, luck)
        IN /\ Meets(luck, plans.prPre, plans.prPost, in, out)
           /\ plans' = [plans EXCEPT !.prPre = pre, !.prPost = post]
           /\ faults' =
                IF luck # "fine" THEN {}
                ELSE BufferFaults(Max({Bytes(source), Bytes(hoist[2])}))
                        \cup PictureFaults(Computes(in, out, pre, post),
                                           Asks(in, out))
    /\ UNCHANGED <<direct, source, cfg, hoist, rife, buf, stage, graph,
                   graphOk>>

(***************************************************************************)
(* aji_infer_rife: the staging for a format is built when the first frame  *)
(* of that format comes; if that fails, no format has staging.             *)
(***************************************************************************)
Between == IF RifeFirst THEN Sent ELSE cfg.out

\* Fault: the old format is still noted when its staging is gone.
RestagedInPart(format, fails) ==
    IF rife.format = format THEN rife
    ELSE IF fails THEN [rife EXCEPT !.staging = "none"]
    ELSE [rife EXCEPT !.format = format, !.staging = format]

Restaged(format, fails) ==
    IF rife.format = format THEN rife
    ELSE IF fails THEN [rife EXCEPT !.format = "none", !.staging = "none"]
    ELSE [rife EXCEPT !.format = format, !.staging = format]

\* The two frames are packed, and the result unpacked, by way of staging.
RifeFaults(r, format) ==
    IF r.staging = "none" THEN {"dead memory"}
    ELSE PictureFaults(r.staging, format)

InferRife ==
    /\ cfg.ans # "error" /\ rife.on
    /\ \E format \in Formats, fails \in BOOLEAN :
        IF Between # rife.size THEN faults' = Refused /\ UNCHANGED rife
        ELSE LET r == Restaged(format, fails)
             IN /\ fails => rife.format # format
                /\ rife' = r
                /\ faults' =
                    IF fails THEN {} ELSE RifeFaults(r, format)
    /\ UNCHANGED <<direct, source, cfg, hoist, buf, plans, stage,
                   graph, graphOk>>

Next ==
    \/ Configure \/ ConfigureDirect
    \/ Infer \/ Resize \/ InferRife

Spec == Init /\ [][Next]_vars
-----------------------------------------------------------------------------
(***************************************************************************)
(* Types: the buffers, the plans and the graph are as their makers leave   *)
(* them; a chain is active only with steps to run, or a resize before it.  *)
(***************************************************************************)
TypeOK ==
    /\ direct \in BOOLEAN
    /\ source \in Sizes \cup {<<0, 0>>}
    /\ cfg.ans \in {"none", "active", "passthrough", "error"}
    /\ cfg.active => cfg.ans = "active" /\ (cfg.steps # <<>> \/ PreResize)
    /\ buf.live \subseteq {1, 2}
    /\ buf.bytes > 0 => buf.live = {1, 2}
    /\ rife.format \in Formats \cup {"none"}
    /\ graph.dead \subseteq graph.uses
    /\ graphOk \in BOOLEAN
    /\ faults \subseteq {"dead memory", "overrun", "wrong picture", "refused"}

\* A factor over 100 makes a picture that the cap of a dynamic engine takes
\* back at once; the loop does not count it.
UncountedPicture ==
    \E i \in 1..(Len(cfg.steps) - 1) :
        /\ cfg.steps[i].kind = "resize" /\ cfg.steps[i + 1].kind = "resize"
        /\ Bytes(cfg.steps[i].to) > Bytes(cfg.steps[i].from)
        /\ cfg.cap # NoCap /\ Exceeds(cfg.steps[i].to, cfg.cap)

(***************************************************************************)
(* No kernel gets a freed or null address: not a launched graph, which has *)
(* the addresses of buffers and plans of earlier frames and of its own     *)
(* configuration baked in; not aji_resize and aji_infer_rife, whatever     *)
(* failed before.  And every picture of a chain fits the buffers that      *)
(* aji_configure allocated, but for the one it does not count.             *)
(***************************************************************************)
NoDeadMemory == "dead memory" \notin faults

MemorySafe ==
    /\ NoDeadMemory
    /\ "overrun" \in faults => UncountedPicture

(***************************************************************************)
(* A frame gets the steps of the last configure, with plans made for its   *)
(* own format, size and siting and with its own colours, whatever frames   *)
(* came before and whichever graph, plan or staging they left.             *)
(***************************************************************************)
FramesGetTheirChain == "wrong picture" \notin faults

(***************************************************************************)
(* A caller that keeps to the sizes the library tells it is never refused  *)
(* a frame for its size: those aji_configure works out for RIFE, for the   *)
(* hoisted resize and for the chain go together, also while the engine of  *)
(* RIFE is being built.                                                    *)
(***************************************************************************)
NeverRefused == "refused" \notin faults

Networks(steps) == SelectSeq(steps, LAMBDA st : st.kind # "resize")

(***************************************************************************)
(* Taking the first resize out of the chain and putting it before RIFE     *)
(* does not change the upscale: the networks get the sizes they would get  *)
(* without RIFE.                                                           *)
(***************************************************************************)
HoistIsInvisible ==
    cfg.active /\ ~ direct =>
        LET plain == Walk(cfg.models, source, cfg.cap).steps
        IN Accepted(plain, cfg.cap) => Networks(cfg.steps) = Networks(plain)
-----------------------------------------------------------------------------
(* The inductive invariant behind these but the sizes of pictures and the  *)
(* walk.                                                                   *)

(* An active chain has its buffers; in direct mode from the start, and the *)
(* chain is then the network alone.                                        *)
ChainSound ==
    /\ cfg.ans = "active" \/ direct => buf.live = {1, 2}
    /\ direct => /\ cfg.ans \in {"none", "active"}
                 /\ hoist = <<>> /\ rife = RifeOff
                 /\ cfg.ans = "active" =>
                        cfg.in = source /\ cfg.steps = <<DirectStep(source)>>

(* The steps a frame of that size gets.  In direct mode a graph stays when *)
(* the size changes, and the steps of its own frames come with its key.    *)
StepsFor(size) == IF direct THEN <<DirectStep(size)>> ELSE cfg.steps

(* A graph was captured under the steps of now and with plans for frames   *)
(* of its key; and while graphs are used, nothing it has addresses of was  *)
(* freed, nor is when the next frame of its key comes.                     *)
GraphSound ==
    /\ graph = [key |-> graph.key, did |-> graph.did,
                uses |-> graph.uses, dead |-> graph.dead]
    /\ graph # NoGraph =>
        LET in == graph.key.in
            out == graph.key.out
        IN /\ graph.did = [pre |-> PreDesc(in), colours |-> in.colours,
                           steps |-> StepsFor(in.size),
                           post |-> PostDesc(out)]
           /\ graphOk => /\ graph.dead = {}
                         /\ Staged(in, out) = stage

(* RIFE has staging for the format it notes, or none. *)
RifeSound ==
    /\ rife = [on |-> rife.on, before |-> rife.before, size |-> rife.size,
               format |-> rife.format, staging |-> rife.staging]
    /\ rife.format \in Formats \cup {"none"}
    /\ rife.staging = rife.format

IInv == /\ TypeOK /\ ChainSound /\ GraphSound /\ RifeSound
        /\ NoDeadMemory /\ FramesGetTheirChain

(* The sizes frames are sent in, at either end of the chain, are those     *)
(* that it and RIFE were set up for.                                       *)
SizesSound ==
    /\ cfg.ans = "active" =>
           cfg.in = IF PreResize THEN hoist[2] ELSE source
    /\ rife.on /\ cfg.ans # "error" => rife.size = Between

(* The pictures of an active chain fit its buffers, those of aji_resize    *)
(* too, but for the one that is not counted.                               *)
MemorySound ==
    /\ direct \in DirectModes
    /\ IF direct THEN buf.bytes = Bytes(DirectMax) * 4
       ELSE buf.bytes \in Nat
    /\ cfg.ans = "active" /\ ~ direct =>
         /\ cfg.in \in Nat \X Nat
         /\ Bytes(cfg.in) <= buf.bytes
         /\ PreResize => /\ source \in Nat \X Nat /\ hoist[2] = cfg.in
                         /\ Bytes(source) <= buf.bytes
         /\ \A i \in DOMAIN cfg.steps : cfg.steps[i].to \in Nat \X Nat
         /\ \/ UncountedPicture
            \/ \A i \in DOMAIN cfg.steps :
                  Bytes(cfg.steps[i].to) <= buf.bytes

(***************************************************************************)
(* What is asked of videos and profiles where sizes matter: both have      *)
(* pictures, an engine of a file has a largest size, and whichever chain   *)
(* is picked, its models are a sequence, of networks whose scale is known, *)
(* and none is to be 1 pixel high: round_even makes nothing of that.       *)
(***************************************************************************)
Positive == Nat \ {0}
ModelType == [net : DOMAIN Scale \cup {NoNet}, factor : Nat,
              height : Nat \ {1}]

ProfilesTyped ==
    /\ Sizes \subseteq Positive \X Positive
    /\ TRUE \in DirectModes =>
         \E s \in Sizes : \A t \in Sizes : ~ Exceeds(t, s)
    /\ \A net \in DOMAIN Scale : Scale[net] \in Positive
    /\ \A file \in Files :
         LET conf == Load(file)
         IN /\ conf.settings.cap \in {NoCap} \cup (Positive \X Positive)
            /\ \A sl \in Slots, s \in Sizes, fps \in Rates,
                  library \in Libraries :
                 LET picked == Select(conf, sl, s, fps, library)
                 IN /\ \E n \in {0, 1} : DOMAIN picked = 1..n
                    /\ \A i \in DOMAIN picked :
                         picked[i].models \in Seq(ModelType)
=============================================================================
