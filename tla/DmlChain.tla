------------------------------ MODULE DmlChain ------------------------------
(***************************************************************************)
(* The chain of the DirectML backend (src/aji_dml.cpp): what aji_configure *)
(* makes of a profile, and what aji_infer, aji_resize and aji_infer_rife   *)
(* keep from frame to frame: staging buffers and plans, each replaced in   *)
(* place when a frame of another format or siting comes, and the D3D12     *)
(* view of every texture the caller ever showed.                           *)
(*                                                                         *)
(* Frames are pipelined: a call submits, and returns.  `busy' has the      *)
(* resources that submitted work still uses.  Unlike D3D11, D3D12 keeps    *)
(* nothing alive for work in flight, so that a resource in `busy' must not *)
(* be replaced; `released' has what the last call let go of too early, as  *)
(* pairs of the frame it was made for and the frame it was replaced for.   *)
(* `faults' notes what else the last call did that no call may do.         *)
(*                                                                         *)
(* How work is submitted and waited for is in DmlFences; waits are in time *)
(* here.                                                                   *)
(***************************************************************************)
EXTENDS Profile, ChainGeometry

CONSTANTS
    Files, Slots, Libraries,  \* as in TrtChain
    Scale,                    \* of each network,
    Half,                     \* and does it work on fp16?
    Sizes, Rates,             \* of the videos
    Formats, Sitings,         \* of the frames
    Textures,                 \* addresses of the caller's textures
    RifeDir,                  \* is there a rife_model_dir?
    MaxFailures               \* bound of the model: calls that fail between
                              \* two aji_configure

ASSUME DmlAssumption ==
    /\ Sizes \subseteq (Nat \X Nat) /\ Rates \subseteq Nat
    /\ Formats \subseteq {"nv12", "p010", "rgb10"}
    /\ RifeDir \in BOOLEAN /\ MaxFailures \in Nat

VARIABLES
    source,    \* the video of the last aji_configure
    cfg,       \* its answer; in_w.., out_w.., steps
    hoist,     \* pre_resize_plan as <<from, to>>, or <<>> (has_pre_resize)
    rife,      \* enabled, before_upscale, w and h
    buffers,   \* buf_bytes
    caches,    \* of "infer", "resize" and "rife": staging and plans
    shared,    \* the addresses in the cache of shared textures
    stale,     \* those whose texture is no longer the one that was opened
    busy, released,
    failures,  \* since the last aji_configure
    botched,   \* for which format staging could not be had, or "none"
    faults

chainVars == <<source, cfg, hoist, rife, buffers, caches, shared, stale,
               busy, released, failures, botched, faults>>

Null == [what |-> "null"]
Torn == [what |-> "torn"]   \* some of the buffers could not be allocated
NoCaches == [stageKey |-> Null, stage |-> Null, pre |-> Null, post |-> Null]
RifeOff == [on |-> FALSE, before |-> FALSE, size |-> <<0, 0>>]
Calls == {"infer", "resize", "rife"}

(***************************************************************************)
(* The model loop of aji_configure: no size is too large, as the networks  *)
(* are not built for one.                                                  *)
(***************************************************************************)
Push(acc, kind, s) ==
    [size |-> s,
     steps |-> Append(acc.steps, [kind |-> kind, from |-> acc.size, to |-> s])]

Resized(acc, s) == IF s = acc.size THEN acc ELSE Push(acc, "resize", s)

Run(acc, net) ==
    IF net = NoNet THEN acc
    ELSE Push(acc, net, <<acc.size[1] * Scale[net], acc.size[2] * Scale[net]>>)

\* One turn of the loop.  A height gets its step even if nothing changes.
Through(acc, m) ==
    Run(IF m.height = 0 THEN Resized(acc, ByFactor(acc.size, m.factor))
        ELSE IF m.height = acc.size[2] THEN acc
        ELSE Push(acc, "resize", FitBox(acc.size, m.height)), m.net)

Unresized(models) ==
    [models EXCEPT ![1].factor = 100, ![1].height = 0]

Walk(models, s) == FoldLeft(Through, [size |-> s, steps |-> <<>>], models)

(***************************************************************************)
(* The element type of each picture: half, or not.  A resize before a      *)
(* network turns the picture into what the network takes.  A network that  *)
(* does not take what it gets fails the chain.                             *)
(***************************************************************************)
IsNet(step) == step.kind # "resize"
NetsFrom(steps, i) == {j \in i..Len(steps) : IsNet(steps[j])}

HalfAtFirst(steps) ==
    NetsFrom(steps, 1) = {} \/ Half[steps[Min(NetsFrom(steps, 1))].kind]

HalfAfter(steps, i, before) ==
    IF NetsFrom(steps, i) = {} THEN before
    ELSE Half[steps[Min(NetsFrom(steps, i))].kind]

\* Of each step, elem16_in and elem16_out.
Typed(steps) ==
    LET out[i \in 0..Len(steps)] ==
            IF i = 0 THEN HalfAtFirst(steps)
            ELSE HalfAfter(steps, i, out[i - 1])
    IN [i \in DOMAIN steps |->
            [kind |-> steps[i].kind, from |-> steps[i].from,
             to |-> steps[i].to, in16 |-> out[i - 1], out16 |-> out[i]]]

Mixed(typed) ==
    \E i \in DOMAIN typed :
        IsNet(typed[i]) /\ Half[typed[i].kind] # typed[i].in16

\* A picture of three planes.
PictureBytes(s, half) == 3 * s[1] * s[2] * (IF half THEN 2 ELSE 4)

\* Fault: the buffers start from the size the chain starts with.
NeedOfChain(o) ==
    Max({PictureBytes(o.start, HalfAtFirst(o.steps))}
        \cup {PictureBytes(o.typed[i].to, o.typed[i].out16) :
                i \in DOMAIN o.typed})

\* max_bytes: from the source on, with or without a resize before RIFE.
Need(o) ==
    Max({PictureBytes(o.source, HalfAtFirst(o.steps))}
        \cup {PictureBytes(o.typed[i].to, o.typed[i].out16) :
                i \in DOMAIN o.typed})

Outline(chain, s) ==
    LET before == chain.rife /\ RifeDir /\ chain.before
        start == IF before /\ chain.models # <<>>
                 THEN ResizeTarget(chain.models[1], s) ELSE s
        walk == Walk(IF start # s THEN Unresized(chain.models)
                     ELSE chain.models, start)
    IN [chain |-> chain, source |-> s, start |-> start, end |-> walk.size,
        rife |-> chain.rife /\ RifeDir,
        steps |-> walk.steps, typed |-> Typed(walk.steps)]

\* The chains a slot may select for a video, over all files and libraries.
Outlines ==
    [sl \in Slots |-> [s \in Sizes |->
        UNION {LET picked == Select(Load(file), sl, s, fps, library)
               IN {[i \in DOMAIN picked |-> Outline(picked[i], s)]} :
               file \in Files, fps \in Rates, library \in Libraries}]]

(***************************************************************************)
(* aji_create, and aji_configure with what may go wrong in it.  An error   *)
(* leaves what was set up until then.                                      *)
(***************************************************************************)
ChainInit ==
    /\ source = <<0, 0>>
    /\ cfg = [ans |-> "none", in |-> <<0, 0>>, out |-> <<0, 0>>,
              steps |-> <<>>]
    /\ hoist = <<>> /\ rife = RifeOff /\ buffers = 0
    /\ caches = [c \in Calls |-> NoCaches]
    /\ shared = {} /\ stale = {}
    /\ busy = {} /\ released = {}
    /\ failures = 0 /\ faults = {}
    /\ botched = [c \in Calls |-> "none"]

Answer(ans) ==
    cfg' = [ans |-> ans, in |-> source', out |-> source', steps |-> <<>>]

Troubles == {"none", "hoist plan", "resize plan", "network", "rife network",
             "buffer", "binding"}

CanMeet(trouble, o) ==
    CASE trouble = "none" -> TRUE
      [] trouble = "hoist plan" -> o.start # source'
      [] trouble = "resize plan" ->
            \E i \in DOMAIN o.steps : ~ IsNet(o.steps[i])
      [] trouble = "network" -> NetsFrom(o.steps, 1) # {}
      [] trouble = "rife network" -> o.rife
      [] trouble = "buffer" ->
            ~ Mixed(o.typed) /\ (o.steps # <<>> \/ o.start # source')
      [] trouble = "binding" ->
            ~ Mixed(o.typed) /\ NetsFrom(o.steps, 1) # {}

\* Fault: RIFE gets the size the chain ends with, whatever the order.
SetupRifeLast(o) ==
    [on |-> TRUE, before |-> o.chain.before, size |-> o.end]

SetupRife(o) ==
    [on |-> TRUE, before |-> o.chain.before,
     size |-> IF o.chain.before THEN o.start ELSE o.end]

Activate(o, trouble) ==
    /\ CanMeet(trouble, o)
    /\ hoist' = IF o.start # source' /\ trouble # "hoist plan"
                THEN <<source', o.start>> ELSE <<>>
    /\ rife' = IF o.rife /\ trouble \in {"none", "buffer", "binding"}
               THEN SetupRife(o) ELSE RifeOff
    /\ IF trouble # "none" THEN Answer("error") /\ buffers' = 0
       ELSE IF o.steps = <<>> /\ o.start = source'
            THEN Answer("passthrough") /\ buffers' = 0
       ELSE IF Mixed(o.typed) THEN Answer("error") /\ buffers' = 0
       ELSE /\ cfg' = [ans |-> "active", in |-> o.start, out |-> o.end,
                       steps |-> o.typed]
            /\ buffers' = Need(o)

\* Fault: chain_teardown does not wait.
DrainedNot == busy

\* drain_queue, in time.
Drained == {}

\* Fault: the key of the staging outlives it.
TornDownInPart(c) == [NoCaches EXCEPT !.stageKey = caches[c].stageKey]
TornDown(c) == NoCaches

\* Fault: the cache of shared textures is kept.
ForgottenNot == shared
Forgotten == {}

(***************************************************************************)
(* chain_teardown comes first.  A caller may get new textures, at the      *)
(* addresses of the old ones, when it reconfigures.                        *)
(***************************************************************************)
TearDown ==
    /\ caches' = [c \in Calls |-> TornDown(c)]
    /\ released' = {[was |-> caches[b[1]], for |-> Null] : b \in Drained}
    /\ busy' = {}
    /\ shared' = Forgotten
    /\ \E fresh \in {{}, Textures} : stale' = shared' \cap (stale \cup fresh)
    /\ failures' = 0 /\ faults' = {}
    /\ botched' = [c \in Calls |-> "none"]

Configure ==
    /\ source' \in Sizes
    /\ \E slot \in Slots : \E o \in Outlines[slot][source'] :
         IF o = <<>>
         THEN Answer("passthrough") /\ hoist' = <<>> /\ rife' = RifeOff
                /\ buffers' = 0
         ELSE \E trouble \in Troubles : Activate(o[1], trouble)
    /\ TearDown

(***************************************************************************)
(* A frame is its format, size and siting; RGB has no siting.  Staging is  *)
(* made for the sizes at both ends but looked up by that of the input; the *)
(* chroma of an output is always sited left.                               *)
(***************************************************************************)
Frame(size) ==
    {f \in [format : Formats, size : {size}, siting : Sitings] :
        f.format = "rgb10" => f.siting = "left"}

Staging(in, outSize) ==
    [format |-> in.format, in |-> in.size, out |-> outSize]
StageKey(staging) == [format |-> staging.format, in |-> staging.in]

\* Fault: a plan is looked up without the siting of the frame.
PreKeyUnsited(in) == [in EXCEPT !.siting = "left"]
PreKey(in) == in
PostDesc(in, outSize) == [format |-> in.format, size |-> outSize]

(***************************************************************************)
(* What a call has after it looked for staging and plans for a frame.      *)
(* Staging is replaced buffer by buffer, and its key set at the end; a     *)
(* plan that cannot be made leaves none.  `luck' is where the call fails.  *)
(***************************************************************************)
Lucks == {"fine", "stage", "pre plan", "post plan", "texture", "begin",
          "midway"}

Noted(cache, key, stage) ==
    [stageKey |-> key, stage |-> stage, pre |-> cache.pre, post |-> cache.post]

\* Fault: the key is set before the buffers are there.
RestagedTooSoon(cache, want, fails) ==
    IF cache.stageKey = StageKey(want) THEN cache
    ELSE Noted(cache, StageKey(want), IF fails THEN Torn ELSE want)

Restaged(cache, want, fails) ==
    IF cache.stageKey = StageKey(want) THEN cache
    ELSE IF fails THEN Noted(cache, cache.stageKey, Torn)
    ELSE Noted(cache, StageKey(want), want)

Renewed(plan, desc, sameKey, fails) ==
    IF plan # Null /\ sameKey THEN plan
    ELSE IF fails THEN Null ELSE desc

Prepared(cache, in, outSize, luck) ==
    LET want == PostDesc(in, outSize)
        pre == Renewed(cache.pre, in, PreKey(cache.pre) = PreKey(in),
                       luck = "pre plan")
        post == Renewed(cache.post, want, cache.post = want,
                        luck = "post plan")
        staged == Restaged(cache, Staging(in, outSize), luck = "stage")
    IN [stageKey |-> staged.stageKey, stage |-> staged.stage,
        pre |-> IF luck = "stage" THEN cache.pre ELSE pre,
        post |-> IF luck \in {"stage", "pre plan"} THEN cache.post ELSE post]

\* Can the call fail there?  The plans of RGB are empty.
Meets(luck, cache, new, in) ==
    /\ luck = "stage" => cache.stageKey # StageKey(Staging(in, <<>>))
    /\ luck = "pre plan" => new.pre = Null /\ in.format # "rgb10"
    /\ luck = "post plan" => new.post = Null /\ in.format # "rgb10"
(***************************************************************************)
(* Work in flight.  What a call replaces while it is busy was released too *)
(* early, and is no longer busy: what took its place is unused.            *)
(***************************************************************************)
Uses(call, in) ==
    {call} \X (IF in.format = "rgb10" THEN {"stage"}
               ELSE {"stage", "pre", "post"})

\* Staging is replaced, whatever it is, for a frame of another key.
Replaced(call, key, new) ==
    {b \in busy : b[1] = call /\ IF b[2] = "stage"
                                 THEN caches[call].stageKey # key
                                 ELSE new[b[2]] # caches[call][b[2]]}

\* The frames what was replaced was used for: staging, for those of its key.
UsedFor(call, part) ==
    IF part = "stage" THEN caches[call].stageKey ELSE caches[call][part]

\* Fault: aji_resize works with the staging and plans of aji_infer.
OwnShared(call) == IF call = "resize" THEN "infer" ELSE call
Own(call) == call

\* The GPU has finished all there is: what it finishes in part uses more.
GpuFinishes ==
    /\ busy # {}
    /\ busy' = {} /\ released' = {} /\ faults' = {}
    /\ UNCHANGED <<source, cfg, hoist, rife, buffers, caches, shared, stale,
                   failures, botched>>

\* Staging of another format is left where that of `botched' was to be.
StagingFaults(call, has, wants) ==
    IF has = wants THEN {}
    ELSE IF botched[call] \in {"none", wants.format} THEN {"wrong staging"}
    ELSE {"leftover staging"}

PlanFaults(new, in, outSize) ==
    IF new.pre = in /\ new.post = PostDesc(in, outSize) THEN {}
    ELSE {"wrong plan"}

Opens(tex, luck) ==
    \E opened \in SUBSET tex :
        /\ luck \in {"stage", "pre plan", "post plan"} => opened = {}
        /\ luck \in {"begin", "midway", "scene", "fine"} => opened = tex
        /\ shared' = shared \cup opened

Counts(luck) ==
    /\ failures' = failures + (IF luck \in {"fine", "scene"} THEN 0 ELSE 1)
    /\ failures' <= MaxFailures

(***************************************************************************)
(* aji_infer and aji_resize of a frame; `hurts' is what their pictures     *)
(* would do to the chain buffers.                                          *)
(***************************************************************************)
Pipelined(call, in, outSize, hurts) ==
    \E luck \in Lucks, tex \in SUBSET Textures \ {{}} :
        LET c == Own(call)
            new == Prepared(caches[c], in, outSize, luck)
            want == Staging(in, outSize)
            gone == Replaced(c, StageKey(want), new)
            submitted == luck \in {"midway", "fine"}
        IN /\ Meets(luck, caches[c], new, in)
           /\ Counts(luck)
           /\ caches' = [caches EXCEPT ![c] = new]
           /\ botched' = [botched EXCEPT ![c] =
                            IF luck = "stage" THEN in.format
                            ELSE IF new.stageKey # caches[c].stageKey
                                 THEN "none" ELSE @]
           /\ Opens(tex, luck)
           /\ released' = {[was |-> UsedFor(c, b[2]),
                            for |-> IF b[2] = "stage" THEN want ELSE in] :
                            b \in gone}
           /\ busy' = (busy \ gone)
                        \cup (IF submitted THEN Uses(c, in) ELSE {})
           /\ faults' =
                IF ~ submitted THEN {}
                ELSE StagingFaults(c, new.stage, want)
                       \cup PlanFaults(new, in, outSize)
                       \cup (IF tex \cap stale # {} THEN {"stale texture"}
                             ELSE {})
                       \cup hurts

(***************************************************************************)
(* The caller.  It sends frames while a chain is active, at the size of    *)
(* the source or, when RIFE comes first and aji_pre_resize answers 1, at   *)
(* the size aji_resize gave them.                                          *)
(***************************************************************************)
RifeFirst == rife.on /\ rife.before
Shrinks == cfg.ans = "active" /\ RifeFirst /\ hoist # <<>>
Sent == IF Shrinks THEN hoist[2] ELSE source
Refuses == /\ faults' = {"refused"} /\ released' = {}
           /\ UNCHANGED <<caches, shared, busy, failures, botched>>

ChainFaults ==
    (IF PictureBytes(cfg.in, HalfAtFirst(cfg.steps)) > buffers
        \/ \E i \in DOMAIN cfg.steps :
              PictureBytes(cfg.steps[i].to, cfg.steps[i].out16) > buffers
     THEN {"overrun"} ELSE {})
    \cup (IF Mixed(cfg.steps) THEN {"wrong type"} ELSE {})

\* fp16 throughout, whatever the networks take.
ResizeFaults ==
    IF PictureBytes(source, TRUE) > buffers
        \/ PictureBytes(hoist[2], TRUE) > buffers
    THEN {"overrun"} ELSE {}

Infer ==
    /\ cfg.ans = "active"
    /\ \E in \in Frame(Sent) :
         IF in.size # cfg.in THEN Refuses
         ELSE Pipelined("infer", in, cfg.out, ChainFaults)
    /\ UNCHANGED <<source, cfg, hoist, rife, buffers, stale>>

Resize ==
    /\ Shrinks
    /\ \E in \in Frame(source) :
         Pipelined("resize", in, hoist[2], ResizeFaults)
    /\ UNCHANGED <<source, cfg, hoist, rife, buffers, stale>>

(***************************************************************************)
(* aji_infer_rife, of frames that are not RGB.  Staging and plans are      *)
(* built together for the first frame of a format.  The call waits for     *)
(* its work, and with it for everything before, unless it fails.           *)
(***************************************************************************)
Between == IF RifeFirst THEN Sent ELSE cfg.out

RifeStaging(format) == [format |-> format, in |-> rife.size, out |-> rife.size]

RifeLucks == {"fine", "scene", "stage", "fill", "texture", "begin", "midway"}

\* Fault: the format stays when the allocation fails.
RifeRestagedInPart(cache, want, luck) ==
    IF cache.stageKey = StageKey(want) THEN cache
    ELSE IF luck = "stage" THEN Noted(cache, cache.stageKey, Torn)
    ELSE Noted(cache, StageKey(want), want)

\* The borders could not be filled: the format stays what it was.
RifeRestaged(cache, want, luck) ==
    IF cache.stageKey = StageKey(want) THEN cache
    ELSE IF luck = "stage" THEN Noted(cache, Null, Torn)
    ELSE Noted(cache, IF luck = "fill" THEN cache.stageKey ELSE StageKey(want),
               want)

InferRifeOf(format) ==
    \E luck \in RifeLucks, tex \in SUBSET Textures \ {{}} :
        LET want == RifeStaging(format)
            new == RifeRestaged(caches["rife"], want, luck)
            fresh == caches["rife"].stageKey # StageKey(want)
            gone == Replaced("rife", StageKey(want), new)
            submitted == luck \in {"midway", "scene", "fine"}
        IN /\ luck \in {"stage", "fill"} => fresh
           /\ Counts(luck)
           /\ caches' = [caches EXCEPT !["rife"] = new]
           /\ botched' = [botched EXCEPT !["rife"] =
                            IF luck = "fill" THEN format
                            ELSE IF fresh THEN "none" ELSE @]
           /\ Opens(tex, IF luck = "fill" THEN "stage" ELSE luck)
           /\ released' = {[was |-> UsedFor("rife", b[2]), for |-> want] :
                            b \in gone}
           /\ busy' = IF luck \in {"scene", "fine"} THEN {}
                      ELSE (busy \ gone)
                            \cup (IF submitted THEN {<<"rife", "stage">>}
                                  ELSE {})
           /\ faults' =
                IF ~ submitted THEN {}
                ELSE StagingFaults("rife", new.stage, want)
                       \cup (IF tex \cap stale # {} THEN {"stale texture"}
                             ELSE {})

InferRife ==
    /\ cfg.ans \in {"active", "passthrough"} /\ rife.on
    /\ IF Between # rife.size THEN Refuses
       ELSE \E format \in Formats \ {"rgb10"} : InferRifeOf(format)
    /\ UNCHANGED <<source, cfg, hoist, rife, buffers, stale>>

ChainNext == Configure \/ Infer \/ Resize \/ InferRife \/ GpuFinishes

ChainSpec == ChainInit /\ [][ChainNext]_chainVars
-----------------------------------------------------------------------------
(***************************************************************************)
(* Types: staging is what its key says, or torn, or of another format.     *)
(***************************************************************************)
ChainTypeOK ==
    /\ source \in Sizes \cup {<<0, 0>>}
    /\ cfg.ans \in {"none", "active", "passthrough", "error"}
    /\ buffers \in Nat
    /\ cfg.ans = "active" => buffers > 0
    /\ DOMAIN caches = Calls
    /\ \A c \in Calls :
         /\ caches[c].pre = Null \/ caches[c].pre.format \in Formats
         /\ caches[c].stageKey = Null \/ caches[c].stage # Null
    /\ stale \subseteq shared /\ shared \subseteq Textures
    /\ busy \subseteq Calls \X {"stage", "pre", "post"}
    /\ failures \in 0..MaxFailures

(***************************************************************************)
(* A frame is read from and written to the texture at its address now, not *)
(* the one that was there when the address was first seen; is copied       *)
(* through staging of its own format and sizes, and converted by plans for *)
(* its own format, size and siting: no key of an earlier frame, format or  *)
(* configuration lets it through to others.  The one exception the code    *)
(* leaves: when a call failed because staging of a new format could not be *)
(* had, or for RIFE not be filled, frames of the format before go by the   *)
(* old key to what is left ("leftover staging"), until the staging is made *)
(* anew.                                                                   *)
(***************************************************************************)
FramesGetTheirOwn ==
    /\ faults \cap {"stale texture", "wrong staging", "wrong plan"} = {}
    /\ "leftover staging" \in faults => failures > 0

Differs(r) ==
    /\ r.for # Null
    /\ \/ r.was.format # r.for.format
       \/ "siting" \in DOMAIN r.was /\ r.was.siting # r.for.siting

(***************************************************************************)
(* "GPU must be idle before buffers/sessions go away (in-flight pipelined  *)
(* frames included)": chain_teardown keeps to that, and so do frames among *)
(* themselves, although aji_resize and aji_infer take turns on the same    *)
(* stream; but not a frame of another format or siting than what is        *)
(* staged.                                                                 *)
(***************************************************************************)
InFlightKept == \A r \in released : Differs(r)

(***************************************************************************)
(* Every picture fits where it goes: the chain buffers, in the element     *)
(* type its step writes, for aji_resize too, which has the source in fp16; *)
(* the network, which reads the type it was made for; and the call, for a  *)
(* caller that keeps to the sizes the library tells it, and to aji.h in    *)
(* when to ask for the resize.  The one exception the code leaves: the     *)
(* buffers are counted from the source, also where a resize before RIFE,   *)
(* which aji.h takes for a "downscale", makes it larger.                   *)
(***************************************************************************)
Area(s) == s[1] * s[2]
Enlarges == hoist # <<>> /\ Area(hoist[2]) > Area(source)

PicturesFit ==
    /\ faults \cap {"wrong type", "refused"} = {}
    /\ "overrun" \in faults => Enlarges

-----------------------------------------------------------------------------
(* The inductive invariant behind the first two.                           *)

\* The sizes at either end of a call do not change between two configures.
SizeIn(c) == IF c = "infer" THEN cfg.in
             ELSE IF c = "resize" THEN source ELSE rife.size
SizeOut(c) == IF c = "infer" THEN cfg.out
              ELSE IF c = "resize" THEN hoist[2] ELSE rife.size

StagingOf(c, format) ==
    [format |-> format, in |-> SizeIn(c), out |-> SizeOut(c)]

(* Staging is what its key says, but where that of another format was to   *)
(* replace it.                                                             *)
StagingSound ==
    \A c \in Calls :
        /\ caches[c] = [stageKey |-> caches[c].stageKey,
                        stage |-> caches[c].stage, pre |-> caches[c].pre,
                        post |-> caches[c].post]
        /\ botched[c] \in Formats \cup {"none"}
        /\ botched[c] # "none" => failures > 0
        /\ caches[c].stageKey # Null =>
             \E f \in Formats :
                /\ caches[c].stageKey = [format |-> f, in |-> SizeIn(c)]
                /\ \/ caches[c].stage = StagingOf(c, f)
                   \/ botched[c] \notin {"none", f}

(* What submitted work uses was for a frame of the call's sizes: staging   *)
(* by its key, a plan for what it is.                                      *)
BusySound ==
    \A c \in Calls :
        /\ <<c, "stage">> \in busy =>
             \E f \in Formats :
                caches[c].stageKey = [format |-> f, in |-> SizeIn(c)]
        /\ <<c, "pre">> \in busy => caches[c].pre \in Frame(SizeIn(c))
        /\ <<c, "post">> \in busy =>
             \E f \in Formats :
                caches[c].post = [format |-> f, size |-> SizeOut(c)]

ChainIInv ==
    /\ DOMAIN caches = Calls /\ DOMAIN botched = Calls
    /\ busy \subseteq Calls \X {"stage", "pre", "post"}
    /\ \A b \in busy : b[1] = "rife" => b[2] = "stage"
    /\ stale = {} /\ failures \in Nat
    /\ StagingSound /\ BusySound
    /\ FramesGetTheirOwn /\ InFlightKept

(* The sizes frames are sent in, at either end of the chain, are those     *)
(* that it and RIFE were set up for.                                       *)
SizesSound ==
    /\ cfg.ans = "active" =>
         /\ cfg.in = IF hoist # <<>> THEN hoist[2] ELSE source
         /\ hoist # <<>> => RifeFirst
    /\ rife.on /\ cfg.ans \in {"active", "passthrough"} =>
         rife.size = Between

(* An active chain has buffers for the source and for what its steps       *)
(* write, and no network gets what it does not take.                       *)
BuffersSound ==
    /\ buffers \in Nat
    /\ cfg.ans = "active" =>
         /\ source \in Sizes /\ cfg.in \in Nat \X Nat
         /\ PictureBytes(source, HalfAtFirst(cfg.steps)) \in 0..buffers
         /\ \A i \in DOMAIN cfg.steps :
              PictureBytes(cfg.steps[i].to, cfg.steps[i].out16)
                  \in 0..buffers
         /\ ~ Mixed(cfg.steps)

(***************************************************************************)
(* What is asked of videos and profiles where sizes matter: both have      *)
(* pictures, and whichever chain is picked, its models are a sequence, of  *)
(* networks whose scale is known, and none is to be 1 pixel high:          *)
(* round_even makes nothing of that.                                       *)
(***************************************************************************)
Positive == Nat \ {0}
ModelType == [net : DOMAIN Scale \cup {NoNet}, factor : Nat,
              height : Nat \ {1}]

ProfilesTyped ==
    /\ Sizes \subseteq Positive \X Positive
    /\ \A net \in DOMAIN Scale : Scale[net] \in Positive
    /\ \A file \in Files, sl \in Slots, s \in Sizes, fps \in Rates,
          library \in Libraries :
         LET picked == Select(Load(file), sl, s, fps, library)
         IN /\ \E n \in {0, 1} : DOMAIN picked = 1..n
            /\ \A i \in DOMAIN picked : picked[i].models \in Seq(ModelType)
=============================================================================
