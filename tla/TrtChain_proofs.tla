--------------------------- MODULE TrtChain_proofs ---------------------------
(***************************************************************************)
(* Proofs about the chain of the TensorRT backend: its plans, staging and  *)
(* graph are those of the frame at hand, for any profile, format and size. *)
(***************************************************************************)
EXTENDS TrtChain, WellFoundedInduction, TLAPS

(***************************************************************************)
(* Plans: whatever was there, a frame that meets nothing has plans of its  *)
(* own, and the chain computes what the frame asks for.                    *)
(***************************************************************************)
LEMMA OwnPlans ==
    ASSUME NEW a, NEW b, NEW in, NEW out
    PROVE  Computes(in, out, PreAfter(a, in, "fine"),
                             PostAfter(b, out, "fine")) = Asks(in, out)
BY DEF Computes, Asks, PreAfter, PostAfter, Renew, PreKey, PostKey

(* What a graph of this frame is to compute. *)
LEMMA AsksIs ==
    ASSUME NEW in, NEW out
    PROVE  Asks(in, out) =
             [pre |-> PreDesc(in), colours |-> in.colours,
              steps |-> cfg.steps, post |-> PostDesc(out)]
BY DEF Asks, Computes

(* Staging that has grown for a frame is enough for the next of its size.  *)
LEMMA GrownEnough ==
    ASSUME NEW a, NEW b
    PROVE  Grown(Grown(a, b), b) = Grown(a, b)
BY DEF Grown

LEMMA StagedEnough ==
    ASSUME NEW in, NEW out, stage' = Staged(in, out)
    PROVE  stage' = [in |-> Grown(stage'.in, StageBytes(in)),
                     out |-> Grown(stage'.out, StageBytes(out))]
BY GrownEnough DEF Staged

-----------------------------------------------------------------------------
LEMMA InitInv == Init => IInv
<1> SUFFICES ASSUME Init PROVE IInv
  OBVIOUS
<1>1. TypeOK
  BY ChainAssumption DEF Init, TypeOK, Idle, RifeOff, NoGraph
<1>2. ChainSound /\ GraphSound /\ RifeSound
  BY DEF Init, ChainSound, GraphSound, RifeSound, Idle, RifeOff, NoGraph
<1> QED
  BY <1>1, <1>2 DEF Init, IInv, NoDeadMemory, FramesGetTheirChain

(***************************************************************************)
(* The configures.                                                         *)
(***************************************************************************)

(* A direct configure leaves the graph where it is.                        *)
LEMMA ConfigureDirectInv ==
    ASSUME IInv, ConfigureDirect
    PROVE  IInv'
<1> USE DEF ConfigureDirect
<1>1. TypeOK'
  BY DEF IInv, TypeOK
<1>2. ChainSound'
  BY DEF IInv, ChainSound
<1>3. GraphSound'
  <2>1. \A size : StepsFor(size)' = StepsFor(size)
    BY DEF StepsFor
  <2> QED BY <2>1 DEF IInv, GraphSound, PreDesc, PostDesc, Staged
<1>4. RifeSound'
  BY DEF IInv, RifeSound
<1> QED BY <1>1, <1>2, <1>3, <1>4
        DEF IInv, NoDeadMemory, FramesGetTheirChain

(* What setup_rife leaves has no staging yet. *)
LEMMA RifeIsNew ==
    ASSUME NEW o, rife' \in {RifeOff, SetupRife(o)}
    PROVE  RifeSound'
BY DEF RifeSound, RifeOff, SetupRife

(* ensure_buffers has both buffers, or notes no size. *)
LEMMA BuffersTyped ==
    ASSUME TypeOK, NEW need, NEW fails \in {0, 1, 2}
    PROVE  LET new == EnsureBuffers(need, fails)
           IN /\ new.live \subseteq {1, 2} /\ buf.live \subseteq {1, 2}
              /\ new.bytes > 0 => new.live = {1, 2}
              /\ buf.bytes > 0 => buf.live = {1, 2}
              /\ fails = 0 => new.live = {1, 2}
<1>1. CASE Suffices(need)
  BY <1>1 DEF EnsureBuffers, Suffices, TypeOK
<1>2. CASE ~ Suffices(need)
  <2>1. EnsureBuffers(need, fails) =
          [live |-> {b \in {1, 2} : fails = 0 \/ b < fails},
           bytes |-> IF fails = 0 THEN need ELSE 0]
    BY <1>2 DEF EnsureBuffers
  <2>2. {b \in {1, 2} : fails = 0 \/ b < fails} \subseteq {1, 2}
    OBVIOUS
  <2>3. fails = 0 => {b \in {1, 2} : fails = 0 \/ b < fails} = {1, 2}
    OBVIOUS
  <2>4. /\ EnsureBuffers(need, fails).live =
             {b \in {1, 2} : fails = 0 \/ b < fails}
        /\ EnsureBuffers(need, fails).bytes = IF fails = 0 THEN need ELSE 0
    BY <2>1
  <2>5. fails # 0 => ~ (EnsureBuffers(need, fails).bytes > 0)
    BY <2>4
  <2> QED BY <2>2, <2>3, <2>4, <2>5 DEF TypeOK
<1> QED BY <1>1, <1>2

(* Whatever goes wrong, buffers of a size are there, and an active chain   *)
(* has its own.                                                            *)
LEMMA ActivateSound ==
    ASSUME IInv, NEW o, NEW trouble \in Troubles, Activate(o, trouble)
    PROVE  /\ RifeSound'
           /\ cfg'.ans \in {"active", "passthrough", "error"}
           /\ cfg'.ans = "active" => buf'.live = {1, 2}
           /\ buf'.live \subseteq {1, 2}
           /\ buf'.bytes > 0 => buf'.live = {1, 2}
           /\ cfg'.active => /\ cfg'.ans = "active"
                             /\ cfg'.steps # <<>> \/ PreResize'
<1>1. CASE EndsEarly(o, trouble)
  <2>1. rife' \in {RifeOff, SetupRife(o)}
    BY <1>1 DEF EndsEarly
  <2>2. cfg'.ans \in {"passthrough", "error"} /\ ~ cfg'.active
    BY <1>1 DEF EndsEarly, Idle
  <2>3. \/ buf' = buf
        \/ buf' = EnsureBuffers(o.need, 1)
        \/ buf' = EnsureBuffers(o.need, 2)
    BY <1>1 DEF EndsEarly
  <2>4. /\ buf'.live \subseteq {1, 2}
        /\ buf'.bytes > 0 => buf'.live = {1, 2}
    BY <2>3, BuffersTyped DEF IInv
  <2> QED BY <2>1, <2>2, <2>4, RifeIsNew
<1>2. CASE Completes(o, trouble)
  <2>1. rife' \in {RifeOff, SetupRife(o)}
    BY <1>2 DEF Completes
  <2>2. CASE o.steps = <<>> /\ o.start = source'
    <3>1. buf' = buf /\ cfg' = Idle("passthrough", source')
      BY <1>2, <2>2 DEF Completes
    <3>2. cfg'.ans = "passthrough" /\ ~ cfg'.active
      BY <3>1 DEF Idle
    <3>3. RifeSound'
      BY <2>1, RifeIsNew
    <3> QED BY <3>1, <3>2, <3>3 DEF IInv, TypeOK
  <2>3. CASE ~(o.steps = <<>> /\ o.start = source')
    <3>1. o.steps # <<>> \/ PreResize'
      BY <1>2, <2>3 DEF Activate, Completes, PreResize
    <3>2. buf' = EnsureBuffers(o.need, 0)
      BY <1>2, <2>3 DEF Completes
    <3>3. /\ buf'.live = {1, 2}
      BY <3>2, BuffersTyped DEF IInv
    <3>4. cfg' = [ans |-> "active", active |-> TRUE, in |-> o.start,
                  out |-> o.end, steps |-> o.steps,
                  models |-> o.chain.models, cap |-> o.cap]
      BY <1>2, <2>3 DEF Completes
    <3>5. cfg'.ans = "active" /\ cfg'.steps = o.steps
      BY <3>4
    <3>6. RifeSound'
      BY <2>1, RifeIsNew
    <3> QED BY <3>1, <3>3, <3>5, <3>6
  <2> QED BY <2>2, <2>3
<1> QED BY <1>1, <1>2 DEF Activate

(* The teardown takes the graph with it. *)
LEMMA ConfigureInv ==
    ASSUME IInv, Configure
    PROVE  IInv'
<1>1. /\ ~ direct /\ direct' = direct /\ source' \in Sizes
      /\ graph' = NoGraph /\ faults' = {} /\ graphOk' = graphOk
  BY DEF Configure, TearDown, Torn
<1>2. /\ RifeSound'
      /\ cfg'.ans \in {"active", "passthrough", "error"}
      /\ cfg'.ans = "active" => buf'.live = {1, 2}
      /\ buf'.live \subseteq {1, 2}
      /\ buf'.bytes > 0 => buf'.live = {1, 2}
      /\ cfg'.active => /\ cfg'.ans = "active"
                        /\ cfg'.steps # <<>> \/ PreResize'
  <2>1. PICK slot \in Slots : \E o \in Outlines[slot][source'] :
          IF o = <<>> THEN NoChain
          ELSE \E trouble \in Troubles : Activate(o[1], trouble)
    BY DEF Configure
  <2>2. PICK o \in Outlines[slot][source'] :
          IF o = <<>> THEN NoChain
          ELSE \E trouble \in Troubles : Activate(o[1], trouble)
    BY <2>1
  <2>3. CASE o = <<>>
    <3>1. /\ cfg' = Idle("passthrough", source')
          /\ rife' = RifeOff /\ buf' = buf
      BY <2>2, <2>3 DEF NoChain
    <3>2. cfg'.ans = "passthrough" /\ ~ cfg'.active
      BY <3>1 DEF Idle
    <3>3. RifeSound'
      BY <3>1, RifeIsNew
    <3> QED BY <3>1, <3>2, <3>3 DEF IInv, TypeOK
  <2>4. CASE o # <<>>
    BY <2>2, <2>4, ActivateSound
  <2> QED BY <2>3, <2>4
<1>3. TypeOK'
  BY <1>1, <1>2 DEF TypeOK, IInv, NoGraph, RifeSound
<1>4. ChainSound' /\ GraphSound'
  BY <1>1, <1>2 DEF ChainSound, GraphSound, NoGraph
<1> QED BY <1>1, <1>2, <1>3, <1>4
        DEF IInv, NoDeadMemory, FramesGetTheirChain

(***************************************************************************)
(* Frames.                                                                 *)
(***************************************************************************)
(* What a frame may do that is not refused: overrun its buffers, of which  *)
(* nothing is said here.                                                   *)
Fine(x) == x \subseteq {"overrun"}

(* While a chain is active the buffers are there. *)
LEMMA BuffersThere ==
    ASSUME IInv, cfg.ans = "active", NEW need
    PROVE  Fine(BufferFaults(need))
BY DEF IInv, ChainSound, Fine, BufferFaults

(* A frame that runs the chain does what was asked. *)
LEMMA RunIsFine ==
    ASSUME IInv, cfg.ans = "active", NEW in, NEW out, NEW luck \in Lucks,
           Ran(RunChain(in, out, luck), in, out)
    PROVE  /\ Fine(faults')
           /\ luck = "fine" => RunChain(in, out, luck).did = Asks(in, out)
<1>1. RunChain(in, out, luck).ok <=> luck = "fine"
  BY DEF RunChain
<1>2. luck = "fine" => RunChain(in, out, luck).did = Asks(in, out)
  BY OwnPlans DEF RunChain
<1>3. CASE luck # "fine"
  BY <1>1, <1>3 DEF Ran, Fine
<1>4. CASE luck = "fine"
  <2>1. faults' = BufferFaults(Largest(in.size))
    BY <1>1, <1>2, <1>4 DEF Ran, PictureFaults
  <2> QED BY <1>2, <1>4, <2>1, BuffersThere DEF BufferFaults
<1> QED BY <1>3, <1>4

(* What a graph that lost its addresses still is. *)
LEMMA KillKeeps ==
    ASSUME GraphSound, TypeOK, NEW freed
    PROVE  LET g == Kill(graph, freed)
           IN /\ g = [key |-> g.key, did |-> g.did,
                      uses |-> g.uses, dead |-> g.dead]
              /\ g.key = graph.key /\ g.did = graph.did
              /\ g.dead \subseteq g.uses
              /\ graph = NoGraph => g = NoGraph
<1>1. graph = [key |-> graph.key, did |-> graph.did,
               uses |-> graph.uses, dead |-> graph.dead]
  BY DEF GraphSound
<1>2. PICK k, d, u, x : graph = [key |-> k, did |-> d, uses |-> u, dead |-> x]
  BY <1>1
<1>3. Kill(graph, freed) =
        [key |-> k, did |-> d, uses |-> u, dead |-> x \cup (freed \cap u)]
  <2>1. graph.dead = x /\ graph.uses = u
    BY <1>2
  <2>2. Kill(graph, freed) =
          [graph EXCEPT !.dead = x \cup (freed \cap u)]
    BY <2>1 DEF Kill
  <2> DEFINE dead == x \cup (freed \cap u)
  <2> HIDE DEF dead
  <2>3. [graph EXCEPT !.dead = dead] =
          [key |-> k, did |-> d, uses |-> u, dead |-> dead]
    BY ONLY <1>2
  <2> QED BY <2>2, <2>3 DEF dead
<1>4. x \subseteq u
  BY <1>2 DEF TypeOK
<1> QED BY <1>2, <1>3, <1>4 DEF NoGraph

(* The variables a frame leaves alone. *)
KeepsChain == UNCHANGED <<direct, source, cfg, hoist, rife, buf>>

LEMMA StepsKept ==
    ASSUME KeepsChain, NEW size
    PROVE  StepsFor(size)' = StepsFor(size)
BY DEF KeepsChain, StepsFor

(* The plain path: graphs were given up, whatever it frees.                *)
LEMMA RunPlainInv ==
    ASSUME IInv, cfg.ans = "active", NEW in, NEW out, NEW freed,
           RunPlain(in, out, freed), KeepsChain, graphOk' = FALSE
    PROVE  IInv' /\ Fine(faults')
<1>1. PICK luck \in Lucks :
        /\ Ran(RunChain(in, out, luck), in, out)
        /\ graph' = Kill(graph, freed \cup RunChain(in, out, luck).freed)
  BY DEF RunPlain
<1>2. Fine(faults')
  BY <1>1, RunIsFine
<1>3. /\ graph' = [key |-> graph'.key, did |-> graph'.did,
                   uses |-> graph'.uses, dead |-> graph'.dead]
      /\ graph'.key = graph.key /\ graph'.did = graph.did
      /\ graph'.dead \subseteq graph'.uses
      /\ graph = NoGraph => graph' = NoGraph
  BY <1>1, KillKeeps DEF IInv
<1>4. GraphSound'
  BY <1>3, StepsKept DEF IInv, GraphSound, PreDesc, PostDesc
<1>5. TypeOK' /\ ChainSound' /\ RifeSound'
  BY <1>2, <1>3 DEF Fine, IInv, TypeOK, ChainSound, RifeSound, KeepsChain,
                    PreResize
<1> QED BY <1>2, <1>4, <1>5
        DEF IInv, NoDeadMemory, FramesGetTheirChain, Fine

(* A frame at the size of the chain gets its steps. *)
LEMMA StepsOfFrame ==
    ASSUME IInv, cfg.ans = "active", NEW in, in.size = cfg.in
    PROVE  StepsFor(in.size) = cfg.steps
BY DEF IInv, ChainSound, StepsFor

(* A new graph has the plans of its frame, and staging that is enough.     *)
LEMMA CaptureInv ==
    ASSUME IInv, cfg.ans = "active", KeepsChain, NEW in, NEW out,
           in.size = cfg.in, Capture(in, out)
    PROVE  IInv' /\ Fine(faults')
<1>1. stage' = Staged(in, out)
  BY DEF Capture
<1>2. PICK luck \in Lucks, captured \in BOOLEAN :
        /\ captured => RunChain(in, out, luck).ok
        /\ Ran(RunChain(in, out, luck), in, out)
        /\ graphOk' = (captured \/ ~ RunChain(in, out, luck).ok)
        /\ graph' = IF ~ captured THEN NoGraph
                    ELSE [key |-> GraphKey(in, out),
                          did |-> RunChain(in, out, luck).did,
                          uses |-> Captures(in, out), dead |-> {}]
  BY DEF Capture
<1>3. /\ Fine(faults')
      /\ luck = "fine" => RunChain(in, out, luck).did = Asks(in, out)
  BY <1>2, RunIsFine
<1>4. RunChain(in, out, luck).ok \in BOOLEAN
      /\ (RunChain(in, out, luck).ok <=> luck = "fine")
  BY DEF RunChain
<1>5. GraphSound'
  <2>1. CASE ~ captured
    BY <1>2, <2>1 DEF GraphSound, NoGraph
  <2>2. CASE captured
    <3>1. /\ graph'.key = [in |-> in, out |-> out]
          /\ graph'.did = Asks(in, out) /\ graph'.dead = {}
          /\ graph' = [key |-> graph'.key, did |-> graph'.did,
                       uses |-> graph'.uses, dead |-> graph'.dead]
      BY <1>2, <1>3, <1>4, <2>2 DEF GraphKey
    <3>2. StepsFor(in.size)' = cfg.steps
      <4>1. direct' = direct /\ cfg' = cfg /\ in.size = in.size
        BY DEF KeepsChain
      <4> QED BY <4>1, StepsOfFrame DEF StepsFor
    <3>3. Asks(in, out) = [pre |-> PreDesc(in), colours |-> in.colours,
                           steps |-> cfg.steps, post |-> PostDesc(out)]
      BY AsksIs
    <3>4. stage' = [in |-> Grown(stage'.in, StageBytes(in)),
                    out |-> Grown(stage'.out, StageBytes(out))]
      BY <1>1, StagedEnough
    <3>5. graph'.key.in = in /\ graph'.key.out = out
      BY <3>1
    <3> QED BY <3>1, <3>2, <3>3, <3>4, <3>5
            DEF GraphSound, StepsFor, Staged, PreDesc, PostDesc
  <2> QED BY <2>1, <2>2
<1>6. TypeOK' /\ ChainSound' /\ RifeSound'
  BY <1>2, <1>3, <1>4
     DEF Fine, IInv, TypeOK, ChainSound, RifeSound, KeepsChain, PreResize,
         NoGraph
<1> QED BY <1>3, <1>5, <1>6
        DEF IInv, NoDeadMemory, FramesGetTheirChain, Fine

(* A graph that is launched has all it refers to, and does for a frame of  *)
(* its key what that frame asks for.                                       *)
LEMMA LaunchInv ==
    ASSUME IInv, cfg.ans = "active", KeepsChain, NEW in, NEW out,
           in.size = cfg.in, graphOk, Launch(in, out)
    PROVE  IInv' /\ Fine(faults')
<1>1. /\ graph # NoGraph /\ graph.key = [in |-> in, out |-> out]
      /\ stage' = Staged(in, out) /\ graph' = Kill(graph, Moved(stage'))
      /\ plans' = plans /\ graphOk' = graphOk
      /\ faults' = BufferFaults(Largest(in.size))
                    \cup PictureFaults(graph.did, Asks(in, out))
                    \cup (IF graph'.dead # {} THEN {"dead memory"} ELSE {})
  BY DEF Launch, Captured, GraphKey
<1>2. graph.key.in = in /\ graph.key.out = out
  <2>1. graph.key = [in |-> in, out |-> out]
    BY <1>1
  <2> QED BY ONLY <2>1
<1>3. stage' = stage /\ graph.dead = {}
  BY <1>1, <1>2 DEF IInv, GraphSound
<1>4. graph' = graph
  <2>1. Moved(stage') = {}
    BY <1>3 DEF Moved
  <2>2. PICK k, d, u, x :
          graph = [key |-> k, did |-> d, uses |-> u, dead |-> x]
    BY DEF IInv, GraphSound
  <2>3. Kill(graph, {}) =
          [key |-> k, did |-> d, uses |-> u, dead |-> x \cup ({} \cap u)]
    BY <2>2 DEF Kill
  <2>4. x = {}
    BY <1>3, <2>2
  <2> QED BY <1>1, <2>1, <2>2, <2>3, <2>4
<1>5. graph.did = Asks(in, out)
  BY <1>1, <1>2, AsksIs, StepsOfFrame DEF IInv, GraphSound
<1>6. faults' = BufferFaults(Largest(in.size))
  BY <1>1, <1>3, <1>4, <1>5 DEF PictureFaults
<1>7. Fine(faults')
  BY <1>6, BuffersThere
<1>8. GraphSound'
  <2>1. \A size : StepsFor(size)' = StepsFor(size)
    BY StepsKept
  <2> QED BY <1>1, <1>3, <1>4, <2>1
          DEF IInv, GraphSound, PreDesc, PostDesc, Staged
<1>9. TypeOK' /\ ChainSound' /\ RifeSound'
  BY <1>1, <1>4, <1>6 DEF IInv, TypeOK, ChainSound, RifeSound, KeepsChain,
                          PreResize, BufferFaults
<1> QED BY <1>7, <1>8, <1>9
        DEF IInv, NoDeadMemory, FramesGetTheirChain, Fine

(* A frame on any of the ways through aji_infer. *)
LEMMA InferInv ==
    ASSUME IInv, Infer
    PROVE  IInv' /\ (Fine(faults') \/ (faults' = Refused /\ Sent # cfg.in))
<1>1. cfg.ans = "active" /\ KeepsChain
  BY DEF Infer, KeepsChain
<1>2. PICK in \in Frame(Sent), out \in Output(cfg.out) :
        IF in.size # cfg.in
        THEN /\ faults' = Refused
             /\ UNCHANGED <<plans, stage, graph, graphOk>>
        ELSE IF graphOk THEN ViaGraph(in, out) ELSE Plain(in, out)
  BY DEF Infer
<1>3. CASE in.size # cfg.in
  <2>1. faults' = {"refused"} /\ UNCHANGED <<plans, stage, graph, graphOk>>
    BY <1>2, <1>3 DEF Refused
  <2>2. \A size : StepsFor(size)' = StepsFor(size)
    BY <1>1, StepsKept
  <2>3. GraphSound'
    BY <1>1, <2>1, <2>2 DEF IInv, GraphSound, PreDesc, PostDesc, Staged
  <2>4. TypeOK' /\ ChainSound' /\ RifeSound'
    BY <1>1, <2>1 DEF IInv, TypeOK, ChainSound, RifeSound, KeepsChain,
                      PreResize
  <2>5. Sent # cfg.in
    BY <1>3 DEF Frame
  <2> QED BY <2>1, <2>3, <2>4, <2>5
          DEF IInv, NoDeadMemory, FramesGetTheirChain, Refused
<1>4. CASE in.size = cfg.in /\ ~ graphOk
  <2>1. Plain(in, out)
    BY <1>2, <1>4
  <2>2. RunPlain(in, out, {}) /\ graphOk' = FALSE
    BY <1>4, <2>1 DEF Plain, IInv, TypeOK
  <2> QED BY <1>1, <2>2, RunPlainInv
<1>5. CASE in.size = cfg.in /\ graphOk
  <2>1. ViaGraph(in, out)
    BY <1>2, <1>5
  <2>2. CASE StagingFails(in, out)
    <3>1. graphOk' = FALSE /\ \E freed : RunPlain(in, out, freed)
      BY <2>2 DEF StagingFails
    <3> QED BY <1>1, <3>1, RunPlainInv
  <2>3. CASE Capture(in, out)
    BY <1>1, <1>5, <2>3, CaptureInv
  <2>4. CASE Launch(in, out)
    BY <1>1, <1>5, <2>4, LaunchInv
  <2>5. CASE LaunchFails(in, out)
    <3>1. graphOk' = FALSE /\ \E freed : RunPlain(in, out, freed)
      BY <2>5 DEF LaunchFails
    <3> QED BY <1>1, <3>1, RunPlainInv
  <2> QED BY <2>1, <2>2, <2>3, <2>4, <2>5 DEF ViaGraph
<1> QED BY <1>3, <1>4, <1>5

(***************************************************************************)
(* aji_resize and aji_infer_rife leave plans, graph and staging of the     *)
(* chain alone.                                                            *)
(***************************************************************************)
LEMMA ResizeInv ==
    ASSUME IInv, Resize
    PROVE  IInv' /\ Fine(faults')
<1>1. /\ cfg.ans = "active" /\ KeepsChain
      /\ UNCHANGED <<stage, graph, graphOk>>
  BY DEF Resize, KeepsChain, Shrinks
<1>2. PICK in \in Frame(source), luck \in Lucks :
        LET out == [format |-> in.format, size |-> hoist[2]]
            pre == PreAfter(plans.prPre, in, luck)
            post == PostAfter(plans.prPost, out, luck)
        IN faults' =
             IF luck # "fine" THEN {}
             ELSE BufferFaults(Max({Bytes(source), Bytes(hoist[2])}))
                    \cup PictureFaults(Computes(in, out, pre, post),
                                       Asks(in, out))
  BY DEF Resize
<1>3. \/ faults' = {}
      \/ faults' = BufferFaults(Max({Bytes(source), Bytes(hoist[2])}))
  <2> DEFINE out == [format |-> in.format, size |-> hoist[2]]
  <2>1. CASE luck # "fine"
    BY <1>2, <2>1
  <2>2. CASE luck = "fine"
    <3>1. Computes(in, out, PreAfter(plans.prPre, in, "fine"),
                   PostAfter(plans.prPost, out, "fine")) = Asks(in, out)
      BY OwnPlans
    <3> QED BY <1>2, <2>2, <3>1 DEF PictureFaults
  <2> QED BY <2>1, <2>2
<1>4. Fine(faults')
  BY <1>1, <1>3, BuffersThere DEF Fine, BufferFaults
<1>5. \A size : StepsFor(size)' = StepsFor(size)
  BY <1>1, StepsKept
<1>6. GraphSound'
  BY <1>1, <1>5 DEF IInv, GraphSound, PreDesc, PostDesc, Staged
<1>7. TypeOK' /\ ChainSound' /\ RifeSound'
  BY <1>1, <1>4 DEF Fine, IInv, TypeOK, ChainSound, RifeSound, KeepsChain,
                    PreResize
<1> QED BY <1>4, <1>6, <1>7
        DEF IInv, NoDeadMemory, FramesGetTheirChain, Fine

(* Staging that was made or found is for the format of the frames.         *)
LEMMA RestagedSound ==
    ASSUME IInv, NEW format \in Formats, NEW fails \in BOOLEAN,
           fails => rife.format # format
    PROVE  LET r == Restaged(format, fails)
           IN /\ r.format \in Formats \cup {"none"} /\ r.staging = r.format
              /\ r = [on |-> rife.on, before |-> rife.before,
                      size |-> rife.size, format |-> r.format,
                      staging |-> r.staging]
              /\ ~ fails => RifeFaults(r, format) = {}
<1>1. "none" \notin Formats
  BY ChainAssumption
<1>2. PICK on, before, size, f :
        rife = [on |-> on, before |-> before, size |-> size,
                format |-> f, staging |-> f]
  BY DEF IInv, RifeSound
<1>3. CASE rife.format = format
  BY <1>1, <1>3 DEF IInv, RifeSound, Restaged, RifeFaults, PictureFaults
<1>4. CASE rife.format # format /\ fails
  <2>1. Restaged(format, fails) =
          [on |-> on, before |-> before, size |-> size,
           format |-> "none", staging |-> "none"]
    BY <1>2, <1>4 DEF Restaged
  <2>2. /\ Restaged(format, fails).format = "none"
        /\ Restaged(format, fails).staging = "none"
        /\ rife.on = on /\ rife.before = before /\ rife.size = size
    BY <1>2, <2>1
  <2> QED BY <1>4, <2>1, <2>2
<1>5. CASE rife.format # format /\ ~ fails
  <2>1. Restaged(format, fails) =
          [on |-> on, before |-> before, size |-> size,
           format |-> format, staging |-> format]
    BY <1>2, <1>5 DEF Restaged
  <2>2. /\ Restaged(format, fails).format = format
        /\ Restaged(format, fails).staging = format
        /\ rife.on = on /\ rife.before = before /\ rife.size = size
    BY <1>2, <2>1
  <2> QED BY <1>1, <2>1, <2>2 DEF RifeFaults, PictureFaults
<1> QED BY <1>3, <1>4, <1>5

LEMMA InferRifeInv ==
    ASSUME IInv, InferRife
    PROVE  /\ IInv'
           /\ \/ faults' = {}
              \/ faults' = Refused /\ Between # rife.size
           /\ rife' = [on |-> rife.on, before |-> rife.before,
                       size |-> rife.size, format |-> rife'.format,
                       staging |-> rife'.staging]
<1>1. UNCHANGED <<direct, source, cfg, hoist, buf, stage, graph, graphOk>>
      /\ rife.on
  BY DEF InferRife
<1>2. PICK format \in Formats, fails \in BOOLEAN :
        IF Between # rife.size THEN faults' = Refused /\ UNCHANGED rife
        ELSE LET r == Restaged(format, fails)
             IN /\ fails => rife.format # format
                /\ rife' = r
                /\ faults' = IF fails THEN {} ELSE RifeFaults(r, format)
  BY DEF InferRife
<1>3. /\ RifeSound'
      /\ \/ faults' = {}
         \/ faults' = Refused /\ Between # rife.size
      /\ rife' = [on |-> rife.on, before |-> rife.before,
                  size |-> rife.size, format |-> rife'.format,
                  staging |-> rife'.staging]
  <2>1. CASE Between # rife.size
    BY <1>2, <2>1 DEF IInv, RifeSound
  <2>2. CASE Between = rife.size
    <3>1. /\ rife' = Restaged(format, fails)
          /\ fails => rife.format # format
          /\ faults' = IF fails THEN {}
                       ELSE RifeFaults(Restaged(format, fails), format)
      BY <1>2, <2>2
    <3>2. faults' = {}
      BY <3>1, RestagedSound
    <3>3. /\ rife'.format \in Formats \cup {"none"}
          /\ rife'.staging = rife'.format
          /\ rife' = [on |-> rife.on, before |-> rife.before,
                      size |-> rife.size, format |-> rife'.format,
                      staging |-> rife'.staging]
      BY <3>1, RestagedSound
    <3> QED BY <3>2, <3>3 DEF RifeSound
  <2> QED BY <2>1, <2>2
<1>4. ~ direct
  BY <1>1 DEF IInv, ChainSound, RifeOff
<1>5. \A size : StepsFor(size)' = StepsFor(size)
  BY <1>1 DEF StepsFor
<1>6. GraphSound'
  BY <1>1, <1>5 DEF IInv, GraphSound, PreDesc, PostDesc, Staged
<1>7. TypeOK' /\ ChainSound'
  BY <1>1, <1>3, <1>4 DEF IInv, TypeOK, ChainSound, RifeSound, PreResize,
                          Refused
<1> QED BY <1>3, <1>6, <1>7
        DEF IInv, NoDeadMemory, FramesGetTheirChain, Refused

-----------------------------------------------------------------------------
(* The chain, the graph and RIFE stay sound, whatever is configured, fails *)
(* and comes along.                                                        *)
THEOREM Invariance == Spec => []IInv
<1>1. IInv /\ [Next]_vars => IInv'
  <2> SUFFICES ASSUME IInv, [Next]_vars PROVE IInv'
    OBVIOUS
  <2>1. CASE UNCHANGED vars
    <3>1. \A size : StepsFor(size)' = StepsFor(size)
      BY <2>1 DEF vars, StepsFor
    <3>2. GraphSound'
      BY <2>1, <3>1 DEF vars, IInv, GraphSound, PreDesc, PostDesc, Staged
    <3> QED
      BY <2>1, <3>2 DEF vars, IInv, TypeOK, ChainSound, RifeSound, PreResize,
                        NoDeadMemory, FramesGetTheirChain
  <2> QED BY <2>1, ConfigureInv, ConfigureDirectInv, InferInv, ResizeInv,
             InferRifeInv DEF Next
<1> QED BY <1>1, InitInv, PTL DEF Spec

(* Buffers, plans and graph are as their makers leave them; a chain is     *)
(* active only with steps to run, or a resize before it.                   *)
THEOREM TypeCorrect == Spec => []TypeOK
<1>1. IInv => TypeOK
  BY DEF IInv
<1> QED BY <1>1, Invariance, PTL

(* A frame gets the steps of the last configure, and plans, staging and    *)
(* graph of its own format, size, siting and colours.                      *)
THEOREM FramesAreTheirOwn == Spec => []FramesGetTheirChain
<1>1. IInv => FramesGetTheirChain
  BY DEF IInv
<1> QED BY <1>1, Invariance, PTL

(* No kernel gets a freed or null address, by a graph or else.             *)
THEOREM NothingDead == Spec => []NoDeadMemory
<1>1. IInv => NoDeadMemory
  BY DEF IInv
<1> QED BY <1>1, Invariance, PTL

-----------------------------------------------------------------------------
(***************************************************************************)
(* The loop of aji_configure is a fold over the models, which is a         *)
(* recursive function on sets of positions.                                *)
(***************************************************************************)
Begun(s) == [size |-> s, steps |-> <<>>, bytes |-> Bytes(s)]

IsFold(f, D, models, s, cap) ==
    f = [S \in SUBSET D |->
            IF S = {} THEN Begun(s)
            ELSE Through(f[S \ {Max(S)}], models[Max(S)], cap)]

LEMMA WalkIs ==
    ASSUME NEW models, NEW s, NEW cap,
           \E f : IsFold(f, DOMAIN models, models, s, cap)
    PROVE  \E f : /\ IsFold(f, DOMAIN models, models, s, cap)
                  /\ Walk(models, s, cap) = f[DOMAIN models]
<1>1. Walk(models, s, cap) =
        (CHOOSE f : IsFold(f, DOMAIN models, models, s, cap))[DOMAIN models]
  BY DEF Walk, FoldLeft, MapThenFoldSet, IsFold, Begun
<1> QED BY <1>1

LEMMA MaxIsLast ==
    ASSUME NEW n \in Nat, NEW S \in SUBSET (1..(n + 1)), n + 1 \in S
    PROVE  Max(S) = n + 1
<1>1. \A x \in S : n + 1 >= x
  OBVIOUS
<1> DEFINE m == Max(S)
<1>2. m \in S /\ \A y \in S : m >= y
  BY <1>1 DEF Max
<1> HIDE DEF m
<1>3. m \in Int /\ n + 1 >= m /\ m >= n + 1
  BY <1>1, <1>2
<1>4. m = n + 1
  BY <1>3
<1> QED BY <1>4 DEF m

LEMMA FoldGrows ==
    ASSUME NEW models, NEW s, NEW cap, NEW n \in Nat, NEW f,
           IsFold(f, 1..n, models, s, cap)
    PROVE  \E g : IsFold(g, 1..(n + 1), models, s, cap)
<1> DEFINE turn(S) == Through(f[S \ {n + 1}], models[n + 1], cap)
           g == [S \in SUBSET (1..(n + 1)) |->
                   IF n + 1 \in S THEN turn(S) ELSE f[S]]
<1>1. ASSUME NEW S \in SUBSET (1..(n + 1))
      PROVE  g[S] = IF S = {} THEN Begun(s)
                    ELSE Through(g[S \ {Max(S)}], models[Max(S)], cap)
  <2>1. CASE n + 1 \in S
    <3>1. Max(S) = n + 1
      BY <2>1, MaxIsLast
    <3>2. g[S] = turn(S)
      BY <2>1
    <3>3. S \ {n + 1} \in SUBSET (1..(n + 1)) /\ n + 1 \notin S \ {n + 1}
      OBVIOUS
    <3>4. g[S \ {n + 1}] = f[S \ {n + 1}]
      BY <3>3
    <3>5. S # {}
      BY <2>1
    <3> HIDE DEF g
    <3> QED BY <3>1, <3>2, <3>4, <3>5
  <2>2. CASE n + 1 \notin S
    <3>1. S \in SUBSET (1..n)
      BY <2>2
    <3>2. g[S] = f[S]
      BY <2>2
    <3>3. S \ {Max(S)} \in SUBSET (1..(n + 1)) /\ n + 1 \notin S \ {Max(S)}
      BY <2>2
    <3>4. g[S \ {Max(S)}] = f[S \ {Max(S)}]
      BY <3>3
    <3>5. f[S] = IF S = {} THEN Begun(s)
                 ELSE Through(f[S \ {Max(S)}], models[Max(S)], cap)
      BY <3>1 DEF IsFold
    <3> HIDE DEF g
    <3> QED BY <3>2, <3>4, <3>5
  <2> QED BY <2>1, <2>2
<1>2. DOMAIN g = SUBSET (1..(n + 1))
  OBVIOUS
<1>3. g = [S \in SUBSET (1..(n + 1)) |-> g[S]]
  OBVIOUS
<1> DEFINE h == [S \in SUBSET (1..(n + 1)) |->
                   IF S = {} THEN Begun(s)
                   ELSE Through(g[S \ {Max(S)}], models[Max(S)], cap)]
<1> HIDE DEF g
<1>4. \A S \in SUBSET (1..(n + 1)) : g[S] = h[S]
  BY <1>1
<1>5. g = h
  BY <1>3, <1>4
<1> QED BY <1>5 DEF IsFold

(* A set of natural numbers has a least. *)
LEMMA Least ==
    ASSUME NEW T \in SUBSET Nat, T # {}
    PROVE  \E m \in T : \A t \in T : m <= t
<1>1. PICK m \in T : \A t \in T : ~(<<t, m>> \in OpToRel(<, Nat))
  BY NatLessThanWellFounded, WFMin, Zenon
<1>2. \A t \in T : ~(t < m)
  BY <1>1 DEF OpToRel
<1> QED BY <1>2

LEMMA FoldExists ==
    ASSUME NEW models, NEW s, NEW cap, NEW n \in Nat
    PROVE  \E f : IsFold(f, 1..n, models, s, cap)
<1> DEFINE none == {k \in Nat : ~ \E f : IsFold(f, 1..k, models, s, cap)}
<1>1. SUFFICES none = {}
  OBVIOUS
<1>2. SUFFICES ASSUME none # {} PROVE FALSE
  OBVIOUS
<1>3. PICK k \in none : \A t \in none : k <= t
  BY <1>2, Least
<1>4. k # 0
  <2>1. SUBSET (1..0) = {{}}
    OBVIOUS
  <2> DEFINE f == [S \in SUBSET (1..0) |-> Begun(s)]
  <2>2. IsFold(f, 1..0, models, s, cap)
    BY <2>1 DEF IsFold
  <2> QED BY <2>2
<1>5. k - 1 \in Nat /\ k - 1 \notin none
  BY <1>3, <1>4
<1>6. PICK f : IsFold(f, 1..(k - 1), models, s, cap)
  BY <1>5
<1>7. \E g : IsFold(g, 1..((k - 1) + 1), models, s, cap)
  BY <1>5, <1>6, FoldGrows
<1>8. (k - 1) + 1 = k
  BY <1>5
<1> QED BY <1>7, <1>8

(* What the loop has at the start and every turn keeps, it has at the end. *)
LEMMA WalkStays ==
    ASSUME NEW models, NEW n \in Nat, DOMAIN models = 1..n, NEW s, NEW cap,
           NEW T, Begun(s) \in T,
           \A acc \in T, k \in 1..n : Through(acc, models[k], cap) \in T
    PROVE  Walk(models, s, cap) \in T
<1>1. PICK f : /\ IsFold(f, 1..n, models, s, cap)
               /\ Walk(models, s, cap) = f[1..n]
  BY FoldExists, WalkIs
<1> DEFINE out == {k \in Nat : k <= n /\ f[1..k] \notin T}
<1>2. SUFFICES ASSUME out # {} PROVE FALSE
  BY <1>1
<1>3. PICK k \in out : \A t \in out : k <= t
  BY <1>2, Least
<1>4. k # 0
  <2>1. 1..0 = {} /\ 1..0 \in SUBSET (1..n)
    OBVIOUS
  <2>2. f[1..0] = Begun(s)
    BY <1>1, <2>1 DEF IsFold
  <2> QED BY <2>2
<1>5. k - 1 \in Nat /\ k \in 1..n /\ k - 1 \notin out
  BY <1>3, <1>4
<1>6. f[1..(k - 1)] \in T
  BY <1>5
<1>7. Max(1..k) = k
  <2>1. \A m \in Nat : Max(1..(m + 1)) = m + 1
    BY MaxIsLast
  <2>2. (k - 1) + 1 = k
    BY <1>5
  <2> QED BY <1>5, <2>1, <2>2
<1>8. (1..k) \ {k} = 1..(k - 1) /\ 1..k # {} /\ 1..k \in SUBSET (1..n)
  <2>1. k \in Nat /\ 1 <= k /\ k <= n
    BY <1>5
  <2>2. \A x : x \in (1..k) \ {k} <=> x \in 1..(k - 1)
    BY <2>1
  <2>3. (1..k) \ {k} = 1..(k - 1)
    BY <2>2
  <2>4. 1 \in 1..k
    BY <2>1
  <2>5. \A x \in 1..k : x \in 1..n
    BY <2>1
  <2> QED BY <2>3, <2>4, <2>5
<1>9. f[1..k] = Through(f[1..(k - 1)], models[k], cap)
  BY <1>1, <1>7, <1>8 DEF IsFold
<1> QED BY <1>5, <1>6, <1>9

-----------------------------------------------------------------------------
Dims == (Nat \X Nat) \ {<<0, 0>>}

LEMMA QuotientTyped ==
    ASSUME NEW a \in Nat, NEW b \in Nat, b > 0
    PROVE  a \div b \in Nat
OBVIOUS

LEMMA EvenTyped ==
    ASSUME NEW n \in Nat
    PROVE  Even(n) \in Nat /\ (n >= 2 => Even(n) >= 2)
BY DEF Even

LEMMA RoundEvenTyped ==
    ASSUME NEW n \in Nat, NEW d \in Nat, d > 0
    PROVE  RoundEven(n, d) \in Nat
<1>1. 2 * n + d \in Nat /\ 2 * d \in Nat /\ 2 * d > 0
  OBVIOUS
<1> DEFINE q == (2 * n + d) \div (2 * d)
<1>2. q \in Nat
  BY <1>1, QuotientTyped
<1> HIDE DEF q
<1>3. Even(q) \in Nat
  BY <1>2, EvenTyped
<1> QED BY <1>3 DEF RoundEven, q

LEMMA BytesTyped ==
    ASSUME NEW s \in Nat \X Nat
    PROVE  Bytes(s) \in Nat
BY DEF Bytes

(* A box of more than one row always has a picture. *)
LEMMA FitBoxTyped ==
    ASSUME NEW s \in Dims, NEW h \in Nat, h >= 2
    PROVE  FitBox(s, h) \in Dims
<1>1. s[1] \in Nat /\ s[2] \in Nat /\ (s[1] > 0 \/ s[2] > 0)
  BY DEF Dims
<1>2. CASE 9 * s[1] > 16 * s[2]
  <2>1. RoundEven(16 * h, 9) \in Nat /\ RoundEven(16 * h, 9) > 0
    BY DEF RoundEven, Even
  <2>2. 9 * s[1] \in Nat /\ 9 * s[1] > 0
    BY <1>1, <1>2
  <2>3. 16 * h * s[2] \in Nat
    BY <1>1
  <2>4. RoundEven(16 * h * s[2], 9 * s[1]) \in Nat
    BY <2>2, <2>3, RoundEvenTyped
  <2>5. FitBox(s, h) =
          <<RoundEven(16 * h, 9), RoundEven(16 * h * s[2], 9 * s[1])>>
    BY <1>2 DEF FitBox
  <2> QED BY <2>1, <2>4, <2>5 DEF Dims
<1>3. CASE ~(9 * s[1] > 16 * s[2])
  <2>1. RoundEven(h, 1) \in Nat /\ RoundEven(h, 1) > 0
    BY DEF RoundEven, Even
  <2>2. s[2] > 0
    BY <1>1, <1>3
  <2>3. h * s[1] \in Nat
    BY <1>1
  <2>4. RoundEven(h * s[1], s[2]) \in Nat
    BY <1>1, <2>2, <2>3, RoundEvenTyped
  <2>5. FitBox(s, h) = <<RoundEven(h * s[1], s[2]), RoundEven(h, 1)>>
    BY <1>3 DEF FitBox
  <2> QED BY <2>1, <2>4, <2>5 DEF Dims
<1> QED BY <1>2, <1>3

LEMMA ByFactorTyped ==
    ASSUME NEW s \in Dims, NEW factor \in Nat
    PROVE  ByFactor(s, factor) \in Dims
<1> DEFINE t == <<RoundEven(s[1] * factor, 100),
                RoundEven(s[2] * factor, 100)>>
<1>1. s[1] * factor \in Nat /\ s[2] * factor \in Nat
  BY DEF Dims
<1>2. t \in Nat \X Nat
  BY <1>1, RoundEvenTyped
<1>3. ByFactor(s, factor) = IF factor # 100 /\ Drawable(t) THEN t ELSE s
  BY DEF ByFactor
<1> HIDE DEF t
<1>4. Drawable(t) => t \in Dims
  BY <1>2 DEF Drawable, Dims
<1> QED BY <1>3, <1>4

LEMMA ResizeTargetTyped ==
    ASSUME NEW m \in ModelType, NEW s \in Dims
    PROVE  ResizeTarget(m, s) \in Dims
<1>1. m.factor \in Nat /\ m.height \in Nat /\ m.height # 1
  BY DEF ModelType
<1>2. m.height # 0 => m.height >= 2
  BY <1>1
<1> QED BY <1>1, <1>2, FitBoxTyped, ByFactorTyped DEF ResizeTarget

LEMMA FitWithinTyped ==
    ASSUME NEW s \in Dims, NEW box \in Positive \X Positive,
           Drawable(FitWithin(s, box))
    PROVE  FitWithin(s, box) \in Dims
<1>1. /\ s[1] \in Nat /\ s[2] \in Nat /\ (s[1] > 0 \/ s[2] > 0)
      /\ box[1] \in Nat /\ box[2] \in Nat /\ box[1] > 0 /\ box[2] > 0
  BY DEF Dims, Positive
<1>2. /\ box[1] * s[2] \in Nat /\ box[2] * s[1] \in Nat
      /\ (s[1] > 0 => box[2] * s[1] > 0) /\ (s[2] > 0 => box[1] * s[2] > 0)
      /\ (s[1] = 0 => box[2] * s[1] = 0) /\ (s[2] = 0 => box[1] * s[2] = 0)
  BY <1>1
<1>3. CASE box[1] * s[2] <= box[2] * s[1]
  <2>1. s[1] > 0
    BY <1>1, <1>2, <1>3
  <2>2. s[2] * box[1] \in Nat
    BY <1>1
  <2>3. Even(box[1]) \in Nat /\ Even((s[2] * box[1]) \div s[1]) \in Nat
    BY <1>1, <2>1, <2>2, QuotientTyped, EvenTyped
  <2>4. FitWithin(s, box) = <<Even(box[1]), Even((s[2] * box[1]) \div s[1])>>
    BY <1>3 DEF FitWithin
  <2> QED BY <2>3, <2>4 DEF Drawable, Dims
<1>4. CASE ~(box[1] * s[2] <= box[2] * s[1])
  <2>1. s[2] > 0
    BY <1>1, <1>2, <1>4
  <2>2. s[1] * box[2] \in Nat
    BY <1>1
  <2>3. Even(box[2]) \in Nat /\ Even((s[1] * box[2]) \div s[2]) \in Nat
    BY <1>1, <2>1, <2>2, QuotientTyped, EvenTyped
  <2>4. FitWithin(s, box) = <<Even((s[1] * box[2]) \div s[2]), Even(box[2])>>
    BY <1>4 DEF FitWithin
  <2> QED BY <2>3, <2>4 DEF Drawable, Dims
<1> QED BY <1>3, <1>4

LEMMA TimesTyped ==
    ASSUME NEW s \in Dims, NEW k \in Positive
    PROVE  Times(s, k) \in Dims
<1>1. s[1] \in Nat /\ s[2] \in Nat /\ (s[1] > 0 \/ s[2] > 0)
  BY DEF Dims
<1>2. k \in Nat /\ k > 0
  BY DEF Positive
<1>3. /\ s[1] * k \in Nat /\ s[2] * k \in Nat
      /\ s[1] > 0 => s[1] * k > 0
      /\ s[2] > 0 => s[2] * k > 0
  BY <1>1, <1>2
<1> QED BY <1>1, <1>3 DEF Times, Dims

(* The larger of two. *)
LEMMA MaxOfTwo ==
    ASSUME NEW a \in Int, NEW b \in Int
    PROVE  /\ Max({a, b}) \in {a, b}
           /\ Max({a, b}) >= a /\ Max({a, b}) >= b
<1>1. \E x \in {a, b} : \A y \in {a, b} : x >= y
  <2>1. CASE a >= b
    BY <2>1
  <2>2. CASE ~(a >= b)
    BY <2>2
  <2> QED BY <2>1, <2>2
<1> QED BY <1>1 DEF Max

(***************************************************************************)
(* What the loop of aji_configure has after each turn.                     *)
(***************************************************************************)
Step == [kind : DOMAIN Scale \cup {"resize"}, from : Dims, to : Dims]
Acc == [size : Dims, steps : Seq(Step), bytes : Nat]

Uncounted(steps, cap) ==
    \E i \in 1..(Len(steps) - 1) :
        /\ steps[i].kind = "resize" /\ steps[i + 1].kind = "resize"
        /\ Bytes(steps[i].to) > Bytes(steps[i].from)
        /\ cap # NoCap /\ Exceeds(steps[i].to, cap)

(* The pictures so far have been counted, or there is one that never is.   *)
Held(acc, cap) ==
    \/ Uncounted(acc.steps, cap)
    \/ \A i \in DOMAIN acc.steps : Bytes(acc.steps[i].to) <= acc.bytes

Turned(s, cap) ==
    {acc \in Acc : /\ acc.steps = <<>> => acc.size = s
                   /\ Bytes(s) <= acc.bytes
                   /\ Bytes(acc.size) <= acc.bytes
                   /\ Held(acc, cap)}

LEMMA PushTyped ==
    ASSUME NEW acc \in Acc, NEW kind \in DOMAIN Scale \cup {"resize"},
           NEW t \in Dims
    PROVE  LET step == [kind |-> kind, from |-> acc.size, to |-> t]
           IN /\ Push(acc, kind, t) \in Acc
              /\ Push(acc, kind, t).size = t
              /\ Push(acc, kind, t).bytes = acc.bytes
              /\ Push(acc, kind, t).steps = Append(acc.steps, step)
<1> DEFINE step == [kind |-> kind, from |-> acc.size, to |-> t]
<1>1. step \in Step
  BY DEF Step, Acc
<1> HIDE DEF step
<1>2. Append(acc.steps, step) \in Seq(Step)
  BY <1>1 DEF Acc
<1>3. Push(acc, kind, t) =
        [size |-> t, bytes |-> acc.bytes, steps |-> Append(acc.steps, step)]
  BY DEF Push, step
<1>4. acc.bytes \in Nat
  BY DEF Acc
<1>5. Push(acc, kind, t) \in Acc
  BY <1>2, <1>3, <1>4 DEF Acc
<1> QED BY <1>3, <1>5 DEF step

LEMMA CountedTyped ==
    ASSUME NEW acc \in Acc
    PROVE  /\ Counted(acc) \in Acc
           /\ Counted(acc).size = acc.size
           /\ Counted(acc).steps = acc.steps
           /\ Counted(acc).bytes >= acc.bytes
           /\ Counted(acc).bytes >= Bytes(acc.size)
<1> DEFINE more == Max({acc.bytes, Bytes(acc.size)})
<1>1. acc.bytes \in Nat /\ Bytes(acc.size) \in Nat
  BY BytesTyped DEF Acc, Dims
<1>2. more \in Nat /\ more >= acc.bytes /\ more >= Bytes(acc.size)
  <2> DEFINE a == acc.bytes
             b == Bytes(acc.size)
  <2> HIDE DEF a, b
  <2>1. a \in Nat /\ b \in Nat
    BY <1>1 DEF a, b
  <2>2. /\ Max({a, b}) \in {a, b}
        /\ Max({a, b}) >= a /\ Max({a, b}) >= b
    BY <2>1, MaxOfTwo
  <2>3. Max({a, b}) \in Nat
    BY <2>1, <2>2
  <2> QED BY <2>2, <2>3 DEF a, b
<1>3. PICK size \in Dims, steps \in Seq(Step), bytes \in Nat :
        acc = [size |-> size, steps |-> steps, bytes |-> bytes]
  BY DEF Acc
<1>4. Counted(acc) = [acc EXCEPT !.bytes = more]
  BY DEF Counted
<1> HIDE DEF more
<1>5. Counted(acc) = [size |-> size, steps |-> steps, bytes |-> more]
  BY <1>3, <1>4
<1> QED BY <1>2, <1>3, <1>5 DEF Acc

LEMMA LastOfAppend ==
    ASSUME NEW S, NEW q \in Seq(S), NEW e \in S
    PROVE  /\ Append(q, e) \in Seq(S) /\ Append(q, e) # <<>>
           /\ Len(Append(q, e)) = Len(q) + 1
           /\ DOMAIN Append(q, e) = 1..(Len(q) + 1)
           /\ DOMAIN q = 1..Len(q) /\ Len(q) \in Nat
           /\ Append(q, e)[Len(q) + 1] = e
           /\ \A i \in 1..Len(q) : Append(q, e)[i] = q[i]
OBVIOUS

(* A picture that is never counted stays that. *)
LEMMA UncountedStays ==
    ASSUME NEW q \in Seq(Step), NEW e \in Step, NEW cap, Uncounted(q, cap)
    PROVE  Uncounted(Append(q, e), cap)
<1>1. PICK i \in 1..(Len(q) - 1) :
        /\ q[i].kind = "resize" /\ q[i + 1].kind = "resize"
        /\ Bytes(q[i].to) > Bytes(q[i].from)
        /\ cap # NoCap /\ Exceeds(q[i].to, cap)
  BY DEF Uncounted
<1>2. /\ Append(q, e)[i] = q[i] /\ Append(q, e)[i + 1] = q[i + 1]
      /\ i \in 1..(Len(Append(q, e)) - 1)
  BY LastOfAppend
<1> QED BY <1>1, <1>2 DEF Uncounted

LEMMA StartTurned ==
    ASSUME NEW s \in Dims, NEW cap
    PROVE  Begun(s) \in Turned(s, cap)
<1>1. Bytes(s) \in Nat
  BY BytesTyped DEF Dims
<1>2. Begun(s) \in Acc
  BY <1>1 DEF Begun, Acc
<1>3. Begun(s).steps = <<>> /\ Begun(s).size = s /\ Begun(s).bytes = Bytes(s)
  BY DEF Begun
<1> QED BY <1>1, <1>2, <1>3 DEF Turned, Held

LEMMA CountedTurned ==
    ASSUME NEW s \in Dims, NEW cap, NEW acc \in Turned(s, cap)
    PROVE  Counted(acc) \in Turned(s, cap)
<1>1. acc \in Acc /\ acc.bytes \in Nat
  BY DEF Turned, Acc
<1>2. /\ Counted(acc) \in Acc
      /\ Counted(acc).size = acc.size
      /\ Counted(acc).steps = acc.steps
      /\ Counted(acc).bytes >= acc.bytes
      /\ Counted(acc).bytes >= Bytes(acc.size)
  BY <1>1, CountedTyped
<1>3. Counted(acc).bytes \in Nat
  BY <1>2 DEF Acc
<1>4. ASSUME NEW i \in DOMAIN acc.steps
      PROVE  Bytes(acc.steps[i].to) \in Nat
  <2>1. acc.steps[i] \in Step
    BY <1>1 DEF Acc
  <2>2. acc.steps[i].to \in Nat \X Nat
    BY <2>1 DEF Step, Dims
  <2> QED BY <2>2, BytesTyped
<1>5. Bytes(acc.size) \in Nat /\ Bytes(s) \in Nat
  BY <1>1, BytesTyped DEF Acc, Dims
<1>6. Held(Counted(acc), cap)
  <2>1. Held(acc, cap)
    BY DEF Turned
  <2> QED BY <1>1, <1>2, <1>3, <1>4, <2>1 DEF Held
<1>7. Bytes(s) <= Counted(acc).bytes
  <2>1. Bytes(s) <= acc.bytes
    BY DEF Turned
  <2> QED BY <1>1, <1>2, <1>3, <1>5, <2>1
<1> QED BY <1>2, <1>3, <1>5, <1>6, <1>7 DEF Turned

(* A step, once its picture is counted. *)
LEMMA PushTurned ==
    ASSUME NEW s \in Dims, NEW cap, NEW acc \in Acc, Held(acc, cap),
           Bytes(s) <= acc.bytes,
           NEW kind \in DOMAIN Scale \cup {"resize"}, NEW t \in Dims
    PROVE  Counted(Push(acc, kind, t)) \in Turned(s, cap)
<1> DEFINE step == [kind |-> kind, from |-> acc.size, to |-> t]
           p == Push(acc, kind, t)
<1>1. /\ p \in Acc /\ p.size = t /\ p.bytes = acc.bytes
      /\ p.steps = Append(acc.steps, step)
  BY PushTyped
<1>2. /\ Counted(p) \in Acc
      /\ Counted(p).size = t /\ Counted(p).steps = p.steps
      /\ Counted(p).bytes >= acc.bytes
      /\ Counted(p).bytes >= Bytes(t)
  BY <1>1, CountedTyped
<1>3. step \in Step /\ step.to = t
  BY DEF Step, Acc
<1> HIDE DEF step, p
<1>4. acc.steps \in Seq(Step) /\ acc.bytes \in Nat
  BY DEF Acc
<1>5. p.steps # <<>>
  BY <1>1, <1>3, <1>4, LastOfAppend
<1>6. Held(Counted(p), cap)
  <2>1. CASE Uncounted(acc.steps, cap)
    BY <1>1, <1>2, <1>3, <1>4, <2>1, UncountedStays DEF Held
  <2>2. CASE \A i \in DOMAIN acc.steps : Bytes(acc.steps[i].to) <= acc.bytes
    <3> SUFFICES ASSUME NEW i \in DOMAIN p.steps
                 PROVE  Bytes(p.steps[i].to) <= Counted(p).bytes
      BY <1>2 DEF Held
    <3>1. i \in 1..(Len(acc.steps) + 1) /\ Len(acc.steps) \in Nat
      BY <1>1, <1>3, <1>4, LastOfAppend
    <3>2. CASE i = Len(acc.steps) + 1
      <4>1. p.steps[i] = step
        BY <1>1, <1>3, <1>4, <3>2, LastOfAppend
      <4> QED BY <1>2, <1>3, <4>1
    <3>3. CASE i # Len(acc.steps) + 1
      <4>1. i \in 1..Len(acc.steps)
        BY <3>1, <3>3
      <4>2. p.steps[i] = acc.steps[i] /\ i \in DOMAIN acc.steps
        BY <1>1, <1>3, <1>4, <4>1, LastOfAppend
      <4>3. acc.steps[i].to \in Nat \X Nat
        <5>1. acc.steps[i] \in Step
          BY <1>4, <4>2
        <5> QED BY <5>1 DEF Step, Dims
      <4>4. Bytes(acc.steps[i].to) \in Nat
        BY <4>3, BytesTyped
      <4>5. Counted(p).bytes \in Nat
        BY <1>2 DEF Acc
      <4> QED BY <1>2, <1>4, <2>2, <4>2, <4>4, <4>5
    <3> QED BY <3>2, <3>3
  <2> QED BY <2>1, <2>2 DEF Held
<1>7. Bytes(s) <= Counted(p).bytes
  <2>1. Bytes(s) \in Nat /\ Counted(p).bytes \in Nat
    BY <1>2, BytesTyped DEF Acc, Dims
  <2> QED BY <1>2, <1>4, <2>1
<1>8. Counted(p) \in Turned(s, cap)
  BY <1>2, <1>5, <1>6, <1>7 DEF Turned
<1> QED BY <1>8 DEF p

(* Two resizes: the first picture is counted by its source, or one of the  *)
(* uncounted.                                                              *)
LEMMA CappedPushTurned ==
    ASSUME NEW s \in Dims, NEW cap, NEW acc \in Turned(s, cap), NEW t \in Dims,
           cap # NoCap, Exceeds(t, cap), NEW u \in Dims
    PROVE  Counted(Push(Push(acc, "resize", t), "resize", u))
             \in Turned(s, cap)
<1> DEFINE step == [kind |-> "resize", from |-> acc.size, to |-> t]
           next == [kind |-> "resize", from |-> t, to |-> u]
           p == Push(acc, "resize", t)
           q == acc.steps
<1>1. acc \in Acc /\ q \in Seq(Step) /\ acc.bytes \in Nat /\ Held(acc, cap)
      /\ Bytes(acc.size) <= acc.bytes /\ Bytes(s) <= acc.bytes
  BY DEF Turned, Acc
<1>2. /\ p \in Acc /\ p.size = t /\ p.bytes = acc.bytes
      /\ p.steps = Append(q, step)
  BY <1>1, PushTyped
<1>3. /\ step \in Step /\ step.to = t /\ step.kind = "resize"
      /\ step.from = acc.size
  BY <1>1 DEF Step, Acc
<1>4. next \in Step /\ next.kind = "resize"
  BY DEF Step
<1>5. Bytes(t) \in Nat /\ Bytes(acc.size) \in Nat
  BY <1>1, BytesTyped DEF Acc, Dims
<1>6. CASE Bytes(t) <= Bytes(acc.size)
  <2>1. Held(p, cap)
    <3>1. CASE Uncounted(q, cap)
      BY <1>1, <1>2, <1>3, <3>1, UncountedStays DEF Held
    <3>2. CASE \A i \in DOMAIN q : Bytes(q[i].to) <= acc.bytes
      <4> HIDE DEF step, q, p
      <4> SUFFICES ASSUME NEW i \in DOMAIN p.steps
                   PROVE  Bytes(p.steps[i].to) <= p.bytes
        BY DEF Held
      <4>1. i \in 1..(Len(q) + 1) /\ Len(q) \in Nat
        BY <1>1, <1>2, <1>3, LastOfAppend
      <4>2. CASE i = Len(q) + 1
        <5>1. p.steps[i] = step
          BY <1>1, <1>2, <1>3, <4>2, LastOfAppend
        <5>2. Bytes(t) <= acc.bytes
          BY <1>1, <1>5, <1>6
        <5> QED BY <1>2, <1>3, <5>1, <5>2
      <4>3. CASE i # Len(q) + 1
        <5>1. i \in 1..Len(q)
          BY <4>1, <4>3
        <5>2. p.steps[i] = q[i] /\ i \in DOMAIN q
          BY <1>1, <1>2, <1>3, <5>1, LastOfAppend
        <5> QED BY <1>2, <3>2, <5>2
      <4> QED BY <4>2, <4>3
    <3> QED BY <1>1, <3>1, <3>2 DEF Held
  <2> QED BY <1>1, <1>2, <2>1, PushTurned
<1>7. CASE Bytes(t) > Bytes(acc.size)
  <2> DEFINE r == Push(p, "resize", u)
  <2>1. r \in Acc /\ r.size = u /\ r.steps = Append(p.steps, next)
        /\ r.bytes = acc.bytes
    <3> HIDE DEF p
    <3>1. [kind |-> "resize", from |-> p.size, to |-> u] = next
      BY <1>2
    <3>2. /\ r \in Acc /\ r.size = u /\ r.bytes = acc.bytes
          /\ r.steps = Append(p.steps, [kind |-> "resize", from |-> p.size,
                                        to |-> u])
      <4>1. \A x \in Acc :
              /\ Push(x, "resize", u) \in Acc /\ Push(x, "resize", u).size = u
              /\ Push(x, "resize", u).bytes = x.bytes
              /\ Push(x, "resize", u).steps =
                   Append(x.steps, [kind |-> "resize", from |-> x.size,
                                    to |-> u])
        BY PushTyped
      <4> QED BY <1>2, <4>1
    <3> QED BY <3>1, <3>2
  <2> HIDE DEF step, next, p, q, r
  <2>2. /\ Append(q, step) \in Seq(Step)
        /\ Len(Append(q, step)) = Len(q) + 1 /\ Len(q) \in Nat
        /\ Append(q, step)[Len(q) + 1] = step
    BY <1>1, <1>3, LastOfAppend
  <2> DEFINE n == Len(q)
  <2>3. /\ Len(r.steps) = n + 2 /\ n \in Nat
        /\ r.steps[n + 1] = step /\ r.steps[n + 2] = next
        /\ r.steps # <<>>
    BY <1>2, <1>4, <2>1, <2>2, LastOfAppend
  <2>4. n + 1 \in 1..(Len(r.steps) - 1) /\ (n + 1) + 1 = n + 2
    BY <2>3
  <2>5. Uncounted(r.steps, cap)
    <3> DEFINE i == n + 1
    <3>1. i \in 1..(Len(r.steps) - 1) /\ r.steps[i] = step
          /\ r.steps[i + 1] = next
      BY <2>3, <2>4
    <3> HIDE DEF i
    <3> QED BY <1>3, <1>4, <1>7, <3>1 DEF Uncounted
  <2>6. /\ Counted(r) \in Acc
        /\ Counted(r).size = u /\ Counted(r).steps = r.steps
        /\ Counted(r).bytes >= Bytes(u) /\ Counted(r).bytes >= acc.bytes
    BY <2>1, CountedTyped
  <2>7. /\ Bytes(u) \in Nat /\ Counted(r).bytes \in Nat
        /\ Bytes(s) <= Counted(r).bytes
    <3>1. Bytes(u) \in Nat /\ Bytes(s) \in Nat /\ Counted(r).bytes \in Nat
      BY <2>6, BytesTyped DEF Acc, Dims
    <3> QED BY <1>1, <2>6, <3>1
  <2>8. Counted(r) \in Turned(s, cap)
    BY <2>3, <2>5, <2>6, <2>7 DEF Turned, Held
  <2> QED BY <2>8 DEF r, p
<1> QED BY <1>5, <1>6, <1>7

LEMMA ThroughTurned ==
    ASSUME NEW s \in Dims, NEW cap \in {NoCap} \cup (Positive \X Positive),
           \A net \in DOMAIN Scale : Scale[net] \in Positive,
           NEW acc \in Turned(s, cap), NEW m \in ModelType
    PROVE  Through(acc, m, cap) \in Turned(s, cap)
<1>1. /\ acc \in Acc /\ acc.size \in Dims /\ Held(acc, cap)
      /\ m.factor \in Nat /\ m.height \in Nat /\ m.height # 1
      /\ m.net \in DOMAIN Scale \cup {NoNet} /\ Bytes(s) <= acc.bytes
  BY DEF Turned, Acc, ModelType
<1>2. \A t \in Dims : Counted(Push(acc, "resize", t)) \in Turned(s, cap)
  BY <1>1, PushTurned
(* What a resize by a factor leaves, and the cap makes of it. *)
<1>3. ASSUME NEW t \in Dims
      PROVE  Counted(Capped(Resized(acc, t), cap)) \in Turned(s, cap)
  <2> DEFINE a == Resized(acc, t)
             u == FitWithin(a.size, cap)
  <2>1. a.size = t /\ (a = acc \/ a = Push(acc, "resize", t))
    <3>1. CASE t = acc.size
      BY <3>1 DEF Resized
    <3>2. CASE t # acc.size
      <4>1. a = Push(acc, "resize", t)
        BY <3>2 DEF Resized
      <4>2. Push(acc, "resize", t).size = t
        BY DEF Push
      <4> QED BY <4>1, <4>2
    <3> QED BY <3>1, <3>2
  <2>2. Capped(a, cap) =
          IF cap = NoCap \/ ~ Exceeds(a.size, cap) THEN a
          ELSE IF Drawable(u) THEN Resized(a, u) ELSE a
    BY DEF Capped
  <2>3. Counted(a) \in Turned(s, cap)
    BY <1>2, <2>1, CountedTurned
  <2>4. CASE cap # NoCap /\ Exceeds(a.size, cap) /\ Drawable(u)
    <3>1. u \in Dims
      BY <2>1, <2>4, FitWithinTyped
    <3>2. Counted(Push(a, "resize", u)) \in Turned(s, cap)
      <4>1. CASE a = acc
        BY <1>2, <3>1, <4>1
      <4>2. CASE a = Push(acc, "resize", t)
        BY <2>1, <2>4, <3>1, <4>2, CappedPushTurned
      <4> QED BY <2>1, <4>1, <4>2
    <3> HIDE DEF a, u
    <3>3. Resized(a, u) = a \/ Resized(a, u) = Push(a, "resize", u)
      BY DEF Resized
    <3>4. Counted(Capped(a, cap)) \in Turned(s, cap)
      BY <2>2, <2>3, <2>4, <3>2, <3>3
    <3> QED BY <3>4 DEF a
  <2>5. CASE ~(cap # NoCap /\ Exceeds(a.size, cap) /\ Drawable(u))
    <3>1. Capped(a, cap) = a
      BY <2>2, <2>5
    <3> QED BY <2>3, <3>1
  <2> QED BY <2>4, <2>5
<1> DEFINE fitted ==
             IF m.height # 0 /\ m.height # acc.size[2]
             THEN Push(acc, "resize", FitBox(acc.size, m.height))
             ELSE Capped(IF m.height # 0 THEN acc
                         ELSE Resized(acc, ByFactor(acc.size, m.factor)), cap)
<1>4. Counted(fitted) \in Turned(s, cap)
  <2>1. CASE m.height # 0 /\ m.height # acc.size[2]
    <3>1. m.height >= 2
      BY <1>1, <2>1
    <3>2. FitBox(acc.size, m.height) \in Dims
      BY <1>1, <3>1, FitBoxTyped
    <3> QED BY <1>2, <2>1, <3>2
  <2>2. CASE m.height # 0 /\ m.height = acc.size[2]
    <3>1. Resized(acc, acc.size) = acc
      BY DEF Resized
    <3>2. Counted(Capped(acc, cap)) \in Turned(s, cap)
      BY <1>1, <1>3, <3>1
    <3> QED BY <2>2, <3>2
  <2>3. CASE m.height = 0
    <3>1. ByFactor(acc.size, m.factor) \in Dims
      BY <1>1, ByFactorTyped
    <3>2. fitted = Capped(Resized(acc, ByFactor(acc.size, m.factor)), cap)
      BY <2>3
    <3> QED BY <1>3, <3>1, <3>2
  <2> QED BY <2>1, <2>2, <2>3
<1>5. Through(acc, m, cap) = Run(Counted(fitted), m.net)
  BY DEF Through
<1> HIDE DEF fitted
<1> DEFINE b == Counted(fitted)
<1> HIDE DEF b
<1>6. b \in Turned(s, cap)
  BY <1>4 DEF b
<1>7. CASE m.net = NoNet
  BY <1>5, <1>6, <1>7 DEF Run, b
<1>8. CASE m.net # NoNet
  <2>1. m.net \in DOMAIN Scale
    BY <1>1, <1>8
  <2>2. Times(b.size, Scale[m.net]) \in Dims
    BY <1>6, <2>1, TimesTyped DEF Turned, Acc
  <2>3. Counted(Push(b, m.net, Times(b.size, Scale[m.net]))) \in Turned(s, cap)
    BY <1>6, <2>1, <2>2, PushTurned DEF Turned
  <2>4. Run(b, m.net) = Counted(Push(b, m.net, Times(b.size, Scale[m.net])))
    BY <1>8 DEF Run
  <2> QED BY <1>5, <2>3, <2>4 DEF b
<1> QED BY <1>7, <1>8

(* The loop of aji_configure. *)
LEMMA WalkTurned ==
    ASSUME NEW s \in Dims, NEW cap \in {NoCap} \cup (Positive \X Positive),
           \A net \in DOMAIN Scale : Scale[net] \in Positive,
           NEW models \in Seq(ModelType)
    PROVE  Walk(models, s, cap) \in Turned(s, cap)
<1>1. Begun(s) \in Turned(s, cap)
  BY StartTurned
<1>2. /\ Len(models) \in Nat /\ DOMAIN models = 1..Len(models)
      /\ \A k \in 1..Len(models) : models[k] \in ModelType
  OBVIOUS
<1> DEFINE T == Turned(s, cap)
<1>3. \A acc \in T, k \in 1..Len(models) : Through(acc, models[k], cap) \in T
  BY <1>2, ThroughTurned
<1> HIDE DEF T
<1>4. Begun(s) \in T
  BY <1>1 DEF T
<1>5. Walk(models, s, cap) \in T
  BY <1>2, <1>3, <1>4, WalkStays
<1> QED BY <1>5 DEF T

LEMMA UnresizedTyped ==
    ASSUME NEW models \in Seq(ModelType), models # <<>>
    PROVE  Unresized(models) \in Seq(ModelType)
<1>1. 1 \in DOMAIN models /\ models[1] \in ModelType
  OBVIOUS
<1> DEFINE m == [models[1] EXCEPT !.factor = 100]
           n == [m EXCEPT !.height = 0]
<1>2. n \in ModelType
  <2>1. PICK net \in DOMAIN Scale \cup {NoNet}, f \in Nat, h \in Nat \ {1} :
          models[1] = [net |-> net, factor |-> f, height |-> h]
    BY <1>1 DEF ModelType
  <2>2. m = [net |-> net, factor |-> 100, height |-> h]
    BY <2>1
  <2> HIDE DEF m
  <2>3. n = [net |-> net, factor |-> 100, height |-> 0]
    BY <2>2
  <2> HIDE DEF n
  <2> QED BY <2>3 DEF ModelType
<1>3. Unresized(models) = [models EXCEPT ![1] = n]
  BY <1>1 DEF Unresized
<1> HIDE DEF n
<1> QED BY <1>1, <1>2, <1>3

(* What a chain comes to: it begins and ends at the same size if it has no *)
(* steps, and its buffers hold what is counted.                            *)
OutlineSound(o, s) ==
    /\ o.steps = <<>> => o.end = o.start
    /\ o.start \in Dims /\ o.need \in Nat
    /\ Bytes(o.start) <= o.need
    /\ o.start # s => Bytes(s) <= o.need
    /\ \A i \in DOMAIN o.steps : o.steps[i].to \in Dims
    /\ \/ Uncounted(o.steps, o.cap)
       \/ \A i \in DOMAIN o.steps : Bytes(o.steps[i].to) <= o.need

LEMMA OutlineIsSound ==
    ASSUME NEW chain, chain.models \in Seq(ModelType), NEW s \in Dims,
           NEW cap \in {NoCap} \cup (Positive \X Positive),
           \A net \in DOMAIN Scale : Scale[net] \in Positive
    PROVE  OutlineSound(Outline(chain, cap, s), s)
<1> DEFINE before == chain.rife /\ RifeDir /\ chain.before
           start == IF before /\ chain.models # <<>>
                    THEN ResizeTarget(chain.models[1], s) ELSE s
           models == IF start # s THEN Unresized(chain.models)
                     ELSE chain.models
           walk == Walk(models, start, cap)
           need == IF start # s THEN Max({walk.bytes, Bytes(s)})
                   ELSE walk.bytes
           o == Outline(chain, cap, s)
<1>1. /\ o.start = start /\ o.steps = walk.steps /\ o.end = walk.size
      /\ o.need = need /\ o.cap = cap
  BY DEF Outline
<1>2. start \in Dims
  <2>1. CASE before /\ chain.models # <<>>
    <3>1. chain.models[1] \in ModelType
      BY <2>1
    <3> QED BY <2>1, <3>1, ResizeTargetTyped
  <2>2. CASE ~(before /\ chain.models # <<>>)
    BY <2>2
  <2> QED BY <2>1, <2>2
<1>3. models \in Seq(ModelType)
  <2>1. CASE start # s
    <3>1. chain.models # <<>>
      BY <2>1
    <3> QED BY <2>1, <3>1, UnresizedTyped
  <2>2. CASE start = s
    BY <2>2
  <2> QED BY <2>1, <2>2
<1> HIDE DEF start, models
<1>4. walk \in Turned(start, cap)
  BY <1>2, <1>3, WalkTurned
<1> HIDE DEF walk
<1>5. /\ walk \in Acc /\ walk.bytes \in Nat /\ walk.steps \in Seq(Step)
      /\ walk.size \in Dims /\ Bytes(walk.size) <= walk.bytes
      /\ walk.steps = <<>> => walk.size = start
      /\ Bytes(start) <= walk.bytes
      /\ Held(walk, cap)
  BY <1>4 DEF Turned, Acc
<1>6. Bytes(s) \in Nat
  BY BytesTyped DEF Dims
<1>7. need \in Nat /\ walk.bytes <= need /\ (start # s => Bytes(s) <= need)
  <2> DEFINE a == walk.bytes
             b == Bytes(s)
  <2> HIDE DEF a, b, need, o
  <2>1. a \in Nat /\ b \in Nat /\ a \in Int /\ b \in Int
    BY <1>5, <1>6 DEF a, b
  <2>2. /\ Max({a, b}) \in {a, b}
        /\ Max({a, b}) >= a /\ Max({a, b}) >= b
    BY <2>1, MaxOfTwo
  <2>3. Max({a, b}) \in Nat /\ a <= Max({a, b}) /\ b <= Max({a, b})
    BY <2>1, <2>2
  <2>4. need = IF start # s THEN Max({a, b}) ELSE a
    BY DEF a, b, need
  <2> QED BY <2>1, <2>3, <2>4 DEF a, b
<1> HIDE DEF need
<1>8. \A i \in DOMAIN walk.steps :
        walk.steps[i].to \in Dims /\ Bytes(walk.steps[i].to) \in Nat
  <2> SUFFICES ASSUME NEW i \in DOMAIN walk.steps
               PROVE  /\ walk.steps[i].to \in Dims
                      /\ Bytes(walk.steps[i].to) \in Nat
    OBVIOUS
  <2>1. walk.steps[i] \in Step
    BY <1>5
  <2>2. walk.steps[i].to \in Dims
    BY <2>1 DEF Step
  <2> QED BY <2>2, BytesTyped DEF Dims
(* The loop begins with the picture it starts from. *)
<1>9. Bytes(start) <= walk.bytes
  BY <1>5
<1>10. Bytes(start) \in Nat
  BY <1>2, BytesTyped DEF Dims
<1>11. Bytes(start) <= need
  BY <1>5, <1>7, <1>9, <1>10
<1>12. \/ Uncounted(walk.steps, cap)
       \/ \A i \in DOMAIN walk.steps : Bytes(walk.steps[i].to) <= need
  BY <1>5, <1>7, <1>8 DEF Held
<1> HIDE DEF o
<1>13. OutlineSound(o, s)
  BY <1>1, <1>2, <1>5, <1>7, <1>8, <1>11, <1>12 DEF OutlineSound
<1> QED BY <1>13 DEF o

(* A chain that a slot may select. *)
LEMMA OutlinesSound ==
    ASSUME ProfilesTyped, NEW sl \in Slots, NEW s \in Sizes,
           NEW o \in Outlines[sl][s], o # <<>>
    PROVE  OutlineSound(o[1], s)
<1>1. PICK file \in Files, fps \in Rates, library \in Libraries :
        LET conf == Load(file)
            picked == Select(conf, sl, s, fps, library)
        IN o = [i \in DOMAIN picked |->
                   Outline(picked[i], conf.settings.cap, s)]
  BY DEF Outlines
<1> DEFINE conf == Load(file)
           picked == Select(conf, sl, s, fps, library)
           cap == conf.settings.cap
<1>2. /\ cap \in {NoCap} \cup (Positive \X Positive)
      /\ \E n \in {0, 1} : DOMAIN picked = 1..n
      /\ \A i \in DOMAIN picked : picked[i].models \in Seq(ModelType)
  BY DEF ProfilesTyped
<1>3. o = [i \in DOMAIN picked |-> Outline(picked[i], cap, s)]
  BY <1>1
<1> HIDE DEF picked, cap
<1>4. 1 \in DOMAIN picked
  <2>1. DOMAIN picked = {} => o = <<>>
    BY <1>3
  <2> QED BY <1>2, <2>1
<1>5. s \in Dims /\ \A net \in DOMAIN Scale : Scale[net] \in Positive
  BY DEF ProfilesTyped, Positive, Dims
<1>6. o[1] = Outline(picked[1], cap, s)
  BY <1>3, <1>4
<1> QED BY <1>2, <1>4, <1>5, <1>6, OutlineIsSound

-----------------------------------------------------------------------------
(***************************************************************************)
(* The sizes of the parts.                                                 *)
(***************************************************************************)

(* The configure and the pre-resize it asks for agree on where the chain   *)
(* begins, and RIFE on where it ends.                                      *)
LEMMA ActivateSizes ==
    ASSUME NEW o, o.steps = <<>> => o.end = o.start, ~ OrderFirst,
           NEW trouble \in Troubles, Activate(o, trouble)
    PROVE  SizesSound'
<1>1. CASE EndsEarly(o, trouble)
  <2>1. cfg' = Idle(IF trouble = "building" THEN "passthrough" ELSE "error",
                    source')
    BY <1>1 DEF EndsEarly
  <2>2. cfg'.ans = IF trouble = "building" THEN "passthrough" ELSE "error"
    BY <2>1 DEF Idle
  <2>3. trouble = "building" => ~ rife'.on
    BY <1>1 DEF EndsEarly, RifeOff
  <2> QED BY <2>2, <2>3 DEF SizesSound
<1>2. CASE Completes(o, trouble)
  <2>1. hoist' = IF o.start # source' THEN <<source', o.start>> ELSE <<>>
    BY <1>2 DEF Activate, Completes
  <2>2. rife'.on => /\ rife'.before = o.chain.before
                    /\ rife'.size = IF o.chain.before THEN o.start ELSE o.end
    BY <1>2 DEF Completes, SetupRife, RifeOff
  <2>3. CASE o.steps = <<>> /\ o.start = source'
    <3>1. cfg' = Idle("passthrough", source')
      BY <1>2, <2>3 DEF Completes
    <3>2. cfg'.ans = "passthrough" /\ cfg'.out = source'
      BY <3>1 DEF Idle
    <3>3. Between' = source'
      BY <3>2 DEF Between, Sent, Shrinks
    <3> QED BY <2>2, <2>3, <3>2, <3>3 DEF SizesSound
  <2>4. CASE ~(o.steps = <<>> /\ o.start = source')
    <3>1. cfg' = [ans |-> "active", active |-> TRUE, in |-> o.start,
                  out |-> o.end, steps |-> o.steps,
                  models |-> o.chain.models, cap |-> o.cap]
      BY <1>2, <2>4 DEF Completes
    <3>2. cfg'.ans = "active" /\ cfg'.in = o.start /\ cfg'.out = o.end
      BY <3>1
    <3>3. Sent' = o.start /\ (PreResize' => hoist'[2] = o.start)
      BY <2>1, <3>2 DEF Sent, Shrinks, PreResize
    <3> QED BY <2>1, <2>2, <3>2, <3>3
            DEF SizesSound, Between, RifeFirst, PreResize
  <2> QED BY <2>3, <2>4
<1> QED BY <1>1, <1>2 DEF Activate

(* A caller that asks aji_pre_resize each time is never refused a frame.   *)
THEOREM NeverRefusesOwnSizes ==
    ASSUME ~ OrderFirst, ProfilesTyped
    PROVE  Spec => []NeverRefused
<1>1. Init => SizesSound /\ NeverRefused
  BY DEF Init, SizesSound, NeverRefused, Idle, RifeOff
<1>2. IInv /\ SizesSound /\ NeverRefused /\ [Next]_vars
        => SizesSound' /\ NeverRefused'
  <2> SUFFICES ASSUME IInv, SizesSound, NeverRefused, [Next]_vars
               PROVE  SizesSound' /\ NeverRefused'
    OBVIOUS
  <2>1. CASE UNCHANGED vars
    BY <2>1 DEF vars, SizesSound, NeverRefused, PreResize, Between, RifeFirst,
                Sent, Shrinks
  <2>2. CASE ConfigureDirect
    <3>1. /\ cfg'.in = source' /\ hoist' = hoist /\ rife' = rife
          /\ hoist = <<>> /\ ~ rife.on /\ faults' = {}
      BY <2>2 DEF ConfigureDirect, IInv, ChainSound, RifeOff
    <3> QED BY <3>1 DEF SizesSound, NeverRefused, PreResize
  <2>3. CASE Configure
    <3>1. PICK slot \in Slots : \E o \in Outlines[slot][source'] :
            IF o = <<>> THEN NoChain
            ELSE \E trouble \in Troubles : Activate(o[1], trouble)
      BY <2>3 DEF Configure
    <3>2. PICK o \in Outlines[slot][source'] :
            IF o = <<>> THEN NoChain
            ELSE \E trouble \in Troubles : Activate(o[1], trouble)
      BY <3>1
    <3>3. faults' = {} /\ source' \in Sizes
      BY <2>3 DEF Configure
    <3>4. CASE o = <<>>
      <4>1. cfg'.ans = "passthrough" /\ ~ rife'.on
        BY <3>2, <3>4 DEF NoChain, Idle, RifeOff
      <4> QED BY <3>3, <4>1 DEF SizesSound, NeverRefused
    <3>5. CASE o # <<>>
      <4>1. o[1].steps = <<>> => o[1].end = o[1].start
        BY <3>2, <3>3, <3>5, OutlinesSound DEF OutlineSound
      <4>2. PICK trouble \in Troubles : Activate(o[1], trouble)
        BY <3>2, <3>5
      <4> QED BY <3>3, <4>1, <4>2, ActivateSizes DEF NeverRefused
    <3> QED BY <3>4, <3>5
  <2>4. CASE Infer
    <3>1. cfg.ans = "active" /\ UNCHANGED <<source, cfg, hoist, rife>>
      BY <2>4 DEF Infer
    <3>2. Sent = cfg.in
      BY <3>1 DEF SizesSound, Sent, Shrinks, PreResize
    <3>3. NeverRefused'
      BY <2>4, <3>2, InferInv DEF NeverRefused, Fine
    <3> QED BY <3>1, <3>3 DEF SizesSound, PreResize, Between, RifeFirst, Sent,
                              Shrinks
  <2>5. CASE Resize
    <3>1. UNCHANGED <<source, cfg, hoist, rife>>
      BY <2>5 DEF Resize
    <3>2. NeverRefused'
      BY <2>5, ResizeInv DEF NeverRefused, Fine
    <3> QED BY <3>1, <3>2 DEF SizesSound, PreResize, Between, RifeFirst, Sent,
                              Shrinks
  <2>6. CASE InferRife
    <3>1. /\ cfg.ans # "error" /\ rife.on
          /\ UNCHANGED <<source, cfg, hoist>>
      BY <2>6 DEF InferRife
    <3>2. faults' = {}
      BY <2>6, <3>1, InferRifeInv DEF SizesSound
    <3>3. /\ rife'.on = rife.on /\ rife'.before = rife.before
          /\ rife'.size = rife.size
      <4>1. rife' = [on |-> rife.on, before |-> rife.before,
                     size |-> rife.size, format |-> rife'.format,
                     staging |-> rife'.staging]
        BY <2>6, InferRifeInv
      <4> QED BY <4>1
    <3> QED BY <3>1, <3>2, <3>3 DEF SizesSound, NeverRefused, PreResize,
                                    Between, RifeFirst, Sent, Shrinks
  <2> QED BY <2>1, <2>2, <2>3, <2>4, <2>5, <2>6 DEF Next
<1> QED BY <1>1, <1>2, Invariance, PTL DEF Spec

-----------------------------------------------------------------------------
(***************************************************************************)
(* The chain buffers.                                                      *)
(***************************************************************************)

(* The largest of numbers that have a bound is one of them. *)
LEMMA MaxBelow ==
    ASSUME NEW S \in SUBSET Nat, S # {}, NEW b \in Nat, \A x \in S : x <= b
    PROVE  Max(S) <= b /\ Max(S) \in Nat
<1> DEFINE gaps == {b - x : x \in S}
<1>1. gaps \in SUBSET Nat /\ gaps # {}
  <2>1. \A x \in S : b - x \in Nat
    OBVIOUS
  <2>2. \E x \in S : b - x \in gaps
    OBVIOUS
  <2> QED BY <2>1, <2>2
<1>2. PICK g \in gaps : \A h \in gaps : g <= h
  BY <1>1, Least
<1>3. PICK x \in S : g = b - x
  OBVIOUS
<1>4. \A y \in S : x >= y
  <2> SUFFICES ASSUME NEW y \in S PROVE x >= y
    OBVIOUS
  <2>1. b - y \in gaps
    OBVIOUS
  <2>2. b - x <= b - y
    BY <1>2, <1>3, <2>1
  <2> QED BY <2>2
<1>5. Max(S) \in S
  BY <1>4 DEF Max
<1> QED BY <1>5

LEMMA BuffersCounted ==
    ASSUME NEW o, o.need \in Nat, buf.bytes \in Nat,
           NEW trouble \in Troubles, Activate(o, trouble)
    PROVE  buf'.bytes \in Nat
<1>1. \A fails : EnsureBuffers(o.need, fails).bytes \in Nat
  BY DEF EnsureBuffers
<1>2. \/ buf' = buf
      \/ \E fails : buf' = EnsureBuffers(o.need, fails)
  BY DEF Activate, EndsEarly, Completes
<1> QED BY <1>1, <1>2

(* A chain that is set up has buffers for what is counted.                 *)
LEMMA ActivateFits ==
    ASSUME NEW o, OutlineSound(o, source'), source' \in Nat \X Nat,
           buf.bytes \in Nat, NEW trouble \in Troubles,
           Activate(o, trouble), cfg'.ans = "active"
    PROVE  /\ cfg'.in \in Nat \X Nat
           /\ Bytes(cfg'.in) <= buf'.bytes
           /\ PreResize' => /\ hoist'[2] = cfg'.in
                            /\ Bytes(source') <= buf'.bytes
           /\ \A i \in DOMAIN cfg'.steps : cfg'.steps[i].to \in Nat \X Nat
           /\ \/ UncountedPicture'
              \/ \A i \in DOMAIN cfg'.steps :
                    Bytes(cfg'.steps[i].to) <= buf'.bytes
<1>1. Completes(o, trouble)
  <2>1. CASE EndsEarly(o, trouble)
    <3>1. cfg' = Idle(IF trouble = "building" THEN "passthrough" ELSE "error",
                      source')
      BY <2>1 DEF EndsEarly
    <3>2. cfg'.ans = IF trouble = "building" THEN "passthrough" ELSE "error"
      BY <3>1 DEF Idle
    <3> QED BY <3>2
  <2> QED BY <2>1 DEF Activate
<1>2. ~(o.steps = <<>> /\ o.start = source')
  <2>1. SUFFICES ASSUME o.steps = <<>> /\ o.start = source' PROVE FALSE
    OBVIOUS
  <2>2. cfg' = Idle("passthrough", source')
    BY <1>1, <2>1 DEF Completes
  <2>3. cfg'.ans = "passthrough"
    BY <2>2 DEF Idle
  <2> QED BY <2>3
<1>3. /\ cfg' = [ans |-> "active", active |-> TRUE, in |-> o.start,
                 out |-> o.end, steps |-> o.steps,
                 models |-> o.chain.models, cap |-> o.cap]
      /\ buf' = EnsureBuffers(o.need, 0)
      /\ hoist' = IF o.start # source' THEN <<source', o.start>> ELSE <<>>
  BY <1>1, <1>2 DEF Completes, Activate
<1>4. cfg'.in = o.start /\ cfg'.steps = o.steps /\ cfg'.cap = o.cap
  BY <1>3
<1>5. /\ o.need \in Nat /\ o.start \in Nat \X Nat /\ Bytes(o.start) <= o.need
      /\ o.start # source' => Bytes(source') <= o.need
      /\ \A i \in DOMAIN o.steps : o.steps[i].to \in Nat \X Nat
      /\ \/ Uncounted(o.steps, o.cap)
         \/ \A i \in DOMAIN o.steps : Bytes(o.steps[i].to) <= o.need
  BY DEF OutlineSound, Dims
<1>6. buf'.bytes \in Nat /\ o.need <= buf'.bytes
  BY <1>3, <1>5 DEF EnsureBuffers, Suffices
<1>7. PreResize' => o.start # source' /\ hoist'[2] = o.start
  BY <1>3 DEF PreResize
<1>8. \A s \in Nat \X Nat : Bytes(s) \in Nat
  BY BytesTyped
<1>9. Uncounted(o.steps, o.cap) => UncountedPicture'
  BY <1>4 DEF Uncounted, UncountedPicture
<1>10. Bytes(cfg'.in) <= buf'.bytes
  BY <1>4, <1>5, <1>6, <1>8
<1>11. PreResize' => Bytes(source') <= buf'.bytes
  BY <1>5, <1>6, <1>7, <1>8
<1>12. ASSUME \A i \in DOMAIN o.steps : Bytes(o.steps[i].to) <= o.need,
              NEW i \in DOMAIN cfg'.steps
       PROVE  Bytes(cfg'.steps[i].to) <= buf'.bytes
  BY <1>4, <1>5, <1>6, <1>8, <1>12
<1> QED BY <1>4, <1>5, <1>6, <1>7, <1>9, <1>10, <1>11, <1>12

(* What goes over a buffer is a picture larger than it.                    *)
LEMMA Overruns ==
    ASSUME NEW need, "overrun" \in BufferFaults(need)
    PROVE  need > buf.bytes
BY DEF BufferFaults

LEMMA RanOverruns ==
    ASSUME NEW r, NEW in, NEW out, Ran(r, in, out), "overrun" \in faults'
    PROVE  Largest(in.size) > buf.bytes
<1>1. "overrun" \in BufferFaults(Largest(in.size))
  BY DEF Ran, PictureFaults
<1> QED BY <1>1, Overruns

LEMMA InferOverruns ==
    ASSUME Infer, "overrun" \in faults'
    PROVE  cfg.ans = "active" /\ Largest(cfg.in) > buf.bytes
<1>1. PICK in \in Frame(Sent), out \in Output(cfg.out) :
        IF in.size # cfg.in
        THEN /\ faults' = Refused
             /\ UNCHANGED <<plans, stage, graph, graphOk>>
        ELSE IF graphOk THEN ViaGraph(in, out) ELSE Plain(in, out)
  BY DEF Infer
<1>2. in.size = cfg.in /\ (ViaGraph(in, out) \/ Plain(in, out))
  BY <1>1 DEF Refused
<1>3. ASSUME NEW freed, RunPlain(in, out, freed)
      PROVE  Largest(cfg.in) > buf.bytes
  BY <1>2, <1>3, RanOverruns DEF RunPlain
<1>4. CASE Launch(in, out)
  <2>1. "overrun" \in BufferFaults(Largest(in.size))
    BY <1>4 DEF Launch, PictureFaults
  <2> QED BY <1>2, <2>1, Overruns DEF Infer
<1>5. CASE Capture(in, out)
  BY <1>2, <1>5, RanOverruns DEF Capture, Infer
<1>6. CASE StagingFails(in, out) \/ LaunchFails(in, out) \/ Plain(in, out)
  <2>1. \E freed : RunPlain(in, out, freed)
    BY <1>6 DEF StagingFails, LaunchFails, Plain
  <2> QED BY <1>3, <2>1 DEF Infer
<1> QED BY <1>2, <1>4, <1>5, <1>6 DEF ViaGraph

LEMMA ResizeOverruns ==
    ASSUME Resize, "overrun" \in faults'
    PROVE  /\ cfg.ans = "active" /\ PreResize
           /\ Max({Bytes(source), Bytes(hoist[2])}) > buf.bytes
<1>1. PICK in \in Frame(source), luck \in Lucks :
        LET out == [format |-> in.format, size |-> hoist[2]]
            pre == PreAfter(plans.prPre, in, luck)
            post == PostAfter(plans.prPost, out, luck)
        IN faults' =
             IF luck # "fine" THEN {}
             ELSE BufferFaults(Max({Bytes(source), Bytes(hoist[2])}))
                    \cup PictureFaults(Computes(in, out, pre, post),
                                       Asks(in, out))
  BY DEF Resize
<1>2. \A did, asked : "overrun" \notin PictureFaults(did, asked)
  BY DEF PictureFaults
<1>3. "overrun" \in BufferFaults(Max({Bytes(source), Bytes(hoist[2])}))
  BY <1>1, <1>2
<1> QED BY <1>3, Overruns DEF Resize, Shrinks

(* The pictures of the chain fit its buffers. *)
LEMMA LargestFits ==
    ASSUME ProfilesTyped, IInv, MemorySound, cfg.ans = "active",
           ~ UncountedPicture
    PROVE  ~(Largest(cfg.in) > buf.bytes)
<1> DEFINE S == {Bytes(cfg.in)}
                  \cup {Bytes(cfg.steps[i].to) : i \in DOMAIN cfg.steps}
<1>1. CASE ~ direct
  <2>1. /\ buf.bytes \in Nat /\ Bytes(cfg.in) \in Nat
        /\ Bytes(cfg.in) <= buf.bytes
        /\ \A i \in DOMAIN cfg.steps : /\ Bytes(cfg.steps[i].to) \in Nat
                                       /\ Bytes(cfg.steps[i].to) <= buf.bytes
    BY <1>1, BytesTyped DEF MemorySound
  <2>2. S \in SUBSET Nat /\ S # {} /\ \A x \in S : x <= buf.bytes
    BY <2>1
  <2> HIDE DEF S
  <2>3. Max(S) <= buf.bytes /\ buf.bytes \in Nat
    BY <2>1, <2>2, MaxBelow
  <2>4. Max(S) \in Nat
    BY <2>1, <2>2, MaxBelow
  <2> QED BY <2>3, <2>4 DEF Largest, S
<1>2. CASE direct
  <2>1. /\ cfg.in = source /\ cfg.steps = <<DirectStep(source)>>
        /\ source \in Sizes \cup {<<0, 0>>}
        /\ buf.bytes = Bytes(DirectMax) * 4
        /\ TRUE \in DirectModes
    BY <1>2 DEF IInv, TypeOK, ChainSound, MemorySound
  <2>2. DirectMax \in Sizes /\ \A t \in Sizes : ~ Exceeds(t, DirectMax)
    BY <2>1 DEF ProfilesTyped, DirectMax
  <2>3. /\ source[1] \in Nat /\ source[2] \in Nat
        /\ DirectMax[1] \in Nat /\ DirectMax[2] \in Nat
        /\ source[1] <= DirectMax[1] /\ source[2] <= DirectMax[2]
        /\ source \in Nat \X Nat /\ DirectMax \in Nat \X Nat
    BY <2>1, <2>2 DEF ProfilesTyped, Positive, Exceeds
  <2>4. /\ source[1] * source[2] \in Nat
        /\ DirectMax[1] * DirectMax[2] \in Nat
        /\ source[1] * source[2] <= DirectMax[1] * DirectMax[2]
    BY <2>3
  <2>5. cfg.steps[1].to = Times(source, 2) /\ DOMAIN cfg.steps = {1}
    BY <2>1 DEF DirectStep
  <2>6. S = {Bytes(source), Bytes(Times(source, 2))}
    BY <2>1, <2>5
  <2> DEFINE a == source[1] * source[2]
             d == DirectMax[1] * DirectMax[2]
  <2>7. Bytes(source) = 6 * a /\ Bytes(DirectMax) = 6 * d
    BY <2>3 DEF Bytes
  <2>8. Bytes(Times(source, 2)) = 24 * a
    BY <2>3 DEF Bytes, Times
  <2>9. buf.bytes = 24 * d
    BY <2>1, <2>4, <2>7
  <2> HIDE DEF a, d
  <2>10. a \in Nat /\ d \in Nat /\ a <= d
    BY <2>4 DEF a, d
  <2>11. /\ S \in SUBSET Nat /\ S # {} /\ buf.bytes \in Nat
         /\ \A x \in S : x <= buf.bytes
    <3>1. S = {6 * a, 24 * a}
      BY <2>6, <2>7, <2>8
    <3> HIDE DEF S
    <3> QED BY <2>9, <2>10, <3>1
  <2> HIDE DEF S
  <2>12. Max(S) <= buf.bytes /\ Max(S) \in Nat
    BY <2>11, MaxBelow
  <2> QED BY <2>11, <2>12 DEF Largest, S
<1> QED BY <1>1, <1>2

(* No chain writes beyond its buffers, but with the picture that           *)
(* aji_configure does not count; nor does aji_resize, and neither touches  *)
(* what was freed.                                                         *)
THEOREM MemoryIsSafe ==
    ASSUME ProfilesTyped
    PROVE  Spec => []MemorySafe
<1> DEFINE Fits == "overrun" \in faults => UncountedPicture
<1>1. Init => MemorySound /\ Fits
  BY DEF Init, MemorySound, Idle
<1>2. IInv /\ MemorySound /\ Fits /\ [Next]_vars => MemorySound' /\ Fits'
  <2> SUFFICES ASSUME IInv, MemorySound, Fits, [Next]_vars
               PROVE  MemorySound' /\ Fits'
    OBVIOUS
  <2>1. ASSUME UNCHANGED <<direct, source, cfg, hoist, buf>>
        PROVE  /\ MemorySound'
               /\ UncountedPicture' <=> UncountedPicture
    BY <2>1 DEF MemorySound, PreResize, UncountedPicture
  <2>2. CASE UNCHANGED vars
    BY <2>1, <2>2 DEF vars
  <2>3. CASE ConfigureDirect
    BY <2>3 DEF ConfigureDirect, MemorySound
  <2>4. CASE Configure
    <3>1. /\ ~ direct /\ direct' = direct /\ source' \in Sizes
          /\ source' \in Nat \X Nat /\ faults' = {}
      BY <2>4, ChainAssumption DEF Configure
    <3>2. PICK slot \in Slots : \E o \in Outlines[slot][source'] :
            IF o = <<>> THEN NoChain
            ELSE \E trouble \in Troubles : Activate(o[1], trouble)
      BY <2>4 DEF Configure
    <3>3. PICK o \in Outlines[slot][source'] :
            IF o = <<>> THEN NoChain
            ELSE \E trouble \in Troubles : Activate(o[1], trouble)
      BY <3>2
    <3>4. CASE o = <<>>
      <4>1. cfg' = Idle("passthrough", source')
        BY <3>3, <3>4 DEF NoChain
      <4>2. cfg'.ans = "passthrough"
        BY <4>1 DEF Idle
      <4>3. buf' = buf
        BY <3>3, <3>4 DEF NoChain
      <4> QED BY <3>1, <4>2, <4>3 DEF MemorySound
    <3>5. CASE o # <<>>
      <4>1. OutlineSound(o[1], source')
        BY <3>1, <3>5, OutlinesSound
      <4>2. PICK trouble \in Troubles : Activate(o[1], trouble)
        BY <3>3, <3>5
      <4>3. o[1].need \in Nat /\ buf.bytes \in Nat
        BY <3>1, <4>1 DEF OutlineSound, MemorySound
      <4>4. buf'.bytes \in Nat
        BY <4>2, <4>3, BuffersCounted
      <4>5. cfg'.ans = "active" =>
              /\ cfg'.in \in Nat \X Nat
              /\ Bytes(cfg'.in) <= buf'.bytes
              /\ PreResize' => /\ hoist'[2] = cfg'.in
                               /\ Bytes(source') <= buf'.bytes
              /\ \A i \in DOMAIN cfg'.steps :
                    cfg'.steps[i].to \in Nat \X Nat
              /\ \/ UncountedPicture'
                 \/ \A i \in DOMAIN cfg'.steps :
                       Bytes(cfg'.steps[i].to) <= buf'.bytes
        BY <3>1, <4>1, <4>2, <4>3, ActivateFits
      <4> QED BY <3>1, <4>4, <4>5 DEF MemorySound
    <3> QED BY <3>4, <3>5
  <2>5. CASE Infer
    <3>1. UNCHANGED <<direct, source, cfg, hoist, buf>>
      BY <2>5 DEF Infer
    <3>2. "overrun" \in faults' => UncountedPicture
      BY <2>5, InferOverruns, LargestFits
    <3> QED BY <2>1, <3>1, <3>2
  <2>6. CASE Resize
    <3>1. UNCHANGED <<direct, source, cfg, hoist, buf>>
      BY <2>6 DEF Resize
    <3>2. "overrun" \notin faults'
      <4>1. SUFFICES ASSUME "overrun" \in faults' PROVE FALSE
        OBVIOUS
      <4>2. /\ cfg.ans = "active" /\ PreResize
            /\ Max({Bytes(source), Bytes(hoist[2])}) > buf.bytes
        BY <2>6, <4>1, ResizeOverruns
      <4>3. ~ direct
        BY <4>2 DEF IInv, ChainSound, PreResize
      <4>4. /\ buf.bytes \in Nat
            /\ source \in Nat \X Nat /\ hoist[2] \in Nat \X Nat
            /\ Bytes(source) <= buf.bytes /\ Bytes(hoist[2]) <= buf.bytes
        BY <4>2, <4>3 DEF MemorySound
      <4> DEFINE a == Bytes(source)
                 b == Bytes(hoist[2])
      <4>5. a \in Nat /\ b \in Nat /\ a \in Int /\ b \in Int
        BY <4>4, BytesTyped
      <4> HIDE DEF a, b
      <4>6. Max({a, b}) \in {a, b}
        BY <4>5, MaxOfTwo
      <4>7. a <= buf.bytes /\ b <= buf.bytes
        BY <4>4 DEF a, b
      <4>8. Max({a, b}) <= buf.bytes /\ Max({a, b}) \in Nat
        BY <4>5, <4>6, <4>7
      <4>9. Max({a, b}) > buf.bytes
        BY <4>2 DEF a, b
      <4> QED BY <4>4, <4>8, <4>9
    <3> QED BY <2>1, <3>1, <3>2
  <2>7. CASE InferRife
    <3>1. UNCHANGED <<direct, source, cfg, hoist, buf>>
      BY <2>7 DEF InferRife
    <3>2. "overrun" \notin faults'
      BY <2>7, InferRifeInv DEF Refused
    <3> QED BY <2>1, <3>1, <3>2
  <2> QED BY <2>2, <2>3, <2>4, <2>5, <2>6, <2>7 DEF Next
<1>3. IInv /\ Fits => MemorySafe
  BY DEF IInv, MemorySafe
<1> QED BY <1>1, <1>2, <1>3, Invariance, PTL DEF Spec
=============================================================================
