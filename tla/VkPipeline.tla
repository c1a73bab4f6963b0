----------------------------- MODULE VkPipeline -----------------------------
(***************************************************************************)
(* The asynchronous frame pipeline of the ncnn-Vulkan backend              *)
(* (src/aji_vk.cpp): the slot ring, the work queue, the worker threads     *)
(* and the entry points the player's filter thread calls (aji_configure,   *)
(* aji_infer, aji_flush, aji_done, aji_wait, aji_destroy).                 *)
(*                                                                         *)
(* One action is one stretch of code between two points where another      *)
(* thread may run: a critical section under the mutex amx, or the work a   *)
(* thread does on a slot outside it.  A condition variable is the guard of *)
(* the action that follows its wait; every change of a predicate happens   *)
(* under amx and is followed by a notify, so no wakeup is lost.            *)
(*                                                                         *)
(* Frames are numbered by submission: the frame of ticket n is frame n,    *)
(* its input planes and its output planes are both called n.               *)
(*                                                                         *)
(* A plan without a RESIZE step is a single network here, whose result the *)
(* GPU converts with weights and coefficients that all workers share; with *)
(* one, each worker converts on the CPU, with scratch of its own.          *)
(***************************************************************************)
EXTENDS Integers, FiniteSets, Sequences

CONSTANTS
    KRing,        \* kRing, the slots of the ring (12 in the code)
    MaxWorkers,   \* num_workers at most (AJI_VK_WORKERS, default 4)
    Modes,        \* num_workers, whether the filter collects only its oldest
                  \* ticket, and of each frame the look it is to have
                  \* (out_format, out_matrix, out_range): the combinations
    Depth,        \* how many frames the filter keeps in flight
    MaxFrames     \* bound of the model: frames submitted in a behaviour

(* aji.h: the filter MUST clamp its depth to aji_max_in_flight = kRing. *)
ASSUME RingAssumption ==
    /\ KRing \in Nat \ {0} /\ MaxWorkers \in Nat
    /\ \A m \in Modes : /\ m.workers \in 1..MaxWorkers
                         /\ m.oldestFirst \in BOOLEAN
                         /\ DOMAIN m.looks = 1..MaxFrames
    /\ Depth \in 1..KRing
    /\ MaxFrames \in Nat

Slots == 0..(KRing - 1)
Workers == 1..MaxWorkers
Frames == 1..MaxFrames
NoSlot == -1
NoFrame == 0
NoLook == "none"

VARIABLES
    mode,       \* the mode of this behaviour
    active,     \* c->active: the last plan upscales
    resizes,    \* c->steps holds a RESIZE step
    gp,         \* the look c->gp was last built for
    started,    \* c->worker_started
    stop,       \* c->worker_stop
    state,      \* ring[i].state
    ticket,     \* ring[i].ticket
    frame,      \* the frame ring[i] describes: rgb_in and out_frame
    workq,      \* c->workq
    counter,    \* c->ticket_counter
    pc,         \* where each worker thread is; "off" when there is none
    slot,       \* idx of each worker
    src,        \* the input each worker read from its slot
    call,       \* what the filter thread is inside of
    mine,       \* the slot that call works on
    target,     \* the ticket an aji_wait is for
    inflight,   \* the filter's tickets, taken and not yet collected
    reported,   \* tickets the filter was told, or infers, to be complete
    finished,   \* frames a worker is done with
    written     \* of every frame written: its input, the output planes, and
                \* the look its colours were converted to

workerVars == <<pc, slot, src>>
ringVars == <<state, ticket, frame, workq>>
planVars == <<mode, active, resizes, gp>>
threadVars == <<started, stop>>
callVars == <<call, mine, target>>
history == <<reported, finished, written>>
vars == <<planVars, threadVars, ringVars, counter, workerVars, callVars,
          inflight, history>>

Init ==
    /\ mode \in Modes
    /\ active = FALSE /\ resizes = FALSE /\ gp = NoLook
    /\ started = FALSE /\ stop = FALSE
    /\ state = [i \in Slots |-> "FREE"]
    /\ ticket = [i \in Slots |-> 0]
    /\ frame = [i \in Slots |-> NoFrame]
    /\ workq = << >>
    /\ counter = 0
    /\ pc = [w \in Workers |-> "off"]
    /\ slot = [w \in Workers |-> NoSlot]
    /\ src = [w \in Workers |-> NoFrame]
    /\ call = "idle" /\ mine = NoSlot /\ target = 0
    /\ inflight = {}
    /\ reported = {} /\ finished = {} /\ written = {}

-----------------------------------------------------------------------------
(* The worker threads: worker_loop. *)

(* Worker w, waiting, takes slot i off the queue and leaves rest queued. *)
Takes(w, i, rest) ==
    /\ pc[w] = "idle"
    /\ workq' = rest
    /\ slot' = [slot EXCEPT ![w] = i]
    /\ state' = [state EXCEPT ![i] = "RUNNING"]
    /\ pc' = [pc EXCEPT ![w] = "read"]
    /\ UNCHANGED <<planVars, threadVars, ticket, frame, counter, src,
                   callVars, inflight, history>>

(* Faults: the slot is not popped; the newest slot is popped. *)
WorkerTakeKeeps(w) == workq # << >> /\ Takes(w, Head(workq), workq)
WorkerTakeNewest(w) ==
    /\ workq # << >>
    /\ Takes(w, workq[Len(workq)], SubSeq(workq, 1, Len(workq) - 1))

(* Under amx: pop the oldest submitted slot. *)
WorkerTake(w) == workq # << >> /\ Takes(w, Head(workq), Tail(workq))

(* Fault: once it is built, the shared part is never built again. *)
GpBuiltOnce(look) == IF gp = NoLook THEN look ELSE gp

(* build_gp_shared leaves what it finds if that was built for this look. *)
GpBuilt(look) == look

(* Without amx: the worker sees to the shared conversion, under a lock it  *)
(* gives back, and the model reads the slot's input.                       *)
WorkerRead(w) ==
    /\ pc[w] = "read"
    /\ src' = [src EXCEPT ![w] = frame[slot[w]]]
    /\ gp' = IF resizes THEN gp ELSE GpBuilt(mode.looks[frame[slot[w]]])
    /\ pc' = [pc EXCEPT ![w] = "write"]
    /\ UNCHANGED <<mode, active, resizes, threadVars, ringVars, counter, slot,
                   callVars, inflight, history>>

(* Without any lock: the conversion, shared or not, writes the planes the  *)
(* slot names when the model is through.                                   *)
WorkerWrite(w) ==
    /\ pc[w] = "write"
    /\ LET f == frame[slot[w]] IN
         written' = written \cup
                      {<<src[w], f, IF resizes THEN mode.looks[f] ELSE gp>>}
    /\ pc' = [pc EXCEPT ![w] = "finish"]
    /\ UNCHANGED <<planVars, threadVars, ringVars, counter, slot, src,
                   callVars, inflight, reported, finished>>

(* The model or the conversion fails; worker_loop looks at neither result. *)
WorkerFails(w) ==
    /\ pc[w] = "write"
    /\ pc' = [pc EXCEPT ![w] = "finish"]
    /\ UNCHANGED <<planVars, threadVars, ringVars, counter, slot, src,
                   callVars, inflight, history>>

(* Under amx: the slot is DONE and every waiter is notified. *)
WorkerFinish(w) ==
    /\ pc[w] = "finish"
    /\ state' = [state EXCEPT ![slot[w]] = "DONE"]
    /\ finished' = finished \cup {src[w]}
    /\ slot' = [slot EXCEPT ![w] = NoSlot]
    /\ src' = [src EXCEPT ![w] = NoFrame]
    /\ pc' = [pc EXCEPT ![w] = "idle"]
    /\ UNCHANGED <<planVars, threadVars, ticket, frame, workq, counter,
                   callVars, inflight, reported, written>>

Exits(w) ==
    /\ pc[w] = "idle"
    /\ stop
    /\ pc' = [pc EXCEPT ![w] = "off"]
    /\ UNCHANGED <<planVars, threadVars, ringVars, counter, slot, src,
                   callVars, inflight, history>>

(* Fault: a worker told to stop leaves its queue behind. *)
WorkerExitAtOnce(w) == Exits(w)

(* A worker leaves only when it was told to stop and nothing is queued. *)
WorkerExit(w) == workq = << >> /\ Exits(w)

Worker(w) == \/ WorkerTake(w) \/ WorkerRead(w) \/ WorkerWrite(w)
             \/ WorkerFails(w) \/ WorkerFinish(w) \/ WorkerExit(w)

-----------------------------------------------------------------------------
(* aji_infer and the aji_flush that takes its ticket. *)

(* ensure_worker: a plan with a RESIZE step shares one scratch, so it gets *)
(* a single worker.                                                        *)
EnsureWorkers ==
    LET n == IF resizes THEN 1 ELSE mode.workers IN
    IF started
    THEN UNCHANGED <<threadVars, pc>>
    ELSE /\ started' = TRUE
         /\ stop' = FALSE
         /\ pc' = [w \in Workers |-> IF w <= n THEN "idle" ELSE "off"]

InferCall ==
    /\ call = "idle"
    /\ active
    /\ counter < MaxFrames
    /\ Cardinality(inflight) < Depth
    /\ EnsureWorkers
    /\ call' = "claim"
    /\ UNCHANGED <<planVars, ringVars, counter, slot, src, mine, target,
                   inflight, history>>

(* Under amx, once free_cv finds a free slot: claim the first one. *)
InferClaim ==
    /\ call = "claim"
    /\ \E i \in Slots :
          /\ state[i] = "FREE"
          /\ \A j \in 0..(i - 1) : state[j] # "FREE"
          /\ state' = [state EXCEPT ![i] = "SUBMITTED"]
          /\ mine' = i
    /\ call' = "fill"
    /\ UNCHANGED <<planVars, threadVars, ticket, frame, workq, counter,
                   workerVars, target, inflight, history>>

(* Without the lock: describe the frame in the claimed slot. *)
InferFill ==
    /\ call = "fill"
    /\ frame' = [frame EXCEPT ![mine] = counter + 1]
    /\ call' = "enqueue"
    /\ UNCHANGED <<planVars, threadVars, state, ticket, workq, counter,
                   workerVars, mine, target, inflight, history>>

InferEnqueue ==
    /\ call = "enqueue"
    /\ counter' = counter + 1
    /\ ticket' = [ticket EXCEPT ![mine] = counter + 1]
    /\ workq' = Append(workq, mine)
    /\ call' = "flush"
    /\ UNCHANGED <<planVars, threadVars, state, frame, workerVars, mine,
                   target, inflight, history>>

(* aji_flush: the latest ticket, which the filter files as in flight. *)
Flush ==
    /\ call = "flush"
    /\ inflight' = inflight \cup {counter}
    /\ call' = "idle"
    /\ mine' = NoSlot
    /\ UNCHANGED <<planVars, threadVars, ringVars, counter, workerVars,
                   target, history>>

-----------------------------------------------------------------------------
(* aji_wait and aji_done. *)

Holds(i, t) == ticket[i] = t /\ state[i] # "FREE"

(* The tickets the filter may ask about. *)
Asks == {t \in inflight : mode.oldestFirst => \A u \in inflight : t <= u}

(* The filter strikes off ticket t and, as tickets complete in order, all  *)
(* the tickets before it.                                                  *)
Collect(t) ==
    /\ inflight' = {u \in inflight : u > t}
    /\ reported' = reported \cup 1..t

(* No slot holds t: it was collected, or reclaimed by a reconfigure. *)
WaitGone(t) ==
    /\ \A i \in Slots : ~Holds(i, t)
    /\ Collect(t)
    /\ UNCHANGED <<planVars, threadVars, ringVars, counter, workerVars,
                   callVars, finished, written>>

WaitBlock(t) ==
    /\ \E i \in Slots : Holds(i, t) /\ mine' = i
    /\ target' = t
    /\ call' = "wait"
    /\ UNCHANGED <<planVars, threadVars, ringVars, counter, workerVars,
                   inflight, history>>

WaitCall == /\ call = "idle"
            /\ \E t \in Asks : WaitGone(t) \/ WaitBlock(t)

EarlierSlots == {i \in Slots : ticket[i] \in 1..(target - 1)}

(* The wait is over: the slots in freed are FREE again. *)
WaitFrees(freed) ==
    /\ state' = [i \in Slots |-> IF i \in freed THEN "FREE" ELSE state[i]]
    /\ ticket' = [i \in Slots |-> IF i \in freed THEN 0 ELSE ticket[i]]
    /\ Collect(target)
    /\ call' = "idle" /\ mine' = NoSlot /\ target' = 0
    /\ UNCHANGED <<planVars, threadVars, frame, workq, counter, workerVars,
                   finished, written>>

(* Faults: a spurious wakeup of done_cv is taken for the frame's end; only *)
(* the slot that was waited for is freed.                                  *)
WaitReturnEarly == call = "wait" /\ WaitFrees({mine} \cup EarlierSlots)
WaitReturnAlone == call = "wait" /\ state[mine] = "DONE" /\ WaitFrees({mine})

(* Under amx, once done_cv finds the slot DONE: free it, and every slot    *)
(* whose ticket is earlier, in whatever state that slot is.                *)
WaitReturn == call = "wait" /\ state[mine] = "DONE"
              /\ WaitFrees({mine} \cup EarlierSlots)

(* The filter polls: a slot that holds its ticket must be in one of these  *)
(* states for the ticket to count as complete.                             *)
Polls(complete) ==
    /\ call = "idle"
    /\ \E t \in Asks :
          /\ \A i \in Slots : Holds(i, t) => state[i] \in complete
          /\ reported' = reported \cup 1..t
    /\ UNCHANGED <<planVars, threadVars, ringVars, counter, workerVars,
                   callVars, inflight, finished, written>>

(* Fault: a frame that a worker has taken counts as complete. *)
PollCompleteRunning == Polls({"RUNNING", "DONE"})

(* aji_done says 1: the slot is DONE, or no slot holds the ticket. *)
PollComplete == Polls({"DONE"})

-----------------------------------------------------------------------------
(* aji_configure and aji_destroy, which both begin with stop_worker. *)

StopCall(c) ==
    /\ call = "idle"
    /\ call' = c
    /\ stop' = IF started THEN TRUE ELSE stop
    /\ UNCHANGED <<planVars, started, ringVars, counter, workerVars, mine,
                   target, inflight, history>>

(* The queue is emptied and every slot is freed.  (stop_worker skips this  *)
(* when no worker was ever started: then the queue is empty and every slot *)
(* free as it is.)                                                         *)
FreeRing ==
    /\ started' = FALSE
    /\ workq' = << >>
    /\ state' = [i \in Slots |-> "FREE"]
    /\ ticket' = [i \in Slots |-> 0]
    /\ UNCHANGED <<stop, frame, counter, workerVars, mine, target, inflight,
                   history>>

(* Fault: the workers are told to stop and not joined. *)
StopReturnUnjoined == FreeRing

(* The workers are joined before the ring is reset. *)
StopReturn == (\A w \in Workers : pc[w] = "off") /\ FreeRing

(* build_plan: a chain with or without a RESIZE step, no chain for this    *)
(* size, or a model that does not load, which leaves c->active as it was.  *)
BuildPlan ==
    \/ active' = TRUE /\ resizes' \in BOOLEAN
    \/ active' = FALSE /\ resizes' = FALSE
    \/ active' = active /\ resizes' \in BOOLEAN

ConfigureReturn ==
    /\ call = "configure"
    /\ StopReturn
    /\ BuildPlan
    /\ call' = "idle"
    /\ UNCHANGED <<mode, gp>>

DestroyReturn ==
    /\ call = "destroy"
    /\ StopReturn
    /\ call' = "gone"
    /\ UNCHANGED planVars

(* The context is deleted; nothing more is called. *)
Gone == call = "gone" /\ UNCHANGED vars

-----------------------------------------------------------------------------
(* The steps a call in progress takes, which the filter thread does not    *)
(* delay, and the calls it may make when it is outside the library.        *)
InCall == \/ InferClaim \/ InferFill \/ InferEnqueue \/ Flush
          \/ WaitReturn \/ ConfigureReturn \/ DestroyReturn

Filter == \/ InferCall \/ WaitCall \/ PollComplete
          \/ StopCall("configure") \/ StopCall("destroy")
          \/ InCall \/ Gone

Next == Filter \/ \E w \in Workers : Worker(w)

(* The threads are scheduled; when the filter makes a call is its choice. *)
Fairness == /\ WF_vars(InCall)
            /\ \A w \in Workers : WF_vars(Worker(w))

Spec == Init /\ [][Next]_vars /\ Fairness

-----------------------------------------------------------------------------
(* Properties. *)

Looks == {mode.looks[f] : f \in Frames}

(* The variables range over what their C++ types and comments say, and the *)
(* queue never outgrows the ring.                                          *)
TypeOK ==
    /\ mode \in Modes
    /\ active \in BOOLEAN /\ resizes \in BOOLEAN
    /\ started \in BOOLEAN /\ stop \in BOOLEAN
    /\ state \in [Slots -> {"FREE", "SUBMITTED", "RUNNING", "DONE"}]
    /\ ticket \in [Slots -> 0..MaxFrames]
    /\ frame \in [Slots -> 0..MaxFrames]
    /\ workq \in Seq(Slots) /\ Len(workq) <= KRing
    /\ counter \in 0..MaxFrames
    /\ pc \in [Workers -> {"off", "idle", "read", "write", "finish"}]
    /\ slot \in [Workers -> Slots \cup {NoSlot}]
    /\ src \in [Workers -> 0..MaxFrames]
    /\ call \in {"idle", "claim", "fill", "enqueue", "flush", "wait",
                 "configure", "destroy", "gone"}
    /\ mine \in Slots \cup {NoSlot}
    /\ target \in 0..MaxFrames
    /\ inflight \subseteq Frames
    /\ reported \subseteq Frames
    /\ finished \subseteq 0..MaxFrames
    /\ gp \in Looks \cup {NoLook}
    /\ written \subseteq (0..MaxFrames) \X Frames \X Looks

(* aji_done and aji_wait call a ticket complete only when a worker is done *)
(* with its frame and with every earlier one (aji.h, "Tickets complete in  *)
(* submission order").                                                     *)
CompleteMeansFinished == reported \subseteq finished

(* The users of a slot: workers, the filter filling it, the queue. *)
Using(i) == {w \in Workers : slot[w] = i}
            \cup (IF call \in {"fill", "enqueue"} /\ mine = i THEN {0} ELSE {})
            \cup {-n : n \in {m \in DOMAIN workq : workq[m] = i}}

SlotHasOneUser ==
    \A i \in Slots : /\ \A u, v \in Using(i) : u = v
                     /\ state[i] = "FREE" => Using(i) = {}
NoSlotLeak ==
    \A i \in Slots : state[i] # "FREE" =>
        \/ ticket[i] \in inflight
        \/ call \in {"fill", "enqueue", "flush"} /\ mine = i
OwnPlanes == \A p \in written : p[1] = p[2]
OwnColours == \A p \in written : p[3] = mode.looks[p[2]]

(* Slots are used without the lock: each has at most one user, and a free  *)
(* slot has none; it is occupied only for a ticket the filter can still    *)
(* collect, so that a filter that keeps its depth is not blocked for good; *)
(* and the result of a frame lands in that frame's own output planes,      *)
(* although worker_loop reads the slot's input long before it reads where  *)
(* to write, in the colours this frame asks for, whatever c->gp was built  *)
(* for before.  (With several workers, which build it anew under each      *)
(* other, this takes frames that all look alike.)                          *)
SlotsSound == SlotHasOneUser /\ NoSlotLeak /\ OwnPlanes /\ OwnColours

(* A submitted frame is eventually finished, across reconfigures too; and  *)
(* every call into the library returns.                                    *)
FramesFinish == \A t \in Frames : counter >= t ~> t \in finished
CallsReturn == call # "idle" ~> call \in {"idle", "gone"}
Progress == FramesFinish /\ CallsReturn

(* The pipeline implements the tickets of aji.h.  A ticket is over when a  *)
(* worker is done with its frame and with all the earlier ones.            *)
Over == {t \in finished : 1..t \subseteq finished}
Tickets == INSTANCE FrameTickets WITH submitted <- counter, finished <- Over
ImplementsTickets == Tickets!Spec
-----------------------------------------------------------------------------
(* The inductive invariant behind the properties.  It holds of modes in    *)
(* which frames are collected in the order they finish in: with a single   *)
(* worker, or with a filter that asks about its oldest ticket only and     *)
(* whose frames look alike.                                                *)

CollectsInOrder(m) ==
    \/ m.workers = 1
    \/ m.oldestFirst /\ \A f, g \in Frames : m.looks[f] = m.looks[g]

Busy(w) == pc[w] \in {"read", "write", "finish"}
Claimed(i) == call \in {"fill", "enqueue"} /\ mine = i
Held(t) == \E i \in Slots : ticket[i] = t
Started == IF resizes THEN {1} ELSE 1..mode.workers

(* Workers run only between ensure_worker and stop_worker, and one that    *)
(* has left was told to and has left nothing queued.                       *)
ThreadsSound ==
    /\ \A w \in Workers : w \notin Started => pc[w] = "off"
    /\ ~started => workq = << >> /\ \A w \in Workers : pc[w] = "off"
    /\ started => \A w \in Started : pc[w] = "off" => stop /\ workq = << >>
    /\ started /\ stop => call \in {"configure", "destroy"}
    /\ call \in {"claim", "fill", "enqueue"} => started /\ counter < MaxFrames

(* A busy worker has a RUNNING slot to itself.                             *)
WorkersSound ==
    \A w \in Workers :
        /\ ~Busy(w) => slot[w] = NoSlot
        /\ Busy(w) => slot[w] \in Slots /\ state[slot[w]] = "RUNNING"
        /\ pc[w] \in {"write", "finish"} => src[w] = frame[slot[w]]
        /\ pc[w] = "write" /\ ~resizes => gp = mode.looks[src[w]]
        /\ \A v \in Workers : slot[v] = slot[w] /\ Busy(v) /\ Busy(w) => v = w

(* The queue holds the submitted slots, in ticket order, behind all those  *)
(* that were taken.                                                        *)
QueueSound ==
    \A n \in DOMAIN workq :
        /\ state[workq[n]] = "SUBMITTED" /\ ticket[workq[n]] # 0
        /\ \A m \in 1..(n - 1) : ticket[workq[m]] < ticket[workq[n]]
        /\ \A i \in Slots : state[i] \in {"RUNNING", "DONE"} =>
               ticket[i] < ticket[workq[n]]

(* What the state of a slot says of its ticket, and who has the slot.      *)
RingSound ==
    \A i \in Slots :
        /\ state[i] = "FREE" \/ Claimed(i) => ticket[i] = 0
        /\ state[i] # "FREE" /\ ticket[i] = 0 => Claimed(i)
        /\ state[i] = "SUBMITTED" =>
               Claimed(i) \/ \E n \in DOMAIN workq : workq[n] = i
        /\ state[i] = "RUNNING" => \E w \in Workers : slot[w] = i
        /\ state[i] = "DONE" => ticket[i] \in finished
        /\ ticket[i] # 0 => /\ ticket[i] <= counter
                            /\ frame[i] = ticket[i]
                            /\ \/ ticket[i] \in inflight
                               \/ call = "flush" /\ ticket[i] = counter
                                  /\ mine = i
        /\ \A j \in Slots : ticket[i] = ticket[j] /\ ticket[i] # 0 => i = j

(* The slot a call works on.                                               *)
CallSound ==
    /\ call \in {"fill", "enqueue", "flush", "wait"} => mine \in Slots
    /\ call \in {"fill", "enqueue"} => state[mine] = "SUBMITTED"
    /\ call = "enqueue" => frame[mine] = counter + 1
    /\ call = "flush" => counter # 0
    /\ call = "wait" => /\ target \in Asks /\ ticket[mine] = target
                        /\ target # 0
    /\ \A t \in inflight : t <= counter

(* Tickets are over, or on their way through the ring; those in the ring   *)
(* are the latest; and a single worker finishes them in order.             *)
TicketsSound ==
    /\ \A t \in finished \cup reported : t \in 1..counter
    /\ \A t \in 1..counter : t \notin finished =>
           \E i \in Slots : ticket[i] = t /\ state[i] # "DONE"
    /\ \A t, u \in 1..counter : Held(t) /\ t <= u => Held(u)
    /\ mode.workers = 1 => \A i, j \in Slots :
           state[i] = "RUNNING" /\ state[j] = "DONE" => ticket[j] < ticket[i]

IInv == /\ TypeOK /\ ThreadsSound /\ WorkersSound /\ QueueSound /\ RingSound
        /\ CallSound /\ TicketsSound /\ OwnPlanes /\ OwnColours
        /\ CompleteMeansFinished
=============================================================================
