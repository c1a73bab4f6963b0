---------------------------- MODULE RocmPipeline ----------------------------
(***************************************************************************)
(* The asynchronous frame pipeline of the ROCm/MIGraphX backend            *)
(* (src/aji_rocm.cpp): a ring of slots, one worker thread that runs the    *)
(* model, and a filter thread that converts colours on the way in          *)
(* (aji_infer) and, unless the GPU does it, on the way out (aji_wait).     *)
(*                                                                         *)
(* As in VkPipeline, an action is a critical section under infer_mtx or    *)
(* the work of one thread outside it, a condition variable is a guard, and *)
(* the frame of ticket n is frame n.                                       *)
(***************************************************************************)
EXTENDS Integers, FiniteSets, Sequences

CONSTANTS
    KRing,      \* kRing (4 in the code)
    Depth,      \* frames the filter keeps in flight
    MaxFrames   \* bound of the model: tickets handed out in a behaviour

(* aji.h: the filter clamps its depth to aji_max_in_flight = kRing. *)
ASSUME RingAssumption ==
    KRing \in Nat \ {0} /\ Depth \in 1..KRing /\ MaxFrames \in Nat

Slots == 0..(KRing - 1)
NoSlot == -1
NoFrame == 0

VARIABLES
    active,     \* c->active
    eligible,   \* gpu_color_eligible: the worker converts the output itself
    started,    \* infer_worker_started
    stop,       \* infer_stop
    state,      \* slots[i].state
    ticket,     \* slots[i].ticket
    frame,      \* the frame in slots[i].rgb_in and slots[i].out
    rgbOut,     \* the frame whose model output is in slots[i].rgb_out
    outcome,    \* slots[i].err and gpu_colored: "none", "chained", "colored",
                \* "failed"
    queue,      \* infer_pending
    last,       \* infer_last_ticket
    pc, slot, src, result,   \* the worker: where it is, its slot, the input
                             \* it read, what its run came to
    call, mine, target,      \* the filter: its call, the slot and the ticket
    verdict,    \* what aji_wait will return
    inflight,   \* the filter's tickets, taken and not yet collected
    reported,   \* tickets the filter was told, or infers, to be complete
    collected,  \* tickets whose own aji_wait found the slot and said AJI_OK
    over,       \* tickets the worker is done with, or that never reached it
    written     \* <<input, output planes>> of every frame written

planVars == <<active, eligible>>
threadVars == <<started, stop>>
slotVars == <<state, ticket, frame, rgbOut, outcome>>
workerVars == <<pc, slot, src, result>>
callVars == <<call, mine, target, verdict>>
history == <<reported, collected, over, written>>
vars == <<planVars, threadVars, slotVars, queue, last, workerVars, callVars,
          inflight, history>>

Init ==
    /\ active = FALSE /\ eligible = FALSE /\ started = FALSE /\ stop = FALSE
    /\ state = [i \in Slots |-> "FREE"]
    /\ ticket = [i \in Slots |-> 0]
    /\ frame = [i \in Slots |-> NoFrame]
    /\ rgbOut = [i \in Slots |-> NoFrame]
    /\ outcome = [i \in Slots |-> "none"]
    /\ queue = << >> /\ last = 0
    /\ pc = "off" /\ slot = NoSlot /\ src = NoFrame /\ result = "none"
    /\ call = "idle" /\ mine = NoSlot /\ target = 0 /\ verdict = "none"
    /\ inflight = {}
    /\ reported = {} /\ collected = {} /\ over = {} /\ written = {}

-----------------------------------------------------------------------------
(* The worker: infer_worker_loop. *)

Takes(rest) ==
    /\ pc = "idle"
    /\ queue # << >>
    /\ slot' = Head(queue)
    /\ queue' = rest
    /\ pc' = "read"
    /\ UNCHANGED <<planVars, threadVars, slotVars, last, src, result,
                   callVars, inflight, history>>

(* Fault: the slot is not popped. *)
WorkerTakeKeeps == Takes(queue)

WorkerTake == Takes(Tail(queue))

WorkerRead ==
    /\ pc = "read"
    /\ src' = frame[slot]
    /\ pc' = "run"
    /\ UNCHANGED <<planVars, threadVars, slotVars, queue, last, slot, result,
                   callVars, inflight, history>>

(* run_chain_gpu writes the output planes, run_chain leaves the model's    *)
(* output in the slot; either may fail.                                    *)
WorkerRun ==
    /\ pc = "run"
    /\ \/ /\ eligible
          /\ result' = "colored"
          /\ written' = written \cup {<<src, frame[slot]>>}
          /\ UNCHANGED rgbOut
       \/ /\ ~eligible
          /\ result' = "chained"
          /\ rgbOut' = [rgbOut EXCEPT ![slot] = src]
          /\ UNCHANGED written
       \/ /\ result' = "failed"
          /\ UNCHANGED <<rgbOut, written>>
    /\ pc' = "finish"
    /\ UNCHANGED <<planVars, threadVars, state, ticket, frame, outcome,
                   queue, last, slot, src, callVars, inflight, reported,
                   collected, over>>

Finishes(found) ==
    /\ pc = "finish"
    /\ state' = [state EXCEPT ![slot] = "DONE"]
    /\ outcome' = [outcome EXCEPT ![slot] = found]
    /\ over' = over \cup {src}
    /\ pc' = "idle" /\ slot' = NoSlot /\ src' = NoFrame /\ result' = "none"
    /\ UNCHANGED <<planVars, threadVars, ticket, frame, rgbOut, queue, last,
                   callVars, inflight, reported, collected, written>>

(* Fault: a failed run is filed as if the worker had written the frame. *)
WorkerFinishBlind ==
    Finishes(IF result = "failed" THEN "colored" ELSE result)

WorkerFinish == Finishes(result)

WorkerExit ==
    /\ pc = "idle"
    /\ stop /\ queue = << >>
    /\ pc' = "off"
    /\ UNCHANGED <<planVars, threadVars, slotVars, queue, last, slot, src,
                   result, callVars, inflight, history>>

Worker == WorkerTake \/ WorkerRead \/ WorkerRun \/ WorkerFinish \/ WorkerExit

-----------------------------------------------------------------------------
(* aji_infer and the aji_flush that takes its ticket. *)

InferCall ==
    /\ call = "idle"
    /\ active
    /\ last < MaxFrames
    /\ Cardinality(inflight) < Depth
    /\ IF started
       THEN UNCHANGED <<threadVars, pc>>
       ELSE started' = TRUE /\ stop' = FALSE /\ pc' = "idle"
    /\ call' = "claim"
    /\ UNCHANGED <<planVars, slotVars, queue, last, slot, src, result, mine,
                   target, verdict, inflight, history>>

Claims(i) ==
    /\ call = "claim"
    /\ last' = last + 1
    /\ ticket' = [ticket EXCEPT ![i] = last + 1]
    /\ outcome' = [outcome EXCEPT ![i] = "none"]
    /\ state' = [state EXCEPT ![i] = "SUBMITTED"]
    /\ mine' = i
    /\ call' = "color"
    /\ UNCHANGED <<planVars, threadVars, frame, rgbOut, queue, workerVars,
                   target, verdict, inflight, history>>

(* Under infer_mtx: the first free slot, and its ticket. *)
InferClaim ==
    \E i \in Slots : /\ state[i] = "FREE"
                     /\ \A j \in 0..(i - 1) : state[j] # "FREE"
                     /\ Claims(i)

(* In-colour and the description of the output, without the lock. *)
InferColor ==
    /\ call = "color"
    /\ frame' = [frame EXCEPT ![mine] = last]
    /\ call' = "enqueue"
    /\ UNCHANGED <<planVars, threadVars, state, ticket, rgbOut, outcome,
                   queue, last, workerVars, mine, target, verdict, inflight,
                   history>>

(* In-colour fails: the slot is given back; the ticket is used up. *)
InferColorFails ==
    /\ call = "color"
    /\ state' = [state EXCEPT ![mine] = "FREE"]
    /\ ticket' = [ticket EXCEPT ![mine] = 0]
    /\ over' = over \cup {last}
    /\ call' = "idle" /\ mine' = NoSlot
    /\ UNCHANGED <<planVars, threadVars, frame, rgbOut, outcome, queue, last,
                   workerVars, target, verdict, inflight, reported,
                   collected, written>>

InferEnqueue ==
    /\ call = "enqueue"
    /\ queue' = Append(queue, mine)
    /\ call' = "flush"
    /\ UNCHANGED <<planVars, threadVars, slotVars, last, workerVars, mine,
                   target, verdict, inflight, history>>

Flush ==
    /\ call = "flush"
    /\ inflight' = inflight \cup {last}
    /\ call' = "idle" /\ mine' = NoSlot
    /\ UNCHANGED <<planVars, threadVars, slotVars, queue, last, workerVars,
                   target, verdict, history>>

-----------------------------------------------------------------------------
(* aji_wait and aji_done. *)

StrikeOff(t) == inflight' = {u \in inflight : u > t}

(* No slot has the ticket: it was collected before. *)
WaitGone(t) ==
    /\ \A i \in Slots : ticket[i] # t
    /\ StrikeOff(t)
    /\ reported' = reported \cup 1..t
    /\ UNCHANGED <<callVars, collected>>

WaitBlock(t) ==
    /\ \E i \in Slots : ticket[i] = t /\ mine' = i
    /\ target' = t
    /\ call' = "wait"
    /\ UNCHANGED <<verdict, inflight, reported, collected>>

(* For any of the tickets: the filter drains by its newest. *)
WaitCall ==
    /\ call = "idle"
    /\ \E t \in inflight : WaitGone(t) \/ WaitBlock(t)
    /\ UNCHANGED <<planVars, threadVars, slotVars, queue, last, workerVars,
                   over, written>>

(* Pass on the worker's error, or do the out-colour the worker has not     *)
(* done, which may fail.                                                   *)
Posts ==
    /\ call = "wait"
    /\ \/ /\ outcome[mine] = "failed"
          /\ verdict' = "error" /\ UNCHANGED written
       \/ /\ outcome[mine] = "colored"
          /\ verdict' = "ok" /\ UNCHANGED written
       \/ /\ outcome[mine] \in {"chained", "none"}
          /\ \/ /\ verdict' = "ok"
                /\ written' = written \cup {<<rgbOut[mine], frame[mine]>>}
             \/ /\ verdict' = "error" /\ UNCHANGED written
    /\ call' = "release"
    /\ UNCHANGED <<planVars, threadVars, slotVars, queue, last, workerVars,
                   mine, target, inflight, reported, collected, over>>

(* Fault: a spurious wakeup is taken for the frame's end. *)
WaitPostEarly == Posts

(* Once infer_done_cv finds the slot DONE; without the lock. *)
WaitPost == call = "wait" /\ state[mine] = "DONE" /\ Posts

Releases(freed) ==
    /\ call = "release"
    /\ state' = [i \in Slots |-> IF i \in freed THEN "FREE" ELSE state[i]]
    /\ ticket' = [i \in Slots |-> IF i \in freed THEN 0 ELSE ticket[i]]
    /\ StrikeOff(target)
    /\ reported' = IF verdict = "ok" THEN reported \cup 1..target ELSE reported
    /\ collected' = collected \cup (IF verdict = "ok" THEN {target} ELSE {})
    /\ call' = "idle" /\ mine' = NoSlot /\ target' = 0 /\ verdict' = "none"
    /\ UNCHANGED <<planVars, threadVars, frame, rgbOut, outcome, queue, last,
                   workerVars, over, written>>

(* Fault: every slot is freed. *)
WaitReleaseAll == Releases(Slots)

(* Under infer_mtx: free the slot, and those of all earlier tickets. *)
WaitRelease ==
    Releases({mine} \cup {i \in Slots : ticket[i] \in 1..(target - 1)})

Polls(complete) ==
    /\ call = "idle"
    /\ \E t \in inflight :
          /\ \A i \in Slots : ticket[i] = t => state[i] \in complete
          /\ reported' = reported \cup 1..t
    /\ UNCHANGED <<planVars, threadVars, slotVars, queue, last, workerVars,
                   callVars, inflight, collected, over, written>>

(* Fault: a frame that is only submitted counts as complete. *)
PollCompleteEarly == Polls({"SUBMITTED", "DONE"})

(* aji_done says 1. *)
PollComplete == Polls({"DONE"})

-----------------------------------------------------------------------------
(* aji_configure and aji_destroy, which both begin with infer_worker_stop. *)

StopCall(c) ==
    /\ call = "idle"
    /\ call' = c
    /\ stop' = IF started THEN TRUE ELSE stop
    /\ UNCHANGED <<planVars, started, slotVars, queue, last, workerVars,
                   mine, target, verdict, inflight, history>>

(* Fault: the filter reconfigures with frames in flight, and forgets them. *)
ConfigureCallUndrained ==
    /\ call = "idle"
    /\ call' = "configure"
    /\ stop' = IF started THEN TRUE ELSE stop
    /\ inflight' = {}
    /\ UNCHANGED <<planVars, started, slotVars, queue, last, workerVars,
                   mine, target, verdict, history>>

(* "The filter drains in-flight frames before reconfiguring." *)
ConfigureCall == inflight = {} /\ StopCall("configure")

(* build_plan: a plan, no plan, or one whose model does not load, which    *)
(* leaves c->active as it was.                                             *)
BuildPlan ==
    \/ active' = TRUE /\ eligible' \in BOOLEAN
    \/ active' \in {FALSE, active} /\ eligible' = FALSE

ConfigureReturn ==
    /\ call = "configure"
    /\ pc = "off"
    /\ started' = FALSE
    /\ BuildPlan
    /\ call' = "idle"
    /\ UNCHANGED <<stop, slotVars, queue, last, workerVars, mine, target,
                   verdict, inflight, history>>

DestroyReturn ==
    /\ call = "destroy"
    /\ pc = "off"
    /\ started' = FALSE
    /\ call' = "gone"
    /\ UNCHANGED <<planVars, stop, slotVars, queue, last, workerVars, mine,
                   target, verdict, inflight, history>>

Gone == call = "gone" /\ UNCHANGED vars

-----------------------------------------------------------------------------
InCall == \/ InferClaim \/ InferColor \/ InferColorFails \/ InferEnqueue
          \/ Flush \/ WaitPost \/ WaitRelease
          \/ ConfigureReturn \/ DestroyReturn

Filter == \/ InferCall \/ WaitCall \/ PollComplete
          \/ ConfigureCall \/ StopCall("destroy") \/ InCall \/ Gone

Next == Worker \/ Filter

Fairness == WF_vars(Worker) /\ WF_vars(InCall)

Spec == Init /\ [][Next]_vars /\ Fairness

-----------------------------------------------------------------------------
(* Properties. *)

TypeOK ==
    /\ active \in BOOLEAN /\ eligible \in BOOLEAN
    /\ started \in BOOLEAN /\ stop \in BOOLEAN
    /\ state \in [Slots -> {"FREE", "SUBMITTED", "DONE"}]
    /\ ticket \in [Slots -> 0..last]
    /\ frame \in [Slots -> 0..last] /\ rgbOut \in [Slots -> 0..last]
    /\ outcome \in [Slots -> {"none", "chained", "colored", "failed"}]
    /\ queue \in Seq(Slots) /\ Len(queue) <= KRing
    /\ last \in 0..MaxFrames
    /\ pc \in {"off", "idle", "read", "run", "finish"}
    /\ slot \in Slots \cup {NoSlot} /\ src \in 0..last
    /\ result \in {"none", "chained", "colored", "failed"}
    /\ call \in {"idle", "claim", "color", "enqueue", "flush", "wait",
                 "release", "configure", "destroy", "gone"}
    /\ mine \in Slots \cup {NoSlot} /\ target \in 0..last
    /\ verdict \in {"none", "ok", "error"}
    /\ inflight \subseteq 1..last
    /\ reported \subseteq 1..last /\ collected \subseteq 1..last
    /\ over \subseteq 1..last

Queued == {queue[n] : n \in DOMAIN queue}

SlotHasOneUser ==
    /\ \A m, n \in DOMAIN queue : queue[m] = queue[n] => m = n
    /\ slot # NoSlot => slot \notin Queued
    /\ call \in {"color", "enqueue", "release"}
          => mine # slot /\ mine \notin Queued
    /\ \A i \in Queued \cup ({slot} \ {NoSlot}) : state[i] = "SUBMITTED"
NoSlotLeak ==
    \A i \in Slots : state[i] # "FREE" =>
        \/ ticket[i] \in inflight
        \/ call \in {"color", "enqueue", "flush"} /\ mine = i
OwnPlanes == \A p \in written : p[1] = p[2]

(* While aji_wait converts a slot without the lock, nobody else uses it,   *)
(* not the worker, not the queue; an occupied slot belongs to a ticket the *)
(* filter can still collect; and the result of a frame lands in that       *)
(* frame's own planes, whichever of the two threads writes it.             *)
SlotsSound == SlotHasOneUser /\ NoSlotLeak /\ OwnPlanes

(* aji_wait's AJI_OK for a frame it finds means that its planes are        *)
(* written: a failed model run or conversion is not lost on the way        *)
(* through the slot.                                                       *)
CollectedMeansWritten == \A t \in collected : <<t, t>> \in written

(* Every call returns: with its depth clamped to the ring, and its frames  *)
(* drained on a reconfigure, the filter never blocks in aji_infer for good.*)
CallsReturn == call # "idle" ~> call \in {"idle", "gone"}

(* The pipeline implements the tickets of aji.h.  (A ticket whose frame    *)
(* failed in colour has no work and ends with the tickets before it.)      *)
Finished == {t \in 1..last : 1..t \subseteq over}
Tickets == INSTANCE FrameTickets WITH submitted <- last, finished <- Finished
ImplementsTickets == Tickets!Spec
-----------------------------------------------------------------------------
(* The inductive invariant behind the properties. *)

Busy == pc \in {"read", "run", "finish"}
Claimed(i) == call \in {"color", "enqueue"} /\ mine = i

(* The worker runs only between aji_infer and infer_worker_stop, and one   *)
(* that has left was told to and has left nothing queued.                  *)
ThreadSound ==
    /\ ~started => pc = "off" /\ queue = << >>
    /\ started /\ pc = "off" => stop /\ queue = << >>
    /\ started /\ stop => call \in {"configure", "destroy"}
    /\ call \in {"claim", "color", "enqueue"} => started
    /\ call = "claim" => last < MaxFrames

(* The slot the worker has, and how much of its work is done.              *)
WorkerSound ==
    /\ ~Busy => slot = NoSlot
    /\ Busy => /\ slot \in Slots /\ state[slot] = "SUBMITTED"
               /\ ~Claimed(slot)
               /\ \A n \in DOMAIN queue : queue[n] # slot
    /\ pc \in {"run", "finish"} => src = frame[slot]
    /\ pc = "finish" => /\ result # "none"
                        /\ result = "colored" => <<src, src>> \in written
                        /\ result = "chained" => rgbOut[slot] = src

(* The worker has the oldest of the frames submitted, the queue the later  *)
(* ones in order; the frames that are DONE are earlier than all these.     *)
OrderSound ==
    /\ \A n \in DOMAIN queue :
          /\ state[queue[n]] = "SUBMITTED" /\ ~Claimed(queue[n])
          /\ \A m \in 1..(n - 1) : ticket[queue[m]] < ticket[queue[n]]
          /\ Busy => ticket[slot] < ticket[queue[n]]
          /\ \A i \in Slots : state[i] = "DONE" =>
                 ticket[i] < ticket[queue[n]]
    /\ Busy => \A i \in Slots : state[i] = "DONE" => ticket[i] < ticket[slot]

(* What the state of a slot says of its ticket, who has the slot, and what *)
(* its outcome says of the frame's planes.                                 *)
RingSound ==
    \A i \in Slots :
        /\ state[i] = "FREE" <=> ticket[i] = 0
        /\ state[i] = "SUBMITTED" =>
               \/ Claimed(i) \/ (Busy /\ slot = i)
               \/ \E n \in DOMAIN queue : queue[n] = i
        /\ state[i] = "DONE" =>
               /\ ticket[i] \in over /\ outcome[i] # "none"
               /\ outcome[i] = "colored" =>
                      <<ticket[i], ticket[i]>> \in written
               /\ outcome[i] = "chained" => rgbOut[i] = ticket[i]
        /\ ticket[i] # 0 =>
               /\ frame[i] = ticket[i] \/ (call = "color" /\ mine = i)
               /\ \/ ticket[i] \in inflight
                  \/ /\ call \in {"color", "enqueue", "flush"}
                     /\ mine = i /\ ticket[i] = last
        /\ \A j \in Slots : ticket[i] = ticket[j] /\ ticket[i] # 0 => i = j

(* The slot a call works on, and what aji_wait may answer.                 *)
CallSound ==
    /\ call \in {"color", "enqueue"} =>
           /\ mine \in Slots /\ state[mine] = "SUBMITTED"
           /\ ticket[mine] = last
    /\ call = "flush" => mine \in Slots /\ ticket[mine] = last /\ last # 0
    /\ call \in {"wait", "release"} =>
           mine \in Slots /\ target \in inflight /\ ticket[mine] = target
    /\ call \in {"color", "enqueue", "flush"} => last \notin inflight
    /\ call = "release" => state[mine] = "DONE"
    /\ call = "release" /\ verdict = "ok" => <<target, target>> \in written

(* A ticket is over or its frame is on its way through the ring; one that  *)
(* the filter has not collected has its slot.                              *)
TicketsSound ==
    /\ \A t \in 1..last : t \notin over =>
           \E i \in Slots : ticket[i] = t /\ state[i] = "SUBMITTED"
    /\ \A t \in inflight : \E i \in Slots : ticket[i] = t

IInv == /\ TypeOK /\ ThreadSound /\ WorkerSound /\ OrderSound /\ RingSound
        /\ CallSound /\ TicketsSound /\ OwnPlanes /\ CollectedMeansWritten
=============================================================================
