------------------------------ MODULE DmlFences ------------------------------
(***************************************************************************)
(* Fences, markers and command-list recycling of the DirectML backend      *)
(* (src/aji_dml.cpp).                                                      *)
(*                                                                         *)
(* One thread calls the library.  It records command lists from a pool,    *)
(* submits them to the D3D12 queue, and puts end-of-frame markers on the   *)
(* queue-private done_fence; markers are tickets, and the value of a       *)
(* marker retires the lists submitted before it.  The D3D12 queue runs on  *)
(* its own, and so does D3D11, which signals the other fence when the      *)
(* input of a frame is in place.                                           *)
(*                                                                         *)
(* A call is a short program of steps (todo): "seg" records and submits    *)
(* one command list, "handoff" makes the queue wait for the input, "sync"  *)
(* puts a marker and waits for it, "teardown" frees the buffers and takes  *)
(* all lists back.  Any step of a frame may fail.  The model runs between  *)
(* segments (ONNX Runtime submits them to the same queue) add nothing to   *)
(* this and are left out.                                                  *)
(***************************************************************************)
EXTENDS Integers, FiniteSets, Sequences

CONSTANTS
    Depth,         \* frames the filter keeps in flight
    MaxMarkers,    \* bound of the model: markers put on done_fence
    MaxLists,      \* bound of the model: command lists ever created
    Late           \* the values of late: may the GPUs stop?

ASSUME BoundsAssumption ==
    /\ Depth \in Nat \ {0} /\ MaxMarkers \in Nat
    /\ MaxLists \in Nat \ {0} /\ Late \subseteq BOOLEAN

Lists == 1..MaxLists
NoList == 0
Free == 0                      \* the list is in cl_free
Unmarked == MaxMarkers + 1     \* UINT64_MAX: in cl_busy, no marker covers it

VARIABLES
    late,        \* the GPUs may stop, so that waits time out; set at the start
    fenceVal,    \* fence_val: input handoffs asked of D3D11
    fence,       \* the value of fence: handoffs D3D11 has signalled
    doneVal,     \* done_val: markers put on the queue
    doneFence,   \* the value of done_fence: markers the queue has reached
    queue,       \* what the D3D12 queue has yet to run
    made,        \* lists created so far: 1..made
    tag,         \* of each list: Free, or the value cl_busy carries
    recording,   \* lists that were reset and not closed
    cur,         \* the list being recorded
    registered,  \* values fence_event is to be set for
    event,       \* fence_event is set
    call,        \* what the caller is inside of
    todo,        \* the steps that call has left
    waiting,     \* the marker being waited for, or 0
    armed,       \* the wait has found it pending and sleeps on the event
    owes,        \* the caller has put in a frame and not taken its ticket
    inflight,    \* the caller's tickets, not yet collected
    reported     \* markers the caller was told, or infers, to be complete

gpuVars == <<fence, doneFence, queue>>
listVars == <<made, tag, recording, cur>>
waitVars == <<registered, event, waiting, armed>>
callVars == <<call, todo>>
clientVars == <<owes, inflight, reported>>
vars == <<late, fenceVal, gpuVars, doneVal, listVars, waitVars, callVars,
          clientVars>>

Init ==
    /\ late \in Late
    /\ fenceVal = 0 /\ fence = 0 /\ doneVal = 0 /\ doneFence = 0
    /\ queue = << >>
    /\ made = 0 /\ tag = [l \in Lists |-> Free]
    /\ recording = {} /\ cur = NoList
    /\ registered = {} /\ event = FALSE /\ waiting = 0 /\ armed = FALSE
    /\ call = "idle" /\ todo = << >>
    /\ owes = FALSE /\ inflight = {} /\ reported = {}

Execute(l) == [op |-> "execute", arg |-> l]
AwaitInput(v) == [op |-> "await", arg |-> v]
Marker(v) == [op |-> "marker", arg |-> v]

(* What GetCompletedValue of done_fence returns.  Fault: the markers live  *)
(* on the fence that D3D11 signals too, whose value is its maximum.        *)
CompletedShared == IF doneFence < fence THEN fence ELSE doneFence
Completed == doneFence

-----------------------------------------------------------------------------
(* The two GPUs' queues. *)

(* D3D11 reaches the next handoff. *)
D3D11Signals ==
    /\ fence < fenceVal
    /\ fence' = fence + 1
    /\ UNCHANGED <<late, fenceVal, doneFence, queue, doneVal, listVars,
                   waitVars, callVars, clientVars>>

(* The D3D12 queue finishes its next operation.  A marker raises the fence,*)
(* which sets the event if it was registered for the value.                *)
QueueRuns ==
    /\ queue # << >>
    /\ queue' = Tail(queue)
    /\ LET h == Head(queue) IN
         \/ /\ h.op = "execute"
            /\ UNCHANGED <<doneFence, registered, event>>
         \/ /\ h.op = "await"
            /\ h.arg <= fence
            /\ UNCHANGED <<doneFence, registered, event>>
         \/ /\ h.op = "marker"
            /\ doneFence' = h.arg
            /\ registered' = {v \in registered : v > h.arg}
            /\ event' = (event \/ registered' # registered)
    /\ UNCHANGED <<late, fenceVal, fence, doneVal, listVars, waiting, armed,
                   callVars, clientVars>>

-----------------------------------------------------------------------------
(* Markers: signal_done. *)

(* A marker at the end of the queue.  Lists that no marker covers yet get  *)
(* its value.                                                              *)
PutMarker ==
    LET v == doneVal + 1 IN
    /\ queue' = Append(queue, Marker(v))
    /\ tag' = [l \in Lists |-> IF tag[l] = Unmarked THEN v ELSE tag[l]]

(* Fault: a marker is not counted, and the next one has the same value. *)
SignalDoneUncounted == PutMarker /\ UNCHANGED doneVal

SignalDone == PutMarker /\ doneVal' = doneVal + 1

-----------------------------------------------------------------------------
(* Recording: Recorder.begin and Recorder.exec. *)

Fails == /\ todo' = <<"failed">>
         /\ cur' = NoList

(* The lists whose marker has completed, that may be recorded again.       *)
(* Fault: a list without a marker counts as retired.                       *)
RetiredUnmarked == {l \in 1..made : tag[l] <= Completed \/ tag[l] = Unmarked}
Retired == {l \in 1..made : tag[l] <= Completed}

(* Take a retired list, or create one if there is none, and reset it; a    *)
(* list a failed frame left open cannot be reset.                          *)
Begin ==
    /\ todo # << >> /\ Head(todo) = "seg" /\ cur = NoList
    /\ \E l \in IF Retired = {} THEN {made + 1} \cap Lists ELSE Retired :
          /\ made' = IF l > made THEN l ELSE made
          /\ tag' = [k \in Lists |-> IF k = l THEN Unmarked
                                     ELSE IF k \in Retired THEN Free
                                     ELSE tag[k]]
          /\ IF l \in recording
             THEN Fails /\ UNCHANGED recording
             ELSE /\ cur' = l
                  /\ recording' = recording \cup {l}
                  /\ UNCHANGED todo
    /\ UNCHANGED <<late, fenceVal, gpuVars, doneVal, waitVars, call,
                   clientVars>>

Exec ==
    /\ cur # NoList
    /\ queue' = Append(queue, Execute(cur))
    /\ recording' = recording \ {cur}
    /\ cur' = NoList
    /\ todo' = Tail(todo)
    /\ UNCHANGED <<late, fenceVal, fence, doneFence, doneVal, made, tag,
                   waitVars, call, clientVars>>

(* The input handoff: D3D11 is to signal the next value of fence and the   *)
(* queue waits for it.  Fault: the queue waits for a value that was not    *)
(* asked for.                                                              *)
HandsOff(awaited) ==
    /\ todo # << >> /\ Head(todo) = "handoff"
    /\ fenceVal' = fenceVal + 1
    /\ queue' = Append(queue, AwaitInput(awaited))
    /\ todo' = Tail(todo)
    /\ UNCHANGED <<late, fence, doneFence, doneVal, listVars, waitVars, call,
                   clientVars>>

HandoffAhead == HandsOff(fenceVal + 2)
Handoff == HandsOff(fenceVal + 1)

(* An allocation, a shared texture, a recording or a model run fails. *)
StepFails ==
    /\ todo # << >> /\ Head(todo) \in {"seg", "handoff"}
    /\ Fails
    /\ UNCHANGED <<late, fenceVal, gpuVars, doneVal, made, tag, recording,
                   waitVars, call, clientVars>>

-----------------------------------------------------------------------------
(* Waiting for a marker: wait_done_val. *)

Collect(t) ==
    /\ inflight' = {u \in inflight : u > t}
    /\ reported' = reported \cup 1..t

(* The wait is over, with the marker reached or not.  aji_wait passes the  *)
(* result on; aji_infer_rife fails; chain_teardown and the warmups do not  *)
(* look.                                                                   *)
WaitOver(reached) ==
    /\ waiting' = 0 /\ armed' = FALSE
    /\ \/ /\ call = "wait"
          /\ call' = "idle" /\ todo' = todo
          /\ IF reached THEN Collect(waiting)
                        ELSE UNCHANGED <<inflight, reported>>
       \/ /\ call = "rife"
          /\ call' = call
          /\ todo' = IF reached THEN Tail(todo) ELSE <<"failed">>
          /\ reported' = IF reached THEN reported \cup 1..waiting ELSE reported
          /\ UNCHANGED inflight
       \/ /\ call \in {"configure", "destroy"}
          /\ call' = call
          /\ todo' = Tail(todo)
          /\ UNCHANGED <<inflight, reported>>
    /\ UNCHANGED <<late, fenceVal, gpuVars, doneVal, listVars, owes>>

(* A marker of the call's own, to wait for (drain_queue). *)
Sync ==
    /\ todo # << >> /\ Head(todo) = "sync" /\ waiting = 0
    /\ SignalDone
    /\ waiting' = doneVal + 1
    /\ UNCHANGED <<late, fenceVal, fence, doneFence, made, recording, cur,
                   registered, event, armed, callVars, clientVars>>

WaitSatisfied ==
    /\ waiting # 0 /\ ~armed
    /\ waiting <= Completed
    /\ WaitOver(TRUE)
    /\ UNCHANGED <<registered, event>>

WaitArms ==
    /\ waiting # 0 /\ ~armed
    /\ waiting > Completed
    /\ registered' = registered \cup {waiting}
    /\ armed' = TRUE
    /\ UNCHANGED <<late, fenceVal, gpuVars, doneVal, listVars, event,
                   waiting, callVars, clientVars>>

(* WaitForSingleObject: the auto-reset event is set.  What it was set for  *)
(* is not asked.                                                           *)
WaitWakes ==
    /\ armed /\ event
    /\ event' = FALSE
    /\ WaitOver(TRUE)
    /\ UNCHANGED <<registered>>

(* Fault: a wait that times out is begun again. *)
WaitRetries ==
    /\ late
    /\ armed /\ ~event
    /\ armed' = FALSE
    /\ UNCHANGED <<late, fenceVal, gpuVars, doneVal, listVars, registered,
                   event, waiting, callVars, clientVars>>

(* The registration outlives the wait. *)
WaitTimesOut ==
    /\ late
    /\ armed /\ ~event
    /\ WaitOver(FALSE)
    /\ UNCHANGED <<registered, event>>

-----------------------------------------------------------------------------
(* The entry points. *)

(* The steps of a frame and of a reconfigure.  An interpolation fills its  *)
(* staging buffers on first use, and is over early at a scene change.      *)
Programs == [infer |-> {<<"handoff", "seg", "seg">>},
             rife |-> {<<"handoff", "seg", "sync">>,
                       <<"seg", "handoff", "seg", "sync", "seg", "sync">>},
             configure |-> {<<"sync", "teardown">>,
                            <<"sync", "teardown", "seg", "sync">>},
             destroy |-> {<<"sync", "teardown">>}]

Starts(c) ==
    /\ call = "idle"
    /\ doneVal + 3 <= MaxMarkers
    /\ call' = c
    /\ todo' \in Programs[c]

(* aji_infer (and aji_resize, which takes the same steps) and              *)
(* aji_infer_rife, of valid frames.                                        *)
FrameCalls(c) ==
    /\ Starts(c)
    /\ ~owes
    /\ Cardinality(inflight) < Depth
    /\ UNCHANGED <<late, fenceVal, gpuVars, doneVal, listVars, waitVars,
                   clientVars>>

(* The DoneGuard of a frame marks its end, however it ends. *)
FrameReturns ==
    /\ call \in {"infer", "rife"}
    /\ todo \in {<< >>, <<"failed">>}
    /\ SignalDone
    /\ call' = "idle" /\ todo' = << >>
    /\ owes' = (call = "infer" /\ todo = << >>)
    /\ UNCHANGED <<late, fenceVal, fence, doneFence, made, recording, cur,
                   waitVars, inflight, reported>>

(* aji_flush: a marker of its own is the ticket. *)
Flush ==
    /\ call = "idle" /\ owes
    /\ SignalDone
    /\ owes' = FALSE
    /\ inflight' = inflight \cup {doneVal + 1}
    /\ UNCHANGED <<late, fenceVal, fence, doneFence, made, recording, cur,
                   waitVars, callVars, reported>>

(* aji_wait for any of the tickets, the newest when the player seeks. *)
WaitCall ==
    /\ call = "idle"
    /\ \E t \in inflight : waiting' = t
    /\ call' = "wait"
    /\ UNCHANGED <<late, fenceVal, gpuVars, doneVal, listVars, registered,
                   event, armed, todo, clientVars>>

(* aji_done says 1. *)
PollComplete ==
    /\ call = "idle"
    /\ \E t \in inflight : /\ t <= Completed
                         /\ reported' = reported \cup 1..t
    /\ UNCHANGED <<late, fenceVal, gpuVars, doneVal, listVars, waitVars,
                   callVars, owes, inflight>>

(* aji_configure and aji_destroy begin by draining the queue. *)
ChainCalls(c) ==
    /\ Starts(c)
    /\ UNCHANGED <<late, fenceVal, gpuVars, doneVal, listVars, waitVars,
                   clientVars>>

(* chain_teardown: buffers and sessions go, every list is free. *)
Teardown ==
    /\ todo # << >> /\ Head(todo) = "teardown"
    /\ tag' = [l \in Lists |-> Free]
    /\ todo' = Tail(todo)
    /\ UNCHANGED <<late, fenceVal, gpuVars, doneVal, made, recording, cur,
                   waitVars, call, clientVars>>

ChainReturns ==
    /\ call \in {"configure", "destroy"}
    /\ todo \in {<< >>, <<"failed">>}
    /\ call' = IF call = "destroy" THEN "gone" ELSE "idle"
    /\ todo' = << >>
    /\ UNCHANGED <<late, fenceVal, gpuVars, doneVal, listVars, waitVars,
                   clientVars>>

Gone == call = "gone" /\ UNCHANGED vars

-----------------------------------------------------------------------------
InCall == \/ Handoff \/ Begin \/ Exec \/ StepFails \/ Sync
          \/ WaitSatisfied \/ WaitArms \/ WaitWakes \/ WaitTimesOut
          \/ FrameReturns \/ Teardown \/ ChainReturns

Caller == \/ FrameCalls("infer") \/ FrameCalls("rife") \/ Flush
          \/ WaitCall \/ PollComplete
          \/ ChainCalls("configure") \/ ChainCalls("destroy")
          \/ InCall \/ Gone

Next == D3D11Signals \/ QueueRuns \/ Caller

(* A call makes progress, and so do both queues unless the GPUs may stop;  *)
(* calls need not be made.                                                 *)
Fairness ==
    /\ WF_vars(InCall)
    /\ WF_vars(~late /\ D3D11Signals)
    /\ WF_vars(~late /\ QueueRuns)

Spec == Init /\ [][Next]_vars /\ Fairness

-----------------------------------------------------------------------------
(* Properties. *)

TypeOK ==
    /\ late \in BOOLEAN
    /\ fenceVal \in Nat /\ fence \in 0..fenceVal
    /\ doneVal \in 0..MaxMarkers /\ doneFence \in 0..doneVal
    /\ queue \in Seq([op : {"execute", "await", "marker"}, arg : Nat])
    /\ made \in 0..MaxLists
    /\ tag \in [Lists -> (0..doneVal) \cup {Unmarked}]
    /\ recording \subseteq 1..made
    /\ cur \in recording \cup {NoList}
    /\ registered \subseteq 1..doneVal
    /\ event \in BOOLEAN /\ armed \in BOOLEAN /\ owes \in BOOLEAN
    /\ call \in {"idle", "infer", "rife", "wait", "configure", "destroy",
                 "gone"}
    /\ todo \in Seq({"handoff", "seg", "sync", "teardown", "failed"})
    /\ waiting \in 0..doneVal
    /\ inflight \subseteq 1..doneVal
    /\ reported \subseteq 1..doneVal

(* The work a list holds is still to be run, or running. *)
Executing(l) == \E i \in DOMAIN queue : queue[i] = Execute(l)

(* "An allocator must not be reset while its prior work is still executing"*)
(* (the comment on ClEntry): a list that is free, or that is recorded      *)
(* again, has been run.  Together with the buffers, the lists are what     *)
(* "GPU must be idle before buffers/sessions go away" is about.  It takes  *)
(* a GPU that answers before chain_teardown gives up waiting.              *)
IdleWhenReset ==
    ~late => \A l \in 1..made : tag[l] = Free \/ l = cur => ~Executing(l)

(* A complete ticket is one the queue has reached: of aji_done, aji_wait,  *)
(* and of aji_infer_rife, whose output is "complete on return".            *)
CompleteMeansReached == \A t \in reported : t <= doneFence

(* Every call returns: the queue never waits for a handoff nobody signals  *)
(* and, when waits time out, even though the GPU hangs.                    *)
CallsReturn == call # "idle" ~> call \in {"idle", "gone"}

(* The markers implement the tickets of aji.h, except that nothing is      *)
(* promised of the answers once a wait may time out.                       *)
Answers == IF late THEN {} ELSE reported
Tickets == INSTANCE FrameTickets
             WITH submitted <- doneVal, finished <- 1..doneFence,
                  reported <- Answers
ImplementsTickets == Tickets!Spec
-----------------------------------------------------------------------------
(* The inductive invariant behind the properties. *)

At(step) == todo # << >> /\ todo[1] = step

(* Markers in the queue are those put and not reached, in order.           *)
QueueSound ==
    /\ \A i \in DOMAIN queue : queue[i].op = "marker" =>
           doneFence < queue[i].arg /\ queue[i].arg <= doneVal
    /\ \A i, j \in DOMAIN queue :
           i < j /\ queue[i].op = "marker" /\ queue[j].op = "marker" =>
               queue[i].arg < queue[j].arg

(* What is left of a call: between calls nothing is, only an interpolation *)
(* or a reconfigure waits, and a teardown comes right behind a wait.       *)
ProgramSound ==
    /\ call \in {"idle", "wait", "gone"} => todo = << >>
    /\ \A i \in DOMAIN todo :
          /\ todo[i] = "sync" => call \in {"rife", "configure", "destroy"}
          /\ todo[i] = "teardown" =>
                /\ call \in {"configure", "destroy"}
                /\ i = 1 \/ (i = 2 /\ todo[1] = "sync")
    /\ cur # NoList => At("seg") /\ tag[cur] = Unmarked

(* A wait is aji_wait's, or the step of a call; the event is registered    *)
(* for markers not reached, and where no wait times out it is set for the  *)
(* marker being waited for alone.                                          *)
WaitSound ==
    /\ waiting # 0 => call = "wait" \/ At("sync")
    /\ armed => waiting # 0
    /\ \A v \in registered : doneFence < v
    /\ ~late => /\ ~armed => registered = {} /\ ~event
                /\ armed => registered \subseteq {waiting}
                /\ event => waiting <= doneFence

(* Work in the queue is of a list that was created, is not free and is not *)
(* being recorded; behind it is the marker the list is to be retired by.   *)
ListsSound ==
    \A i \in DOMAIN queue : queue[i].op = "execute" =>
        /\ queue[i].arg \in 1..made /\ queue[i].arg # cur
        /\ tag[queue[i].arg] # Free
        /\ tag[queue[i].arg] # Unmarked =>
               \E j \in DOMAIN queue :
                   i < j /\ queue[j] = Marker(tag[queue[i].arg])

(* The marker a call waits for is behind all the work in the queue, which  *)
(* has run when the teardown comes.                                        *)
DrainSound ==
    \A i \in DOMAIN queue : queue[i].op = "execute" =>
        /\ waiting # 0 /\ call # "wait" =>
               \E j \in DOMAIN queue : i < j /\ queue[j] = Marker(waiting)
        /\ ~At("teardown")

(* The markers the caller has yet to put stay within the bound. *)
Ahead(p) == p \in DOMAIN todo /\ todo[p] = "sync" /\ (p = 1 => waiting = 0)
Budget == MaxMarkers - doneVal - (IF call \in {"infer", "rife"} THEN 1 ELSE 0)
                               - (IF call = "infer" \/ owes THEN 1 ELSE 0)
BudgetSound ==
    /\ Budget >= 0
    /\ \A p \in DOMAIN todo : Ahead(p) => Budget >= 1
    /\ \A p, q \in DOMAIN todo : Ahead(p) /\ Ahead(q) /\ p < q => Budget >= 2
    /\ \A p, q, r \in DOMAIN todo :
           ~(Ahead(p) /\ Ahead(q) /\ Ahead(r) /\ p < q /\ q < r)

IInv == /\ TypeOK /\ QueueSound /\ ProgramSound /\ WaitSound
        /\ (~late => ListsSound /\ DrainSound) /\ BudgetSound
=============================================================================
