----------------------------- MODULE TrtTickets -----------------------------
(***************************************************************************)
(* Completion tickets of the TensorRT backend (src/aji_trt.cpp): a ring of *)
(* CUDA events on the caller's stream, the next ticket and the watermark   *)
(* of completed tickets.                                                   *)
(*                                                                         *)
(* The stream is a FIFO of operations numbered from 1: the work of a frame *)
(* (aji_infer) and the recording of an event (aji_flush) are one operation *)
(* each.  The GPU runs them in order on its own time; an event has fired   *)
(* when the operation that last recorded it has run.  One thread makes all *)
(* the calls, so a call is one action.                                     *)
(***************************************************************************)
EXTENDS Integers, Sequences

CONSTANTS
    Ring,       \* TICK_RING, the events of the ring (8 in the code)
    Depth,      \* frames the caller keeps in flight; a caller that does not
                \* ask aji_max_in_flight may exceed Ring
    MaxOps      \* bound of the model: operations put on the stream

ASSUME RingAssumption == Ring \in Nat \ {0}
ASSUME CallerAssumption == Depth \in Nat /\ MaxOps \in Nat

VARIABLES
    enqueued,   \* operations put on the stream
    ran,        \* operations the GPU has run
    ev,         \* tick_ev: the operation that last recorded each event, or 0
    next,       \* tick_next
    completed,  \* tick_completed
    pending,    \* the frame the caller has no ticket for yet, or 0
    collected,  \* the newest ticket the caller has waited for
    reported,   \* the tickets the caller knows to be complete
    marks       \* history: the operation that recorded each ticket

tickVars == <<ev, next, completed, marks>>
callerVars == <<pending, collected, reported>>
vars == <<enqueued, ran, tickVars, callerVars>>

Slots == 0..(Ring - 1)
Slot(t) == t % Ring
Later(s, t) == IF s < t THEN t ELSE s

(* cudaEventQuery or cudaEventSynchronize succeeds; an event that was never*)
(* created has not fired.                                                  *)
Fired(i) == ev[i] # 0 /\ ev[i] <= ran

Init ==
    /\ enqueued = 0 /\ ran = 0
    /\ ev = [i \in Slots |-> 0]
    /\ next = 1 /\ completed = 0
    /\ pending = 0 /\ collected = 0 /\ reported = {}
    /\ marks = << >>

(* The GPU runs the next operation of the stream. *)
GpuStep ==
    /\ ran < enqueued
    /\ ran' = ran + 1
    /\ UNCHANGED <<enqueued, tickVars, callerVars>>

(* aji_infer: the frame's work is on the stream. *)
Infer ==
    /\ pending = 0
    /\ (next - 1) - collected < Depth
    /\ enqueued < MaxOps
    /\ enqueued' = enqueued + 1
    /\ pending' = enqueued + 1
    /\ UNCHANGED <<ran, tickVars, collected, reported>>

-----------------------------------------------------------------------------
(* aji_flush. *)

(* The ring has gone round: the event is about to track another ticket. *)
Reuses == next > Ring

(* A new recording of the event on the stream, and its ticket. *)
Record ==
    /\ enqueued < MaxOps
    /\ enqueued' = enqueued + 1
    /\ ev' = [ev EXCEPT ![Slot(next)] = enqueued + 1]
    /\ marks' = Append(marks, enqueued + 1)
    /\ next' = next + 1
    /\ pending' = 0
    /\ UNCHANGED <<ran, collected, reported>>

(* Fault: the watermark is set, not raised. *)
RetireLowers == completed' = IF Reuses THEN next - Ring ELSE completed

(* The old ticket of a reused event has completed. *)
Retire ==
    completed' = IF Reuses THEN Later(completed, next - Ring) ELSE completed

(* Faults: the event is recorded again while its ticket is pending; the    *)
(* watermark is not raised for the ticket whose event is taken away; it is *)
(* raised one ticket too far.                                              *)
FlushUnsynced == pending # 0 /\ Record /\ Retire
FlushUnretired ==
    /\ pending # 0
    /\ Reuses => Fired(Slot(next))
    /\ Record
    /\ UNCHANGED completed
FlushAhead ==
    /\ pending # 0
    /\ Reuses => Fired(Slot(next))
    /\ Record
    /\ completed' = IF Reuses THEN Later(completed, next - Ring + 1)
                    ELSE completed

(* The old ticket of a reused event is over first, then it is recorded. *)
Flush ==
    /\ pending # 0
    /\ Reuses => Fired(Slot(next))
    /\ Record
    /\ Retire

(* The caller is told 0, "nothing pending", and never asks for the frame. *)
AnswerZero ==
    /\ pending' = 0
    /\ UNCHANGED <<enqueued, ran, ev, next, marks, collected, reported>>

(* The context cannot be entered, the event cannot be created, or the wait *)
(* for its old ticket fails.                                               *)
FlushRefused == pending # 0 /\ AnswerZero /\ UNCHANGED completed

(* The old ticket is over, but the event cannot be recorded again. *)
FlushUnrecorded ==
    /\ pending # 0
    /\ Reuses => Fired(Slot(next))
    /\ Retire
    /\ AnswerZero

-----------------------------------------------------------------------------
(* aji_done and aji_wait for a ticket: it is below the watermark, or its   *)
(* event has fired, which raises the watermark.  A call that fails leaves  *)
(* everything as it is.                                                    *)
Answers(t) ==
    /\ t < next
    /\ t <= completed \/ Fired(Slot(t))
    /\ completed' = Later(completed, t)
    /\ reported' = reported \cup 1..t
    /\ UNCHANGED <<enqueued, ran, ev, next, marks, pending>>

(* Fault: a ticket is looked up in the slot of its successor. *)
DoneNextSlot(t) ==
    /\ t < next
    /\ t <= completed \/ Fired(Slot(t + 1))
    /\ completed' = Later(completed, t)
    /\ reported' = reported \cup 1..t
    /\ UNCHANGED <<enqueued, ran, ev, next, marks, pending, collected>>

Done(t) == Answers(t) /\ UNCHANGED collected

Wait(t) == Answers(t) /\ collected' = Later(collected, t)

Next == \/ GpuStep \/ Infer
        \/ Flush \/ FlushRefused \/ FlushUnrecorded
        \/ \E t \in 1..(next - 1) : Done(t) \/ Wait(t)

Spec == Init /\ [][Next]_vars

-----------------------------------------------------------------------------
(* Properties. *)

TypeOK ==
    /\ enqueued \in Nat /\ ran \in 0..enqueued
    /\ ev \in [Slots -> 0..enqueued]
    /\ next \in Nat \ {0}
    /\ marks \in Seq(Nat) /\ Len(marks) = next - 1
    /\ \A t \in 1..(next - 1) : marks[t] \in 1..enqueued
    /\ completed \in 0..(next - 1)
    /\ pending \in 0..enqueued
    /\ collected \in 0..completed
    /\ reported \in SUBSET (1..completed)

(* The watermark, and with it every answer "complete" of aji_done and      *)
(* aji_wait, is true: the GPU has run everything up to that ticket.        *)
CompleteMeansRan == \A t \in 1..(next - 1) : t <= completed => marks[t] <= ran

(* The ring knows of every ticket: those it has overwritten are below the  *)
(* watermark, and the event of each of the others still tracks that ticket.*)
RingTracksTickets ==
    /\ next - 1 - Ring <= completed
    /\ \A t \in 1..(next - 1) : next - Ring <= t => ev[Slot(t)] = marks[t]

(* Tickets are marks in the order of their numbers. *)
MarksInOrder ==
    \A s, t \in 1..(next - 1) : s < t => marks[s] < marks[t]

(* "Reusing a slot synchronizes its previous recording first, which never  *)
(* blocks in practice": it does not while fewer tickets than the ring has  *)
(* events are uncollected.                                                 *)
FlushDoesNotBlock ==
    Reuses /\ (next - 1) - collected < Ring => Fired(Slot(next))

Inv == TypeOK /\ CompleteMeansRan /\ RingTracksTickets /\ MarksInOrder

(* The event ring implements the tickets of aji.h. *)
Retired == {t \in 1..(next - 1) : marks[t] <= ran}
Tickets == INSTANCE FrameTickets
             WITH submitted <- next - 1, finished <- Retired
ImplementsTickets == Tickets!Spec
=============================================================================
