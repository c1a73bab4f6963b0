---------------------------- MODULE FrameTickets ----------------------------
(***************************************************************************)
(* What aji.h promises the filter of any backend about completion tickets  *)
(* (include/aji.h, aji_infer .. aji_wait): frames are submitted one after  *)
(* the other, they complete in submission order, and a caller is told that *)
(* a ticket is complete only when the frame of that ticket, and of every   *)
(* ticket before it, has completed.                                        *)
(*                                                                         *)
(* The backends keep rings, queues, events and fences; this module keeps   *)
(* none of them.  Tickets are the naturals from 1 on, ticket n standing    *)
(* for the n-th marker aji_flush placed.                                   *)
(***************************************************************************)
EXTENDS Naturals

VARIABLES
    submitted,   \* the number of tickets handed out so far
    finished,    \* the tickets whose work is over
    reported     \* the tickets the caller knows to be complete

vars == <<submitted, finished, reported>>

TypeOK == /\ submitted \in Nat
          /\ finished \in SUBSET (1..submitted)
          /\ reported \in SUBSET (1..submitted)

Init == /\ submitted = 0
        /\ finished = {}
        /\ reported = {}

(* The caller hands in a frame and takes its ticket. *)
Submit == /\ submitted' = submitted + 1
          /\ UNCHANGED <<finished, reported>>

(* The work of ticket t ends, and with it that of every earlier ticket     *)
(* still open (a ticket without work of its own ends with its neighbours). *)
Finish(t) == /\ t \notin finished
             /\ finished' = finished \cup 1..t
             /\ UNCHANGED <<submitted, reported>>

(* The caller learns that ticket t is complete (aji_done said 1, aji_wait  *)
(* said AJI_OK), and infers from the order that the earlier ones are.      *)
Report(t) == /\ 1..t \subseteq finished
             /\ reported' = reported \cup 1..t
             /\ UNCHANGED <<submitted, finished>>

Next == \/ Submit
        \/ \E t \in 1..submitted : Finish(t) \/ Report(t)

Spec == Init /\ [][Next]_vars

(* Tickets complete in submission order.                                   *)
InOrder == \A t \in finished : 1..t \subseteq finished

(* A ticket the caller was told about is over.                             *)
ReportsAreTrue == reported \subseteq finished
=============================================================================
