-------------------------- MODULE TrtTickets_proofs --------------------------
(***************************************************************************)
(* Proofs about the ticket ring of the TensorRT backend: the inductive     *)
(* invariant Inv of TrtTickets, what follows from it, and that the ring    *)
(* implements FrameTickets.  Ring, Depth and MaxOps are arbitrary.         *)
(***************************************************************************)
EXTENDS TrtTickets, TLAPS

-----------------------------------------------------------------------------
(* The slots of a ring: arithmetic modulo Ring. *)

(* Division with remainder, for tickets. *)
LEMMA Divides ==
    ASSUME NEW t \in Nat
    PROVE  /\ t = (Ring * (t \div Ring)) + Slot(t)
           /\ t \div Ring \in Nat
           /\ Slot(t) \in Slots
BY RingAssumption DEF Slot, Slots

(* A multiple of Ring is not strictly between 0 and Ring. *)
LEMMA NoMultipleInside ==
    ASSUME NEW d \in Int
    PROVE  ~(0 < Ring * d /\ Ring * d < Ring)
<1>1. CASE d >= 1
  <2>1. Ring * d >= Ring
    BY <1>1, RingAssumption
  <2> QED BY <2>1, RingAssumption
<1>2. CASE d <= 0
  <2>1. Ring * d <= 0
    BY <1>2, RingAssumption
  <2> QED BY <2>1, RingAssumption
<1> QED BY <1>1, <1>2

(* Different tickets less than Ring apart have different events: the event *)
(* aji_flush is about to record is nobody else's.                          *)
LEMMA SlotsApart ==
    ASSUME NEW s \in Nat, NEW t \in Nat, s < t, t - s < Ring
    PROVE  Slot(s) # Slot(t)
<1> SUFFICES ASSUME Slot(s) = Slot(t) PROVE FALSE
  OBVIOUS
<1>1. /\ t = (Ring * (t \div Ring)) + Slot(t)
      /\ t \div Ring \in Nat /\ Slot(t) \in 0..(Ring - 1)
  BY Divides DEF Slots
<1>2. /\ s = (Ring * (s \div Ring)) + Slot(s)
      /\ s \div Ring \in Nat /\ Slot(s) \in 0..(Ring - 1)
  BY Divides DEF Slots
<1>3. t - s = Ring * ((t \div Ring) - (s \div Ring))
  BY <1>1, <1>2, RingAssumption
<1>4. (t \div Ring) - (s \div Ring) \in Int
  BY <1>1, <1>2
<1> QED BY <1>3, <1>4, NoMultipleInside

(* A ticket and the one Ring before it share their event. *)
LEMMA SlotWraps ==
    ASSUME NEW t \in Nat, t >= Ring
    PROVE  Slot(t - Ring) = Slot(t)
<1> DEFINE p == t \div Ring
           q == (t - Ring) \div Ring
           d == p - q - 1
<1>1. /\ t = (Ring * p) + Slot(t) /\ p \in Nat
      /\ Slot(t) \in 0..(Ring - 1)
  BY Divides DEF Slots
<1>2. /\ t - Ring = (Ring * q) + Slot(t - Ring) /\ q \in Nat
      /\ Slot(t - Ring) \in 0..(Ring - 1)
  <2>1. t - Ring \in Nat
    BY RingAssumption
  <2> QED BY <2>1, Divides DEF Slots
<1>3. d \in Int /\ -d \in Int
  BY <1>1, <1>2
<1> HIDE DEF p, q
<1>4. Slot(t - Ring) - Slot(t) = Ring * d
  BY <1>1, <1>2, RingAssumption
<1>5. Slot(t) - Slot(t - Ring) = Ring * (-d)
  BY <1>4, <1>1, <1>2, <1>3, RingAssumption
<1> HIDE DEF d
<1>6. ~(0 < Ring * (-d) /\ Ring * (-d) < Ring)
  BY <1>3, NoMultipleInside
<1>7. ~(0 < Ring * d /\ Ring * d < Ring)
  BY <1>3, NoMultipleInside
<1>8. Slot(t) - Slot(t - Ring) < Ring /\ Slot(t - Ring) - Slot(t) < Ring
  BY <1>1, <1>2, RingAssumption
<1> QED BY <1>1, <1>2, <1>4, <1>5, <1>6, <1>7, <1>8, RingAssumption

-----------------------------------------------------------------------------
(* The invariant. *)

LEMMA InitInv == Init => Inv
<1> SUFFICES ASSUME Init PROVE Inv
  OBVIOUS
<1>1. TypeOK
  <2>1. /\ enqueued = 0 /\ ran = 0 /\ next = 1 /\ completed = 0
        /\ pending = 0 /\ collected = 0 /\ reported = {}
    BY DEF Init
  <2>2. marks \in Seq(Nat) /\ Len(marks) = 0
    BY DEF Init
  <2>3. ev \in [Slots -> 0..0]
    BY DEF Init
  <2> QED BY <2>1, <2>2, <2>3 DEF TypeOK
<1>2. CompleteMeansRan /\ RingTracksTickets /\ MarksInOrder
  BY RingAssumption
     DEF Init, CompleteMeansRan, RingTracksTickets, MarksInOrder
<1> QED BY <1>1, <1>2 DEF Inv

(* What the ring says of a ticket is true: if the ticket is below the      *)
(* watermark, or its event has fired, then the GPU has passed its mark.    *)
LEMMA AnswerIsTrue ==
    ASSUME Inv, NEW t \in 1..(next - 1), t <= completed \/ Fired(Slot(t))
    PROVE  \A u \in 1..t : marks[u] <= ran
<1>1. marks[t] <= ran
  <2>1. CASE t <= completed
    BY <2>1 DEF Inv, CompleteMeansRan
  <2>2. CASE ~(t <= completed) /\ Fired(Slot(t))
    <3>1. next - Ring <= t
      BY <2>2, RingAssumption DEF Inv, RingTracksTickets, TypeOK
    <3>2. ev[Slot(t)] = marks[t]
      BY <3>1 DEF Inv, RingTracksTickets
    <3> QED BY <3>2, <2>2 DEF Fired
  <2> QED BY <2>1, <2>2
<1>2. \A u \in 1..t : marks[u] <= marks[t]
  <2> TAKE u \in 1..t
  <2>1. u \in 1..(next - 1)
    BY DEF Inv, TypeOK
  <2>2. marks[u] \in Int /\ marks[t] \in Int
    BY <2>1 DEF Inv, TypeOK
  <2> QED BY <2>1, <2>2 DEF Inv, MarksInOrder
<1>3. \A u \in 1..t : marks[u] \in Int /\ marks[t] \in Int /\ ran \in Int
  BY DEF Inv, TypeOK
<1> QED BY <1>1, <1>2, <1>3

(* When a reused event has fired, raising the watermark to the ticket it   *)
(* tracked keeps the watermark true.                                       *)
LEMMA RetireIsTrue ==
    ASSUME Inv, Reuses => Fired(Slot(next)), Retire
    PROVE  /\ completed' \in completed..(next - 1)
           /\ next - Ring <= completed'
           /\ \A t \in 1..completed' : marks[t] <= ran
<1>1. CASE ~Reuses
  BY <1>1, RingAssumption
     DEF Reuses, Retire, Inv, TypeOK, CompleteMeansRan
<1>2. CASE Reuses
  <2> DEFINE old == next - Ring
  <2>1. old \in 1..(next - 1)
    BY <1>2, RingAssumption DEF Reuses, Inv, TypeOK
  <2>2. Slot(old) = Slot(next)
    BY <1>2, SlotWraps, RingAssumption DEF Reuses, Inv, TypeOK
  <2>3. \A t \in 1..old : marks[t] <= ran
    BY <1>2, <2>1, <2>2, AnswerIsTrue
  <2>4. completed' = Later(completed, old)
    BY <1>2 DEF Retire
  <2> HIDE DEF old
  <2>5. completed' \in completed..(next - 1) /\ old <= completed'
    BY <2>1, <2>4 DEF Later, Inv, TypeOK
  <2>6. \A t \in 1..completed' : marks[t] <= ran
    BY <2>1, <2>3, <2>4 DEF Later, Inv, TypeOK, CompleteMeansRan
  <2> QED BY <2>5, <2>6 DEF old
<1> QED BY <1>1, <1>2

(* What is needed to see that a step which leaves the ring and the stream  *)
(* alone, or lets the GPU advance, keeps the invariant: the marks and the  *)
(* events are as before, and the watermark is still true.                  *)
LEMMA RingUntouched ==
    ASSUME Inv, TypeOK',
           UNCHANGED <<ev, next, marks>>,
           completed <= completed',
           \A t \in 1..completed' : marks[t] <= ran'
    PROVE  Inv'
<1>1. CompleteMeansRan'
  BY DEF CompleteMeansRan, Inv, TypeOK
<1>2. RingTracksTickets'
  BY RingAssumption DEF RingTracksTickets, Inv, TypeOK
<1>3. MarksInOrder'
  BY DEF MarksInOrder, Inv
<1> QED BY <1>1, <1>2, <1>3 DEF Inv

LEMMA GpuStepInv == Inv /\ GpuStep => Inv'
<1> SUFFICES ASSUME Inv, GpuStep PROVE Inv'
  OBVIOUS
<1>1. TypeOK'
  BY DEF Inv, TypeOK, GpuStep, tickVars, callerVars
<1>2. \A t \in 1..completed' : marks[t] <= ran'
  BY DEF Inv, TypeOK, CompleteMeansRan, GpuStep, tickVars, callerVars
<1> QED BY <1>1, <1>2, RingUntouched
        DEF GpuStep, tickVars, callerVars, Inv, TypeOK

LEMMA InferInv == Inv /\ Infer => Inv'
<1> SUFFICES ASSUME Inv, Infer PROVE Inv'
  OBVIOUS
<1>1. TypeOK'
  BY DEF Inv, TypeOK, Infer, tickVars, callerVars
<1>2. \A t \in 1..completed' : marks[t] <= ran'
  BY DEF Inv, TypeOK, CompleteMeansRan, Infer, tickVars, callerVars
<1> QED BY <1>1, <1>2, RingUntouched
        DEF Infer, tickVars, callerVars, Inv, TypeOK

LEMMA AnswersInv ==
    ASSUME Inv, NEW t \in 1..(next - 1), Answers(t),
           collected' \in {collected, Later(collected, t)}
    PROVE  Inv'
<1>1. \A u \in 1..t : marks[u] <= ran
  BY AnswerIsTrue DEF Answers
<1>2. \A u \in 1..completed' : marks[u] <= ran'
  BY <1>1 DEF Answers, Later, Inv, TypeOK, CompleteMeansRan
<1>3. TypeOK'
  BY DEF Answers, Later, Inv, TypeOK
<1> QED BY <1>2, <1>3, RingUntouched DEF Answers, Later, Inv, TypeOK

LEMMA FlushRefusedInv == Inv /\ FlushRefused => Inv'
<1> SUFFICES ASSUME Inv, FlushRefused PROVE Inv'
  OBVIOUS
<1>1. TypeOK'
  BY DEF Inv, TypeOK, FlushRefused, AnswerZero
<1>2. \A t \in 1..completed' : marks[t] <= ran'
  BY DEF Inv, TypeOK, CompleteMeansRan, FlushRefused, AnswerZero
<1> QED BY <1>1, <1>2, RingUntouched
        DEF FlushRefused, AnswerZero, Inv, TypeOK

LEMMA FlushUnrecordedInv == Inv /\ FlushUnrecorded => Inv'
<1> SUFFICES ASSUME Inv, FlushUnrecorded PROVE Inv'
  OBVIOUS
<1>1. /\ completed' \in completed..(next - 1)
      /\ \A t \in 1..completed' : marks[t] <= ran
  BY RetireIsTrue DEF FlushUnrecorded
<1>2. TypeOK'
  BY <1>1 DEF Inv, TypeOK, FlushUnrecorded, AnswerZero
<1> QED BY <1>1, <1>2, RingUntouched
        DEF FlushUnrecorded, AnswerZero, Inv, TypeOK

(* Recording the event of the next ticket disturbs no other ticket that is *)
(* still above the watermark.                                              *)
LEMMA FlushInv == Inv /\ Flush => Inv'
<1> SUFFICES ASSUME Inv, Flush PROVE Inv'
  OBVIOUS
<1>1. /\ completed' \in completed..(next - 1)
      /\ next - Ring <= completed'
      /\ \A t \in 1..completed' : marks[t] <= ran
  BY RetireIsTrue DEF Flush
<1>2. /\ enqueued \in Nat /\ next \in Nat \ {0}
      /\ marks \in Seq(Nat) /\ Len(marks) = next - 1
      /\ enqueued' = enqueued + 1 /\ next' = next + 1
      /\ marks' = Append(marks, enqueued + 1)
  BY DEF Inv, TypeOK, Flush, Record
<1>3. /\ marks' \in Seq(Nat) /\ Len(marks') = next
      /\ \A t \in 1..(next - 1) : marks'[t] = marks[t]
      /\ marks'[next] = enqueued + 1
  BY <1>2
<1>4. Slot(next) \in Slots
  BY <1>2, Divides
<1>5. TypeOK'
  <2>1. ev' \in [Slots -> 0..(enqueued + 1)]
    BY <1>2, <1>4 DEF Inv, TypeOK, Flush, Record
  <2>2. \A t \in 1..next : marks'[t] \in 1..(enqueued + 1)
    BY <1>2, <1>3 DEF Inv, TypeOK
  <2> QED BY <1>1, <1>2, <1>3, <2>1, <2>2 DEF Inv, TypeOK, Flush, Record
<1>6. CompleteMeansRan'
  BY <1>1, <1>2, <1>3 DEF CompleteMeansRan, Flush, Record, Inv, TypeOK
<1>7. RingTracksTickets'
  <2>1. next' - 1 - Ring <= completed'
    BY <1>1, <1>2, RingAssumption
  <2>2. ASSUME NEW t \in 1..next, next + 1 - Ring <= t
        PROVE  ev'[Slot(t)] = marks'[t]
    <3>1. CASE t = next
      BY <3>1, <1>3, <1>4 DEF Flush, Record, Inv, TypeOK
    <3>2. CASE t < next
      <4>0. t \in Nat /\ next \in Nat /\ next - t < Ring
        BY <2>2, <1>2, RingAssumption
      <4>1. Slot(t) # Slot(next) /\ Slot(t) \in Slots
        BY <4>0, <3>2, SlotsApart, Divides
      <4>2. ev'[Slot(t)] = ev[Slot(t)]
        BY <4>1 DEF Flush, Record, Inv, TypeOK
      <4>3. ev[Slot(t)] = marks[t]
        BY <3>2, <2>2, <1>2, RingAssumption DEF Inv, RingTracksTickets
      <4> QED BY <4>2, <4>3, <3>2, <1>2, <1>3
    <3> QED BY <3>1, <3>2, <1>2
  <2> QED BY <2>1, <2>2, <1>2, RingAssumption DEF RingTracksTickets
<1>8. MarksInOrder'
  BY <1>2, <1>3 DEF MarksInOrder, Inv, TypeOK
<1> QED BY <1>5, <1>6, <1>7, <1>8 DEF Inv

LEMMA StepInv == Inv /\ [Next]_vars => Inv'
<1> SUFFICES ASSUME Inv, [Next]_vars PROVE Inv'
  OBVIOUS
<1>1. CASE GpuStep
  BY <1>1, GpuStepInv
<1>2. CASE Infer
  BY <1>2, InferInv
<1>3. CASE Flush
  BY <1>3, FlushInv
<1>4. CASE FlushRefused
  BY <1>4, FlushRefusedInv
<1>5. CASE FlushUnrecorded
  BY <1>5, FlushUnrecordedInv
<1>6. ASSUME NEW t \in 1..(next - 1), Done(t) \/ Wait(t) PROVE Inv'
  BY <1>6, AnswersInv DEF Done, Wait
<1>7. CASE UNCHANGED vars
  <2>1. TypeOK'
    BY <1>7 DEF Inv, TypeOK, vars, tickVars, callerVars
  <2>2. completed <= completed'
    BY <1>7 DEF Inv, TypeOK, vars, tickVars, callerVars
  <2>3. \A t \in 1..completed' : marks[t] <= ran'
    BY <1>7 DEF Inv, TypeOK, CompleteMeansRan, vars, tickVars, callerVars
  <2> QED BY <1>7, <2>1, <2>2, <2>3, RingUntouched
          DEF vars, tickVars, callerVars
<1> QED BY <1>1, <1>2, <1>3, <1>4, <1>5, <1>6, <1>7 DEF Next

(* The ring of events is a faithful record of the stream, for any size of  *)
(* the ring and any depth of the caller's pipeline.                        *)
THEOREM Invariance == Spec => []Inv
BY InitInv, StepInv, PTL DEF Spec

(* The variables keep their types (tick_next, tick_completed, the events). *)
THEOREM TypeCorrect == Spec => []TypeOK
<1>1. Inv => TypeOK
  BY DEF Inv
<1> QED BY <1>1, Invariance, PTL

(* A ticket aji_done or aji_wait calls complete is complete, with all the  *)
(* work put on the stream before it.                                       *)
THEOREM WatermarkIsTrue == Spec => []CompleteMeansRan
<1>1. Inv => CompleteMeansRan
  BY DEF Inv
<1> QED BY <1>1, Invariance, PTL

(* No pending ticket loses its event to a later one.                       *)
THEOREM NoTicketLost == Spec => []RingTracksTickets
<1>1. Inv => RingTracksTickets
  BY DEF Inv
<1> QED BY <1>1, Invariance, PTL

(* aji_flush waits for no event while the caller has fewer tickets out     *)
(* than the ring has events.                                               *)
THEOREM ShallowFlushDoesNotBlock == Spec => []FlushDoesNotBlock
<1>1. Inv => FlushDoesNotBlock
  <2> SUFFICES ASSUME Inv, Reuses, (next - 1) - collected < Ring
               PROVE  Fired(Slot(next))
    BY DEF FlushDoesNotBlock
  <2> DEFINE old == next - Ring
  <2>1. old \in 1..(next - 1) /\ old <= completed
    BY RingAssumption DEF Reuses, Inv, TypeOK
  <2>2. Slot(old) = Slot(next)
    BY SlotWraps, RingAssumption DEF Reuses, Inv, TypeOK
  <2>3. ev[Slot(next)] = marks[old]
    BY <2>1, <2>2 DEF Inv, RingTracksTickets
  <2> HIDE DEF old
  <2>4. marks[old] # 0 /\ marks[old] <= ran
    BY <2>1 DEF Inv, TypeOK, CompleteMeansRan
  <2> QED BY <2>3, <2>4 DEF Fired
<1> QED BY <1>1, Invariance, PTL

-----------------------------------------------------------------------------
(* The event ring implements the tickets of aji.h. *)

(* A mark the GPU has passed stays passed, and when it passes one mark, it *)
(* has passed all the earlier ones.                                        *)
LEMMA RetiredIsPrefix ==
    ASSUME Inv, NEW t \in Retired
    PROVE  1..t \subseteq Retired
<1> SUFFICES ASSUME NEW u \in 1..t PROVE u \in Retired
  OBVIOUS
<1>1. t \in 1..(next - 1) /\ marks[t] <= ran
  BY DEF Retired
<1>2. u \in 1..(next - 1)
  BY <1>1 DEF Inv, TypeOK
<1>3. u = t \/ marks[u] < marks[t]
  BY <1>1, <1>2 DEF Inv, MarksInOrder
<1>4. marks[u] \in Nat /\ marks[t] \in Nat /\ ran \in Nat
  BY <1>1, <1>2 DEF Inv, TypeOK
<1> QED BY <1>1, <1>2, <1>3, <1>4 DEF Retired

(* A step of the GPU retires at most the one ticket whose mark it runs.    *)
LEMMA GpuStepImplements ==
    ASSUME Inv, GpuStep
    PROVE  [Tickets!Next]_(Tickets!vars)
<1>1. UNCHANGED <<next, marks, reported>> /\ ran' = ran + 1
  BY DEF GpuStep, tickVars, callerVars
<1>2. CASE \A t \in 1..(next - 1) : marks[t] # ran + 1
  <2>1. Retired' = Retired
    BY <1>1, <1>2 DEF Retired, Inv, TypeOK
  <2> QED BY <2>1, <1>1 DEF Tickets!vars
<1>3. ASSUME NEW t \in 1..(next - 1), marks[t] = ran + 1
      PROVE  Tickets!Next
  <2>1. \A u \in 1..(next - 1) : u # t => marks[u] # ran + 1
    BY <1>3 DEF Inv, TypeOK, MarksInOrder
  <2>2. Retired' = Retired \cup {t}
    BY SMTT(30), <1>1, <1>3, <2>1 DEF Retired, Inv, TypeOK
  <2>3. t \notin Retired
    BY <1>3 DEF Retired, Inv, TypeOK
  <2>4. 1..(t - 1) \subseteq Retired
    <3> SUFFICES ASSUME NEW u \in 1..(t - 1) PROVE u \in Retired
      OBVIOUS
    <3>1. u \in 1..(next - 1) /\ u < t
      BY DEF Inv, TypeOK
    <3>2. marks[u] < marks[t]
      BY <3>1 DEF Inv, MarksInOrder
    <3> QED BY <3>1, <3>2, <1>3 DEF Retired, Inv, TypeOK
  <2>5. Retired' = Retired \cup 1..t
    <3>1. 1..t = (1..(t - 1)) \cup {t}
      BY DEF Inv, TypeOK
    <3> QED BY <2>2, <2>4, <3>1
  <2>6. Tickets!Finish(t)
    BY <2>3, <2>5, <1>1 DEF Tickets!Finish
  <2> QED BY <2>6 DEF Tickets!Next
<1> QED BY <1>2, <1>3

(* Taking a ticket submits it; it is not retired yet.                      *)
LEMMA FlushImplements ==
    ASSUME Inv, Flush
    PROVE  Tickets!Next
<1>1. /\ next \in Nat \ {0} /\ next' = next + 1
      /\ marks \in Seq(Nat) /\ Len(marks) = next - 1
      /\ marks' = Append(marks, enqueued + 1)
      /\ UNCHANGED <<ran, reported>>
      /\ ran \in 0..enqueued /\ enqueued \in Nat
  BY DEF Inv, TypeOK, Flush, Record
<1>2. /\ \A t \in 1..(next - 1) : marks'[t] = marks[t]
      /\ marks'[next] = enqueued + 1
  BY <1>1
<1>3. Retired' = Retired
  BY <1>1, <1>2 DEF Retired
<1>4. Tickets!Submit
  BY <1>1, <1>3 DEF Tickets!Submit
<1> QED BY <1>4 DEF Tickets!Next

(* What the caller is told about a ticket is true of the retired ones.     *)
LEMMA AnswersImplements ==
    ASSUME Inv, NEW t \in 1..(next - 1), Answers(t)
    PROVE  Tickets!Next
<1>1. marks[t] <= ran
  <2>1. \A u \in 1..t : marks[u] <= ran
    BY AnswerIsTrue DEF Answers
  <2> QED BY <2>1
<1>2. t \in Retired
  BY <1>1 DEF Retired
<1>3. Retired' = Retired
  BY DEF Answers, Retired
<1>4. Tickets!Report(t)
  BY <1>2, <1>3, RetiredIsPrefix DEF Tickets!Report, Answers
<1> QED BY <1>4 DEF Tickets!Next

LEMMA StepImplements ==
    ASSUME Inv, [Next]_vars
    PROVE  [Tickets!Next]_(Tickets!vars)
<1>1. CASE UNCHANGED <<next, marks, ran, reported>>
  BY <1>1 DEF Tickets!vars, Retired
<1>2. CASE GpuStep
  BY <1>2, GpuStepImplements
<1>3. CASE Infer
  BY <1>3, <1>1 DEF Infer, tickVars
<1>4. CASE Flush
  BY <1>4, FlushImplements
<1>5. CASE FlushRefused \/ FlushUnrecorded
  BY <1>5, <1>1 DEF FlushRefused, FlushUnrecorded, AnswerZero
<1>6. ASSUME NEW t \in 1..(next - 1), Done(t) \/ Wait(t)
      PROVE  Tickets!Next
  BY <1>6, AnswersImplements DEF Done, Wait
<1>7. CASE UNCHANGED vars
  BY <1>7, <1>1 DEF vars, tickVars, callerVars
<1> QED BY <1>2, <1>3, <1>4, <1>5, <1>6, <1>7 DEF Next

LEMMA InitImplements == Init => Tickets!Init
BY DEF Init, Tickets!Init, Retired

(* Seen through its tickets, the ring of events behaves as aji.h says any  *)
(* backend does: tickets complete in submission order, and none is called  *)
(* complete before it is.                                                  *)
THEOREM Implements == Spec => ImplementsTickets
<1>1. Inv /\ [Next]_vars => [Tickets!Next]_(Tickets!vars)
  BY StepImplements
<1> QED
  BY <1>1, Invariance, InitImplements, PTL
     DEF Spec, ImplementsTickets, Tickets!Spec
=============================================================================
