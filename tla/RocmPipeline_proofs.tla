------------------------- MODULE RocmPipeline_proofs -------------------------
(***************************************************************************)
(* Proofs about the slot ring of the ROCm backend, for any number of slots *)
(* and frames and any depth up to the ring's.                              *)
(***************************************************************************)
EXTENDS RocmPipeline, FiniteSetTheorems, WellFoundedInduction, TLAPS

(* Completion out of order.  Frames may end in any order; a ticket counts  *)
(* as over when its frame and all the earlier ones are.                    *)

(* The tickets of ended that no open ticket is before. *)
Prefix(ended) == {t \in ended : 1..t \subseteq ended}

(* They are the tickets up to some last one. *)
LEMMA LongestPrefix ==
    ASSUME NEW n \in Nat, NEW S \in SUBSET (1..n)
    PROVE  \E k \in 0..n : Prefix(S) = 1..k
<1> DEFINE open == {t \in Nat \ {0} : t \notin S}
<1>1. PICK m \in open : \A t \in open : m <= t
  <2>1. n + 1 \in open
    OBVIOUS
  <2>2. open \subseteq Nat
    OBVIOUS
  <2> HIDE DEF open
  <2>3. PICK m \in open : \A t \in open : ~(<<t, m>> \in OpToRel(<, Nat))
    BY <2>1, <2>2, NatLessThanWellFounded, WFMin
  <2>4. \A t \in open : ~(t < m)
    BY <2>2, <2>3 DEF OpToRel
  <2> QED BY <2>2, <2>4
<1>2. m \in Nat \ {0} /\ m \notin S
  OBVIOUS
<1>3. \A t \in 1..(m - 1) : t \in S
  BY <1>1
<1>4. m - 1 \in 0..n
  <2>1. n + 1 \in open
    OBVIOUS
  <2> QED BY <1>1, <1>2, <2>1
<1>5. Prefix(S) = 1..(m - 1)
  <2> HIDE DEF open
  <2>1. ASSUME NEW t \in Prefix(S) PROVE t \in 1..(m - 1)
    <3>1. t \in Nat \ {0} /\ 1..t \subseteq S
      BY <2>1 DEF Prefix
    <3> QED BY <1>2, <3>1
  <2>2. ASSUME NEW t \in 1..(m - 1) PROVE t \in Prefix(S)
    <3>1. t \in S /\ 1..t \subseteq S
      BY <1>2, <1>3
    <3> QED BY <3>1 DEF Prefix
  <2> QED BY <2>1, <2>2
<1> QED BY <1>4, <1>5

(* From before to after, one more of n tickets is over, and with it all    *)
(* the earlier ones; or none is.                                           *)
Advances(n, before, after) ==
    \/ after = before
    \/ \E k \in 1..n : k \notin before /\ after = before \cup 1..k

(* When more frames end, the tickets that are over take a Finish step or   *)
(* none.                                                                   *)
LEMMA PrefixGrows ==
    ASSUME NEW n \in Nat, NEW S \in SUBSET (1..n), NEW T \in SUBSET (1..n),
           S \subseteq T
    PROVE  Advances(n, Prefix(S), Prefix(T))
<1>1. PICK k \in 0..n : Prefix(T) = 1..k
  BY LongestPrefix
<1>2. Prefix(S) \subseteq Prefix(T)
  BY DEF Prefix
<1>3. CASE k \in Prefix(S) \/ k = 0
  <2>1. 1..k \subseteq Prefix(S)
    BY <1>3 DEF Prefix
  <2> QED BY <1>1, <1>2, <2>1 DEF Advances
<1>4. CASE k \notin Prefix(S) /\ k # 0
  BY <1>1, <1>2, <1>4 DEF Advances
<1> QED BY <1>3, <1>4

(* A queue that names no slot twice is no longer than the ring.            *)
LEMMA QueueFits ==
    ASSUME NEW n \in Nat, NEW q \in Seq(0..(n - 1)),
           \A i, j \in 1..Len(q) : q[i] = q[j] => i = j
    PROVE  Len(q) <= n
<1> DEFINE S == 0..(n - 1)
<1>1. IsFiniteSet(S) /\ Cardinality(S) = n
  BY FS_Interval
<1>2. q \in [1..Len(q) -> S] /\ Len(q) \in Nat
  OBVIOUS
<1>3. IsFiniteSet(1..Len(q)) /\ Cardinality(1..Len(q)) = Len(q)
  <2> SUFFICES \A k \in Nat : IsFiniteSet(1..k) /\ Cardinality(1..k) = k
    BY <1>2
  <2> TAKE k \in Nat
  <2>1. 1 \in Int /\ k \in Int
    OBVIOUS
  <2>2. /\ IsFiniteSet(1..k)
        /\ Cardinality(1..k) = IF 1 > k THEN 0 ELSE k - 1 + 1
    BY ONLY <2>1, FS_Interval
  <2> QED BY <2>2
<1> SUFFICES ASSUME n < Len(q) PROVE FALSE
  BY <1>2
<1> DEFINE D == 1..Len(q)
<1>4. /\ IsFiniteSet(D) /\ IsFiniteSet(S) /\ q \in [D -> S]
      /\ Cardinality(S) < Cardinality(D)
  BY <1>1, <1>2, <1>3
<1> HIDE DEF D, S
<1>5. \E i, j \in D : i # j /\ q[i] = q[j]
  BY ONLY <1>4, FS_PigeonHole
<1> QED BY <1>5 DEF D

-----------------------------------------------------------------------------
(* What the parts of the invariant are about. *)

(* Steps that leave alone what a part of the invariant is about keep it. *)
LEMMA Framed ==
    /\ ThreadSound /\ UNCHANGED <<started, stop, pc, queue, call, last>>
       => ThreadSound'
    /\ WorkerSound /\ written \subseteq written'
       /\ UNCHANGED <<pc, slot, src, result, state, frame, rgbOut, queue,
                      call, mine>>
       => WorkerSound'
    /\ OrderSound /\ Busy' = Busy
       /\ UNCHANGED <<queue, state, ticket, call, mine, slot>>
       => OrderSound'
    /\ RingSound /\ Busy' = Busy /\ written \subseteq written'
       /\ UNCHANGED <<state, ticket, frame, rgbOut, outcome, queue, slot,
                      call, mine, last, inflight, over>>
       => RingSound'
    /\ CallSound /\ written \subseteq written'
       /\ UNCHANGED <<call, mine, target, verdict, state, ticket, last,
                      inflight>>
       => CallSound'
    /\ TicketsSound /\ UNCHANGED <<last, over, state, ticket, inflight>>
       => TicketsSound'
    /\ OwnPlanes /\ UNCHANGED written => OwnPlanes'
    /\ CollectedMeansWritten /\ UNCHANGED collected
       /\ written \subseteq written'
       => CollectedMeansWritten'
<1>1. ThreadSound /\ UNCHANGED <<started, stop, pc, queue, call, last>>
      => ThreadSound'
  BY DEF ThreadSound
<1>2. WorkerSound /\ written \subseteq written'
       /\ UNCHANGED <<pc, slot, src, result, state, frame, rgbOut, queue,
                      call, mine>>
       => WorkerSound'
  BY DEF WorkerSound, Busy, Claimed
<1>3. OrderSound /\ Busy' = Busy
       /\ UNCHANGED <<queue, state, ticket, call, mine, slot>>
       => OrderSound'
  BY DEF OrderSound, Claimed
<1>4. RingSound /\ Busy' = Busy /\ written \subseteq written'
       /\ UNCHANGED <<state, ticket, frame, rgbOut, outcome, queue, slot,
                      call, mine, last, inflight, over>>
       => RingSound'
  BY DEF RingSound, Claimed
<1>5. CallSound /\ written \subseteq written'
       /\ UNCHANGED <<call, mine, target, verdict, state, ticket, last,
                      inflight>>
       => CallSound'
  BY DEF CallSound
<1>6. TicketsSound /\ UNCHANGED <<last, over, state, ticket, inflight>>
       => TicketsSound'
  BY DEF TicketsSound
<1>7. OwnPlanes /\ UNCHANGED written => OwnPlanes'
  BY DEF OwnPlanes
<1>8. CollectedMeansWritten /\ UNCHANGED collected
       /\ written \subseteq written'
       => CollectedMeansWritten'
  BY DEF CollectedMeansWritten
<1> QED BY <1>1, <1>2, <1>3, <1>4, <1>5, <1>6, <1>7, <1>8

(* NoSlot is none of them. *)
LEMMA OthersAreNoSlot == NoSlot \notin Slots
BY DEF NoSlot, Slots

-----------------------------------------------------------------------------
(* The worker. *)

LEMMA WorkerTakeInv ==
    ASSUME IInv, WorkerTake
    PROVE  IInv'
<1> DEFINE i == queue[1]
           rest == Tail(queue)
<1>1. /\ queue \in Seq(Slots) /\ Len(queue) \in 1..KRing
      /\ DOMAIN queue = 1..Len(queue)
      /\ i = Head(queue) /\ i \in Slots
      /\ rest \in Seq(Slots) /\ Len(rest) = Len(queue) - 1
      /\ DOMAIN rest = 1..(Len(queue) - 1)
      /\ \A n \in 1..(Len(queue) - 1) : rest[n] = queue[n + 1]
  BY SMTT(30), RingAssumption DEF IInv, TypeOK, WorkerTake, Takes
<1>2. /\ pc = "idle" /\ pc' = "read" /\ slot' = i /\ queue' = rest
      /\ UNCHANGED <<planVars, threadVars, slotVars, last, src, result,
                     callVars, inflight, history>>
  BY <1>1 DEF WorkerTake, Takes
<1>3. ticket \in [Slots -> 0..last] /\ last \in 0..MaxFrames
  BY DEF IInv, TypeOK
<1>4. /\ state[i] = "SUBMITTED" /\ ~Claimed(i)
      /\ \A j \in Slots : state[j] = "DONE" => ticket[j] < ticket[i]
  BY <1>1 DEF IInv, OrderSound
<1>5. \A n \in 1..(Len(queue) - 1) :
          /\ rest[n] \in Slots /\ ticket[i] < ticket[rest[n]]
          /\ rest[n] # i
          /\ \A m \in 1..(n - 1) : ticket[rest[m]] < ticket[rest[n]]
  <2> SUFFICES ASSUME NEW n \in 1..(Len(queue) - 1)
               PROVE  /\ rest[n] \in Slots /\ ticket[i] < ticket[rest[n]]
                      /\ \A m \in 1..(n - 1) :
                             ticket[rest[m]] < ticket[rest[n]]
    BY <1>1, <1>3
  <2>1. /\ n + 1 \in 1..Len(queue)
        /\ \A m \in 1..n : m \in Nat /\ ticket[queue[m]] < ticket[queue[n + 1]]
    BY <1>1 DEF IInv, OrderSound
  <2> QED BY <1>1, <2>1
<1>6. /\ \A n \in 1..(Len(queue) - 1) :
            /\ state[rest[n]] = "SUBMITTED" /\ ~Claimed(rest[n])
            /\ \A j \in Slots : state[j] = "DONE" =>
                   ticket[j] < ticket[rest[n]]
  <2> SUFFICES ASSUME NEW n \in 1..(Len(queue) - 1)
               PROVE  /\ state[rest[n]] = "SUBMITTED" /\ ~Claimed(rest[n])
                      /\ \A j \in Slots : state[j] = "DONE" =>
                             ticket[j] < ticket[rest[n]]
    OBVIOUS
  <2>1. n + 1 \in DOMAIN queue /\ rest[n] = queue[n + 1]
    BY <1>1
  <2> QED BY <2>1 DEF IInv, OrderSound
<1>7. ASSUME NEW j \in Slots, j # i, \E n \in DOMAIN queue : queue[n] = j
      PROVE  \E n \in DOMAIN rest : rest[n] = j
  <2>1. PICK n \in 1..Len(queue) : queue[n] = j
    BY <1>1, <1>7
  <2>2. n # 1
    BY <1>7, <2>1
  <2>3. n - 1 \in 1..(Len(queue) - 1) /\ (n - 1) + 1 = n
    BY <1>1, <2>2
  <2> QED BY <1>1, <2>1, <2>3
<1> HIDE DEF i, rest
<1>8. TypeOK'
  <2>1. queue' \in Seq(Slots) /\ Len(queue') <= KRing
    BY <1>1, <1>2, RingAssumption
  <2>2. /\ slot' \in Slots \cup {NoSlot}
        /\ pc' \in {"off", "idle", "read", "run", "finish"}
    BY <1>1, <1>2
  <2>3. UNCHANGED <<active, eligible, started, stop, state, ticket, frame,
                    rgbOut, outcome, last, src, result, call, mine, target,
                    verdict, inflight, reported, collected, over>>
    BY <1>2 DEF planVars, threadVars, slotVars, callVars, history
  <2> QED BY SMTT(30), <2>1, <2>2, <2>3 DEF IInv, TypeOK
<1>9. ThreadSound'
  BY <1>1, <1>2 DEF IInv, ThreadSound, threadVars, callVars
<1>10. \A j \in Slots : Claimed(j)' = Claimed(j)
  BY <1>2 DEF Claimed, callVars
<1>11. Busy' /\ ~Busy
  BY <1>2 DEF Busy
<1>12. WorkerSound'
  BY <1>1, <1>2, <1>4, <1>5, <1>10, <1>11 DEF WorkerSound, slotVars
<1>13. OrderSound'
  BY <1>1, <1>2, <1>4, <1>5, <1>6, <1>10 DEF OrderSound, slotVars
<1>14. RingSound'
  BY <1>2, <1>7, <1>10, <1>11
     DEF IInv, RingSound, slotVars, callVars, history
<1> QED BY <1>2, <1>8, <1>9, <1>12, <1>13, <1>14, Framed
        DEF IInv, slotVars, callVars, history

LEMMA WorkerReadInv ==
    ASSUME IInv, WorkerRead
    PROVE  IInv'
<1>1. /\ pc = "read" /\ pc' = "run" /\ src' = frame[slot]
      /\ UNCHANGED <<planVars, threadVars, slotVars, queue, last, slot,
                     result, callVars, inflight, history>>
  BY DEF WorkerRead
<1>2. Busy' = Busy /\ Busy
  BY <1>1 DEF Busy
<1>3. slot \in Slots
  BY <1>2 DEF IInv, WorkerSound
<1>4. TypeOK'
  BY SMTT(30), <1>1, <1>3
     DEF IInv, TypeOK, planVars, threadVars, slotVars, callVars,
                    history
<1>5. ThreadSound'
  BY <1>1 DEF IInv, ThreadSound, threadVars, callVars
<1>6. WorkerSound'
  BY <1>1, <1>2 DEF IInv, WorkerSound, Claimed, slotVars, callVars
<1> QED BY <1>1, <1>2, <1>4, <1>5, <1>6, Framed
        DEF IInv, slotVars, callVars, history

LEMMA WorkerRunInv ==
    ASSUME IInv, WorkerRun
    PROVE  IInv'
<1>1. /\ pc = "run" /\ pc' = "finish"
      /\ UNCHANGED <<planVars, threadVars, state, ticket, frame, outcome,
                     queue, last, slot, src, callVars, inflight, reported,
                     collected, over>>
  BY DEF WorkerRun
<1>2. Busy' = Busy /\ Busy
  BY <1>1 DEF Busy
<1>3. /\ slot \in Slots /\ src = frame[slot] /\ state[slot] = "SUBMITTED"
      /\ rgbOut \in [Slots -> 0..last] /\ src \in 0..last
  BY <1>1, <1>2 DEF IInv, TypeOK, WorkerSound
<1>4. /\ result' \in {"colored", "chained", "failed"}
      /\ result' = "colored" => <<src, src>> \in written'
      /\ result' = "chained" => rgbOut'[slot] = src
      /\ written \subseteq written'
      /\ \A p \in written' : p \in written \/ p = <<src, src>>
      /\ rgbOut' \in [Slots -> 0..last]
      /\ \A j \in Slots : j # slot => rgbOut'[j] = rgbOut[j]
  BY <1>1, <1>3 DEF WorkerRun
<1>5. TypeOK'
  BY SMTT(30), <1>1, <1>4 DEF IInv, TypeOK, planVars, threadVars, callVars
<1>6. ThreadSound'
  BY <1>1 DEF IInv, ThreadSound, threadVars, callVars
<1>7. WorkerSound'
  BY <1>1, <1>2, <1>4 DEF IInv, WorkerSound, Claimed, callVars
<1>8. RingSound'
  <2>1. \A j \in Slots : Claimed(j)' = Claimed(j)
    BY <1>1 DEF Claimed, callVars
  <2>2. \A j \in Slots : state[j] = "DONE" => rgbOut'[j] = rgbOut[j]
    BY <1>3, <1>4
  <2> QED BY <1>1, <1>2, <1>4, <2>1, <2>2 DEF IInv, RingSound, callVars
<1>9. OwnPlanes'
  BY <1>4 DEF IInv, OwnPlanes
<1> QED BY <1>1, <1>2, <1>4, <1>5, <1>6, <1>7, <1>8, <1>9, Framed
        DEF IInv, callVars

LEMMA WorkerFinishInv ==
    ASSUME IInv, WorkerFinish
    PROVE  IInv'
<1> DEFINE i == slot
<1>1. /\ pc = "finish" /\ pc' = "idle"
      /\ state' = [state EXCEPT ![i] = "DONE"]
      /\ outcome' = [outcome EXCEPT ![i] = result]
      /\ over' = over \cup {src}
      /\ slot' = NoSlot /\ src' = NoFrame /\ result' = "none"
      /\ UNCHANGED <<planVars, threadVars, ticket, frame, rgbOut, queue, last,
                     callVars, inflight, reported, collected, written>>
  BY DEF WorkerFinish, Finishes
<1>2. Busy /\ ~Busy'
  BY <1>1 DEF Busy
<1>3. /\ i \in Slots /\ src = frame[i] /\ state[i] = "SUBMITTED"
      /\ ~Claimed(i) /\ \A n \in DOMAIN queue : queue[n] # i
      /\ result # "none"
      /\ result = "colored" => <<src, src>> \in written
      /\ result = "chained" => rgbOut[i] = src
  BY <1>1, <1>2 DEF IInv, WorkerSound
<1>4. src = ticket[i] /\ ticket[i] \in 1..last
  <2>1. ticket[i] # 0 /\ frame[i] = ticket[i]
    BY <1>3 DEF IInv, RingSound, Claimed
  <2> QED BY <1>3, <2>1 DEF IInv, TypeOK
<1>5. /\ state \in [Slots -> {"FREE", "SUBMITTED", "DONE"}]
      /\ outcome \in [Slots -> {"none", "chained", "colored", "failed"}]
      /\ result \in {"none", "chained", "colored", "failed"}
      /\ over \subseteq 1..last /\ last \in 0..MaxFrames
  BY DEF IInv, TypeOK
<1> HIDE DEF i
<1>6. TypeOK'
  <2>1. /\ state' \in [Slots -> {"FREE", "SUBMITTED", "DONE"}]
        /\ outcome' \in [Slots -> {"none", "chained", "colored", "failed"}]
        /\ over' \subseteq 1..last
    BY <1>1, <1>3, <1>4, <1>5
  <2>2. src' \in 0..last
    BY <1>1, <1>5 DEF NoFrame
  <2> QED BY SMTT(30), <1>1, <2>1, <2>2
          DEF IInv, TypeOK, planVars, threadVars, callVars
<1>7. ThreadSound'
  BY <1>1 DEF IInv, ThreadSound, threadVars, callVars
<1>8. WorkerSound'
  BY <1>1, <1>2 DEF WorkerSound
<1>9. \A j \in Slots : Claimed(j)' = Claimed(j)
  BY <1>1 DEF Claimed, callVars
<1>10. OrderSound'
  <2>1. \A n \in DOMAIN queue : queue[n] \in Slots
    BY DEF IInv, TypeOK
  <2>2. \A n \in DOMAIN queue : ticket[i] < ticket[queue[n]]
    BY <1>2 DEF IInv, OrderSound, i
  <2> QED BY <1>1, <1>2, <1>3, <1>5, <1>9, <2>1, <2>2 DEF IInv, OrderSound
<1>11. RingSound'
  BY <1>1, <1>2, <1>3, <1>4, <1>5, <1>9 DEF IInv, RingSound, callVars, i
<1>12. CallSound'
  BY <1>1, <1>3, <1>5 DEF IInv, CallSound, Claimed, callVars
<1>13. TicketsSound'
  BY <1>1, <1>4, <1>5 DEF IInv, TicketsSound
<1> QED BY <1>1, <1>6, <1>7, <1>8, <1>10, <1>11, <1>12, <1>13, Framed
        DEF IInv

LEMMA WorkerExitInv ==
    ASSUME IInv, WorkerExit
    PROVE  IInv'
<1>1. /\ pc = "idle" /\ pc' = "off" /\ stop /\ queue = << >>
      /\ UNCHANGED <<planVars, threadVars, slotVars, queue, last, slot, src,
                     result, callVars, inflight, history>>
  BY DEF WorkerExit
<1>2. Busy' = Busy /\ ~Busy
  BY <1>1 DEF Busy
<1>3. TypeOK'
  BY SMTT(30), <1>1
     DEF IInv, TypeOK, planVars, threadVars, slotVars, callVars, history
<1>4. ThreadSound'
  BY <1>1 DEF IInv, ThreadSound, threadVars, callVars
<1>5. WorkerSound'
  BY <1>1, <1>2 DEF IInv, WorkerSound
<1> QED BY <1>1, <1>2, <1>3, <1>4, <1>5, Framed
        DEF IInv, slotVars, callVars, history

-----------------------------------------------------------------------------
(* The filter's calls. *)

LEMMA InferCallInv ==
    ASSUME IInv, InferCall
    PROVE  IInv'
<1>1. /\ call = "idle" /\ call' = "claim" /\ last < MaxFrames
      /\ IF started
         THEN UNCHANGED <<threadVars, pc>>
         ELSE started' = TRUE /\ stop' = FALSE /\ pc' = "idle"
      /\ UNCHANGED <<planVars, slotVars, queue, last, slot, src, result, mine,
                     target, verdict, inflight, history>>
  BY DEF InferCall
<1>2. /\ started' = TRUE /\ stop' = FALSE /\ pc' # "off"
      /\ pc' \in {"off", "idle", "read", "run", "finish"}
      /\ Busy' = Busy /\ (Busy => pc' = pc)
  BY <1>1 DEF IInv, TypeOK, ThreadSound, Busy, threadVars
<1>3. TypeOK'
  <2>1. UNCHANGED <<active, eligible, state, ticket, frame, rgbOut, outcome,
                    queue, last, slot, src, result, mine, target, verdict,
                    inflight, reported, collected, over, written>>
    BY <1>1 DEF planVars, slotVars, history
  <2>2. /\ call' = "claim" /\ started' \in BOOLEAN /\ stop' \in BOOLEAN
        /\ pc' \in {"off", "idle", "read", "run", "finish"}
    BY <1>1, <1>2
  <2> QED BY SMTT(30), <2>1, <2>2 DEF IInv, TypeOK
<1>4. ThreadSound'
  BY <1>1, <1>2 DEF IInv, ThreadSound
<1>5. \A j \in Slots : ~Claimed(j) /\ ~Claimed(j)'
  BY <1>1 DEF Claimed
<1>6. WorkerSound'
  BY <1>1, <1>2, <1>5 DEF IInv, WorkerSound, Busy, slotVars, history
<1>7. OrderSound'
  <2>1. \A n \in DOMAIN queue : queue[n] \in Slots
    BY DEF IInv, TypeOK
  <2> QED BY <1>1, <1>2, <1>5, <2>1 DEF IInv, OrderSound, slotVars
<1>8. RingSound'
  BY <1>1, <1>2, <1>5 DEF IInv, RingSound, slotVars, history
<1>9. CallSound'
  BY <1>1 DEF IInv, CallSound
<1> QED BY <1>1, <1>3, <1>4, <1>6, <1>7, <1>8, <1>9, Framed
        DEF IInv, slotVars, history

LEMMA InferClaimInv ==
    ASSUME IInv, InferClaim
    PROVE  IInv'
<1>1. PICK i \in Slots :
          /\ state[i] = "FREE"
          /\ call = "claim" /\ call' = "color" /\ mine' = i
          /\ last' = last + 1
          /\ ticket' = [ticket EXCEPT ![i] = last + 1]
          /\ outcome' = [outcome EXCEPT ![i] = "none"]
          /\ state' = [state EXCEPT ![i] = "SUBMITTED"]
          /\ UNCHANGED <<planVars, threadVars, frame, rgbOut, queue,
                         workerVars, target, verdict, inflight, history>>
  BY DEF InferClaim, Claims
<1>2. /\ state \in [Slots -> {"FREE", "SUBMITTED", "DONE"}]
      /\ ticket \in [Slots -> 0..last]
      /\ frame \in [Slots -> 0..last] /\ rgbOut \in [Slots -> 0..last]
      /\ outcome \in [Slots -> {"none", "chained", "colored", "failed"}]
      /\ last \in 0..MaxFrames /\ last < MaxFrames
      /\ target \in 0..last /\ src \in 0..last /\ inflight \subseteq 1..last
      /\ reported \subseteq 1..last /\ collected \subseteq 1..last
      /\ over \subseteq 1..last
  BY <1>1 DEF IInv, TypeOK, ThreadSound
<1>3. /\ ticket'[i] = last + 1 /\ state'[i] = "SUBMITTED" /\ ticket[i] = 0
      /\ \A j \in Slots : j # i => /\ ticket'[j] = ticket[j]
                                   /\ state'[j] = state[j]
                                   /\ outcome'[j] = outcome[j]
  <2>1. ticket[i] = 0
    BY <1>1 DEF IInv, RingSound
  <2> QED BY <1>1, <1>2, <2>1
<1>4. \A n \in DOMAIN queue : queue[n] \in Slots /\ queue[n] # i
  BY <1>1 DEF IInv, TypeOK, OrderSound
<1>5. Busy' = Busy /\ (Busy => slot # i /\ slot \in Slots)
  BY <1>1 DEF IInv, WorkerSound, Busy, workerVars
<1>6. TypeOK'
  <2>1. /\ state' \in [Slots -> {"FREE", "SUBMITTED", "DONE"}]
        /\ outcome' \in [Slots -> {"none", "chained", "colored", "failed"}]
    BY <1>1, <1>2
  <2>2. /\ last' \in 0..MaxFrames /\ ticket' \in [Slots -> 0..last']
    BY <1>1, <1>2, RingAssumption
  <2>3. 0..last \subseteq 0..last' /\ 1..last \subseteq 1..last'
    BY <1>1, <1>2
  <2>4. /\ frame' \in [Slots -> 0..last'] /\ rgbOut' \in [Slots -> 0..last']
    BY <1>1, <1>2, <2>3
  <2>5. /\ target' \in 0..last' /\ src' \in 0..last'
        /\ inflight' \subseteq 1..last'
        /\ reported' \subseteq 1..last' /\ collected' \subseteq 1..last'
        /\ over' \subseteq 1..last'
    BY <1>1, <1>2, <2>3 DEF workerVars, history
  <2> QED BY SMTT(30), <1>1, <2>1, <2>2, <2>4, <2>5
          DEF IInv, TypeOK, planVars, threadVars, workerVars
<1>7. ThreadSound'
  BY <1>1 DEF IInv, ThreadSound, threadVars, workerVars
<1>8. \A j \in Slots : ~Claimed(j) /\ (Claimed(j)' <=> j = i)
  BY <1>1 DEF Claimed
<1>9. WorkerSound'
  BY <1>1, <1>3, <1>5, <1>8 DEF IInv, WorkerSound, workerVars, history
<1>10. OrderSound'
  <2>1. \A j \in Slots : state'[j] = "DONE" =>
            state[j] = "DONE" /\ ticket'[j] = ticket[j]
    BY <1>3
  <2>2. \A n \in DOMAIN queue : \A m \in 1..(n - 1) : m \in DOMAIN queue
    BY DEF IInv, TypeOK
  <2> QED BY <1>1, <1>3, <1>4, <1>5, <1>8, <2>1, <2>2
          DEF IInv, OrderSound, workerVars
<1>11. RingSound'
  <2>1. \A j \in Slots : ticket[j] # last + 1
    BY <1>2
  <2>2. last + 1 # 0
    BY <1>2
  <2> QED BY <1>1, <1>3, <1>5, <1>8, <2>1, <2>2
          DEF IInv, RingSound, workerVars, history
<1>12. CallSound'
  BY <1>1, <1>2, <1>3 DEF CallSound
<1>13. TicketsSound'
  <2>1. \A t \in 1..last' : t = last + 1 \/ t \in 1..last
    BY <1>1, <1>2
  <2>2. ASSUME NEW t \in 1..last, t \notin over
        PROVE  \E j \in Slots : ticket'[j] = t /\ state'[j] = "SUBMITTED"
    <3>1. PICK j \in Slots : ticket[j] = t /\ state[j] = "SUBMITTED"
      BY <2>2 DEF IInv, TicketsSound
    <3> QED BY <1>2, <1>3, <3>1
  <2>3. ASSUME NEW t \in inflight
        PROVE  \E j \in Slots : ticket'[j] = t
    <3>1. PICK j \in Slots : ticket[j] = t
      BY DEF IInv, TicketsSound
    <3> QED BY <1>2, <1>3, <3>1
  <2> QED BY <1>1, <1>3, <2>1, <2>2, <2>3 DEF TicketsSound, history
<1> QED BY <1>1, <1>6, <1>7, <1>9, <1>10, <1>11, <1>12, <1>13, Framed
        DEF IInv, history

LEMMA InferColorInv ==
    ASSUME IInv, InferColor
    PROVE  IInv'
<1>1. /\ call = "color" /\ call' = "enqueue"
      /\ frame' = [frame EXCEPT ![mine] = last]
      /\ UNCHANGED <<planVars, threadVars, state, ticket, rgbOut, outcome,
                     queue, last, workerVars, mine, target, verdict,
                     inflight, history>>
  BY DEF InferColor
<1>2. /\ mine \in Slots /\ ticket[mine] = last
      /\ frame \in [Slots -> 0..last] /\ last \in 0..MaxFrames
  BY <1>1 DEF IInv, TypeOK, CallSound
<1>3. /\ frame' \in [Slots -> 0..last] /\ frame'[mine] = last
      /\ \A j \in Slots : j # mine => frame'[j] = frame[j]
  BY <1>1, <1>2
<1>4. /\ Busy' = Busy /\ \A j \in Slots : Claimed(j)' = Claimed(j)
      /\ Claimed(mine)
  BY <1>1 DEF Busy, Claimed, workerVars
<1>5. TypeOK'
  BY SMTT(30), <1>1, <1>3
     DEF IInv, TypeOK, planVars, threadVars, workerVars, history
<1>6. ThreadSound'
  BY <1>1 DEF IInv, ThreadSound, threadVars, workerVars
<1>7. WorkerSound'
  <2>1. Busy => frame'[slot] = frame[slot] /\ slot \in Slots
    BY <1>3, <1>4 DEF IInv, WorkerSound
  <2>2. pc \in {"run", "finish"} => Busy
    BY DEF Busy
  <2> QED BY <1>1, <1>4, <2>1, <2>2
          DEF IInv, WorkerSound, workerVars, history
<1>8. OrderSound'
  <2>1. \A n \in DOMAIN queue : queue[n] \in Slots
    BY DEF IInv, TypeOK
  <2> QED BY <1>1, <1>4, <2>1 DEF IInv, OrderSound, workerVars
<1>9. RingSound'
  BY <1>1, <1>2, <1>3, <1>4 DEF IInv, RingSound, workerVars, history
<1>10. CallSound'
  BY <1>1 DEF IInv, CallSound
<1> QED BY <1>1, <1>5, <1>6, <1>7, <1>8, <1>9, <1>10, Framed
        DEF IInv, history

LEMMA InferColorFailsInv ==
    ASSUME IInv, InferColorFails
    PROVE  IInv'
<1>1. /\ call = "color" /\ call' = "idle" /\ mine' = NoSlot
      /\ state' = [state EXCEPT ![mine] = "FREE"]
      /\ ticket' = [ticket EXCEPT ![mine] = 0]
      /\ over' = over \cup {last}
      /\ UNCHANGED <<planVars, threadVars, frame, rgbOut, outcome, queue,
                     last, workerVars, target, verdict, inflight, reported,
                     collected, written>>
  BY DEF InferColorFails
<1>2. /\ mine \in Slots /\ state[mine] = "SUBMITTED" /\ ticket[mine] = last
      /\ last \notin inflight /\ last \in 1..last
  <2>1. /\ mine \in Slots /\ state[mine] = "SUBMITTED" /\ ticket[mine] = last
        /\ last \notin inflight
    BY <1>1 DEF IInv, CallSound
  <2>2. last # 0
    BY <2>1 DEF IInv, RingSound
  <2>3. last \in Nat
    BY RingAssumption DEF IInv, TypeOK
  <2> QED BY <2>1, <2>2, <2>3
<1>3. /\ state \in [Slots -> {"FREE", "SUBMITTED", "DONE"}]
      /\ ticket \in [Slots -> 0..last] /\ last \in Nat
      /\ over \subseteq 1..last
  BY <1>2, RingAssumption DEF IInv, TypeOK
<1>4. /\ ticket'[mine] = 0 /\ state'[mine] = "FREE"
      /\ \A j \in Slots : j # mine => /\ ticket'[j] = ticket[j]
                                      /\ state'[j] = state[j]
  BY <1>1, <1>2, <1>3
<1>5. /\ Busy' = Busy /\ \A j \in Slots : ~Claimed(j)'
      /\ \A j \in Slots : Claimed(j) <=> j = mine
  BY <1>1 DEF Busy, Claimed, workerVars
<1>6. /\ \A n \in DOMAIN queue : queue[n] \in Slots /\ queue[n] # mine
      /\ Busy => slot \in Slots /\ slot # mine
  <2>1. \A n \in DOMAIN queue : queue[n] \in Slots
    BY DEF IInv, TypeOK
  <2> QED BY <1>5, <2>1 DEF IInv, OrderSound, WorkerSound
<1>7. TypeOK'
  <2>1. /\ state' \in [Slots -> {"FREE", "SUBMITTED", "DONE"}]
        /\ ticket' \in [Slots -> 0..last]
        /\ over' \subseteq 1..last
    BY <1>1, <1>2, <1>3
  <2> QED BY SMTT(30), <1>1, <2>1
            DEF IInv, TypeOK, planVars, threadVars, workerVars
<1>8. ThreadSound'
  <2>1. started /\ ~stop
    BY <1>1 DEF IInv, ThreadSound
  <2> QED BY <1>1, <2>1 DEF IInv, ThreadSound, threadVars, workerVars
<1>9. WorkerSound'
  BY <1>1, <1>4, <1>5, <1>6 DEF IInv, WorkerSound, workerVars
<1>10. OrderSound'
  <2>1. \A j \in Slots : state'[j] = "DONE" =>
            state[j] = "DONE" /\ ticket'[j] = ticket[j]
    BY <1>4
  <2>2. \A n \in DOMAIN queue : \A m \in 1..(n - 1) : m \in DOMAIN queue
    BY DEF IInv, TypeOK
  <2> QED BY <1>1, <1>4, <1>5, <1>6, <2>1, <2>2
          DEF IInv, OrderSound, workerVars
<1>11. RingSound'
  BY <1>1, <1>4, <1>5 DEF IInv, RingSound, workerVars
<1>12. CallSound'
  BY <1>1 DEF CallSound
<1>13. TicketsSound'
  BY <1>1, <1>2, <1>4 DEF IInv, TicketsSound
<1> QED BY <1>1, <1>7, <1>8, <1>9, <1>10, <1>11, <1>12, <1>13, Framed
        DEF IInv

LEMMA InferEnqueueInv ==
    ASSUME IInv, InferEnqueue
    PROVE  IInv'
<1>1. /\ call = "enqueue" /\ call' = "flush"
      /\ queue' = Append(queue, mine)
      /\ UNCHANGED <<planVars, threadVars, slotVars, last, workerVars, mine,
                     target, verdict, inflight, history>>
  BY DEF InferEnqueue
<1>2. /\ mine \in Slots /\ state[mine] = "SUBMITTED" /\ ticket[mine] = last
      /\ ticket \in [Slots -> 0..last] /\ last \in Nat /\ last # 0
      /\ queue \in Seq(Slots) /\ DOMAIN queue = 1..Len(queue)
  <2>1. mine \in Slots /\ state[mine] = "SUBMITTED" /\ ticket[mine] = last
    BY <1>1 DEF IInv, CallSound
  <2>2. last # 0
    BY <2>1 DEF IInv, RingSound
  <2>3. /\ ticket \in [Slots -> 0..last] /\ last \in Nat
        /\ queue \in Seq(Slots)
    BY RingAssumption DEF IInv, TypeOK
  <2> QED BY <2>1, <2>2, <2>3
<1>3. /\ queue' \in Seq(Slots) /\ Len(queue') = Len(queue) + 1
      /\ DOMAIN queue' = 1..(Len(queue) + 1)
      /\ \A n \in 1..Len(queue) : queue'[n] = queue[n]
      /\ queue'[Len(queue) + 1] = mine
  BY <1>1, <1>2
<1>4. \A j \in Slots : j # mine => ticket[j] < last
  <2>1. \A j \in Slots : j # mine => ticket[j] # last
    BY <1>2 DEF IInv, RingSound
  <2> QED BY <1>2, <2>1
<1>5. /\ Busy' = Busy /\ \A j \in Slots : ~Claimed(j)'
      /\ \A j \in Slots : Claimed(j) <=> j = mine
  BY <1>1 DEF Busy, Claimed, workerVars
<1>6. /\ \A n \in 1..Len(queue) : queue[n] \in Slots /\ queue[n] # mine
      /\ Busy => slot \in Slots /\ slot # mine
  <2>1. \A n \in 1..Len(queue) : queue[n] \in Slots /\ ~Claimed(queue[n])
    BY <1>2 DEF IInv, OrderSound
  <2>2. Busy => slot \in Slots /\ ~Claimed(slot)
    BY DEF IInv, WorkerSound
  <2> QED BY <1>5, <2>1, <2>2
<1>7. OrderSound'
  <2>1. \A n \in 1..Len(queue) :
            /\ state[queue[n]] = "SUBMITTED"
            /\ \A m \in 1..(n - 1) : m \in 1..Len(queue)
                                     /\ ticket[queue[m]] < ticket[queue[n]]
            /\ Busy => ticket[slot] < ticket[queue[n]]
            /\ \A i \in Slots : state[i] = "DONE" =>
                   ticket[i] < ticket[queue[n]]
    BY <1>2 DEF IInv, OrderSound
  <2>2. ASSUME NEW n \in 1..Len(queue)
        PROVE  /\ state[queue'[n]] = "SUBMITTED"
               /\ \A m \in 1..(n - 1) : ticket[queue'[m]] < ticket[queue'[n]]
               /\ Busy => ticket[slot] < ticket[queue'[n]]
               /\ \A i \in Slots : state[i] = "DONE" =>
                      ticket[i] < ticket[queue'[n]]
    BY <1>3, <2>1
  <2>3. /\ \A m \in 1..Len(queue) : ticket[queue'[m]] < ticket[mine]
        /\ Busy => ticket[slot] < ticket[mine]
        /\ \A i \in Slots : state[i] = "DONE" => ticket[i] < ticket[mine]
    BY <1>2, <1>3, <1>4, <1>6
  <2>4. \A n \in DOMAIN queue' : n \in 1..Len(queue) \/ n = Len(queue) + 1
    BY <1>2, <1>3
  <2>5. (Len(queue) + 1) - 1 = Len(queue)
    BY <1>2
  <2>6. Busy => \A i \in Slots : state[i] = "DONE" => ticket[i] < ticket[slot]
    BY DEF IInv, OrderSound
  <2>7. UNCHANGED <<state, ticket, slot>>
    BY <1>1 DEF slotVars, workerVars
  <2> SUFFICES ASSUME NEW n \in DOMAIN queue'
               PROVE  /\ state[queue'[n]] = "SUBMITTED"
                      /\ \A m \in 1..(n - 1) :
                             ticket[queue'[m]] < ticket[queue'[n]]
                      /\ Busy => ticket[slot] < ticket[queue'[n]]
                      /\ \A i \in Slots : state[i] = "DONE" =>
                             ticket[i] < ticket[queue'[n]]
    BY <1>1, <1>5, <2>6, <2>7 DEF OrderSound, Claimed
  <2>8. CASE n \in 1..Len(queue)
    BY <2>2, <2>8
  <2>9. CASE n = Len(queue) + 1
    BY <1>2, <1>3, <2>3, <2>5, <2>9
  <2> QED BY <2>4, <2>8, <2>9
<1>8. TypeOK'
  <2>1. \A m, n \in 1..Len(queue') : queue'[m] = queue'[n] => m = n
    <3> SUFFICES ASSUME NEW m \in 1..Len(queue'), NEW n \in 1..Len(queue'),
                        m < n
                 PROVE  queue'[m] # queue'[n]
      BY <1>2, <1>3
    <3>1. m \in 1..(n - 1) /\ n \in DOMAIN queue'
      BY <1>2, <1>3
    <3>2. ticket'[queue'[m]] < ticket'[queue'[n]] /\ queue'[n] \in Slots
      BY <1>3, <1>7, <3>1 DEF OrderSound
    <3>3. ticket' = ticket
      BY <1>1 DEF slotVars
    <3>4. ticket[queue'[n]] \in Int
      BY <1>2, <3>2
    <3> QED BY <3>2, <3>3, <3>4
  <2>2. Len(queue') <= KRing
    BY <1>3, <2>1, RingAssumption, QueueFits DEF Slots
  <2> QED BY SMTT(30), <1>1, <1>3, <2>2
          DEF IInv, TypeOK, planVars, threadVars, slotVars, workerVars, history
<1>9. ThreadSound'
  <2>1. started /\ ~stop
    BY <1>1 DEF IInv, ThreadSound
  <2> QED BY <1>1, <2>1 DEF IInv, ThreadSound, threadVars, workerVars
<1>10. WorkerSound'
  <2>1. Busy => \A n \in DOMAIN queue' : queue'[n] # slot
    <3>1. Busy => \A n \in 1..Len(queue) : queue[n] # slot
      BY <1>2 DEF IInv, WorkerSound
    <3>2. \A n \in DOMAIN queue' : n \in 1..Len(queue) \/ n = Len(queue) + 1
      BY <1>2, <1>3
    <3> QED BY <1>3, <1>6, <3>1, <3>2
  <2> QED BY <1>1, <1>5, <2>1
          DEF IInv, WorkerSound, slotVars, workerVars, history
<1>11. RingSound'
  <2>1. \A j \in Slots : (\E n \in DOMAIN queue : queue[n] = j) \/ j = mine
            => \E n \in DOMAIN queue' : queue'[n] = j
    <3>1. Len(queue) + 1 \in DOMAIN queue' /\ queue'[Len(queue) + 1] = mine
      BY <1>2, <1>3
    <3>2. \A n \in DOMAIN queue : n \in DOMAIN queue' /\ queue'[n] = queue[n]
      BY <1>2, <1>3
    <3> QED BY <3>1, <3>2
  <2> QED BY <1>1, <1>2, <1>5, <2>1
          DEF IInv, RingSound, slotVars, workerVars, history
<1>12. CallSound'
  BY <1>1, <1>2 DEF IInv, CallSound, slotVars
<1> QED BY <1>1, <1>7, <1>8, <1>9, <1>10, <1>11, <1>12, Framed
        DEF IInv, slotVars, history

LEMMA FlushInv ==
    ASSUME IInv, Flush
    PROVE  IInv'
<1>1. /\ call = "flush" /\ call' = "idle" /\ mine' = NoSlot
      /\ inflight' = inflight \cup {last}
      /\ UNCHANGED <<planVars, threadVars, slotVars, queue, last, workerVars,
                     target, verdict, history>>
  BY DEF Flush
<1>2. /\ mine \in Slots /\ ticket[mine] = last /\ last \in 1..last
  BY <1>1, RingAssumption DEF IInv, TypeOK, CallSound
<1>3. /\ Busy' = Busy /\ \A j \in Slots : ~Claimed(j)' /\ ~Claimed(j)
  BY <1>1 DEF Busy, Claimed, workerVars
<1>4. TypeOK'
  <2>1. inflight' \subseteq 1..last
    BY <1>1, <1>2 DEF IInv, TypeOK
  <2> QED BY SMTT(30), <1>1, <2>1
            DEF IInv, TypeOK, planVars, threadVars, slotVars,
                            workerVars, history
<1>5. ThreadSound'
  BY <1>1 DEF IInv, ThreadSound, threadVars, workerVars
<1>6. WorkerSound'
  BY <1>1, <1>3 DEF IInv, WorkerSound, slotVars, workerVars, history
<1>7. OrderSound'
  <2>1. \A n \in DOMAIN queue : queue[n] \in Slots
    BY DEF IInv, TypeOK
  <2> QED BY <1>1, <1>3, <2>1 DEF IInv, OrderSound, slotVars, workerVars
<1>8. RingSound'
  BY <1>1, <1>3 DEF IInv, RingSound, slotVars, workerVars, history
<1>9. CallSound'
  BY <1>1 DEF IInv, CallSound
<1>10. TicketsSound'
  BY <1>1, <1>2 DEF IInv, TicketsSound, slotVars, history
<1> QED BY <1>1, <1>4, <1>5, <1>6, <1>7, <1>8, <1>9, <1>10, Framed
        DEF IInv, history

LEMMA WaitCallInv ==
    ASSUME IInv, WaitCall
    PROVE  IInv'
<1>1. PICK t \in inflight : WaitBlock(t)
  BY DEF IInv, TicketsSound, WaitCall, WaitGone
<1>2. /\ call = "idle" /\ call' = "wait" /\ target' = t
      /\ mine' \in Slots /\ ticket[mine'] = t
      /\ UNCHANGED <<planVars, threadVars, slotVars, queue, last, workerVars,
                     over, written, verdict, inflight, reported, collected>>
  BY <1>1 DEF WaitCall, WaitBlock
<1>3. /\ Busy' = Busy /\ \A j \in Slots : ~Claimed(j)' /\ ~Claimed(j)
  BY <1>2 DEF Busy, Claimed, workerVars
<1>4. TypeOK'
  <2>1. target' \in 0..last
    BY <1>2 DEF IInv, TypeOK
  <2> QED BY SMTT(30), <1>2, <2>1
          DEF IInv, TypeOK, planVars, threadVars, slotVars, workerVars
<1>5. ThreadSound'
  BY <1>2 DEF IInv, ThreadSound, threadVars, workerVars
<1>6. WorkerSound'
  BY <1>2, <1>3 DEF IInv, WorkerSound, slotVars, workerVars
<1>7. OrderSound'
  <2>1. \A n \in DOMAIN queue : queue[n] \in Slots
    BY DEF IInv, TypeOK
  <2> QED BY <1>2, <1>3, <2>1 DEF IInv, OrderSound, slotVars, workerVars
<1>8. RingSound'
  BY <1>2, <1>3 DEF IInv, RingSound, slotVars, workerVars
<1>9. CallSound'
  BY <1>2 DEF IInv, CallSound, slotVars
<1> QED BY <1>2, <1>4, <1>5, <1>6, <1>7, <1>8, <1>9, Framed
        DEF IInv, slotVars

LEMMA WaitPostInv ==
    ASSUME IInv, WaitPost
    PROVE  IInv'
<1>1. /\ call = "wait" /\ call' = "release" /\ state[mine] = "DONE"
      /\ UNCHANGED <<planVars, threadVars, slotVars, queue, last, workerVars,
                     mine, target, inflight, reported, collected, over>>
  BY DEF WaitPost, Posts
<1>2. /\ mine \in Slots /\ target \in inflight /\ ticket[mine] = target
      /\ target # 0
  BY <1>1 DEF IInv, TypeOK, CallSound
<1>3. /\ outcome[mine] # "none" /\ frame[mine] = target
      /\ outcome[mine] = "colored" => <<target, target>> \in written
      /\ outcome[mine] = "chained" => rgbOut[mine] = target
  BY <1>1, <1>2 DEF IInv, RingSound
<1>4. /\ verdict' \in {"ok", "error"}
      /\ verdict' = "ok" => <<target, target>> \in written'
      /\ written \subseteq written'
      /\ \A p \in written' : p \in written \/ p = <<target, target>>
  BY <1>3 DEF WaitPost, Posts
<1>5. /\ Busy' = Busy /\ \A j \in Slots : ~Claimed(j)' /\ ~Claimed(j)
  BY <1>1 DEF Busy, Claimed, workerVars
<1>6. TypeOK'
  BY SMTT(30), <1>1, <1>4
     DEF IInv, TypeOK, planVars, threadVars, slotVars, workerVars
<1>7. ThreadSound'
  BY <1>1 DEF IInv, ThreadSound, threadVars, workerVars
<1>8. WorkerSound'
  BY <1>1, <1>4, <1>5 DEF IInv, WorkerSound, slotVars, workerVars
<1>9. OrderSound'
  <2>1. \A n \in DOMAIN queue : queue[n] \in Slots
    BY DEF IInv, TypeOK
  <2> QED BY <1>1, <1>5, <2>1 DEF IInv, OrderSound, slotVars, workerVars
<1>10. RingSound'
  BY <1>1, <1>4, <1>5 DEF IInv, RingSound, slotVars, workerVars
<1>11. CallSound'
  BY <1>1, <1>2, <1>4 DEF IInv, CallSound, slotVars
<1>12. OwnPlanes'
  BY <1>4 DEF IInv, OwnPlanes
<1> QED BY <1>1, <1>4, <1>6, <1>7, <1>8, <1>9, <1>10, <1>11, <1>12, Framed
        DEF IInv, slotVars

(* What makes aji_wait and aji_done right: a ticket the filter has not     *)
(* collected still has its slot, and when that is DONE the frames of all   *)
(* earlier tickets are over, as there is one worker and its queue is in    *)
(* order.                                                                  *)
LEMMA BehindNone ==
    ASSUME IInv, NEW t \in inflight,
           \A i \in Slots : ticket[i] = t => state[i] = "DONE"
    PROVE  /\ t \in 1..last
           /\ \A i \in Slots : ticket[i] \in 1..t => state[i] = "DONE"
           /\ 1..t \subseteq over
<1>1. /\ t \in 1..last /\ last \in Nat /\ ticket \in [Slots -> 0..last]
      /\ state \in [Slots -> {"FREE", "SUBMITTED", "DONE"}]
  BY RingAssumption DEF IInv, TypeOK
<1>2. PICK j \in Slots : ticket[j] = t /\ state[j] = "DONE"
  BY DEF IInv, TicketsSound
<1>3. ASSUME NEW i \in Slots, ticket[i] \in 1..t
      PROVE  state[i] = "DONE"
  <2>1. ~(ticket[j] < ticket[i])
    BY <1>1, <1>2, <1>3
  <2>2. state[i] # "FREE"
    <3>1. ticket[i] # 0
      BY <1>1, <1>3
    <3> QED BY <3>1 DEF IInv, RingSound
  <2>3. ~Claimed(i)
    <3> SUFFICES ASSUME Claimed(i) PROVE FALSE
      OBVIOUS
    <3>1. ticket[i] = last /\ last \notin inflight
      BY DEF IInv, CallSound, Claimed
    <3> QED BY <1>1, <1>3, <3>1
  <2>4. ~(Busy /\ slot = i)
    BY <1>2, <2>1 DEF IInv, OrderSound
  <2>5. \A n \in DOMAIN queue : queue[n] # i
    BY <1>2, <2>1 DEF IInv, OrderSound
  <2>6. state[i] # "SUBMITTED"
    BY <2>3, <2>4, <2>5 DEF IInv, RingSound
  <2> QED BY <1>1, <2>2, <2>6
<1>4. ASSUME NEW u \in 1..t, u \notin over PROVE FALSE
  <2>1. u \in 1..last
    BY <1>1
  <2>2. PICK i \in Slots : ticket[i] = u /\ state[i] = "SUBMITTED"
    BY <1>4, <2>1 DEF IInv, TicketsSound
  <2> QED BY <1>3, <2>2
<1> QED BY <1>1, <1>3, <1>4

LEMMA WaitReleaseInv ==
    ASSUME IInv, WaitRelease
    PROVE  IInv'
<1> DEFINE freed == {mine} \cup {i \in Slots : ticket[i] \in 1..(target - 1)}
<1>1. /\ call = "release"
      /\ state' = [i \in Slots |-> IF i \in freed THEN "FREE" ELSE state[i]]
      /\ ticket' = [i \in Slots |-> IF i \in freed THEN 0 ELSE ticket[i]]
      /\ inflight' = {u \in inflight : u > target}
      /\ reported' = IF verdict = "ok" THEN reported \cup 1..target
                                       ELSE reported
      /\ collected' = collected \cup (IF verdict = "ok" THEN {target} ELSE {})
      /\ call' = "idle" /\ mine' = NoSlot /\ target' = 0 /\ verdict' = "none"
      /\ UNCHANGED <<planVars, threadVars, frame, rgbOut, outcome, queue,
                     last, workerVars, over, written>>
  BY DEF WaitRelease, Releases, StrikeOff
<1>2. /\ mine \in Slots /\ target \in inflight /\ ticket[mine] = target
      /\ state[mine] = "DONE"
      /\ verdict = "ok" => <<target, target>> \in written
  BY <1>1 DEF IInv, CallSound
<1>3. /\ ticket \in [Slots -> 0..last] /\ last \in Nat
      /\ last \in 0..MaxFrames
      /\ state \in [Slots -> {"FREE", "SUBMITTED", "DONE"}]
      /\ inflight \subseteq 1..last
      /\ reported \subseteq 1..last /\ collected \subseteq 1..last
  BY RingAssumption DEF IInv, TypeOK
<1>4. \A i \in Slots : ticket[i] = target => i = mine
  BY <1>2, <1>3 DEF IInv, RingSound
<1>5. /\ target \in 1..last
      /\ \A i \in Slots : ticket[i] \in 1..target => state[i] = "DONE"
  BY <1>2, <1>4, BehindNone
<1>6. \A i \in Slots : i \in freed <=> ticket[i] \in 1..target
  BY <1>2, <1>3, <1>4, <1>5
<1> HIDE DEF freed
<1>7. \A i \in Slots :
          IF ticket[i] \in 1..target
          THEN state[i] = "DONE" /\ state'[i] = "FREE" /\ ticket'[i] = 0
          ELSE state'[i] = state[i] /\ ticket'[i] = ticket[i]
  BY <1>1, <1>5, <1>6
<1>8. TypeOK'
  <2>1. inflight' \subseteq 1..last /\ collected' \subseteq 1..last
    BY <1>1, <1>3, <1>5
  <2>2. reported' \subseteq 1..last
    BY <1>1, <1>3, <1>5
  <2>3. /\ state' \in [Slots -> {"FREE", "SUBMITTED", "DONE"}]
        /\ ticket' \in [Slots -> 0..last]
    BY <1>1, <1>3
  <2>4. target' \in 0..last
    BY <1>1, <1>3
  <2> QED BY SMTT(30), <1>1, <2>1, <2>2, <2>3, <2>4
          DEF IInv, TypeOK, planVars, threadVars, workerVars
<1>9. ThreadSound'
  BY <1>1 DEF IInv, ThreadSound, threadVars, workerVars
<1>10. /\ Busy' = Busy /\ \A j \in Slots : ~Claimed(j)' /\ ~Claimed(j)
  BY <1>1 DEF Busy, Claimed, workerVars
<1>11. /\ \A i \in Slots : state[i] = "SUBMITTED" =>
             state'[i] = "SUBMITTED" /\ ticket'[i] = ticket[i]
       /\ \A i \in Slots : state'[i] # "FREE" =>
             state'[i] = state[i] /\ ticket'[i] = ticket[i]
       /\ \A i \in Slots : ticket'[i] # 0 =>
             /\ state'[i] = state[i] /\ ticket'[i] = ticket[i]
             /\ ticket[i] > target
  BY <1>3, <1>5, <1>7
<1>12. WorkerSound'
  BY <1>1, <1>10, <1>11 DEF IInv, WorkerSound, workerVars
<1>13. OrderSound'
  <2>1. /\ \A n \in DOMAIN queue : queue[n] \in Slots
        /\ \A n \in DOMAIN queue : \A m \in 1..(n - 1) : m \in DOMAIN queue
    BY SMTT(30) DEF IInv, TypeOK
  <2>2. Busy => slot \in Slots /\ state[slot] = "SUBMITTED"
    BY DEF IInv, WorkerSound
  <2> QED BY <1>1, <1>10, <1>11, <2>1, <2>2 DEF IInv, OrderSound, workerVars
<1>14. RingSound'
  <2>1. \A i \in Slots : state'[i] = "FREE" <=> ticket'[i] = 0
    BY <1>7 DEF IInv, RingSound
  <2>2. \A i \in Slots : ticket[i] \in inflight /\ ticket[i] > target
            => ticket[i] \in inflight'
    BY <1>1
  <2> QED BY <1>1, <1>10, <1>11, <2>1, <2>2 DEF IInv, RingSound, workerVars
<1>15. CallSound'
  BY <1>1 DEF CallSound
<1>16. TicketsSound'
  <2>1. ASSUME NEW t \in 1..last, t \notin over
        PROVE  \E i \in Slots : ticket'[i] = t /\ state'[i] = "SUBMITTED"
    <3>1. PICK i \in Slots : ticket[i] = t /\ state[i] = "SUBMITTED"
      BY <2>1 DEF IInv, TicketsSound
    <3> QED BY <1>11, <3>1
  <2>2. ASSUME NEW t \in inflight, t > target
        PROVE  \E i \in Slots : ticket'[i] = t
    <3>1. PICK i \in Slots : ticket[i] = t
      BY <2>2 DEF IInv, TicketsSound
    <3>2. ticket[i] \notin 1..target
      BY <1>3, <1>5, <2>2, <3>1
    <3> QED BY <1>7, <3>1, <3>2
  <2> QED BY <1>1, <2>1, <2>2 DEF TicketsSound
<1>17. CollectedMeansWritten'
  BY <1>1, <1>2 DEF IInv, CollectedMeansWritten
<1> QED BY <1>1, <1>8, <1>9, <1>12, <1>13, <1>14, <1>15, <1>16, <1>17, Framed
        DEF IInv

LEMMA PollCompleteInv ==
    ASSUME IInv, PollComplete
    PROVE  IInv'
<1>1. PICK t \in inflight : reported' = reported \cup 1..t
  BY DEF PollComplete, Polls
<1>2. UNCHANGED <<planVars, threadVars, slotVars, queue, last, workerVars,
                  callVars, inflight, collected, over, written>>
  BY DEF PollComplete, Polls
<1>3. TypeOK'
  <2>1. t \in 1..last /\ last \in 0..MaxFrames
    BY DEF IInv, TypeOK
  <2>2. 1..t \subseteq 1..last
    BY <2>1, RingAssumption
  <2>3. reported' \subseteq 1..last
    BY <1>1, <2>2 DEF IInv, TypeOK
  <2> QED BY SMTT(30), <1>2, <2>3
          DEF IInv, TypeOK, planVars, threadVars, slotVars, workerVars,
              callVars
<1>4. Busy' = Busy
  BY <1>2 DEF Busy, workerVars
<1> QED BY <1>2, <1>3, <1>4, Framed
        DEF IInv, threadVars, slotVars, workerVars, callVars

LEMMA StopCallInv ==
    ASSUME IInv, NEW c \in {"configure", "destroy"}, StopCall(c)
    PROVE  IInv'
<1>1. /\ call = "idle" /\ call' = c
      /\ stop' = IF started THEN TRUE ELSE stop
      /\ UNCHANGED <<planVars, started, slotVars, queue, last, workerVars,
                     mine, target, verdict, inflight, history>>
  BY DEF StopCall
<1>2. /\ Busy' = Busy /\ \A j \in Slots : ~Claimed(j)' /\ ~Claimed(j)
  BY <1>1 DEF Busy, Claimed, workerVars
<1>3. TypeOK'
  <2>1. stop' \in BOOLEAN
    BY <1>1 DEF IInv, TypeOK
  <2>2. call' \in {"idle", "claim", "color", "enqueue", "flush", "wait",
                    "release", "configure", "destroy", "gone"}
    BY <1>1
  <2>3. UNCHANGED <<active, eligible, started, state, ticket, frame, rgbOut,
                    outcome, queue, last, pc, slot, src, result, mine, target,
                    verdict, inflight, reported, collected, over>>
    BY <1>1 DEF planVars, slotVars, workerVars, history
  <2> QED BY <2>1, <2>2, <2>3 DEF IInv, TypeOK
<1>4. ThreadSound'
  BY <1>1 DEF IInv, ThreadSound, workerVars
<1>5. WorkerSound'
  BY <1>1, <1>2 DEF IInv, WorkerSound, slotVars, workerVars, history
<1>6. OrderSound'
  <2>1. \A n \in DOMAIN queue : queue[n] \in Slots
    BY DEF IInv, TypeOK
  <2> QED BY <1>1, <1>2, <2>1 DEF IInv, OrderSound, slotVars, workerVars
<1>7. RingSound'
  BY <1>1, <1>2 DEF IInv, RingSound, slotVars, workerVars, history
<1>8. CallSound'
  BY <1>1 DEF CallSound
<1> QED BY <1>1, <1>3, <1>4, <1>5, <1>6, <1>7, <1>8, Framed
        DEF IInv, slotVars, history

LEMMA StopReturnInv ==
    ASSUME IInv, call \in {"configure", "destroy"}, pc = "off",
           started' = FALSE, active' \in BOOLEAN, eligible' \in BOOLEAN,
           call' \in {"idle", "gone"},
           UNCHANGED <<stop, slotVars, queue, last, workerVars, mine, target,
                       verdict, inflight, history>>
    PROVE  IInv'
<1>1. /\ Busy' = Busy /\ \A j \in Slots : ~Claimed(j)' /\ ~Claimed(j)
  BY DEF Busy, Claimed, workerVars
<1>2. TypeOK'
  BY DEF IInv, TypeOK, slotVars, workerVars, history
<1>3. ThreadSound'
  BY DEF IInv, ThreadSound, workerVars
<1>4. WorkerSound'
  BY <1>1 DEF IInv, WorkerSound, slotVars, workerVars, history
<1>5. OrderSound'
  <2>1. \A n \in DOMAIN queue : queue[n] \in Slots
    BY DEF IInv, TypeOK
  <2> QED BY <1>1, <2>1 DEF IInv, OrderSound, slotVars, workerVars
<1>6. RingSound'
  BY <1>1 DEF IInv, RingSound, slotVars, workerVars, history
<1>7. CallSound'
  BY DEF CallSound
<1> QED BY <1>2, <1>3, <1>4, <1>5, <1>6, <1>7, Framed
        DEF IInv, slotVars, history

-----------------------------------------------------------------------------
(* The theorems. *)

(* A context starts out so. *)
LEMMA InitInv == Init => IInv
<1> SUFFICES ASSUME Init PROVE IInv
  OBVIOUS
<1>1. TypeOK
  <2>1. 0 \in 0..MaxFrames /\ 0 \in 0..last /\ KRing >= 0
    BY RingAssumption DEF Init
  <2>2. queue \in Seq(Slots) /\ Len(queue) <= KRing
    BY <2>1 DEF Init
  <2>3. /\ ticket \in [Slots -> 0..last]
        /\ frame \in [Slots -> 0..last] /\ rgbOut \in [Slots -> 0..last]
    BY <2>1 DEF Init, NoFrame
  <2> QED BY <2>1, <2>2, <2>3 DEF Init, TypeOK, NoSlot, NoFrame
<1>2. ThreadSound
  BY DEF Init, ThreadSound
<1>3. WorkerSound
  BY DEF Init, WorkerSound, Busy
<1>4. OrderSound
  BY DEF Init, OrderSound, Busy
<1>5. RingSound
  BY DEF Init, RingSound
<1>6. CallSound
  BY DEF Init, CallSound
<1>7. TicketsSound
  BY DEF Init, TicketsSound
<1>8. OwnPlanes /\ CollectedMeansWritten
  BY DEF Init, OwnPlanes, CollectedMeansWritten
<1> QED BY <1>1, <1>2, <1>3, <1>4, <1>5, <1>6, <1>7, <1>8 DEF IInv

(* Every step keeps the invariant. *)
LEMMA StepInv == IInv /\ [Next]_vars => IInv'
<1> SUFFICES ASSUME IInv, [Next]_vars PROVE IInv'
  OBVIOUS
<1>1. CASE Worker
  BY <1>1, WorkerTakeInv, WorkerReadInv, WorkerRunInv, WorkerFinishInv,
     WorkerExitInv DEF Worker
<1>2. CASE InCall
  <2>1. CASE ConfigureReturn
    <3>1. active' \in BOOLEAN /\ eligible' \in BOOLEAN
      BY <2>1 DEF ConfigureReturn, BuildPlan, IInv, TypeOK
    <3> QED BY <2>1, <3>1, StopReturnInv DEF ConfigureReturn
  <2>2. CASE DestroyReturn
    <3>1. active' \in BOOLEAN /\ eligible' \in BOOLEAN
      BY <2>2 DEF DestroyReturn, planVars, IInv, TypeOK
    <3> QED BY <2>2, <3>1, StopReturnInv DEF DestroyReturn
  <2> QED BY <1>2, <2>1, <2>2, InferClaimInv, InferColorInv,
             InferColorFailsInv, InferEnqueueInv, FlushInv, WaitPostInv,
             WaitReleaseInv DEF InCall
<1>3. CASE UNCHANGED vars
  <2>1. TypeOK'
    BY SMTT(30), <1>3 DEF IInv, TypeOK, vars, planVars, threadVars, slotVars,
                workerVars, callVars, history
  <2>2. Busy' = Busy
    BY <1>3 DEF Busy, vars, workerVars
  <2> QED BY <1>3, <2>1, <2>2, Framed
          DEF IInv, vars, threadVars, slotVars, workerVars, callVars, history
<1> QED BY <1>1, <1>2, <1>3, InferCallInv, WaitCallInv, PollCompleteInv,
           StopCallInv DEF Next, Filter, ConfigureCall, Gone

(* The inductive invariant: what the worker, the queue, the slots, the     *)
(* call and the filter's tickets say of each other, and where the pixels   *)
(* are.                                                                    *)
THEOREM Invariance == Spec => []IInv
BY InitInv, StepInv, PTL DEF Spec

(* Slots, tickets, queue and worker keep their types; the queue never      *)
(* holds more than the ring.                                               *)
THEOREM TypeCorrect == Spec => []TypeOK
<1>1. IInv => TypeOK
  BY DEF IInv
<1> QED BY <1>1, Invariance, PTL

(* A slot has one user, none is lost, and the result of a frame lands in   *)
(* that frame's planes, whichever thread converts its colours.             *)
THEOREM SlotsAreSound == Spec => []SlotsSound
<1>1. IInv => SlotHasOneUser
  <2> SUFFICES ASSUME IInv PROVE SlotHasOneUser
    OBVIOUS
  <2>1. ASSUME NEW m \in DOMAIN queue, NEW n \in DOMAIN queue, m < n
        PROVE  queue[m] # queue[n]
    <3>1. m \in 1..(n - 1) /\ queue[n] \in Slots
      <4>1. queue \in Seq(Slots)
        BY DEF IInv, TypeOK
      <4> QED BY <2>1, <4>1
    <3>2. ticket[queue[m]] < ticket[queue[n]]
      BY <3>1 DEF IInv, OrderSound
    <3> QED BY <3>1, <3>2 DEF IInv, TypeOK
  <2>2. DOMAIN queue \subseteq Int
    BY DEF IInv, TypeOK
  <2>3. \A m, n \in DOMAIN queue : queue[m] = queue[n] => m = n
    BY <2>1, <2>2
  <2>4. slot # NoSlot => /\ Busy /\ slot \notin Queued
                         /\ state[slot] = "SUBMITTED" /\ ~Claimed(slot)
    BY DEF IInv, WorkerSound, Queued
  <2>5. \A i \in Queued : state[i] = "SUBMITTED" /\ ~Claimed(i)
    BY DEF IInv, OrderSound, Queued
  <2>6. call \in {"color", "enqueue", "release"}
            => mine \in Slots /\ (Claimed(mine) \/ state[mine] = "DONE")
    BY DEF IInv, CallSound, Claimed
  <2>7. call \in {"color", "enqueue", "release"}
            => mine # slot /\ mine \notin Queued
    BY <2>4, <2>5, <2>6, OthersAreNoSlot
  <2> QED BY <2>3, <2>4, <2>5, <2>7 DEF SlotHasOneUser
<1>2. IInv => NoSlotLeak
  BY DEF IInv, RingSound, NoSlotLeak
<1>3. IInv => SlotsSound
  BY <1>1, <1>2 DEF IInv, SlotsSound
<1> QED BY <1>3, Invariance, PTL

(* When aji_wait says AJI_OK the planes have been written, though with     *)
(* colours converted on the CPU the frame was DONE, and aji_done said 1,   *)
(* before they were.                                                       *)
THEOREM CollectedIsWritten == Spec => []CollectedMeansWritten
<1>1. IInv => CollectedMeansWritten
  BY DEF IInv
<1> QED BY <1>1, Invariance, PTL

-----------------------------------------------------------------------------
(* The refinement. *)

(* A frame that ends, in the worker or by a failed conversion in           *)
(* aji_infer, finishes a ticket of the contract, or none if an earlier one *)
(* is open.                                                                *)
LEMMA OverGrows ==
    ASSUME IInv, IInv', last' = last, reported' = reported,
           over \subseteq over'
    PROVE  [Tickets!Next]_(Tickets!vars)
<1>1. /\ last \in Nat /\ over \in SUBSET (1..last)
      /\ over' \in SUBSET (1..last)
  <2>1. last \in Nat
    BY RingAssumption DEF IInv, TypeOK
  <2> QED BY <2>1 DEF IInv, TypeOK
<1>2. /\ Finished = Prefix(over)
      /\ Finished' = Prefix(over')
  <2>1. ASSUME NEW S \in SUBSET (1..last)
        PROVE  {t \in 1..last : 1..t \subseteq S} = Prefix(S)
    <3>1. \A t \in 1..last : t \in 1..t
      OBVIOUS
    <3>2. \A t \in 1..last : 1..t \subseteq S => t \in S
      BY <3>1, Zenon
    <3> QED BY <3>2, Zenon DEF Prefix
  <2> QED BY <1>1, <2>1 DEF Finished
<1>3. Advances(last, Finished, Finished')
  BY <1>1, <1>2, PrefixGrows
<1>4. \/ Finished' = Finished
      \/ \E k \in 1..last : /\ k \notin Finished
                            /\ Finished' = Finished \cup 1..k
  BY <1>3 DEF Advances
<1> QED BY <1>4 DEF Tickets!Next, Tickets!vars, Tickets!Finish

(* An answer is a report of the contract. *)
LEMMA ReportImplements ==
    ASSUME IInv, NEW t \in inflight,
           \A i \in Slots : ticket[i] = t => state[i] = "DONE",
           reported' = reported \cup 1..t, UNCHANGED <<last, over>>
    PROVE  Tickets!Next
<1>1. t \in 1..last /\ 1..t \subseteq over
  BY BehindNone
<1>2. 1..t \subseteq Finished
  <2>1. last \in Nat
    BY RingAssumption DEF IInv, TypeOK
  <2> QED BY <1>1, <2>1 DEF Finished
<1>3. Finished' = Finished
  BY DEF Finished
<1> QED BY <1>1, <1>2, <1>3 DEF Tickets!Next, Tickets!Report

(* Every step is a step of the tickets or leaves them alone. *)
LEMMA StepImplements ==
    ASSUME IInv, IInv', [Next]_vars
    PROVE  [Tickets!Next]_(Tickets!vars)
<1>1. CASE UNCHANGED <<last, over, reported>>
  BY <1>1 DEF Tickets!vars, Finished
<1>2. CASE WorkerFinish \/ InferColorFails
  BY <1>2, OverGrows DEF WorkerFinish, Finishes, InferColorFails
<1>3. CASE Worker /\ ~WorkerFinish
  BY <1>1, <1>3 DEF Worker, WorkerTake, Takes, WorkerRead, WorkerRun,
                    WorkerExit, history
<1>4. CASE InferClaim
  <2>1. last' = last + 1 /\ over' = over /\ reported' = reported
    BY <1>4 DEF InferClaim, Claims, history
  <2>2. last \in Nat /\ over \subseteq 1..last
    BY RingAssumption DEF IInv, TypeOK
  <2>3. Finished' = Finished
    BY <2>1, <2>2 DEF Finished
  <2> QED BY <2>1, <2>3 DEF Tickets!Next, Tickets!Submit
<1>5. CASE WaitCall
  BY <1>1, <1>5 DEF IInv, TicketsSound, WaitCall, WaitGone, WaitBlock
<1>6. CASE WaitRelease
  <2>1. /\ call = "release" /\ UNCHANGED <<last, over>>
        /\ reported' = IF verdict = "ok" THEN reported \cup 1..target
                                         ELSE reported
    BY <1>6 DEF WaitRelease, Releases
  <2>2. /\ target \in inflight
        /\ \A i \in Slots : ticket[i] = target => state[i] = "DONE"
    <3>1. /\ target \in inflight /\ mine \in Slots /\ ticket[mine] = target
          /\ state[mine] = "DONE"
      BY <2>1 DEF IInv, CallSound
    <3>2. target # 0
      BY <3>1 DEF IInv, TypeOK
    <3> QED BY <3>1, <3>2 DEF IInv, RingSound
  <2> QED BY <1>1, <2>1, <2>2, ReportImplements
<1>7. CASE PollComplete
  <2>1. PICK t \in inflight :
            /\ \A i \in Slots : ticket[i] = t => state[i] = "DONE"
            /\ reported' = reported \cup 1..t
    BY <1>7 DEF PollComplete, Polls
  <2>2. UNCHANGED <<last, over>>
    BY <1>7 DEF PollComplete, Polls
  <2> QED BY <2>1, <2>2, ReportImplements
<1>8. CASE InferColor \/ InferEnqueue \/ Flush \/ WaitPost
           \/ ConfigureReturn \/ DestroyReturn
  BY <1>1, <1>8 DEF InferColor, InferEnqueue, Flush, WaitPost, Posts,
                    ConfigureReturn, DestroyReturn, history
<1>9. CASE InferCall \/ ConfigureCall \/ StopCall("destroy") \/ Gone
           \/ UNCHANGED vars
  BY <1>1, <1>9 DEF InferCall, ConfigureCall, StopCall, Gone, vars, history
<1> QED BY <1>2, <1>3, <1>4, <1>5, <1>6, <1>7, <1>8, <1>9
        DEF Next, Filter, InCall

(* The ring implements the tickets of aji.h, with frames that fail anywhere. *)
THEOREM Implements == Spec => ImplementsTickets
<1>1. IInv /\ IInv' /\ [Next]_vars => [Tickets!Next]_(Tickets!vars)
  BY StepImplements
<1>2. Init => Tickets!Init
  BY DEF Init, Tickets!Init, Finished
<1> QED
  BY <1>1, <1>2, Invariance, PTL DEF Spec, ImplementsTickets, Tickets!Spec
=============================================================================
