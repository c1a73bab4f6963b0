-------------------------- MODULE VkPipeline_proofs --------------------------
(***************************************************************************)
(* Proofs about the slot ring of the Vulkan backend, for any number of     *)
(* slots, workers and frames and any depth, in the modes in which frames   *)
(* are collected in the order they finish in (CollectsInOrder). In the     *)
(* others the theorems are false: the run vk_parallel_drain has the        *)
(* counterexample.                                                         *)
(***************************************************************************)
EXTENDS VkPipeline, FiniteSetTheorems, WellFoundedInduction, TLAPS

(* Completion out of order.  Frames may end in any order; a ticket counts  *)
(* as over when its frame and all the earlier ones are.                    *)

(* The tickets of ended that no open ticket is before. *)
Prefix(ended) == {t \in ended : 1..t \subseteq ended}

(* They are the tickets up to some last one. *)
LEMMA LongestPrefix ==
    ASSUME NEW n \in Nat, NEW S \in SUBSET (1..n)
    PROVE  \E k \in 0..n : Prefix(S) = 1..k
<1> DEFINE open == {t \in Nat \ {0} : t \notin S}
<1>1. PICK m \in open : \A t \in open : m <= t
  <2>1. n + 1 \in open
    OBVIOUS
  <2>2. open \subseteq Nat
    OBVIOUS
  <2> HIDE DEF open
  <2>3. PICK m \in open : \A t \in open : ~(<<t, m>> \in OpToRel(<, Nat))
    BY <2>1, <2>2, NatLessThanWellFounded, WFMin
  <2>4. \A t \in open : ~(t < m)
    BY <2>2, <2>3 DEF OpToRel
  <2> QED BY <2>2, <2>4
<1>2. m \in Nat \ {0} /\ m \notin S
  OBVIOUS
<1>3. \A t \in 1..(m - 1) : t \in S
  BY <1>1
<1>4. m - 1 \in 0..n
  <2>1. n + 1 \in open
    OBVIOUS
  <2> QED BY <1>1, <1>2, <2>1
<1>5. Prefix(S) = 1..(m - 1)
  <2> HIDE DEF open
  <2>1. ASSUME NEW t \in Prefix(S) PROVE t \in 1..(m - 1)
    <3>1. t \in Nat \ {0} /\ 1..t \subseteq S
      BY <2>1 DEF Prefix
    <3> QED BY <1>2, <3>1
  <2>2. ASSUME NEW t \in 1..(m - 1) PROVE t \in Prefix(S)
    <3>1. t \in S /\ 1..t \subseteq S
      BY <1>2, <1>3
    <3> QED BY <3>1 DEF Prefix
  <2> QED BY <2>1, <2>2
<1> QED BY <1>4, <1>5

(* From before to after, one more of n tickets is over, and with it all    *)
(* the earlier ones; or none is.                                           *)
Advances(n, before, after) ==
    \/ after = before
    \/ \E k \in 1..n : k \notin before /\ after = before \cup 1..k

(* When more frames end, the tickets that are over take a Finish step or   *)
(* none.                                                                   *)
LEMMA PrefixGrows ==
    ASSUME NEW n \in Nat, NEW S \in SUBSET (1..n), NEW T \in SUBSET (1..n),
           S \subseteq T
    PROVE  Advances(n, Prefix(S), Prefix(T))
<1>1. PICK k \in 0..n : Prefix(T) = 1..k
  BY LongestPrefix
<1>2. Prefix(S) \subseteq Prefix(T)
  BY DEF Prefix
<1>3. CASE k \in Prefix(S) \/ k = 0
  <2>1. 1..k \subseteq Prefix(S)
    BY <1>3 DEF Prefix
  <2> QED BY <1>1, <1>2, <2>1 DEF Advances
<1>4. CASE k \notin Prefix(S) /\ k # 0
  BY <1>1, <1>2, <1>4 DEF Advances
<1> QED BY <1>3, <1>4

(* A queue that names no slot twice is no longer than the ring.            *)
LEMMA QueueFits ==
    ASSUME NEW n \in Nat, NEW q \in Seq(0..(n - 1)),
           \A i, j \in 1..Len(q) : q[i] = q[j] => i = j
    PROVE  Len(q) <= n
<1> DEFINE S == 0..(n - 1)
<1>1. IsFiniteSet(S) /\ Cardinality(S) = n
  BY FS_Interval
<1>2. q \in [1..Len(q) -> S] /\ Len(q) \in Nat
  OBVIOUS
<1>3. IsFiniteSet(1..Len(q)) /\ Cardinality(1..Len(q)) = Len(q)
  <2> SUFFICES \A k \in Nat : IsFiniteSet(1..k) /\ Cardinality(1..k) = k
    BY <1>2
  <2> TAKE k \in Nat
  <2>1. 1 \in Int /\ k \in Int
    OBVIOUS
  <2>2. /\ IsFiniteSet(1..k)
        /\ Cardinality(1..k) = IF 1 > k THEN 0 ELSE k - 1 + 1
    BY ONLY <2>1, FS_Interval
  <2> QED BY <2>2
<1> SUFFICES ASSUME n < Len(q) PROVE FALSE
  BY <1>2
<1> DEFINE D == 1..Len(q)
<1>4. /\ IsFiniteSet(D) /\ IsFiniteSet(S) /\ q \in [D -> S]
      /\ Cardinality(S) < Cardinality(D)
  BY <1>1, <1>2, <1>3
<1> HIDE DEF D, S
<1>5. \E i, j \in D : i # j /\ q[i] = q[j]
  BY ONLY <1>4, FS_PigeonHole
<1> QED BY <1>5 DEF D

-----------------------------------------------------------------------------
(* What the parts of the invariant are about. *)

(* Steps that leave alone what a part of the invariant is about keep it. *)
LEMMA Framed ==
    /\ ThreadsSound
       /\ UNCHANGED <<mode, resizes, started, stop, workq, counter, pc, call>>
       => ThreadsSound'
    /\ WorkersSound
       /\ UNCHANGED <<mode, resizes, gp, state, frame, pc, slot, src>>
       => WorkersSound'
    /\ QueueSound /\ UNCHANGED <<state, ticket, workq>> => QueueSound'
    /\ RingSound
       /\ UNCHANGED <<state, ticket, frame, workq, counter, slot, call, mine,
                      inflight, finished>>
       => RingSound'
    /\ CallSound
       /\ UNCHANGED <<mode, state, ticket, frame, counter, call, mine, target,
                      inflight>>
       => CallSound'
    /\ TicketsSound
       /\ UNCHANGED <<mode, state, ticket, counter, finished, reported>>
       => TicketsSound'
    /\ OwnPlanes /\ UNCHANGED written => OwnPlanes'
    /\ OwnColours /\ UNCHANGED <<mode, written>> => OwnColours'
    /\ CompleteMeansFinished /\ UNCHANGED <<finished, reported>>
       => CompleteMeansFinished'
<1>1. ThreadsSound
       /\ UNCHANGED <<mode, resizes, started, stop, workq, counter, pc, call>>
       => ThreadsSound'
  BY DEF ThreadsSound, Started
<1>2. WorkersSound
       /\ UNCHANGED <<mode, resizes, gp, state, frame, pc, slot, src>>
       => WorkersSound'
  BY DEF WorkersSound, Busy
<1>3. QueueSound /\ UNCHANGED <<state, ticket, workq>> => QueueSound'
  BY DEF QueueSound
<1>4. RingSound
       /\ UNCHANGED <<state, ticket, frame, workq, counter, slot, call, mine,
                      inflight, finished>>
       => RingSound'
  BY DEF RingSound, Claimed
<1>5. CallSound
       /\ UNCHANGED <<mode, state, ticket, frame, counter, call, mine, target,
                      inflight>>
       => CallSound'
  BY DEF CallSound, Asks
<1>6. TicketsSound
       /\ UNCHANGED <<mode, state, ticket, counter, finished, reported>>
       => TicketsSound'
  BY DEF TicketsSound, Held
<1>7. OwnPlanes /\ UNCHANGED written => OwnPlanes'
  BY DEF OwnPlanes
<1>8. OwnColours /\ UNCHANGED <<mode, written>> => OwnColours'
  BY DEF OwnColours
<1>9. CompleteMeansFinished /\ UNCHANGED <<finished, reported>>
       => CompleteMeansFinished'
  BY DEF CompleteMeansFinished
<1> QED BY <1>1, <1>2, <1>3, <1>4, <1>5, <1>6, <1>7, <1>8, <1>9

(* A worker that has a slot is busy with it. *)
LEMMA IdleHasNone ==
    ASSUME WorkersSound, NEW w \in Workers
    PROVE  /\ ~Busy(w) => slot[w] \notin Slots
           /\ slot[w] \in Slots => state[slot[w]] = "RUNNING"
<1>1. NoSlot \notin Slots
  BY DEF NoSlot, Slots
<1> QED BY <1>1 DEF WorkersSound

-----------------------------------------------------------------------------
(* Workers. *)

LEMMA WorkerTakeInv ==
    ASSUME IInv, NEW w \in Workers, WorkerTake(w)
    PROVE  IInv'
<1> DEFINE i == workq[1]
           rest == Tail(workq)
<1>1. /\ workq \in Seq(Slots) /\ Len(workq) \in 1..KRing
      /\ DOMAIN workq = 1..Len(workq)
      /\ i = Head(workq) /\ i \in Slots
      /\ rest \in Seq(Slots) /\ Len(rest) = Len(workq) - 1
      /\ DOMAIN rest = 1..(Len(workq) - 1)
      /\ \A n \in 1..(Len(workq) - 1) : rest[n] = workq[n + 1]
  BY RingAssumption DEF IInv, TypeOK, WorkerTake
<1>2. /\ pc[w] = "idle" /\ pc' = [pc EXCEPT ![w] = "read"]
      /\ slot' = [slot EXCEPT ![w] = i]
      /\ state' = [state EXCEPT ![i] = "RUNNING"]
      /\ workq' = rest
      /\ UNCHANGED <<planVars, threadVars, ticket, frame, counter, src,
                     callVars, inflight, history>>
  BY <1>1 DEF WorkerTake, Takes
<1>3. /\ state \in [Slots -> {"FREE", "SUBMITTED", "RUNNING", "DONE"}]
      /\ ticket \in [Slots -> 0..MaxFrames]
      /\ pc \in [Workers -> {"off", "idle", "read", "write", "finish"}]
      /\ slot \in [Workers -> Slots \cup {NoSlot}]
  BY DEF IInv, TypeOK
<1>4. state[i] = "SUBMITTED" /\ ticket[i] # 0
  BY <1>1 DEF IInv, QueueSound
<1>5. /\ ~Claimed(i) /\ \A v \in Workers : slot[v] # i
      /\ slot[w] \notin Slots
  <2>1. ~Claimed(i)
    BY <1>1, <1>4 DEF IInv, RingSound
  <2>2. \A v \in Workers : slot[v] # i
    BY <1>1, <1>4, IdleHasNone DEF IInv
  <2> QED BY <1>2, <2>1, <2>2, IdleHasNone DEF IInv, Busy
<1>6. \A n \in 1..(Len(workq) - 1) :
          /\ rest[n] \in Slots /\ ticket[i] < ticket[rest[n]]
          /\ rest[n] # i
          /\ \A m \in 1..(n - 1) : ticket[rest[m]] < ticket[rest[n]]
  <2> SUFFICES ASSUME NEW n \in 1..(Len(workq) - 1)
               PROVE  /\ rest[n] \in Slots /\ ticket[i] < ticket[rest[n]]
                      /\ \A m \in 1..(n - 1) :
                             ticket[rest[m]] < ticket[rest[n]]
    BY <1>1, <1>3
  <2>1. /\ n + 1 \in 1..Len(workq)
        /\ \A m \in 1..n : m \in Nat /\ ticket[workq[m]] < ticket[workq[n + 1]]
    BY <1>1 DEF IInv, QueueSound
  <2> QED BY <1>1, <2>1
<1> HIDE DEF i, rest
<1>7. TypeOK'
  <2>1. Looks' = Looks
    BY <1>2 DEF planVars, Looks
  <2>2. workq' \in Seq(Slots) /\ Len(workq') <= KRing
    BY <1>1, <1>2, RingAssumption
  <2>3. /\ state' \in [Slots -> {"FREE", "SUBMITTED", "RUNNING", "DONE"}]
        /\ pc' \in [Workers -> {"off", "idle", "read", "write", "finish"}]
        /\ slot' \in [Workers -> Slots \cup {NoSlot}]
    BY <1>1, <1>2, <1>3
  <2> QED BY SMTT(30), <1>2, <2>1, <2>2, <2>3
          DEF IInv, TypeOK, planVars, threadVars, callVars, history
<1>8. ThreadsSound'
  <2>1. started /\ \A v \in Started : pc[v] # "off"
    BY <1>1 DEF IInv, ThreadsSound
  <2>2. Started' = Started
    BY <1>2 DEF Started, planVars
  <2> QED BY <1>2, <1>3, <2>1, <2>2
          DEF IInv, ThreadsSound, threadVars, callVars
<1>9. WorkersSound'
  BY <1>1, <1>2, <1>3, <1>5 DEF IInv, WorkersSound, Busy, planVars
<1>10. QueueSound'
  <2> SUFFICES ASSUME NEW n \in 1..(Len(workq) - 1)
               PROVE  /\ state'[rest[n]] = "SUBMITTED" /\ ticket[rest[n]] # 0
                      /\ \A j \in Slots : state'[j] \in {"RUNNING", "DONE"} =>
                             ticket[j] < ticket[rest[n]]
    BY <1>1, <1>2, <1>6 DEF QueueSound
  <2>1. n + 1 \in DOMAIN workq /\ rest[n] = workq[n + 1]
    BY <1>1
  <2> QED BY <1>1, <1>2, <1>3, <1>6, <2>1 DEF IInv, QueueSound
<1>11. RingSound'
  <2>1. ASSUME NEW j \in Slots, j # i, state[j] = "SUBMITTED", ~Claimed(j)
        PROVE  \E n \in DOMAIN rest : rest[n] = j
    <3>1. PICK n \in 1..Len(workq) : workq[n] = j
      BY <1>1, <2>1 DEF IInv, RingSound
    <3>2. n # 1
      BY <2>1, <3>1 DEF i
    <3>3. n - 1 \in 1..(Len(workq) - 1) /\ (n - 1) + 1 = n
      BY <1>1, <3>2
    <3> QED BY <1>1, <3>1, <3>3
  <2>2. \A j \in Slots : state[j] = "RUNNING" =>
            \E v \in Workers : slot'[v] = j
    BY <1>2, <1>3, <1>5 DEF IInv, RingSound
  <2>3. \A j \in Slots : Claimed(j)' = Claimed(j)
    BY <1>2 DEF Claimed, callVars
  <2> QED BY SMTT(30), <1>1, <1>2, <1>3, <1>4, <1>5, <2>1, <2>2, <2>3
          DEF IInv, RingSound, callVars, history
<1>12. CallSound'
  BY <1>1, <1>2, <1>3, <1>5
     DEF IInv, CallSound, Claimed, Asks, callVars, planVars
<1>13. TicketsSound'
  <2>1. \A j \in Slots : state[j] = "DONE" => ticket[j] < ticket[i]
    BY <1>1 DEF IInv, QueueSound, i
  <2>2. \A j \in Slots :
            /\ state'[j] = "DONE" <=> state[j] = "DONE"
            /\ state'[j] = "RUNNING" => state[j] = "RUNNING" \/ j = i
    BY <1>1, <1>2, <1>3, <1>4
  <2>3. UNCHANGED <<mode, ticket, counter, finished, reported>>
    BY <1>2 DEF planVars, history
  <2> QED BY SMTT(30), <2>1, <2>2, <2>3 DEF IInv, TicketsSound, Held
<1> QED BY <1>2, <1>7, <1>8, <1>9, <1>10, <1>11, <1>12, <1>13, Framed
        DEF IInv, planVars, history

(* A worker that is done with the planes, one way or the other. *)
LEMMA FinishingKeepsThreads ==
    ASSUME IInv, NEW w \in Workers,
           pc[w] = "write", pc' = [pc EXCEPT ![w] = "finish"],
           UNCHANGED <<planVars, threadVars, ringVars, counter, slot, src,
                       call>>
    PROVE  ThreadsSound' /\ WorkersSound'
<1>1. /\ Started' = Started
      /\ UNCHANGED <<mode, resizes, gp, started, stop, state, frame, workq>>
  BY DEF Started, planVars, threadVars, ringVars
<1>2. /\ \A v \in Workers : Busy(v)' = Busy(v)
      /\ \A v \in Workers : v # w => pc'[v] = pc[v]
      /\ pc'[w] = "finish"
  BY DEF Busy, IInv, TypeOK
<1>3. ThreadsSound'
  BY <1>1, <1>2 DEF IInv, ThreadsSound
<1>4. WorkersSound'
  BY <1>1, <1>2 DEF IInv, WorkersSound, Busy
<1> QED BY <1>3, <1>4

LEMMA WorkerReadInv ==
    ASSUME IInv, NEW w \in Workers, WorkerRead(w), CollectsInOrder(mode)
    PROVE  IInv'
<1> DEFINE i == slot[w]
           look == mode.looks[frame[i]]
<1>1. /\ pc[w] = "read" /\ pc' = [pc EXCEPT ![w] = "write"]
      /\ src' = [src EXCEPT ![w] = frame[i]]
      /\ gp' = IF resizes THEN gp ELSE look
      /\ UNCHANGED <<mode, active, resizes, threadVars, ringVars, counter,
                     slot, callVars, inflight, history>>
  BY DEF WorkerRead, GpBuilt
<1>2. /\ pc \in [Workers -> {"off", "idle", "read", "write", "finish"}]
      /\ slot \in [Workers -> Slots \cup {NoSlot}]
      /\ src \in [Workers -> 0..MaxFrames]
      /\ frame \in [Slots -> 0..MaxFrames]
      /\ ticket \in [Slots -> 0..MaxFrames]
  BY DEF IInv, TypeOK
<1>3. i \in Slots /\ state[i] = "RUNNING"
  BY <1>1 DEF IInv, WorkersSound, Busy
<1>4. frame[i] = ticket[i] /\ frame[i] \in Frames
  <2>1. ticket[i] # 0
    BY <1>3 DEF IInv, RingSound, CallSound, Claimed
  <2> QED BY <1>2, <1>3, <2>1 DEF IInv, RingSound, Frames
<1> HIDE DEF i, look
<1>5. TypeOK'
  <2>1. look \in Looks /\ Looks' = Looks
    BY <1>1, <1>4 DEF Looks, look
  <2>2. /\ pc' \in [Workers -> {"off", "idle", "read", "write", "finish"}]
        /\ src' \in [Workers -> 0..MaxFrames]
    BY <1>1, <1>2, <1>3
  <2> QED BY <1>1, <2>1, <2>2
          DEF IInv, TypeOK, threadVars, ringVars, callVars, history
<1>6. ThreadsSound'
  <2>1. /\ Started' = Started
        /\ UNCHANGED <<mode, started, stop, workq, counter, call>>
    BY <1>1 DEF Started, threadVars, ringVars, callVars
  <2> QED BY <1>1, <1>2, <2>1 DEF IInv, ThreadsSound
<1>7. WorkersSound'
  <2>1. /\ UNCHANGED <<mode, resizes, state, frame, slot>>
        /\ \A v \in Workers : Busy(v)' = Busy(v)
        /\ \A v \in Workers : v # w => pc'[v] = pc[v] /\ src'[v] = src[v]
        /\ src'[w] = frame[slot[w]] /\ pc'[w] = "write"
    BY <1>1, <1>2 DEF ringVars, Busy, i
  <2>2. ASSUME NEW v \in Workers, pc'[v] = "write", ~resizes
        PROVE  gp' = mode.looks[src'[v]]
    <3>1. CASE v = w
      BY <1>1, <2>1, <2>2, <3>1 DEF look, i
    <3>2. CASE v # w
      <4>1. pc[v] = "write" /\ src'[v] = frame[slot[v]] /\ slot[v] \in Slots
            /\ state[slot[v]] = "RUNNING"
        BY <2>1, <2>2, <3>2 DEF IInv, WorkersSound, Busy
      <4>2. mode.workers # 1
        BY <1>1, <3>2, <4>1 DEF IInv, ThreadsSound, Started
      <4>3. frame[slot[v]] \in Frames
        <5>1. ticket[slot[v]] # 0
          BY <4>1 DEF IInv, RingSound, CallSound, Claimed
        <5> QED BY <1>2, <4>1, <5>1 DEF IInv, RingSound, Frames
      <4> QED BY <1>1, <1>4, <2>2, <4>1, <4>2, <4>3
              DEF CollectsInOrder, look
    <3> QED BY <3>1, <3>2
  <2> QED BY <2>1, <2>2 DEF IInv, WorkersSound, Busy
<1> QED BY <1>1, <1>5, <1>6, <1>7, Framed
        DEF IInv, threadVars, ringVars, callVars, history

LEMMA WorkerWriteInv ==
    ASSUME IInv, NEW w \in Workers, WorkerWrite(w)
    PROVE  IInv'
<1> DEFINE i == slot[w]
           look == IF resizes THEN mode.looks[frame[i]] ELSE gp
<1>1. /\ pc[w] = "write" /\ pc' = [pc EXCEPT ![w] = "finish"]
      /\ written' = written \cup {<<src[w], frame[i], look>>}
      /\ UNCHANGED <<planVars, threadVars, ringVars, counter, slot, src,
                     callVars, inflight, reported, finished>>
  BY DEF WorkerWrite
<1>2. /\ pc \in [Workers -> {"off", "idle", "read", "write", "finish"}]
      /\ src \in [Workers -> 0..MaxFrames]
      /\ frame \in [Slots -> 0..MaxFrames]
      /\ ticket \in [Slots -> 0..MaxFrames]
  BY DEF IInv, TypeOK
<1>3. /\ i \in Slots /\ state[i] = "RUNNING" /\ src[w] = frame[i]
      /\ look = mode.looks[frame[i]]
  BY <1>1 DEF IInv, WorkersSound, Busy
<1>4. frame[i] \in Frames
  <2>1. ticket[i] # 0
    BY <1>3 DEF IInv, RingSound, CallSound, Claimed
  <2> QED BY <1>2, <1>3, <2>1 DEF IInv, RingSound, Frames
<1> HIDE DEF i, look
<1>5. TypeOK'
  <2>1. look \in Looks /\ Looks' = Looks
    BY <1>1, <1>3, <1>4 DEF Looks, planVars
  <2>2. pc' \in [Workers -> {"off", "idle", "read", "write", "finish"}]
    BY <1>1, <1>2
  <2>3. written' \subseteq (0..MaxFrames) \X Frames \X Looks
    BY <1>1, <1>2, <1>4, <2>1 DEF IInv, TypeOK
  <2> QED BY SMTT(30), <1>1, <2>1, <2>2, <2>3
          DEF IInv, TypeOK, planVars, threadVars, ringVars, callVars
<1>6. ThreadsSound' /\ WorkersSound'
  BY <1>1, FinishingKeepsThreads DEF callVars
<1>7. OwnPlanes' /\ OwnColours'
  BY <1>1, <1>3 DEF IInv, OwnPlanes, OwnColours, planVars
<1> QED BY <1>1, <1>5, <1>6, <1>7, Framed
        DEF IInv, planVars, threadVars, ringVars, callVars

LEMMA WorkerFailsInv ==
    ASSUME IInv, NEW w \in Workers, WorkerFails(w)
    PROVE  IInv'
<1>1. /\ pc[w] = "write" /\ pc' = [pc EXCEPT ![w] = "finish"]
      /\ UNCHANGED <<planVars, threadVars, ringVars, counter, slot, src,
                     callVars, inflight, history>>
  BY DEF WorkerFails
<1>2. TypeOK'
  <2>1. Looks' = Looks
    BY <1>1 DEF Looks, planVars
  <2> QED BY SMTT(30), <1>1, <2>1
            DEF IInv, TypeOK, planVars, threadVars, ringVars,
                            callVars, history
<1>3. ThreadsSound' /\ WorkersSound'
  BY <1>1, FinishingKeepsThreads DEF callVars
<1> QED BY <1>1, <1>2, <1>3, Framed
        DEF IInv, planVars, threadVars, ringVars, callVars, history

LEMMA WorkerFinishInv ==
    ASSUME IInv, NEW w \in Workers, WorkerFinish(w)
    PROVE  IInv'
<1> DEFINE i == slot[w]
<1>1. /\ pc[w] = "finish" /\ pc' = [pc EXCEPT ![w] = "idle"]
      /\ state' = [state EXCEPT ![i] = "DONE"]
      /\ finished' = finished \cup {src[w]}
      /\ slot' = [slot EXCEPT ![w] = NoSlot]
      /\ src' = [src EXCEPT ![w] = NoFrame]
      /\ UNCHANGED <<planVars, threadVars, ticket, frame, workq, counter,
                     callVars, inflight, reported, written>>
  BY DEF WorkerFinish
<1>2. /\ pc \in [Workers -> {"off", "idle", "read", "write", "finish"}]
      /\ state \in [Slots -> {"FREE", "SUBMITTED", "RUNNING", "DONE"}]
      /\ slot \in [Workers -> Slots \cup {NoSlot}]
      /\ src \in [Workers -> 0..MaxFrames]
      /\ ticket \in [Slots -> 0..MaxFrames]
      /\ finished \subseteq 0..MaxFrames /\ counter \in 0..MaxFrames
  BY DEF IInv, TypeOK
<1>3. /\ i \in Slots /\ state[i] = "RUNNING" /\ src[w] = frame[i]
      /\ \A v \in Workers : slot[v] = i => v = w
      /\ ~Claimed(i)
  <2>1. /\ i \in Slots /\ state[i] = "RUNNING" /\ src[w] = frame[i]
    BY <1>1 DEF IInv, WorkersSound, Busy
  <2>2. \A v \in Workers : slot[v] = i => v = w
    BY <1>1, <2>1, IdleHasNone DEF IInv, WorkersSound, Busy
  <2>3. ~Claimed(i)
    BY <2>1 DEF IInv, CallSound, Claimed
  <2> QED BY <2>1, <2>2, <2>3
<1>4. src[w] = ticket[i] /\ ticket[i] \in 1..counter
  BY <1>2, <1>3 DEF IInv, RingSound
<1> HIDE DEF i
<1>5. TypeOK'
  <2>1. Looks' = Looks
    BY <1>1 DEF planVars, Looks
  <2>2. /\ pc' \in [Workers -> {"off", "idle", "read", "write", "finish"}]
        /\ state' \in [Slots -> {"FREE", "SUBMITTED", "RUNNING", "DONE"}]
        /\ slot' \in [Workers -> Slots \cup {NoSlot}]
    BY <1>1, <1>2, <1>3
  <2>3. src' \in [Workers -> 0..MaxFrames]
    BY <1>1, <1>2, RingAssumption DEF NoFrame
  <2>4. finished' \subseteq 0..MaxFrames
    BY <1>1, <1>2
  <2> QED BY SMTT(30), <1>1, <2>1, <2>2, <2>3, <2>4
          DEF IInv, TypeOK, planVars, threadVars, callVars
<1>6. ThreadsSound'
  <2>1. Started' = Started
    BY <1>1 DEF Started, planVars
  <2> QED BY <1>1, <1>2, <2>1
          DEF IInv, ThreadsSound, planVars, threadVars, callVars
<1>7. WorkersSound'
  <2>1. /\ \A v \in Workers : v # w => /\ pc'[v] = pc[v] /\ src'[v] = src[v]
                                       /\ slot'[v] = slot[v] /\ slot[v] # i
                                       /\ Busy(v)' = Busy(v)
        /\ pc'[w] = "idle" /\ slot'[w] = NoSlot
        /\ \A j \in Slots : j # i => state'[j] = state[j]
    BY <1>1, <1>2, <1>3 DEF Busy
  <2> QED BY <1>1, <2>1 DEF IInv, WorkersSound, Busy, planVars
<1>8. QueueSound'
  BY <1>1, <1>2, <1>3 DEF IInv, QueueSound
<1>9. RingSound'
  <2>1. \A j \in Slots : state'[j] = "RUNNING" =>
            \E v \in Workers : slot'[v] = j
    <3> SUFFICES ASSUME NEW j \in Slots, j # i, state[j] = "RUNNING"
                 PROVE  \E v \in Workers : slot'[v] = j
      BY <1>1, <1>2
    <3>1. PICK v \in Workers : slot[v] = j
      BY DEF IInv, RingSound
    <3>2. v # w
      BY <3>1 DEF i
    <3> QED BY <1>1, <1>2, <3>1, <3>2
  <2>2. \A j \in Slots : Claimed(j)' = Claimed(j)
    BY <1>1 DEF Claimed, callVars
  <2> QED BY <1>1, <1>2, <1>3, <1>4, <2>1, <2>2 DEF IInv, RingSound, callVars
<1>10. CallSound'
  BY <1>1, <1>2, <1>3 DEF IInv, CallSound, Claimed, Asks, callVars, planVars
<1>11. TicketsSound'
  <2>1. \A t \in 1..counter : t \notin finished' =>
            \E j \in Slots : ticket[j] = t /\ state'[j] # "DONE"
    BY <1>1, <1>2, <1>4 DEF IInv, TicketsSound
  <2>2. mode.workers = 1 => \A j \in Slots : state'[j] # "RUNNING"
    <3> SUFFICES ASSUME mode.workers = 1, NEW j \in Slots, j # i,
                        state[j] = "RUNNING"
                 PROVE  FALSE
      BY <1>1, <1>2
    <3>1. PICK v \in Workers : slot[v] = j
      BY DEF IInv, RingSound
    <3>2. v = 1 /\ w = 1
      BY <1>1, <3>1, IdleHasNone DEF IInv, Busy, ThreadsSound, Started
    <3> QED BY <3>1, <3>2 DEF i
  <2>3. \A t \in finished' \cup reported' : t \in 1..counter
    BY <1>1, <1>4 DEF IInv, TicketsSound
  <2>4. \A t \in 1..counter : Held(t)' = Held(t)
    BY <1>1 DEF Held
  <2> QED BY <1>1, <2>1, <2>2, <2>3, <2>4 DEF IInv, TicketsSound, planVars
<1>12. CompleteMeansFinished'
  BY <1>1 DEF IInv, CompleteMeansFinished
<1> QED BY <1>1, <1>5, <1>6, <1>7, <1>8, <1>9, <1>10, <1>11, <1>12, Framed
        DEF IInv, planVars

LEMMA WorkerExitInv ==
    ASSUME IInv, NEW w \in Workers, WorkerExit(w)
    PROVE  IInv'
<1>1. /\ pc[w] = "idle" /\ pc' = [pc EXCEPT ![w] = "off"]
      /\ stop /\ workq = << >>
      /\ UNCHANGED <<planVars, threadVars, ringVars, counter, slot, src,
                     callVars, inflight, history>>
  BY DEF WorkerExit, Exits
<1>2. pc \in [Workers -> {"off", "idle", "read", "write", "finish"}]
  BY DEF IInv, TypeOK
<1>3. TypeOK'
  <2>1. Looks' = Looks
    BY <1>1 DEF Looks, planVars
  <2> QED BY SMTT(30), <1>1, <2>1
            DEF IInv, TypeOK, planVars, threadVars, ringVars,
                            callVars, history
<1>4. ThreadsSound'
  <2>1. Started' = Started
    BY <1>1 DEF Started, planVars
  <2> QED BY <1>1, <1>2, <2>1 DEF IInv, ThreadsSound, planVars, threadVars,
                                  ringVars, callVars
<1>5. WorkersSound'
  <2>1. \A v \in Workers : /\ Busy(v)' = Busy(v)
                           /\ Busy(v) => pc'[v] = pc[v]
    BY <1>1, <1>2 DEF Busy
  <2> QED BY <1>1, <2>1 DEF IInv, WorkersSound, Busy, planVars, ringVars
<1> QED BY <1>1, <1>3, <1>4, <1>5, Framed
        DEF IInv, planVars, threadVars, ringVars, callVars, history

-----------------------------------------------------------------------------
(* The filter's calls. *)

LEMMA InferCallInv ==
    ASSUME IInv, InferCall
    PROVE  IInv'
<1>1. /\ call = "idle" /\ call' = "claim" /\ counter < MaxFrames
      /\ EnsureWorkers
      /\ UNCHANGED <<planVars, ringVars, counter, slot, src, mine, target,
                     inflight, history>>
  BY DEF InferCall
<1>2. /\ mode \in Modes /\ mode.workers \in 1..MaxWorkers
      /\ pc \in [Workers -> {"off", "idle", "read", "write", "finish"}]
  BY RingAssumption DEF IInv, TypeOK
<1>3. /\ started' = TRUE /\ stop' = FALSE
      /\ pc' \in [Workers -> {"off", "idle", "read", "write", "finish"}]
      /\ \A w \in Workers : Busy(w)' = Busy(w) /\ (Busy(w) => pc'[w] = pc[w])
      /\ \A w \in Workers : w \notin Started => pc'[w] = "off"
      /\ \A w \in Started : pc'[w] # "off"
  <2>1. CASE started
    <3>1. /\ started' = TRUE /\ stop' = FALSE /\ pc' = pc
      BY <1>1, <2>1 DEF EnsureWorkers, threadVars, IInv, ThreadsSound, TypeOK
    <3> QED BY <1>1, <1>2, <2>1, <3>1 DEF Busy, IInv, ThreadsSound
  <2>2. CASE ~started
    <3> DEFINE n == IF resizes THEN 1 ELSE mode.workers
    <3>1. /\ started' = TRUE /\ stop' = FALSE
          /\ pc' = [w \in Workers |-> IF w <= n THEN "idle" ELSE "off"]
      BY <1>1, <2>2 DEF EnsureWorkers
    <3>2. \A w \in Workers : (w <= n <=> w \in Started)
      BY <1>2 DEF Started, Workers
    <3>3. Started \subseteq Workers
      BY <1>2, RingAssumption DEF Started, Workers
    <3>4. \A w \in Workers : pc[w] = "off"
      BY <2>2 DEF IInv, ThreadsSound
    <3> HIDE DEF n
    <3> QED BY <3>1, <3>2, <3>3, <3>4 DEF Busy
  <2> QED BY <2>1, <2>2
<1>4. TypeOK'
  <2>1. Looks' = Looks
    BY <1>1 DEF Looks, planVars
  <2>2. stop' \in BOOLEAN
    BY <1>3
  <2> QED BY SMTT(30), <1>1, <1>3, <2>1, <2>2
          DEF IInv, TypeOK, planVars, ringVars, history
<1>5. ThreadsSound'
  <2>1. Started' = Started
    BY <1>1 DEF Started, planVars
  <2> QED BY <1>1, <1>3, <2>1 DEF IInv, ThreadsSound, planVars, ringVars
<1>6. WorkersSound'
  BY <1>1, <1>3 DEF IInv, WorkersSound, Busy, planVars, ringVars
<1>7. RingSound'
  <2>1. \A j \in Slots : Claimed(j)' = Claimed(j)
    BY <1>1 DEF Claimed
  <2> QED BY <1>1, <2>1 DEF IInv, RingSound, ringVars, history
<1>8. CallSound'
  BY <1>1 DEF IInv, CallSound, ringVars
<1> QED BY <1>1, <1>4, <1>5, <1>6, <1>7, <1>8, Framed
        DEF IInv, planVars, ringVars, history

LEMMA InferClaimInv ==
    ASSUME IInv, InferClaim
    PROVE  IInv'
<1>1. PICK i \in Slots :
          /\ call = "claim" /\ call' = "fill" /\ mine' = i
          /\ state[i] = "FREE" /\ state' = [state EXCEPT ![i] = "SUBMITTED"]
          /\ UNCHANGED <<planVars, threadVars, ticket, frame, workq, counter,
                         workerVars, target, inflight, history>>
  BY DEF InferClaim
<1>2. state \in [Slots -> {"FREE", "SUBMITTED", "RUNNING", "DONE"}]
  BY DEF IInv, TypeOK
<1>3. ticket[i] = 0
  BY <1>1 DEF IInv, RingSound
<1>4. TypeOK'
  <2>1. Looks' = Looks
    BY <1>1 DEF Looks, planVars
  <2>2. state' \in [Slots -> {"FREE", "SUBMITTED", "RUNNING", "DONE"}]
    BY <1>1, <1>2
  <2> QED BY SMTT(30), <1>1, <2>1, <2>2
          DEF IInv, TypeOK, planVars, threadVars, workerVars, history
<1>5. ThreadsSound'
  <2>1. Started' = Started
    BY <1>1 DEF Started, planVars
  <2> QED BY <1>1, <2>1
          DEF IInv, ThreadsSound, planVars, threadVars, workerVars
<1>6. \A j \in Slots : state[j] # "FREE" => j # i /\ state'[j] = state[j]
  BY <1>1, <1>2
<1>7. WorkersSound'
  BY <1>1, <1>6 DEF IInv, WorkersSound, Busy, planVars, workerVars
<1>8. QueueSound'
  <2>1. \A n \in DOMAIN workq : workq[n] \in Slots
    BY DEF IInv, TypeOK
  <2> QED BY <1>1, <1>2, <1>6, <2>1 DEF IInv, QueueSound
<1>9. RingSound'
  <2>1. /\ \A j \in Slots : Claimed(j)' <=> j = i
        /\ \A j \in Slots : ~Claimed(j)
    BY <1>1 DEF Claimed
  <2> QED BY <1>1, <1>2, <1>3, <2>1
          DEF IInv, RingSound, workerVars, history
<1>10. CallSound'
  BY <1>1, <1>2 DEF IInv, CallSound
<1>11. TicketsSound'
  <2>1. \A t \in 1..counter : t \notin finished' =>
            \E j \in Slots : ticket[j] = t /\ state'[j] # "DONE"
    BY <1>1, <1>2 DEF IInv, TicketsSound, history
  <2>2. \A t \in 1..counter : Held(t)' = Held(t)
    BY <1>1 DEF Held
  <2>3. mode.workers = 1 => \A a, b \in Slots :
            state'[a] = "RUNNING" /\ state'[b] = "DONE"
               => ticket[b] < ticket[a]
    BY <1>1, <1>2 DEF IInv, TicketsSound
  <2> QED BY <1>1, <2>1, <2>2, <2>3
          DEF IInv, TicketsSound, planVars, history
<1> QED BY <1>1, <1>4, <1>5, <1>7, <1>8, <1>9, <1>10, <1>11, Framed
        DEF IInv, planVars, history

LEMMA InferFillInv ==
    ASSUME IInv, InferFill
    PROVE  IInv'
<1>1. /\ call = "fill" /\ call' = "enqueue"
      /\ frame' = [frame EXCEPT ![mine] = counter + 1]
      /\ UNCHANGED <<planVars, threadVars, state, ticket, workq, counter,
                     workerVars, mine, target, inflight, history>>
  BY DEF InferFill
<1>2. /\ frame \in [Slots -> 0..MaxFrames] /\ counter \in 0..MaxFrames
      /\ mine \in Slots /\ state[mine] = "SUBMITTED" /\ counter < MaxFrames
      /\ ticket[mine] = 0
  BY <1>1 DEF IInv, TypeOK, CallSound, ThreadsSound, RingSound, Claimed
<1>3. frame' \in [Slots -> 0..MaxFrames] /\ frame'[mine] = counter + 1
  BY <1>1, <1>2, RingAssumption
<1>4. TypeOK'
  <2>1. Looks' = Looks
    BY <1>1 DEF Looks, planVars
  <2> QED BY SMTT(30), <1>1, <1>3, <2>1
          DEF IInv, TypeOK, planVars, threadVars, workerVars, history
<1>5. ThreadsSound'
  <2>1. Started' = Started
    BY <1>1 DEF Started, planVars
  <2> QED BY <1>1, <2>1
          DEF IInv, ThreadsSound, planVars, threadVars, workerVars
<1>6. \A j \in Slots : state[j] # "SUBMITTED" \/ ticket[j] # 0
          => frame'[j] = frame[j]
  BY <1>1, <1>2
<1>7. WorkersSound'
  BY <1>1, <1>6 DEF IInv, WorkersSound, Busy, planVars, workerVars
<1>8. RingSound'
  <2>1. \A j \in Slots : Claimed(j)' = Claimed(j)
    BY <1>1 DEF Claimed
  <2> QED BY <1>1, <1>6, <2>1 DEF IInv, RingSound, workerVars, history
<1>9. CallSound'
  BY <1>1, <1>2, <1>3 DEF IInv, CallSound
<1> QED BY <1>1, <1>4, <1>5, <1>7, <1>8, <1>9, Framed
        DEF IInv, planVars, history

LEMMA InferEnqueueInv ==
    ASSUME IInv, InferEnqueue
    PROVE  IInv'
<1>1. /\ call = "enqueue" /\ call' = "flush"
      /\ counter' = counter + 1
      /\ ticket' = [ticket EXCEPT ![mine] = counter + 1]
      /\ workq' = Append(workq, mine)
      /\ UNCHANGED <<planVars, threadVars, state, frame, workerVars, mine,
                     target, inflight, history>>
  BY DEF InferEnqueue
<1>2. /\ ticket \in [Slots -> 0..MaxFrames]
      /\ counter \in 0..MaxFrames /\ counter < MaxFrames
      /\ mine \in Slots /\ state[mine] = "SUBMITTED"
      /\ ticket[mine] = 0 /\ frame[mine] = counter + 1
      /\ workq \in Seq(Slots) /\ DOMAIN workq = 1..Len(workq)
  BY <1>1 DEF IInv, TypeOK, CallSound, ThreadsSound, RingSound, Claimed
<1>3. /\ workq' \in Seq(Slots) /\ Len(workq') = Len(workq) + 1
      /\ DOMAIN workq' = 1..(Len(workq) + 1)
      /\ \A n \in 1..Len(workq) : workq'[n] = workq[n]
      /\ workq'[Len(workq) + 1] = mine
  BY <1>1, <1>2
<1>4. /\ ticket' \in [Slots -> 0..MaxFrames] /\ ticket'[mine] = counter + 1
      /\ \A j \in Slots : j # mine => ticket'[j] = ticket[j]
      /\ \A j \in Slots : ticket[j] \in 0..counter
  BY <1>1, <1>2, RingAssumption DEF IInv, RingSound
<1>5. \A n \in 1..Len(workq) : /\ workq[n] \in Slots \ {mine}
                               /\ ticket'[workq[n]] = ticket[workq[n]]
  BY <1>2, <1>4 DEF IInv, QueueSound
<1>6. QueueSound'
  <2>1. \A n \in 1..Len(workq) : \A m \in 1..(n - 1) :
            m \in 1..Len(workq) /\ ticket[workq[m]] < ticket[workq[n]]
    BY SMTT(30), <1>2 DEF IInv, QueueSound
  <2>2. \A j \in Slots : state[j] \in {"RUNNING", "DONE"} => j # mine
    BY <1>2
  <2>3. ASSUME NEW n \in 1..Len(workq)
        PROVE  /\ state'[workq'[n]] = "SUBMITTED" /\ ticket'[workq'[n]] # 0
               /\ \A m \in 1..(n - 1) : ticket'[workq'[m]] < ticket'[workq'[n]]
               /\ \A j \in Slots : state'[j] \in {"RUNNING", "DONE"} =>
                      ticket'[j] < ticket'[workq'[n]]
    BY <1>1, <1>2, <1>3, <1>4, <1>5, <2>1, <2>2 DEF IInv, QueueSound
  <2>4. /\ state'[mine] = "SUBMITTED" /\ ticket'[mine] # 0
        /\ \A m \in 1..Len(workq) : ticket'[workq'[m]] < ticket'[mine]
        /\ \A j \in Slots : state'[j] \in {"RUNNING", "DONE"} =>
               ticket'[j] < ticket'[mine]
    BY <1>1, <1>2, <1>3, <1>4, <1>5, <2>2
  <2>5. \A n \in DOMAIN workq' : n \in 1..Len(workq) \/ n = Len(workq) + 1
    BY <1>2, <1>3
  <2>6. (Len(workq) + 1) - 1 = Len(workq)
    BY <1>2
  <2> QED BY <1>3, <2>3, <2>4, <2>5, <2>6 DEF QueueSound
<1>7. TypeOK'
  <2>1. Looks' = Looks
    BY <1>1 DEF Looks, planVars
  <2>2. \A m, n \in 1..Len(workq') : workq'[m] = workq'[n] => m = n
    <3> SUFFICES ASSUME NEW m \in 1..Len(workq'), NEW n \in 1..Len(workq'),
                        m < n
                 PROVE  workq'[m] # workq'[n]
      <4>1. Len(workq') \in Nat
        BY <1>3
      <4>2. \A m, n \in 1..Len(workq') : m < n \/ n < m \/ m = n
        BY <4>1
      <4> QED BY <4>2
    <3>1. m \in 1..(n - 1) /\ n \in DOMAIN workq'
      BY <1>2, <1>3
    <3>2. ticket'[workq'[m]] < ticket'[workq'[n]] /\ workq'[n] \in Slots
      BY <1>3, <1>6, <3>1 DEF QueueSound
    <3> QED BY <1>4, <3>2
  <2>3. Len(workq') <= KRing
    BY <1>3, <2>2, RingAssumption, QueueFits DEF Slots
  <2>4. counter' \in 0..MaxFrames
    BY <1>1, <1>2, RingAssumption
  <2> QED BY SMTT(30), <1>1, <1>3, <1>4, <2>1, <2>3, <2>4
          DEF IInv, TypeOK, planVars, threadVars, workerVars, history
<1>8. ThreadsSound'
  <2>1. Started' = Started
    BY <1>1 DEF Started, planVars
  <2>2. started /\ ~stop
    BY <1>1 DEF IInv, ThreadsSound
  <2> QED BY <1>1, <2>1, <2>2
          DEF IInv, ThreadsSound, planVars, threadVars, workerVars
<1>9. RingSound'
  <2>1. \A j \in Slots : ~Claimed(j)' /\ (Claimed(j) <=> j = mine)
    BY <1>1 DEF Claimed
  <2>2. \A j \in Slots : (\E n \in DOMAIN workq : workq[n] = j)
            => \E n \in DOMAIN workq' : workq'[n] = j
    BY <1>2, <1>3
  <2>3. Len(workq) + 1 \in DOMAIN workq'
    BY <1>2, <1>3
  <2> QED BY <1>1, <1>2, <1>3, <1>4, <2>1, <2>2, <2>3
          DEF IInv, RingSound, workerVars, history
<1>10. CallSound'
  BY <1>1, <1>2 DEF IInv, TypeOK, CallSound, planVars, Frames
<1>11. TicketsSound'
  <2>1. \A t \in 1..counter : Held(t)' <=> Held(t)
    BY <1>2, <1>4 DEF Held
  <2>2. \A t \in {counter + 1} : Held(t)'
    BY <1>2, <1>4 DEF Held
  <2>3. \A t \in 1..counter' : t \notin finished' =>
            \E j \in Slots : ticket'[j] = t /\ state'[j] # "DONE"
    <3> SUFFICES ASSUME NEW t \in 1..(counter + 1), t \notin finished
                 PROVE  \E j \in Slots : ticket'[j] = t /\ state[j] # "DONE"
      BY <1>1 DEF history
    <3>1. CASE t = counter + 1
      BY <1>2, <1>4, <3>1
    <3>2. CASE t # counter + 1
      <4>1. t \in 1..counter
        BY <1>2, <3>2
      <4>2. PICK j \in Slots : ticket[j] = t /\ state[j] # "DONE"
        BY <4>1 DEF IInv, TicketsSound
      <4> QED BY <1>2, <1>4, <4>1, <4>2
    <3> QED BY <3>1, <3>2
  <2>4. \A t, u \in 1..counter' : Held(t)' /\ t <= u => Held(u)'
    BY <1>1, <1>2, <2>1, <2>2 DEF IInv, TicketsSound
  <2>5. mode.workers = 1 => \A a, b \in Slots :
            state'[a] = "RUNNING" /\ state'[b] = "DONE"
               => ticket'[b] < ticket'[a]
    BY <1>1, <1>2, <1>4 DEF IInv, TicketsSound
  <2>6. \A t \in finished' \cup reported' : t \in 1..counter'
    BY <1>1, <1>2 DEF IInv, TicketsSound, history
  <2> QED BY <1>1, <2>3, <2>4, <2>5, <2>6 DEF TicketsSound, planVars
<1> QED BY <1>1, <1>6, <1>7, <1>8, <1>9, <1>10, <1>11, Framed
        DEF IInv, planVars, workerVars, history

LEMMA FlushInv ==
    ASSUME IInv, Flush
    PROVE  IInv'
<1>1. /\ call = "flush" /\ call' = "idle" /\ mine' = NoSlot
      /\ inflight' = inflight \cup {counter}
      /\ UNCHANGED <<planVars, threadVars, ringVars, counter, workerVars,
                     target, history>>
  BY DEF Flush
<1>2. counter \in Frames
  BY <1>1 DEF IInv, TypeOK, CallSound, Frames
<1>3. TypeOK'
  <2>1. Looks' = Looks
    BY <1>1 DEF Looks, planVars
  <2> QED BY SMTT(30), <1>1, <1>2, <2>1
          DEF IInv, TypeOK, planVars, threadVars, ringVars, workerVars, history
<1>4. ThreadsSound'
  <2>1. Started' = Started
    BY <1>1 DEF Started, planVars
  <2> QED BY <1>1, <2>1
          DEF IInv, ThreadsSound, planVars, threadVars, ringVars, workerVars
<1>5. RingSound'
  <2>1. \A j \in Slots : ~Claimed(j)' /\ ~Claimed(j)
    BY <1>1 DEF Claimed
  <2> QED BY <1>1, <2>1 DEF IInv, RingSound, ringVars, workerVars, history
<1>6. CallSound'
  BY <1>1, <1>2 DEF IInv, TypeOK, CallSound, Frames
<1> QED BY <1>1, <1>3, <1>4, <1>5, <1>6, Framed
        DEF IInv, planVars, ringVars, workerVars, history

(* What makes aji_wait and aji_done right: when the frame of a ticket the  *)
(* filter may ask about is DONE, or its slot is gone, the frames of all    *)
(* earlier tickets are finished, and none of their slots is in use. With   *)
(* one worker because the queue is first in, first out; with several       *)
(* because the filter asks about its oldest ticket only.                   *)
LEMMA AskedIsBehindNone ==
    ASSUME IInv, CollectsInOrder(mode), NEW t \in Asks,
           \A i \in Slots : Holds(i, t) => state[i] = "DONE"
    PROVE  /\ t \in Frames /\ t \in 1..counter
           /\ \A i \in Slots : ticket[i] \in 1..t => state[i] = "DONE"
           /\ 1..t \subseteq finished
<1>1. t \in Frames /\ t \in 1..counter /\ t \in inflight
  BY DEF Asks, IInv, TypeOK, CallSound, Frames
<1>2. /\ counter \in 0..MaxFrames
      /\ ticket \in [Slots -> 0..MaxFrames]
      /\ state \in [Slots -> {"FREE", "SUBMITTED", "RUNNING", "DONE"}]
  BY DEF IInv, TypeOK
<1>3. ASSUME NEW i \in Slots, ticket[i] \in 1..t
      PROVE  state[i] = "DONE"
  <2>1. ticket[i] \in 1..counter /\ Held(ticket[i])
    BY <1>1, <1>2, <1>3 DEF Held
  <2>2. Held(t)
    BY <1>1, <1>3, <2>1 DEF IInv, TicketsSound
  <2>3. PICK j \in Slots : ticket[j] = t
    BY <2>2 DEF Held
  <2>4. state[j] = "DONE" /\ state[i] # "FREE" /\ ~Claimed(i)
    BY <1>1, <1>3, <2>3 DEF IInv, RingSound, Holds, Frames
  <2>5. CASE mode.workers = 1
    <3>1. ~(ticket[j] < ticket[i])
      BY <1>1, <1>2, <1>3, <2>3
    <3>2. state[i] # "RUNNING"
      BY <2>4, <2>5, <3>1 DEF IInv, TicketsSound
    <3>3. state[i] # "SUBMITTED"
      <4> SUFFICES ASSUME state[i] = "SUBMITTED" PROVE FALSE
        OBVIOUS
      <4>1. PICK n \in DOMAIN workq : workq[n] = i
        BY <2>4 DEF IInv, RingSound
      <4> QED BY <2>4, <3>1, <4>1 DEF IInv, QueueSound
    <3> QED BY <1>2, <2>4, <3>2, <3>3
  <2>6. CASE mode.oldestFirst
    <3>1. \A u \in inflight : t <= u
      BY <2>6 DEF Asks
    <3>2. ticket[i] \in inflight \/ ticket[i] = counter
      BY <1>3 DEF IInv, RingSound
    <3>3. ticket[i] = t
      BY <1>1, <1>2, <1>3, <3>1, <3>2
    <3> QED BY <2>4, <3>3 DEF Holds
  <2> QED BY <2>5, <2>6 DEF CollectsInOrder
<1>4. ASSUME NEW u \in 1..t, u \notin finished PROVE FALSE
  <2>1. u \in 1..counter
    BY <1>1, <1>2
  <2>2. PICK i \in Slots : ticket[i] = u /\ state[i] # "DONE"
    BY <1>4, <2>1 DEF IInv, TicketsSound
  <2> QED BY <1>3, <2>2
<1> QED BY <1>1, <1>3, <1>4

LEMMA WaitGoneInv ==
    ASSUME IInv, CollectsInOrder(mode), call = "idle",
           NEW t \in Asks, WaitGone(t)
    PROVE  IInv'
<1>1. /\ \A i \in Slots : ~Holds(i, t)
      /\ inflight' = {u \in inflight : u > t}
      /\ reported' = reported \cup 1..t
      /\ UNCHANGED <<planVars, threadVars, ringVars, counter, workerVars,
                     callVars, finished, written>>
  BY DEF WaitGone, Collect
<1>2. /\ t \in Frames /\ t \in 1..counter
      /\ \A i \in Slots : ticket[i] \in 1..t => state[i] = "DONE"
      /\ 1..t \subseteq finished
  BY <1>1, AskedIsBehindNone
<1>3. /\ ticket \in [Slots -> 0..MaxFrames] /\ counter \in 0..MaxFrames
      /\ inflight \subseteq Frames /\ finished \subseteq 0..MaxFrames
  BY DEF IInv, TypeOK
<1>4. TypeOK'
  <2>1. Looks' = Looks
    BY <1>1 DEF Looks, planVars
  <2>2. inflight' \subseteq Frames
    BY <1>1, <1>3
  <2>3. reported' \subseteq Frames
    <3>1. 1..t \subseteq Frames /\ reported \subseteq Frames
      BY <1>2, RingAssumption DEF IInv, TypeOK, Frames
    <3> QED BY <1>1, <3>1
  <2> QED BY SMTT(30), <1>1, <2>1, <2>2, <2>3
          DEF IInv, TypeOK, planVars, threadVars, ringVars, workerVars,
              callVars
<1>5. RingSound'
  <2>1. \A j \in Slots : ticket[j] # 0 => ticket[j] > t
    <3> SUFFICES ASSUME NEW j \in Slots, ticket[j] \in 1..t PROVE FALSE
      BY <1>2, <1>3
    <3>1. Held(ticket[j]) /\ ticket[j] \in 1..counter
      BY <1>2, <1>3 DEF Held
    <3>2. Held(t)
      BY <1>2, <3>1 DEF IInv, TicketsSound
    <3> QED BY <1>1, <1>2, <3>2 DEF IInv, RingSound, Held, Holds
  <2>2. \A j \in Slots : Claimed(j)' = Claimed(j)
    BY <1>1 DEF Claimed, callVars
  <2> QED BY <1>1, <2>1, <2>2
          DEF IInv, RingSound, ringVars, workerVars, callVars
<1>6. CallSound'
  BY <1>1 DEF IInv, CallSound, ringVars, callVars
<1>7. TicketsSound'
  <2>1. \A u \in 1..counter : Held(u)' = Held(u)
    BY <1>1 DEF Held, ringVars
  <2> QED BY <1>1, <1>2, <1>3, <2>1
          DEF IInv, TicketsSound, planVars, ringVars
<1>8. CompleteMeansFinished'
  BY <1>1, <1>2 DEF IInv, CompleteMeansFinished
<1> QED BY <1>1, <1>4, <1>5, <1>6, <1>7, <1>8, Framed
        DEF IInv, planVars, threadVars, ringVars, workerVars, callVars

LEMMA PollCompleteInv ==
    ASSUME IInv, CollectsInOrder(mode), PollComplete
    PROVE  IInv'
<1>1. PICK t \in Asks :
          /\ \A i \in Slots : Holds(i, t) => state[i] = "DONE"
          /\ reported' = reported \cup 1..t
  BY DEF PollComplete, Polls
<1>2. UNCHANGED <<planVars, threadVars, ringVars, counter, workerVars,
                  callVars, inflight, finished, written>>
  BY DEF PollComplete, Polls
<1>3. t \in Frames /\ t \in 1..counter /\ 1..t \subseteq finished
  BY <1>1, AskedIsBehindNone
<1>4. TypeOK'
  <2>1. Looks' = Looks
    BY <1>2 DEF Looks, planVars
  <2>2. reported' \subseteq Frames
    BY <1>1, <1>3 DEF IInv, TypeOK, Frames
  <2> QED BY SMTT(30), <1>2, <2>1, <2>2
          DEF IInv, TypeOK, planVars, threadVars, ringVars, workerVars,
              callVars
<1>5. TicketsSound'
  <2>1. \A u \in 1..counter : Held(u)' = Held(u)
    BY <1>2 DEF Held, ringVars
  <2>2. \A u \in 1..t : u \in 1..counter
    BY <1>3 DEF IInv, TypeOK
  <2> QED BY <1>1, <1>2, <2>1, <2>2
          DEF IInv, TicketsSound, planVars, ringVars
<1>6. CompleteMeansFinished'
  BY <1>1, <1>2, <1>3 DEF IInv, CompleteMeansFinished
<1> QED BY <1>2, <1>4, <1>5, <1>6, Framed
        DEF IInv, planVars, threadVars, ringVars, workerVars, callVars

LEMMA WaitBlockInv ==
    ASSUME IInv, call = "idle", NEW t \in Asks, WaitBlock(t)
    PROVE  IInv'
<1>1. /\ mine' \in Slots /\ ticket[mine'] = t
      /\ target' = t /\ call' = "wait"
      /\ UNCHANGED <<planVars, threadVars, ringVars, counter, workerVars,
                     inflight, history>>
  BY DEF WaitBlock, Holds
<1>2. t \in Frames
  BY DEF Asks, IInv, TypeOK
<1>3. TypeOK'
  <2>1. Looks' = Looks
    BY <1>1 DEF Looks, planVars
  <2>2. target' \in 0..MaxFrames
    BY <1>1, <1>2 DEF Frames
  <2> QED BY SMTT(30), <1>1, <2>1, <2>2
          DEF IInv, TypeOK, planVars, threadVars, ringVars, workerVars, history
<1>4. ThreadsSound'
  <2>1. Started' = Started
    BY <1>1 DEF Started, planVars
  <2> QED BY <1>1, <2>1
          DEF IInv, ThreadsSound, threadVars, ringVars, workerVars
<1>5. RingSound'
  <2>1. \A j \in Slots : ~Claimed(j)' /\ ~Claimed(j)
    BY <1>1 DEF Claimed
  <2> QED BY <1>1, <2>1 DEF IInv, RingSound, ringVars, workerVars, history
<1>6. CallSound'
  <2>1. Asks' = Asks
    BY <1>1 DEF Asks, planVars
  <2> QED BY <1>1, <1>2, <2>1
          DEF IInv, CallSound, Frames, ringVars
<1> QED BY <1>1, <1>3, <1>4, <1>5, <1>6, Framed
        DEF IInv, planVars, threadVars, ringVars, workerVars, history

LEMMA WaitReturnInv ==
    ASSUME IInv, CollectsInOrder(mode), WaitReturn
    PROVE  IInv'
<1> DEFINE freed == {mine} \cup EarlierSlots
<1>1. /\ call = "wait" /\ state[mine] = "DONE"
      /\ state' = [i \in Slots |-> IF i \in freed THEN "FREE" ELSE state[i]]
      /\ ticket' = [i \in Slots |-> IF i \in freed THEN 0 ELSE ticket[i]]
      /\ inflight' = {u \in inflight : u > target}
      /\ reported' = reported \cup 1..target
      /\ call' = "idle" /\ mine' = NoSlot /\ target' = 0
      /\ UNCHANGED <<planVars, threadVars, frame, workq, counter, workerVars,
                     finished, written>>
  BY DEF WaitReturn, WaitFrees, Collect
<1>2. /\ mine \in Slots /\ target \in Asks /\ ticket[mine] = target
      /\ target # 0
  BY <1>1 DEF IInv, CallSound
<1>3. /\ ticket \in [Slots -> 0..MaxFrames] /\ counter \in 0..MaxFrames
      /\ state \in [Slots -> {"FREE", "SUBMITTED", "RUNNING", "DONE"}]
      /\ inflight \subseteq Frames /\ finished \subseteq 0..MaxFrames
  BY DEF IInv, TypeOK
<1>4. \A i \in Slots : ticket[i] = target => i = mine
  BY <1>2 DEF IInv, RingSound
<1>5. /\ target \in Frames /\ target \in 1..counter
      /\ \A i \in Slots : ticket[i] \in 1..target => state[i] = "DONE"
      /\ 1..target \subseteq finished
  BY <1>1, <1>2, <1>4, AskedIsBehindNone DEF Holds
<1>6. \A i \in Slots : i \in freed <=> ticket[i] \in 1..target
  BY <1>2, <1>3, <1>4, <1>5 DEF EarlierSlots
<1> HIDE DEF freed
<1>7. \A i \in Slots : IF ticket[i] \in 1..target
                       THEN /\ state[i] = "DONE"
                            /\ state'[i] = "FREE" /\ ticket'[i] = 0
                       ELSE state'[i] = state[i] /\ ticket'[i] = ticket[i]
  BY <1>1, <1>5, <1>6
<1>8. TypeOK'
  <2>1. Looks' = Looks
    BY <1>1 DEF Looks, planVars
  <2>2. inflight' \subseteq Frames
    BY <1>1, <1>3
  <2>5. reported' \subseteq Frames
    BY <1>1, <1>3, <1>5, RingAssumption DEF IInv, TypeOK, Frames
  <2>3. /\ state' \in [Slots -> {"FREE", "SUBMITTED", "RUNNING", "DONE"}]
        /\ ticket' \in [Slots -> 0..MaxFrames]
    BY <1>1, <1>3, RingAssumption
  <2>4. target' \in 0..MaxFrames
    BY <1>1, RingAssumption
  <2> QED BY SMTT(30), <1>1, <2>1, <2>2, <2>3, <2>4, <2>5
          DEF IInv, TypeOK, planVars, threadVars, workerVars
<1>9. ThreadsSound'
  <2>1. Started' = Started
    BY <1>1 DEF Started, planVars
  <2> QED BY <1>1, <2>1 DEF IInv, ThreadsSound, threadVars, workerVars
<1>10. WorkersSound'
  <2>1. \A i \in Slots : state[i] = "RUNNING" => state'[i] = "RUNNING"
    BY <1>7
  <2> QED BY <1>1, <2>1 DEF IInv, WorkersSound, Busy, planVars, workerVars
<1>11. QueueSound'
  <2>1. \A n \in DOMAIN workq : workq[n] \in Slots
    BY DEF IInv, TypeOK
  <2>2. \A i \in Slots : state[i] = "SUBMITTED" =>
            state'[i] = "SUBMITTED" /\ ticket'[i] = ticket[i]
    BY <1>7
  <2>3. \A i \in Slots : state'[i] \in {"RUNNING", "DONE"} =>
            state'[i] = state[i] /\ ticket'[i] = ticket[i]
    BY <1>7
  <2>4. \A n \in DOMAIN workq : \A m \in 1..(n - 1) : m \in DOMAIN workq
    BY DEF IInv, TypeOK
  <2> QED BY <1>1, <2>1, <2>2, <2>3, <2>4 DEF IInv, QueueSound
<1>12. RingSound'
  <2>1. \A i \in Slots : ~Claimed(i)' /\ ~Claimed(i)
    BY <1>1 DEF Claimed
  <2>2. \A i \in Slots : ticket'[i] # 0 =>
            /\ ticket'[i] = ticket[i] /\ state'[i] = state[i]
            /\ ticket[i] > target
    BY <1>3, <1>5, <1>7
  <2>3. \A i \in Slots : state'[i] # "FREE" =>
            ticket'[i] = ticket[i] /\ state'[i] = state[i]
    BY <1>7
  <2>4. \A i \in Slots : state[i] = "FREE" => ticket'[i] = 0
    BY <1>7 DEF IInv, RingSound
  <2>5. \A i \in Slots : state'[i] = "FREE" => ticket'[i] = 0
    BY <1>7, <2>4
  <2> QED BY <1>1, <2>1, <2>2, <2>3, <2>5 DEF IInv, RingSound, workerVars
<1>13. CallSound'
  BY <1>1 DEF IInv, CallSound
<1>14. TicketsSound'
  <2>1. \A t \in 1..counter : t \notin finished =>
            \E i \in Slots : ticket'[i] = t /\ state'[i] # "DONE"
    <3> SUFFICES ASSUME NEW t \in 1..counter, t \notin finished
                 PROVE  \E i \in Slots : ticket'[i] = t /\ state'[i] # "DONE"
      OBVIOUS
    <3>1. PICK i \in Slots : ticket[i] = t /\ state[i] # "DONE"
      BY DEF IInv, TicketsSound
    <3> QED BY <1>7, <3>1
  <2>2. \A t \in 1..counter : Held(t)' <=> Held(t) /\ t > target
    <3> SUFFICES ASSUME NEW t \in 1..counter
                 PROVE  Held(t)' <=> Held(t) /\ t > target
      OBVIOUS
    <3>1. t # 0 /\ (t > target <=> t \notin 1..target)
      BY <1>3, <1>5
    <3> QED BY <1>7, <3>1 DEF Held
  <2>3. \A u \in 1..target : u \in 1..counter
    BY <1>3, <1>5
  <2>4. \A t \in finished' \cup reported' : t \in 1..counter
    BY <1>1, <2>3 DEF IInv, TicketsSound
  <2>5. \A t, u \in 1..counter : Held(t)' /\ t <= u => Held(u)'
    BY <1>3, <1>5, <2>2 DEF IInv, TicketsSound
  <2>6. mode.workers = 1 => \A i, j \in Slots :
            state'[i] = "RUNNING" /\ state'[j] = "DONE"
               => ticket'[j] < ticket'[i]
    BY <1>7 DEF IInv, TicketsSound
  <2> QED BY <1>1, <2>1, <2>4, <2>5, <2>6 DEF TicketsSound, planVars
<1>15. CompleteMeansFinished'
  BY <1>1, <1>5 DEF IInv, CompleteMeansFinished
<1> QED BY <1>1, <1>8, <1>9, <1>10, <1>11, <1>12, <1>13, <1>14, <1>15, Framed
        DEF IInv, planVars

LEMMA StopCallInv ==
    ASSUME IInv, NEW c \in {"configure", "destroy"}, StopCall(c)
    PROVE  IInv'
<1>1. /\ call = "idle" /\ call' = c
      /\ stop' = IF started THEN TRUE ELSE stop
      /\ UNCHANGED <<planVars, started, ringVars, counter, workerVars, mine,
                     target, inflight, history>>
  BY DEF StopCall
<1>2. TypeOK'
  <2>1. Looks' = Looks
    BY <1>1 DEF Looks, planVars
  <2>2. stop' \in BOOLEAN
    BY <1>1 DEF IInv, TypeOK
  <2>3. UNCHANGED <<mode, active, resizes, gp, started, state, ticket, frame,
                    workq, counter, pc, slot, src, mine, target, inflight,
                    reported, finished, written>>
    BY <1>1 DEF planVars, ringVars, workerVars, history
  <2>4. call' \in {"idle", "claim", "fill", "enqueue", "flush", "wait",
                   "configure", "destroy", "gone"}
    BY <1>1
  <2> QED BY SMTT(30), <2>1, <2>2, <2>3, <2>4 DEF IInv, TypeOK
<1>3. ThreadsSound'
  <2>1. Started' = Started
    BY <1>1 DEF Started, planVars
  <2> QED BY <1>1, <2>1 DEF IInv, ThreadsSound, ringVars, workerVars
<1>4. RingSound'
  <2>1. \A j \in Slots : ~Claimed(j)' /\ ~Claimed(j)
    BY <1>1 DEF Claimed
  <2> QED BY <1>1, <2>1 DEF IInv, RingSound, ringVars, workerVars, history
<1>5. CallSound'
  BY <1>1 DEF IInv, CallSound, ringVars
<1> QED BY <1>1, <1>2, <1>3, <1>4, <1>5, Framed
        DEF IInv, planVars, ringVars, workerVars, history

LEMMA StopReturnInv ==
    ASSUME IInv, StopReturn, call \in {"configure", "destroy"},
           call' \in {"idle", "gone"}, UNCHANGED <<mode, gp>>,
           active' \in BOOLEAN, resizes' \in BOOLEAN
    PROVE  IInv'
<1>1. /\ \A w \in Workers : pc[w] = "off"
      /\ started' = FALSE /\ workq' = << >>
      /\ state' = [i \in Slots |-> "FREE"]
      /\ ticket' = [i \in Slots |-> 0]
      /\ UNCHANGED <<stop, frame, counter, workerVars, mine, target, inflight,
                     history>>
  BY DEF StopReturn, FreeRing
<1>2. \A w \in Workers : ~Busy(w) /\ slot[w] = NoSlot
  BY <1>1 DEF IInv, WorkersSound, Busy
<1>3. workq = << >>
  <2>1. 1 \in Started /\ 1 \in Workers
    BY RingAssumption DEF IInv, TypeOK, Started, Workers
  <2> QED BY <1>1, <2>1 DEF IInv, ThreadsSound
<1>4. 1..counter \subseteq finished
  <2> SUFFICES ASSUME NEW t \in 1..counter, t \notin finished PROVE FALSE
    OBVIOUS
  <2>1. PICK i \in Slots : ticket[i] = t /\ state[i] # "DONE"
    BY DEF IInv, TicketsSound
  <2>2. ticket[i] # 0 /\ ~Claimed(i)
    BY <2>1 DEF Claimed
  <2>3. state[i] # "FREE" /\ state[i] # "SUBMITTED"
    BY <1>3, <2>2 DEF IInv, RingSound
  <2>4. state[i] # "RUNNING"
    BY <1>2, IdleHasNone DEF IInv, RingSound
  <2> QED BY <2>1, <2>3, <2>4 DEF IInv, TypeOK
<1>5. TypeOK'
  <2>1. Looks' = Looks
    BY DEF Looks
  <2>2. workq' \in Seq(Slots) /\ Len(workq') <= KRing
    BY <1>1, RingAssumption
  <2>3. ticket' \in [Slots -> 0..MaxFrames]
    BY <1>1, RingAssumption
  <2> QED BY <1>1, <2>1, <2>2, <2>3 DEF IInv, TypeOK, workerVars, history
<1>6. ThreadsSound'
  BY <1>1 DEF ThreadsSound, workerVars
<1>7. WorkersSound'
  BY <1>1, <1>2 DEF WorkersSound, Busy, workerVars
<1>8. QueueSound'
  BY <1>1 DEF QueueSound
<1>9. RingSound'
  BY <1>1 DEF RingSound
<1>10. CallSound'
  BY <1>1 DEF IInv, CallSound
<1>11. TicketsSound'
  <2>1. \A t \in 1..counter : ~Held(t)'
    BY <1>1 DEF Held
  <2> QED BY <1>1, <1>4, <2>1 DEF IInv, TicketsSound, history
<1> QED BY <1>1, <1>5, <1>6, <1>7, <1>8, <1>9, <1>10, <1>11, Framed
        DEF IInv, history

-----------------------------------------------------------------------------
(* The theorems. *)

(* A context starts out so. *)
LEMMA InitInv == Init => IInv
<1> SUFFICES ASSUME Init PROVE IInv
  OBVIOUS
<1>1. TypeOK
  <2>1. 0 \in 0..MaxFrames /\ KRing >= 0
    BY RingAssumption
  <2>2. << >> \in Seq(Slots) /\ Len(<< >>) <= KRing
    BY <2>1
  <2>3. /\ ticket \in [Slots -> 0..MaxFrames]
        /\ frame \in [Slots -> 0..MaxFrames]
        /\ src \in [Workers -> 0..MaxFrames]
    BY <2>1 DEF Init, NoFrame
  <2> QED BY <2>1, <2>2, <2>3 DEF Init, TypeOK, NoSlot
<1>2. ThreadsSound
  BY DEF Init, ThreadsSound
<1>3. WorkersSound
  BY DEF Init, WorkersSound, Busy
<1>4. QueueSound
  BY DEF Init, QueueSound
<1>5. RingSound
  BY DEF Init, RingSound
<1>6. CallSound
  BY DEF Init, CallSound
<1>7. TicketsSound
  BY DEF Init, TicketsSound
<1>8. OwnPlanes /\ OwnColours /\ CompleteMeansFinished
  BY DEF Init, OwnPlanes, OwnColours, CompleteMeansFinished
<1> QED BY <1>1, <1>2, <1>3, <1>4, <1>5, <1>6, <1>7, <1>8 DEF IInv

(* Every step keeps the invariant. *)
LEMMA StepInv ==
    ASSUME \A m \in Modes : CollectsInOrder(m), IInv, [Next]_vars
    PROVE  IInv'
<1>1. CollectsInOrder(mode)
  BY DEF IInv, TypeOK
<1>2. ASSUME NEW w \in Workers, Worker(w) PROVE IInv'
  BY <1>1, <1>2, WorkerTakeInv, WorkerReadInv, WorkerWriteInv, WorkerFailsInv,
     WorkerFinishInv, WorkerExitInv DEF Worker
<1>3. CASE WaitCall
  BY <1>1, <1>3, WaitGoneInv, WaitBlockInv DEF WaitCall
<1>4. CASE InCall
  <2>1. CASE ConfigureReturn
    <3>1. active' \in BOOLEAN /\ resizes' \in BOOLEAN
      BY <2>1 DEF ConfigureReturn, BuildPlan, IInv, TypeOK
    <3> QED BY <2>1, <3>1, StopReturnInv DEF ConfigureReturn
  <2>2. CASE DestroyReturn
    <3>1. active' \in BOOLEAN /\ resizes' \in BOOLEAN
      BY <2>2 DEF DestroyReturn, planVars, IInv, TypeOK
    <3> QED BY <2>2, <3>1, StopReturnInv DEF DestroyReturn, planVars
  <2> QED BY <1>1, <1>4, <2>1, <2>2, InferClaimInv, InferFillInv,
             InferEnqueueInv, FlushInv, WaitReturnInv DEF InCall
<1>5. CASE UNCHANGED vars
  <2>1. TypeOK'
    <3>1. Looks' = Looks
      BY <1>5 DEF vars, planVars, Looks
    <3> QED BY SMTT(30), <1>5, <3>1
              DEF IInv, TypeOK, vars, planVars, threadVars,
               ringVars, workerVars, callVars, history
  <2> QED BY <1>5, <2>1, Framed DEF IInv, vars, planVars, threadVars,
             ringVars, workerVars, callVars, history
<1> QED BY <1>1, <1>2, <1>3, <1>4, <1>5, InferCallInv, PollCompleteInv,
           StopCallInv DEF Next, Filter, Gone

(* The inductive invariant: what threads, queue, slots, the call and the   *)
(* filter's tickets say of each other, and that results are where they     *)
(* belong.                                                                 *)
THEOREM Invariance ==
    ASSUME \A m \in Modes : CollectsInOrder(m)
    PROVE  Spec => []IInv
<1>1. IInv /\ [Next]_vars => IInv'
  BY StepInv
<1> QED BY <1>1, InitInv, PTL DEF Spec

(* Slots, tickets, queue and threads keep their types; of the queue, whose *)
(* slots are pushed outside any check of its length, that it never holds   *)
(* more than the ring.                                                     *)
THEOREM TypeCorrect ==
    ASSUME \A m \in Modes : CollectsInOrder(m)
    PROVE  Spec => []TypeOK
<1>1. IInv => TypeOK
  BY DEF IInv
<1> QED BY <1>1, Invariance, PTL

(* Workers, filter and queue never share a slot, and a FREE one has no user. *)
LEMMA IInvOneUser == IInv => SlotHasOneUser
<1> SUFFICES ASSUME IInv, NEW i \in Slots
             PROVE  /\ \A u, v \in Using(i) : u = v
                    /\ state[i] = "FREE" => Using(i) = {}
  BY DEF SlotHasOneUser
<1> DEFINE ofWorkers == {w \in Workers : slot[w] = i}
           ofFilter == IF call \in {"fill", "enqueue"} /\ mine = i
                       THEN {0} ELSE {}
           ofQueue == {-n : n \in {m \in DOMAIN workq : workq[m] = i}}
<1>1. Using(i) = ofWorkers \cup ofFilter \cup ofQueue
  BY DEF Using
<1>2. /\ \A u, v \in ofWorkers : u = v
      /\ ofWorkers # {} => state[i] = "RUNNING"
  <2>1. \A w \in ofWorkers : Busy(w) /\ state[i] = "RUNNING"
    BY IdleHasNone DEF IInv
  <2> QED BY <2>1 DEF IInv, WorkersSound
<1>3. /\ \A u, v \in ofFilter : u = v
      /\ ofFilter # {} => state[i] = "SUBMITTED" /\ ticket[i] = 0
  BY DEF IInv, CallSound, RingSound, Claimed
<1>4. /\ \A u, v \in ofQueue : u = v
      /\ ofQueue # {} => state[i] = "SUBMITTED" /\ ticket[i] # 0
  <2>1. ofQueue # {} => state[i] = "SUBMITTED" /\ ticket[i] # 0
    BY DEF IInv, QueueSound
  <2>2. DOMAIN workq \subseteq Nat /\ DOMAIN workq = 1..Len(workq)
    BY DEF IInv, TypeOK
  <2>3. ASSUME NEW m \in DOMAIN workq, NEW n \in DOMAIN workq,
               workq[m] = i, workq[n] = i, m < n
        PROVE  FALSE
    <3>1. ticket[i] < ticket[i]
      BY <2>2, <2>3 DEF IInv, QueueSound
    <3> QED BY <3>1 DEF IInv, TypeOK
  <2>4. \A m, n \in DOMAIN workq : workq[m] = i /\ workq[n] = i => m = n
    BY <2>2, <2>3
  <2> QED BY <2>1, <2>4
<1> HIDE DEF ofWorkers, ofFilter, ofQueue
<1> QED BY <1>1, <1>2, <1>3, <1>4

(* A slot has one user, none is lost, and the picture of a frame lands in  *)
(* its own planes and in its own colours: aji_wait frees only what no      *)
(* worker is on, though it frees slots without looking at their state.     *)
THEOREM SlotsAreSound ==
    ASSUME \A m \in Modes : CollectsInOrder(m)
    PROVE  Spec => []SlotsSound
<1>1. IInv => NoSlotLeak
  BY DEF IInv, RingSound, Claimed, NoSlotLeak
<1>2. IInv => SlotsSound
  BY <1>1, IInvOneUser DEF IInv, SlotsSound
<1> QED BY <1>2, Invariance, PTL

(* A ticket the caller was told is complete is finished, and so is every   *)
(* earlier one (aji_wait by any ticket, also one whose slot is gone).      *)
THEOREM AnswersAreTrue ==
    ASSUME \A m \in Modes : CollectsInOrder(m)
    PROVE  Spec => []CompleteMeansFinished
<1>1. IInv => CompleteMeansFinished
  BY DEF IInv
<1> QED BY <1>1, Invariance, PTL

-----------------------------------------------------------------------------
(* The refinement. *)

(* A frame that ends finishes a ticket of the contract, with the later     *)
(* ones that had ended before it, or none if an earlier one is open.       *)
LEMMA WorkerFinishImplements ==
    ASSUME IInv, IInv', NEW w \in Workers, WorkerFinish(w)
    PROVE  [Tickets!Next]_(Tickets!vars)
<1>1. /\ counter \in Nat /\ counter' = counter /\ reported' = reported
      /\ finished \subseteq finished'
      /\ finished \in SUBSET (1..counter)
      /\ finished' \in SUBSET (1..counter)
  <2>1. counter' = counter /\ reported' = reported
        /\ finished \subseteq finished'
    BY DEF WorkerFinish
  <2>2. counter \in Nat
    BY RingAssumption DEF IInv, TypeOK
  <2> QED BY <2>1, <2>2 DEF IInv, TicketsSound
<1>2. /\ Over = Prefix(finished)
      /\ Over' = Prefix(finished')
  BY DEF Over, Prefix
<1>3. Advances(counter, Over, Over')
  BY <1>1, <1>2, PrefixGrows
<1>4. \/ Over' = Over
      \/ \E k \in 1..counter : k \notin Over /\ Over' = Over \cup 1..k
  BY <1>3 DEF Advances
<1> QED BY <1>1, <1>4 DEF Tickets!Next, Tickets!vars, Tickets!Finish

(* An answer is a report of the contract. *)
LEMMA ReportImplements ==
    ASSUME NEW t \in 1..counter, 1..t \subseteq finished,
           reported' = reported \cup 1..t, UNCHANGED <<counter, finished>>
    PROVE  Tickets!Next
<1>1. 1..t \subseteq Over
  BY DEF Over
<1>2. Over' = Over
  BY DEF Over
<1> QED BY <1>1, <1>2 DEF Tickets!Next, Tickets!Report

(* Every step is a step of the tickets or leaves them alone. *)
LEMMA StepImplements ==
    ASSUME \A m \in Modes : CollectsInOrder(m), IInv, IInv', [Next]_vars
    PROVE  [Tickets!Next]_(Tickets!vars)
<1>1. CASE UNCHANGED <<counter, finished, reported>>
  BY <1>1 DEF Tickets!vars, Over
<1>2. CollectsInOrder(mode)
  BY DEF IInv, TypeOK
<1>3. ASSUME NEW w \in Workers, Worker(w)
      PROVE  [Tickets!Next]_(Tickets!vars)
  <2>1. CASE WorkerFinish(w)
    BY <2>1, WorkerFinishImplements
  <2>2. CASE ~WorkerFinish(w)
    BY <1>1, <1>3, <2>2
       DEF Worker, WorkerTake, Takes, WorkerRead, WorkerWrite, WorkerFails,
           WorkerExit, Exits, history
  <2> QED BY <2>1, <2>2
<1>4. CASE InferEnqueue
  <2>1. counter' = counter + 1 /\ UNCHANGED <<finished, reported>>
    BY <1>4 DEF InferEnqueue, history
  <2>2. Over' = Over
    BY <2>1 DEF Over
  <2> QED BY <2>1, <2>2 DEF Tickets!Next, Tickets!Submit
<1>5. CASE WaitCall
  <2>1. PICK t \in Asks : WaitGone(t) \/ WaitBlock(t)
    BY <1>5 DEF WaitCall
  <2>2. CASE WaitGone(t)
    <3>1. /\ \A i \in Slots : ~Holds(i, t)
          /\ reported' = reported \cup 1..t
          /\ UNCHANGED <<counter, finished>>
      BY <2>2 DEF WaitGone, Collect
    <3>2. t \in 1..counter /\ 1..t \subseteq finished
      BY <1>2, <3>1, AskedIsBehindNone
    <3> QED BY <3>1, <3>2, ReportImplements
  <2>3. CASE WaitBlock(t)
    BY <1>1, <2>3 DEF WaitBlock, history
  <2> QED BY <2>1, <2>2, <2>3
<1>6. CASE WaitReturn
  <2>1. /\ call = "wait" /\ state[mine] = "DONE"
        /\ reported' = reported \cup 1..target
        /\ UNCHANGED <<counter, finished>>
    BY <1>6 DEF WaitReturn, WaitFrees, Collect
  <2>2. target \in Asks /\ \A i \in Slots : Holds(i, target) => i = mine
    BY <2>1 DEF IInv, CallSound, RingSound, Holds
  <2>3. target \in 1..counter /\ 1..target \subseteq finished
    BY <1>2, <2>1, <2>2, AskedIsBehindNone
  <2> QED BY <2>1, <2>3, ReportImplements
<1>7. CASE PollComplete
  <2>1. PICK t \in Asks :
            /\ \A i \in Slots : Holds(i, t) => state[i] = "DONE"
            /\ reported' = reported \cup 1..t
    BY <1>7 DEF PollComplete, Polls
  <2>2. UNCHANGED <<counter, finished>>
    BY <1>7 DEF PollComplete, Polls
  <2>3. t \in 1..counter /\ 1..t \subseteq finished
    BY <1>2, <2>1, AskedIsBehindNone
  <2> QED BY <2>1, <2>2, <2>3, ReportImplements
<1>8. CASE InCall /\ ~InferEnqueue /\ ~WaitReturn
  BY <1>1, <1>8
     DEF InCall, InferClaim, InferFill, Flush, ConfigureReturn, DestroyReturn,
         StopReturn, FreeRing, history
<1>9. CASE InferCall \/ StopCall("configure") \/ StopCall("destroy") \/ Gone
  BY <1>1, <1>9 DEF InferCall, StopCall, Gone, vars, history
<1>10. CASE UNCHANGED vars
  BY <1>1, <1>10 DEF vars, history
<1> QED BY <1>3, <1>4, <1>5, <1>6, <1>7, <1>8, <1>9, <1>10 DEF Next, Filter

(* The ring, with its workers overtaking each other, implements the        *)
(* tickets of aji.h.                                                       *)
THEOREM Implements ==
    ASSUME \A m \in Modes : CollectsInOrder(m)
    PROVE  Spec => ImplementsTickets
<1>1. IInv /\ IInv' /\ [Next]_vars => [Tickets!Next]_(Tickets!vars)
  BY StepImplements
<1>2. Init => Tickets!Init
  BY DEF Init, Tickets!Init, Over
<1> QED
  BY <1>1, <1>2, Invariance, PTL DEF Spec, ImplementsTickets, Tickets!Spec
=============================================================================
