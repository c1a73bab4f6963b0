------------------------------ MODULE Dml_proofs ------------------------------
(***************************************************************************)
(* Proofs about the DirectML backend: first its markers and command lists, *)
(* for any number of lists, markers and frames in flight, and then, from   *)
(* the next heading, what its chain keeps from frame to frame.             *)
(***************************************************************************)
EXTENDS DmlFences, DmlChain, WellFoundedInduction, TLAPS

Ops == [op : {"execute", "await", "marker"}, arg : Nat]
Steps == {"handoff", "seg", "sync", "teardown", "failed"}

-----------------------------------------------------------------------------
(* What the parts of the invariant are about. *)

(* Steps that leave alone what a part is about keep it. *)
LEMMA Framed ==
    /\ QueueSound /\ UNCHANGED <<queue, doneFence, doneVal>> => QueueSound'
    /\ ProgramSound /\ UNCHANGED <<call, todo, cur, tag>> => ProgramSound'
    /\ WaitSound /\ UNCHANGED <<late, waiting, call, todo, armed, registered,
                                event, doneFence>>
       => WaitSound'
    /\ ListsSound /\ UNCHANGED <<queue, made, cur, tag>> => ListsSound'
    /\ DrainSound /\ UNCHANGED <<queue, waiting, call, todo>> => DrainSound'
    /\ BudgetSound /\ UNCHANGED <<doneVal, call, owes, todo, waiting>>
       => BudgetSound'
<1>1. QueueSound /\ UNCHANGED <<queue, doneFence, doneVal>> => QueueSound'
  BY DEF QueueSound
<1>2. ProgramSound /\ UNCHANGED <<call, todo, cur, tag>> => ProgramSound'
  BY DEF ProgramSound, At
<1>3. WaitSound /\ UNCHANGED <<late, waiting, call, todo, armed, registered,
                               event, doneFence>>
      => WaitSound'
  BY DEF WaitSound, At
<1>4. ListsSound /\ UNCHANGED <<queue, made, cur, tag>> => ListsSound'
  BY DEF ListsSound
<1>5. DrainSound /\ UNCHANGED <<queue, waiting, call, todo>> => DrainSound'
  BY DEF DrainSound, At
<1>6. BudgetSound /\ UNCHANGED <<doneVal, call, owes, todo, waiting>>
      => BudgetSound'
  BY DEF BudgetSound, Budget, Ahead
<1> QED BY <1>1, <1>2, <1>3, <1>4, <1>5, <1>6

(* An operation at the end of the queue leaves the others their places.    *)
LEMMA Appended ==
    ASSUME NEW q \in Seq(Ops), NEW e \in Ops
    PROVE  /\ Append(q, e) \in Seq(Ops) /\ Len(q) \in Nat
           /\ DOMAIN q = 1..Len(q)
           /\ DOMAIN Append(q, e) = 1..(Len(q) + 1)
           /\ \A i \in 1..Len(q) : Append(q, e)[i] = q[i]
           /\ Append(q, e)[Len(q) + 1] = e
OBVIOUS

(* What is left of a program when its first step is done.                  *)
LEMMA Stepped ==
    ASSUME NEW p \in Seq(Steps), p # << >>
    PROVE  /\ Tail(p) \in Seq(Steps) /\ Len(p) \in Nat \ {0}
           /\ Head(p) = p[1]
           /\ DOMAIN p = 1..Len(p) /\ DOMAIN Tail(p) = 1..(Len(p) - 1)
           /\ \A i \in 1..(Len(p) - 1) : Tail(p)[i] = p[i + 1]
           /\ Tail(p) # << >> => 2 \in DOMAIN p /\ Tail(p)[1] = p[2]
OBVIOUS

(* Work in the queue is of lists that are not retired.                     *)
LEMMA RetiredRan ==
    ASSUME TypeOK, QueueSound, ListsSound
    PROVE  \A i \in DOMAIN queue : queue[i].op = "execute" =>
               queue[i].arg \notin Retired
<1> SUFFICES ASSUME NEW i \in DOMAIN queue, queue[i].op = "execute",
                    queue[i].arg \in Retired
             PROVE  FALSE
  OBVIOUS
<1> DEFINE l == queue[i].arg
<1>1. l \in 1..made /\ tag[l] <= doneFence
  BY DEF Retired, Completed
<1>2. tag[l] # Unmarked
  BY <1>1, BoundsAssumption DEF TypeOK, Unmarked
<1>3. PICK j \in DOMAIN queue : queue[j] = Marker(tag[l])
  BY <1>2 DEF ListsSound
<1>4. doneFence < tag[l]
  BY <1>3 DEF QueueSound, Marker
<1> QED
  <2>1. tag[l] \in Int /\ doneFence \in Int
    BY SMTT(30), <1>1, BoundsAssumption DEF TypeOK, Unmarked, Lists
  <2> QED BY <1>1, <1>4, <2>1

(* When the marker a call waits for is reached, all work has run.          *)
LEMMA WaitedRan ==
    ASSUME TypeOK, QueueSound, DrainSound, waiting # 0, call # "wait",
           waiting <= doneFence
    PROVE  \A i \in DOMAIN queue : queue[i].op # "execute"
<1> SUFFICES ASSUME NEW i \in DOMAIN queue, queue[i].op = "execute"
             PROVE  FALSE
  OBVIOUS
<1>1. PICK j \in DOMAIN queue : queue[j] = Marker(waiting)
  BY DEF DrainSound
<1>2. doneFence < waiting
  BY <1>1 DEF QueueSound, Marker
<1>3. waiting \in Int /\ doneFence \in Int
  BY DEF TypeOK
<1> QED BY <1>2, <1>3

(* Markers to come, when the first step is done.                           *)
LEMMA AheadLess ==
    ASSUME TypeOK, BudgetSound, todo # << >>, todo' = Tail(todo),
           doneVal' = doneVal, call' = call, owes' = owes
    PROVE  BudgetSound'
<1>1. /\ DOMAIN todo = 1..Len(todo) /\ Len(todo) \in Nat
      /\ DOMAIN (todo') = 1..(Len(todo) - 1)
      /\ \A i \in 1..(Len(todo) - 1) : todo'[i] = todo[i + 1]
  BY Stepped DEF TypeOK, Steps
<1>2. Budget' = Budget
  BY DEF Budget
<1>3. ASSUME NEW p \in 1..(Len(todo) - 1), Ahead(p)'
      PROVE  p + 1 \in DOMAIN todo /\ Ahead(p + 1)
  BY <1>1, <1>3 DEF Ahead
<1>4. \A p \in DOMAIN (todo') : Ahead(p)' => Budget' >= 1
  BY <1>1, <1>2, <1>3 DEF BudgetSound
<1>5. \A p, q \in DOMAIN (todo') : Ahead(p)' /\ Ahead(q)' /\ p < q
                                     => Budget' >= 2
  <2> SUFFICES ASSUME NEW p \in 1..(Len(todo) - 1),
                      NEW q \in 1..(Len(todo) - 1),
                      Ahead(p)', Ahead(q)', p < q
               PROVE  Budget' >= 2
    BY <1>1
  <2>1. p + 1 < q + 1
    BY <1>1
  <2> QED BY <1>2, <1>3, <2>1 DEF BudgetSound
<1>6. \A p, q, r \in DOMAIN (todo') :
          ~(Ahead(p)' /\ Ahead(q)' /\ Ahead(r)' /\ p < q /\ q < r)
  <2> SUFFICES ASSUME NEW p \in 1..(Len(todo) - 1),
                      NEW q \in 1..(Len(todo) - 1),
                      NEW r \in 1..(Len(todo) - 1),
                      Ahead(p)', Ahead(q)', Ahead(r)', p < q, q < r
               PROVE  FALSE
    BY <1>1
  <2>1. p + 1 < q + 1 /\ q + 1 < r + 1
    BY <1>1
  <2> QED BY <1>3, <2>1 DEF BudgetSound
<1> QED BY <1>2, <1>4, <1>5, <1>6 DEF BudgetSound

(* No markers to come of a call that is over or has failed.                *)
LEMMA NoneAhead ==
    ASSUME todo' = << >> \/ todo' = <<"failed">>, Budget' >= 0
    PROVE  BudgetSound'
<1>1. \A p \in DOMAIN (todo') : ~Ahead(p)'
  BY DEF Ahead
<1> QED BY <1>1 DEF BudgetSound

-----------------------------------------------------------------------------
(* A marker at the end of the queue. *)

LEMMA MarkerPut ==
    ASSUME TypeOK, QueueSound, doneVal < MaxMarkers, SignalDone,
           UNCHANGED <<doneFence, made, cur>>
    PROVE  /\ doneVal' \in 0..MaxMarkers /\ doneFence \in 0..doneVal'
           /\ queue' \in Seq(Ops)
           /\ tag' \in [Lists -> (0..doneVal') \cup {Unmarked}]
           /\ QueueSound'
           /\ ListsSound => ListsSound'
           /\ \A i \in DOMAIN (queue') : queue'[i].op = "execute" =>
                  i \in DOMAIN queue /\ queue[i] = queue'[i]
           /\ \A i \in DOMAIN queue :
                  /\ queue'[i] = queue[i]
                  /\ \E j \in DOMAIN (queue') :
                         i < j /\ queue'[j] = Marker(doneVal + 1)
<1> DEFINE v == doneVal + 1
           n == Len(queue) + 1
<1>1. /\ queue' = Append(queue, Marker(v)) /\ doneVal' = v
      /\ tag' = [l \in Lists |-> IF tag[l] = Unmarked THEN v ELSE tag[l]]
  BY DEF SignalDone, PutMarker
<1>2. /\ v \in 1..MaxMarkers /\ v # Free /\ v # Unmarked /\ doneVal \in Nat
      /\ doneFence \in 0..doneVal /\ doneVal < v
  BY BoundsAssumption DEF TypeOK, Free, Unmarked
<1>3. queue \in Seq(Ops) /\ Marker(v) \in Ops
  BY <1>2 DEF TypeOK, Ops, Marker
<1>4. /\ queue' \in Seq(Ops) /\ n \in Nat \ {0}
      /\ DOMAIN queue = 1..(n - 1) /\ DOMAIN (queue') = 1..n
      /\ \A i \in 1..(n - 1) : queue'[i] = queue[i]
      /\ queue'[n] = Marker(v)
  BY <1>1, <1>3, Appended
<1>5. /\ tag \in [Lists -> (0..doneVal) \cup {Unmarked}]
      /\ tag' \in [Lists -> (0..v) \cup {Unmarked}]
      /\ made \in 0..MaxLists
  <2>1. tag \in [Lists -> (0..doneVal) \cup {Unmarked}]
    BY DEF TypeOK
  <2> QED BY <1>1, <1>2, <2>1 DEF TypeOK
<1> HIDE DEF v, n
<1>6. QueueSound'
  <2>1. \A i \in 1..(n - 1) : queue[i].op = "marker" =>
            /\ doneFence < queue[i].arg /\ queue[i].arg <= doneVal
            /\ queue[i].arg \in Nat
    <3>1. \A i \in 1..(n - 1) : queue[i] \in Ops
      BY <1>3, <1>4
    <3>2. \A i \in 1..(n - 1) : queue[i].arg \in Nat
      BY <3>1 DEF Ops
    <3> QED BY <1>4, <3>2 DEF QueueSound
  <2>2. queue'[n].op = "marker" /\ queue'[n].arg = v
    BY <1>4 DEF Marker
  <2>3. \A i \in 1..n : i \in 1..(n - 1) \/ i = n
    BY <1>4
  <2>4. \A i \in 1..n : queue'[i].op = "marker" =>
            doneFence < queue'[i].arg /\ queue'[i].arg <= v
    BY <1>2, <1>4, <2>1, <2>2, <2>3
  <2>5. \A i, j \in 1..n :
            i < j /\ queue'[i].op = "marker" /\ queue'[j].op = "marker" =>
                queue'[i].arg < queue'[j].arg
    <3> SUFFICES ASSUME NEW i \in 1..n, NEW j \in 1..n, i < j,
                        queue'[i].op = "marker", queue'[j].op = "marker"
                 PROVE  queue'[i].arg < queue'[j].arg
      OBVIOUS
    <3>1. i \in 1..(n - 1)
      BY <1>4
    <3>2. CASE j = n
      BY <1>2, <1>4, <2>1, <2>2, <3>1, <3>2
    <3>3. CASE j \in 1..(n - 1)
      BY <1>4, <3>1, <3>3 DEF QueueSound
    <3> QED BY <2>3, <3>2, <3>3
  <2> QED BY <1>1, <1>4, <2>4, <2>5 DEF QueueSound
<1>7. \A i \in 1..n : queue'[i].op = "execute" =>
          i \in 1..(n - 1) /\ queue[i] = queue'[i]
  <2>1. queue'[n].op # "execute"
    BY <1>4 DEF Marker
  <2> QED BY <1>4, <2>1
<1>8. ListsSound => ListsSound'
  <2> SUFFICES ASSUME ListsSound,
                      NEW i \in 1..n, queue'[i].op = "execute"
               PROVE  /\ queue'[i].arg \in 1..made /\ queue'[i].arg # cur
                      /\ tag'[queue'[i].arg] # Free
                      /\ tag'[queue'[i].arg] # Unmarked =>
                          \E j \in 1..n :
                              i < j /\ queue'[j] = Marker(tag'[queue'[i].arg])
    BY <1>4 DEF ListsSound, Marker
  <2> DEFINE l == queue[i].arg
  <2>1. i \in 1..(n - 1) /\ queue[i].op = "execute" /\ queue'[i].arg = l
    BY <1>7
  <2>2. l \in 1..made /\ l # cur /\ tag[l] # Free
    BY <1>4, <2>1 DEF ListsSound
  <2>3. l \in Lists
    BY <1>5, <2>2, BoundsAssumption DEF Lists
  <2>4. CASE tag[l] = Unmarked
    <3>1. tag'[l] = v /\ i < n /\ n \in 1..n
      BY <1>1, <1>4, <2>1, <2>3, <2>4
    <3> QED BY <1>2, <1>4, <2>1, <2>2, <3>1
  <2>5. CASE tag[l] # Unmarked
    <3>1. tag'[l] = tag[l]
      BY <1>1, <2>3, <2>5
    <3>2. PICK j \in 1..(n - 1) : i < j /\ queue[j] = Marker(tag[l])
      BY <1>4, <2>1, <2>5 DEF ListsSound
    <3> QED BY <1>4, <2>1, <2>2, <3>1, <3>2
  <2> QED BY <2>4, <2>5
<1>9. \A i \in 1..(n - 1) : \E j \in 1..n : i < j /\ queue'[j] = Marker(v)
  <2>1. n \in 1..n /\ \A i \in 1..(n - 1) : i < n
    BY <1>4
  <2> QED BY <1>4, <2>1
<1> QED BY <1>1, <1>2, <1>4, <1>5, <1>6, <1>7, <1>8, <1>9 DEF v

-----------------------------------------------------------------------------
(* The queues. *)

LEMMA D3D11SignalsInv ==
    ASSUME IInv, D3D11Signals
    PROVE  IInv'
<1>1. /\ fence' = fence + 1 /\ fence < fenceVal
      /\ UNCHANGED <<late, fenceVal, doneFence, queue, doneVal, listVars,
                     waitVars, callVars, clientVars>>
  BY DEF D3D11Signals
<1>2. TypeOK'
  <2>1. fence' \in 0..fenceVal'
    BY <1>1 DEF IInv, TypeOK
  <2>2. UNCHANGED <<late, fenceVal, doneFence, queue, doneVal, made, tag,
                    recording, cur, registered, event, waiting, armed, call,
                    todo, owes, inflight, reported>>
    BY <1>1 DEF listVars, waitVars, callVars, clientVars
  <2> QED BY <2>1, <2>2 DEF IInv, TypeOK
<1> QED BY <1>1, <1>2, Framed
        DEF IInv, listVars, waitVars, callVars, clientVars

LEMMA QueueRunsInv ==
    ASSUME IInv, QueueRuns
    PROVE  IInv'
<1> DEFINE h == Head(queue)
           n == Len(queue) - 1
<1>1. /\ queue # << >> /\ queue' = Tail(queue)
      /\ \/ /\ h.op # "marker"
            /\ UNCHANGED <<doneFence, registered, event>>
         \/ /\ h.op = "marker" /\ doneFence' = h.arg
            /\ registered' = {v \in registered : v > h.arg}
            /\ event' = (event \/ registered' # registered)
      /\ UNCHANGED <<late, fenceVal, fence, doneVal, listVars, waiting, armed,
                     callVars, clientVars>>
  BY DEF QueueRuns
<1>2. /\ queue' \in Seq(Ops) /\ n \in Nat /\ h = queue[1] /\ h \in Ops
      /\ DOMAIN queue = 1..(n + 1) /\ DOMAIN (queue') = 1..n
      /\ 1 \in DOMAIN queue
      /\ \A i \in 1..n : /\ queue'[i] = queue[i + 1]
                         /\ i + 1 \in 1..(n + 1) /\ 1 < i + 1
  <2>1. queue \in Seq(Ops)
    BY DEF IInv, TypeOK, Ops
  <2> QED BY <1>1, <2>1
<1>3. doneVal \in Nat /\ doneFence \in 0..doneVal
  BY BoundsAssumption DEF IInv, TypeOK
<1>4. h.op = "marker" => doneFence < h.arg /\ h.arg <= doneVal /\ h.arg \in Nat
  BY <1>2 DEF IInv, QueueSound, Ops
<1>5. doneFence' \in 0..doneVal /\ doneFence <= doneFence'
  BY <1>1, <1>3, <1>4
<1> HIDE DEF h, n
<1>6. TypeOK'
  <2>1. UNCHANGED <<late, fenceVal, fence, doneVal, made, tag, recording, cur,
                    waiting, armed, call, todo, owes, inflight, reported>>
    BY <1>1 DEF listVars, callVars, clientVars
  <2>2. registered' \subseteq 1..doneVal /\ event' \in BOOLEAN
    BY <1>1 DEF IInv, TypeOK
  <2> QED BY <1>2, <1>5, <2>1, <2>2 DEF IInv, TypeOK, Ops
<1>7. QueueSound'
  <2>1. ASSUME NEW i \in 1..n, queue'[i].op = "marker"
        PROVE  doneFence' < queue'[i].arg /\ queue'[i].arg <= doneVal
    <3>1. /\ queue[i + 1].op = "marker" /\ i + 1 \in DOMAIN queue
          /\ 1 < i + 1 /\ queue'[i] = queue[i + 1]
      BY <1>2, <2>1
    <3>2. doneFence < queue[i + 1].arg /\ queue[i + 1].arg <= doneVal
      BY <3>1 DEF IInv, QueueSound
    <3>3. h.op = "marker" => h.arg < queue[i + 1].arg
      BY <1>2, <3>1 DEF IInv, QueueSound
    <3> QED BY <1>1, <3>1, <3>2, <3>3
  <2>2. ASSUME NEW i \in 1..n, NEW j \in 1..n, i < j,
               queue'[i].op = "marker", queue'[j].op = "marker"
        PROVE  queue'[i].arg < queue'[j].arg
    <3>1. i + 1 < j + 1
      BY <1>2, <2>2
    <3> QED BY <1>2, <2>2, <3>1 DEF IInv, QueueSound
  <2>3. doneVal' = doneVal
    BY <1>1
  <2> QED BY <1>2, <2>1, <2>2, <2>3 DEF QueueSound
<1>8. WaitSound'
  <2>1. \A v \in registered' : v \in registered /\ doneFence' < v
    <3>1. registered \subseteq Nat
      BY <1>3 DEF IInv, TypeOK
    <3> QED BY <1>1, <1>3, <1>4, <3>1 DEF IInv, WaitSound
  <2>2. waiting \in Nat
    BY <1>3 DEF IInv, TypeOK
  <2>3. ASSUME ~late, event' PROVE waiting <= doneFence'
    <3>1. CASE event
      BY <1>3, <1>5, <2>2, <2>3, <3>1 DEF IInv, WaitSound
    <3>2. CASE ~event
      <4>1. /\ h.op = "marker" /\ doneFence' = h.arg
            /\ registered' = {v \in registered : v > h.arg}
            /\ registered' # registered
        BY <1>1, <2>3, <3>2
      <4>2. PICK v \in registered : ~(v > h.arg)
        BY <4>1
      <4>3. v = waiting
        BY <2>3, <4>2 DEF IInv, WaitSound
      <4> QED BY <1>4, <2>2, <4>1, <4>2, <4>3
    <3> QED BY <3>1, <3>2
  <2>4. ASSUME ~late, ~armed PROVE ~event' /\ registered' = {}
    <3>1. registered = {} /\ ~event
      BY <2>4 DEF IInv, WaitSound
    <3>2. registered' = {}
      BY <2>1, <3>1
    <3>3. event = FALSE /\ event' \in BOOLEAN
      BY <1>6, <3>1 DEF IInv, TypeOK
    <3>4. registered' = registered
      BY <3>1, <3>2
    <3>5. event' = FALSE
      <4>1. CASE event' = event
        BY <3>3, <4>1
      <4>2. CASE event' = (event \/ registered' # registered)
        BY <3>3, <3>4, <4>2
      <4> QED BY <1>1, <4>1, <4>2
    <3> QED BY <3>2, <3>5
  <2>5. ASSUME ~late, armed PROVE registered' \subseteq {waiting}
    BY <2>1, <2>5 DEF IInv, WaitSound
  <2>6. UNCHANGED <<late, waiting, armed, call, todo>>
    BY <1>1 DEF callVars
  <2>7. /\ waiting # 0 => call = "wait" \/ At("sync")
        /\ armed => waiting # 0
    BY DEF IInv, WaitSound
  <2> QED BY <2>1, <2>3, <2>4, <2>5, <2>6, <2>7 DEF WaitSound, At
<1>9. UNCHANGED <<made, tag, cur, call, todo, waiting>>
  BY <1>1 DEF listVars, callVars
<1>10. ASSUME NEW i \in 1..n,
              NEW m, \E j \in DOMAIN queue : i + 1 < j /\ queue[j] = m
       PROVE  \E j \in 1..n : i < j /\ queue'[j] = m
  <2>1. PICK j \in 1..(n + 1) : i + 1 < j /\ queue[j] = m
    BY <1>2, <1>10
  <2>2. j - 1 \in 1..n /\ i < j - 1 /\ (j - 1) + 1 = j
    BY <1>2, <2>1
  <2> QED BY <1>2, <2>1, <2>2
<1>11. ListsSound => ListsSound'
  <2> SUFFICES ASSUME ListsSound, NEW i \in 1..n, queue'[i].op = "execute"
               PROVE  /\ queue'[i].arg \in 1..made /\ queue'[i].arg # cur
                      /\ tag[queue'[i].arg] # Free
                      /\ tag[queue'[i].arg] # Unmarked =>
                          \E j \in 1..n :
                              i < j /\ queue'[j] = Marker(tag[queue'[i].arg])
    BY <1>2, <1>9 DEF ListsSound, Marker
  <2>1. /\ i + 1 \in DOMAIN queue /\ queue'[i] = queue[i + 1]
        /\ queue[i + 1].op = "execute"
    BY <1>2
  <2> QED BY <1>10, <2>1 DEF ListsSound
<1>12. DrainSound => DrainSound'
  <2> SUFFICES ASSUME DrainSound, NEW i \in 1..n, queue'[i].op = "execute"
               PROVE  /\ waiting # 0 /\ call # "wait" =>
                          \E j \in 1..n : i < j /\ queue'[j] = Marker(waiting)
                      /\ ~At("teardown")
    BY <1>2, <1>9 DEF DrainSound, At, Marker
  <2>1. /\ i + 1 \in DOMAIN queue /\ queue'[i] = queue[i + 1]
        /\ queue[i + 1].op = "execute"
    BY <1>2
  <2> QED BY <1>10, <2>1 DEF DrainSound
<1> QED BY <1>1, <1>6, <1>7, <1>8, <1>9, <1>11, <1>12, Framed
        DEF IInv, listVars, callVars, clientVars

-----------------------------------------------------------------------------
(* The steps of a call. *)

LEMMA InsideACall ==
    ASSUME IInv, todo # << >>
    PROVE  /\ call \in {"infer", "rife", "configure", "destroy"}
           /\ ~At("sync") => waiting = 0
           /\ ~At("seg") => cur = NoList
BY DEF IInv, TypeOK, ProgramSound, WaitSound

(* A step other than a wait is not what a teardown comes behind.           *)
LEMMA NextStep ==
    ASSUME IInv, todo # << >>, todo' = Tail(todo), call' = call,
           cur' = NoList
    PROVE  /\ todo' \in Seq(Steps)
           /\ ProgramSound'
           /\ ~At("sync") => ~At("teardown")'
<1>1. /\ todo \in Seq(Steps) /\ todo' \in Seq(Steps)
      /\ DOMAIN todo = 1..Len(todo) /\ DOMAIN (todo') = 1..(Len(todo) - 1)
      /\ Len(todo) \in Nat \ {0}
      /\ \A i \in 1..(Len(todo) - 1) : todo'[i] = todo[i + 1]
  BY Stepped DEF IInv, TypeOK, Steps
<1>2. \A i \in 1..(Len(todo) - 1) :
          /\ i + 1 \in DOMAIN todo /\ todo'[i] = todo[i + 1] /\ i + 1 # 1
          /\ i + 1 = 2 => i = 1
  BY <1>1
<1>3. ~At("sync") => ~At("teardown")'
  BY <1>1, <1>2 DEF IInv, ProgramSound, At
<1>4. \A i \in DOMAIN (todo') :
          /\ todo'[i] = "sync" => call \in {"rife", "configure", "destroy"}
          /\ todo'[i] = "teardown" =>
                call \in {"configure", "destroy"} /\ i = 1
  BY <1>1, <1>2 DEF IInv, ProgramSound
<1>5. call \notin {"idle", "wait", "gone"}
  BY InsideACall
<1> QED BY <1>1, <1>3, <1>4, <1>5 DEF ProgramSound

LEMMA HandoffInv ==
    ASSUME IInv, Handoff
    PROVE  IInv'
<1> DEFINE e == AwaitInput(fenceVal + 1)
           n == Len(queue)
<1>1. /\ todo # << >> /\ todo[1] = "handoff" /\ todo' = Tail(todo)
      /\ fenceVal' = fenceVal + 1 /\ queue' = Append(queue, e)
      /\ UNCHANGED <<late, fence, doneFence, doneVal, listVars, waitVars,
                     call, clientVars>>
  BY DEF Handoff, HandsOff, IInv, TypeOK
<1>2. fenceVal \in Nat /\ queue \in Seq(Ops) /\ e \in Ops /\ e.op = "await"
  BY DEF IInv, TypeOK, Ops, AwaitInput
<1> HIDE DEF e
<1>3. /\ queue' \in Seq(Ops) /\ n \in Nat
      /\ DOMAIN queue = 1..n /\ DOMAIN (queue') = 1..(n + 1)
      /\ \A i \in 1..n : queue'[i] = queue[i]
      /\ queue'[n + 1] = e
  BY <1>1, <1>2, Appended
<1>4. \A i \in 1..(n + 1) : queue'[i].op # "await" => i \in 1..n
  BY <1>2, <1>3
<1> HIDE DEF n
<1>5. cur = NoList /\ waiting = 0
  BY <1>1, InsideACall DEF At
<1>6. todo' \in Seq(Steps) /\ ~At("sync")
  BY <1>1, <1>5, NextStep DEF listVars, At
<1>7. TypeOK'
  <2>1. fenceVal' \in Nat /\ fence \in 0..fenceVal'
    BY <1>1, <1>2 DEF IInv, TypeOK
  <2>2. UNCHANGED <<late, fence, doneFence, doneVal, made, tag, recording,
                    cur, registered, event, waiting, armed, call, owes,
                    inflight, reported>>
    BY <1>1 DEF listVars, waitVars, clientVars
  <2> QED BY <1>3, <1>6, <2>1, <2>2 DEF IInv, TypeOK, Ops, Steps
<1>8. UNCHANGED <<late, doneFence, doneVal, made, tag, cur, registered,
                  event, waiting, armed, call, owes>>
  BY <1>1 DEF listVars, waitVars, clientVars
<1>9. QueueSound'
  <2>1. \A i \in 1..(n + 1) : queue'[i].op = "marker" =>
            i \in DOMAIN queue /\ queue'[i] = queue[i]
    BY <1>3, <1>4
  <2> QED BY <1>3, <1>8, <2>1 DEF IInv, QueueSound
<1>10. ListsSound => ListsSound'
  <2>1. \A i \in 1..(n + 1) : queue'[i].op = "execute" =>
            i \in 1..n /\ queue'[i] = queue[i]
    BY <1>3, <1>4
  <2>2. 1..n \subseteq 1..(n + 1)
    BY <1>3
  <2> QED BY <1>3, <1>8, <2>1, <2>2 DEF ListsSound, Marker
<1>11. ProgramSound' /\ ~At("teardown")'
  BY <1>1, <1>5, <1>6, <1>8, NextStep
<1>12. DrainSound'
  BY <1>5, <1>8, <1>11 DEF DrainSound
<1>13. WaitSound'
  BY <1>5, <1>8 DEF IInv, WaitSound
<1>14. BudgetSound'
  BY <1>1, <1>8, AheadLess DEF IInv
<1> QED BY <1>7, <1>8, <1>9, <1>10, <1>11, <1>12, <1>13, <1>14 DEF IInv

(* A call that failed has no steps left to take.                           *)
LEMMA FailedSound ==
    ASSUME IInv, todo # << >>, todo' = <<"failed">>, cur' = NoList,
           call' = call
    PROVE  /\ ProgramSound' /\ todo' \in Seq(Steps)
           /\ ~At("teardown")'
           /\ waiting' = 0 => /\ UNCHANGED <<late, armed, registered, event,
                                             doneFence, waiting>> => WaitSound'
                              /\ DrainSound'
           /\ UNCHANGED <<doneVal, owes>> => BudgetSound'
<1>1. /\ todo' \in Seq(Steps) /\ DOMAIN (todo') = {1}
      /\ todo'[1] = "failed"
  BY DEF Steps
<1>2. ProgramSound' /\ ~At("teardown")'
  BY <1>1, InsideACall DEF ProgramSound, At
<1>3. waiting' = 0 => /\ UNCHANGED <<late, armed, registered, event,
                                     doneFence, waiting>> => WaitSound'
                      /\ DrainSound'
  BY <1>2 DEF IInv, WaitSound, DrainSound
<1>4. UNCHANGED <<doneVal, owes>> => BudgetSound'
  <2> SUFFICES ASSUME UNCHANGED <<doneVal, owes>> PROVE BudgetSound'
    OBVIOUS
  <2>1. Budget' = Budget /\ Budget >= 0
    BY DEF Budget, IInv, BudgetSound
  <2> QED BY <2>1, NoneAhead
<1> QED BY <1>1, <1>2, <1>3, <1>4

LEMMA StepFailsInv ==
    ASSUME IInv, StepFails
    PROVE  IInv'
<1>1. /\ todo # << >> /\ todo[1] \in {"seg", "handoff"}
      /\ todo' = <<"failed">> /\ cur' = NoList
      /\ UNCHANGED <<late, fenceVal, gpuVars, doneVal, made, tag, recording,
                     waitVars, call, clientVars>>
  BY DEF StepFails, Fails, IInv, TypeOK
<1>2. UNCHANGED <<late, fenceVal, fence, doneFence, queue, doneVal, made, tag,
                  recording, registered, event, waiting, armed, call, owes,
                  inflight, reported>>
  BY <1>1 DEF gpuVars, waitVars, clientVars
<1>3. waiting = 0
  BY <1>1, InsideACall DEF At
<1>4. TypeOK'
  BY <1>1, <1>2, FailedSound DEF IInv, TypeOK, Steps
<1>5. ListsSound => ListsSound'
  <2>1. made \in Nat
    BY BoundsAssumption DEF IInv, TypeOK
  <2>2. \A l \in 1..made : l # cur'
    BY <1>1, <2>1 DEF NoList
  <2> QED BY <1>2, <2>2 DEF ListsSound
<1>6. /\ ProgramSound' /\ WaitSound' /\ DrainSound' /\ BudgetSound'
  BY <1>1, <1>2, <1>3, FailedSound
<1>7. QueueSound'
  BY <1>2, Framed DEF IInv
<1> QED BY <1>2, <1>4, <1>5, <1>6, <1>7 DEF IInv

LEMMA BeginInv ==
    ASSUME IInv, Begin
    PROVE  IInv'
<1>1. /\ todo # << >> /\ todo[1] = "seg" /\ cur = NoList
      /\ UNCHANGED <<late, fenceVal, gpuVars, doneVal, waitVars, call,
                     clientVars>>
  BY DEF Begin, IInv, TypeOK
<1>2. PICK l \in IF Retired = {} THEN {made + 1} \cap Lists ELSE Retired :
          /\ made' = IF l > made THEN l ELSE made
          /\ tag' = [k \in Lists |-> IF k = l THEN Unmarked
                                     ELSE IF k \in Retired THEN Free
                                     ELSE tag[k]]
          /\ IF l \in recording
             THEN Fails /\ UNCHANGED recording
             ELSE /\ cur' = l
                  /\ recording' = recording \cup {l}
                  /\ UNCHANGED todo
  BY DEF Begin
<1>3. UNCHANGED <<late, fenceVal, fence, doneFence, queue, doneVal,
                  registered, event, waiting, armed, call, owes, inflight,
                  reported>>
  BY <1>1 DEF gpuVars, waitVars, clientVars
<1>4. /\ waiting = 0 /\ ~At("teardown") /\ ~At("sync")
  BY <1>1, InsideACall DEF At
<1>5. /\ made \in 0..MaxLists /\ MaxLists \in Nat /\ MaxMarkers \in Nat
      /\ recording \subseteq 1..made /\ Retired \subseteq 1..made
      /\ tag \in [Lists -> (0..doneVal) \cup {Unmarked}]
  BY BoundsAssumption DEF IInv, TypeOK, Retired
<1>6. /\ l \in 1..MaxLists /\ made' \in 0..MaxLists /\ l \in 1..made'
      /\ made <= made'
      /\ l \in Retired \/ l = made + 1
  <2>1. CASE Retired = {}
    BY <1>2, <1>5, <2>1 DEF Lists
  <2>2. CASE Retired # {}
    <3>1. l \in Retired /\ l \in 1..made
      BY <1>5, <2>2
    <3>2. ~(l > made) /\ made \in Nat /\ l \in Nat
      BY <1>5, <3>1
    <3>3. made' = made
      BY <1>2, <3>2
    <3> QED BY <1>5, <3>1, <3>3
  <2> QED BY <2>1, <2>2
<1>7. /\ tag' \in [Lists -> (0..doneVal') \cup {Unmarked}]
      /\ tag'[l] = Unmarked
  BY <1>2, <1>3, <1>5, <1>6 DEF Free, Lists, IInv, TypeOK
<1>8. /\ recording' \subseteq 1..made' /\ cur' \in recording' \cup {NoList}
      /\ cur' \in {l, NoList}
      /\ \/ cur' = l /\ todo' = todo
         \/ cur' = NoList /\ todo' = <<"failed">>
  <2>1. recording \subseteq 1..made'
    BY <1>5, <1>6
  <2>2. CASE l \in recording
    BY <1>2, <2>1, <2>2 DEF Fails
  <2>3. CASE l \notin recording
    <3>1. cur' = l /\ recording' = recording \cup {l} /\ todo' = todo
      BY <1>2, <2>3
    <3> QED BY <1>6, <2>1, <3>1
  <2> QED BY <2>2, <2>3
<1>9. TypeOK'
  <2>1. todo' \in Seq(Steps)
    <3>1. todo \in Seq(Steps) /\ <<"failed">> \in Seq(Steps)
      BY DEF IInv, TypeOK, Steps
    <3> QED BY <1>8, <3>1
  <2> QED BY <1>3, <1>6, <1>7, <1>8, <2>1 DEF IInv, TypeOK, Steps
<1>10. ListsSound => ListsSound'
  <2> SUFFICES ASSUME ListsSound,
                      NEW i \in DOMAIN queue, queue[i].op = "execute"
               PROVE  LET k == queue[i].arg IN
                      /\ k \in 1..made' /\ k # cur'
                      /\ tag'[k] = tag[k]
    BY <1>3 DEF ListsSound
  <2> DEFINE k == queue[i].arg
  <2>1. k \in 1..made /\ k \notin Retired
    BY RetiredRan DEF ListsSound, IInv
  <2>2. k # l /\ k # NoList /\ k \in Lists
    BY <1>5, <1>6, <2>1 DEF NoList, Lists
  <2>3. k \in 1..made'
    BY <1>5, <1>6, <2>1
  <2> HIDE DEF k
  <2>4. tag'[k] = tag[k] /\ k # cur'
    BY <1>2, <1>8, <2>1, <2>2
  <2> QED BY <2>3, <2>4 DEF k
<1>11. QueueSound'
  BY <1>3, Framed DEF IInv
<1>12. CASE todo' = <<"failed">>
  BY <1>1, <1>3, <1>4, <1>8, <1>9, <1>10, <1>11, <1>12, FailedSound DEF IInv
<1>13. CASE cur' = l /\ todo' = todo
  <2>1. ProgramSound'
    BY <1>1, <1>3, <1>7, <1>13 DEF IInv, ProgramSound, At
  <2>2. WaitSound' /\ DrainSound' /\ BudgetSound'
    BY <1>3, <1>4, <1>13, Framed DEF IInv, DrainSound, At
  <2> QED BY <1>3, <1>9, <1>10, <1>11, <2>1, <2>2 DEF IInv
<1> QED BY <1>8, <1>12, <1>13

LEMMA ExecInv ==
    ASSUME IInv, Exec
    PROVE  IInv'
<1> DEFINE e == Execute(cur)
           n == Len(queue)
<1>1. /\ cur # NoList /\ queue' = Append(queue, e)
      /\ recording' = recording \ {cur} /\ cur' = NoList
      /\ todo' = Tail(todo)
      /\ UNCHANGED <<late, fenceVal, fence, doneFence, doneVal, made, tag,
                     waitVars, call, clientVars>>
  BY DEF Exec
<1>2. /\ At("seg") /\ tag[cur] = Unmarked /\ cur \in 1..made
      /\ todo # << >> /\ ~At("sync") /\ waiting = 0
  <2>1. At("seg") /\ tag[cur] = Unmarked /\ cur \in recording
    BY <1>1 DEF IInv, ProgramSound, TypeOK
  <2> QED BY <2>1, InsideACall DEF IInv, TypeOK, At
<1>3. /\ made \in Nat /\ queue \in Seq(Ops) /\ e \in Ops
      /\ e.op = "execute" /\ e.arg = cur
  BY <1>2, BoundsAssumption DEF IInv, TypeOK, Ops, Execute
<1> HIDE DEF e
<1>4. /\ queue' \in Seq(Ops) /\ n \in Nat
      /\ DOMAIN queue = 1..n /\ DOMAIN (queue') = 1..(n + 1)
      /\ \A i \in 1..n : queue'[i] = queue[i] /\ i \in 1..(n + 1)
      /\ queue'[n + 1] = e
      /\ \A i \in 1..(n + 1) : i \in 1..n \/ i = n + 1
  BY <1>1, <1>3, Appended
<1> HIDE DEF n
<1>5. UNCHANGED <<late, fenceVal, fence, doneFence, doneVal, made, tag,
                  registered, event, waiting, armed, call, owes, inflight,
                  reported>>
  BY <1>1 DEF waitVars, clientVars
<1>6. ProgramSound' /\ todo' \in Seq(Steps) /\ ~At("teardown")'
  BY <1>1, <1>2, NextStep
<1>7. TypeOK'
  BY <1>1, <1>4, <1>5, <1>6 DEF IInv, TypeOK, Ops, Steps
<1>8. QueueSound'
  <2>1. \A i \in 1..(n + 1) : queue'[i].op = "marker" =>
            i \in DOMAIN queue /\ queue'[i] = queue[i]
    BY <1>3, <1>4
  <2> QED BY <1>4, <1>5, <2>1 DEF IInv, QueueSound
<1>9. ListsSound => ListsSound'
  <2> SUFFICES ASSUME ListsSound,
                      NEW i \in 1..(n + 1), queue'[i].op = "execute"
               PROVE  /\ queue'[i].arg \in 1..made /\ queue'[i].arg # cur'
                      /\ tag[queue'[i].arg] # Free
                      /\ tag[queue'[i].arg] # Unmarked =>
                          \E j \in 1..(n + 1) :
                              i < j /\ queue'[j] = Marker(tag[queue'[i].arg])
    BY <1>4, <1>5 DEF ListsSound, Marker
  <2>1. CASE i \in 1..n
    <3>1. queue'[i] = queue[i] /\ i \in DOMAIN queue
      BY <1>4, <2>1
    <3>2. 1..made \subseteq Nat \ {0}
      BY <1>3
    <3> QED BY <1>1, <1>4, <3>1, <3>2 DEF ListsSound, NoList
  <2>2. CASE i = n + 1
    <3>1. queue'[i].arg = cur
      BY <1>3, <1>4, <2>2
    <3>2. Unmarked # Free
      BY BoundsAssumption DEF Unmarked, Free
    <3> QED BY <1>1, <1>2, <3>1, <3>2
  <2> QED BY <1>4, <2>1, <2>2
<1>10. DrainSound'
  BY <1>2, <1>5, <1>6 DEF DrainSound
<1>11. WaitSound'
  BY <1>2, <1>5 DEF IInv, WaitSound
<1>12. BudgetSound'
  BY <1>1, <1>2, <1>5, AheadLess DEF IInv
<1> QED BY <1>5, <1>6, <1>7, <1>8, <1>9, <1>10, <1>11, <1>12 DEF IInv

LEMMA SyncInv ==
    ASSUME IInv, Sync
    PROVE  IInv'
<1>1. /\ todo # << >> /\ At("sync") /\ 1 \in DOMAIN todo /\ todo[1] = "sync"
      /\ waiting = 0 /\ SignalDone /\ doneVal' = doneVal + 1
      /\ waiting' = doneVal + 1
      /\ UNCHANGED <<late, fenceVal, fence, doneFence, made, recording, cur,
                     registered, event, armed, callVars, clientVars>>
  BY DEF Sync, SignalDone, IInv, TypeOK, At
<1>2. UNCHANGED <<late, fenceVal, fence, doneFence, made, recording, cur,
                  registered, event, armed, call, todo, owes, inflight,
                  reported>>
  BY <1>1 DEF callVars, clientVars
<1>3. cur = NoList /\ Ahead(1) /\ ~At("teardown")
  BY <1>1, InsideACall DEF At, Ahead
<1>4. doneVal \in Nat /\ MaxMarkers \in Nat /\ doneVal < MaxMarkers
  <2>1. doneVal \in Nat /\ MaxMarkers \in Nat
    BY BoundsAssumption DEF IInv, TypeOK
  <2>2. Budget >= 1
    BY <1>1, <1>3 DEF IInv, BudgetSound
  <2> QED BY <2>1, <2>2 DEF Budget
<1>5. /\ doneVal' \in 0..MaxMarkers /\ doneFence \in 0..doneVal'
      /\ queue' \in Seq(Ops)
      /\ tag' \in [Lists -> (0..doneVal') \cup {Unmarked}]
      /\ QueueSound'
      /\ ListsSound => ListsSound'
      /\ \A i \in DOMAIN (queue') : queue'[i].op = "execute" =>
             i \in DOMAIN queue
      /\ \A i \in DOMAIN queue : \E j \in DOMAIN (queue') :
             i < j /\ queue'[j] = Marker(doneVal + 1)
  BY <1>1, <1>2, <1>4, MarkerPut DEF IInv
<1>6. TypeOK'
  <2>1. /\ registered' \subseteq 1..doneVal' /\ waiting' \in 0..doneVal'
        /\ inflight' \subseteq 1..doneVal' /\ reported' \subseteq 1..doneVal'
    BY <1>1, <1>2, <1>4 DEF IInv, TypeOK
  <2> QED BY <1>2, <1>5, <2>1 DEF IInv, TypeOK, Ops
<1>7. ProgramSound'
  BY <1>2, <1>3 DEF IInv, ProgramSound, At
<1>8. WaitSound'
  <2>1. ~late => registered = {} /\ ~event
    BY <1>1 DEF IInv, WaitSound
  <2>2. ~late => ~armed
    BY <1>1 DEF IInv, WaitSound
  <2>3. \A v \in registered : doneFence < v
    BY DEF IInv, WaitSound
  <2>4. waiting' # 0
    BY <1>1, <1>4
  <2> QED BY <1>1, <1>2, <2>1, <2>2, <2>3, <2>4 DEF WaitSound, At
<1>9. DrainSound'
  BY <1>1, <1>2, <1>3, <1>5 DEF DrainSound, At, Marker
<1>10. BudgetSound'
  <2>1. Budget' = Budget - 1
    BY <1>1, <1>2, <1>4 DEF Budget
  <2>2. Budget \in Int
    BY <1>4 DEF Budget
  <2>3. Budget' >= 0
    BY <1>1, <1>3, <2>1, <2>2 DEF IInv, BudgetSound
  <2>4. \A p \in DOMAIN todo : Ahead(p)' => Ahead(p) /\ p # 1
    BY <1>1, <1>2, <1>4 DEF Ahead
  <2>5. DOMAIN todo \subseteq Nat \ {0}
    BY DEF IInv, TypeOK
  <2>6. \A p \in DOMAIN todo : Ahead(p)' => Budget >= 2
    BY <1>1, <1>3, <2>4, <2>5 DEF IInv, BudgetSound
  <2>7. \A p, q \in DOMAIN todo : ~(Ahead(p)' /\ Ahead(q)' /\ p < q)
    BY <1>1, <1>3, <2>4, <2>5 DEF IInv, BudgetSound
  <2>8. \A p \in DOMAIN todo : Ahead(p)' => Budget' >= 1
    BY <2>1, <2>2, <2>6
  <2> QED BY <1>2, <2>3, <2>7, <2>8 DEF BudgetSound
<1> QED BY <1>2, <1>5, <1>6, <1>7, <1>8, <1>9, <1>10 DEF IInv

-----------------------------------------------------------------------------
(* Waits. *)

LEMMA WaitOverInv ==
    ASSUME IInv, NEW r \in BOOLEAN, WaitOver(r), waiting # 0,
           registered' = registered, event' \in BOOLEAN,
           ~late => waiting <= doneFence /\ registered = {} /\ ~event'
    PROVE  IInv'
<1>1. /\ waiting' = 0 /\ armed' = FALSE
      /\ UNCHANGED <<late, fenceVal, fence, doneFence, queue, doneVal, made,
                     tag, recording, cur, owes>>
  BY DEF WaitOver, gpuVars, listVars
<1>2. doneVal \in Nat /\ waiting \in 1..doneVal
  BY BoundsAssumption DEF IInv, TypeOK
<1>3. /\ inflight' \subseteq 1..doneVal
      /\ reported' \subseteq 1..doneVal
  <2>1. inflight \subseteq 1..doneVal /\ reported \subseteq 1..doneVal
    BY DEF IInv, TypeOK
  <2>2. /\ inflight' \in {inflight, {u \in inflight : u > waiting}}
        /\ reported' \in {reported, reported \cup 1..waiting}
    BY DEF WaitOver, Collect
  <2> QED BY <1>2, <2>1, <2>2
<1>4. /\ call' \in {call, "idle"}
      /\ call # "wait" => call' = call
      /\ call = "wait" => call' = "idle" /\ todo' = todo
      /\ call # "wait" => todo' \in {Tail(todo), <<"failed">>}
      /\ call \notin {"wait", "rife"} => todo' = Tail(todo)
  BY DEF WaitOver
<1>5. /\ call = "wait" => todo = << >> /\ cur = NoList
      /\ call # "wait" => At("sync") /\ todo # << >> /\ cur = NoList
      /\ call = "wait" \/ call \in {"rife", "configure", "destroy"}
  <2>1. call = "wait" \/ At("sync")
    BY DEF IInv, WaitSound
  <2>2. call = "wait" => todo = << >> /\ cur = NoList
    BY DEF IInv, ProgramSound, At
  <2>3. At("sync") => todo # << >> /\ cur = NoList
    BY InsideACall DEF At
  <2> QED BY <2>1, <2>2, <2>3 DEF WaitOver
<1>6. todo' \in Seq(Steps) /\ ProgramSound'
  <2>1. CASE call = "wait"
    BY <1>1, <1>4, <1>5, <2>1 DEF ProgramSound, IInv, TypeOK, Steps
  <2>2. CASE call # "wait"
    BY <1>1, <1>4, <1>5, <2>2, NextStep, FailedSound
  <2> QED BY <2>1, <2>2
<1>7. TypeOK'
  <2>1. call' \in {"idle", "infer", "rife", "wait", "configure", "destroy",
                   "gone"}
    BY <1>4 DEF IInv, TypeOK
  <2>2. registered' \subseteq 1..doneVal' /\ waiting' \in 0..doneVal'
    BY <1>1, <1>2 DEF IInv, TypeOK
  <2> QED BY <1>1, <1>3, <1>6, <2>1, <2>2 DEF IInv, TypeOK, Steps
<1>8. WaitSound'
  BY <1>1 DEF IInv, WaitSound
<1>9. QueueSound' /\ (ListsSound => ListsSound')
  BY <1>1, Framed DEF IInv
<1>10. ~late => DrainSound'
  <2> SUFFICES ASSUME ~late,
                      NEW i \in DOMAIN queue, queue[i].op = "execute"
               PROVE  ~At("teardown")'
    BY <1>1 DEF DrainSound
  <2>1. call \in {"wait", "rife"}
    BY <1>5, WaitedRan DEF IInv
  <2>2. CASE call = "wait"
    BY <1>4, <1>5, <2>2 DEF At
  <2>3. CASE call = "rife"
    <3>1. \A k \in DOMAIN (todo') : todo'[k] # "teardown"
      BY <1>4, <1>6, <2>3 DEF ProgramSound
    <3> QED BY <1>6, <3>1 DEF At
  <2> QED BY <2>1, <2>2, <2>3
<1>11. BudgetSound'
  <2>1. Budget' = Budget /\ Budget >= 0
    BY <1>1, <1>4 DEF Budget, IInv, BudgetSound
  <2>2. CASE todo' = << >> \/ todo' = <<"failed">>
    BY <2>1, <2>2, NoneAhead
  <2>3. CASE call # "wait" /\ todo' = Tail(todo)
    BY <1>1, <1>4, <1>5, <2>3, AheadLess DEF IInv
  <2> QED BY <1>4, <1>5, <2>2, <2>3
<1> QED BY <1>1, <1>6, <1>7, <1>8, <1>9, <1>10, <1>11 DEF IInv

LEMMA WaitsInv ==
    ASSUME IInv, WaitSatisfied \/ WaitWakes \/ WaitTimesOut
    PROVE  IInv'
<1>1. waiting \in Int /\ doneFence \in Int /\ registered \subseteq Int
  BY DEF IInv, TypeOK
<1>2. CASE WaitSatisfied
  BY <1>2, WaitOverInv DEF WaitSatisfied, Completed, IInv, WaitSound, TypeOK
<1>3. CASE WaitWakes
  <2>1. /\ armed /\ event /\ event' = FALSE /\ WaitOver(TRUE)
        /\ registered' = registered
    BY <1>3 DEF WaitWakes
  <2>2. waiting # 0
    BY <2>1 DEF IInv, WaitSound
  <2>3. ~late => waiting <= doneFence /\ registered = {}
    <3>1. ~late => waiting <= doneFence /\ registered \subseteq {waiting}
      BY <2>1 DEF IInv, WaitSound
    <3>2. \A v \in registered : doneFence < v
      BY DEF IInv, WaitSound
    <3> QED BY <1>1, <3>1, <3>2
  <2> QED BY <2>1, <2>2, <2>3, WaitOverInv
<1>4. CASE WaitTimesOut
  BY <1>4, WaitOverInv DEF WaitTimesOut, IInv, WaitSound, TypeOK
<1> QED BY <1>2, <1>3, <1>4

LEMMA WaitArmsInv ==
    ASSUME IInv, WaitArms
    PROVE  IInv'
<1>1. /\ waiting # 0 /\ ~armed /\ waiting > doneFence
      /\ registered' = registered \cup {waiting} /\ armed' = TRUE
      /\ UNCHANGED <<late, fenceVal, gpuVars, doneVal, listVars, event,
                     waiting, callVars, clientVars>>
  BY DEF WaitArms, Completed
<1>2. UNCHANGED <<late, fenceVal, fence, doneFence, queue, doneVal, made, tag,
                  recording, cur, event, waiting, call, todo, owes, inflight,
                  reported>>
  BY <1>1 DEF gpuVars, listVars, callVars, clientVars
<1>3. waiting \in 1..doneVal /\ doneFence \in Int
  BY <1>1, BoundsAssumption DEF IInv, TypeOK
<1>4. TypeOK'
  BY <1>1, <1>2, <1>3 DEF IInv, TypeOK
<1>5. WaitSound'
  <2>1. ~late => registered = {} /\ ~event
    BY <1>1 DEF IInv, WaitSound
  <2>2. \A v \in registered' : doneFence < v
    BY <1>1, <1>3 DEF IInv, WaitSound
  <2>3. waiting # 0 => call = "wait" \/ At("sync")
    BY DEF IInv, WaitSound
  <2> QED BY <1>1, <1>2, <2>1, <2>2, <2>3 DEF WaitSound, At
<1> QED BY <1>2, <1>4, <1>5, Framed DEF IInv

-----------------------------------------------------------------------------
(* The entry points. *)

(* What a call starts with: no teardown first, and at most two markers of  *)
(* its own.                                                                *)
LEMMA Started ==
    ASSUME IInv, NEW c \in {"infer", "rife", "configure", "destroy"},
           Starts(c), c = "infer" \/ c = "rife" => ~owes,
           UNCHANGED <<late, fenceVal, gpuVars, doneVal, listVars, waitVars,
                       clientVars>>
    PROVE  IInv'
<1>1. /\ call = "idle" /\ doneVal + 3 <= MaxMarkers
      /\ call' = c /\ todo' \in Programs[c]
      /\ UNCHANGED <<late, fenceVal, fence, doneFence, queue, doneVal, made,
                     tag, recording, cur, registered, event, waiting, armed,
                     owes, inflight, reported>>
  BY DEF Starts, gpuVars, listVars, waitVars, clientVars
<1>2. todo = << >> /\ cur = NoList /\ waiting = 0
  BY <1>1 DEF IInv, ProgramSound, WaitSound, At
<1>3. \/ c = "infer" /\ todo' = <<"handoff", "seg", "seg">>
      \/ c = "rife" /\ todo' = <<"handoff", "seg", "sync">>
      \/ /\ c = "rife"
         /\ todo' = <<"seg", "handoff", "seg", "sync", "seg", "sync">>
      \/ c \in {"configure", "destroy"} /\ todo' = <<"sync", "teardown">>
      \/ /\ c = "configure"
         /\ todo' = <<"sync", "teardown", "seg", "sync">>
  BY <1>1 DEF Programs
<1>4. /\ todo' \in Seq(Steps) /\ todo' # << >> /\ todo'[1] # "teardown"
  <2>1. /\ <<"handoff", "seg", "seg">> \in Seq(Steps)
        /\ <<"handoff", "seg", "sync">> \in Seq(Steps)
    BY DEF Steps
  <2>2. <<"seg", "handoff", "seg", "sync", "seg", "sync">> \in Seq(Steps)
    BY DEF Steps
  <2>3. /\ <<"sync", "teardown">> \in Seq(Steps)
        /\ <<"sync", "teardown", "seg", "sync">> \in Seq(Steps)
    BY DEF Steps
  <2>4. todo' \in Seq(Steps)
    BY <1>3, <2>1, <2>2, <2>3
  <2>5. todo' # << >> /\ todo'[1] # "teardown"
    BY <1>3
  <2> QED BY <2>4, <2>5
<1>5. TypeOK'
  BY <1>1, <1>4 DEF IInv, TypeOK, Steps
<1>6. ProgramSound'
  <2>1. \A i \in DOMAIN (todo') :
          /\ todo'[i] = "sync" => c \in {"rife", "configure", "destroy"}
          /\ todo'[i] = "teardown" =>
                /\ c \in {"configure", "destroy"}
                /\ i = 1 \/ (i = 2 /\ todo'[1] = "sync")
    BY <1>3
  <2> QED BY <1>1, <1>2, <2>1 DEF ProgramSound
<1>7. WaitSound' /\ DrainSound'
  BY <1>1, <1>2, <1>4 DEF IInv, WaitSound, DrainSound, At
<1>8. QueueSound' /\ (ListsSound => ListsSound')
  BY <1>1, Framed DEF IInv
<1>9. BudgetSound'
  <2>1. doneVal \in Nat /\ MaxMarkers \in Nat /\ owes \in BOOLEAN
    BY BoundsAssumption DEF IInv, TypeOK
  <2>2. Budget' \in Int /\ Budget' >= 1 /\ (c # "infer" => Budget' >= 2)
    BY <1>1, <2>1 DEF Budget
  <2>3. \A p \in DOMAIN (todo') :
            Ahead(p)' => c # "infer" /\ todo'[p] = "sync" /\ p \in Nat
    BY <1>3 DEF Ahead
  <2>4. \A p, q, r \in DOMAIN (todo') :
            ~(/\ todo'[p] = "sync" /\ todo'[q] = "sync" /\ todo'[r] = "sync"
              /\ p < q /\ q < r)
    BY <1>3
  <2> QED BY <2>2, <2>3, <2>4 DEF BudgetSound
<1> QED BY <1>1, <1>5, <1>6, <1>7, <1>8, <1>9 DEF IInv

LEMMA FrameReturnsInv ==
    ASSUME IInv, FrameReturns
    PROVE  IInv'
<1>1. /\ call \in {"infer", "rife"} /\ todo \in {<< >>, <<"failed">>}
      /\ SignalDone /\ doneVal' = doneVal + 1
      /\ call' = "idle" /\ todo' = << >>
      /\ owes' = (call = "infer" /\ todo = << >>)
      /\ UNCHANGED <<late, fenceVal, fence, doneFence, made, recording, cur,
                     waitVars, inflight, reported>>
  BY DEF FrameReturns, SignalDone
<1>2. UNCHANGED <<late, fenceVal, fence, doneFence, made, recording, cur,
                  registered, event, waiting, armed, inflight, reported>>
  BY <1>1 DEF waitVars
<1>3. cur = NoList /\ waiting = 0
  BY <1>1 DEF IInv, ProgramSound, WaitSound, At
<1>4. /\ doneVal \in Nat /\ MaxMarkers \in Nat /\ owes \in BOOLEAN
      /\ Budget >= 0 /\ doneVal < MaxMarkers
  <2>1. doneVal \in Nat /\ MaxMarkers \in Nat /\ owes \in BOOLEAN
    BY BoundsAssumption DEF IInv, TypeOK
  <2>2. Budget >= 0
    BY DEF IInv, BudgetSound
  <2> QED BY <1>1, <2>1, <2>2 DEF Budget
<1>5. /\ doneVal' \in 0..MaxMarkers /\ doneFence \in 0..doneVal'
      /\ queue' \in Seq(Ops)
      /\ tag' \in [Lists -> (0..doneVal') \cup {Unmarked}]
      /\ QueueSound'
      /\ ListsSound => ListsSound'
  BY <1>1, <1>2, <1>4, MarkerPut DEF IInv
<1>6. TypeOK'
  <2>1. /\ registered' \subseteq 1..doneVal' /\ waiting' \in 0..doneVal'
        /\ inflight' \subseteq 1..doneVal' /\ reported' \subseteq 1..doneVal'
    BY <1>1, <1>2, <1>4 DEF IInv, TypeOK
  <2>2. owes' \in BOOLEAN /\ todo' \in Seq(Steps) /\ call' = "idle"
    BY <1>1
  <2> QED BY <1>2, <1>5, <2>1, <2>2 DEF IInv, TypeOK, Ops, Steps
<1>7. ProgramSound' /\ WaitSound' /\ DrainSound'
  BY <1>1, <1>2, <1>3 DEF IInv, ProgramSound, WaitSound, DrainSound, At
<1>8. BudgetSound'
  <2>1. Budget' >= 0
    BY <1>1, <1>4 DEF Budget
  <2> QED BY <1>1, <2>1, NoneAhead
<1> QED BY <1>2, <1>5, <1>6, <1>7, <1>8 DEF IInv

LEMMA FlushInv ==
    ASSUME IInv, Flush
    PROVE  IInv'
<1>1. /\ call = "idle" /\ owes /\ SignalDone /\ doneVal' = doneVal + 1
      /\ owes' = FALSE /\ inflight' = inflight \cup {doneVal + 1}
      /\ UNCHANGED <<late, fenceVal, fence, doneFence, made, recording, cur,
                     waitVars, callVars, reported>>
  BY DEF Flush, SignalDone
<1>2. UNCHANGED <<late, fenceVal, fence, doneFence, made, recording, cur,
                  registered, event, waiting, armed, call, todo, reported>>
  BY <1>1 DEF waitVars, callVars
<1>3. todo = << >> /\ cur = NoList /\ waiting = 0
  BY <1>1 DEF IInv, ProgramSound, WaitSound, At
<1>4. /\ doneVal \in Nat /\ MaxMarkers \in Nat
      /\ Budget >= 0 /\ doneVal < MaxMarkers
  <2>1. doneVal \in Nat /\ MaxMarkers \in Nat
    BY BoundsAssumption DEF IInv, TypeOK
  <2>2. Budget >= 0
    BY DEF IInv, BudgetSound
  <2> QED BY <1>1, <2>1, <2>2 DEF Budget
<1>5. /\ doneVal' \in 0..MaxMarkers /\ doneFence \in 0..doneVal'
      /\ queue' \in Seq(Ops)
      /\ tag' \in [Lists -> (0..doneVal') \cup {Unmarked}]
      /\ QueueSound'
      /\ ListsSound => ListsSound'
  BY <1>1, <1>2, <1>4, MarkerPut DEF IInv
<1>6. TypeOK'
  <2>1. /\ registered' \subseteq 1..doneVal' /\ waiting' \in 0..doneVal'
        /\ inflight' \subseteq 1..doneVal' /\ reported' \subseteq 1..doneVal'
    BY <1>1, <1>2, <1>4 DEF IInv, TypeOK
  <2> QED BY <1>1, <1>2, <1>5, <2>1 DEF IInv, TypeOK, Ops
<1>7. ProgramSound' /\ WaitSound' /\ DrainSound'
  BY <1>1, <1>2, <1>3 DEF IInv, ProgramSound, WaitSound, DrainSound, At
<1>8. BudgetSound'
  <2>1. Budget' >= 0
    BY <1>1, <1>2, <1>4 DEF Budget
  <2> QED BY <1>2, <1>3, <2>1, NoneAhead
<1> QED BY <1>2, <1>5, <1>6, <1>7, <1>8 DEF IInv

LEMMA WaitCallInv ==
    ASSUME IInv, WaitCall
    PROVE  IInv'
<1>1. /\ call = "idle" /\ waiting' \in inflight /\ call' = "wait"
      /\ UNCHANGED <<late, fenceVal, gpuVars, doneVal, listVars, registered,
                     event, armed, todo, clientVars>>
  BY DEF WaitCall
<1>2. UNCHANGED <<late, fenceVal, fence, doneFence, queue, doneVal, made, tag,
                  recording, cur, registered, event, armed, todo, owes,
                  inflight, reported>>
  BY <1>1 DEF gpuVars, listVars, clientVars
<1>3. todo = << >> /\ waiting = 0 /\ ~armed /\ cur = NoList
  BY <1>1 DEF IInv, ProgramSound, WaitSound, At
<1>4. TypeOK'
  <2>1. waiting' \in 0..doneVal'
    BY <1>1, <1>2, BoundsAssumption DEF IInv, TypeOK
  <2> QED BY <1>1, <1>2, <2>1 DEF IInv, TypeOK
<1>5. ProgramSound' /\ DrainSound'
  BY <1>1, <1>2, <1>3 DEF IInv, ProgramSound, DrainSound, At
<1>6. WaitSound'
  BY <1>1, <1>2, <1>3 DEF IInv, WaitSound
<1>7. BudgetSound'
  <2>1. Budget' = Budget /\ Budget >= 0
    BY <1>1, <1>2 DEF Budget, IInv, BudgetSound
  <2> QED BY <1>2, <1>3, <2>1, NoneAhead
<1> QED BY <1>2, <1>4, <1>5, <1>6, <1>7, Framed DEF IInv

LEMMA PollCompleteInv ==
    ASSUME IInv, PollComplete
    PROVE  IInv'
<1>1. PICK t \in inflight : reported' = reported \cup 1..t
  BY DEF PollComplete
<1>2. UNCHANGED <<late, fenceVal, fence, doneFence, queue, doneVal, made, tag,
                  recording, cur, registered, event, waiting, armed, call,
                  todo, owes, inflight>>
  BY DEF PollComplete, gpuVars, listVars, waitVars, callVars
<1>3. TypeOK'
  <2>1. reported' \subseteq 1..doneVal'
    BY <1>1, <1>2, BoundsAssumption DEF IInv, TypeOK
  <2> QED BY <1>2, <2>1 DEF IInv, TypeOK
<1> QED BY <1>2, <1>3, Framed DEF IInv

LEMMA TeardownInv ==
    ASSUME IInv, Teardown
    PROVE  IInv'
<1>1. /\ todo # << >> /\ At("teardown") /\ todo' = Tail(todo)
      /\ tag' = [l \in Lists |-> Free]
      /\ UNCHANGED <<late, fenceVal, gpuVars, doneVal, made, recording, cur,
                     waitVars, call, clientVars>>
  BY DEF Teardown, IInv, TypeOK, At
<1>2. UNCHANGED <<late, fenceVal, fence, doneFence, queue, doneVal, made,
                  recording, cur, registered, event, waiting, armed, call,
                  owes, inflight, reported>>
  BY <1>1 DEF gpuVars, waitVars, clientVars
<1>3. cur = NoList /\ waiting = 0 /\ ~At("sync")
  BY <1>1, InsideACall DEF At
<1>4. ~late => ListsSound' /\ DrainSound'
  <2>1. ~late => \A i \in DOMAIN queue : queue[i].op # "execute"
    BY <1>1 DEF IInv, DrainSound
  <2> QED BY <1>2, <2>1 DEF ListsSound, DrainSound
<1>5. todo' \in Seq(Steps) /\ ProgramSound'
  BY <1>1, <1>2, <1>3, NextStep
<1>6. TypeOK'
  <2>1. tag' \in [Lists -> (0..doneVal') \cup {Unmarked}]
    BY <1>1, <1>2, BoundsAssumption DEF Free, IInv, TypeOK
  <2> QED BY <1>2, <1>5, <2>1 DEF IInv, TypeOK, Steps
<1>7. WaitSound'
  BY <1>2, <1>3 DEF IInv, WaitSound
<1>8. BudgetSound'
  BY <1>1, <1>2, AheadLess DEF IInv
<1> QED BY <1>2, <1>4, <1>5, <1>6, <1>7, <1>8, Framed DEF IInv

LEMMA ChainReturnsInv ==
    ASSUME IInv, ChainReturns
    PROVE  IInv'
<1>1. /\ call \in {"configure", "destroy"} /\ todo \in {<< >>, <<"failed">>}
      /\ call' \in {"gone", "idle"} /\ todo' = << >>
      /\ UNCHANGED <<late, fenceVal, gpuVars, doneVal, listVars, waitVars,
                     clientVars>>
  BY DEF ChainReturns
<1>2. UNCHANGED <<late, fenceVal, fence, doneFence, queue, doneVal, made, tag,
                  recording, cur, registered, event, waiting, armed, owes,
                  inflight, reported>>
  BY <1>1 DEF gpuVars, listVars, waitVars, clientVars
<1>3. cur = NoList /\ waiting = 0
  BY <1>1 DEF IInv, ProgramSound, WaitSound, At
<1>4. TypeOK'
  <2>1. todo' \in Seq(Steps)
    BY <1>1
  <2> QED BY <1>1, <1>2, <2>1 DEF IInv, TypeOK, Steps
<1>5. ProgramSound' /\ WaitSound' /\ DrainSound'
  BY <1>1, <1>2, <1>3 DEF IInv, ProgramSound, WaitSound, DrainSound, At
<1>6. BudgetSound'
  <2>1. Budget' = Budget /\ Budget >= 0
    BY <1>1, <1>2 DEF Budget, IInv, BudgetSound
  <2> QED BY <1>1, <2>1, NoneAhead
<1> QED BY <1>2, <1>4, <1>5, <1>6, Framed DEF IInv

-----------------------------------------------------------------------------
(* The theorems. *)

(* A context starts out so. *)
LEMMA InitInv == Init => IInv
<1> SUFFICES ASSUME Init PROVE IInv
  OBVIOUS
<1> USE BoundsAssumption DEF Init
<1>1. TypeOK
  <2>1. queue \in Seq(Ops) /\ todo \in Seq(Steps)
    OBVIOUS
  <2>2. tag \in [Lists -> (0..doneVal) \cup {Unmarked}]
    BY DEF Free
  <2>3. late \in BOOLEAN
    OBVIOUS
  <2>4. /\ fenceVal \in Nat /\ fence \in 0..fenceVal
        /\ doneVal \in 0..MaxMarkers /\ doneFence \in 0..doneVal
        /\ made \in 0..MaxLists /\ waiting \in 0..doneVal
    OBVIOUS
  <2>5. /\ recording \subseteq 1..made /\ cur \in recording \cup {NoList}
        /\ registered \subseteq 1..doneVal /\ inflight \subseteq 1..doneVal
        /\ reported \subseteq 1..doneVal
    OBVIOUS
  <2>6. /\ event \in BOOLEAN /\ armed \in BOOLEAN /\ owes \in BOOLEAN
        /\ call = "idle"
    OBVIOUS
  <2> HIDE DEF Init
  <2> QED BY <2>1, <2>2, <2>3, <2>4, <2>5, <2>6 DEF TypeOK, Ops, Steps
<1>2. QueueSound /\ ListsSound /\ DrainSound
  BY DEF QueueSound, ListsSound, DrainSound
<1>3. ProgramSound /\ WaitSound
  BY DEF ProgramSound, WaitSound
<1>4. BudgetSound
  BY DEF BudgetSound, Budget, Ahead
<1> QED BY <1>1, <1>2, <1>3, <1>4 DEF IInv

(* Every step keeps the invariant. *)
LEMMA NextInv == IInv /\ [Next]_vars => IInv'
<1> SUFFICES ASSUME IInv, [Next]_vars PROVE IInv'
  OBVIOUS
<1>1. CASE D3D11Signals
  BY <1>1, D3D11SignalsInv
<1>2. CASE QueueRuns
  BY <1>2, QueueRunsInv
<1>3. CASE Handoff \/ Begin \/ Exec \/ StepFails
  BY <1>3, HandoffInv, BeginInv, ExecInv, StepFailsInv
<1>4. CASE Sync \/ WaitSatisfied \/ WaitArms \/ WaitWakes \/ WaitTimesOut
  BY <1>4, SyncInv, WaitsInv, WaitArmsInv
<1>5. CASE FrameReturns \/ Teardown \/ ChainReturns
  BY <1>5, FrameReturnsInv, TeardownInv, ChainReturnsInv
<1>6. CASE FrameCalls("infer") \/ FrameCalls("rife")
  BY <1>6, Started DEF FrameCalls
<1>7. CASE ChainCalls("configure") \/ ChainCalls("destroy")
  BY <1>7, Started DEF ChainCalls
<1>8. CASE Flush \/ WaitCall \/ PollComplete
  BY <1>8, FlushInv, WaitCallInv, PollCompleteInv
<1>9. CASE Gone \/ UNCHANGED vars
  <2>1. UNCHANGED <<late, fenceVal, fence, doneFence, queue, doneVal, made,
                    tag, recording, cur, registered, event, waiting, armed,
                    call, todo, owes, inflight, reported>>
    BY <1>9 DEF Gone, vars, gpuVars, listVars, waitVars, callVars, clientVars
  <2>2. TypeOK'
    BY <2>1 DEF IInv, TypeOK
  <2> QED BY <2>1, <2>2, Framed DEF IInv
<1> QED BY <1>1, <1>2, <1>3, <1>4, <1>5, <1>6, <1>7, <1>8, <1>9
        DEF Next, Caller, InCall

(* The inductive invariant: what queue, markers, lists, the program of a   *)
(* call and the wait it is in say of each other.                           *)
THEOREM Invariance == Spec => []IInv
BY InitInv, NextInv, PTL DEF Spec

(* Markers, lists and waits keep their types; in particular the markers    *)
(* stay within the bound of the model, whatever fails.                     *)
THEOREM TypeCorrect == Spec => []TypeOK
<1>1. IInv => TypeOK
  BY DEF IInv
<1> QED BY <1>1, Invariance, PTL

(* No list is reset, and none given back by a teardown, before its work    *)
(* has run (Recorder.begin, chain_teardown), while the GPU answers in      *)
(* time.                                                                   *)
THEOREM ListsAreIdle == Spec => []IdleWhenReset
<1>1. IInv => IdleWhenReset
  <2> SUFFICES ASSUME IInv, ~late, NEW l \in 1..made,
                      tag[l] = Free \/ l = cur,
                      NEW i \in DOMAIN queue, queue[i] = Execute(l)
               PROVE  FALSE
    BY DEF IdleWhenReset, Executing
  <2>1. queue[i].op = "execute" /\ queue[i].arg = l
    BY DEF Execute
  <2> QED BY <2>1 DEF IInv, ListsSound
<1> QED BY <1>1, Invariance, PTL

(* An answer is a report of the contract. *)
LEMMA ReportImplements ==
    ASSUME IInv, ~late, NEW t \in 1..doneVal, t <= doneFence,
           reported' = reported \cup 1..t,
           UNCHANGED <<late, doneVal, doneFence>>
    PROVE  Tickets!Next
<1>1. doneFence \in Nat /\ t \in Nat
  BY BoundsAssumption DEF IInv, TypeOK
<1>2. 1..t \subseteq 1..doneFence
  BY <1>1
<1>3. Answers' = Answers \cup 1..t
  BY DEF Answers
<1> QED BY <1>2, <1>3 DEF Tickets!Next, Tickets!Report

(* So is the end of a wait, if the marker was reached. *)
LEMMA WaitOverImplements ==
    ASSUME IInv, NEW r \in BOOLEAN, WaitOver(r), waiting # 0,
           ~late /\ r => waiting <= doneFence
    PROVE  [Tickets!Next]_(Tickets!vars)
<1>1. UNCHANGED <<late, doneVal, doneFence>>
  BY DEF WaitOver, gpuVars
<1>2. waiting \in 1..doneVal
  BY BoundsAssumption DEF IInv, TypeOK
<1>3. \/ reported' = reported
      \/ r /\ reported' = reported \cup 1..waiting
  BY DEF WaitOver, Collect
<1>4. CASE late \/ reported' = reported
  BY <1>1, <1>4 DEF Answers, Tickets!vars
<1>5. CASE ~late /\ r /\ reported' = reported \cup 1..waiting
  BY <1>1, <1>2, <1>5, ReportImplements
<1> QED BY <1>3, <1>4, <1>5

(* Every step is a step of the tickets or leaves them alone. *)
LEMMA StepImplements ==
    ASSUME IInv, [Next]_vars
    PROVE  [Tickets!Next]_(Tickets!vars)
<1>1. CASE UNCHANGED <<late, doneVal, doneFence, reported>>
  BY <1>1 DEF Answers, Tickets!vars
<1>2. CASE D3D11Signals \/ Handoff \/ Begin \/ Exec \/ StepFails
  BY <1>1, <1>2 DEF D3D11Signals, Handoff, HandsOff, Begin, Exec, StepFails,
                    gpuVars, clientVars
<1>3. CASE QueueRuns
  <2>1. UNCHANGED <<late, doneVal, reported>>
    BY <1>3 DEF QueueRuns, clientVars
  <2>2. CASE Head(queue).op = "marker"
    <3> DEFINE t == Head(queue).arg
    <3>1. /\ queue # << >> /\ doneFence' = t /\ Head(queue) = queue[1]
          /\ 1 \in DOMAIN queue /\ t \in Nat
      <4>1. queue # << >> /\ doneFence' = t
        BY <1>3, <2>2 DEF QueueRuns
      <4>2. queue \in Seq(Ops)
        BY DEF IInv, TypeOK, Ops
      <4>3. /\ Head(queue) = queue[1] /\ 1 \in DOMAIN queue
            /\ queue[1] \in Ops
        BY <4>1, <4>2
      <4> QED BY <4>1, <4>3 DEF Ops
    <3>2. doneFence < t /\ t <= doneVal /\ doneFence \in Nat
      BY <2>2, <3>1, BoundsAssumption DEF IInv, QueueSound, TypeOK
    <3>3. t \in 1..doneVal /\ t \notin 1..doneFence
      BY <3>1, <3>2, BoundsAssumption DEF IInv, TypeOK
    <3>4. 1..doneFence' = (1..doneFence) \cup 1..t
      BY <3>1, <3>2
    <3>5. Answers' = Answers
      BY <2>1 DEF Answers
    <3> HIDE DEF t
    <3> QED BY <2>1, <3>3, <3>4, <3>5 DEF Tickets!Next, Tickets!Finish
  <2>3. CASE Head(queue).op # "marker"
    <3>1. doneFence' = doneFence
      BY <1>3, <2>3 DEF QueueRuns
    <3> QED BY <1>1, <2>1, <3>1
  <2> QED BY <2>2, <2>3
<1>4. CASE Sync \/ FrameReturns \/ Flush
  <2>1. doneVal' = doneVal + 1 /\ UNCHANGED <<late, doneFence, reported>>
    BY <1>4 DEF Sync, FrameReturns, Flush, SignalDone, clientVars
  <2> QED BY <2>1 DEF Answers, Tickets!Next, Tickets!Submit
<1>5. CASE WaitSatisfied
  BY <1>5, WaitOverImplements DEF WaitSatisfied, Completed
<1>6. CASE WaitWakes
  <2>1. armed /\ event /\ WaitOver(TRUE)
    BY <1>6 DEF WaitWakes
  <2>2. waiting # 0 /\ (~late => waiting <= doneFence)
    BY <2>1 DEF IInv, WaitSound
  <2> QED BY <2>1, <2>2, WaitOverImplements
<1>7. CASE WaitTimesOut
  BY <1>7, WaitOverImplements DEF WaitTimesOut, IInv, WaitSound
<1>8. CASE PollComplete
  <2>1. PICK t \in inflight :
            t <= doneFence /\ reported' = reported \cup 1..t
    BY <1>8 DEF PollComplete, Completed
  <2>2. t \in 1..doneVal
    BY <2>1 DEF IInv, TypeOK
  <2>3. UNCHANGED <<late, doneVal, doneFence>>
    BY <1>8 DEF PollComplete, gpuVars
  <2>4. CASE late
    BY <2>3, <2>4 DEF Answers, Tickets!vars
  <2>5. CASE ~late
    BY <2>1, <2>2, <2>3, <2>5, ReportImplements
  <2> QED BY <2>4, <2>5
<1>9. CASE WaitArms \/ WaitCall \/ Teardown \/ ChainReturns
  BY <1>1, <1>9 DEF WaitArms, WaitCall, Teardown, ChainReturns, gpuVars,
                    clientVars
<1>10. CASE \/ FrameCalls("infer") \/ FrameCalls("rife")
            \/ ChainCalls("configure") \/ ChainCalls("destroy")
            \/ Gone \/ UNCHANGED vars
  BY <1>1, <1>10 DEF FrameCalls, ChainCalls, Gone, vars, gpuVars, clientVars
<1> QED BY <1>2, <1>3, <1>4, <1>5, <1>6, <1>7, <1>8, <1>9, <1>10
        DEF Next, Caller, InCall

(* Markers and waits implement the tickets of aji.h, as long as no wait    *)
(* can time out.                                                           *)
THEOREM Implements == Spec => ImplementsTickets
<1>1. Init => Tickets!Init
  <2>1. Init => 1..doneFence = {}
    BY DEF Init
  <2>2. Init => Answers = {}
    BY DEF Init, Answers
  <2> QED BY <2>1, <2>2 DEF Init, Tickets!Init
<1>2. IInv /\ [Next]_vars => [Tickets!Next]_(Tickets!vars)
  BY StepImplements
<1> QED
  BY <1>1, <1>2, Invariance, PTL DEF Spec, ImplementsTickets, Tickets!Spec

(* What the tickets of aji.h promise of themselves: whatever the order of   *)
(* submissions, completions and questions, no report is premature.         *)
LEMMA Promise == Tickets!Spec => []Tickets!ReportsAreTrue
<1> USE DEF Tickets!ReportsAreTrue
<1>1. Tickets!Init => Tickets!ReportsAreTrue
  BY DEF Tickets!Init
<1>2. /\ Tickets!ReportsAreTrue
      /\ [Tickets!Next]_(Tickets!vars)
      => Tickets!ReportsAreTrue'
  <2> SUFFICES ASSUME Tickets!ReportsAreTrue, [Tickets!Next]_(Tickets!vars)
               PROVE  Tickets!ReportsAreTrue'
    OBVIOUS
  <2>1. CASE Tickets!Submit
    BY <2>1 DEF Tickets!Submit
  <2>2. ASSUME NEW t \in 1..doneVal, Tickets!Finish(t)
        PROVE  Tickets!ReportsAreTrue'
    BY <2>2 DEF Tickets!Finish
  <2>3. ASSUME NEW t \in 1..doneVal, Tickets!Report(t)
        PROVE  Tickets!ReportsAreTrue'
    BY <2>3 DEF Tickets!Report
  <2>4. CASE UNCHANGED Tickets!vars
    BY <2>4 DEF Tickets!vars
  <2> QED BY <2>1, <2>2, <2>3, <2>4 DEF Tickets!Next
<1> QED BY <1>1, <1>2, PTL DEF Tickets!Spec

(* While the GPU answers in time, no ticket is reported that the queue has *)
(* not reached: the finding of dml_stale_event takes a wait that timed     *)
(* out.                                                                    *)
THEOREM AnswersAreTrue == Spec => [](~late => CompleteMeansReached)
<1>1. IInv /\ Tickets!ReportsAreTrue => (~late => CompleteMeansReached)
  <2> SUFFICES ASSUME IInv, Tickets!ReportsAreTrue, ~late, NEW t \in reported
               PROVE  t <= doneFence
    BY DEF CompleteMeansReached
  <2>1. t \in 1..doneFence
    BY DEF Tickets!ReportsAreTrue, Answers
  <2> QED BY <2>1, BoundsAssumption DEF IInv, TypeOK
<1> QED BY <1>1, Promise, Invariance, Implements, PTL
        DEF ImplementsTickets
-----------------------------------------------------------------------------
(***************************************************************************)
(* The chain: staging and plans of a frame are its own, and nothing is     *)
(* replaced that frames like it use.                                       *)
(***************************************************************************)
Shaped(cache) ==
    cache = [stageKey |-> cache.stageKey, stage |-> cache.stage,
             pre |-> cache.pre, post |-> cache.post]

LEMMA KeyIs ==
    ASSUME NEW in, NEW outSize
    PROVE  /\ StageKey(Staging(in, outSize)) =
                [format |-> in.format, in |-> in.size]
           /\ Staging(in, outSize) # Null
           /\ Staging(in, outSize).format = in.format
<1>1. Staging(in, outSize) =
        [format |-> in.format, in |-> in.size, out |-> outSize]
  BY DEF Staging
<1>2. StageKey(Staging(in, outSize)) = [format |-> in.format, in |-> in.size]
  BY <1>1 DEF StageKey
<1>3. "format" \in DOMAIN Staging(in, outSize)
      /\ "format" \notin DOMAIN Null
  BY <1>1 DEF Null
<1> QED BY <1>1, <1>2, <1>3

(***************************************************************************)
(* A plan that a frame asks for is not replaced.                           *)
(***************************************************************************)
LEMMA PlansKept ==
    ASSUME NEW cache, NEW in, NEW outSize, NEW luck, in # Null
    PROVE  /\ Prepared(cache, in, outSize, luck).pre # cache.pre
                => cache.pre # in
           /\ Prepared(cache, in, outSize, luck).post # cache.post
                => cache.post # PostDesc(in, outSize)
<1> DEFINE new == Prepared(cache, in, outSize, luck)
<1>1. PostDesc(in, outSize) # Null
  <2>1. "size" \in DOMAIN PostDesc(in, outSize) /\ "size" \notin DOMAIN Null
    BY DEF PostDesc, Null
  <2> QED BY <2>1
<1>2. Renewed(in, in, in = in, luck = "pre plan") = in
  BY DEF Renewed
<1>3. Renewed(PostDesc(in, outSize), PostDesc(in, outSize),
              PostDesc(in, outSize) = PostDesc(in, outSize),
              luck = "post plan") = PostDesc(in, outSize)
  BY <1>1 DEF Renewed
<1>4. ASSUME cache.pre = in
      PROVE  new.pre = cache.pre
  BY <1>2, <1>4 DEF Prepared, PreKey
<1>5. ASSUME cache.post = PostDesc(in, outSize)
      PROVE  new.post = cache.post
  BY <1>3, <1>5 DEF Prepared
<1> QED BY <1>4, <1>5 DEF new

(***************************************************************************)
(* What a call has once it has looked for staging and plans.               *)
(***************************************************************************)
LEMMA PreparedStage ==
    ASSUME NEW cache, NEW in, NEW outSize, NEW luck \in Lucks, Shaped(cache)
    PROVE  LET new == Prepared(cache, in, outSize, luck)
               key == [format |-> in.format, in |-> in.size]
           IN /\ Shaped(new)
              /\ cache.stageKey = key =>
                   new.stageKey = key /\ new.stage = cache.stage
              /\ cache.stageKey # key /\ luck = "stage" =>
                   new.stageKey = cache.stageKey /\ new.stage = Torn
              /\ cache.stageKey # key /\ luck # "stage" =>
                   new.stageKey = key /\ new.stage = Staging(in, outSize)
<1> DEFINE staged == Restaged(cache, Staging(in, outSize), luck = "stage")
           key == [format |-> in.format, in |-> in.size]
<1>1. /\ Prepared(cache, in, outSize, luck).stageKey = staged.stageKey
      /\ Prepared(cache, in, outSize, luck).stage = staged.stage
      /\ Shaped(Prepared(cache, in, outSize, luck))
  BY DEF Prepared, Shaped
<1>2. staged = IF cache.stageKey = key THEN cache
               ELSE IF luck = "stage" THEN Noted(cache, cache.stageKey, Torn)
               ELSE Noted(cache, key, Staging(in, outSize))
  BY KeyIs DEF Restaged
<1> HIDE DEF staged, key
<1>3. /\ cache.stageKey = key => staged.stageKey = key
                                 /\ staged.stage = cache.stage
      /\ cache.stageKey # key /\ luck = "stage" =>
           staged.stageKey = cache.stageKey /\ staged.stage = Torn
      /\ cache.stageKey # key /\ luck # "stage" =>
           staged.stageKey = key /\ staged.stage = Staging(in, outSize)
  BY <1>2 DEF Noted
<1> QED BY <1>1, <1>3 DEF key

LEMMA FrameIs ==
    ASSUME NEW size, NEW in \in Frame(size)
    PROVE  /\ in.format \in Formats /\ in.size = size
           /\ in.siting \in Sitings /\ in # Null /\ "siting" \in DOMAIN in
           /\ in = [format |-> in.format, size |-> size, siting |-> in.siting]
<1>1. in \in [format : Formats, size : {size}, siting : Sitings]
  BY DEF Frame
<1>2. "siting" \in DOMAIN in /\ "siting" \notin DOMAIN Null
  BY <1>1 DEF Null
<1> QED BY <1>1, <1>2

(* What ChainIInv says of one cache and its work. *)
CacheSound(c) ==
    /\ Shaped(caches[c])
    /\ botched[c] \in Formats \cup {"none"}
    /\ botched[c] # "none" => failures > 0
    /\ caches[c].stageKey # Null =>
         \E f \in Formats :
            /\ caches[c].stageKey = [format |-> f, in |-> SizeIn(c)]
            /\ \/ caches[c].stage = StagingOf(c, f)
               \/ botched[c] \notin {"none", f}

WorkSound(c) ==
    /\ <<c, "stage">> \in busy =>
         \E f \in Formats :
            caches[c].stageKey = [format |-> f, in |-> SizeIn(c)]
    /\ <<c, "pre">> \in busy => caches[c].pre \in Frame(SizeIn(c))
    /\ <<c, "post">> \in busy =>
         \E f \in Formats :
            caches[c].post = [format |-> f, size |-> SizeOut(c)]

LEMMA SoundParts ==
    /\ StagingSound <=> \A c \in Calls : CacheSound(c)
    /\ BusySound <=> \A c \in Calls : WorkSound(c)
BY DEF StagingSound, BusySound, CacheSound, WorkSound, Shaped

\* The sizes of every call are kept.
SizesKept == UNCHANGED <<source, cfg, hoist, rife>>

\* Failed calls are counted, and only an aji_configure forgets them.
FailuresKept == failures \in Nat /\ failures' \in Nat /\ failures' >= failures
Counted(luck) ==
    failures' = failures + (IF luck \in {"fine", "scene"} THEN 0 ELSE 1)

LEMMA CountedKept ==
    ASSUME failures \in Nat, NEW luck, Counted(luck)
    PROVE  /\ FailuresKept
           /\ luck \notin {"fine", "scene"} => failures' > 0
           /\ failures > 0 => failures' > 0
BY DEF Counted, FailuresKept

LEMMA FailuresSame ==
    ASSUME failures \in Nat, failures' = failures
    PROVE  FailuresKept
BY DEF FailuresKept

LEMMA SizesSame ==
    ASSUME SizesKept, NEW c
    PROVE  SizeIn(c)' = SizeIn(c) /\ SizeOut(c)' = SizeOut(c)
BY DEF SizesKept, SizeIn, SizeOut

(* A cache that no call touches stays sound, with less work or the same.   *)
LEMMA OthersSound ==
    ASSUME SizesKept, FailuresKept, NEW c, caches'[c] = caches[c],
           botched'[c] = botched[c]
    PROVE  /\ CacheSound(c) => CacheSound(c)'
           /\ WorkSound(c) /\ (\A k \in {"stage", "pre", "post"} :
                 <<c, k>> \in busy' => <<c, k>> \in busy)
                => WorkSound(c)'
<1>1. SizeIn(c)' = SizeIn(c) /\ SizeOut(c)' = SizeOut(c)
  BY SizesSame
<1>2. failures > 0 => failures' > 0
  BY DEF FailuresKept
<1>3. CacheSound(c) => CacheSound(c)'
  BY <1>1, <1>2 DEF CacheSound, Shaped, StagingOf
<1> QED BY <1>1, <1>3 DEF WorkSound, Frame

(* What aji_infer and aji_resize do with a frame, by where they fail. *)
PipelinedBy(c, in, outSize, hurts, luck) ==
    LET new == Prepared(caches[c], in, outSize, luck)
        want == Staging(in, outSize)
        gone == Replaced(c, StageKey(want), new)
        submitted == luck \in {"midway", "fine"}
    IN /\ Meets(luck, caches[c], new, in)
       /\ Counted(luck)
       /\ caches' = [caches EXCEPT ![c] = new]
       /\ botched' = [botched EXCEPT ![c] =
                        IF luck = "stage" THEN in.format
                        ELSE IF new.stageKey # caches[c].stageKey
                             THEN "none" ELSE @]
       /\ released' = {[was |-> UsedFor(c, b[2]),
                        for |-> IF b[2] = "stage" THEN want ELSE in] :
                        b \in gone}
       /\ busy' = (busy \ gone)
                    \cup (IF submitted THEN Uses(c, in) ELSE {})
       /\ \E tex : faults' =
            IF ~ submitted THEN {}
            ELSE StagingFaults(c, new.stage, want)
                   \cup PlanFaults(new, in, outSize)
                   \cup (IF tex \cap stale # {}
                         THEN {"stale texture"} ELSE {})
                   \cup hurts

LEMMA PipelinedIs ==
    ASSUME NEW c \in {"infer", "resize"}, NEW in, NEW outSize, NEW hurts,
           Pipelined(c, in, outSize, hurts)
    PROVE  \E luck \in Lucks : PipelinedBy(c, in, outSize, hurts, luck)
BY DEF Pipelined, PipelinedBy, Own, Counts, Counted

(* What is released is of another format or siting than the frame.         *)
LEMMA ReleasedDiffers ==
    ASSUME NEW c \in Calls, NEW in \in Frame(SizeIn(c)), NEW luck \in Lucks,
           CacheSound(c), WorkSound(c),
           busy \subseteq Calls \X {"stage", "pre", "post"},
           Meets(luck, caches[c],
                 Prepared(caches[c], in, SizeOut(c), luck), in),
           NEW b \in Replaced(c, StageKey(Staging(in, SizeOut(c))),
                              Prepared(caches[c], in, SizeOut(c), luck))
    PROVE  Differs([was |-> UsedFor(c, b[2]),
                    for |-> IF b[2] = "stage"
                            THEN Staging(in, SizeOut(c)) ELSE in])
<1> DEFINE new == Prepared(caches[c], in, SizeOut(c), luck)
           key == [format |-> in.format, in |-> in.size]
<1>1. /\ b \in busy /\ b[1] = c /\ b = <<c, b[2]>>
      /\ b[2] \in {"stage", "pre", "post"}
      /\ b[2] = "stage" => caches[c].stageKey # key
      /\ b[2] # "stage" => /\ new[b[2]] # caches[c][b[2]]
                           /\ UsedFor(c, b[2]) = caches[c][b[2]]
  BY KeyIs DEF Replaced, UsedFor
<1>2. /\ in.format \in Formats /\ in.size = SizeIn(c)
      /\ in # Null /\ "siting" \in DOMAIN in
      /\ in = [format |-> in.format, size |-> SizeIn(c),
               siting |-> in.siting]
  BY FrameIs
<1>3. CASE b[2] = "stage"
  <2>1. PICK f \in Formats :
          caches[c].stageKey = [format |-> f, in |-> SizeIn(c)]
    BY <1>1, <1>3 DEF WorkSound
  <2>2. f # in.format
    BY <1>1, <1>2, <1>3, <2>1
  <2>3. UsedFor(c, b[2]).format = f
    BY <1>3, <2>1 DEF UsedFor
  <2> QED BY <1>3, <2>2, <2>3, KeyIs DEF Differs
<1>4. CASE b[2] = "pre"
  <2>1. caches[c].pre \in Frame(SizeIn(c))
    BY <1>1, <1>4 DEF WorkSound
  <2>2. caches[c].pre # in
    <3>1. new.pre # caches[c].pre => caches[c].pre # in
      BY <1>2, PlansKept
    <3> HIDE DEF new
    <3>2. new.pre # caches[c].pre
      BY <1>1, <1>4
    <3> QED BY <3>1, <3>2
  <2>3. /\ "siting" \in DOMAIN caches[c].pre
        /\ caches[c].pre = [format |-> caches[c].pre.format,
                            size |-> SizeIn(c),
                            siting |-> caches[c].pre.siting]
    BY <2>1, FrameIs
  <2>4. \/ caches[c].pre.format # in.format
        \/ caches[c].pre.siting # in.siting
    BY <1>2, <2>2, <2>3
  <2> QED BY <1>1, <1>2, <1>4, <2>3, <2>4 DEF Differs
<1>5. CASE b[2] = "post"
  <2>1. PICK f \in Formats :
          caches[c].post = [format |-> f, size |-> SizeOut(c)]
    BY <1>1, <1>5 DEF WorkSound
  <2>2. caches[c].post # PostDesc(in, SizeOut(c))
    <3>1. new.post # caches[c].post =>
            caches[c].post # PostDesc(in, SizeOut(c))
      BY <1>2, PlansKept
    <3> HIDE DEF new
    <3>2. new.post # caches[c].post
      BY <1>1, <1>5
    <3> QED BY <3>1, <3>2
  <2>3. f # in.format
    BY <2>1, <2>2 DEF PostDesc
  <2>4. caches[c].post.format = f
    BY <2>1
  <2> QED BY <1>1, <1>2, <1>5, <2>3, <2>4 DEF Differs
<1> QED BY <1>1, <1>3, <1>4, <1>5

(* The cache of the call itself. *)
LEMMA CacheKept ==
    ASSUME NEW c \in Calls, NEW in \in Frame(SizeIn(c)), NEW luck \in Lucks,
           SizesKept, failures \in Nat, Counted(luck), CacheSound(c),
           Meets(luck, caches[c],
                 Prepared(caches[c], in, SizeOut(c), luck), in),
           caches'[c] = Prepared(caches[c], in, SizeOut(c), luck),
           botched'[c] = IF luck = "stage" THEN in.format
                         ELSE IF caches'[c].stageKey # caches[c].stageKey
                              THEN "none" ELSE botched[c]
    PROVE  CacheSound(c)'
<1> DEFINE key == [format |-> in.format, in |-> SizeIn(c)]
<1>1. in.format \in Formats /\ in.size = SizeIn(c)
  BY FrameIs
<1>2. SizeIn(c)' = SizeIn(c) /\ SizeOut(c)' = SizeOut(c)
  BY SizesSame
<1>3. Shaped(caches'[c])
  <2>1. Shaped(caches[c])
    BY DEF CacheSound
  <2>2. Shaped(Prepared(caches[c], in, SizeOut(c), luck))
    BY <2>1, PreparedStage
  <2> QED BY <2>2
<1>4. /\ luck = "stage" => failures' > 0
      /\ failures > 0 => failures' > 0
  BY CountedKept
<1>5. CASE luck = "stage"
  <2>1. caches[c].stageKey # key
    BY <1>1, <1>5, KeyIs DEF Meets
  <2>2. caches'[c].stageKey = caches[c].stageKey
    BY <1>1, <1>5, <2>1, PreparedStage DEF CacheSound
  <2>3. in.format # "none"
    BY <1>1, DmlAssumption
  <2>4. ASSUME caches[c].stageKey # Null
        PROVE  \E f \in Formats :
                 /\ caches[c].stageKey = [format |-> f, in |-> SizeIn(c)]
                 /\ in.format \notin {"none", f}
    BY <2>1, <2>3, <2>4 DEF CacheSound
  <2> QED BY <1>1, <1>2, <1>3, <1>4, <1>5, <2>2, <2>4
          DEF CacheSound, Shaped
<1>6. CASE luck # "stage" /\ caches[c].stageKey = key
  <2>1. /\ caches'[c].stageKey = caches[c].stageKey
        /\ caches'[c].stage = caches[c].stage
    BY <1>1, <1>6, PreparedStage DEF CacheSound
  <2>2. botched'[c] = botched[c]
    BY <1>6, <2>1
  <2> QED BY <1>2, <1>3, <1>4, <2>1, <2>2 DEF CacheSound, Shaped, StagingOf
<1>7. CASE luck # "stage" /\ caches[c].stageKey # key
  <2>1. /\ caches'[c].stageKey = key
        /\ caches'[c].stage = Staging(in, SizeOut(c))
    BY <1>1, <1>7, PreparedStage DEF CacheSound
  <2>2. botched'[c] = "none"
    BY <1>7, <2>1
  <2>3. Staging(in, SizeOut(c)) = StagingOf(c, in.format)
    BY <1>1 DEF Staging, StagingOf
  <2> QED BY <1>1, <1>2, <1>3, <2>1, <2>2, <2>3
          DEF CacheSound, Shaped, StagingOf
<1> QED BY <1>5, <1>6, <1>7

(* A submitted frame has the plans it asks for. *)
LEMMA PlansMade ==
    ASSUME NEW cache, NEW in, NEW outSize, NEW luck \in {"midway", "fine"}
    PROVE  /\ Prepared(cache, in, outSize, luck).pre = in
           /\ Prepared(cache, in, outSize, luck).post = PostDesc(in, outSize)
<1>1. /\ luck # "stage" /\ luck # "pre plan" /\ luck # "post plan"
      /\ luck \notin {"stage", "pre plan"}
  OBVIOUS
<1> QED BY <1>1 DEF Prepared, Renewed, PreKey

(* ... and staging of its own, or that of another format. *)
LEMMA StageMade ==
    ASSUME NEW c \in Calls, NEW in \in Frame(SizeIn(c)),
           NEW luck \in {"midway", "fine"}, CacheSound(c)
    PROVE  LET new == Prepared(caches[c], in, SizeOut(c), luck)
           IN /\ new.stageKey = [format |-> in.format, in |-> SizeIn(c)]
              /\ \/ new.stage = Staging(in, SizeOut(c))
                 \/ botched[c] \notin {"none", in.format}
<1> DEFINE new == Prepared(caches[c], in, SizeOut(c), luck)
           key == [format |-> in.format, in |-> SizeIn(c)]
<1>1. /\ in.format \in Formats /\ in.size = SizeIn(c)
      /\ luck # "stage" /\ luck \in Lucks
  BY FrameIs DEF Lucks
<1>2. CASE caches[c].stageKey = key
  <2>1. new.stageKey = key /\ new.stage = caches[c].stage
    BY <1>1, <1>2, PreparedStage DEF CacheSound
  <2>2. key # Null
    <3>1. "format" \in DOMAIN key /\ "format" \notin DOMAIN Null
      BY DEF Null
    <3> QED BY <3>1
  <2>3. PICK f \in Formats :
          /\ key = [format |-> f, in |-> SizeIn(c)]
          /\ \/ caches[c].stage = StagingOf(c, f)
             \/ botched[c] \notin {"none", f}
    BY <1>2, <2>2 DEF CacheSound
  <2>4. f = in.format
    BY <2>3
  <2>5. StagingOf(c, f) = Staging(in, SizeOut(c))
    BY <1>1, <2>4 DEF StagingOf, Staging
  <2> QED BY <2>1, <2>3, <2>4, <2>5
<1>3. CASE caches[c].stageKey # key
  <2>1. new.stageKey = key /\ new.stage = Staging(in, SizeOut(c))
    BY <1>1, <1>3, PreparedStage DEF CacheSound
  <2> QED BY <2>1
<1> QED BY <1>2, <1>3

OwnFaults == {"stale texture", "wrong staging", "wrong plan"}

(* It is therefore copied and converted by what is its own, ...            *)
LEMMA NoFault ==
    ASSUME NEW c \in Calls, NEW in \in Frame(SizeIn(c)),
           NEW luck \in {"midway", "fine"}, CacheSound(c)
    PROVE  LET new == Prepared(caches[c], in, SizeOut(c), luck)
               staging == Staging(in, SizeOut(c))
           IN /\ PlanFaults(new, in, SizeOut(c)) = {}
              /\ StagingFaults(c, new.stage, staging) \cap OwnFaults = {}
              /\ "leftover staging" \in StagingFaults(c, new.stage, staging)
                   => botched[c] # "none"
<1> DEFINE new == Prepared(caches[c], in, SizeOut(c), luck)
           staging == Staging(in, SizeOut(c))
<1>1. PlanFaults(new, in, SizeOut(c)) = {}
  <2>1. new.pre = in /\ new.post = PostDesc(in, SizeOut(c))
    BY PlansMade
  <2> HIDE DEF new
  <2> QED BY <2>1 DEF PlanFaults
<1>2. \/ new.stage = staging
      \/ botched[c] \notin {"none", in.format}
  BY StageMade
<1>3. staging.format = in.format
  BY KeyIs
<1>4. /\ StagingFaults(c, new.stage, staging) \in
           {{}, {"leftover staging"}}
      /\ botched[c] = "none" => StagingFaults(c, new.stage, staging) = {}
  <2> HIDE DEF new, staging
  <2> QED BY <1>2, <1>3 DEF StagingFaults
<1> QED BY <1>1, <1>4 DEF OwnFaults

(* ... and what it uses is sound while it uses it.                         *)
LEMMA WorkKept ==
    ASSUME NEW c \in Calls, NEW in \in Frame(SizeIn(c)), NEW luck \in Lucks,
           SizesKept, CacheSound(c), WorkSound(c),
           caches'[c] = Prepared(caches[c], in, SizeOut(c), luck),
           \A k \in {"stage", "pre", "post"} :
              <<c, k>> \in busy' =>
                \/ /\ <<c, k>> \in busy
                   /\ IF k = "stage"
                      THEN caches[c].stageKey =
                             [format |-> in.format, in |-> in.size]
                      ELSE caches'[c][k] = caches[c][k]
                \/ luck \in {"midway", "fine"}
    PROVE  WorkSound(c)'
<1> DEFINE key == [format |-> in.format, in |-> SizeIn(c)]
<1>1. in.format \in Formats /\ in.size = SizeIn(c)
  BY FrameIs
<1>2. SizeIn(c)' = SizeIn(c) /\ SizeOut(c)' = SizeOut(c)
  BY SizesSame
<1>3. CASE luck \in {"midway", "fine"}
  <2>1. caches'[c].stageKey = key
    BY <1>1, <1>3, StageMade
  <2>2. caches'[c].pre = in /\ caches'[c].post = PostDesc(in, SizeOut(c))
    BY <1>3, PlansMade
  <2> QED BY <1>1, <1>2, <2>1, <2>2 DEF WorkSound, PostDesc, Frame
<1>4. CASE luck \notin {"midway", "fine"}
  <2>1. ASSUME <<c, "stage">> \in busy'
        PROVE  \E f \in Formats :
                 caches'[c].stageKey = [format |-> f, in |-> SizeIn(c)]
    <3>1. caches[c].stageKey = key
      BY <1>1, <1>4, <2>1
    <3>2. caches'[c].stageKey = key
      BY <1>1, <3>1, PreparedStage DEF CacheSound
    <3> QED BY <1>1, <3>2
  <2>2. ASSUME <<c, "pre">> \in busy'
        PROVE  caches'[c].pre \in Frame(SizeIn(c))
    BY <1>4, <2>2 DEF WorkSound
  <2>3. ASSUME <<c, "post">> \in busy'
        PROVE  \E f \in Formats :
                 caches'[c].post = [format |-> f, size |-> SizeOut(c)]
    BY <1>4, <2>3 DEF WorkSound
  <2> QED BY <1>2, <2>1, <2>2, <2>3 DEF WorkSound, Frame
<1> QED BY <1>3, <1>4

(***************************************************************************)
(* A step in which one call works, if any, and sizes do not change.        *)
(***************************************************************************)
LEMMA StepSound ==
    ASSUME ChainIInv, SizesKept, FailuresKept, stale' = stale, NEW c \in Calls,
           DOMAIN caches' = Calls, DOMAIN botched' = Calls,
           \A d \in Calls \ {c} : /\ caches'[d] = caches[d]
                                  /\ botched'[d] = botched[d],
           busy' \subseteq Calls \X {"stage", "pre", "post"},
           \A b \in busy' : b[1] = "rife" => b[2] = "stage",
           \A b \in busy' : b[1] # c => b \in busy,
           CacheSound(c)', WorkSound(c)',
           faults' \cap OwnFaults = {},
           "leftover staging" \in faults' => failures' > 0, InFlightKept'
    PROVE  ChainIInv'
<1>1. \A d \in Calls : CacheSound(d) /\ WorkSound(d)
  BY SoundParts DEF ChainIInv
<1>2. \A d \in Calls \ {c} : CacheSound(d)' /\ WorkSound(d)'
  <2> TAKE d \in Calls \ {c}
  <2>1. \A k \in {"stage", "pre", "post"} : <<d, k>> \in busy' =>
          <<d, k>> \in busy
    OBVIOUS
  <2> QED BY <1>1, <2>1, OthersSound
<1>3. StagingSound'
  BY <1>2 DEF StagingSound, CacheSound, Shaped
<1>4. BusySound'
  BY <1>2 DEF BusySound, WorkSound
<1> QED BY <1>3, <1>4
        DEF ChainIInv, FramesGetTheirOwn, OwnFaults, FailuresKept

(* aji_infer and aji_resize of a frame. *)
LEMMA PipelinedSound ==
    ASSUME ChainIInv, SizesKept, stale' = stale,
           NEW c \in {"infer", "resize"}, NEW in \in Frame(SizeIn(c)),
           NEW hurts, hurts \cap (OwnFaults \cup {"leftover staging"}) = {},
           Pipelined(c, in, SizeOut(c), hurts)
    PROVE  ChainIInv'
<1> DEFINE out == SizeOut(c)
           kinds == {"stage", "pre", "post"}
<1>1. /\ DOMAIN caches = Calls /\ DOMAIN botched = Calls
      /\ busy \subseteq Calls \X kinds
      /\ \A b \in busy : b[1] = "rife" => b[2] = "stage"
      /\ stale = {} /\ failures \in Nat /\ c \in Calls /\ c # "rife"
  BY DEF ChainIInv, Calls
<1>2. CacheSound(c) /\ WorkSound(c)
  BY <1>1, SoundParts DEF ChainIInv
<1>3. PICK luck \in Lucks : PipelinedBy(c, in, out, hurts, luck)
  BY PipelinedIs
<1> DEFINE new == Prepared(caches[c], in, out, luck)
           gone == Replaced(c, StageKey(Staging(in, out)), new)
           submitted == luck \in {"midway", "fine"}
           staged == StagingFaults(c, new.stage, Staging(in, out))
<1>4. /\ caches'[c] = new
      /\ DOMAIN caches' = Calls /\ DOMAIN botched' = Calls
      /\ \A d \in Calls \ {c} : /\ caches'[d] = caches[d]
                                /\ botched'[d] = botched[d]
  <2> HIDE DEF new
  <2> QED BY <1>1, <1>3 DEF new, PipelinedBy
<1>5. botched'[c] = IF luck = "stage" THEN in.format
                    ELSE IF caches'[c].stageKey # caches[c].stageKey
                         THEN "none" ELSE botched[c]
  BY <1>1, <1>3, <1>4 DEF PipelinedBy
<1>6. Meets(luck, caches[c], new, in) /\ Counted(luck)
  BY <1>3 DEF PipelinedBy
<1>7. CacheSound(c)'
  BY <1>1, <1>2, <1>4, <1>5, <1>6, CacheKept
<1>8. /\ \/ ~ submitted /\ faults' = {}
         \/ submitted /\ faults' = staged \cup hurts
      /\ submitted =>
           /\ staged \cap OwnFaults = {}
           /\ "leftover staging" \in staged => botched[c] # "none"
  <2>1. submitted => /\ PlanFaults(new, in, out) = {}
                     /\ staged \cap OwnFaults = {}
                     /\ "leftover staging" \in staged => botched[c] # "none"
    BY <1>1, <1>2, NoFault
  <2>2. PICK tex : faults' =
                IF ~ submitted THEN {}
                ELSE staged \cup PlanFaults(new, in, out)
                       \cup (IF tex \cap stale # {}
                             THEN {"stale texture"} ELSE {})
                       \cup hurts
    BY <1>3 DEF PipelinedBy
  <2> HIDE DEF new, staged, submitted
  <2> QED BY <1>1, <2>1, <2>2
<1>9. /\ faults' \cap OwnFaults = {}
      /\ "leftover staging" \in faults' => failures' > 0
  <2>1. botched[c] # "none" => failures > 0
    BY <1>2 DEF CacheSound
  <2>2. failures > 0 => failures' > 0
    BY <1>1, <1>6, CountedKept
  <2> HIDE DEF new, staged, submitted
  <2> QED BY <1>8, <2>1, <2>2
<1>10. /\ busy' \subseteq Calls \X kinds
       /\ \A b \in busy' : b[1] = "rife" => b[2] = "stage"
       /\ \A b \in busy' : b[1] # c => b \in busy
       /\ \A k \in kinds : <<c, k>> \in busy' =>
            \/ /\ <<c, k>> \in busy
               /\ IF k = "stage"
                  THEN caches[c].stageKey =
                         [format |-> in.format, in |-> in.size]
                  ELSE new[k] = caches[c][k]
            \/ submitted
  <2>1. Uses(c, in) \subseteq {c} \X kinds
    BY DEF Uses
  <2>2. \A k \in kinds : <<c, k>> \in busy \ gone =>
          IF k = "stage"
          THEN caches[c].stageKey = [format |-> in.format, in |-> in.size]
          ELSE new[k] = caches[c][k]
    BY KeyIs DEF Replaced
  <2>3. busy' = (busy \ gone) \cup (IF submitted THEN Uses(c, in) ELSE {})
    BY <1>3 DEF PipelinedBy
  <2> HIDE DEF new, gone, submitted
  <2> QED BY <1>1, <2>1, <2>2, <2>3
<1>11. WorkSound(c)'
  <2>1. \A k \in kinds : <<c, k>> \in busy' =>
          \/ /\ <<c, k>> \in busy
             /\ IF k = "stage"
                THEN caches[c].stageKey =
                       [format |-> in.format, in |-> in.size]
                ELSE caches'[c][k] = caches[c][k]
          \/ submitted
    <3> HIDE DEF new, submitted
    <3> QED BY <1>4, <1>10
  <2> QED BY <1>1, <1>2, <1>4, <2>1, WorkKept
<1>12. InFlightKept'
  <2>1. \A b \in gone :
          Differs([was |-> UsedFor(c, b[2]),
                   for |-> IF b[2] = "stage" THEN Staging(in, out) ELSE in])
    BY <1>1, <1>2, <1>6, ReleasedDiffers
  <2>2. released' = {[was |-> UsedFor(c, b[2]),
                      for |-> IF b[2] = "stage"
                              THEN Staging(in, out) ELSE in] : b \in gone}
    BY <1>3 DEF PipelinedBy
  <2> HIDE DEF gone
  <2> QED BY <2>1, <2>2 DEF InFlightKept, Differs
<1> HIDE DEF new, gone, submitted, staged
<1>13. FailuresKept
  BY <1>1, <1>6, CountedKept
<1> QED BY <1>1, <1>4, <1>7, <1>9, <1>10, <1>11, <1>12, <1>13, StepSound

(* What aji_infer_rife does with a frame, by where it fails. *)
RifeBy(format, luck) ==
    LET want == RifeStaging(format)
        new == RifeRestaged(caches["rife"], want, luck)
        fresh == caches["rife"].stageKey # StageKey(want)
        gone == Replaced("rife", StageKey(want), new)
        submitted == luck \in {"midway", "scene", "fine"}
    IN /\ luck \in {"stage", "fill"} => fresh
       /\ Counted(luck)
       /\ caches' = [caches EXCEPT !["rife"] = new]
       /\ botched' = [botched EXCEPT !["rife"] =
                        IF luck = "fill" THEN format
                        ELSE IF fresh THEN "none" ELSE @]
       /\ released' = {[was |-> UsedFor("rife", b[2]), for |-> want] :
                        b \in gone}
       /\ busy' = IF luck \in {"scene", "fine"} THEN {}
                  ELSE (busy \ gone)
                        \cup (IF submitted THEN {<<"rife", "stage">>} ELSE {})
       /\ \E tex : faults' =
            IF ~ submitted THEN {}
            ELSE StagingFaults("rife", new.stage, want)
                   \cup (IF tex \cap stale # {} THEN {"stale texture"}
                         ELSE {})

LEMMA InferRifeIs ==
    ASSUME NEW format, InferRifeOf(format)
    PROVE  \E luck \in RifeLucks : RifeBy(format, luck)
BY DEF InferRifeOf, RifeBy, Counts, Counted

LEMMA RifeStagingIs ==
    ASSUME NEW format
    PROVE  /\ RifeStaging(format) = StagingOf("rife", format)
           /\ RifeStaging(format).format = format
           /\ StageKey(RifeStaging(format)) =
                [format |-> format, in |-> SizeIn("rife")]
           /\ RifeStaging(format) # Null
           /\ StageKey(RifeStaging(format)) # Null
<1>1. RifeStaging(format) =
        [format |-> format, in |-> rife.size, out |-> rife.size]
  BY DEF RifeStaging
<1>2. StageKey(RifeStaging(format)) = [format |-> format, in |-> rife.size]
  BY <1>1 DEF StageKey
<1>3. SizeIn("rife") = rife.size /\ SizeOut("rife") = rife.size
  BY DEF SizeIn, SizeOut
<1>4. "format" \in DOMAIN RifeStaging(format)
      /\ "format" \in DOMAIN StageKey(RifeStaging(format))
      /\ "format" \notin DOMAIN Null
  BY <1>1, <1>2 DEF Null
<1> QED BY <1>1, <1>2, <1>3, <1>4 DEF StagingOf

(* The staging a call of aji_infer_rife goes on with. *)
LEMMA RifeRestagedIs ==
    ASSUME NEW cache, NEW want, NEW luck \in RifeLucks, Shaped(cache)
    PROVE  LET new == RifeRestaged(cache, want, luck)
               same == cache.stageKey = StageKey(want)
           IN /\ Shaped(new)
              /\ same => new.stageKey = cache.stageKey
                         /\ new.stage = cache.stage
              /\ ~ same /\ luck = "stage" =>
                   new.stageKey = Null /\ new.stage = Torn
              /\ ~ same /\ luck = "fill" =>
                   new.stageKey = cache.stageKey /\ new.stage = want
              /\ ~ same /\ luck \notin {"stage", "fill"} =>
                   new.stageKey = StageKey(want) /\ new.stage = want
<1> DEFINE new == RifeRestaged(cache, want, luck)
           same == cache.stageKey = StageKey(want)
<1>1. same => new = cache
  BY DEF RifeRestaged
<1>2. ~ same /\ luck = "stage" => new = Noted(cache, Null, Torn)
  BY DEF RifeRestaged
<1>3. ~ same /\ luck = "fill" => new = Noted(cache, cache.stageKey, want)
  BY DEF RifeRestaged
<1>4. ~ same /\ luck \notin {"stage", "fill"} =>
        new = Noted(cache, StageKey(want), want)
  BY DEF RifeRestaged
<1> HIDE DEF new
<1> QED BY <1>1, <1>2, <1>3, <1>4 DEF Noted, Shaped, new

LEMMA RifeCacheKept ==
    ASSUME SizesKept, CacheSound("rife"), NEW format \in Formats,
           NEW luck \in RifeLucks, failures \in Nat, Counted(luck),
           luck \in {"stage", "fill"} =>
              caches["rife"].stageKey # StageKey(RifeStaging(format)),
           caches'["rife"] =
              RifeRestaged(caches["rife"], RifeStaging(format), luck),
           botched'["rife"] =
              IF luck = "fill" THEN format
              ELSE IF caches["rife"].stageKey # StageKey(RifeStaging(format))
                   THEN "none" ELSE botched["rife"]
    PROVE  CacheSound("rife")'
<1> DEFINE want == RifeStaging(format)
           same == caches["rife"].stageKey = StageKey(want)
<1>1. /\ want = StagingOf("rife", format)
      /\ StageKey(want) = [format |-> format, in |-> SizeIn("rife")]
  BY RifeStagingIs
<1>2. SizeIn("rife")' = SizeIn("rife") /\ SizeOut("rife")' = SizeOut("rife")
  BY SizesSame
<1>3. /\ Shaped(caches["rife"]) /\ Shaped(caches'["rife"])
      /\ luck = "fill" => failures' > 0
      /\ failures > 0 => failures' > 0
  BY RifeRestagedIs, CountedKept DEF CacheSound, FailuresKept
<1>4. CASE same
  <2>1. /\ caches'["rife"].stageKey = caches["rife"].stageKey
        /\ caches'["rife"].stage = caches["rife"].stage
        /\ botched'["rife"] = botched["rife"]
    BY <1>3, <1>4, RifeRestagedIs
  <2> QED BY <1>2, <1>3, <2>1 DEF CacheSound, Shaped, StagingOf
<1>5. CASE ~ same /\ luck = "stage"
  <2>1. caches'["rife"].stageKey = Null /\ botched'["rife"] = "none"
    BY <1>3, <1>5, RifeRestagedIs
  <2> QED BY <1>3, <2>1 DEF CacheSound, Shaped
<1>6. CASE ~ same /\ luck = "fill"
  <2>1. /\ caches'["rife"].stageKey = caches["rife"].stageKey
        /\ botched'["rife"] = format
    BY <1>3, <1>6, RifeRestagedIs
  <2>2. format # "none"
    BY DmlAssumption
  <2>3. ASSUME caches["rife"].stageKey # Null
        PROVE  \E f \in Formats :
                 /\ caches["rife"].stageKey =
                      [format |-> f, in |-> SizeIn("rife")]
                 /\ format \notin {"none", f}
    BY <1>1, <1>6, <2>2, <2>3 DEF CacheSound
  <2> QED BY <1>2, <1>3, <2>1, <2>3 DEF CacheSound, Shaped
<1>7. CASE ~ same /\ luck \notin {"stage", "fill"}
  <2>1. /\ caches'["rife"].stageKey = StageKey(want)
        /\ caches'["rife"].stage = want
        /\ botched'["rife"] = "none"
    BY <1>3, <1>7, RifeRestagedIs
  <2> QED BY <1>1, <1>2, <1>3, <2>1 DEF CacheSound, Shaped, StagingOf
<1> QED BY <1>4, <1>5, <1>6, <1>7

LEMMA RifeMade ==
    ASSUME CacheSound("rife"), NEW format \in Formats,
           NEW luck \in {"midway", "scene", "fine"}
    PROVE  LET want == RifeStaging(format)
               new == RifeRestaged(caches["rife"], want, luck)
               found == StagingFaults("rife", new.stage, want)
           IN /\ found \cap OwnFaults = {}
              /\ new.stageKey = StageKey(want)
              /\ "leftover staging" \in found => botched["rife"] # "none"
<1> DEFINE want == RifeStaging(format)
           new == RifeRestaged(caches["rife"], want, luck)
<1>1. /\ want = StagingOf("rife", format) /\ want.format = format
      /\ StageKey(want) = [format |-> format, in |-> SizeIn("rife")]
      /\ StageKey(want) # Null
      /\ luck \in RifeLucks /\ luck \notin {"stage", "fill"}
  BY RifeStagingIs DEF RifeLucks
<1>2. new.stageKey = StageKey(want)
      /\ (new.stage = want \/ botched["rife"] \notin {"none", format})
  <2>1. CASE caches["rife"].stageKey = StageKey(want)
    <3>1. PICK f \in Formats :
            /\ StageKey(want) = [format |-> f, in |-> SizeIn("rife")]
            /\ \/ caches["rife"].stage = StagingOf("rife", f)
               \/ botched["rife"] \notin {"none", f}
      BY <1>1, <2>1 DEF CacheSound
    <3>2. f = format
      BY <1>1, <3>1
    <3>3. new.stageKey = StageKey(want) /\ new.stage = caches["rife"].stage
      BY <1>1, <2>1, RifeRestagedIs DEF CacheSound
    <3> QED BY <1>1, <3>1, <3>2, <3>3
  <2>2. CASE caches["rife"].stageKey # StageKey(want)
    BY <1>1, <2>2, RifeRestagedIs DEF CacheSound
  <2> QED BY <2>1, <2>2
<1> HIDE DEF new
<1>3. /\ StagingFaults("rife", new.stage, want) \in
           {{}, {"leftover staging"}}
      /\ botched["rife"] = "none" =>
           StagingFaults("rife", new.stage, want) = {}
  <2> HIDE DEF want
  <2> QED BY <1>1, <1>2 DEF StagingFaults
<1> QED BY <1>2, <1>3 DEF OwnFaults, new

LEMMA InferRifeSound ==
    ASSUME ChainIInv, SizesKept, stale' = stale,
           NEW format \in Formats, InferRifeOf(format)
    PROVE  ChainIInv'
<1> DEFINE want == RifeStaging(format)
           kinds == {"stage", "pre", "post"}
           same == caches["rife"].stageKey = StageKey(want)
<1>1. /\ DOMAIN caches = Calls /\ DOMAIN botched = Calls
      /\ busy \subseteq Calls \X kinds
      /\ \A b \in busy : b[1] = "rife" => b[2] = "stage"
      /\ stale = {} /\ failures \in Nat /\ "rife" \in Calls
  BY DEF ChainIInv, Calls
<1>2. CacheSound("rife") /\ WorkSound("rife")
  BY <1>1, SoundParts DEF ChainIInv
<1>3. PICK luck \in RifeLucks : RifeBy(format, luck)
  BY InferRifeIs
<1> DEFINE new == RifeRestaged(caches["rife"], want, luck)
           gone == Replaced("rife", StageKey(want), new)
           submitted == luck \in {"midway", "scene", "fine"}
           staged == StagingFaults("rife", new.stage, want)
<1>4. /\ caches'["rife"] = new
      /\ DOMAIN caches' = Calls /\ DOMAIN botched' = Calls
      /\ \A d \in Calls \ {"rife"} : /\ caches'[d] = caches[d]
                                     /\ botched'[d] = botched[d]
  <2> HIDE DEF new
  <2> QED BY <1>1, <1>3 DEF new, RifeBy
<1>5. /\ botched'["rife"] = IF luck = "fill" THEN format
                            ELSE IF ~ same THEN "none" ELSE botched["rife"]
      /\ luck \in {"stage", "fill"} => ~ same
      /\ Counted(luck)
  BY <1>1, <1>3 DEF RifeBy
<1>6. CacheSound("rife")'
  BY <1>1, <1>2, <1>4, <1>5, RifeCacheKept
<1>7. /\ \/ ~ submitted /\ faults' = {}
         \/ submitted /\ faults' = staged
      /\ submitted => /\ staged \cap OwnFaults = {}
                      /\ new.stageKey = StageKey(want)
                      /\ "leftover staging" \in staged =>
                           botched["rife"] # "none"
  <2>1. submitted => /\ staged \cap OwnFaults = {}
                     /\ new.stageKey = StageKey(want)
                     /\ "leftover staging" \in staged =>
                          botched["rife"] # "none"
    BY <1>2, RifeMade
  <2>2. PICK tex : faults' =
            IF ~ submitted THEN {}
            ELSE staged \cup (IF tex \cap stale # {} THEN {"stale texture"}
                              ELSE {})
    BY <1>3 DEF RifeBy
  <2> HIDE DEF new, staged, submitted
  <2> QED BY <1>1, <2>1, <2>2
<1>8. /\ faults' \cap OwnFaults = {}
      /\ "leftover staging" \in faults' => failures' > 0
  <2>1. botched["rife"] # "none" => failures > 0
    BY <1>2 DEF CacheSound
  <2>2. failures > 0 => failures' > 0
    BY <1>1, <1>5, CountedKept
  <2> HIDE DEF new, staged, submitted
  <2> QED BY <1>7, <2>1, <2>2
<1>9. /\ busy' \subseteq Calls \X kinds
      /\ \A b \in busy' : b[1] = "rife" => b = <<"rife", "stage">>
      /\ \A b \in busy' : b[1] # "rife" => b \in busy
      /\ <<"rife", "stage">> \in busy' =>
            \/ <<"rife", "stage">> \in busy /\ same
            \/ submitted
  <2>1. <<"rife", "stage">> \in busy \ gone => same
    BY DEF Replaced
  <2>2. busy' = IF luck \in {"scene", "fine"} THEN {}
                ELSE (busy \ gone)
                      \cup (IF submitted THEN {<<"rife", "stage">>} ELSE {})
    BY <1>3 DEF RifeBy
  <2> HIDE DEF new, gone, submitted, same
  <2> QED BY <1>1, <2>1, <2>2
<1>10. /\ want.format = format
       /\ StageKey(want) = [format |-> format, in |-> SizeIn("rife")]
       /\ want # Null
       /\ SizeIn("rife")' = SizeIn("rife")
       /\ SizeOut("rife")' = SizeOut("rife")
  BY RifeStagingIs, SizesSame
<1>11. ASSUME <<"rife", "stage">> \in busy
       PROVE  \E f \in Formats :
                /\ caches["rife"].stageKey =
                     [format |-> f, in |-> SizeIn("rife")]
                /\ ~ same => f # format
  BY <1>2, <1>10, <1>11 DEF WorkSound
<1>12. WorkSound("rife")'
  <2>1. SUFFICES ASSUME <<"rife", "stage">> \in busy'
                 PROVE  \E f \in Formats :
                          new.stageKey = [format |-> f,
                                          in |-> SizeIn("rife")]
    <3>1. <<"rife", "pre">> \notin busy' /\ <<"rife", "post">> \notin busy'
      BY <1>9
    <3> HIDE DEF new
    <3> QED BY <1>4, <1>10, <3>1 DEF WorkSound
  <2>2. CASE submitted
    <3> HIDE DEF new, staged
    <3> QED BY <1>7, <1>10, <2>2
  <2>3. CASE ~ submitted
    <3>1. <<"rife", "stage">> \in busy /\ same
      BY <1>9, <2>1, <2>3
    <3>2. new.stageKey = caches["rife"].stageKey
      BY <1>2, <3>1, RifeRestagedIs DEF CacheSound
    <3> HIDE DEF new
    <3> QED BY <1>11, <3>1, <3>2
  <2> QED BY <2>2, <2>3
<1>13. InFlightKept'
  <2>1. \A b \in gone : Differs([was |-> UsedFor("rife", b[2]),
                                for |-> want])
    <3> TAKE b \in gone
    <3>1. b \in busy /\ b[1] = "rife"
      BY DEF Replaced
    <3>2. b[2] = "stage" /\ b = <<"rife", "stage">>
      BY <1>1, <3>1
    <3>3. ~ same
      BY <3>2 DEF Replaced
    <3>4. PICK f \in Formats :
            /\ caches["rife"].stageKey =
                 [format |-> f, in |-> SizeIn("rife")]
            /\ f # format
      BY <1>11, <3>1, <3>2, <3>3
    <3>5. UsedFor("rife", b[2]).format = f
      BY <3>2, <3>4 DEF UsedFor
    <3> HIDE DEF want
    <3> QED BY <1>10, <3>4, <3>5 DEF Differs
  <2>2. released' = {[was |-> UsedFor("rife", b[2]), for |-> want] :
                     b \in gone}
    BY <1>3 DEF RifeBy
  <2> HIDE DEF gone, want
  <2> QED BY <2>1, <2>2 DEF InFlightKept, Differs
<1>14. \A b \in busy' : b[1] = "rife" => b[2] = "stage"
  BY <1>9
<1>15. FailuresKept
  BY <1>1, <1>5, CountedKept
<1> HIDE DEF new, gone, submitted, staged, want, same
<1> QED BY <1>1, <1>4, <1>6, <1>8, <1>9, <1>12, <1>13, <1>14, <1>15, StepSound

(***************************************************************************)
(* Every step keeps the invariant.                                         *)
(***************************************************************************)
LEMMA InitSound == ASSUME ChainInit PROVE ChainIInv
<1>1. \A c \in Calls : caches[c] = NoCaches /\ botched[c] = "none"
  BY DEF ChainInit
<1>2. Shaped(NoCaches) /\ NoCaches.stageKey = Null
  BY DEF Shaped, NoCaches
<1>3. StagingSound
  BY <1>1, <1>2 DEF StagingSound, Shaped
<1> QED BY <1>3
        DEF ChainInit, ChainIInv, BusySound, FramesGetTheirOwn, InFlightKept

LEMMA TearDownSound == ASSUME TearDown PROVE ChainIInv'
<1>1. /\ DOMAIN caches' = Calls /\ DOMAIN botched' = Calls
      /\ \A c \in Calls : caches'[c] = NoCaches /\ botched'[c] = "none"
      /\ busy' = {} /\ released' = {} /\ faults' = {} /\ stale' = {}
      /\ failures' = 0
  BY DEF TearDown, TornDown, Drained, Forgotten
<1>2. Shaped(NoCaches) /\ NoCaches.stageKey = Null
  BY DEF Shaped, NoCaches
<1>3. StagingSound'
  BY <1>1, <1>2 DEF StagingSound, Shaped
<1> QED BY <1>1, <1>3 DEF ChainIInv, BusySound, FramesGetTheirOwn, InFlightKept

\* Nothing that the calls keep changes, and less is in use.
LEMMA IdleSound ==
    ASSUME ChainIInv, SizesKept, stale' = stale,
           UNCHANGED <<caches, botched, failures>>, busy' \in {busy, {}},
           released' = {},
           faults' \cap (OwnFaults \cup {"leftover staging"}) = {}
    PROVE  ChainIInv'
<1>1. /\ "infer" \in Calls /\ CacheSound("infer") /\ WorkSound("infer")
      /\ DOMAIN caches = Calls /\ DOMAIN botched = Calls
      /\ busy \subseteq Calls \X {"stage", "pre", "post"}
      /\ \A b \in busy : b[1] = "rife" => b[2] = "stage"
  BY SoundParts DEF ChainIInv, Calls
<1>2. \A k \in {"stage", "pre", "post"} :
        <<"infer", k>> \in busy' => <<"infer", k>> \in busy
  OBVIOUS
<1>3. FailuresKept /\ CacheSound("infer")' /\ WorkSound("infer")'
  <2>1. FailuresKept
    <3>1. failures \in Nat /\ failures' = failures
      BY DEF ChainIInv
    <3> QED BY <3>1, FailuresSame
  <2> QED BY <1>1, <1>2, <2>1, OthersSound
<1>4. InFlightKept'
  BY DEF InFlightKept
<1> QED BY <1>1, <1>3, <1>4, StepSound

LEMMA NextSound == ASSUME ChainIInv, ChainNext PROVE ChainIInv'
<1>1. CASE Configure
  BY <1>1, TearDownSound DEF Configure
<1>2. CASE Infer
  <2>1. SizesKept /\ stale' = stale
    BY <1>2 DEF Infer, SizesKept
  <2>2. PICK in \in Frame(Sent) :
          IF in.size # cfg.in THEN Refuses
          ELSE Pipelined("infer", in, cfg.out, ChainFaults)
    BY <1>2 DEF Infer
  <2>3. CASE in.size # cfg.in
    BY <2>1, <2>2, <2>3, IdleSound DEF Refuses, OwnFaults
  <2>4. CASE in.size = cfg.in
    <3>1. /\ in \in Frame(SizeIn("infer")) /\ cfg.out = SizeOut("infer")
      BY <2>4 DEF Frame, SizeIn, SizeOut
    <3>2. ChainFaults \cap (OwnFaults \cup {"leftover staging"}) = {}
      BY DEF ChainFaults, OwnFaults
    <3>3. Pipelined("infer", in, SizeOut("infer"), ChainFaults)
      BY <2>2, <2>4, <3>1
    <3> QED BY <2>1, <3>1, <3>2, <3>3, PipelinedSound
  <2> QED BY <2>3, <2>4
<1>3. CASE Resize
  <2>1. SizesKept /\ stale' = stale
    BY <1>3 DEF Resize, SizesKept
  <2>2. SizeIn("resize") = source /\ SizeOut("resize") = hoist[2]
    BY DEF SizeIn, SizeOut
  <2>3. PICK in \in Frame(source) :
          Pipelined("resize", in, hoist[2], ResizeFaults)
    BY <1>3 DEF Resize
  <2>4. ResizeFaults \cap (OwnFaults \cup {"leftover staging"}) = {}
    BY DEF ResizeFaults, OwnFaults
  <2> QED BY <2>1, <2>2, <2>3, <2>4, PipelinedSound
<1>4. CASE InferRife
  <2>1. SizesKept /\ stale' = stale
    BY <1>4 DEF InferRife, SizesKept
  <2>2. CASE Refuses
    BY <2>1, <2>2, IdleSound DEF Refuses, OwnFaults
  <2>3. CASE \E format \in Formats : InferRifeOf(format)
    BY <2>1, <2>3, InferRifeSound
  <2> QED BY <1>4, <2>2, <2>3 DEF InferRife
<1>5. CASE GpuFinishes
  BY <1>5, IdleSound DEF GpuFinishes, SizesKept, OwnFaults
<1> QED BY <1>1, <1>2, <1>3, <1>4, <1>5 DEF ChainNext

LEMMA StutterSound == ASSUME ChainIInv, UNCHANGED chainVars PROVE ChainIInv'
<1>1. /\ SizesKept
      /\ UNCHANGED <<caches, botched, failures, busy, released, faults, stale>>
      /\ FailuresKept
  BY DEF chainVars, SizesKept, ChainIInv, FailuresKept
<1>2. \A c \in Calls : CacheSound(c)
  BY SoundParts DEF ChainIInv
<1>3. \A c \in Calls : CacheSound(c)'
  BY <1>1, <1>2, OthersSound
<1>4. StagingSound'
  BY <1>3 DEF StagingSound, CacheSound, Shaped
<1>5. BusySound'
  <2>1. \A c \in Calls : WorkSound(c)
    BY SoundParts DEF ChainIInv
  <2>2. \A c \in Calls : WorkSound(c)'
    BY <1>1, <2>1, OthersSound
  <2> QED BY <2>2 DEF BusySound, WorkSound
<1> QED BY <1>1, <1>4, <1>5
        DEF ChainIInv, FramesGetTheirOwn, InFlightKept

THEOREM ChainInvariance == ChainSpec => []ChainIInv
<1>1. ChainInit => ChainIInv
  BY InitSound
<1>2. ChainIInv /\ [ChainNext]_chainVars => ChainIInv'
  BY NextSound, StutterSound
<1> QED BY <1>1, <1>2, PTL DEF ChainSpec

(***************************************************************************)
(* After any sequence of frames, failed calls and reconfigurations, a      *)
(* frame reads and writes its own textures and is converted by its own     *)
(* plans; and goes through its own staging, but where a call since the     *)
(* last aji_configure failed as it made staging of another format, and     *)
(* left that under the frame's key.                                        *)
(***************************************************************************)
THEOREM FramesAreTheirOwn == ChainSpec => []FramesGetTheirOwn
<1>1. ChainIInv => FramesGetTheirOwn
  BY DEF ChainIInv
<1> QED BY <1>1, ChainInvariance, PTL

(* Nothing that work in flight uses is let go of, but for a frame of       *)
(* another format or siting.                                               *)
THEOREM FlightIsKept == ChainSpec => []InFlightKept
<1>1. ChainIInv => InFlightKept
  BY DEF ChainIInv
<1> QED BY <1>1, ChainInvariance, PTL
-----------------------------------------------------------------------------
(***************************************************************************)
(* The loop of aji_configure is a fold over the models, which is a         *)
(* recursive function on sets of positions.                                *)
(***************************************************************************)
Begun(s) == [size |-> s, steps |-> <<>>]

IsFold(f, D, models, s) ==
    f = [S \in SUBSET D |->
            IF S = {} THEN Begun(s)
            ELSE Through(f[S \ {Max(S)}], models[Max(S)])]

LEMMA WalkIs ==
    ASSUME NEW models, NEW s,
           \E f : IsFold(f, DOMAIN models, models, s)
    PROVE  \E f : /\ IsFold(f, DOMAIN models, models, s)
                  /\ Walk(models, s) = f[DOMAIN models]
<1>1. Walk(models, s) =
        (CHOOSE f : IsFold(f, DOMAIN models, models, s))[DOMAIN models]
  BY DEF Walk, FoldLeft, MapThenFoldSet, IsFold, Begun
<1> QED BY <1>1

LEMMA MaxIsLast ==
    ASSUME NEW n \in Nat, NEW S \in SUBSET (1..(n + 1)), n + 1 \in S
    PROVE  Max(S) = n + 1
<1>1. \A x \in S : n + 1 >= x
  OBVIOUS
<1> DEFINE m == Max(S)
<1>2. m \in S /\ \A y \in S : m >= y
  BY <1>1 DEF Max
<1> HIDE DEF m
<1>3. m \in Int /\ n + 1 >= m /\ m >= n + 1
  BY <1>1, <1>2
<1>4. m = n + 1
  BY <1>3
<1> QED BY <1>4 DEF m

LEMMA FoldGrows ==
    ASSUME NEW models, NEW s, NEW n \in Nat, NEW f,
           IsFold(f, 1..n, models, s)
    PROVE  \E g : IsFold(g, 1..(n + 1), models, s)
<1> DEFINE turn(S) == Through(f[S \ {n + 1}], models[n + 1])
           g == [S \in SUBSET (1..(n + 1)) |->
                   IF n + 1 \in S THEN turn(S) ELSE f[S]]
<1>1. ASSUME NEW S \in SUBSET (1..(n + 1))
      PROVE  g[S] = IF S = {} THEN Begun(s)
                    ELSE Through(g[S \ {Max(S)}], models[Max(S)])
  <2>1. CASE n + 1 \in S
    <3>1. Max(S) = n + 1
      BY <2>1, MaxIsLast
    <3>2. g[S] = turn(S)
      BY <2>1
    <3>3. S \ {n + 1} \in SUBSET (1..(n + 1)) /\ n + 1 \notin S \ {n + 1}
      OBVIOUS
    <3>4. g[S \ {n + 1}] = f[S \ {n + 1}]
      BY <3>3
    <3>5. S # {}
      BY <2>1
    <3> HIDE DEF g
    <3> QED BY <3>1, <3>2, <3>4, <3>5
  <2>2. CASE n + 1 \notin S
    <3>1. S \in SUBSET (1..n)
      BY <2>2
    <3>2. g[S] = f[S]
      BY <2>2
    <3>3. S \ {Max(S)} \in SUBSET (1..(n + 1)) /\ n + 1 \notin S \ {Max(S)}
      BY <2>2
    <3>4. g[S \ {Max(S)}] = f[S \ {Max(S)}]
      BY <3>3
    <3>5. f[S] = IF S = {} THEN Begun(s)
                 ELSE Through(f[S \ {Max(S)}], models[Max(S)])
      BY <3>1 DEF IsFold
    <3> HIDE DEF g
    <3> QED BY <3>2, <3>4, <3>5
  <2> QED BY <2>1, <2>2
<1>2. DOMAIN g = SUBSET (1..(n + 1))
  OBVIOUS
<1>3. g = [S \in SUBSET (1..(n + 1)) |-> g[S]]
  OBVIOUS
<1> DEFINE h == [S \in SUBSET (1..(n + 1)) |->
                   IF S = {} THEN Begun(s)
                   ELSE Through(g[S \ {Max(S)}], models[Max(S)])]
<1> HIDE DEF g
<1>4. \A S \in SUBSET (1..(n + 1)) : g[S] = h[S]
  BY <1>1
<1>5. g = h
  BY <1>3, <1>4
<1> QED BY <1>5 DEF IsFold

(* A set of natural numbers has a least. *)
LEMMA Least ==
    ASSUME NEW T \in SUBSET Nat, T # {}
    PROVE  \E m \in T : \A t \in T : m <= t
<1>1. PICK m \in T : \A t \in T : ~(<<t, m>> \in OpToRel(<, Nat))
  BY NatLessThanWellFounded, WFMin, Zenon
<1>2. \A t \in T : ~(t < m)
  BY <1>1 DEF OpToRel
<1> QED BY <1>2

LEMMA FoldExists ==
    ASSUME NEW models, NEW s, NEW n \in Nat
    PROVE  \E f : IsFold(f, 1..n, models, s)
<1> DEFINE none == {k \in Nat : ~ \E f : IsFold(f, 1..k, models, s)}
<1>1. SUFFICES none = {}
  OBVIOUS
<1>2. SUFFICES ASSUME none # {} PROVE FALSE
  OBVIOUS
<1>3. PICK k \in none : \A t \in none : k <= t
  BY <1>2, Least
<1>4. k # 0
  <2>1. SUBSET (1..0) = {{}}
    OBVIOUS
  <2> DEFINE f == [S \in SUBSET (1..0) |-> Begun(s)]
  <2>2. IsFold(f, 1..0, models, s)
    BY <2>1 DEF IsFold
  <2> QED BY <2>2
<1>5. k - 1 \in Nat /\ k - 1 \notin none
  BY <1>3, <1>4
<1>6. PICK f : IsFold(f, 1..(k - 1), models, s)
  BY <1>5
<1>7. \E g : IsFold(g, 1..((k - 1) + 1), models, s)
  BY <1>5, <1>6, FoldGrows
<1>8. (k - 1) + 1 = k
  BY <1>5
<1> QED BY <1>7, <1>8

(* What the loop has at the start and every turn keeps, it has at the end. *)
LEMMA WalkStays ==
    ASSUME NEW models, NEW n \in Nat, DOMAIN models = 1..n, NEW s,
           NEW T, Begun(s) \in T,
           \A acc \in T, k \in 1..n : Through(acc, models[k]) \in T
    PROVE  Walk(models, s) \in T
<1>1. PICK f : /\ IsFold(f, 1..n, models, s)
               /\ Walk(models, s) = f[1..n]
  BY FoldExists, WalkIs
<1> DEFINE out == {k \in Nat : k <= n /\ f[1..k] \notin T}
<1>2. SUFFICES ASSUME out # {} PROVE FALSE
  BY <1>1
<1>3. PICK k \in out : \A t \in out : k <= t
  BY <1>2, Least
<1>4. k # 0
  <2>1. 1..0 = {} /\ 1..0 \in SUBSET (1..n)
    OBVIOUS
  <2>2. f[1..0] = Begun(s)
    BY <1>1, <2>1 DEF IsFold
  <2> QED BY <2>2
<1>5. k - 1 \in Nat /\ k \in 1..n /\ k - 1 \notin out
  BY <1>3, <1>4
<1>6. f[1..(k - 1)] \in T
  BY <1>5
<1>7. Max(1..k) = k
  <2>1. \A m \in Nat : Max(1..(m + 1)) = m + 1
    BY MaxIsLast
  <2>2. (k - 1) + 1 = k
    BY <1>5
  <2> QED BY <1>5, <2>1, <2>2
<1>8. (1..k) \ {k} = 1..(k - 1) /\ 1..k # {} /\ 1..k \in SUBSET (1..n)
  <2>1. k \in Nat /\ 1 <= k /\ k <= n
    BY <1>5
  <2>2. \A x : x \in (1..k) \ {k} <=> x \in 1..(k - 1)
    BY <2>1
  <2>3. (1..k) \ {k} = 1..(k - 1)
    BY <2>2
  <2>4. 1 \in 1..k
    BY <2>1
  <2>5. \A x \in 1..k : x \in 1..n
    BY <2>1
  <2> QED BY <2>3, <2>4, <2>5
<1>9. f[1..k] = Through(f[1..(k - 1)], models[k])
  BY <1>1, <1>7, <1>8 DEF IsFold
<1> QED BY <1>5, <1>6, <1>9

-----------------------------------------------------------------------------
Dims == (Nat \X Nat) \ {<<0, 0>>}

LEMMA QuotientTyped ==
    ASSUME NEW a \in Nat, NEW b \in Nat, b > 0
    PROVE  a \div b \in Nat
OBVIOUS

LEMMA EvenTyped ==
    ASSUME NEW n \in Nat
    PROVE  Even(n) \in Nat /\ (n >= 2 => Even(n) >= 2)
BY DEF Even

LEMMA RoundEvenTyped ==
    ASSUME NEW n \in Nat, NEW d \in Nat, d > 0
    PROVE  RoundEven(n, d) \in Nat
<1>1. 2 * n + d \in Nat /\ 2 * d \in Nat /\ 2 * d > 0
  OBVIOUS
<1> DEFINE q == (2 * n + d) \div (2 * d)
<1>2. q \in Nat
  BY <1>1, QuotientTyped
<1> HIDE DEF q
<1>3. Even(q) \in Nat
  BY <1>2, EvenTyped
<1> QED BY <1>3 DEF RoundEven, q

(* A box of more than one row always has a picture. *)
LEMMA FitBoxTyped ==
    ASSUME NEW s \in Dims, NEW h \in Nat, h >= 2
    PROVE  FitBox(s, h) \in Dims
<1>1. s[1] \in Nat /\ s[2] \in Nat /\ (s[1] > 0 \/ s[2] > 0)
  BY DEF Dims
<1>2. CASE 9 * s[1] > 16 * s[2]
  <2>1. RoundEven(16 * h, 9) \in Nat /\ RoundEven(16 * h, 9) > 0
    BY DEF RoundEven, Even
  <2>2. 9 * s[1] \in Nat /\ 9 * s[1] > 0
    BY <1>1, <1>2
  <2>3. 16 * h * s[2] \in Nat
    BY <1>1
  <2>4. RoundEven(16 * h * s[2], 9 * s[1]) \in Nat
    BY <2>2, <2>3, RoundEvenTyped
  <2>5. FitBox(s, h) =
          <<RoundEven(16 * h, 9), RoundEven(16 * h * s[2], 9 * s[1])>>
    BY <1>2 DEF FitBox
  <2> QED BY <2>1, <2>4, <2>5 DEF Dims
<1>3. CASE ~(9 * s[1] > 16 * s[2])
  <2>1. RoundEven(h, 1) \in Nat /\ RoundEven(h, 1) > 0
    BY DEF RoundEven, Even
  <2>2. s[2] > 0
    BY <1>1, <1>3
  <2>3. h * s[1] \in Nat
    BY <1>1
  <2>4. RoundEven(h * s[1], s[2]) \in Nat
    BY <1>1, <2>2, <2>3, RoundEvenTyped
  <2>5. FitBox(s, h) = <<RoundEven(h * s[1], s[2]), RoundEven(h, 1)>>
    BY <1>3 DEF FitBox
  <2> QED BY <2>1, <2>4, <2>5 DEF Dims
<1> QED BY <1>2, <1>3

LEMMA ByFactorTyped ==
    ASSUME NEW s \in Dims, NEW factor \in Nat
    PROVE  ByFactor(s, factor) \in Dims
<1> DEFINE t == <<RoundEven(s[1] * factor, 100),
                RoundEven(s[2] * factor, 100)>>
<1>1. s[1] * factor \in Nat /\ s[2] * factor \in Nat
  BY DEF Dims
<1>2. t \in Nat \X Nat
  BY <1>1, RoundEvenTyped
<1>3. ByFactor(s, factor) = IF factor # 100 /\ Drawable(t) THEN t ELSE s
  BY DEF ByFactor
<1> HIDE DEF t
<1>4. Drawable(t) => t \in Dims
  BY <1>2 DEF Drawable, Dims
<1> QED BY <1>3, <1>4

LEMMA ResizeTargetTyped ==
    ASSUME NEW m \in ModelType, NEW s \in Dims
    PROVE  ResizeTarget(m, s) \in Dims
<1>1. m.factor \in Nat /\ m.height \in Nat /\ m.height # 1
  BY DEF ModelType
<1>2. m.height # 0 => m.height >= 2
  BY <1>1
<1> QED BY <1>1, <1>2, FitBoxTyped, ByFactorTyped DEF ResizeTarget

Enlarged(s, k) == <<s[1] * k, s[2] * k>>

LEMMA EnlargedTyped ==
    ASSUME NEW s \in Dims, NEW k \in Positive
    PROVE  Enlarged(s, k) \in Dims
<1>1. s[1] \in Nat /\ s[2] \in Nat /\ (s[1] > 0 \/ s[2] > 0)
  BY DEF Dims
<1>2. k \in Nat /\ k > 0
  BY DEF Positive
<1>3. /\ s[1] * k \in Nat /\ s[2] * k \in Nat
      /\ s[1] > 0 => s[1] * k > 0
      /\ s[2] > 0 => s[2] * k > 0
  BY <1>1, <1>2
<1> QED BY <1>1, <1>3 DEF Enlarged, Dims

(* What the loop has after each turn. *)
OneStep == [kind : DOMAIN Scale \cup {"resize"}, from : Dims, to : Dims]
Turned(s) ==
    {acc \in [size : Dims, steps : Seq(OneStep)] :
        acc.steps = <<>> => acc.size = s}

LEMMA PushTurned ==
    ASSUME NEW s, NEW acc \in Turned(s),
           NEW kind \in DOMAIN Scale \cup {"resize"}, NEW t \in Dims
    PROVE  Push(acc, kind, t) \in Turned(s)
<1> DEFINE step == [kind |-> kind, from |-> acc.size, to |-> t]
<1>1. acc.size \in Dims /\ acc.steps \in Seq(OneStep)
  BY DEF Turned
<1>2. step \in OneStep
  BY <1>1 DEF OneStep
<1>3. Push(acc, kind, t) = [size |-> t, steps |-> Append(acc.steps, step)]
  BY DEF Push
<1> HIDE DEF step
<1>4. /\ Append(acc.steps, step) \in Seq(OneStep)
      /\ Append(acc.steps, step) # <<>>
  BY <1>1, <1>2
<1> QED BY <1>3, <1>4 DEF Turned

LEMMA ThroughTurned ==
    ASSUME NEW s, \A net \in DOMAIN Scale : Scale[net] \in Positive,
           NEW acc \in Turned(s), NEW m \in ModelType
    PROVE  Through(acc, m) \in Turned(s)
<1>1. /\ m.factor \in Nat /\ m.height \in Nat /\ m.height # 1
      /\ m.net \in DOMAIN Scale \cup {NoNet} /\ acc.size \in Dims
  BY DEF ModelType, Turned
<1> DEFINE fitted ==
             IF m.height = 0 THEN Resized(acc, ByFactor(acc.size, m.factor))
             ELSE IF m.height = acc.size[2] THEN acc
             ELSE Push(acc, "resize", FitBox(acc.size, m.height))
<1>2. fitted \in Turned(s)
  <2>1. CASE m.height = 0
    <3>1. ByFactor(acc.size, m.factor) \in Dims
      BY <1>1, ByFactorTyped
    <3>2. Resized(acc, ByFactor(acc.size, m.factor)) \in Turned(s)
      BY <3>1, PushTurned DEF Resized
    <3> QED BY <2>1, <3>2
  <2>2. CASE m.height # 0 /\ m.height # acc.size[2]
    <3>1. m.height >= 2
      BY <1>1, <2>2
    <3>2. FitBox(acc.size, m.height) \in Dims
      BY <1>1, <3>1, FitBoxTyped
    <3> QED BY <2>2, <3>2, PushTurned
  <2>3. CASE m.height # 0 /\ m.height = acc.size[2]
    BY <2>3
  <2> QED BY <2>1, <2>2, <2>3
<1>3. Through(acc, m) = Run(fitted, m.net)
  BY DEF Through
<1> HIDE DEF fitted
<1>4. CASE m.net = NoNet
  BY <1>2, <1>3, <1>4 DEF Run
<1>5. CASE m.net # NoNet
  <2>1. m.net \in DOMAIN Scale /\ fitted.size \in Dims
    BY <1>1, <1>2, <1>5 DEF Turned
  <2>2. Enlarged(fitted.size, Scale[m.net]) \in Dims
    BY <2>1, EnlargedTyped
  <2>3. Push(fitted, m.net, Enlarged(fitted.size, Scale[m.net])) \in Turned(s)
    BY <1>2, <2>1, <2>2, PushTurned
  <2>4. Run(fitted, m.net) =
          Push(fitted, m.net, Enlarged(fitted.size, Scale[m.net]))
    BY <1>5 DEF Run, Enlarged
  <2> QED BY <1>3, <2>3, <2>4
<1> QED BY <1>4, <1>5

LEMMA WalkTurned ==
    ASSUME NEW s \in Dims, NEW models \in Seq(ModelType),
           \A net \in DOMAIN Scale : Scale[net] \in Positive
    PROVE  Walk(models, s) \in Turned(s)
<1>1. Begun(s) \in Turned(s)
  <2>1. <<>> \in Seq(OneStep)
    OBVIOUS
  <2> QED BY <2>1 DEF Begun, Turned
<1>2. /\ Len(models) \in Nat /\ DOMAIN models = 1..Len(models)
      /\ \A k \in 1..Len(models) : models[k] \in ModelType
  OBVIOUS
<1> DEFINE T == Turned(s)
<1>3. \A acc \in T, k \in 1..Len(models) : Through(acc, models[k]) \in T
  BY <1>2, ThroughTurned
<1> HIDE DEF T
<1>4. Begun(s) \in T
  BY <1>1 DEF T
<1>5. Walk(models, s) \in T
  BY <1>2, <1>3, <1>4, WalkStays
<1> QED BY <1>5 DEF T

LEMMA UnresizedTyped ==
    ASSUME NEW models \in Seq(ModelType), models # <<>>
    PROVE  Unresized(models) \in Seq(ModelType)
<1>1. 1 \in DOMAIN models /\ models[1] \in ModelType
  OBVIOUS
<1> DEFINE m == [models[1] EXCEPT !.factor = 100]
           n == [m EXCEPT !.height = 0]
<1>2. n \in ModelType
  <2>1. PICK net \in DOMAIN Scale \cup {NoNet}, f \in Nat, h \in Nat \ {1} :
          models[1] = [net |-> net, factor |-> f, height |-> h]
    BY <1>1 DEF ModelType
  <2>2. m = [net |-> net, factor |-> 100, height |-> h]
    BY <2>1
  <2> HIDE DEF m
  <2>3. n = [net |-> net, factor |-> 100, height |-> 0]
    BY <2>2
  <2> HIDE DEF n
  <2> QED BY <2>3 DEF ModelType
<1>3. Unresized(models) = [models EXCEPT ![1] = n]
  BY <1>1 DEF Unresized
<1> HIDE DEF n
<1> QED BY <1>1, <1>2, <1>3

(***************************************************************************)
(* The pictures of a chain.                                                *)
(***************************************************************************)
LEMMA PictureTyped ==
    ASSUME NEW s \in Nat \X Nat, NEW half
    PROVE  /\ PictureBytes(s, half) \in Nat /\ Area(s) \in Nat
           /\ PictureBytes(s, half) = IF half THEN 6 * Area(s)
                                      ELSE 12 * Area(s)
           /\ PictureBytes(s, TRUE) = 6 * Area(s)
<1> DEFINE a == s[1] * s[2]
           p == PictureBytes(s, half)
           q == PictureBytes(s, TRUE)
<1>1. a \in Nat /\ Area(s) = a /\ 3 * s[1] * s[2] = 3 * a
  BY DEF Area
<1>2. (half => p = (3 * a) * 2) /\ (~ half => p = (3 * a) * 4)
  BY <1>1 DEF PictureBytes
<1>3. q = (3 * a) * 2
  BY <1>1 DEF PictureBytes
<1> HIDE DEF a, p, q
<1>4. q = 6 * a
  BY <1>1, <1>3
<1>5. CASE half
  <2>1. p = 6 * a
    BY <1>1, <1>2, <1>5
  <2>2. p = 6 * Area(s) /\ q = 6 * Area(s) /\ p \in Nat
    BY <1>1, <1>4, <2>1
  <2>3. Area(s) \in Nat
    BY <1>1
  <2> QED BY <1>5, <2>2, <2>3 DEF p, q
<1>6. CASE ~ half
  <2>1. p = 12 * a
    BY <1>1, <1>2, <1>6
  <2>2. p = 12 * Area(s) /\ q = 6 * Area(s) /\ p \in Nat
    BY <1>1, <1>4, <2>1
  <2>3. Area(s) \in Nat
    BY <1>1
  <2> QED BY <1>6, <2>2, <2>3 DEF p, q
<1> QED BY <1>5, <1>6

(* Finitely many numbers have a bound. *)
LEMMA Bounded ==
    ASSUME NEW n \in Nat, NEW f, \A i \in 1..n : f[i] \in Nat
    PROVE  \E b \in Nat : \A i \in 1..n : f[i] <= b
<1> DEFINE none == {k \in Nat : /\ k <= n
                                /\ ~ \E b \in Nat : \A i \in 1..k : f[i] <= b}
<1>0. none = {} => \E b \in Nat : \A i \in 1..n : f[i] <= b
  <2> SUFFICES ASSUME none = {}, ~ \E b \in Nat : \A i \in 1..n : f[i] <= b
               PROVE  FALSE
    OBVIOUS
  <2>1. n \in none
    OBVIOUS
  <2> QED BY <2>1
<1>1. SUFFICES ASSUME none # {} PROVE FALSE
  BY <1>0
<1>2. PICK k \in none : \A t \in none : k <= t
  <2>1. none \in SUBSET Nat
    OBVIOUS
  <2> QED BY <1>1, <2>1, Least
<1>3. k # 0
  <2>1. \A i \in 1..0 : f[i] <= 0
    OBVIOUS
  <2>2. 0 \in Nat
    OBVIOUS
  <2> QED BY <2>1, <2>2
<1>4. k - 1 \in Nat /\ k - 1 <= n /\ k \in 1..n
  <2>1. k \in Nat /\ k <= n
    OBVIOUS
  <2> QED BY <1>3, <2>1
<1>8. k - 1 \notin none
  <2> SUFFICES ASSUME k - 1 \in none PROVE FALSE
    OBVIOUS
  <2>1. k <= k - 1
    BY <1>2
  <2> QED BY <1>4, <2>1
<1>5. PICK b \in Nat : \A i \in 1..(k - 1) : f[i] <= b
  BY <1>4, <1>8
<1> DEFINE c == IF f[k] <= b THEN b ELSE f[k]
<1>6. c \in Nat /\ b <= c /\ f[k] <= c
  BY <1>4
<1> HIDE DEF c
<1>7. \A i \in 1..k : f[i] <= c
  <2> SUFFICES ASSUME NEW i \in 1..k PROVE f[i] <= c
    OBVIOUS
  <2>1. CASE i = k
    BY <1>6, <2>1
  <2>2. CASE i # k
    <3>1. i \in 1..(k - 1) /\ i \in 1..n
      BY <1>4, <2>2
    <3>2. f[i] <= b /\ f[i] \in Nat
      BY <1>5, <3>1
    <3> QED BY <1>6, <3>2
  <2> QED BY <2>1, <2>2
<1> QED BY <1>2, <1>6, <1>7

(* The largest of numbers that have a bound is one of them. *)
LEMMA MaxIsMax ==
    ASSUME NEW S \in SUBSET Nat, S # {}, NEW b \in Nat, \A x \in S : x <= b
    PROVE  Max(S) \in S /\ \A x \in S : Max(S) >= x
<1> DEFINE gaps == {b - x : x \in S}
<1>1. gaps \in SUBSET Nat /\ gaps # {}
  <2>1. \A x \in S : b - x \in Nat
    OBVIOUS
  <2>2. \E x \in S : b - x \in gaps
    OBVIOUS
  <2> QED BY <2>1, <2>2
<1>2. PICK g \in gaps : \A h \in gaps : g <= h
  BY <1>1, Least
<1>3. PICK x \in S : g = b - x
  OBVIOUS
<1>4. \A y \in S : x >= y
  <2> SUFFICES ASSUME NEW y \in S PROVE x >= y
    OBVIOUS
  <2>1. b - y \in gaps
    OBVIOUS
  <2>2. b - x <= b - y
    BY <1>2, <1>3, <2>1
  <2> QED BY <2>2
<1> QED BY <1>4 DEF Max

(* Typed gives each step its element types, and changes nothing else.      *)
LEMMA TypedIs ==
    ASSUME NEW steps \in Seq(OneStep)
    PROVE  /\ DOMAIN Typed(steps) = DOMAIN steps
           /\ Len(Typed(steps)) = Len(steps)
           /\ \A i \in DOMAIN steps : /\ Typed(steps)[i].kind = steps[i].kind
                                      /\ Typed(steps)[i].to = steps[i].to
<1> DEFINE with(out) ==
             [i \in DOMAIN steps |->
                [kind |-> steps[i].kind, from |-> steps[i].from,
                 to |-> steps[i].to, in16 |-> out[i - 1], out16 |-> out[i]]]
<1>0. \E out : Typed(steps) = with(out)
  BY Zenon DEF Typed
<1>1. PICK out : Typed(steps) = with(out)
  BY <1>0
<1>2. DOMAIN steps = 1..Len(steps) /\ Len(steps) \in Nat
  OBVIOUS
<1>3. ASSUME NEW i \in DOMAIN steps
      PROVE  /\ Typed(steps)[i].kind = steps[i].kind
             /\ Typed(steps)[i].to = steps[i].to
  BY <1>1, <1>3
<1>4. DOMAIN Typed(steps) = 1..Len(steps)
  BY <1>1, <1>2
<1>5. Len(Typed(steps)) = Len(steps)
  <2> DEFINE typed == Typed(steps)
  <2>1. typed = [i \in 1..Len(steps) |-> with(out)[i]]
    BY <1>1, <1>2
  <2> QED BY <1>2, <2>1
<1> QED BY <1>2, <1>3, <1>4, <1>5

LEMMA FirstTypeIs ==
    ASSUME NEW steps \in Seq(OneStep)
    PROVE  HalfAtFirst(Typed(steps)) = HalfAtFirst(steps)
<1>1. /\ DOMAIN Typed(steps) = DOMAIN steps
      /\ Len(Typed(steps)) = Len(steps) /\ DOMAIN steps = 1..Len(steps)
      /\ \A i \in DOMAIN steps : Typed(steps)[i].kind = steps[i].kind
  BY TypedIs
<1>2. NetsFrom(Typed(steps), 1) = NetsFrom(steps, 1)
  BY <1>1 DEF NetsFrom, IsNet
<1>3. CASE NetsFrom(steps, 1) = {}
  BY <1>2, <1>3 DEF HalfAtFirst
<1>4. CASE NetsFrom(steps, 1) # {}
  <2> DEFINE first == Min(NetsFrom(steps, 1))
  <2>1. first \in NetsFrom(steps, 1)
    <3>1. NetsFrom(steps, 1) \in SUBSET Nat
      BY DEF NetsFrom
    <3>2. \E x \in NetsFrom(steps, 1) : \A y \in NetsFrom(steps, 1) : x <= y
      BY <1>4, <3>1, Least
    <3> QED BY <3>2 DEF Min
  <2> HIDE DEF first
  <2>2. Typed(steps)[first].kind = steps[first].kind
    BY <1>1, <2>1 DEF NetsFrom
  <2> QED BY <1>2, <2>2 DEF HalfAtFirst, first
<1> QED BY <1>3, <1>4

(* All pictures of a chain fit what it needs. *)
LEMMA NeedTyped ==
    ASSUME NEW o, o.source \in Nat \X Nat, NEW n \in Nat,
           DOMAIN o.typed = 1..n,
           \A i \in 1..n : o.typed[i].to \in Nat \X Nat
    PROVE  /\ Need(o) \in Nat
           /\ PictureBytes(o.source, HalfAtFirst(o.steps)) \in 0..Need(o)
           /\ \A i \in 1..n :
                PictureBytes(o.typed[i].to, o.typed[i].out16) \in 0..Need(o)
<1> DEFINE first == PictureBytes(o.source, HalfAtFirst(o.steps))
           f == [i \in 1..n |->
                   PictureBytes(o.typed[i].to, o.typed[i].out16)]
           all == {first} \cup {f[i] : i \in 1..n}
<1>1. Need(o) = Max(all)
  BY DEF Need
<1>2. first \in Nat
  BY PictureTyped
<1>3. \A i \in 1..n : f[i] \in Nat
  BY PictureTyped
<1> HIDE DEF first, f
<1>4. PICK b \in Nat : \A i \in 1..n : f[i] <= b
  BY <1>3, Bounded
<1> DEFINE c == IF first <= b THEN b ELSE first
<1>5. c \in Nat /\ first <= c /\ b <= c
  BY <1>2
<1> HIDE DEF c
<1>6. all \in SUBSET Nat /\ all # {}
  BY <1>2, <1>3
<1>7. \A x \in all : x <= c
  <2>1. \A i \in 1..n : f[i] <= c
    BY <1>3, <1>4, <1>5
  <2> QED BY <1>5, <2>1
<1>8. first \in all /\ \A i \in 1..n : f[i] \in all
  OBVIOUS
<1> HIDE DEF all
<1> DEFINE m == Max(all)
<1>9. m \in all /\ \A x \in all : m >= x
  BY <1>5, <1>6, <1>7, MaxIsMax
<1> HIDE DEF m
<1>10. /\ m \in Nat /\ first \in 0..m
       /\ \A i \in 1..n : f[i] \in 0..m
  BY <1>2, <1>3, <1>6, <1>8, <1>9
<1> QED BY <1>1, <1>10 DEF m, first, f

(***************************************************************************)
(* What a chain comes to: it begins and ends at the same size if it has no *)
(* steps, only RIFE before it begins it elsewhere, and its buffers have    *)
(* room.                                                                   *)
(***************************************************************************)
OutlineSound(o, s) ==
    /\ o.steps = <<>> => o.end = o.start
    /\ o.start # s => o.rife /\ o.chain.before
    /\ o.start \in Dims
    /\ HalfAtFirst(o.typed) = HalfAtFirst(o.steps)
    /\ Need(o) \in Nat
    /\ PictureBytes(s, HalfAtFirst(o.steps)) \in 0..Need(o)
    /\ \A i \in DOMAIN o.typed :
         PictureBytes(o.typed[i].to, o.typed[i].out16) \in 0..Need(o)

LEMMA OutlineIsSound ==
    ASSUME NEW chain, chain.models \in Seq(ModelType), NEW s \in Dims,
           \A net \in DOMAIN Scale : Scale[net] \in Positive
    PROVE  OutlineSound(Outline(chain, s), s)
<1> DEFINE before == chain.rife /\ RifeDir /\ chain.before
           start == IF before /\ chain.models # <<>>
                    THEN ResizeTarget(chain.models[1], s) ELSE s
           models == IF start # s THEN Unresized(chain.models)
                     ELSE chain.models
           walk == Walk(models, start)
           typed == Typed(walk.steps)
           o == Outline(chain, s)
<1>1. o = [chain |-> chain, source |-> s, start |-> start, end |-> walk.size,
           rife |-> chain.rife /\ RifeDir,
           steps |-> walk.steps, typed |-> typed]
  BY DEF Outline
<1>2. start \in Dims
  <2>1. CASE before /\ chain.models # <<>>
    <3>1. chain.models[1] \in ModelType
      BY <2>1
    <3> QED BY <2>1, <3>1, ResizeTargetTyped
  <2>2. CASE ~(before /\ chain.models # <<>>)
    BY <2>2
  <2> QED BY <2>1, <2>2
<1>3. models \in Seq(ModelType)
  <2>1. CASE start # s
    <3>1. chain.models # <<>>
      BY <2>1
    <3> QED BY <2>1, <3>1, UnresizedTyped
  <2>2. CASE start = s
    BY <2>2
  <2> QED BY <2>1, <2>2
<1>4. start # s => chain.rife /\ RifeDir /\ chain.before
  OBVIOUS
<1> HIDE DEF start, models
<1>5. walk \in Turned(start)
  BY <1>2, <1>3, WalkTurned
<1> HIDE DEF walk
<1>6. /\ walk.steps \in Seq(OneStep)
      /\ walk.steps = <<>> => walk.size = start
  BY <1>5 DEF Turned
<1>7. /\ DOMAIN typed = DOMAIN walk.steps
      /\ \A i \in DOMAIN walk.steps : typed[i].to = walk.steps[i].to
      /\ HalfAtFirst(typed) = HalfAtFirst(walk.steps)
  BY <1>6, TypedIs, FirstTypeIs
<1> DEFINE n == Len(walk.steps)
<1>8. n \in Nat /\ DOMAIN walk.steps = 1..n
  BY <1>6
<1> HIDE DEF n
<1>9. \A i \in 1..n : typed[i].to \in Nat \X Nat
  <2> SUFFICES ASSUME NEW i \in 1..n PROVE typed[i].to \in Nat \X Nat
    OBVIOUS
  <2>1. walk.steps[i] \in OneStep
    BY <1>6, <1>8
  <2>2. walk.steps[i].to \in Nat \X Nat
    BY <2>1 DEF OneStep, Dims
  <2> QED BY <1>7, <1>8, <2>2
<1> HIDE DEF typed, o
<1>10. /\ o.source = s /\ o.steps = walk.steps /\ o.typed = typed
       /\ o.start = start /\ o.end = walk.size /\ o.chain = chain
       /\ o.rife = (chain.rife /\ RifeDir)
  BY <1>1
<1>11. s \in Nat \X Nat
  BY DEF Dims
<1>12. /\ Need(o) \in Nat
       /\ PictureBytes(o.source, HalfAtFirst(o.steps)) \in 0..Need(o)
       /\ \A i \in 1..n :
            PictureBytes(o.typed[i].to, o.typed[i].out16) \in 0..Need(o)
  BY <1>7, <1>8, <1>9, <1>10, <1>11, NeedTyped
<1>13. OutlineSound(o, s)
  BY <1>2, <1>4, <1>6, <1>7, <1>8, <1>10, <1>12 DEF OutlineSound
<1> QED BY <1>13 DEF o

(* A chain that a slot may select. *)
LEMMA OutlinesSound ==
    ASSUME ProfilesTyped, NEW sl \in Slots, NEW s \in Sizes,
           NEW o \in Outlines[sl][s], o # <<>>
    PROVE  OutlineSound(o[1], s)
<1>1. PICK file \in Files, fps \in Rates, library \in Libraries :
        LET picked == Select(Load(file), sl, s, fps, library)
        IN o = [i \in DOMAIN picked |-> Outline(picked[i], s)]
  BY DEF Outlines
<1> DEFINE picked == Select(Load(file), sl, s, fps, library)
<1>2. /\ \E n \in {0, 1} : DOMAIN picked = 1..n
      /\ \A i \in DOMAIN picked : picked[i].models \in Seq(ModelType)
  BY DEF ProfilesTyped
<1>3. o = [i \in DOMAIN picked |-> Outline(picked[i], s)]
  BY <1>1
<1> HIDE DEF picked
<1>4. 1 \in DOMAIN picked
  <2>1. DOMAIN picked = {} => o = <<>>
    BY <1>3
  <2> QED BY <1>2, <2>1
<1>5. s \in Dims /\ \A net \in DOMAIN Scale : Scale[net] \in Positive
  BY DEF ProfilesTyped, Positive, Dims
<1>6. o[1] = Outline(picked[1], s)
  BY <1>3, <1>4
<1> QED BY <1>2, <1>4, <1>5, <1>6, OutlineIsSound

-----------------------------------------------------------------------------
(***************************************************************************)
(* The sizes of the parts, and their pictures.                             *)
(***************************************************************************)

(* The configure, the resize it asks for and RIFE agree on the sizes.      *)
LEMMA ActivateSizes ==
    ASSUME NEW o, OutlineSound(o, source'),
           NEW trouble \in Troubles, Activate(o, trouble)
    PROVE  SizesSound'
<1>1. /\ o.steps = <<>> => o.end = o.start
      /\ o.start # source' => o.rife /\ o.chain.before
  BY DEF OutlineSound
<1>2. CASE trouble = "none"
  <2>1. hoist' = IF o.start # source' THEN <<source', o.start>> ELSE <<>>
    BY <1>2 DEF Activate
  <2>2. /\ o.rife => rife'.on
        /\ rife'.on =>
             /\ rife'.before = o.chain.before
             /\ rife'.size = IF o.chain.before THEN o.start ELSE o.end
    <3>1. rife' = IF o.rife THEN SetupRife(o) ELSE RifeOff
      BY <1>2 DEF Activate
    <3>2. CASE o.rife
      <4>1. rife' = [on |-> TRUE, before |-> o.chain.before,
                     size |-> IF o.chain.before THEN o.start ELSE o.end]
        BY <3>1, <3>2 DEF SetupRife
      <4> QED BY <4>1
    <3>3. CASE ~ o.rife
      <4>1. ~ rife'.on
        BY <3>1, <3>3 DEF RifeOff
      <4> QED BY <3>3, <4>1
    <3> QED BY <3>2, <3>3
  <2>3. CASE o.steps = <<>> /\ o.start = source'
    <3>1. cfg'.ans = "passthrough" /\ cfg'.out = source'
      BY <1>2, <2>3 DEF Activate, Answer
    <3>2. Between' = source'
      BY <3>1 DEF Between, Sent, Shrinks
    <3>3. rife'.on => rife'.size = source'
      BY <1>1, <2>2, <2>3
    <3> QED BY <3>1, <3>2, <3>3 DEF SizesSound
  <2>4. CASE ~(o.steps = <<>> /\ o.start = source') /\ Mixed(o.typed)
    <3>1. cfg'.ans = "error"
      BY <1>2, <2>4 DEF Activate, Answer
    <3> QED BY <3>1 DEF SizesSound
  <2>5. CASE ~(o.steps = <<>> /\ o.start = source') /\ ~ Mixed(o.typed)
    <3>1. cfg' = [ans |-> "active", in |-> o.start, out |-> o.end,
                  steps |-> o.typed]
      BY <1>2, <2>5 DEF Activate
    <3>2. cfg'.ans = "active" /\ cfg'.in = o.start /\ cfg'.out = o.end
      BY <3>1
    <3>3. hoist' # <<>> => RifeFirst' /\ hoist'[2] = o.start
      <4> SUFFICES ASSUME hoist' # <<>>
                   PROVE  RifeFirst' /\ hoist'[2] = o.start
        OBVIOUS
      <4>1. o.start # source' /\ hoist' = <<source', o.start>>
        BY <2>1
      <4>2. rife'.on /\ o.chain.before
        BY <1>1, <2>2, <4>1
      <4>3. rife'.before
        BY <2>2, <4>2
      <4> QED BY <4>1, <4>2, <4>3 DEF RifeFirst
    <3>4. cfg'.in = IF hoist' # <<>> THEN hoist'[2] ELSE source'
      BY <2>1, <3>2
    <3>5. Sent' = o.start
      BY <2>1, <3>2, <3>3 DEF Sent, Shrinks
    <3>6. ASSUME rife'.on PROVE rife'.size = Between'
      <4>1. CASE o.chain.before
        <5>1. rife'.before /\ rife'.size = o.start
          BY <2>2, <3>6, <4>1
        <5> QED BY <3>5, <3>6, <5>1 DEF Between, RifeFirst
      <4>2. CASE ~ o.chain.before
        <5>1. ~ rife'.before /\ rife'.size = o.end
          BY <2>2, <3>6, <4>2
        <5> QED BY <3>2, <5>1 DEF Between, RifeFirst
      <4> QED BY <4>1, <4>2
    <3> QED BY <3>3, <3>4, <3>6, <3>2 DEF SizesSound
  <2> QED BY <2>3, <2>4, <2>5
<1>3. CASE trouble # "none"
  <2>1. Answer("error")
    BY <1>3 DEF Activate
  <2>2. cfg'.ans = "error"
    BY <2>1 DEF Answer
  <2> QED BY <2>2 DEF SizesSound
<1> QED BY <1>2, <1>3

LEMMA ActivateBuffers ==
    ASSUME ProfilesTyped, source' \in Sizes, NEW o,
           OutlineSound(o, source'),
           NEW trouble \in Troubles, Activate(o, trouble)
    PROVE  BuffersSound'
<1>1. /\ o.start \in Nat \X Nat
      /\ HalfAtFirst(o.typed) = HalfAtFirst(o.steps)
      /\ Need(o) \in Nat
      /\ PictureBytes(source', HalfAtFirst(o.steps)) \in 0..Need(o)
      /\ \A i \in DOMAIN o.typed :
           PictureBytes(o.typed[i].to, o.typed[i].out16) \in 0..Need(o)
  BY DEF OutlineSound, Dims
<1> DEFINE started == /\ cfg' = [ans |-> "active", in |-> o.start,
                               out |-> o.end, steps |-> o.typed]
                      /\ buffers' = Need(o) /\ ~ Mixed(o.typed)
<1>4. \/ started
      \/ buffers' = 0 /\ \E ans \in {"error", "passthrough"} : Answer(ans)
  <2>1. \/ Answer("error") /\ buffers' = 0
        \/ Answer("passthrough") /\ buffers' = 0
        \/ started
    BY Zenon DEF Activate
  <2> HIDE DEF started
  <2> QED BY <2>1
<1>2. CASE started
  <2>1. cfg'.ans = "active" /\ buffers' = Need(o) /\ ~ Mixed(o.typed)
    BY <1>2
  <2>2. cfg'.in = o.start /\ cfg'.steps = o.typed
    BY <1>2
  <2> HIDE DEF started
  <2> QED BY <1>1, <2>1, <2>2 DEF BuffersSound
<1>3. CASE buffers' = 0 /\ \E ans \in {"error", "passthrough"} : Answer(ans)
  <2>1. cfg'.ans # "active"
    BY <1>3 DEF Answer
  <2> QED BY <1>3, <2>1 DEF BuffersSound
<1> QED BY <1>2, <1>3, <1>4

LEMMA ConfigureFits ==
    ASSUME ProfilesTyped, Configure
    PROVE  SizesSound' /\ BuffersSound' /\ faults' = {}
<1>1. source' \in Sizes /\ faults' = {}
  BY DEF Configure, TearDown
<1>2. PICK slot \in Slots : \E o \in Outlines[slot][source'] :
         IF o = <<>>
         THEN Answer("passthrough") /\ hoist' = <<>> /\ rife' = RifeOff
                /\ buffers' = 0
         ELSE \E trouble \in Troubles : Activate(o[1], trouble)
  BY DEF Configure
<1>3. PICK o \in Outlines[slot][source'] :
         IF o = <<>>
         THEN Answer("passthrough") /\ hoist' = <<>> /\ rife' = RifeOff
                /\ buffers' = 0
         ELSE \E trouble \in Troubles : Activate(o[1], trouble)
  BY <1>2
<1>4. CASE o = <<>>
  BY <1>1, <1>3, <1>4
     DEF Answer, RifeOff, SizesSound, BuffersSound
<1>5. CASE o # <<>>
  <2>1. OutlineSound(o[1], source')
    BY <1>1, <1>5, OutlinesSound
  <2>2. PICK trouble \in Troubles : Activate(o[1], trouble)
    BY <1>3, <1>5
  <2> QED BY <1>1, <2>1, <2>2, ActivateSizes, ActivateBuffers
<1> QED BY <1>4, <1>5

(* A picture of no more points takes no more bytes. *)
LEMMA SmallerFits ==
    ASSUME NEW s \in Nat \X Nat, NEW t \in Nat \X Nat, NEW half,
           Area(t) <= Area(s)
    PROVE  /\ PictureBytes(t, half) <= PictureBytes(s, half)
           /\ PictureBytes(t, TRUE) <= PictureBytes(s, half)
<1> DEFINE a == Area(s)
           b == Area(t)
           p == PictureBytes(s, half)
           q == PictureBytes(t, half)
           r == PictureBytes(t, TRUE)
<1>1. /\ a \in Nat /\ b \in Nat /\ b <= a /\ r = 6 * b
      /\ p = IF half THEN 6 * a ELSE 12 * a
      /\ q = IF half THEN 6 * b ELSE 12 * b
  BY PictureTyped
<1> HIDE DEF a, b, p, q, r
<1>2. CASE half
  <2>1. p = 6 * a /\ q = 6 * b
    BY <1>1, <1>2
  <2>2. q <= p /\ r <= p
    BY <1>1, <2>1
  <2> QED BY <2>2 DEF p, q, r
<1>3. CASE ~ half
  <2>1. p = 12 * a /\ q = 12 * b
    BY <1>1, <1>3
  <2>2. q <= p /\ r <= p
    BY <1>1, <2>1
  <2> QED BY <2>2 DEF p, q, r
<1> QED BY <1>2, <1>3

(* What the pictures of a frame do to the buffers. *)
LEMMA ChainFits ==
    ASSUME ProfilesTyped, SizesSound, BuffersSound, cfg.ans = "active"
    PROVE  ChainFaults \subseteq (IF Enlarges THEN {"overrun"} ELSE {})
<1>1. /\ buffers \in Nat /\ source \in Sizes /\ cfg.in \in Nat \X Nat
      /\ PictureBytes(source, HalfAtFirst(cfg.steps)) \in 0..buffers
      /\ \A i \in DOMAIN cfg.steps :
           PictureBytes(cfg.steps[i].to, cfg.steps[i].out16) \in 0..buffers
      /\ ~ Mixed(cfg.steps)
  BY DEF BuffersSound
<1>2. source \in Nat \X Nat
  BY <1>1 DEF ProfilesTyped, Positive
<1>3. CASE Enlarges
  BY <1>1, <1>3 DEF ChainFaults
<1>4. CASE ~ Enlarges
  <2>1. Area(cfg.in) <= Area(source)
    <3>1. Area(source) \in Nat /\ Area(cfg.in) \in Nat
      BY <1>1, <1>2, PictureTyped
    <3>2. cfg.in = IF hoist # <<>> THEN hoist[2] ELSE source
      BY DEF SizesSound
    <3>3. hoist # <<>> => ~ (Area(hoist[2]) > Area(source))
      BY <1>4 DEF Enlarges
    <3> QED BY <3>1, <3>2, <3>3
  <2> DEFINE half == HalfAtFirst(cfg.steps)
             a == PictureBytes(cfg.in, half)
             b == PictureBytes(source, half)
  <2>2. a <= b
    BY <1>1, <1>2, <2>1, SmallerFits
  <2>3. a \in Nat /\ b \in Nat
    BY <1>1, <1>2, PictureTyped
  <2>4. b <= buffers
    BY <1>1
  <2> HIDE DEF a, b
  <2>5. ~ (a > buffers)
    BY <1>1, <2>2, <2>3, <2>4
  <2>6. \A i \in DOMAIN cfg.steps :
           ~ (PictureBytes(cfg.steps[i].to, cfg.steps[i].out16) > buffers)
    <3> SUFFICES ASSUME NEW i \in DOMAIN cfg.steps,
                        PictureBytes(cfg.steps[i].to, cfg.steps[i].out16)
                            > buffers
                 PROVE  FALSE
      OBVIOUS
    <3> DEFINE v == PictureBytes(cfg.steps[i].to, cfg.steps[i].out16)
    <3>1. v \in 0..buffers /\ v > buffers
      BY <1>1
    <3> HIDE DEF v
    <3> QED BY <1>1, <3>1
  <2> QED BY <1>1, <2>5, <2>6 DEF ChainFaults, a
<1> QED BY <1>3, <1>4

LEMMA ResizeFits ==
    ASSUME ProfilesTyped, SizesSound, BuffersSound, cfg.ans = "active",
           hoist # <<>>
    PROVE  ResizeFaults \subseteq (IF Enlarges THEN {"overrun"} ELSE {})
<1>1. /\ buffers \in Nat /\ source \in Sizes /\ cfg.in \in Nat \X Nat
      /\ PictureBytes(source, HalfAtFirst(cfg.steps)) \in 0..buffers
  BY DEF BuffersSound
<1>2. source \in Nat \X Nat
  BY <1>1 DEF ProfilesTyped, Positive
<1>3. CASE Enlarges
  BY <1>3 DEF ResizeFaults
<1>4. CASE ~ Enlarges
  <2>1. hoist[2] \in Nat \X Nat
    BY <1>1 DEF SizesSound
  <2>2. Area(source) \in Nat /\ Area(hoist[2]) \in Nat
    BY <1>2, <2>1, PictureTyped
  <2>3. Area(hoist[2]) <= Area(source) /\ Area(source) <= Area(source)
    BY <1>4, <2>2 DEF Enlarges
  <2> DEFINE half == HalfAtFirst(cfg.steps)
             a == PictureBytes(hoist[2], TRUE)
             b == PictureBytes(source, TRUE)
             c == PictureBytes(source, half)
  <2>4. a <= c /\ b <= c
    BY <1>2, <2>1, <2>3, SmallerFits
  <2>5. a \in Nat /\ b \in Nat /\ c \in Nat
    BY <1>2, <2>1, PictureTyped
  <2>6. c <= buffers
    BY <1>1
  <2> HIDE DEF a, b, c
  <2>7. ~ (a > buffers) /\ ~ (b > buffers)
    BY <1>1, <2>4, <2>5, <2>6
  <2> QED BY <2>7 DEF ResizeFaults, a, b
<1> QED BY <1>3, <1>4

LEMMA FrameSize ==
    ASSUME NEW size, NEW in \in Frame(size)
    PROVE  in.size = size
BY DEF Frame

(* What else a call may do wrong is not about pictures. *)
LEMMA PipelinedFits ==
    ASSUME NEW c, NEW in, NEW outSize, NEW hurts,
           hurts \subseteq (IF Enlarges THEN {"overrun"} ELSE {}),
           Pipelined(c, in, outSize, hurts)
    PROVE  /\ faults' \cap {"wrong type", "refused"} = {}
           /\ "overrun" \in faults' => Enlarges
<1> DEFINE others == {"wrong staging", "leftover staging", "wrong plan",
                      "stale texture"}
<1>1. \A x, y, z : StagingFaults(x, y, z) \subseteq others
  BY DEF StagingFaults
<1>2. \A x, y, z : PlanFaults(x, y, z) \subseteq others
  BY DEF PlanFaults
<1>3. \E A, B : /\ A \subseteq others
                /\ B \subseteq hurts
                /\ faults' = A \cup B
  <2>1. PICK luck \in Lucks, tex \in SUBSET Textures \ {{}} :
          LET new == Prepared(caches[Own(c)], in, outSize, luck)
          IN faults' =
                IF luck \notin {"midway", "fine"} THEN {}
                ELSE StagingFaults(Own(c), new.stage,
                                   Staging(in, outSize))
                       \cup PlanFaults(new, in, outSize)
                       \cup (IF tex \cap stale # {} THEN {"stale texture"}
                             ELSE {})
                       \cup hurts
    BY DEF Pipelined
  <2>2. CASE luck \notin {"midway", "fine"}
    <3>1. faults' = {} \cup {}
      BY <2>1, <2>2
    <3> QED BY <3>1
  <2>3. CASE luck \in {"midway", "fine"}
    <3> DEFINE new == Prepared(caches[Own(c)], in, outSize, luck)
               A == StagingFaults(Own(c), new.stage, Staging(in, outSize))
                      \cup PlanFaults(new, in, outSize)
                      \cup (IF tex \cap stale # {} THEN {"stale texture"}
                            ELSE {})
    <3>1. faults' = A \cup hurts
      BY <2>1, <2>3
    <3>2. A \subseteq others
      BY <1>1, <1>2
    <3> HIDE DEF A
    <3> QED BY <3>1, <3>2
  <2> QED BY <2>2, <2>3
<1> QED BY <1>3

LEMMA RifeFits ==
    ASSUME NEW format, InferRifeOf(format)
    PROVE  faults' \cap {"wrong type", "refused", "overrun"} = {}
BY DEF InferRifeOf, StagingFaults

FitInv == SizesSound /\ BuffersSound /\ PicturesFit

LEMMA KeptFits ==
    ASSUME FitInv, UNCHANGED <<source, cfg, hoist, rife, buffers>>,
           /\ faults' \cap {"wrong type", "refused"} = {}
           /\ "overrun" \in faults' => Enlarges
    PROVE  FitInv'
<1>1. SizesSound'
  BY DEF FitInv, SizesSound, RifeFirst, Between, Sent, Shrinks
<1>2. BuffersSound'
  BY DEF FitInv, BuffersSound
<1>3. PicturesFit'
  BY DEF PicturesFit, Enlarges
<1> QED BY <1>1, <1>2, <1>3 DEF FitInv

LEMMA NextFits ==
    ASSUME ProfilesTyped, FitInv, ChainNext
    PROVE  FitInv'
<1>1. CASE Configure
  BY <1>1, ConfigureFits DEF FitInv, PicturesFit
<1>2. CASE Infer
  <2>1. cfg.ans = "active" /\ UNCHANGED <<source, cfg, hoist, rife, buffers>>
    BY <1>2 DEF Infer
  <2>2. PICK in \in Frame(Sent) :
          IF in.size # cfg.in THEN Refuses
          ELSE Pipelined("infer", in, cfg.out, ChainFaults)
    BY <1>2 DEF Infer
  <2>3. in.size = cfg.in
    BY <2>1, FrameSize DEF FitInv, SizesSound, Sent, Shrinks
  <2>4. Pipelined("infer", in, cfg.out, ChainFaults)
    BY <2>2, <2>3
  <2>5. ChainFaults \subseteq (IF Enlarges THEN {"overrun"} ELSE {})
    BY <2>1, ChainFits DEF FitInv
  <2> QED BY <2>1, <2>4, <2>5, PipelinedFits, KeptFits
<1>3. CASE Resize
  <2>1. /\ cfg.ans = "active" /\ hoist # <<>>
        /\ UNCHANGED <<source, cfg, hoist, rife, buffers>>
    BY <1>3 DEF Resize, Shrinks
  <2>2. PICK in \in Frame(source) :
          Pipelined("resize", in, hoist[2], ResizeFaults)
    BY <1>3 DEF Resize
  <2>3. ResizeFaults \subseteq (IF Enlarges THEN {"overrun"} ELSE {})
    BY <2>1, ResizeFits DEF FitInv
  <2> QED BY <2>1, <2>2, <2>3, PipelinedFits, KeptFits
<1>4. CASE InferRife
  <2>1. /\ cfg.ans \in {"active", "passthrough"} /\ rife.on
        /\ UNCHANGED <<source, cfg, hoist, rife, buffers>>
    BY <1>4 DEF InferRife
  <2>2. Between = rife.size
    BY <2>1 DEF FitInv, SizesSound
  <2>3. PICK format \in Formats : InferRifeOf(format)
    BY <1>4, <2>2 DEF InferRife
  <2> QED BY <2>1, <2>3, RifeFits, KeptFits
<1>5. CASE GpuFinishes
  <2>1. faults' = {} /\ UNCHANGED <<source, cfg, hoist, rife, buffers>>
    BY <1>5 DEF GpuFinishes
  <2> QED BY <2>1, KeptFits
<1> QED BY <1>1, <1>2, <1>3, <1>4, <1>5 DEF ChainNext

LEMMA FitInvariance == ASSUME ProfilesTyped PROVE ChainSpec => []FitInv
<1>1. ChainInit => FitInv
  <2> SUFFICES ASSUME ChainInit PROVE FitInv
    OBVIOUS
  <2>1. cfg.ans = "none" /\ buffers = 0 /\ faults = {} /\ ~ rife.on
    BY DEF ChainInit, RifeOff
  <2> QED BY <2>1 DEF FitInv, SizesSound, BuffersSound, PicturesFit
<1>2. FitInv /\ [ChainNext]_chainVars => FitInv'
  <2>1. ASSUME FitInv, UNCHANGED chainVars PROVE FitInv'
    <3>1. UNCHANGED <<source, cfg, hoist, rife, buffers, faults>>
      BY <2>1 DEF chainVars
    <3> QED BY <2>1, <3>1, KeptFits DEF FitInv, PicturesFit
  <2> QED BY <2>1, NextFits
<1> QED BY <1>1, <1>2, PTL DEF ChainSpec

(***************************************************************************)
(* Every picture fits where it goes, unless a resize before RIFE enlarges. *)
(***************************************************************************)
THEOREM PicturesAlwaysFit ==
    ASSUME ProfilesTyped
    PROVE  ChainSpec => []PicturesFit
<1>1. FitInv => PicturesFit
  BY DEF FitInv
<1> QED BY <1>1, FitInvariance, PTL

-----------------------------------------------------------------------------
(***************************************************************************)
(* The types of the chain.                                                 *)
(***************************************************************************)
CacheTyped(cache) ==
    /\ cache.pre = Null \/ cache.pre.format \in Formats
    /\ cache.stageKey = Null \/ cache.stage # Null

LEMMA TornIsNotNull == Torn # Null
<1>1. Torn.what = "torn" /\ Null.what = "null"
  BY DEF Torn, Null
<1> QED BY <1>1

LEMMA PreparedTyped ==
    ASSUME NEW cache, Shaped(cache), CacheTyped(cache),
           NEW in, in.format \in Formats, NEW outSize, NEW luck \in Lucks
    PROVE  CacheTyped(Prepared(cache, in, outSize, luck))
<1> DEFINE new == Prepared(cache, in, outSize, luck)
           key == [format |-> in.format, in |-> in.size]
<1>1. /\ cache.stageKey = key => new.stageKey = key
                                 /\ new.stage = cache.stage
      /\ cache.stageKey # key /\ luck = "stage" =>
           new.stageKey = cache.stageKey /\ new.stage = Torn
      /\ cache.stageKey # key /\ luck # "stage" =>
           new.stageKey = key /\ new.stage = Staging(in, outSize)
  BY PreparedStage
<1>2. \/ new.pre = cache.pre
      \/ \E same, fails : new.pre = Renewed(cache.pre, in, same, fails)
  <2>1. CASE luck = "stage"
    BY <2>1 DEF Prepared
  <2>2. CASE luck # "stage"
    BY <2>2, Zenon DEF Prepared
  <2> QED BY <2>1, <2>2
<1>3. Staging(in, outSize) # Null
  BY KeyIs
<1> HIDE DEF new, key
<1>4. new.pre \in {cache.pre, Null, in}
  BY <1>2 DEF Renewed
<1>5. new.stageKey = Null \/ new.stage # Null
  BY <1>1, <1>3, TornIsNotNull DEF CacheTyped
<1> QED BY <1>4, <1>5 DEF CacheTyped, new

(* What the calls do to what is shared, and to the count of failures.      *)
KeptTyped ==
    /\ shared \subseteq shared' /\ shared' \subseteq Textures
    /\ failures' \in 0..MaxFailures

LEMMA CallTyped ==
    ASSUME shared \subseteq Textures, failures \in 0..MaxFailures,
           NEW luck, NEW met, NEW tex \in SUBSET Textures,
           Counts(luck), Opens(tex, met)
    PROVE  KeptTyped
<1>1. failures' \in Nat /\ failures' <= MaxFailures
  BY DEF Counts
<1>2. failures' \in 0..MaxFailures
  BY <1>1, DmlAssumption DEF DmlAssumption
<1> QED BY <1>2 DEF KeptTyped, Opens

LEMMA PipelinedTyped ==
    ASSUME shared \subseteq Textures, failures \in 0..MaxFailures,
           NEW c \in {"infer", "resize"},
           Shaped(caches[c]), CacheTyped(caches[c]),
           NEW in, in.format \in Formats, NEW outSize, NEW hurts,
           Pipelined(c, in, outSize, hurts)
    PROVE  /\ \E new : /\ CacheTyped(new)
                       /\ caches' = [caches EXCEPT ![c] = new]
           /\ KeptTyped
<1>1. PICK luck \in Lucks, tex \in SUBSET Textures \ {{}} :
        /\ Counts(luck) /\ Opens(tex, luck)
        /\ caches' = [caches EXCEPT ![c] =
                        Prepared(caches[c], in, outSize, luck)]
  BY DEF Pipelined, Own
<1>2. CacheTyped(Prepared(caches[c], in, outSize, luck))
  BY PreparedTyped
<1>3. KeptTyped
  BY <1>1, CallTyped
<1> QED BY <1>1, <1>2, <1>3

LEMMA RifeTyped ==
    ASSUME shared \subseteq Textures, failures \in 0..MaxFailures,
           Shaped(caches["rife"]), CacheTyped(caches["rife"]),
           NEW format, InferRifeOf(format)
    PROVE  /\ \E new : /\ CacheTyped(new)
                       /\ caches' = [caches EXCEPT !["rife"] = new]
           /\ KeptTyped
<1>1. PICK luck \in RifeLucks, tex \in SUBSET Textures \ {{}} :
        /\ Counts(luck)
        /\ Opens(tex, IF luck = "fill" THEN "stage" ELSE luck)
        /\ caches' = [caches EXCEPT !["rife"] =
                        RifeRestaged(caches["rife"], RifeStaging(format),
                                     luck)]
  BY DEF InferRifeOf
<1> DEFINE cache == caches["rife"]
           want == RifeStaging(format)
           new == RifeRestaged(cache, want, luck)
<1>2. want # Null
  BY RifeStagingIs
<1>3. \/ new.stageKey = cache.stageKey /\ new.stage = cache.stage
      \/ new.stageKey = Null \/ new.stage = want
  BY RifeRestagedIs
<1>4. new.pre = cache.pre
  BY DEF RifeRestaged, Noted
<1>5. KeptTyped
  BY <1>1, CallTyped
<1> HIDE DEF new, want
<1>6. CacheTyped(new)
  BY <1>2, <1>3, <1>4 DEF CacheTyped
<1> QED BY <1>1, <1>5, <1>6 DEF new, want

(* The types of what aji_configure answers. *)
LEMMA ConfigureTyped ==
    ASSUME Configure
    PROVE  cfg'.ans \in {"active", "passthrough", "error"}
<1>1. PICK slot \in Slots : \E o \in Outlines[slot][source'] :
         IF o = <<>>
         THEN Answer("passthrough") /\ hoist' = <<>> /\ rife' = RifeOff
                /\ buffers' = 0
         ELSE \E trouble \in Troubles : Activate(o[1], trouble)
  BY DEF Configure
<1>2. PICK o \in Outlines[slot][source'] :
         IF o = <<>>
         THEN Answer("passthrough") /\ hoist' = <<>> /\ rife' = RifeOff
                /\ buffers' = 0
         ELSE \E trouble \in Troubles : Activate(o[1], trouble)
  BY <1>1
<1>3. CASE o = <<>>
  BY <1>2, <1>3 DEF Answer
<1>4. CASE o # <<>>
  <2>1. PICK trouble \in Troubles : Activate(o[1], trouble)
    BY <1>2, <1>4
  <2>2. \/ Answer("error") \/ Answer("passthrough")
        \/ cfg' = [ans |-> "active", in |-> o[1].start,
                   out |-> o[1].end, steps |-> o[1].typed]
    BY <2>1, Zenon DEF Activate
  <2> QED BY <2>2 DEF Answer
<1> QED BY <1>3, <1>4

(* An active chain has buffers: the video has pictures. *)
LEMMA BuffersTyped ==
    ASSUME ProfilesTyped, BuffersSound
    PROVE  buffers \in Nat /\ (cfg.ans = "active" => buffers > 0)
<1> SUFFICES ASSUME cfg.ans = "active" PROVE buffers > 0
  BY DEF BuffersSound
<1> DEFINE p == PictureBytes(source, HalfAtFirst(cfg.steps))
           a == Area(source)
<1>1. buffers \in Nat /\ p \in 0..buffers /\ source \in Sizes
  BY DEF BuffersSound
<1>2. /\ source[1] \in Nat /\ source[2] \in Nat
      /\ source[1] > 0 /\ source[2] > 0 /\ source \in Nat \X Nat
  BY <1>1 DEF ProfilesTyped, Positive
<1>3. a \in Nat /\ a > 0
  BY <1>2 DEF Area
<1>4. p = 6 * a \/ p = 12 * a
  BY <1>2, PictureTyped
<1> HIDE DEF p, a
<1> QED BY <1>1, <1>3, <1>4

(* What ChainTypeOK says beyond the other invariants. *)
Typing ==
    /\ source \in Sizes \cup {<<0, 0>>}
    /\ cfg.ans \in {"none", "active", "passthrough", "error"}
    /\ \A c \in Calls : CacheTyped(caches[c])
    /\ shared \subseteq Textures /\ failures \in 0..MaxFailures
    /\ stale \subseteq shared

LEMMA KeptTyping ==
    ASSUME Typing, DOMAIN caches = Calls,
           UNCHANGED <<source, cfg, stale>>, KeptTyped,
           \/ caches' = caches
           \/ \E c \in Calls : \E new :
                /\ CacheTyped(new)
                /\ caches' = [caches EXCEPT ![c] = new]
    PROVE  Typing'
<1>1. \A c \in Calls : CacheTyped(caches'[c])
  BY DEF Typing
<1>2. \A c \in Calls : CacheTyped(caches[c])'
  BY <1>1 DEF CacheTyped
<1> QED BY <1>2 DEF Typing, KeptTyped

LEMMA NextTyping ==
    ASSUME ChainIInv, Typing, ChainNext
    PROVE  Typing'
<1>1. /\ DOMAIN caches = Calls
      /\ \A c \in Calls : Shaped(caches[c]) /\ CacheTyped(caches[c])
      /\ shared \subseteq Textures /\ failures \in 0..MaxFailures
      /\ stale \subseteq shared
      /\ {"infer", "resize", "rife"} \subseteq Calls
  BY DEF ChainIInv, StagingSound, Typing, Calls, Shaped
<1>2. UNCHANGED <<shared, failures>> => KeptTyped
  BY <1>1 DEF KeptTyped
<1>3. CASE Configure
  <2>1. source' \in Sizes /\ TearDown
    BY <1>3 DEF Configure
  <2>2. /\ \A c \in Calls : caches'[c] = NoCaches
        /\ shared' = {} /\ failures' = 0 /\ stale' \subseteq shared'
    BY <2>1 DEF TearDown, TornDown, Forgotten
  <2>3. NoCaches.pre = Null /\ NoCaches.stageKey = Null
    BY DEF NoCaches
  <2>4. \A c \in Calls : CacheTyped(caches[c])'
    BY <2>2, <2>3 DEF CacheTyped
  <2>5. failures' \in 0..MaxFailures
    BY <2>2, DmlAssumption DEF DmlAssumption
  <2> QED BY <1>3, <2>1, <2>2, <2>4, <2>5, ConfigureTyped DEF Typing
<1>4. CASE Infer
  <2>1. UNCHANGED <<source, cfg, stale>>
    BY <1>4 DEF Infer
  <2>2. PICK in \in Frame(Sent) :
          IF in.size # cfg.in THEN Refuses
          ELSE Pipelined("infer", in, cfg.out, ChainFaults)
    BY <1>4 DEF Infer
  <2>3. CASE Refuses
    BY <1>1, <1>2, <2>1, <2>3, KeptTyping DEF Refuses
  <2>4. CASE Pipelined("infer", in, cfg.out, ChainFaults)
    <3>1. in.format \in Formats
      BY FrameIs
    <3> QED BY <1>1, <2>1, <2>4, <3>1, PipelinedTyped, KeptTyping
  <2> QED BY <2>2, <2>3, <2>4
<1>5. CASE Resize
  <2>1. UNCHANGED <<source, cfg, stale>>
    BY <1>5 DEF Resize
  <2>2. PICK in \in Frame(source) :
          Pipelined("resize", in, hoist[2], ResizeFaults)
    BY <1>5 DEF Resize
  <2>3. in.format \in Formats
    BY FrameIs
  <2> QED BY <1>1, <2>1, <2>2, <2>3, PipelinedTyped, KeptTyping
<1>6. CASE InferRife
  <2>1. UNCHANGED <<source, cfg, stale>>
    BY <1>6 DEF InferRife
  <2>2. CASE Refuses
    BY <1>1, <1>2, <2>1, <2>2, KeptTyping DEF Refuses
  <2>3. CASE \E format \in Formats : InferRifeOf(format)
    BY <1>1, <2>1, <2>3, RifeTyped, KeptTyping
  <2> QED BY <1>6, <2>2, <2>3 DEF InferRife
<1>7. CASE GpuFinishes
  <2>1. UNCHANGED <<source, cfg, stale, caches, shared, failures>>
    BY <1>7 DEF GpuFinishes
  <2> QED BY <1>1, <1>2, <2>1, KeptTyping
<1> QED BY <1>3, <1>4, <1>5, <1>6, <1>7 DEF ChainNext

(***************************************************************************)
(* The types of the chain; the largest of its buffers is not empty.        *)
(***************************************************************************)
THEOREM ChainTypeCorrect ==
    ASSUME ProfilesTyped
    PROVE  ChainSpec => []ChainTypeOK
<1>1. ChainInit => Typing
  <2> SUFFICES ASSUME ChainInit PROVE Typing
    OBVIOUS
  <2>1. \A c \in Calls : caches[c] = NoCaches
    BY DEF ChainInit
  <2>2. NoCaches.pre = Null /\ NoCaches.stageKey = Null
    BY DEF NoCaches
  <2>3. 0 \in 0..MaxFailures
    BY DmlAssumption DEF DmlAssumption
  <2> QED BY <2>1, <2>2, <2>3 DEF ChainInit, Typing, CacheTyped
<1>2. ChainIInv /\ Typing /\ [ChainNext]_chainVars => Typing'
  <2>1. ASSUME Typing, UNCHANGED chainVars PROVE Typing'
    BY <2>1 DEF Typing, chainVars, CacheTyped
  <2> QED BY <2>1, NextTyping
<1>3. ChainIInv /\ FitInv /\ Typing => ChainTypeOK
  BY BuffersTyped DEF ChainIInv, FitInv, Typing, CacheTyped, ChainTypeOK
<1> QED BY <1>1, <1>2, <1>3, ChainInvariance, FitInvariance, PTL DEF ChainSpec
=============================================================================
