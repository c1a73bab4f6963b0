--------------------------- MODULE TrtBuild_proofs ---------------------------
(***************************************************************************)
(* Proofs about the background engine builds of the TensorRT backend, for  *)
(* any engines and chains and any number of builds, configures and deaths  *)
(* of the player.                                                          *)
(***************************************************************************)
EXTENDS TrtBuild, SequenceTheorems, TLAPS

Process == [makes : Engines, file : 0..MaxProcs,
            phase : {"started", "opened", "writing", "succeeded", "failed"}]

(* What a step may do to the processes. *)
LEMMA SetProcess ==
    ASSUME TypeOK, NEW p \in DOMAIN procs, NEW r \in Process,
           procs' = [procs EXCEPT ![p] = r]
    PROVE  /\ procs' \in Seq(Process) /\ Len(procs') = Len(procs)
           /\ DOMAIN procs' = DOMAIN procs
           /\ \A q \in DOMAIN procs :
                procs'[q] = IF q = p THEN r ELSE procs[q]
<1>1. procs \in Seq(Process)
  BY DEF TypeOK, Process
<1> QED BY <1>1, ExceptSeq, LenProperties

LEMMA TrtexecSteps ==
    ASSUME TypeOK, NEW p \in DOMAIN procs, Trtexec(p)
    PROVE  /\ procs' \in Seq(Process) /\ Len(procs') = Len(procs)
           /\ DOMAIN procs' = DOMAIN procs
           /\ \A q \in DOMAIN procs \ {p} : procs'[q] = procs[q]
           /\ Alive(p) /\ procs'[p].phase # "started"
           /\ procs'[p].makes = procs[p].makes
           /\ UNCHANGED <<workVars, atomics, epath, failed, planVars,
                          callerVars, cache>>
<1>0. /\ procs \in Seq(Process) /\ procs[p] \in Process
      /\ Len(procs) <= MaxProcs /\ Len(procs) \in Nat
      /\ p \in 1..Len(procs)
  BY LenProperties, ElementOfSeq DEF TypeOK, Process
<1> DEFINE F(r) == /\ r \in Process /\ r.phase # "started"
                   /\ r.makes = procs[p].makes
                   /\ procs' = [procs EXCEPT ![p] = r]
<1>1. CASE Opens(p)
  <2> DEFINE f == IF building[procs[p].makes] = NoFile THEN p
                  ELSE building[procs[p].makes]
             r == [procs[p] EXCEPT !.phase = "opened", !.file = f]
  <2>1. procs[p].makes \in Engines /\ p \in 0..MaxProcs
    BY <1>0, ChainsAssumption DEF Process
  <2>2. f \in 0..MaxProcs
    BY <2>1 DEF TypeOK
  <2>3. F(r)
    BY <1>0, <1>1, <2>2 DEF Opens, Process
  <2> QED BY <1>1, <2>3, SetProcess DEF Opens, Alive
<1>2. ASSUME NEW from \in {"opened", "writing"}, NEW part,
             NEW to \in {"writing", "succeeded"}, Writes(p, from, part, to)
      PROVE  /\ F([procs[p] EXCEPT !.phase = to]) /\ Alive(p)
             /\ UNCHANGED <<workVars, atomics, epath, failed, planVars,
                            callerVars, cache>>
  BY <1>0, <1>2 DEF Writes, Process, Alive, fileVars
<1>3. CASE \/ Writes(p, "opened", "head", "writing")
           \/ Writes(p, "writing", "tail", "succeeded")
  BY <1>2, <1>3, SetProcess
<1>4. CASE Fails(p)
  <2>1. F([procs[p] EXCEPT !.phase = "failed"])
    BY <1>0, <1>4 DEF Fails, Process
  <2> QED BY <1>4, <2>1, SetProcess DEF Fails, fileVars
<1> QED BY <1>1, <1>3, <1>4 DEF Trtexec

LEMMA SpawnSteps ==
    ASSUME TypeOK, Spawn
    PROVE  \/ /\ Len(procs') = Len(procs) + 1 /\ Len(procs) < MaxProcs
              /\ procs' \in Seq(Process)
              /\ DOMAIN procs' = DOMAIN procs \cup {Len(procs) + 1}
              /\ Len(procs) + 1 \notin DOMAIN procs
              /\ \A q \in DOMAIN procs : procs'[q] = procs[q]
              /\ procs'[Len(procs) + 1].phase = "started"
              /\ procs'[Len(procs) + 1].makes \in epath
              /\ kid' = Len(procs) + 1 /\ thread' = "store"
           \/ /\ UNCHANGED procs /\ kid' = NoProc /\ thread' = "finish"
<1>1. procs \in Seq(Process) /\ Len(procs) \in Nat
      /\ DOMAIN procs = 1..Len(procs)
  BY LenProperties DEF TypeOK, Process
<1>2. ASSUME NEW e \in epath, Len(procs) < MaxProcs,
             procs' = Append(procs, [makes |-> e, phase |-> "started",
                                     file |-> NoFile])
      PROVE  /\ procs' \in Seq(Process)
             /\ Len(procs') = Len(procs) + 1
             /\ DOMAIN procs' = 1..(Len(procs) + 1)
             /\ \A q \in 1..Len(procs) : procs'[q] = procs[q]
             /\ procs'[Len(procs) + 1].phase = "started"
             /\ procs'[Len(procs) + 1].makes = e
  <2> DEFINE r == [makes |-> e, phase |-> "started", file |-> NoFile]
  <2>1. r \in Process
    BY <1>2, ChainsAssumption DEF TypeOK, Process, NoFile
  <2> QED BY <1>1, <1>2, <2>1, AppendProperties, LenProperties
<1>3. 1..(Len(procs) + 1) = 1..Len(procs) \cup {Len(procs) + 1}
  BY <1>1
<1>4. CASE thread' = "store" /\ kid' = Len(procs) + 1
  <2>1. PICK e \in epath :
            /\ Len(procs) < MaxProcs
            /\ procs' = Append(procs, [makes |-> e, phase |-> "started",
                                       file |-> NoFile])
    BY <1>4 DEF Spawn
  <2> QED BY <1>1, <1>2, <1>3, <1>4, <2>1
<1> QED BY <1>4 DEF Spawn

LEMMA KillSteps ==
    ASSUME TypeOK, Kill
    PROVE  /\ procs' \in Seq(Process) /\ Len(procs') = Len(procs)
           /\ DOMAIN procs' = DOMAIN procs
           /\ \A q \in DOMAIN procs :
                \/ procs'[q] = procs[q]
                \/ /\ Alive(q) /\ procs'[q].phase = "failed"
                   /\ procs'[q].makes = procs[q].makes
<1>0. procs \in Seq(Process)
  BY DEF TypeOK, Process
<1>1. /\ Len(procs) \in Nat
      /\ DOMAIN procs = 1..Len(procs)
      /\ \A q \in DOMAIN procs : procs[q] \in Process
  BY <1>0, LenProperties, ElementOfSeq
<1>2. procs' \in [1..Len(procs) -> Process]
  BY <1>1 DEF Kill, Process
<1>3. procs' \in Seq(Process)
  BY <1>1, <1>2, SeqDef
<1>4. DOMAIN procs' = DOMAIN procs /\ Len(procs') = Len(procs)
  BY <1>1, <1>2, <1>3, LenProperties
<1>5. \A q \in DOMAIN procs :
          \/ procs'[q] = procs[q]
          \/ /\ Alive(q) /\ procs'[q].phase = "failed"
             /\ procs'[q].makes = procs[q].makes
  BY <1>1 DEF Kill, Process
<1> QED BY <1>3, <1>4, <1>5

-----------------------------------------------------------------------------
(* Types. *)

LEMMA DueIsAnEngine ==
    ASSUME TypeOK, loaded < Len(want)
    PROVE  Due \in Engines
<1>1. want # << >>
  BY DEF TypeOK
<1>2. want \in Seq(Engines)
  BY <1>1, ChainsAssumption DEF TypeOK
<1>3. loaded + 1 \in 1..Len(want)
  BY <1>2, LenProperties DEF TypeOK
<1> QED BY <1>2, <1>3, ElementOfSeq DEF Due

LEMMA Bounds ==
    /\ MaxProcs \in Nat /\ MaxCalls \in Nat
    /\ \A c \in Chains \cup {<< >>} : Len(c) \in Nat
    /\ Len(<< >>) = 0
<1>1. << >> \in Seq(Engines)
  BY EmptySeq
<1>2. Chains \subseteq Seq(Engines)
  BY ChainsAssumption
<1>3. \A c \in Seq(Engines) : Len(c) \in Nat
  BY LenProperties
<1> QED BY <1>1, <1>2, <1>3, EmptySeq, ChainsAssumption

(* The steps that change processes or files. *)
LEMMA MachineSteps ==
    ASSUME [Next]_vars
    PROVE  \/ \E p \in DOMAIN procs : Trtexec(p)
           \/ Spawn \/ Kill \/ Finish \/ Look
           \/ UNCHANGED <<procVars, fileVars>>
<1> USE DEF vars, callerVars, procVars, fileVars
<1>1. CASE Store \/ Reap \/ Unstore \/ ClearRunning \/ SetFlag
  BY <1>1 DEF Store, Reap, Unstore, Reaped, ClearRunning, SetFlag
<1>2. CASE \/ UserConfigures \/ Reconfigure \/ ConfigureReturns \/ Defers
           \/ Decide \/ Start
  BY <1>2 DEF UserConfigures, Reconfigure, ConfigureCall, ConfigureReturns,
              Defers, Decide, Starts, Start
<1>3. CASE Poll \/ Destroy \/ DestroyReturns \/ Crash \/ Restart
  BY <1>3 DEF Poll, Polls, Destroy, DestroyReturns, Crash, Goes, Restart
<1> QED BY <1>1, <1>2, <1>3 DEF Next, Caller, InCall, Worker

ThreadTypes ==
    /\ thread \in {"none", "spawn", "store", "wait", "unstore", "finish",
                   "clear", "flag", "ended"}
    /\ kid \in 0..Len(procs) /\ child \in {NoProc, kid}
    /\ running \in BOOLEAN /\ doneFlag \in BOOLEAN /\ ok \in BOOLEAN
    /\ epath \in {{}} \cup {{e} : e \in Engines}
    /\ failed \subseteq Engines

CallTypes ==
    /\ want \in Chains \cup {<< >>} /\ loaded \in 0..Len(want)
    /\ refused \subseteq Frail
    /\ up \in BOOLEAN /\ told \in BOOLEAN /\ calls \in 0..MaxCalls
    /\ past \in {"quit", "died", "orphan"}
    /\ call \in {"idle", "look", "decide", "start", "kill", "join", "gone"}
    /\ victim \in 0..Len(procs)

MachineTypes ==
    /\ procs \in Seq(Process) /\ Len(procs) \in 0..MaxProcs
    /\ pieces \in [Procs -> SUBSET (Procs \X {"head", "tail"})]
    /\ building \in [Engines -> 0..MaxProcs]
    /\ cache \in [Engines -> Unusable..MaxProcs]

LEMMA ThreeParts ==
    /\ TypeOK <=> ThreadTypes /\ CallTypes /\ MachineTypes
    /\ TypeOK' <=> ThreadTypes' /\ CallTypes' /\ MachineTypes'
<1>1. \A s \in Seq(Process) :
          Len(s) <= MaxProcs <=> Len(s) \in 0..MaxProcs
  BY LenProperties, Bounds
<1>2. TypeOK <=> ThreadTypes /\ CallTypes /\ MachineTypes
  BY <1>1 DEF TypeOK, ThreadTypes, CallTypes, MachineTypes, Process
<1>3. TypeOK' <=> ThreadTypes' /\ CallTypes' /\ MachineTypes'
  BY <1>1 DEF TypeOK, ThreadTypes, CallTypes, MachineTypes, Process
<1> QED BY <1>2, <1>3

LEMMA MachineInv ==
    ASSUME IInv, [Next]_vars
    PROVE  MachineTypes' /\ Len(procs) \in Nat /\ Len(procs') >= Len(procs)
<1>0. TypeOK /\ MachineTypes
  BY ThreeParts DEF IInv
<1>1. ASSUME NEW p \in DOMAIN procs, Trtexec(p)
      PROVE  MachineTypes'
  <2>1. procs' \in Seq(Process) /\ Len(procs') = Len(procs)
        /\ UNCHANGED cache
    BY <1>0, <1>1, TrtexecSteps
  <2>2. p \in 1..MaxProcs /\ procs[p].makes \in Engines
    <3>1. /\ DOMAIN procs = 1..Len(procs) /\ procs \in Seq(Process)
          /\ Len(procs) \in 0..MaxProcs
      BY <1>0, LenProperties DEF MachineTypes
    <3>2. procs[p] \in Process
      BY <3>1, ElementOfSeq
    <3> QED BY <3>1, <3>2, Bounds DEF Process
  <2>3. CASE Opens(p)
    <3>1. building' \in [Engines -> 0..MaxProcs]
      BY <1>0, <2>2, <2>3, Bounds DEF MachineTypes, Opens
    <3>2. pieces' \in [Procs -> SUBSET (Procs \X {"head", "tail"})]
      BY <1>0, <2>3 DEF MachineTypes, Opens
    <3> QED BY <1>0, <2>1, <3>1, <3>2 DEF MachineTypes
  <2>4. ASSUME NEW from, NEW part \in {"head", "tail"}, NEW to,
               Writes(p, from, part, to)
        PROVE  MachineTypes'
    <3>1. /\ <<p, part>> \in Procs \X {"head", "tail"}
          /\ pieces \in [Procs -> SUBSET (Procs \X {"head", "tail"})]
      BY <1>0, <2>2, <2>4 DEF MachineTypes, Procs
    <3>2. pieces' = [pieces EXCEPT
                        ![procs[p].file] = @ \cup {<<p, part>>}]
      BY <2>4 DEF Writes
    <3>3. pieces' \in [Procs -> SUBSET (Procs \X {"head", "tail"})]
      BY <3>1, <3>2
    <3> QED BY <1>0, <2>1, <2>4, <3>3 DEF MachineTypes, Writes, fileVars
  <2>5. CASE Fails(p)
    BY <1>0, <2>1, <2>5 DEF MachineTypes, Fails, fileVars
  <2> QED BY <1>1, <2>3, <2>4, <2>5 DEF Trtexec
<1>2. ASSUME Spawn
      PROVE  MachineTypes'
  <2>1. procs' \in Seq(Process) /\ Len(procs') \in 0..MaxProcs
    BY <1>0, <1>2, SpawnSteps, Bounds DEF MachineTypes
  <2>2. UNCHANGED <<pieces, building, cache>>
    BY <1>2 DEF Spawn, fileVars
  <2>3. /\ pieces \in [Procs -> SUBSET (Procs \X {"head", "tail"})]
        /\ building \in [Engines -> 0..MaxProcs]
        /\ cache \in [Engines -> Unusable..MaxProcs]
    BY <1>0 DEF MachineTypes
  <2> QED BY <2>1, <2>2, <2>3 DEF MachineTypes
<1>3. ASSUME Kill
      PROVE  MachineTypes'
  BY <1>0, <1>3, KillSteps DEF MachineTypes, Kill, fileVars
<1>4. ASSUME Finish
      PROVE  MachineTypes'
  <2>1. PICK e \in epath : Finishes(e) /\ (Publish(e) \/ Discard(e))
    BY <1>4 DEF Finish
  <2>2. building' \in [Engines -> 0..MaxProcs]
    <3>1. /\ building' = [building EXCEPT ![e] = NoFile]
          /\ NoFile \in 0..MaxProcs
      BY <2>1, Bounds DEF Publish, Discard, NoFile
    <3> QED BY <1>0, <3>1 DEF MachineTypes
  <2>3. \A d \in Engines : building[d] \in Unusable..MaxProcs
    BY <1>0, Bounds DEF MachineTypes, Unusable
  <2>4. cache' \in [Engines -> Unusable..MaxProcs]
    BY <1>0, <2>1, <2>3 DEF MachineTypes, Publish, Discard
  <2>5. UNCHANGED <<procs, pieces>>
    BY <2>1 DEF Finishes, procVars
  <2> QED BY <1>0, <2>2, <2>4, <2>5 DEF MachineTypes
<1>5. ASSUME Look
      PROVE  MachineTypes'
  <2>1. /\ UNCHANGED <<procs, pieces, building>>
        /\ cache' = cache \/ cache' = [cache EXCEPT ![Due] = NoFile]
    BY <1>5 DEF Look, Removed, procVars
  <2>2. NoFile \in Unusable..MaxProcs
    BY Bounds DEF NoFile, Unusable
  <2>3. cache' \in [Engines -> Unusable..MaxProcs]
    BY <1>0, <2>1, <2>2 DEF MachineTypes
  <2> QED BY <1>0, <2>1, <2>3 DEF MachineTypes
<1>6. ASSUME UNCHANGED <<procVars, fileVars>>
      PROVE  MachineTypes'
  BY <1>0, <1>6 DEF MachineTypes, procVars, fileVars
<1>7. MachineTypes'
  BY <1>1, <1>2, <1>3, <1>4, <1>5, <1>6, MachineSteps
<1>8. Len(procs) \in Nat /\ Len(procs') >= Len(procs)
  BY <1>0, TrtexecSteps, SpawnSteps, KillSteps, MachineSteps
     DEF MachineTypes, Finish, Finishes, Look, Removed, procVars
<1> QED BY <1>7, <1>8

LEMMA TypeInv ==
    ASSUME IInv, [Next]_vars
    PROVE  TypeOK'
<1> USE DEF NoProc
<1>0. /\ TypeOK /\ ThreadTypes /\ CallTypes /\ WorkerSound /\ CallSound
      /\ MachineTypes'
      /\ Len(procs) \in Nat /\ Len(procs') >= Len(procs)
      /\ Len(procs') \in Nat
  BY MachineInv, ThreeParts, Bounds DEF IInv, MachineTypes
<1>1. ThreadTypes'
  <2>1. CASE Spawn
    <3>1. /\ thread' \in {"store", "finish"} /\ kid' \in 0..Len(procs')
          /\ UNCHANGED <<child, running, doneFlag, ok, epath, failed>>
      <4>1. \/ thread' = "store" /\ kid' = Len(procs')
            \/ thread' = "finish" /\ kid' = NoProc
        <5> HIDE DEF NoProc
        <5> QED BY <1>0, <2>1, SpawnSteps
      <4> QED BY <1>0, <2>1, <4>1 DEF Spawn, atomics
    <3>2. child = NoProc
      BY <2>1 DEF IInv, WorkerSound, Spawn
    <3> QED BY <1>0, <3>1, <3>2 DEF ThreadTypes
  <2>2. CASE Store
    BY <1>0, <2>2, Bounds
       DEF ThreadTypes, Store, procVars, atomics
  <2>3. CASE Reap
    BY <1>0, <2>3, Bounds
       DEF ThreadTypes, Reap, procVars, atomics
  <2>4. CASE Unstore
    BY <1>0, <2>4, Bounds
       DEF ThreadTypes, Unstore, Reaped, procVars, atomics
  <2>5. CASE Finish
    BY <1>0, <2>5, Bounds
       DEF ThreadTypes, Finish, Finishes, Publish, Discard, procVars, atomics
  <2>6. CASE ClearRunning
    BY <1>0, <2>6, Bounds
       DEF ThreadTypes, ClearRunning, procVars, atomics
  <2>7. CASE SetFlag
    BY <1>0, <2>7, Bounds
       DEF ThreadTypes, SetFlag, procVars, atomics
  <2>8. CASE Start
    BY <1>0, <2>8, DueIsAnEngine, Bounds
       DEF ThreadTypes, Start, Returns, procVars, atomics, CallSound
  <2>9. CASE Poll
    <3>1. /\ failed' = failed \/ failed' = failed \cup epath
          /\ doneFlag' = FALSE
          /\ UNCHANGED <<thread, kid, child, running, ok, epath, procs>>
      BY <2>9 DEF Poll, Polls, workVars, procVars
    <3>2. epath \subseteq Engines
      BY <1>0 DEF ThreadTypes
    <3> QED BY <1>0, <3>1, <3>2 DEF ThreadTypes
  <2>10. CASE DestroyReturns
    <3>1. /\ thread' = "none" /\ kid' = 0 /\ child' = 0
          /\ running' = FALSE /\ doneFlag' = FALSE /\ ok' = FALSE
          /\ epath' = {} /\ failed' = {}
      BY <2>10 DEF DestroyReturns, Goes
    <3>2. 0 \in 0..Len(procs') /\ {} \in SUBSET Engines
      BY <1>0
    <3> QED BY <3>1, <3>2 DEF ThreadTypes
  <2>11. CASE Crash
    <3>1. /\ thread' = "none" /\ kid' = 0 /\ child' = 0
          /\ running' = FALSE /\ doneFlag' = FALSE /\ ok' = FALSE
          /\ epath' = {} /\ failed' = {}
      BY <2>11 DEF Crash, Goes
    <3>2. 0 \in 0..Len(procs') /\ {} \in SUBSET Engines
      BY <1>0
    <3> QED BY <3>1, <3>2 DEF ThreadTypes
  <2>12. CASE UNCHANGED <<workVars, atomics, epath, failed>>
    BY <1>0, <2>12 DEF ThreadTypes, workVars, atomics
  <2>13. \/ Spawn \/ Store \/ Reap \/ Unstore \/ Finish \/ ClearRunning
         \/ SetFlag \/ Start \/ Poll \/ DestroyReturns \/ Crash
         \/ UNCHANGED <<workVars, atomics, epath, failed>>
    BY DEF Next, Caller, InCall, Worker, UserConfigures, Reconfigure,
           ConfigureCall, Look, Removed, ConfigureReturns, Defers, Decide,
           Starts, Destroy, Kill, Restart, Trtexec, Opens, Writes, Fails, vars,
           workVars, atomics
  <2> QED BY <2>1, <2>2, <2>3, <2>4, <2>5, <2>6, <2>7, <2>8, <2>9, <2>10,
             <2>11, <2>12, <2>13
<1>2. CallTypes'
  <2>1. CASE UserConfigures
    <3>1. /\ want' \in Chains \cup {<< >>} /\ loaded' = 0
          /\ call' = "look" /\ told' = FALSE
          /\ calls' \in 0..MaxCalls
          /\ UNCHANGED <<refused, up, victim, past>>
      BY <1>0, <2>1, Bounds DEF UserConfigures, ConfigureCall, CallTypes
    <3>2. 0 \in 0..Len(want')
      BY <3>1, Bounds
    <3>3. up \in BOOLEAN /\ victim \in 0..Len(procs')
          /\ refused \subseteq Frail
          /\ past \in {"quit", "died", "orphan"}
      BY <1>0 DEF CallTypes
    <3> QED BY <3>1, <3>2, <3>3 DEF CallTypes
  <2>2. CASE Reconfigure
    <3>1. /\ want' \in Chains \cup {<< >>} /\ loaded' = 0
          /\ call' = "look" /\ told' = FALSE
          /\ calls' \in 0..MaxCalls
          /\ UNCHANGED <<refused, up, victim, past>>
      BY <1>0, <2>2, Bounds DEF Reconfigure, ConfigureCall, CallTypes
    <3>2. 0 \in 0..Len(want')
      BY <3>1, Bounds
    <3>3. up \in BOOLEAN /\ victim \in 0..Len(procs')
          /\ refused \subseteq Frail
          /\ past \in {"quit", "died", "orphan"}
      BY <1>0 DEF CallTypes
    <3> QED BY <3>1, <3>2, <3>3 DEF CallTypes
  <2>3. CASE Look
    BY <1>0, <2>3, Bounds DEF CallTypes, Look, Removed, planVars, callerVars
  <2>4. CASE ConfigureReturns
    BY <1>0, <2>4, Bounds DEF CallTypes, ConfigureReturns, Returns, planVars,
                              callerVars
  <2>5. CASE Defers
    BY <1>0, <2>5, Bounds DEF CallTypes, Defers, Returns, planVars, callerVars
  <2>6. CASE Decide
    BY <1>0, <2>6, Bounds DEF CallTypes, Decide, Starts, planVars, callerVars
  <2>7. CASE Start
    BY <1>0, <2>7, Bounds DEF CallTypes, Start, Returns, planVars, callerVars,
                              CallSound
  <2>8. CASE Poll
    BY <1>0, <2>8, Bounds DEF CallTypes, Poll, Polls, planVars, callerVars
  <2>9. CASE Destroy
    BY <1>0, <2>9, Bounds DEF CallTypes, Destroy, planVars, callerVars,
                              ThreadTypes
  <2>10. CASE Kill
    BY <1>0, <2>10, Bounds DEF CallTypes, Kill, planVars, callerVars
  <2>11. CASE DestroyReturns
    <3>1. /\ up' = FALSE /\ call' = "gone" /\ told' = FALSE
          /\ want' = << >> /\ loaded' = 0 /\ refused' = {} /\ victim' = 0
          /\ calls' = calls /\ past' \in {past, "orphan", "died"}
      BY <2>11 DEF DestroyReturns, Goes
    <3>2. /\ 0 \in 0..Len(procs') /\ 0 \in 0..Len(<< >>)
          /\ past \in {"quit", "died", "orphan"} /\ calls \in 0..MaxCalls
      BY <1>0, Bounds DEF CallTypes
    <3> QED BY <3>1, <3>2 DEF CallTypes
  <2>12. CASE Crash
    <3>1. /\ up' = FALSE /\ call' = "gone" /\ told' = FALSE
          /\ want' = << >> /\ loaded' = 0 /\ refused' = {} /\ victim' = 0
          /\ calls' = calls /\ past' \in {past, "orphan", "died"}
      BY <2>12 DEF Crash, Goes
    <3>2. /\ 0 \in 0..Len(procs') /\ 0 \in 0..Len(<< >>)
          /\ past \in {"quit", "died", "orphan"} /\ calls \in 0..MaxCalls
      BY <1>0, Bounds DEF CallTypes
    <3> QED BY <3>1, <3>2 DEF CallTypes
  <2>13. CASE Restart
    BY <1>0, <2>13, Bounds DEF CallTypes, Restart, planVars, callerVars
  <2>14. CASE UNCHANGED <<planVars, callerVars>>
    BY <1>0, <2>14 DEF CallTypes, planVars, callerVars
  <2>15. \/ UserConfigures \/ Reconfigure \/ Look \/ ConfigureReturns
         \/ Defers \/ Decide \/ Start \/ Poll \/ Destroy \/ Kill
         \/ DestroyReturns \/ Crash \/ Restart
         \/ UNCHANGED <<planVars, callerVars>>
    BY DEF Next, Caller, InCall, Worker, Spawn, Store, Reap, Unstore, Reaped,
           Finish, Finishes, ClearRunning, SetFlag, Trtexec, Opens, Writes,
           Fails, vars, planVars, callerVars
  <2> QED BY <2>1, <2>2, <2>3, <2>4, <2>5, <2>6, <2>7, <2>8, <2>9, <2>10,
             <2>11, <2>12, <2>13, <2>14, <2>15
<1> QED BY <1>0, <1>1, <1>2, ThreeParts

-----------------------------------------------------------------------------
(* The worker, the caller. *)

LEMMA KidIsAProcess ==
    ASSUME TypeOK, kid # NoProc
    PROVE  kid \in DOMAIN procs
<1>1. procs \in Seq(Process) /\ kid \in 0..Len(procs)
  BY DEF TypeOK, Process
<1>2. DOMAIN procs = 1..Len(procs) /\ Len(procs) \in Nat
  BY <1>1, LenProperties
<1> QED BY <1>1, <1>2 DEF NoProc

(* The steps of the worker, those that make or end one, and the others. *)
LEMMA WorkerSteps ==
    ASSUME [Next]_vars
    PROVE  \/ Spawn \/ Store \/ Reap \/ Unstore \/ Finish \/ ClearRunning
           \/ SetFlag \/ Start \/ DestroyReturns \/ Crash
           \/ UNCHANGED <<thread, kid, child, running, epath>>
<1> USE DEF vars, workVars, atomics
<1>1. CASE \/ UserConfigures \/ Reconfigure \/ Look \/ ConfigureReturns
           \/ Defers \/ Decide
  BY <1>1 DEF UserConfigures, Reconfigure, ConfigureCall, Look, Removed,
              ConfigureReturns, Defers, Decide, Starts
<1>2. CASE Poll \/ Destroy \/ Kill \/ Restart
  BY <1>2 DEF Poll, Polls, Destroy, Kill, Restart
<1>3. CASE \E p \in DOMAIN procs : Trtexec(p)
  BY <1>3 DEF Trtexec, Opens, Writes, Fails
<1> QED BY <1>1, <1>2, <1>3 DEF Next, Caller, InCall, Worker

LEMMA WorkerInv ==
    ASSUME IInv, [Next]_vars
    PROVE  WorkerSound'
<1> DEFINE Atomics ==
        /\ running <=> thread \in {"spawn", "store", "wait", "unstore",
                                   "finish", "clear"}
        /\ thread # "none" => \E e \in Engines : epath = {e}
        /\ child = IF thread \in {"wait", "unstore"} THEN kid ELSE NoProc
        /\ thread \in {"store", "wait", "unstore"} => kid # NoProc
<1> DEFINE Kid ==
        /\ HasKid => procs[kid].makes \in epath
        /\ HasKid /\ thread \in {"unstore", "finish"} => ~Alive(kid)
<1>0. TypeOK /\ TypeOK' /\ WorkerSound /\ CallSound /\ Atomics /\ Kid
  BY TypeInv DEF IInv, WorkerSound
<1>1. Atomics'
  <2>1. CASE Spawn
    <3>1. /\ thread = "spawn" /\ UNCHANGED <<child, running, epath>>
          /\ \/ thread' = "store" /\ kid' = Len(procs) + 1
             \/ thread' = "finish"
      BY <1>0, <2>1, SpawnSteps DEF Spawn, atomics
    <3>2. Len(procs) + 1 # NoProc
      BY <1>0, LenProperties DEF NoProc, TypeOK
    <3> QED BY <1>0, <3>1, <3>2
  <2>6. CASE Store \/ Reap \/ Unstore
    BY <1>0, <2>6 DEF Store, Reap, Unstore, Reaped, atomics
  <2>2. CASE Finish \/ ClearRunning \/ SetFlag
    BY <1>0, <2>2 DEF Finish, Finishes, ClearRunning, SetFlag
  <2>3. CASE Start
    <3>1. Due \in Engines
      BY <1>0, <2>3, DueIsAnEngine DEF CallSound, Start
    <3> QED BY <1>0, <2>3, <3>1 DEF Start, Ended
  <2>4. CASE DestroyReturns \/ Crash
    BY <2>4 DEF DestroyReturns, Crash, Goes
  <2>5. CASE UNCHANGED <<thread, kid, child, running, epath>>
    BY <1>0, <2>5
  <2> QED BY <2>1, <2>2, <2>3, <2>4, <2>5, <2>6, WorkerSteps
<1>2. Kid'
  <2>1. CASE Spawn
    BY <2>1, <1>0, SpawnSteps DEF HasKid, Alive, Spawn, NoProc
  <2>2. CASE Store \/ Reap \/ Unstore
    BY <1>0, <2>2
       DEF Store, Reap, Unstore, Reaped, HasKid, Alive, procVars
  <2>3. CASE Finish \/ ClearRunning \/ SetFlag
    BY <2>3 DEF Finish, Finishes, ClearRunning, SetFlag, HasKid
  <2>4. CASE Start \/ DestroyReturns \/ Crash
    BY <2>4 DEF Start, DestroyReturns, Crash, Goes, HasKid
  <2>5. CASE UNCHANGED <<thread, kid, child, running, epath>>
    <3>1. CASE HasKid
      <4>1. /\ kid \in DOMAIN procs /\ kid' = kid
            /\ thread' = thread /\ epath' = epath
        BY <1>0, <2>5, <3>1, KidIsAProcess DEF HasKid
      <4> DEFINE Same == /\ procs'[kid].makes = procs[kid].makes
                         /\ Alive(kid)' => Alive(kid)
      <4>2. Same
        <5>1. ASSUME NEW p \in DOMAIN procs, Trtexec(p)
              PROVE  Same
          <6>1. CASE p = kid
            BY <1>0, <5>1, <6>1, TrtexecSteps
          <6>2. CASE p # kid
            BY <1>0, <4>1, <5>1, <6>2, TrtexecSteps DEF Alive
          <6> QED BY <6>1, <6>2
        <5>2. CASE Kill
          BY <1>0, <4>1, <5>2, KillSteps DEF Alive
        <5>3. CASE UNCHANGED procs
          BY <4>1, <5>3 DEF Alive
        <5>4. ~Spawn
          BY <4>1 DEF Spawn
        <5> QED
          BY <5>1, <5>2, <5>3, <5>4, MachineSteps
             DEF Finish, Finishes, Look, Removed, procVars
      <4> QED BY <1>0, <3>1, <4>1, <4>2 DEF HasKid
    <3>2. CASE ~HasKid
      BY <2>5, <3>2 DEF HasKid
    <3> QED BY <3>1, <3>2
  <2> QED BY <2>1, <2>2, <2>3, <2>4, <2>5, WorkerSteps
<1> QED BY <1>1, <1>2 DEF WorkerSound

LEMMA CallInv ==
    ASSUME IInv, [Next]_vars
    PROVE  CallSound'
<1>0. CallSound /\ TypeOK /\ WorkerSound /\ WorkerSound' /\ TypeOK'
  BY WorkerInv, TypeInv DEF IInv
<1>1. CASE UserConfigures \/ Reconfigure
  BY <1>0, <1>1
     DEF CallSound, UserConfigures, Reconfigure, ConfigureCall, workVars,
         atomics
<1>2. CASE Look \/ ConfigureReturns \/ Defers \/ Decide
  BY <1>0, <1>2
     DEF CallSound, Look, Removed, ConfigureReturns, Defers, Returns, Decide,
         Starts, workVars, atomics, planVars
<1>3. CASE Start \/ Kill \/ DestroyReturns
  BY <1>0, <1>3
     DEF CallSound, Start, Returns, Kill, DestroyReturns, Goes, workVars,
         atomics, planVars
<1>4. CASE Poll \/ Destroy \/ Crash \/ Restart
  BY <1>0, <1>4
     DEF CallSound, Poll, Polls, Destroy, Crash, Goes, Restart, workVars,
         atomics, planVars
<1>5. CASE Worker
  <2>1. /\ UNCHANGED <<up, call, loaded, want>> /\ thread # "none"
        /\ running' => running
    BY <1>5
       DEF Worker, Spawn, Store, Reap, Unstore, Reaped, Finish, Finishes,
           ClearRunning, SetFlag, atomics, planVars, callerVars
  <2>2. up
    BY <1>0, <2>1 DEF CallSound, TypeOK
  <2> QED BY <1>0, <2>1, <2>2 DEF CallSound
<1>6. CASE \/ \E p \in DOMAIN procs : Trtexec(p)
           \/ UNCHANGED vars
  <2>1. UNCHANGED <<up, call, loaded, want, running, thread>>
    BY <1>6
       DEF Trtexec, Opens, Writes, Fails, vars, workVars, atomics, planVars,
           callerVars
  <2> QED BY <1>0, <2>1 DEF CallSound
<1> QED BY <1>1, <1>2, <1>3, <1>4, <1>5, <1>6 DEF Next, Caller, InCall

-----------------------------------------------------------------------------
(* Files. *)

(* trtexec opens the file at the .building path, or creates its own.       *)
LEMMA OpensSteps ==
    ASSUME TypeOK, FilesApart, NEW p \in DOMAIN procs, Opens(p)
    PROVE  \E e \in Engines, f \in Procs :
             /\ e = procs[p].makes
             /\ f = building[e] \/ (building[e] = NoFile /\ f = p)
             /\ f <= Len(procs)
             /\ procs[p].phase = "started"
             /\ procs'[p].phase = "opened" /\ procs'[p].file = f
             /\ building' = [building EXCEPT ![e] = f]
             /\ pieces' = [pieces EXCEPT ![f] = {}]
             /\ \A d \in Engines : /\ cache[d] # f
                                   /\ building[d] = f => d = e
<1> DEFINE e == procs[p].makes
           f == IF building[e] = NoFile THEN p ELSE building[e]
<1>1. /\ procs \in Seq(Process) /\ procs[p] \in Process
      /\ Len(procs) \in Nat /\ p \in 1..Len(procs)
      /\ Len(procs) <= MaxProcs
  BY LenProperties, ElementOfSeq DEF TypeOK, Process
<1>2. e \in Engines /\ building[e] \in 0..MaxProcs
  BY <1>1 DEF TypeOK, Process
<1>3. f \in Procs /\ f <= Len(procs)
  BY <1>1, <1>2, Bounds DEF FilesApart, Procs, NoFile
<1>4. /\ procs[p].phase = "started"
      /\ building' = [building EXCEPT ![e] = f]
      /\ pieces' = [pieces EXCEPT ![f] = {}]
      /\ procs' = [procs EXCEPT ![p].phase = "opened", ![p].file = f]
  BY DEF Opens
<1>5. procs'[p].phase = "opened" /\ procs'[p].file = f
  BY <1>1, <1>4 DEF Process
<1>6. \A d \in Engines : cache[d] # f /\ (building[d] = f => d = e)
  <2> SUFFICES ASSUME NEW d \in Engines
               PROVE  cache[d] # f /\ (building[d] = f => d = e)
    OBVIOUS
  <2>1. CASE building[e] = NoFile
    BY <1>4, <2>1 DEF FilesApart
  <2>2. CASE building[e] # NoFile
    BY <1>2, <2>2 DEF FilesApart
  <2> QED BY <2>1, <2>2
<1>7. /\ e = procs[p].makes
      /\ f = building[e] \/ (building[e] = NoFile /\ f = p)
  <2>1. CASE building[e] = NoFile
    BY <2>1
  <2>2. CASE building[e] # NoFile
    BY <2>2
  <2> QED BY <2>1, <2>2
<1> HIDE DEF f, e
<1> QED BY <1>2, <1>3, <1>4, <1>5, <1>6, <1>7

LEMMA WritesSteps ==
    ASSUME TypeOK, NEW p \in DOMAIN procs, NEW from, NEW part, NEW to,
           Writes(p, from, part, to)
    PROVE  /\ procs[p].phase = from /\ procs'[p].phase = to
           /\ procs'[p].file = procs[p].file
           /\ pieces' = [pieces EXCEPT
                            ![procs[p].file] = @ \cup {<<p, part>>}]
           /\ UNCHANGED fileVars
<1>0. procs \in Seq(Process)
  BY DEF TypeOK, Process
<1>1. procs \in Seq(Process) /\ procs[p] \in Process
  BY <1>0, LenProperties, ElementOfSeq
<1>2. procs' = [procs EXCEPT ![p].phase = to] /\ procs[p].phase = from
  BY DEF Writes
<1>3. procs'[p].phase = to /\ procs'[p].file = procs[p].file
  BY <1>1, <1>2 DEF Process
<1> QED BY <1>2, <1>3 DEF Writes

(* In a worker's finish the .building file of its engine goes.             *)
LEMMA FinishSteps ==
    ASSUME TypeOK, WorkerSound, Finish
    PROVE  \E e \in Engines :
             /\ epath = {e}
             /\ building' = [building EXCEPT ![e] = NoFile]
             /\ \/ /\ Exited /\ building[e] # NoFile
                   /\ cache' = [cache EXCEPT ![e] = building[e]]
                \/ UNCHANGED cache
             /\ UNCHANGED procVars
<1>1. PICK e \in Engines : epath = {e}
  BY DEF WorkerSound, Finish, Finishes
<1>2. /\ Finishes(e)
      /\ (Exited /\ building[e] # NoFile /\ Publish(e)) \/ Discard(e)
  BY <1>1 DEF Finish
<1> QED BY <1>1, <1>2 DEF Finishes, Publish, Discard

LEMMA FilesInv ==
    ASSUME IInv, [Next]_vars
    PROVE  FilesApart'
<1>0. TypeOK /\ FilesApart /\ WorkerSound
  BY DEF IInv
<1>1. /\ procs \in Seq(Process) /\ Len(procs) \in Nat
      /\ building \in [Engines -> 0..MaxProcs]
      /\ cache \in [Engines -> Unusable..MaxProcs]
      /\ DOMAIN procs = 1..Len(procs)
      /\ \A e \in Engines : building[e] \in Int /\ cache[e] \in Int
  BY <1>0, LenProperties, Bounds DEF TypeOK, Process, Unusable
<1>2. ASSUME NEW p \in DOMAIN procs, Trtexec(p)
      PROVE  FilesApart'
  <2>1. /\ Len(procs') = Len(procs) /\ DOMAIN procs' = DOMAIN procs
        /\ \A q \in DOMAIN procs :
             procs'[q].phase = "started" =>
                q # p /\ procs[q].phase = "started"
        /\ UNCHANGED cache
    BY <1>0, <1>2, TrtexecSteps
  <2>2. CASE Opens(p)
    <3>1. PICK e \in Engines, f \in Procs :
            /\ f = building[e] \/ (building[e] = NoFile /\ f = p)
            /\ f <= Len(procs)
            /\ building' = [building EXCEPT ![e] = f]
            /\ \A d \in Engines : /\ cache[d] # f
                                  /\ building[d] = f => d = e
      BY <1>0, <2>2, OpensSteps
    <3>2. \A d \in Engines :
            building'[d] = IF d = e THEN f ELSE building[d]
      BY <1>1, <3>1
    <3>3. \A q \in DOMAIN procs' : procs'[q].phase = "started" =>
            \A d \in Engines : building'[d] # q /\ cache'[d] # q
      BY <1>0, <2>1, <3>1, <3>2 DEF FilesApart, NoFile
    <3>4. \A d \in Engines :
            building'[d] <= Len(procs') /\ cache'[d] <= Len(procs')
      BY <1>0, <2>1, <3>1, <3>2 DEF FilesApart
    <3>5. \A c, d \in Engines : building'[d] # NoFile =>
            /\ cache'[c] # building'[d]
            /\ building'[c] = building'[d] => c = d
      <4> SUFFICES ASSUME NEW c \in Engines, NEW d \in Engines,
                          building'[d] # NoFile
                   PROVE  /\ cache[c] # building'[d]
                          /\ building'[c] = building'[d] => c = d
        BY <2>1
      <4>1. CASE d = e
        <5>1. building'[d] = f /\ cache[c] # f
          BY <3>1, <3>2, <4>1
        <5>2. building'[c] = f => c = e
          BY <3>1, <3>2
        <5> QED BY <4>1, <5>1, <5>2
      <4>2. CASE d # e /\ c = e
        BY <1>0, <3>1, <3>2, <4>2 DEF FilesApart
      <4>3. CASE d # e /\ c # e
        BY <1>0, <3>2, <4>3 DEF FilesApart
      <4> QED BY <4>1, <4>2, <4>3
    <3> QED BY <3>3, <3>4, <3>5 DEF FilesApart
  <2>3. CASE UNCHANGED building
    BY <1>0, <2>1, <2>3 DEF FilesApart
  <2> QED BY <1>2, <2>2, <2>3 DEF Trtexec, Writes, Fails, fileVars
<1>3. CASE Spawn
  <2>1. /\ UNCHANGED <<building, cache>>
        /\ Len(procs') >= Len(procs) /\ Len(procs') \in Nat
        /\ \A p \in DOMAIN procs' :
             \/ p \in DOMAIN procs /\ procs'[p] = procs[p]
             \/ p > Len(procs)
    <3>1. UNCHANGED <<building, cache>>
      BY <1>3 DEF Spawn, fileVars
    <3>2. CASE UNCHANGED procs
      BY <1>1, <3>1, <3>2
    <3>3. CASE procs' # procs
      BY <1>0, <1>1, <1>3, <3>1, <3>3, SpawnSteps
    <3> QED BY <3>2, <3>3
  <2>2. \A e \in Engines : building[e] <= Len(procs) /\ cache[e] <= Len(procs)
    BY <1>0 DEF FilesApart
  <2>3. \A p \in DOMAIN procs' : procs'[p].phase = "started" =>
            \A d \in Engines : building[d] # p /\ cache[d] # p
    BY <1>0, <1>1, <2>1, <2>2 DEF FilesApart
  <2> QED BY <1>0, <1>1, <2>1, <2>2, <2>3 DEF FilesApart
<1>4. CASE Kill
  <2>1. /\ Len(procs') = Len(procs) /\ DOMAIN procs' = DOMAIN procs
        /\ \A q \in DOMAIN procs : procs'[q].phase = "started" =>
                                      procs[q].phase = "started"
    BY <1>0, <1>4, KillSteps
  <2> QED BY <1>0, <1>4, <2>1 DEF FilesApart, Kill, fileVars
<1>5. CASE Finish
  <2>1. PICK e \in Engines :
             /\ building' = [building EXCEPT ![e] = NoFile]
             /\ \/ /\ building[e] # NoFile
                   /\ cache' = [cache EXCEPT ![e] = building[e]]
                \/ UNCHANGED cache
             /\ UNCHANGED procVars
    BY <1>0, <1>5, FinishSteps
  <2>2. \A d \in Engines :
          /\ building'[d] = IF d = e THEN NoFile ELSE building[d]
          /\ \/ cache'[d] = cache[d]
             \/ building[e] # NoFile /\ cache'[d] = building[e]
    <3>1. \A d \in Engines :
            building'[d] = IF d = e THEN NoFile ELSE building[d]
      BY <1>1, <2>1
    <3>2. CASE UNCHANGED cache
      BY <3>1, <3>2
    <3>3. CASE /\ building[e] # NoFile
               /\ cache' = [cache EXCEPT ![e] = building[e]]
      <4>1. \A d \in Engines :
              cache'[d] = IF d = e THEN building[e] ELSE cache[d]
        BY <1>1, <3>3
      <4> QED BY <3>1, <3>3, <4>1
    <3> QED BY <2>1, <3>2, <3>3
  <2> QED BY <1>0, <1>1, <2>1, <2>2 DEF FilesApart, procVars, NoFile
<1>6. CASE Look
  <2>1. /\ UNCHANGED <<procs, building>>
        /\ cache' = cache \/ cache' = [cache EXCEPT ![Due] = NoFile]
    BY <1>6 DEF Look, Removed, procVars
  <2>2. \A d \in Engines : cache'[d] = cache[d] \/ cache'[d] = NoFile
    BY <1>1, <2>1
  <2> QED BY <1>0, <1>1, <2>1, <2>2 DEF FilesApart, NoFile
<1>7. CASE UNCHANGED <<procVars, fileVars>>
  BY <1>0, <1>7 DEF FilesApart, procVars, fileVars
<1> QED BY <1>2, <1>3, <1>4, <1>5, <1>6, <1>7, MachineSteps

-----------------------------------------------------------------------------
(* Who writes what. *)

(* No process comes alive but the one the worker starts.                   *)
LEMMA AliveSteps ==
    ASSUME TypeOK, [Next]_vars, ~Spawn
    PROVE  /\ DOMAIN procs' = DOMAIN procs
           /\ \A p \in DOMAIN procs : /\ procs'[p].makes = procs[p].makes
                                      /\ Alive(p)' => Alive(p)
<1> DEFINE Same == /\ DOMAIN procs' = DOMAIN procs
                   /\ \A p \in DOMAIN procs :
                        /\ procs'[p].makes = procs[p].makes
                        /\ Alive(p)' => Alive(p)
<1>1. ASSUME NEW q \in DOMAIN procs, Trtexec(q)
      PROVE  Same
  <2>1. DOMAIN procs' = DOMAIN procs
    BY <1>1, TrtexecSteps
  <2>2. ASSUME NEW p \in DOMAIN procs
        PROVE  /\ procs'[p].makes = procs[p].makes
               /\ Alive(p)' => Alive(p)
    <3>1. CASE p = q
      BY <1>1, <3>1, TrtexecSteps
    <3>2. CASE p # q
      BY <1>1, <3>2, TrtexecSteps DEF Alive
    <3> QED BY <3>1, <3>2
  <2> QED BY <2>1, <2>2
<1>2. CASE Kill
  BY <1>2, KillSteps DEF Alive
<1>3. CASE UNCHANGED procs
  BY <1>3 DEF Alive
<1> QED
  BY <1>1, <1>2, <1>3, MachineSteps
     DEF Finish, Finishes, Look, Removed, procVars

(* The player dies only in Crash, which files it under past.               *)
LEMMA PastSteps ==
    ASSUME [Next]_vars
    PROVE  /\ \/ UNCHANGED past
              \/ /\ Crash
                 /\ past' = "orphan" \/ (past' = "died" /\ past # "orphan")
           /\ Crash /\ past' # "orphan"
                => \A p \in DOMAIN procs : ~Alive(p)
<1> USE DEF vars, callerVars
<1>1. ASSUME Worker
      PROVE  UNCHANGED past
  BY <1>1 DEF Worker, Spawn, Store, Reap, Unstore, Reaped, Finish, Finishes,
              ClearRunning, SetFlag
<1>2. ASSUME UserConfigures \/ Reconfigure \/ Poll \/ Destroy \/ InCall
      PROVE  UNCHANGED past
  BY <1>2 DEF UserConfigures, Reconfigure, ConfigureCall, Poll, Polls,
              Destroy, InCall, Look, Removed, ConfigureReturns, Returns,
              Defers, Decide, Starts, Start, Kill, DestroyReturns
<1>3. ASSUME Restart \/ \E p \in DOMAIN procs : Trtexec(p)
      PROVE  UNCHANGED past
  BY <1>3 DEF Restart, Trtexec, Opens, Writes, Fails
<1>4. ASSUME Crash
      PROVE  past' = "orphan" \/ (past' = "died" /\ past # "orphan")
  BY <1>4 DEF Crash
<1>5. ASSUME UNCHANGED vars
      PROVE  UNCHANGED past
  BY <1>5
<1>6. Crash /\ past' # "orphan" => \A p \in DOMAIN procs : ~Alive(p)
  BY DEF Crash
<1> QED BY <1>1, <1>2, <1>3, <1>4, <1>5, <1>6 DEF Next, Caller

LEMMA OneRunsInv ==
    ASSUME IInv, [Next]_vars, past' # "orphan", NEW p \in DOMAIN procs',
           Alive(p)'
    PROVE  p = kid' /\ thread' \in {"store", "wait"}
<1>0. /\ TypeOK /\ WorkerSound /\ past # "orphan"
      /\ \A q \in DOMAIN procs :
           Alive(q) => q = kid /\ thread \in {"store", "wait"}
  BY PastSteps DEF IInv, OneWriter
<1>1. CASE Spawn
  <2>1. \A q \in DOMAIN procs : ~Alive(q)
    BY <1>0, <1>1 DEF Spawn
  <2>2. CASE p \in DOMAIN procs /\ procs'[p] = procs[p]
    BY <2>1, <2>2 DEF Alive
  <2>3. CASE ~(p \in DOMAIN procs /\ procs'[p] = procs[p])
    BY <1>0, <1>1, <2>3, SpawnSteps
  <2> QED BY <2>2, <2>3
<1>2. CASE ~Spawn
  <2>1. p \in DOMAIN procs /\ Alive(p)
    BY <1>0, <1>2, AliveSteps DEF Alive
  <2>2. p = kid /\ thread \in {"store", "wait"}
    BY <1>0, <2>1
  <2>3. CASE Store
    BY <2>2, <2>3 DEF Store
  <2>4. ~Reap
    BY <2>1, <2>2 DEF Reap
  <2>5. ~Unstore /\ ~Finish /\ ~ClearRunning /\ ~SetFlag
    BY <2>2 DEF Unstore, Reaped, Finish, Finishes, ClearRunning, SetFlag
  <2>6. ~Start /\ ~DestroyReturns
    BY <2>2 DEF Start, DestroyReturns, Ended
  <2>7. ~Crash
    BY <1>0, <2>1, PastSteps
  <2> QED BY <1>2, <2>2, <2>3, <2>4, <2>5, <2>6, <2>7, WorkerSteps
<1> QED BY <1>1, <1>2

(* The worker goes on with the trtexec it has, or starts one.              *)
LEMMA KidSteps ==
    ASSUME IInv, [Next]_vars, ~Spawn, HasKid'
    PROVE  /\ HasKid /\ kid' = kid /\ ~Finish /\ ~Crash
           /\ kid \in DOMAIN procs
<1>0. TypeOK
  BY DEF IInv
<1>1. CASE Store \/ Reap \/ Unstore
  BY <1>0, <1>1, KidIsAProcess
     DEF Store, Reap, Unstore, Reaped, HasKid, Finish, Finishes, Crash, Goes
<1>2. CASE UNCHANGED <<thread, kid, child, running, epath>>
  BY <1>0, <1>2, KidIsAProcess
     DEF HasKid, Finish, Finishes, Crash, Goes
<1>3. ~Finish /\ ~ClearRunning /\ ~SetFlag
  BY DEF HasKid, Finish, Finishes, ClearRunning, SetFlag
<1>4. ~Start /\ ~DestroyReturns /\ ~Crash
  BY DEF HasKid, Start, DestroyReturns, Crash, Goes
<1> QED BY <1>1, <1>2, <1>3, <1>4, WorkerSteps

LEMMA OwnsFileInv ==
    ASSUME IInv, [Next]_vars, past' # "orphan", HasKid',
           procs'[kid'].phase \notin {"started", "failed"}
    PROVE  OwnsFile(kid)'
<1>0. /\ TypeOK /\ FilesApart /\ WorkerSound /\ past # "orphan"
      /\ HasKid /\ procs[kid].phase \notin {"started", "failed"}
           => OwnsFile(kid)
      /\ \A q \in DOMAIN procs :
           Alive(q) => q = kid /\ thread \in {"store", "wait"}
  BY PastSteps DEF IInv, OneWriter
<1>1. ~Spawn
  <2> SUFFICES ASSUME Spawn
               PROVE  FALSE
    OBVIOUS
  <2> QED BY <1>0, SpawnSteps DEF HasKid
<1>2. HasKid /\ kid' = kid /\ ~Finish /\ kid \in DOMAIN procs
  BY <1>1, KidSteps
<1>3. ASSUME NEW p \in DOMAIN procs, Trtexec(p)
      PROVE  OwnsFile(kid)'
  <2>1. p = kid /\ procs'[p].makes = procs[p].makes
    BY <1>0, <1>3, TrtexecSteps
  <2>2. CASE Opens(p)
    <3>1. PICK f \in Procs :
            /\ procs'[p].phase = "opened" /\ procs'[p].file = f
            /\ building' = [building EXCEPT ![procs[p].makes] = f]
            /\ pieces' = [pieces EXCEPT ![f] = {}]
            /\ procs[p].makes \in Engines
      BY <1>0, <2>2, OpensSteps
    <3>2. building'[procs[p].makes] = f /\ pieces'[f] = {}
      BY <1>0, <3>1 DEF TypeOK
    <3>3. {p} \X Parts("opened") = {}
      BY DEF Parts
    <3> QED BY <1>2, <2>1, <3>1, <3>2, <3>3 DEF OwnsFile
  <2>3. ASSUME NEW from, NEW part, NEW to, Writes(p, from, part, to),
               from \in {"opened", "writing"},
               {p} \X Parts(to) = {p} \X Parts(from) \cup {<<p, part>>}
        PROVE  OwnsFile(kid)'
    <3>1. /\ procs[p].phase = from /\ procs'[p].phase = to
          /\ procs'[p].file = procs[p].file
          /\ pieces' = [pieces EXCEPT
                            ![procs[p].file] = @ \cup {<<p, part>>}]
          /\ UNCHANGED building
      BY <1>0, <2>3, WritesSteps DEF fileVars
    <3>2. /\ procs[p].file \in Procs
          /\ building[procs[p].makes] = procs[p].file
          /\ pieces[procs[p].file] = {p} \X Parts(from)
      BY <1>0, <1>2, <2>1, <2>3, <3>1 DEF OwnsFile
    <3>3. pieces'[procs[p].file] = {p} \X Parts(to)
      BY <1>0, <2>3, <3>1, <3>2 DEF TypeOK
    <3> QED BY <1>2, <2>1, <3>1, <3>2, <3>3 DEF OwnsFile
  <2>4. /\ {p} \X Parts("writing") = {p} \X Parts("opened")
                                       \cup {<<p, "head">>}
        /\ {p} \X Parts("succeeded") = {p} \X Parts("writing")
                                       \cup {<<p, "tail">>}
    BY DEF Parts
  <2>5. ~Fails(p)
    <3> SUFFICES ASSUME Fails(p)
                 PROVE  FALSE
      OBVIOUS
    <3>1. procs[p] \in Process
      <4>1. procs \in Seq(Process)
        BY <1>0 DEF TypeOK, Process
      <4> QED BY <4>1, LenProperties, ElementOfSeq
    <3>2. procs'[p].phase = "failed"
      BY <3>1 DEF Fails, Process
    <3> QED BY <1>2, <2>1, <3>2
  <2> QED BY <1>3, <2>2, <2>3, <2>4, <2>5 DEF Trtexec
<1>4. CASE Kill
  <2>1. procs'[kid] = procs[kid] /\ UNCHANGED <<pieces, building>>
    BY <1>0, <1>2, <1>4, KillSteps DEF Kill, fileVars
  <2> QED BY <1>0, <1>2, <2>1 DEF OwnsFile
<1>5. CASE UNCHANGED <<procs, pieces, building>>
  BY <1>0, <1>2, <1>5 DEF OwnsFile
<1> QED
  BY <1>1, <1>2, <1>3, <1>4, <1>5, MachineSteps
     DEF Look, Removed, procVars, fileVars

LEMMA OneWriterInv ==
    ASSUME IInv, [Next]_vars
    PROVE  OneWriter'
BY OneRunsInv, OwnsFileInv DEF OneWriter

LEMMA NothingLeftInv ==
    ASSUME IInv, [Next]_vars
    PROVE  NothingLeft'
<1> SUFFICES ASSUME past' = "quit", NEW e \in Engines, building'[e] # NoFile
             PROVE  HasKid' /\ procs'[kid'].makes = e
  BY DEF NothingLeft
<1>0. /\ TypeOK /\ FilesApart /\ WorkerSound
      /\ past = "quit" /\ ~Crash
      /\ \A p \in DOMAIN procs :
           Alive(p) => p = kid /\ thread \in {"store", "wait"}
      /\ \A d \in Engines :
           building[d] # NoFile => HasKid /\ procs[kid].makes = d
  BY PastSteps DEF IInv, NothingLeft, OneWriter, Crash
<1>1. HasKid /\ procs[kid].makes = e /\ ~Finish
  <2>1. ASSUME NEW p \in DOMAIN procs, Opens(p)
        PROVE  HasKid /\ procs[kid].makes = e /\ ~Finish
    <3>1. /\ p = kid /\ thread \in {"store", "wait"}
          /\ HasKid /\ ~Finish
      BY <1>0, <2>1, TrtexecSteps
         DEF Trtexec, HasKid, WorkerSound, Finish, Finishes
    <3>2. PICK f : building' = [building EXCEPT ![procs[p].makes] = f]
      BY <1>0, <2>1, OpensSteps
    <3>3. CASE e # procs[p].makes
      <4>1. building'[e] = building[e]
        BY <1>0, <3>2, <3>3 DEF TypeOK
      <4> QED BY <1>0, <3>1, <4>1
    <3> QED BY <3>1, <3>3
  <2>2. CASE Finish
    <3>1. PICK d \in Engines :
            epath = {d} /\ building' = [building EXCEPT ![d] = NoFile]
      BY <1>0, <2>2, FinishSteps
    <3>2. e # d /\ building'[e] = building[e]
      BY <1>0, <3>1 DEF TypeOK
    <3>3. procs[kid].makes = e /\ procs[kid].makes \in epath
      BY <1>0, <3>2 DEF WorkerSound
    <3> QED BY <3>1, <3>2, <3>3
  <2>3. CASE UNCHANGED building /\ ~Finish
    BY <1>0, <2>3
  <2>4. ASSUME NEW p \in DOMAIN procs, Trtexec(p)
        PROVE  Opens(p) \/ (UNCHANGED building /\ ~Finish)
    <3>1. Opens(p) \/ UNCHANGED building
      BY <2>4 DEF Trtexec, Writes, Fails, fileVars
    <3>2. ~Finish
      BY <1>0, <2>4, TrtexecSteps DEF Finish, Finishes
    <3> QED BY <3>1, <3>2
  <2>5. Spawn \/ Kill \/ Look => UNCHANGED building
    BY DEF Spawn, Kill, Look, Removed, fileVars
  <2> QED BY <2>1, <2>2, <2>3, <2>4, <2>5, MachineSteps DEF fileVars
<1>2. ~Spawn /\ ~ClearRunning /\ ~SetFlag /\ ~Start /\ ~DestroyReturns
  BY <1>1 DEF HasKid, Spawn, ClearRunning, SetFlag, Start, DestroyReturns,
              Ended
<1>3. HasKid' /\ kid' = kid
  BY <1>0, <1>1, <1>2, WorkerSteps
     DEF HasKid, Store, Reap, Unstore, Reaped
<1>4. procs'[kid].makes = procs[kid].makes
  BY <1>0, <1>1, <1>2, AliveSteps, KidIsAProcess DEF HasKid, Alive
<1> QED BY <1>1, <1>3, <1>4

(* A file that is at a final path is not written in any more.              *)
LEMMA EngineWholeInv ==
    ASSUME IInv, [Next]_vars
    PROVE  EngineWhole'
<1> SUFFICES ASSUME past' # "orphan", NEW e \in Engines, cache'[e] \in Procs
             PROVE  Whole(cache[e])'
  BY DEF EngineWhole, FinalPathComplete
<1>0. /\ TypeOK /\ FilesApart /\ WorkerSound /\ past # "orphan"
      /\ \A p \in DOMAIN procs :
           Alive(p) => p = kid /\ thread \in {"store", "wait"}
      /\ HasKid /\ procs[kid].phase \notin {"started", "failed"}
           => OwnsFile(kid)
      /\ \A d \in Engines : cache[d] \in Procs => Whole(cache[d])
  BY PastSteps DEF IInv, OneWriter, EngineWhole, FinalPathComplete
<1>1. CASE cache'[e] = cache[e] /\ pieces'[cache[e]] = pieces[cache[e]]
  BY <1>0, <1>1 DEF Whole
<1>2. CASE Finish /\ cache'[e] # cache[e]
  <2>1. /\ Exited /\ building[e] # NoFile /\ cache'[e] = building[e]
        /\ epath = {e} /\ thread = "finish" /\ UNCHANGED pieces
    BY <1>0, <1>2, FinishSteps DEF TypeOK, procVars, Finish, Finishes
  <2>2. HasKid /\ procs[kid].phase = "succeeded"
    BY <2>1 DEF Exited, HasKid
  <2>3. OwnsFile(kid) /\ procs[kid].makes = e
    BY <1>0, <2>1, <2>2 DEF WorkerSound
  <2>4. pieces[building[e]] = {kid} \X {"head", "tail"}
    BY <2>2, <2>3 DEF OwnsFile, Parts
  <2>5. {kid} \X {"head", "tail"} = {<<kid, "head">>, <<kid, "tail">>}
    OBVIOUS
  <2>6. kid \in Procs
    <3>1. procs \in Seq(Process) /\ kid \in 0..Len(procs)
          /\ Len(procs) <= MaxProcs
      BY <1>0 DEF TypeOK, Process
    <3> QED BY <2>2, <3>1, LenProperties, Bounds DEF HasKid, NoProc, Procs
  <2> QED BY <2>1, <2>4, <2>5, <2>6 DEF Whole
<1>3. CASE Look
  <2>1. cache'[e] = cache[e] \/ cache'[e] = NoFile
    BY <1>0, <1>3 DEF Look, Removed, TypeOK
  <2> QED BY <1>1, <1>3, <2>1 DEF Look, Removed, procVars, Procs, NoFile
<1>4. ASSUME NEW p \in DOMAIN procs, Trtexec(p)
      PROVE  Whole(cache[e])'
  <2>0. UNCHANGED cache /\ p = kid /\ thread \in {"store", "wait"}
    BY <1>0, <1>4, TrtexecSteps
  <2>1. CASE Opens(p)
    <3>1. PICK f \in Procs :
            /\ pieces' = [pieces EXCEPT ![f] = {}]
            /\ \A d \in Engines : cache[d] # f
      BY <1>0, <2>1, OpensSteps
    <3>2. pieces'[cache[e]] = pieces[cache[e]]
      BY <1>0, <2>0, <3>1 DEF TypeOK
    <3> QED BY <1>1, <2>0, <3>2
  <2>2. ASSUME NEW from, NEW part, NEW to, Writes(p, from, part, to),
               from \in {"opened", "writing"}
        PROVE  Whole(cache[e])'
    <3>1. /\ procs[p].phase = from
          /\ pieces' = [pieces EXCEPT
                            ![procs[p].file] = @ \cup {<<p, part>>}]
      BY <1>0, <2>2, WritesSteps
    <3>2. OwnsFile(kid)
      BY <1>0, <2>0, <2>2, <3>1 DEF HasKid, WorkerSound
    <3>3. cache[e] # procs[p].file
      <4>1. procs[p].makes \in Engines
        <5>1. procs \in Seq(Process)
          BY <1>0 DEF TypeOK, Process
        <5>2. procs[p] \in Process
          BY <5>1, LenProperties, ElementOfSeq
        <5> QED BY <5>2 DEF Process
      <4> QED BY <1>0, <2>0, <3>2, <4>1
              DEF OwnsFile, FilesApart, Procs, NoFile
    <3>4. pieces'[cache[e]] = pieces[cache[e]]
      BY <1>0, <2>0, <3>1, <3>3 DEF TypeOK
    <3> QED BY <1>1, <2>0, <3>4
  <2>3. CASE Fails(p)
    BY <1>1, <2>3 DEF Fails, fileVars
  <2> QED BY <1>4, <2>1, <2>2, <2>3 DEF Trtexec
<1>5. Spawn \/ Kill => UNCHANGED <<pieces, cache>>
  BY DEF Spawn, Kill, fileVars
<1>6. Finish => UNCHANGED pieces
  BY DEF Finish, Finishes, procVars
<1> QED
  BY <1>1, <1>2, <1>3, <1>4, <1>5, <1>6, MachineSteps DEF procVars, fileVars

-----------------------------------------------------------------------------
(* The theorems. *)

LEMMA InitInv == Init => IInv
<1> SUFFICES ASSUME Init
             PROVE  IInv
  OBVIOUS
<1> USE DEF Init, NoProc, NoFile, Unusable
<1>1. TypeOK
  <2>1. << >> \in Seq(Process) /\ Len(<< >>) = 0
    BY EmptySeq
  <2>2. /\ 0 \in 0..MaxProcs /\ 0 \in 0..MaxCalls /\ 0 \in 0..0
        /\ 0 \in -1..MaxProcs /\ -1 \in -1..MaxProcs /\ 0 <= MaxProcs
    BY Bounds
  <2>3. ThreadTypes /\ CallTypes
    BY <2>1, <2>2 DEF ThreadTypes, CallTypes
  <2>4. MachineTypes
    BY <2>1, <2>2 DEF MachineTypes
  <2> QED BY <2>3, <2>4, ThreeParts
<1>2. WorkerSound /\ CallSound
  BY DEF WorkerSound, CallSound, HasKid
<1>3. DOMAIN procs = {} /\ Len(procs) = 0
  OBVIOUS
<1>4. FilesApart
  BY <1>3 DEF FilesApart
<1>5. OneWriter /\ NothingLeft
  BY <1>3 DEF OneWriter, NothingLeft, HasKid
<1>6. EngineWhole
  BY DEF EngineWhole, FinalPathComplete, Procs
<1> QED BY <1>1, <1>2, <1>4, <1>5, <1>6 DEF IInv

(* The inductive invariant holds in every reachable state: what the        *)
(* atomics say of the worker, the files of two engines kept apart, one     *)
(* trtexec that owns the file it writes.                                   *)
THEOREM Invariance == Spec => []IInv
<1>1. IInv /\ [Next]_vars => IInv'
  BY TypeInv, WorkerInv, CallInv, FilesInv, OneWriterInv, NothingLeftInv,
     EngineWholeInv DEF IInv
<1> QED BY <1>1, InitInv, PTL DEF Spec

(* The types hold for any engines, chains, builds and deaths.              *)
THEOREM TypeCorrect == Spec => []TypeOK
<1>1. IInv => TypeOK
  BY DEF IInv
<1> QED BY <1>1, Invariance, PTL

(* A file at an engine's final path is all of what one trtexec wrote, as   *)
(* the comment in make_build_spec says, whatever fails and whenever the    *)
(* player quits; it may even die, unless a trtexec is then running.        *)
THEOREM FinalPathIsWhole == Spec => []EngineWhole
<1>1. IInv => EngineWhole
  BY DEF IInv
<1> QED BY <1>1, Invariance, PTL

(* start_async_build never waits for a build when it joins the worker that *)
(* came before: ensure_engine has seen build_running cleared.              *)
THEOREM NoWait == Spec => []ConfigureDoesNotWait
<1>1. IInv => ConfigureDoesNotWait
  <2> SUFFICES ASSUME IInv, call = "start"
               PROVE  Ended \/ thread = "flag"
    BY DEF ConfigureDoesNotWait
  <2>1. ~running
    BY DEF IInv, CallSound
  <2> QED BY <2>1 DEF IInv, WorkerSound, TypeOK, Ended
<1> QED BY <1>1, Invariance, PTL

(* While every player leaves by aji_destroy, one trtexec runs at a time,   *)
(* and after it none runs and no .building file is left.                   *)
THEOREM QuitsCleanly == Spec => []QuitIsClean
<1>1. IInv => QuitIsClean
  BY DEF IInv, QuitIsClean, OneWriter, NothingLeft, CallSound, HasKid
<1> QED BY <1>1, Invariance, PTL

=============================================================================
