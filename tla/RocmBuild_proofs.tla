-------------------------- MODULE RocmBuild_proofs --------------------------
(***************************************************************************)
(* Proofs about the background engine compiles of the ROCm backend, for    *)
(* any engines and chains and any number of compiles, configures and       *)
(* deaths of the player.                                                   *)
(***************************************************************************)
EXTENDS RocmBuild, SequenceTheorems, TLAPS

Process == [makes : Engines, file : 0..MaxProcs,
            phase : {"compiling", "opened", "saving", "saved", "succeeded",
                     "failed"}]

LEMMA Bounds == MaxProcs \in Nat /\ MaxCalls \in Nat
BY ChainsAssumption

LEMMA ChainParts ==
    ASSUME NEW c \in Chains \cup {NoChain}
    PROVE  /\ c.models \in Seq(Engines) /\ c.rife \in Seq(Engines)
           /\ Len(c.models) \in Nat /\ Len(c.rife) \in 0..1
           /\ Wanted(c) \in Seq(Engines)
           /\ Len(Wanted(c)) = Len(c.models) + Len(c.rife)
<1>1. /\ c.models \in Seq(Engines) /\ c.rife \in Seq(Engines)
      /\ Len(c.rife) <= 1
  <2>1. CASE c \in Chains
    BY <2>1, ChainsAssumption
  <2>2. CASE c = NoChain
    BY <2>2, EmptySeq DEF NoChain
  <2> QED BY <2>1, <2>2
<1>2. Len(c.models) \in Nat /\ Len(c.rife) \in Nat
  BY <1>1, LenProperties
<1>3. Len(c.rife) \in 0..1
  <2>1. \A n \in Nat : n <= 1 => n \in 0..1
    OBVIOUS
  <2> QED BY <1>1, <1>2, <2>1
<1> QED BY <1>1, <1>2, <1>3, ConcatProperties DEF Wanted

LEMMA DueIsAnEngine ==
    ASSUME TypeOK, loaded < Len(Wanted(want))
    PROVE  Due \in Engines
<1>1. Wanted(want) \in Seq(Engines) /\ Len(want.models) \in Nat
  BY ChainParts DEF TypeOK
<1>2. loaded + 1 \in 1..Len(Wanted(want))
  BY <1>1, LenProperties DEF TypeOK
<1> QED BY <1>1, <1>2, ElementOfSeq DEF Due

-----------------------------------------------------------------------------
(* What a step may do to the compiles. *)

LEMMA ProcsAreASequence ==
    ASSUME TypeOK
    PROVE  /\ procs \in Seq(Process) /\ Len(procs) \in 0..MaxProcs
           /\ DOMAIN procs = 1..Len(procs)
           /\ \A p \in DOMAIN procs :
                p \in 1..MaxProcs /\ procs[p] \in Process
<1>1. procs \in Seq(Process) /\ Len(procs) <= MaxProcs
  BY DEF TypeOK, Process
<1>2. /\ Len(procs) \in 0..MaxProcs /\ DOMAIN procs = 1..Len(procs)
      /\ \A p \in 1..Len(procs) : p \in 1..MaxProcs
  BY <1>1, LenProperties, Bounds
<1>3. \A p \in 1..Len(procs) : procs[p] \in Process
  BY <1>1, ElementOfSeq
<1> QED BY <1>1, <1>2, <1>3

LEMMA SetProcess ==
    ASSUME TypeOK, NEW p \in DOMAIN procs, NEW r \in Process,
           procs' = [procs EXCEPT ![p] = r]
    PROVE  /\ procs' \in Seq(Process) /\ Len(procs') = Len(procs)
           /\ DOMAIN procs' = DOMAIN procs
           /\ \A q \in DOMAIN procs :
                procs'[q] = IF q = p THEN r ELSE procs[q]
BY ProcsAreASequence, ExceptSeq, LenProperties

LEMMA AddProcess ==
    ASSUME TypeOK, NEW e \in Engines, Len(procs) < MaxProcs,
           procs' = Append(procs, Compile(e))
    PROVE  /\ procs' \in Seq(Process) /\ Len(procs') = Len(procs) + 1
           /\ DOMAIN procs' = DOMAIN procs \cup {Len(procs) + 1}
           /\ Len(procs) + 1 \notin DOMAIN procs
           /\ \A q \in DOMAIN procs : procs'[q] = procs[q]
           /\ procs'[Len(procs) + 1].phase = "compiling"
           /\ procs'[Len(procs) + 1].makes = e
<1>1. Compile(e) \in Process
  BY Bounds DEF Compile, Process, NoFile
<1>2. /\ procs' \in Seq(Process) /\ Len(procs') = Len(procs) + 1
      /\ DOMAIN procs' = 1..(Len(procs) + 1)
      /\ \A q \in 1..Len(procs) : procs'[q] = procs[q]
      /\ procs'[Len(procs) + 1] = Compile(e)
  BY <1>1, ProcsAreASequence, AppendProperties, LenProperties
<1>3. 1..(Len(procs) + 1) = 1..Len(procs) \cup {Len(procs) + 1}
  BY ProcsAreASequence
<1> QED BY <1>2, <1>3, ProcsAreASequence DEF Compile

LEMMA DeadSteps ==
    ASSUME TypeOK, NEW p, procs' = Dead(p)
    PROVE  /\ procs' \in Seq(Process) /\ Len(procs') = Len(procs)
           /\ DOMAIN procs' = DOMAIN procs
           /\ \A q \in DOMAIN procs :
                /\ procs'[q].makes = procs[q].makes
                /\ \/ procs'[q] = procs[q] /\ (q # p \/ ~Alive(q))
                   \/ Alive(q) /\ q = p /\ procs'[q].phase = "failed"
<1>0. /\ procs \in Seq(Process) /\ Len(procs) \in Nat
      /\ DOMAIN procs = 1..Len(procs)
      /\ \A q \in DOMAIN procs : procs[q] \in Process
  BY ProcsAreASequence
<1>1. procs' \in [1..Len(procs) -> Process]
  BY <1>0 DEF Dead, Process
<1>2. procs' \in Seq(Process)
  BY <1>0, <1>1, SeqDef
<1>3. DOMAIN procs' = DOMAIN procs /\ Len(procs') = Len(procs)
  BY <1>0, <1>1, <1>2, LenProperties
<1>4. \A q \in DOMAIN procs :
          /\ procs'[q].makes = procs[q].makes
          /\ \/ procs'[q] = procs[q] /\ (q # p \/ ~Alive(q))
             \/ Alive(q) /\ q = p /\ procs'[q].phase = "failed"
  BY <1>0 DEF Dead, Process
<1> QED BY <1>2, <1>3, <1>4

LEMMA CompilesSteps ==
    ASSUME TypeOK, NEW p \in DOMAIN procs, Compiles(p)
    PROVE  /\ procs' \in Seq(Process) /\ Len(procs') = Len(procs)
           /\ DOMAIN procs' = DOMAIN procs
           /\ \A q \in DOMAIN procs \ {p} : procs'[q] = procs[q]
           /\ Alive(p) /\ procs'[p].phase # "compiling"
           /\ procs'[p].makes = procs[p].makes
           /\ UNCHANGED <<build, workVars, failed, planVars, callerVars>>
<1>0. procs[p] \in Process /\ p \in 0..MaxProcs
  BY ProcsAreASequence
<1> DEFINE F(r) == /\ r \in Process /\ r.phase # "compiling"
                   /\ r.makes = procs[p].makes
                   /\ procs' = [procs EXCEPT ![p] = r]
<1>1. CASE Opens(p)
  <2> DEFINE f == IF tmp[procs[p].makes] = NoFile THEN p
                  ELSE tmp[procs[p].makes]
             r == [procs[p] EXCEPT !.phase = "opened", !.file = f]
  <2>1. procs[p].makes \in Engines
    BY <1>0 DEF Process
  <2>2. f \in 0..MaxProcs
    BY <1>0, <2>1 DEF TypeOK
  <2>3. F(r)
    BY <1>0, <1>1, <2>2 DEF Opens, Process
  <2> QED BY <1>1, <2>3, SetProcess DEF Opens, Alive
<1>2. ASSUME NEW from \in {"opened", "saving"}, NEW part,
             NEW to \in {"saving", "saved"}, Saves(p, from, part, to)
      PROVE  /\ F([procs[p] EXCEPT !.phase = to]) /\ Alive(p)
             /\ UNCHANGED <<build, workVars, failed, planVars, callerVars>>
  BY <1>0, <1>2 DEF Saves, Process, Alive
<1>3. CASE \/ Saves(p, "opened", "head", "saving")
           \/ Saves(p, "saving", "tail", "saved")
  BY <1>2, <1>3, SetProcess
<1>4. CASE Renames(p)
  <2>1. PICK to \in {"succeeded", "failed"} :
          procs' = [procs EXCEPT ![p].phase = to]
    BY <1>4 DEF Renames, RenamesAt
  <2>2. F([procs[p] EXCEPT !.phase = to])
    BY <1>0, <2>1 DEF Process
  <2> QED BY <1>4, <2>2, SetProcess DEF Renames, RenamesAt, Alive
<1>5. CASE Fails(p)
  <2>1. F([procs[p] EXCEPT !.phase = "failed"])
    BY <1>0, <1>5 DEF Fails, Process
  <2> QED BY <1>5, <2>1, SetProcess DEF Fails
<1> QED BY <1>1, <1>3, <1>4, <1>5 DEF Compiles

LEMMA SpawnSteps ==
    ASSUME TypeOK, Spawn
    PROVE  \/ \E e \in build.engine :
                /\ Len(procs) < MaxProcs
                /\ procs' = Append(procs, Compile(e))
                /\ kid' = Len(procs) + 1 /\ thread' = "store"
           \/ UNCHANGED procs /\ kid' = NoProc /\ thread' = "finish"
BY DEF Spawn

(* The steps that change compiles or files. *)
LEMMA MachineSteps ==
    ASSUME [Next]_vars
    PROVE  \/ \E p \in DOMAIN procs : Compiles(p)
           \/ Spawn \/ Heal \/ Kill \/ Crash \/ Look
           \/ UNCHANGED <<procVars, fileVars>>
<1> USE DEF vars, procVars, fileVars
<1>1. CASE Store \/ Reap \/ Unstore \/ Finish \/ SetDone
  BY <1>1 DEF Store, Reap, Unstore, Finish, SetDone, Moves
<1>2. CASE \/ UserConfigures \/ Reconfigure \/ NothingDue \/ Healed
           \/ Decide \/ Start
  BY <1>2 DEF UserConfigures, Reconfigure, ConfigureCall, NothingDue, Healed,
              Decide, Start
<1>3. CASE Poll \/ Destroy \/ DestroyReturns \/ Restart
  BY <1>3 DEF Poll, Polls, Destroy, DestroyReturns, Gone, Restart
<1> QED BY <1>1, <1>2, <1>3 DEF Next, Caller, InCall, Worker

(* The steps of the worker, those that make or end one, and the others. *)
LEMMA WorkerSteps ==
    ASSUME [Next]_vars
    PROVE  \/ Spawn \/ Store \/ Reap \/ Unstore \/ Finish \/ SetDone
           \/ Start \/ Poll \/ DestroyReturns \/ Crash
           \/ UNCHANGED <<build, thread, kid, failed>>
<1> USE DEF vars, workVars
<1>1. CASE \/ UserConfigures \/ Reconfigure \/ NothingDue \/ Look \/ Heal
           \/ Healed \/ Decide
  BY <1>1 DEF UserConfigures, Reconfigure, ConfigureCall, NothingDue, Look,
              Heal, Healed, Decide
<1>2. CASE Destroy \/ Kill \/ Restart
  BY <1>2 DEF Destroy, Kill, Restart
<1>3. CASE \E p \in DOMAIN procs : Compiles(p)
  BY <1>3 DEF Compiles, Opens, Saves, Renames, RenamesAt, Fails
<1> QED BY <1>1, <1>2, <1>3 DEF Next, Caller, InCall, Worker

(* The steps of the caller, and the others. *)
LEMMA CallerSteps ==
    ASSUME [Next]_vars
    PROVE  \/ UserConfigures \/ Reconfigure \/ NothingDue \/ Look \/ Heal
           \/ Healed \/ Decide \/ Start \/ Poll \/ Destroy \/ Kill
           \/ DestroyReturns \/ Crash \/ Restart
           \/ UNCHANGED <<planVars, callerVars>>
<1> USE DEF vars
<1>1. CASE Store \/ Reap \/ Unstore \/ Finish \/ SetDone
  BY <1>1 DEF Store, Reap, Unstore, Finish, SetDone, Moves
<1>2. CASE Spawn
  BY <1>2 DEF Spawn
<1>3. CASE \E p \in DOMAIN procs : Compiles(p)
  BY <1>3 DEF Compiles, Opens, Saves, Renames, RenamesAt, Fails
<1> QED BY <1>1, <1>2, <1>3 DEF Next, Caller, InCall, Worker

-----------------------------------------------------------------------------
(* Types. *)

ThreadTypes ==
    /\ build.engine \in {{}} \cup {{e} : e \in Engines}
    /\ build.child \in {NoProc, kid}
    /\ build.done => build.child = NoProc
    /\ build.reported => build.done
    /\ build.ok \in BOOLEAN
    /\ thread \in {"none", "spawn", "store", "wait", "unstore", "finish",
                   "flag", "ended"}
    /\ kid \in 0..Len(procs)
    /\ failed \subseteq Engines

CallTypes ==
    /\ want \in Chains \cup {NoChain} /\ loaded \in 0..Len(want.models)
    /\ rife \in {"off", "disabled", "deferred", "loaded"}
    /\ ans \in {"none", "active", "passthrough", "error"}
    /\ up \in BOOLEAN /\ told \in BOOLEAN /\ calls \in 0..MaxCalls
    /\ past \in {"quit", "died", "orphan"}
    /\ call \in {"idle", "look", "heal", "healing", "decide", "start",
                 "kill", "join", "gone"}
    /\ target \in 0..Len(procs)

MachineTypes ==
    /\ procs \in Seq(Process) /\ Len(procs) \in 0..MaxProcs
    /\ pieces \in [Procs -> SUBSET (Procs \X {"head", "tail"})]
    /\ tmp \in [Engines -> 0..MaxProcs]
    /\ cache \in [Engines -> Unusable..MaxProcs]

LEMMA ThreeParts ==
    /\ TypeOK <=> ThreadTypes /\ CallTypes /\ MachineTypes
    /\ TypeOK' <=> ThreadTypes' /\ CallTypes' /\ MachineTypes'
<1>1. \A s \in Seq(Process) :
          Len(s) <= MaxProcs <=> Len(s) \in 0..MaxProcs
  BY LenProperties, Bounds
<1>2. TypeOK <=> ThreadTypes /\ CallTypes /\ MachineTypes
  BY <1>1 DEF TypeOK, ThreadTypes, CallTypes, MachineTypes, Process
<1>3. TypeOK' <=> ThreadTypes' /\ CallTypes' /\ MachineTypes'
  BY <1>1 DEF TypeOK, ThreadTypes, CallTypes, MachineTypes, Process
<1> QED BY <1>2, <1>3

LEMMA SpawnAdds ==
    ASSUME TypeOK, Spawn, procs' # procs
    PROVE  \E e \in Engines :
             /\ Len(procs) < MaxProcs /\ procs' = Append(procs, Compile(e))
             /\ e \in build.engine
             /\ kid' = Len(procs) + 1 /\ thread' = "store"
BY SpawnSteps DEF TypeOK

LEMMA HealAdds ==
    ASSUME TypeOK, CallSound, Heal
    PROVE  \/ /\ Due \in Engines
              /\ Len(procs) < MaxProcs /\ procs' = Append(procs, Compile(Due))
              /\ target' = Len(procs) + 1 /\ Goes("healing")
              /\ UNCHANGED <<loaded, rife, ans>>
           \/ NotLoaded /\ UNCHANGED <<procs, target>>
BY DueIsAnEngine DEF Heal, CallSound

LEMMA MachineInv ==
    ASSUME IInv, [Next]_vars
    PROVE  /\ MachineTypes'
           /\ Len(procs) \in Nat /\ Len(procs') \in Nat
           /\ Len(procs') >= Len(procs)
<1>0. TypeOK /\ MachineTypes /\ CallSound /\ Len(procs) \in 0..MaxProcs
  BY ThreeParts, ProcsAreASequence DEF IInv
<1>1. /\ procs' \in Seq(Process) /\ Len(procs') \in 0..MaxProcs
      /\ Len(procs') >= Len(procs)
  <2> DEFINE P == /\ procs' \in Seq(Process) /\ Len(procs') \in 0..MaxProcs
                  /\ Len(procs') >= Len(procs)
  <2>1. ASSUME NEW p \in DOMAIN procs, Compiles(p)
        PROVE  P
    BY <1>0, <2>1, CompilesSteps
  <2>2. ASSUME NEW e \in Engines, Len(procs) < MaxProcs,
               procs' = Append(procs, Compile(e))
        PROVE  P
    BY <1>0, <2>2, AddProcess, Bounds
  <2>3. ASSUME NEW p, procs' = Dead(p)
        PROVE  P
    BY <1>0, <2>3, DeadSteps
  <2>4. ASSUME UNCHANGED procs
        PROVE  P
    BY <1>0, <2>4, ProcsAreASequence
  <2>5. ASSUME Spawn
        PROVE  P
    BY <1>0, <2>2, <2>4, <2>5, SpawnAdds
  <2>6. ASSUME Heal
        PROVE  P
    BY <1>0, <2>2, <2>4, <2>6, HealAdds
  <2>7. ASSUME Kill \/ Crash
        PROVE  P
    BY <2>3, <2>4, <2>7 DEF Kill, Crash
  <2>8. ASSUME Look
        PROVE  P
    BY <2>4, <2>8 DEF Look, procVars
  <2> HIDE DEF P
  <2>9. P
    <3>1. UNCHANGED <<procVars, fileVars>> => P
      BY <2>4 DEF procVars
    <3> QED BY <2>1, <2>5, <2>6, <2>7, <2>8, <3>1, MachineSteps
  <2> QED BY <2>9 DEF P
<1>2. /\ pieces' \in [Procs -> SUBSET (Procs \X {"head", "tail"})]
      /\ tmp' \in [Engines -> 0..MaxProcs]
      /\ cache' \in [Engines -> Unusable..MaxProcs]
  <2> DEFINE P == /\ pieces' \in [Procs -> SUBSET (Procs \X {"head", "tail"})]
                  /\ tmp' \in [Engines -> 0..MaxProcs]
                  /\ cache' \in [Engines -> Unusable..MaxProcs]
  <2>0. /\ pieces \in [Procs -> SUBSET (Procs \X {"head", "tail"})]
        /\ tmp \in [Engines -> 0..MaxProcs]
        /\ cache \in [Engines -> Unusable..MaxProcs]
        /\ NoFile \in Unusable..MaxProcs /\ NoFile \in 0..MaxProcs
        /\ \A e \in Engines : tmp[e] \in Unusable..MaxProcs
    BY <1>0, Bounds DEF MachineTypes, NoFile, Unusable
  <2>1. ASSUME NEW p \in DOMAIN procs, Compiles(p)
        PROVE  P
    <3>1. p \in 1..MaxProcs /\ procs[p].makes \in Engines
      BY <1>0, ProcsAreASequence DEF Process
    <3>2. CASE Opens(p)
      <4>1. PICK f \in 0..MaxProcs :
              /\ tmp' = [tmp EXCEPT ![procs[p].makes] = f]
              /\ pieces' = [pieces EXCEPT ![f] = {}]
              /\ UNCHANGED cache
        <5> DEFINE f == IF tmp[procs[p].makes] = NoFile THEN p
                        ELSE tmp[procs[p].makes]
        <5>1. f \in 0..MaxProcs
          BY <2>0, <3>1
        <5>2. /\ tmp' = [tmp EXCEPT ![procs[p].makes] = f]
              /\ pieces' = [pieces EXCEPT ![f] = {}]
              /\ UNCHANGED cache
          BY <3>2 DEF Opens
        <5> QED BY <5>1, <5>2
      <4> QED BY <2>0, <4>1
    <3>3. ASSUME NEW from, NEW part \in {"head", "tail"}, NEW to,
                 Saves(p, from, part, to)
          PROVE  P
      <4>1. <<p, part>> \in Procs \X {"head", "tail"}
        BY <3>1 DEF Procs
      <4>2. /\ pieces' = [pieces EXCEPT
                            ![procs[p].file] = @ \cup {<<p, part>>}]
            /\ UNCHANGED <<tmp, cache>>
        BY <3>3 DEF Saves, fileVars
      <4> QED BY <2>0, <4>1, <4>2
    <3>4. CASE Renames(p)
      <4>1. /\ tmp' = [tmp EXCEPT ![procs[p].makes] = NoFile]
            /\ UNCHANGED pieces
            /\ \/ cache' = [cache EXCEPT ![procs[p].makes]
                                              = tmp[procs[p].makes]]
               \/ UNCHANGED cache
        BY <3>4 DEF Renames, RenamesAt
      <4> QED BY <2>0, <4>1
    <3>5. CASE Fails(p)
      BY <2>0, <3>5 DEF Fails, fileVars
    <3> QED BY <2>1, <3>2, <3>3, <3>4, <3>5 DEF Compiles
  <2>2. ASSUME Look
        PROVE  P
    <3>1. /\ UNCHANGED <<pieces, tmp>>
          /\ cache' = cache \/ cache' = [cache EXCEPT ![Due] = NoFile]
      BY <2>2 DEF Look, procVars
    <3> QED BY <2>0, <3>1
  <2>3. ASSUME UNCHANGED <<pieces, fileVars>>
        PROVE  P
    BY <2>0, <2>3 DEF fileVars
  <2>5. Spawn \/ Heal \/ Kill \/ Crash => UNCHANGED <<pieces, fileVars>>
    BY DEF Spawn, Heal, Kill, Crash, Gone
  <2>6. UNCHANGED <<procVars, fileVars>> => UNCHANGED <<pieces, fileVars>>
    BY DEF procVars
  <2> HIDE DEF P
  <2>4. P
    BY <2>1, <2>2, <2>3, <2>5, <2>6, MachineSteps
  <2> QED BY <2>4 DEF P
<1> QED BY <1>0, <1>1, <1>2, Bounds DEF MachineTypes

-----------------------------------------------------------------------------
(* The worker. *)

Builds(n) == [engine : SUBSET Engines, child : 0..n, done : BOOLEAN,
              ok : BOOLEAN, reported : BOOLEAN]

(* What becomes of the BuildState; reported without done is not among it. *)
Becomes(engine, child) ==
    /\ build' \in Builds(Len(procs'))
    /\ build'.engine = engine /\ build'.child = child
    /\ build'.reported => build'.done

LEMMA BuildSteps ==
    ASSUME IInv, [Next]_vars
    PROVE  /\ Store => /\ Becomes(build.engine, kid)
                       /\ build'.done = build.done
           /\ Unstore => /\ Becomes(build.engine, NoProc)
                         /\ build'.done = build.done
           /\ Finish => /\ Becomes(build.engine, build.child)
                        /\ build'.done = build.done
           /\ SetDone => /\ Becomes(build.engine, build.child)
                         /\ build'.done
           /\ Poll => /\ Becomes(build.engine, build.child)
                      /\ build.done /\ build'.done
           /\ Start => Becomes({Due}, NoProc) /\ ~build'.done
           /\ DestroyReturns \/ Crash => Becomes({}, NoProc) /\ ~build'.done
<1>0. /\ TypeOK /\ CallSound
      /\ Len(procs) \in Nat /\ Len(procs') \in Nat
      /\ Len(procs') >= Len(procs)
  BY MachineInv DEF IInv
<1>1. /\ build \in Builds(Len(procs')) /\ kid \in 0..Len(procs')
      /\ NoProc \in 0..Len(procs')
      /\ build.reported => build.done
  <2>1. build \in Builds(Len(procs)) /\ kid \in 0..Len(procs)
    BY DEF IInv, WorkerSound, Builds, TypeOK
  <2> QED BY <1>0, <2>1 DEF Builds, TypeOK, NoProc
<1>2. ASSUME Store
      PROVE  Becomes(build.engine, kid) /\ build'.done = build.done
  <2>1. build' = [build EXCEPT !.child = kid]
    BY <1>2 DEF Store
  <2> QED BY <1>1, <2>1 DEF Becomes, Builds
<1>3. ASSUME Unstore
      PROVE  Becomes(build.engine, NoProc) /\ build'.done = build.done
  <2>1. build' = [build EXCEPT !.child = NoProc]
    BY <1>3 DEF Unstore
  <2> QED BY <1>1, <2>1 DEF Becomes, Builds
<1>4. ASSUME Finish
      PROVE  Becomes(build.engine, build.child) /\ build'.done = build.done
  <2> DEFINE o == Exited /\ \A e \in build.engine : Cached(e)
  <2>1. build' = [build EXCEPT !.ok = o] /\ o \in BOOLEAN
    BY <1>4 DEF Finish
  <2> HIDE DEF o
  <2> QED BY <1>1, <2>1 DEF Becomes, Builds
<1>5. ASSUME SetDone
      PROVE  Becomes(build.engine, build.child) /\ build'.done
  <2>1. build' = [build EXCEPT !.done = TRUE]
    BY <1>5 DEF SetDone
  <2> QED BY <1>1, <2>1 DEF Becomes, Builds
<1>6. ASSUME Poll
      PROVE  Becomes(build.engine, build.child) /\ build.done /\ build'.done
  <2>1. build' = [build EXCEPT !.reported = TRUE] /\ build.done
    BY <1>6 DEF Poll, Polls
  <2> QED BY <1>1, <2>1 DEF Becomes, Builds
<1>7. ASSUME Start
      PROVE  Becomes({Due}, NoProc) /\ ~build'.done
  <2>1. build' = [NoBuild EXCEPT !.engine = {Due}] /\ Due \in Engines
    BY <1>0, <1>7, DueIsAnEngine DEF Start, CallSound
  <2> QED BY <1>1, <2>1 DEF NoBuild, Becomes, Builds
<1>8. ASSUME DestroyReturns \/ Crash
      PROVE  Becomes({}, NoProc) /\ ~build'.done
  <2>1. build' = NoBuild
    BY <1>8 DEF DestroyReturns, Crash, Gone
  <2> QED BY <1>1, <2>1 DEF NoBuild, Becomes, Builds
<1> QED BY <1>2, <1>3, <1>4, <1>5, <1>6, <1>7, <1>8

LEMMA KidIsAProcess ==
    ASSUME TypeOK, kid # NoProc
    PROVE  kid \in DOMAIN procs
<1>1. kid \in 0..Len(procs) /\ Len(procs) \in Nat
  BY ProcsAreASequence DEF TypeOK
<1> QED BY <1>1, ProcsAreASequence DEF NoProc

(* No compile comes alive but a new one. *)
LEMMA AliveSteps ==
    ASSUME TypeOK, CallSound, [Next]_vars, NEW p \in DOMAIN procs
    PROVE  /\ p \in DOMAIN procs'
           /\ procs'[p].makes = procs[p].makes
           /\ Alive(p)' => Alive(p)
<1> DEFINE Same == /\ p \in DOMAIN procs'
                   /\ procs'[p].makes = procs[p].makes
                   /\ Alive(p)' => Alive(p)
<1>1. ASSUME NEW q \in DOMAIN procs, Compiles(q)
      PROVE  Same
  <2>1. CASE p = q
    BY <1>1, <2>1, CompilesSteps
  <2>2. CASE p # q
    BY <1>1, <2>2, CompilesSteps DEF Alive
  <2> QED BY <2>1, <2>2
<1>2. ASSUME NEW e \in Engines, Len(procs) < MaxProcs,
             procs' = Append(procs, Compile(e))
      PROVE  Same
  BY <1>2, AddProcess DEF Alive
<1>3. ASSUME NEW t, procs' = Dead(t)
      PROVE  Same
  BY <1>3, DeadSteps DEF Alive
<1>4. ASSUME UNCHANGED procs
      PROVE  Same
  BY <1>4 DEF Alive
<1>5. Spawn => Same
  BY <1>2, <1>4, SpawnAdds
<1>6. Heal => Same
  BY <1>2, <1>4, HealAdds
<1>7. Kill \/ Crash => Same
  BY <1>3, <1>4 DEF Kill, Crash
<1>8. Look \/ UNCHANGED <<procVars, fileVars>> => Same
  BY <1>4 DEF Look, procVars
<1> HIDE DEF Same
<1>9. Same
  BY <1>1, <1>5, <1>6, <1>7, <1>8, MachineSteps
<1> QED BY <1>9 DEF Same

LEMMA WorkerInv ==
    ASSUME IInv, [Next]_vars
    PROVE  WorkerSound' /\ ThreadTypes'
<1>0. /\ TypeOK /\ ThreadTypes /\ WorkerSound /\ CallSound
      /\ Len(procs) \in Nat /\ Len(procs') \in Nat
      /\ Len(procs') >= Len(procs)
  BY ThreeParts, MachineInv DEF IInv
<1> DEFINE Shape ==
        /\ build \in [engine : SUBSET Engines, child : 0..Len(procs),
                      done : BOOLEAN, ok : BOOLEAN, reported : BOOLEAN]
        /\ build.engine \in {{}} \cup {{e} : e \in Engines}
        /\ build.reported => build.done
        /\ kid \in 0..Len(procs)
<1> DEFINE Atomics ==
        /\ thread \in {"none", "spawn", "store", "wait", "unstore", "finish",
                       "flag", "ended"}
        /\ build.done <=> thread = "ended"
        /\ thread # "none" => \E e \in Engines : build.engine = {e}
        /\ build.child = IF thread \in {"wait", "unstore"} THEN kid ELSE NoProc
        /\ thread \in {"store", "wait", "unstore"} => kid # NoProc
<1> DEFINE Kid ==
        /\ HasKid => procs[kid].makes \in build.engine
        /\ HasKid /\ thread \in {"unstore", "finish"} => ~Alive(kid)
<1>1. Shape /\ Atomics /\ Kid
  BY <1>0 DEF WorkerSound, ThreadTypes
<1>2. Start => Due \in Engines
  BY <1>0, DueIsAnEngine DEF CallSound, Start
<1>3. Spawn => /\ thread = "spawn" /\ UNCHANGED <<build, failed>>
               /\ \/ /\ thread' = "store" /\ kid' # NoProc
                     /\ kid' = Len(procs')
                     /\ procs'[kid'].makes \in build.engine
                  \/ thread' = "finish" /\ kid' = NoProc
  <2> SUFFICES ASSUME Spawn
               PROVE  /\ thread = "spawn" /\ UNCHANGED <<build, failed>>
                      /\ \/ /\ thread' = "store" /\ kid' # NoProc
                            /\ kid' = Len(procs')
                            /\ procs'[kid'].makes \in build.engine
                         \/ thread' = "finish" /\ kid' = NoProc
    OBVIOUS
  <2>1. thread = "spawn" /\ UNCHANGED <<build, failed>>
    BY DEF Spawn
  <2>2. ASSUME NEW e \in build.engine, Len(procs) < MaxProcs,
               procs' = Append(procs, Compile(e)), kid' = Len(procs) + 1
        PROVE  /\ kid' # NoProc /\ kid' = Len(procs')
               /\ procs'[kid'].makes \in build.engine
    <3>1. e \in Engines
      BY <1>1
    <3> QED BY <1>0, <2>2, <3>1, AddProcess DEF NoProc
  <2> QED BY <1>0, <2>1, <2>2, SpawnSteps
<1>4. Shape'
  <2>1. CASE Spawn
    <3>1. /\ UNCHANGED build /\ kid' \in {NoProc, Len(procs')}
          /\ build \in Builds(Len(procs))
      BY <1>0, <1>1, <1>3, <2>1 DEF Builds
    <3> QED BY <1>0, <1>1, <3>1 DEF Builds, NoProc
  <2>2. ASSUME NEW e, NEW c, Becomes(e, c),
               e \in {{}} \cup {{x} : x \in Engines}, kid' \in {kid, NoProc}
        PROVE  Shape'
    BY <1>0, <1>1, <2>2 DEF Becomes, Builds, NoProc
  <2>3. CASE Store \/ Unstore \/ Finish \/ SetDone
    <3>1. kid' = kid
      BY <2>3 DEF Store, Unstore, Finish, SetDone, Moves
    <3> QED BY <1>1, <2>2, <2>3, <3>1, BuildSteps
  <2>4. CASE Poll
    <3>1. kid' = kid
      BY <2>4 DEF Poll, Polls, workVars
    <3> QED BY <1>1, <2>2, <2>4, <3>1, BuildSteps
  <2>5. CASE Start \/ DestroyReturns \/ Crash
    <3>1. kid' = NoProc
      BY <2>5 DEF Start, DestroyReturns, Crash, Gone
    <3> QED BY <1>2, <2>2, <2>5, <3>1, BuildSteps
  <2>6. CASE Reap \/ UNCHANGED <<build, thread, kid, failed>>
    <3>1. UNCHANGED <<build, kid>>
      BY <2>6 DEF Reap, Moves
    <3>2. build \in Builds(Len(procs))
      BY <1>1 DEF Builds
    <3> QED BY <1>0, <1>1, <3>1, <3>2 DEF Builds
  <2> QED BY <2>1, <2>3, <2>4, <2>5, <2>6, WorkerSteps
<1>5. Atomics'
  <2>1. CASE Spawn
    BY <1>1, <1>3, <2>1
  <2>2. CASE Store \/ Unstore
    BY <1>0, <1>1, <2>2, BuildSteps DEF Becomes, Store, Unstore, Moves
  <2>3. CASE Finish \/ SetDone
    BY <1>0, <1>1, <2>3, BuildSteps DEF Becomes, Finish, SetDone, Moves
  <2>4. CASE Start
    BY <1>0, <1>2, <2>4, BuildSteps DEF Becomes, Start
  <2>5. CASE Poll
    BY <1>0, <1>1, <2>5, BuildSteps DEF Becomes, Poll, Polls, workVars
  <2>6. CASE DestroyReturns \/ Crash
    <3>1. thread' = "none" /\ kid' = NoProc
      BY <2>6 DEF DestroyReturns, Crash, Gone
    <3>2. build'.child = NoProc /\ build'.done = FALSE
      BY <1>0, <2>6, BuildSteps DEF Becomes
    <3> QED BY <3>1, <3>2
  <2>7. CASE Reap \/ UNCHANGED <<build, thread, kid, failed>>
    BY <1>1, <2>7 DEF Reap, Moves
  <2> QED BY <2>1, <2>2, <2>3, <2>4, <2>5, <2>6, <2>7, WorkerSteps
<1>6. Kid'
  <2>1. CASE Spawn
    BY <1>3, <2>1 DEF HasKid
  <2>2. CASE ~Spawn /\ HasKid'
    <3>1. /\ ~SetDone /\ ~Start /\ ~DestroyReturns /\ ~Crash /\ ~Finish
      BY <2>2 DEF HasKid, Finish, SetDone, Moves, Start, DestroyReturns,
                  Crash, Gone
    <3>2. /\ HasKid /\ kid' = kid /\ build'.engine = build.engine
          /\ thread' \in {"unstore", "finish"} =>
               thread \in {"unstore", "finish"} \/ ~Alive(kid)
      <4>1. CASE Store \/ Unstore
        BY <1>0, <2>2, <4>1, BuildSteps
           DEF Becomes, Store, Unstore, Moves, HasKid
      <4>2. CASE Reap \/ UNCHANGED <<build, thread, kid, failed>>
        BY <2>2, <4>2 DEF Reap, Moves, HasKid
      <4>3. CASE Poll
        BY <1>0, <2>2, <4>3, BuildSteps
           DEF Becomes, Poll, Polls, workVars, HasKid
      <4> QED BY <2>2, <3>1, <4>1, <4>2, <4>3, WorkerSteps
    <3>3. /\ procs'[kid].makes = procs[kid].makes
          /\ Alive(kid)' => Alive(kid)
      <4>1. kid \in DOMAIN procs
        BY <1>0, <3>2, KidIsAProcess DEF HasKid
      <4> QED BY <1>0, <3>2, <4>1, AliveSteps DEF Alive
    <3> QED BY <1>1, <3>2, <3>3
  <2>3. CASE ~HasKid'
    BY <2>3
  <2> QED BY <2>1, <2>2, <2>3
<1>7. failed' \subseteq Engines
  <2>1. CASE Poll
    BY <1>0, <2>1 DEF Poll, ThreadTypes
  <2>2. CASE DestroyReturns \/ Crash
    BY <2>2 DEF DestroyReturns, Crash, Gone
  <2>3. CASE UNCHANGED failed
    BY <1>0, <2>3 DEF ThreadTypes
  <2> QED BY <2>1, <2>2, <2>3, WorkerSteps
          DEF Spawn, Store, Reap, Unstore, Finish, SetDone, Moves, Start
<1> HIDE DEF Kid
<1>8. ThreadTypes'
  BY <1>4, <1>5, <1>7 DEF ThreadTypes
<1> QED BY <1>4, <1>5, <1>6, <1>8 DEF WorkerSound, Kid

-----------------------------------------------------------------------------
(* The caller. *)

(* What a configure leaves for the next step to find. *)
Leaves(to) ==
    /\ call' \in to
    /\ loaded' \in 0..Len(want.models)
    /\ rife' \in {"off", "disabled", "deferred", "loaded"}
    /\ ans' \in {"none", "active", "passthrough", "error"}
    /\ UNCHANGED <<up, told, calls, past, want>>

(* How a configure goes on from an engine, or ends. *)
LEMMA Outcomes ==
    ASSUME CallTypes,
           Completes("off") \/ EngineLoaded \/ NotLoaded \/ NoSecondTry
             \/ Deferred
    PROVE  Leaves({"look", "idle"})
<1>1. /\ Len(want.models) \in Nat /\ loaded \in 0..Len(want.models)
      /\ rife \in {"off", "disabled", "deferred", "loaded"}
      /\ ans \in {"none", "active", "passthrough", "error"}
  BY ChainParts DEF CallTypes
<1>2. ASSUME NEW how \in {"off", "disabled", "loaded"}, Completes(how)
      PROVE  Leaves({"look", "idle"})
  BY <1>1, <1>2 DEF Completes, Goes, Leaves
<1>3. ASSUME NEW how \in {"off", "disabled", "deferred", "loaded"},
             PassesThrough(how)
      PROVE  Leaves({"look", "idle"})
  BY <1>1, <1>3 DEF PassesThrough, Goes, Leaves
<1>4. ASSUME NotLoaded
      PROVE  Leaves({"look", "idle"})
  BY <1>1, <1>2, <1>4 DEF NotLoaded, Goes, Leaves
<1>5. ASSUME EngineLoaded
      PROVE  Leaves({"look", "idle"})
  BY <1>1, <1>2, <1>5 DEF EngineLoaded, ModelLoaded, Goes, AtRife, Leaves
<1>6. ASSUME NoSecondTry
      PROVE  Leaves({"look", "idle"})
  BY <1>1, <1>2, <1>3, <1>6 DEF NoSecondTry
<1>7. ASSUME Deferred
      PROVE  Leaves({"look", "idle"})
  <2>1. (IF AtRife THEN "deferred" ELSE rife)
          \in {"off", "disabled", "deferred", "loaded"}
    BY <1>1
  <2> QED BY <1>3, <1>7, <2>1 DEF Deferred
<1> QED BY <1>2, <1>4, <1>5, <1>6, <1>7

Configures == NothingDue \/ Look \/ Heal \/ Healed \/ Decide \/ Start

(* A configure ends or goes on, or takes the next step with the engine it  *)
(* has come to.                                                            *)
LEMMA ConfigureSteps ==
    ASSUME CallTypes, Configures
    PROVE  /\ call \in {"look", "heal", "healing", "decide", "start"}
           /\ \/ Leaves({"look", "idle"})
              \/ /\ Leaves({"heal", "healing", "decide", "start"})
                 /\ UNCHANGED loaded
<1>1. call \in {"look", "heal", "healing", "decide", "start"}
  BY DEF Configures, NothingDue, Look, Heal, Healed, Decide, Start
<1>2. ASSUME NEW to \in {"heal", "healing", "decide", "start"}, Goes(to),
             UNCHANGED <<loaded, rife, ans>>
      PROVE  /\ Leaves({"heal", "healing", "decide", "start"})
             /\ UNCHANGED loaded
  BY <1>2 DEF Goes, Leaves, CallTypes
<1>3. NothingDue => Completes("off")
  BY DEF NothingDue
<1>4. Look => \/ EngineLoaded \/ NotLoaded
              \/ /\ Goes("decide") \/ Goes("heal")
                 /\ UNCHANGED <<loaded, rife, ans>>
  BY DEF Look
<1>5. Heal => \/ NotLoaded
              \/ Goes("healing") /\ UNCHANGED <<loaded, rife, ans>>
  BY DEF Heal
<1>6. Healed => EngineLoaded \/ NotLoaded
  BY DEF Healed
<1>7. Decide => \/ NoSecondTry \/ Deferred
                \/ Goes("start") /\ UNCHANGED <<loaded, rife, ans>>
  BY DEF Decide
<1>8. Start => Deferred
  BY DEF Start
<1>9. \/ Leaves({"look", "idle"})
      \/ /\ Leaves({"heal", "healing", "decide", "start"})
         /\ UNCHANGED loaded
  BY <1>2, <1>3, <1>4, <1>5, <1>6, <1>7, <1>8, Outcomes DEF Configures
<1> QED BY <1>1, <1>9

(* What the compile that the caller waits for, or kills, may become. *)
LEMMA TargetSteps ==
    ASSUME IInv, [Next]_vars
    PROVE  /\ target' \in 0..Len(procs')
           /\ call' = "healing" => target' \in DOMAIN procs'
<1>0. /\ TypeOK /\ CallSound /\ WorkerSound /\ MachineTypes'
      /\ Len(procs) \in Nat /\ Len(procs') \in Nat
      /\ Len(procs') >= Len(procs) /\ target \in 0..Len(procs)
      /\ procs' \in Seq(Process)
  BY ThreeParts, MachineInv DEF IInv, CallTypes, MachineTypes
<1>1. DOMAIN procs = 1..Len(procs) /\ DOMAIN procs' = 1..Len(procs')
  BY <1>0, ProcsAreASequence, LenProperties
<1>2. CASE UNCHANGED target /\ (call' = "healing" => call = "healing")
  BY <1>0, <1>1, <1>2 DEF CallSound
<1>3. CASE target' = NoProc /\ call' # "healing"
  BY <1>0, <1>3 DEF NoProc
<1>4. CASE Heal
  <2>1. ASSUME Due \in Engines, Len(procs) < MaxProcs,
               procs' = Append(procs, Compile(Due)),
               target' = Len(procs) + 1
        PROVE  target' \in 1..Len(procs')
    BY <1>0, <2>1, AddProcess
  <2>2. ASSUME NotLoaded
        PROVE  call' # "healing"
    BY <2>2 DEF NotLoaded, Completes, Goes
  <2>3. target' \in 1..Len(procs') \/ (UNCHANGED target /\ call' # "healing")
    BY <1>0, <1>4, <2>1, <2>2, HealAdds
  <2> QED BY <1>0, <1>1, <1>2, <2>3
<1>5. CASE Healed
  <2>1. call' # "healing"
    BY <1>5 DEF Healed, EngineLoaded, NotLoaded, ModelLoaded, Completes, Goes
  <2> QED BY <1>3, <1>5, <2>1 DEF Healed
<1>6. CASE Destroy
  <2>1. build.child \in 0..Len(procs)
    BY <1>0 DEF WorkerSound
  <2> QED BY <1>0, <1>6, <2>1 DEF Destroy
<1>7. CASE Crash \/ DestroyReturns
  BY <1>3, <1>7 DEF Crash, DestroyReturns, Gone
<1>8. CASE UserConfigures \/ Reconfigure \/ Poll \/ Kill \/ Restart
  BY <1>2, <1>8 DEF UserConfigures, Reconfigure, ConfigureCall, Poll, Polls,
                    Kill, Restart
<1>9. CASE NothingDue \/ Start \/ Decide \/ Look
  BY <1>2, <1>9
     DEF NothingDue, Start, Decide, Look, EngineLoaded, NotLoaded,
         ModelLoaded, Completes, PassesThrough, Deferred, NoSecondTry, Goes
<1>10. CASE UNCHANGED <<planVars, callerVars>>
  BY <1>2, <1>10 DEF callerVars
<1> QED
  BY <1>4, <1>5, <1>6, <1>7, <1>8, <1>9, <1>10, CallerSteps

(* A worker that is not there stays away, and one that has ended stays so, *)
(* until a configure starts another or the context goes.                   *)
LEMMA ThreadSteps ==
    ASSUME [Next]_vars, thread \in {"none", "ended"}
    PROVE  thread' = thread \/ Start \/ DestroyReturns \/ Crash
BY WorkerSteps DEF Spawn, Store, Reap, Unstore, Finish, SetDone, Moves, Poll,
                   Polls, workVars

LEMMA CallInv ==
    ASSUME IInv, [Next]_vars
    PROVE  CallTypes' /\ CallSound'
<1>0. /\ TypeOK /\ CallTypes /\ CallSound /\ WorkerSound
      /\ MaxCalls \in Nat /\ Len(want.models) \in Nat
      /\ Len(Wanted(want)) \in Nat
  <2>1. TypeOK /\ CallTypes /\ CallSound /\ WorkerSound
    BY ThreeParts DEF IInv
  <2>2. Wanted(want) \in Seq(Engines) /\ Len(want.models) \in Nat
    BY <2>1, ChainParts DEF CallTypes
  <2> QED BY <2>1, <2>2, Bounds, LenProperties
<1> DEFINE Types ==
        /\ want \in Chains \cup {NoChain} /\ loaded \in 0..Len(want.models)
        /\ rife \in {"off", "disabled", "deferred", "loaded"}
        /\ ans \in {"none", "active", "passthrough", "error"}
        /\ up \in BOOLEAN /\ told \in BOOLEAN /\ calls \in 0..MaxCalls
        /\ past \in {"quit", "died", "orphan"}
        /\ call \in {"idle", "look", "heal", "healing", "decide", "start",
                     "kill", "join", "gone"}
<1> DEFINE Sound ==
        /\ up <=> call # "gone"
        /\ ~up => thread = "none"
        /\ told => thread = "ended" /\ call \in {"idle", "kill", "join"}
        /\ call \in {"heal", "healing", "decide", "start"} =>
             loaded < Len(Wanted(want))
<1>1. Types /\ Sound
  BY <1>0 DEF CallTypes, CallSound
<1>2. ASSUME Configures
      PROVE  Types' /\ Sound'
  <2>1. /\ call \in {"look", "heal", "healing", "decide", "start"}
        /\ call' \in {"look", "idle", "heal", "healing", "decide", "start"}
        /\ loaded' \in 0..Len(want.models)
        /\ rife' \in {"off", "disabled", "deferred", "loaded"}
        /\ ans' \in {"none", "active", "passthrough", "error"}
        /\ UNCHANGED <<up, told, calls, past, want>>
        /\ call' \in {"look", "idle"} \/ UNCHANGED loaded
    BY <1>0, <1>2, ConfigureSteps DEF Leaves
  <2>2. call # "look" \/ Look \/ NothingDue
    BY <1>2 DEF Configures, Heal, Healed, Decide, Start
  <2>3. call' \in {"heal", "healing", "decide", "start"} =>
          loaded < Len(Wanted(want))
    <3>1. NothingDue => call' = "idle"
      BY DEF NothingDue, Completes, Goes
    <3>2. Look => loaded < Len(Wanted(want))
      BY DEF Look
    <3> QED BY <1>1, <2>1, <2>2, <3>1, <3>2
  <2> QED BY <1>1, <2>1, <2>3
<1>3. ASSUME NEW c \in Chains \cup {NoChain}, ConfigureCall(c),
             calls' \in 0..MaxCalls
      PROVE  Types' /\ Sound'
  <2>1. /\ want' = c /\ loaded' = 0 /\ rife' = "off" /\ told' = FALSE
        /\ call' = "look" /\ call = "idle" /\ up
        /\ UNCHANGED <<thread, ans, up, past>>
    BY <1>3 DEF ConfigureCall, workVars
  <2>2. Len(c.models) \in Nat
    BY ChainParts
  <2>3. 0 \in 0..Len(c.models)
    BY <2>2
  <2> QED BY <1>1, <1>3, <2>1, <2>3
<1>4. ASSUME UserConfigures
      PROVE  Types' /\ Sound'
  BY <1>0, <1>1, <1>3, <1>4 DEF UserConfigures
<1>5. ASSUME Reconfigure
      PROVE  Types' /\ Sound'
  BY <1>1, <1>3, <1>5 DEF Reconfigure
<1>6. ASSUME Poll
      PROVE  Types' /\ Sound'
  <2>1. /\ build.done /\ told' = TRUE /\ call = "idle"
        /\ UNCHANGED <<thread, want, loaded, rife, ans, up, call, calls,
                       past>>
    BY <1>6 DEF Poll, Polls, workVars, planVars
  <2>2. thread = "ended"
    BY <1>0, <2>1 DEF WorkerSound
  <2> QED BY <1>1, <2>1, <2>2
<1>7. ASSUME Destroy \/ Kill
      PROVE  Types' /\ Sound'
  BY <1>1, <1>7 DEF Destroy, Kill, workVars, planVars
<1>8. ASSUME DestroyReturns \/ Crash
      PROVE  Types' /\ Sound'
  <2>1. Gone /\ past' \in {"quit", "died", "orphan"}
    BY <1>1, <1>8 DEF DestroyReturns, Crash
  <2>2. Len(<< >>) = 0 /\ 0 \in 0..0
    BY EmptySeq
  <2>3. NoChain.models = << >>
    BY DEF NoChain
  <2> QED BY <1>1, <2>1, <2>2, <2>3 DEF Gone
<1>9. ASSUME Restart
      PROVE  Types' /\ Sound'
  BY <1>0, <1>1, <1>9 DEF Restart, workVars, planVars
<1>10. ASSUME UNCHANGED <<planVars, callerVars>>, ~Start, ~DestroyReturns,
              ~Crash
       PROVE  Types' /\ Sound'
  <2>1. UNCHANGED <<want, loaded, rife, ans, up, told, calls, past, call>>
    BY <1>10 DEF planVars, callerVars
  <2>2. thread \in {"none", "ended"} => thread' = thread
    BY <1>10, ThreadSteps
  <2> QED BY <1>1, <2>1, <2>2
<1>11. Types' /\ Sound'
  <2> HIDE DEF Types, Sound
  <2> QED BY <1>2, <1>4, <1>5, <1>6, <1>7, <1>8, <1>9, <1>10, CallerSteps
          DEF Configures
<1> QED BY <1>11, TargetSteps DEF CallTypes, CallSound

-----------------------------------------------------------------------------
(* The files. *)

(* A compile creates its file anew, or empties the one it finds.           *)
LEMMA OpensSteps ==
    ASSUME TypeOK, FilesApart, NEW p \in DOMAIN procs, Opens(p)
    PROVE  \E e \in Engines, f \in Procs :
             /\ e = procs[p].makes
             /\ f = tmp[e] \/ (tmp[e] = NoFile /\ f = p)
             /\ f <= Len(procs)
             /\ procs'[p].phase = "opened" /\ procs'[p].file = f
             /\ procs'[p].makes = e
             /\ tmp' = [tmp EXCEPT ![e] = f]
             /\ pieces' = [pieces EXCEPT ![f] = {}]
             /\ \A d \in Engines : /\ cache[d] # f
                                   /\ tmp[d] = f => d = e
<1> DEFINE e == procs[p].makes
           f == IF tmp[e] = NoFile THEN p ELSE tmp[e]
<1>1. /\ procs[p] \in Process /\ p \in 1..Len(procs)
      /\ Len(procs) \in 0..MaxProcs
  BY ProcsAreASequence
<1>2. /\ e \in Engines /\ f \in Procs /\ f <= Len(procs)
  <2>1. e \in Engines
    BY <1>1 DEF Process
  <2>2. tmp[e] \in 0..MaxProcs /\ tmp[e] <= Len(procs)
    BY <2>1 DEF TypeOK, FilesApart
  <2> QED BY <1>1, <2>1, <2>2, Bounds DEF Procs, NoFile
<1>3. /\ procs' = [procs EXCEPT ![p].phase = "opened", ![p].file = f]
      /\ tmp' = [tmp EXCEPT ![e] = f]
      /\ pieces' = [pieces EXCEPT ![f] = {}]
      /\ procs[p].phase = "compiling"
  BY DEF Opens
<1>4. /\ procs'[p].phase = "opened" /\ procs'[p].file = f
      /\ procs'[p].makes = e
  BY <1>1, <1>3 DEF Process
<1>5. ASSUME NEW d \in Engines
      PROVE  cache[d] # f /\ (tmp[d] = f => d = e)
  <2>1. CASE tmp[e] = NoFile
    BY <1>3, <2>1 DEF FilesApart
  <2>2. CASE tmp[e] # NoFile
    BY <1>2, <2>2 DEF FilesApart
  <2> QED BY <2>1, <2>2
<1>6. f = tmp[e] \/ (tmp[e] = NoFile /\ f = p)
  OBVIOUS
<1>7. e = procs[p].makes
  OBVIOUS
<1> HIDE DEF f, e
<1> QED BY <1>2, <1>3, <1>4, <1>5, <1>6, <1>7

LEMMA SavesSteps ==
    ASSUME TypeOK, NEW p \in DOMAIN procs, NEW from, NEW part, NEW to,
           Saves(p, from, part, to)
    PROVE  /\ procs[p].phase = from /\ procs'[p].phase = to
           /\ procs'[p].file = procs[p].file
           /\ procs'[p].makes = procs[p].makes
           /\ pieces' = [pieces EXCEPT
                            ![procs[p].file] = @ \cup {<<p, part>>}]
           /\ UNCHANGED fileVars
<1>1. procs[p] \in Process
  BY ProcsAreASequence
<1>2. procs' = [procs EXCEPT ![p].phase = to] /\ procs[p].phase = from
  BY DEF Saves
<1>3. /\ procs'[p].phase = to /\ procs'[p].file = procs[p].file
      /\ procs'[p].makes = procs[p].makes
  BY <1>1, <1>2 DEF Process
<1> QED BY <1>2, <1>3 DEF Saves

(* A rename takes the temporary file away, and may publish it.             *)
LEMMA RenamesSteps ==
    ASSUME TypeOK, NEW p \in DOMAIN procs, Renames(p)
    PROVE  \E e \in Engines :
             /\ e = procs[p].makes /\ procs[p].phase = "saved"
             /\ \A d \in Engines :
                  /\ tmp'[d] = IF d = e THEN NoFile ELSE tmp[d]
                  /\ \/ cache'[d] = cache[d]
                     \/ /\ d = e /\ tmp[e] # NoFile
                        /\ cache'[d] = tmp[e]
             /\ ~Alive(p)'
             /\ UNCHANGED pieces
<1> DEFINE e == procs[p].makes
<1>1. procs[p] \in Process /\ e \in Engines
  BY ProcsAreASequence DEF Process
<1>2. /\ procs[p].phase = "saved"
      /\ tmp' = [tmp EXCEPT ![e] = NoFile]
      /\ \/ tmp[e] # NoFile /\ cache' = [cache EXCEPT ![e] = tmp[e]]
         \/ UNCHANGED cache
      /\ \E to \in {"succeeded", "failed"} :
           procs' = [procs EXCEPT ![p].phase = to]
      /\ UNCHANGED pieces
  BY DEF Renames, RenamesAt
<1>3. ~Alive(p)'
  BY <1>1, <1>2 DEF Alive, Process
<1>4. ASSUME NEW d \in Engines
      PROVE  /\ tmp'[d] = IF d = e THEN NoFile ELSE tmp[d]
             /\ \/ cache'[d] = cache[d]
                \/ d = e /\ tmp[e] # NoFile /\ cache'[d] = tmp[e]
  BY <1>2 DEF TypeOK
<1> QED BY <1>1, <1>2, <1>3, <1>4

(* Where the compiles of the next state come from.                         *)
LEMMA ComesFrom ==
    ASSUME TypeOK, CallSound, [Next]_vars, NEW p \in DOMAIN procs'
    PROVE  \/ p \in DOMAIN procs
           \/ /\ p = Len(procs) + 1 /\ procs'[p].phase = "compiling"
              /\ \/ Spawn /\ p = kid' /\ thread' = "store"
                 \/ /\ Heal /\ p = target' /\ call' = "healing"
                    /\ procs'[p].makes = Due
<1> DEFINE P == \/ p \in DOMAIN procs
                \/ /\ p = Len(procs) + 1 /\ procs'[p].phase = "compiling"
                   /\ \/ Spawn /\ p = kid' /\ thread' = "store"
                      \/ /\ Heal /\ p = target' /\ call' = "healing"
                         /\ procs'[p].makes = Due
<1>1. ASSUME NEW q \in DOMAIN procs, Compiles(q)
      PROVE  P
  BY <1>1, CompilesSteps
<1>2. ASSUME NEW e \in Engines, Len(procs) < MaxProcs,
             procs' = Append(procs, Compile(e))
      PROVE  \/ p \in DOMAIN procs
             \/ /\ p = Len(procs) + 1 /\ procs'[p].phase = "compiling"
                /\ procs'[p].makes = e
  BY <1>2, AddProcess
<1>3. ASSUME NEW t, procs' = Dead(t)
      PROVE  P
  BY <1>3, DeadSteps
<1>4. ASSUME UNCHANGED procs
      PROVE  P
  BY <1>4
<1>5. Spawn => P
  BY <1>2, <1>4, SpawnAdds
<1>6. Heal => P
  BY <1>2, <1>4, HealAdds DEF Goes
<1>7. Kill \/ Crash => P
  BY <1>3, <1>4 DEF Kill, Crash
<1>8. Look \/ UNCHANGED <<procVars, fileVars>> => P
  BY <1>4 DEF Look, procVars
<1> HIDE DEF P
<1>9. P
  BY <1>1, <1>5, <1>6, <1>7, <1>8, MachineSteps
<1> QED BY <1>9 DEF P

(* A compile that has not opened its file has never done so.               *)
LEMMA CompilingSteps ==
    ASSUME TypeOK, CallSound, [Next]_vars, NEW p \in DOMAIN procs,
           procs'[p].phase = "compiling"
    PROVE  procs[p].phase = "compiling" /\ ~Compiles(p)
<1>1. ~Compiles(p)
  BY CompilesSteps
<1>2. ASSUME NEW q \in DOMAIN procs, Compiles(q)
      PROVE  procs'[p] = procs[p]
  BY <1>1, <1>2, CompilesSteps
<1>3. ASSUME NEW e \in Engines, Len(procs) < MaxProcs,
             procs' = Append(procs, Compile(e))
      PROVE  procs'[p] = procs[p]
  BY <1>3, AddProcess
<1>4. ASSUME NEW t, procs' = Dead(t)
      PROVE  procs'[p] = procs[p]
  BY <1>4, DeadSteps
<1>5. Kill \/ Crash => procs'[p] = procs[p]
  BY <1>4 DEF Kill, Crash
<1>6. Look \/ UNCHANGED <<procVars, fileVars>> => procs'[p] = procs[p]
  BY DEF Look, procVars
<1>7. Spawn \/ Heal => procs'[p] = procs[p]
  BY <1>3, SpawnAdds, HealAdds
<1>8. procs'[p] = procs[p]
  BY <1>2, <1>5, <1>6, <1>7, MachineSteps
<1> QED BY <1>1, <1>8

LEMMA FilesInv ==
    ASSUME IInv, [Next]_vars
    PROVE  FilesApart'
<1>0. /\ TypeOK /\ CallSound /\ FilesApart
      /\ Len(procs) \in Nat /\ Len(procs') \in Nat
      /\ Len(procs') >= Len(procs)
  BY MachineInv DEF IInv
<1>1. /\ DOMAIN procs = 1..Len(procs)
      /\ \A e \in Engines : tmp[e] \in Int /\ cache[e] \in Int
      /\ tmp \in [Engines -> 0..MaxProcs]
      /\ cache \in [Engines -> Unusable..MaxProcs]
  BY <1>0, ProcsAreASequence, Bounds DEF TypeOK, Unusable
(* A new compile has a number that no file has yet. *)
<1>2. ASSUME NEW p \in DOMAIN procs', procs'[p].phase = "compiling",
             NEW d \in Engines
      PROVE  /\ tmp[d] # p /\ cache[d] # p
             /\ p \in DOMAIN procs => ~Compiles(p)
  <2>1. CASE p \in DOMAIN procs
    BY <1>0, <1>2, <2>1, CompilingSteps DEF FilesApart
  <2>2. CASE p \notin DOMAIN procs
    <3>1. p = Len(procs) + 1
      BY <1>0, <2>2, ComesFrom
    <3>2. tmp[d] <= Len(procs) /\ cache[d] <= Len(procs)
      BY <1>0 DEF FilesApart
    <3> QED BY <1>0, <1>1, <2>2, <3>1, <3>2
  <2> QED BY <2>1, <2>2
<1>3. ASSUME UNCHANGED <<tmp, cache>>
      PROVE  FilesApart'
  BY <1>0, <1>1, <1>2, <1>3 DEF FilesApart
<1>4. ASSUME NEW p \in DOMAIN procs, Opens(p)
      PROVE  FilesApart'
  <2>1. PICK e \in Engines, f \in Procs :
          /\ f = tmp[e] \/ (tmp[e] = NoFile /\ f = p)
          /\ f <= Len(procs)
          /\ tmp' = [tmp EXCEPT ![e] = f]
          /\ \A d \in Engines : /\ cache[d] # f
                                /\ tmp[d] = f => d = e
    BY <1>0, <1>4, OpensSteps
  <2>2. \A d \in Engines : tmp'[d] = IF d = e THEN f ELSE tmp[d]
    BY <1>1, <2>1
  <2>3. UNCHANGED cache /\ Compiles(p)
    BY <1>4 DEF Opens, Compiles
  <2>4. \A q \in DOMAIN procs' : procs'[q].phase = "compiling" =>
          \A d \in Engines : tmp'[d] # q /\ cache'[d] # q
    <3> SUFFICES ASSUME NEW q \in DOMAIN procs',
                        procs'[q].phase = "compiling", NEW d \in Engines
                 PROVE  tmp'[d] # q /\ cache'[d] # q
      OBVIOUS
    <3>1. tmp[d] # q /\ cache[d] # q /\ tmp[e] # q /\ q # p
      BY <1>2, <2>3
    <3>2. f # q
      BY <2>1, <3>1
    <3> QED BY <2>2, <2>3, <3>1, <3>2
  <2>5. \A d \in Engines :
          tmp'[d] <= Len(procs') /\ cache'[d] <= Len(procs')
    <3> SUFFICES ASSUME NEW d \in Engines
                 PROVE  tmp'[d] <= Len(procs') /\ cache'[d] <= Len(procs')
      OBVIOUS
    <3>1. tmp[d] <= Len(procs) /\ cache[d] <= Len(procs)
      BY <1>0 DEF FilesApart
    <3>2. f \in Int /\ tmp[d] \in Int /\ cache[d] \in Int
      BY <1>1, Bounds DEF Procs
    <3> QED BY <1>0, <2>1, <2>2, <2>3, <3>1, <3>2
  <2>6. \A c, d \in Engines : tmp'[d] # NoFile =>
          /\ cache'[c] # tmp'[d]
          /\ tmp'[c] = tmp'[d] => c = d
    <3> SUFFICES ASSUME NEW c \in Engines, NEW d \in Engines,
                        tmp'[d] # NoFile
                 PROVE  /\ cache[c] # tmp'[d]
                        /\ tmp'[c] = tmp'[d] => c = d
      BY <2>3
    <3>1. CASE d = e
      <4>1. tmp'[d] = f /\ cache[c] # f
        BY <2>1, <2>2, <3>1
      <4>2. tmp'[c] = f => c = e
        BY <2>1, <2>2
      <4> QED BY <3>1, <4>1, <4>2
    <3>2. CASE d # e /\ c = e
      BY <1>0, <2>1, <2>2, <3>2 DEF FilesApart
    <3>3. CASE d # e /\ c # e
      BY <1>0, <2>2, <3>3 DEF FilesApart
    <3> QED BY <3>1, <3>2, <3>3
  <2> QED BY <2>4, <2>5, <2>6 DEF FilesApart
<1>5. ASSUME NEW p \in DOMAIN procs, Renames(p)
      PROVE  FilesApart'
  <2>1. PICK e \in Engines : \A d \in Engines :
          /\ tmp'[d] = IF d = e THEN NoFile ELSE tmp[d]
          /\ \/ cache'[d] = cache[d]
             \/ tmp[e] # NoFile /\ cache'[d] = tmp[e] /\ d = e
    BY <1>0, <1>5, RenamesSteps
  <2>2. \A q \in DOMAIN procs' : procs'[q].phase = "compiling" =>
          \A d \in Engines : tmp'[d] # q /\ cache'[d] # q
    <3>1. \A q \in DOMAIN procs' : procs'[q].phase = "compiling" =>
            \A d \in Engines : tmp[d] # q /\ cache[d] # q
      BY <1>2
    <3>2. DOMAIN procs' = DOMAIN procs
      BY <1>0, <1>5, CompilesSteps DEF Compiles
    <3> QED BY <1>1, <2>1, <3>1, <3>2 DEF NoFile
  <2>3. \A d \in Engines :
          tmp'[d] <= Len(procs') /\ cache'[d] <= Len(procs')
    BY <1>0, <1>1, <2>1 DEF FilesApart, NoFile
  <2>4. \A c, d \in Engines : tmp'[d] # NoFile =>
          /\ cache'[c] # tmp'[d]
          /\ tmp'[c] = tmp'[d] => c = d
    BY <1>0, <2>1 DEF FilesApart
  <2> QED BY <2>2, <2>3, <2>4 DEF FilesApart
<1>6. ASSUME Look
      PROVE  FilesApart'
  <2>1. /\ UNCHANGED <<procs, tmp>>
        /\ cache' = cache \/ cache' = [cache EXCEPT ![Due] = NoFile]
    BY <1>6 DEF Look, procVars
  <2>2. \A d \in Engines : cache'[d] = cache[d] \/ cache'[d] = NoFile
    BY <1>1, <2>1
  <2> QED BY <1>0, <1>1, <2>1, <2>2 DEF FilesApart, NoFile
<1>7. ASSUME NEW p \in DOMAIN procs, Compiles(p)
      PROVE  FilesApart'
  BY <1>3, <1>4, <1>5, <1>7 DEF Compiles, Saves, Fails, fileVars
<1>8. Spawn \/ Heal \/ Kill \/ Crash => UNCHANGED <<tmp, cache>>
  BY DEF Spawn, Heal, Kill, Crash, Gone, fileVars
<1>9. UNCHANGED <<procVars, fileVars>> => UNCHANGED <<tmp, cache>>
  BY DEF fileVars
<1> QED BY <1>3, <1>6, <1>7, <1>8, <1>9, MachineSteps

(* An engine that does not load is never put there.                        *)
LEMMA CacheSteps ==
    ASSUME IInv, [Next]_vars, NEW e \in Engines
    PROVE  cache'[e] = cache[e] \/ cache'[e] # Unusable
<1>0. /\ TypeOK /\ tmp \in [Engines -> 0..MaxProcs]
      /\ cache \in [Engines -> Unusable..MaxProcs]
  BY DEF IInv, TypeOK
<1>1. ASSUME NEW p \in DOMAIN procs, Compiles(p)
      PROVE  cache'[e] = cache[e] \/ cache'[e] # Unusable
  <2>1. ASSUME Renames(p)
        PROVE  cache'[e] = cache[e] \/ cache'[e] = tmp[e]
    BY <1>0, <2>1, RenamesSteps
  <2>2. tmp[e] # Unusable
    BY <1>0, Bounds DEF Unusable
  <2> QED
    BY <1>1, <2>1, <2>2 DEF Compiles, Opens, Saves, Fails, fileVars
<1>2. ASSUME Look
      PROVE  cache'[e] = cache[e] \/ cache'[e] = NoFile
  BY <1>0, <1>2 DEF Look
<1>3. Spawn \/ Heal \/ Kill \/ Crash => UNCHANGED cache
  BY DEF Spawn, Heal, Kill, Crash, Gone, fileVars
<1> QED
  BY <1>1, <1>2, <1>3, MachineSteps DEF fileVars, NoFile, Unusable

-----------------------------------------------------------------------------
(* Who writes what. *)

(* The player dies only in Crash, which files it under past.               *)
LEMMA PastSteps ==
    ASSUME TypeOK, [Next]_vars
    PROVE  /\ \/ UNCHANGED past
              \/ /\ Crash
                 /\ past' = "orphan" \/ (past' = "died" /\ past # "orphan")
           /\ Crash /\ past' # "orphan"
                => \A p \in DOMAIN procs' : ~Alive(p)'
<1>1. Configures => UNCHANGED past
  <2>1. Configures => Leaves({"look", "idle"})
                        \/ Leaves({"heal", "healing", "decide", "start"})
    BY ConfigureSteps, ThreeParts
  <2> QED BY <2>1 DEF Leaves
<1>2. UserConfigures \/ Reconfigure \/ Poll \/ Destroy \/ Kill
        \/ DestroyReturns \/ Restart => UNCHANGED past
  BY DEF UserConfigures, Reconfigure, ConfigureCall, Poll, Polls, Destroy,
         Kill, DestroyReturns, Restart
<1>3. Crash => past' = "orphan" \/ (past' = "died" /\ past # "orphan")
  BY DEF Crash
<1>4. UNCHANGED <<planVars, callerVars>> => UNCHANGED past
  BY DEF callerVars
<1>5. ASSUME Crash, past' # "orphan", NEW p \in DOMAIN procs'
      PROVE  ~Alive(p)'
  <2>1. \A q \in DOMAIN procs :
          Alive(q) => call = "healing" /\ q = target
    BY <1>5 DEF Crash
  <2>2. CASE call = "healing"
    <3>1. procs' = Dead(target)
      BY <1>5, <2>2 DEF Crash
    <3> QED BY <1>5, <2>1, <3>1, DeadSteps DEF Alive
  <2>3. CASE call # "healing"
    BY <1>5, <2>1, <2>3 DEF Crash, Alive
  <2> QED BY <2>2, <2>3
<1> QED BY <1>1, <1>2, <1>3, <1>4, <1>5, CallerSteps DEF Configures

(* Until a player has died with a helper running, two compiles that run    *)
(* make different engines.                                                 *)
LEMMA TwoEngines ==
    ASSUME IInv, past # "orphan",
           NEW p \in DOMAIN procs, NEW q \in DOMAIN procs,
           Alive(p), Alive(q), p # q
    PROVE  procs[p].makes # procs[q].makes
<1>1. /\ (p = kid /\ thread \in {"store", "wait"}) \/ Own(p)
      /\ (q = kid /\ thread \in {"store", "wait"}) \/ Own(q)
  BY DEF IInv, OneWriter
<1>2. thread \in {"store", "wait"} => procs[kid].makes \in build.engine
  BY DEF IInv, WorkerSound, HasKid
<1>3. call = "healing" => procs[target].makes \notin build.engine
  BY DEF IInv, EnginesApart
<1> QED BY <1>1, <1>2, <1>3 DEF Own

LEMMA OneRunsInv ==
    ASSUME IInv, [Next]_vars, past' # "orphan", NEW p \in DOMAIN procs',
           Alive(p)'
    PROVE  (p = kid' /\ thread' \in {"store", "wait"}) \/ Own(p)'
<1>0. /\ TypeOK /\ WorkerSound /\ CallSound /\ past # "orphan"
      /\ \A q \in DOMAIN procs : Alive(q) =>
           (q = kid /\ thread \in {"store", "wait"}) \/ Own(q)
      /\ ~Crash
  BY PastSteps DEF IInv, OneWriter
<1>1. CASE p \notin DOMAIN procs
  BY <1>0, <1>1, ComesFrom DEF Own
<1>2. CASE p \in DOMAIN procs
  <2>1. Alive(p)
    BY <1>0, <1>2, AliveSteps DEF Alive
  <2>2. CASE p = kid /\ thread \in {"store", "wait"}
    <3>1. ~Reap
      BY <2>1, <2>2 DEF Reap
    <3>2. ~Spawn /\ ~Unstore /\ ~Finish /\ ~SetDone
      BY <2>2 DEF Spawn, Unstore, Finish, SetDone, Moves
    <3>3. ~Start /\ ~DestroyReturns
      BY <2>2 DEF Start, DestroyReturns, Ended
    <3>4. Store \/ Poll => kid' = kid /\ thread' \in {"store", "wait"}
      BY <2>2 DEF Store, Moves, Poll, Polls, workVars
    <3> QED BY <1>0, <2>2, <3>1, <3>2, <3>3, <3>4, WorkerSteps
  <2>3. CASE Own(p)
    <3>1. ~Healed
      BY <2>1, <2>3 DEF Healed, Own
    <3>2. ~NothingDue /\ ~Look /\ ~Heal /\ ~Decide /\ ~Start
      BY <2>3 DEF Own, NothingDue, Look, Heal, Decide, Start
    <3>3. /\ ~UserConfigures /\ ~Reconfigure /\ ~Poll /\ ~Destroy /\ ~Kill
          /\ ~DestroyReturns /\ ~Restart
      BY <1>0, <2>3 DEF Own, CallSound, UserConfigures, Reconfigure,
                        ConfigureCall, Poll, Polls, Destroy, Kill,
                        DestroyReturns, Restart
    <3>4. UNCHANGED <<call, target>>
      BY <1>0, <3>1, <3>2, <3>3, CallerSteps DEF callerVars
    <3> QED BY <2>3, <3>4 DEF Own
  <2> QED BY <1>0, <1>2, <2>1, <2>2, <2>3
<1> QED BY <1>1, <1>2

LEMMA OwnsFileInv ==
    ASSUME IInv, [Next]_vars, past' # "orphan", NEW p \in DOMAIN procs',
           Alive(p)', procs'[p].phase # "compiling"
    PROVE  OwnsFile(p)'
<1>0. /\ TypeOK /\ FilesApart /\ CallSound /\ past # "orphan" /\ ~Crash
      /\ \A q \in DOMAIN procs :
           Alive(q) /\ procs[q].phase # "compiling" => OwnsFile(q)
  BY PastSteps DEF IInv, OneWriter
<1>1. p \in DOMAIN procs
  BY <1>0, ComesFrom
<1>2. Alive(p) /\ procs'[p].makes = procs[p].makes
  BY <1>0, <1>1, AliveSteps DEF Alive
<1>3. procs[p] \in Process /\ procs[p].makes \in Engines
  BY <1>0, <1>1, ProcsAreASequence DEF Process
<1>4. ASSUME procs'[p] = procs[p],
             tmp'[procs[p].makes] = tmp[procs[p].makes],
             procs[p].file \in Procs =>
                pieces'[procs[p].file] = pieces[procs[p].file]
      PROVE  OwnsFile(p)'
  BY <1>0, <1>1, <1>2, <1>4 DEF OwnsFile
(* Its own steps. *)
<1>5. ASSUME Opens(p)
      PROVE  OwnsFile(p)'
  <2>1. PICK f \in Procs :
          /\ procs'[p].phase = "opened" /\ procs'[p].file = f
          /\ tmp' = [tmp EXCEPT ![procs[p].makes] = f]
          /\ pieces' = [pieces EXCEPT ![f] = {}]
    BY <1>0, <1>1, <1>5, OpensSteps
  <2>2. tmp'[procs[p].makes] = f /\ pieces'[f] = {}
    BY <1>0, <1>3, <2>1 DEF TypeOK
  <2>3. {p} \X Parts("opened") = {}
    BY DEF Parts
  <2> QED BY <1>2, <2>1, <2>2, <2>3 DEF OwnsFile
<1>6. ASSUME NEW from, NEW part, NEW to, Saves(p, from, part, to),
             from \in {"opened", "saving"},
             {p} \X Parts(to) = {p} \X Parts(from) \cup {<<p, part>>}
      PROVE  OwnsFile(p)'
  <2>1. /\ procs[p].phase = from /\ procs'[p].phase = to
        /\ procs'[p].file = procs[p].file
        /\ pieces' = [pieces EXCEPT
                          ![procs[p].file] = @ \cup {<<p, part>>}]
        /\ UNCHANGED tmp
    BY <1>0, <1>1, <1>6, SavesSteps DEF fileVars
  <2>2. /\ procs[p].file \in Procs
        /\ tmp[procs[p].makes] = procs[p].file
        /\ pieces[procs[p].file] = {p} \X Parts(from)
    BY <1>0, <1>1, <1>2, <1>6, <2>1 DEF OwnsFile
  <2>3. pieces'[procs[p].file] = {p} \X Parts(to)
    BY <1>0, <1>6, <2>1, <2>2 DEF TypeOK
  <2> QED BY <1>2, <2>1, <2>2, <2>3 DEF OwnsFile
<1>7. /\ {p} \X Parts("saving") = {p} \X Parts("opened")
                                    \cup {<<p, "head">>}
      /\ {p} \X Parts("saved") = {p} \X Parts("saving")
                                    \cup {<<p, "tail">>}
  BY DEF Parts
<1>8. ~Renames(p) /\ ~Fails(p)
  <2>1. ~Renames(p)
    BY <1>0, <1>1, RenamesSteps DEF Alive
  <2>2. Fails(p) => procs'[p].phase = "failed"
    BY <1>1, <1>3 DEF Fails, Process
  <2> QED BY <2>1, <2>2 DEF Alive
(* The steps of another compile, which makes another engine. *)
<1>9. ASSUME NEW q \in DOMAIN procs, Compiles(q), q # p
      PROVE  OwnsFile(p)'
  <2>1. /\ procs'[p] = procs[p] /\ Alive(q)
        /\ procs[p].makes # procs[q].makes
    BY <1>0, <1>1, <1>2, <1>9, CompilesSteps, TwoEngines
  <2>2. OwnsFile(p)
    BY <1>0, <1>1, <1>2, <2>1
  <2>3. /\ procs[p].file \in Procs /\ procs[p].file # NoFile
        /\ tmp[procs[p].makes] = procs[p].file
    BY <2>2, Bounds DEF OwnsFile, Procs, NoFile
  <2>4. CASE Opens(q)
    <3>1. PICK f \in Procs :
            /\ tmp' = [tmp EXCEPT ![procs[q].makes] = f]
            /\ pieces' = [pieces EXCEPT ![f] = {}]
            /\ \A d \in Engines : tmp[d] = f => d = procs[q].makes
      BY <1>0, <2>4, OpensSteps
    <3>2. f # procs[p].file
      BY <1>3, <2>1, <2>3, <3>1
    <3> QED BY <1>0, <1>3, <1>4, <2>1, <3>1, <3>2 DEF TypeOK
  <2>5. ASSUME NEW from, NEW part, NEW to, Saves(q, from, part, to),
               from \in {"opened", "saving"}
        PROVE  OwnsFile(p)'
    <3>1. /\ procs[q].phase = from
          /\ pieces' = [pieces EXCEPT
                            ![procs[q].file] = @ \cup {<<q, part>>}]
          /\ UNCHANGED tmp
      BY <1>0, <2>5, SavesSteps DEF fileVars
    <3>2. /\ tmp[procs[q].makes] = procs[q].file
          /\ procs[q].makes \in Engines
      BY <1>0, <2>1, <2>5, <3>1, ProcsAreASequence DEF OwnsFile, Process
    <3>3. procs[q].file # procs[p].file
      BY <1>0, <1>3, <2>1, <2>3, <3>2 DEF FilesApart
    <3> QED BY <1>0, <1>4, <2>1, <3>1, <3>3 DEF TypeOK
  <2>6. CASE Renames(q)
    BY <1>0, <1>3, <1>4, <2>1, <2>6, RenamesSteps
  <2>7. CASE Fails(q)
    BY <1>4, <2>1, <2>7 DEF Fails, fileVars
  <2> QED BY <1>9, <2>4, <2>5, <2>6, <2>7 DEF Compiles
<1>10. ASSUME NEW q \in DOMAIN procs, Compiles(q)
       PROVE  OwnsFile(p)'
  BY <1>5, <1>6, <1>7, <1>8, <1>9, <1>10 DEF Compiles
<1>11. ASSUME NEW e \in Engines, Len(procs) < MaxProcs,
              procs' = Append(procs, Compile(e))
       PROVE  procs'[p] = procs[p]
  BY <1>0, <1>1, <1>11, AddProcess
<1>12. Spawn \/ Heal => procs'[p] = procs[p] /\ UNCHANGED <<pieces, tmp>>
  BY <1>0, <1>11, SpawnAdds, HealAdds DEF Spawn, Heal, fileVars
<1>13. Kill => procs'[p] = procs[p] /\ UNCHANGED <<pieces, tmp>>
  BY <1>0, <1>1, DeadSteps DEF Kill, fileVars, Alive
<1>14. Look \/ UNCHANGED <<procVars, fileVars>>
         => UNCHANGED <<procs, pieces, tmp>>
  BY DEF Look, procVars, fileVars
<1> QED BY <1>0, <1>4, <1>10, <1>12, <1>13, <1>14, MachineSteps

LEMMA OneWriterInv ==
    ASSUME IInv, [Next]_vars
    PROVE  OneWriter'
BY OneRunsInv, OwnsFileInv DEF OneWriter

(* A file that is at a final path is not written in any more.              *)
LEMMA EngineWholeInv ==
    ASSUME IInv, [Next]_vars
    PROVE  EngineWhole'
<1> SUFFICES ASSUME past' # "orphan", NEW e \in Engines, cache'[e] \in Procs
             PROVE  Whole(cache[e])'
  BY DEF EngineWhole
<1>0. /\ TypeOK /\ FilesApart /\ past # "orphan"
      /\ \A q \in DOMAIN procs :
           Alive(q) /\ procs[q].phase # "compiling" => OwnsFile(q)
      /\ \A d \in Engines : cache[d] \in Procs => Whole(cache[d])
      /\ \A q \in DOMAIN procs : q \in Procs /\ procs[q].makes \in Engines
  BY PastSteps, ProcsAreASequence
     DEF IInv, OneWriter, EngineWhole, Procs, Process
<1>1. ASSUME cache'[e] = cache[e], pieces'[cache[e]] = pieces[cache[e]]
      PROVE  Whole(cache[e])'
  BY <1>0, <1>1 DEF Whole
<1>2. ASSUME NEW p \in DOMAIN procs, Opens(p)
      PROVE  Whole(cache[e])'
  <2>1. PICK f \in Procs :
          /\ pieces' = [pieces EXCEPT ![f] = {}]
          /\ \A d \in Engines : cache[d] # f
    BY <1>0, <1>2, OpensSteps
  <2>2. UNCHANGED cache
    BY <1>2 DEF Opens
  <2>3. pieces'[cache[e]] = pieces[cache[e]]
    BY <1>0, <2>1, <2>2 DEF TypeOK
  <2> QED BY <1>1, <2>2, <2>3
<1>3. ASSUME NEW p \in DOMAIN procs, NEW from, NEW part, NEW to,
             Saves(p, from, part, to), from \in {"opened", "saving"}
      PROVE  Whole(cache[e])'
  <2>1. /\ procs[p].phase = from
        /\ pieces' = [pieces EXCEPT
                          ![procs[p].file] = @ \cup {<<p, part>>}]
        /\ UNCHANGED cache
    BY <1>0, <1>3, SavesSteps DEF fileVars
  <2>2. OwnsFile(p)
    BY <1>0, <1>3, <2>1 DEF Alive
  <2>3. cache[e] # procs[p].file
    BY <1>0, <2>2, Bounds DEF OwnsFile, FilesApart, Procs, NoFile
  <2>4. pieces'[cache[e]] = pieces[cache[e]]
    BY <1>0, <2>1, <2>3 DEF TypeOK
  <2> QED BY <1>1, <2>1, <2>4
(* A rename publishes what one compile has written from head to tail. *)
<1>4. ASSUME NEW p \in DOMAIN procs, Renames(p)
      PROVE  Whole(cache[e])'
  <2>1. /\ procs[p].phase = "saved" /\ UNCHANGED pieces
        /\ \/ cache'[e] = cache[e]
           \/ e = procs[p].makes /\ cache'[e] = tmp[e]
    BY <1>0, <1>4, RenamesSteps
  <2>2. OwnsFile(p)
    BY <1>0, <1>4, <2>1 DEF Alive
  <2>3. CASE e = procs[p].makes /\ cache'[e] = tmp[e]
    <3>1. pieces[tmp[e]] = {p} \X {"head", "tail"}
      BY <2>1, <2>2, <2>3 DEF OwnsFile, Parts
    <3>2. {p} \X {"head", "tail"} = {<<p, "head">>, <<p, "tail">>}
      OBVIOUS
    <3> QED BY <1>0, <2>1, <2>3, <3>1, <3>2 DEF Whole
  <2> QED BY <1>1, <2>1, <2>3
<1>5. ASSUME Look
      PROVE  Whole(cache[e])'
  <2>1. UNCHANGED pieces /\ (cache'[e] = cache[e] \/ cache'[e] = NoFile)
    BY <1>0, <1>5 DEF Look, procVars, TypeOK
  <2> QED BY <1>1, <2>1, Bounds DEF Procs, NoFile
<1>6. ASSUME NEW p \in DOMAIN procs, Compiles(p)
      PROVE  Whole(cache[e])'
  BY <1>1, <1>2, <1>3, <1>4, <1>6 DEF Compiles, Fails, fileVars
<1>7. Spawn \/ Heal \/ Kill \/ Crash => UNCHANGED <<pieces, cache>>
  BY DEF Spawn, Heal, Kill, Crash, Gone, fileVars
<1>8. UNCHANGED <<procVars, fileVars>> => UNCHANGED <<pieces, cache>>
  BY DEF procVars, fileVars
<1> QED BY <1>1, <1>5, <1>6, <1>7, <1>8, MachineSteps

-----------------------------------------------------------------------------
(* The engines of the worker and of the calling thread. *)

(* What a BuildState is for stays, unless another takes its place.         *)
LEMMA EngineSteps ==
    ASSUME IInv, [Next]_vars
    PROVE  build'.engine = build.engine \/ build'.engine = {}
             \/ (Start /\ build'.engine = {Due})
<1>1. Store \/ Unstore \/ Finish \/ SetDone \/ Poll
        => build'.engine = build.engine
  BY BuildSteps DEF Becomes
<1>2. DestroyReturns \/ Crash => build'.engine = {}
  BY BuildSteps DEF Becomes
<1>3. Start => build'.engine = {Due}
  BY BuildSteps DEF Becomes
<1>4. Spawn \/ Reap => UNCHANGED build
  BY DEF Spawn, Reap
<1> QED BY <1>1, <1>2, <1>3, <1>4, WorkerSteps

(* How a configure comes to compile an engine, and to which.               *)
LEMMA DueSteps ==
    ASSUME IInv, [Next]_vars,
           call' \in {"heal", "healing", "decide", "start"}
    PROVE  /\ Due' = Due /\ Due \in Engines /\ ~Start
           /\ call' \in {"decide", "start"} =>
                \/ call \in {"decide", "start"}
                \/ cache'[Due] = NoFile
           /\ call' = "heal" =>
                \/ call = "heal"
                \/ Cached(Due) /\ ~Whole(cache[Due]) /\ call = "look"
           /\ call' = "healing" =>
                \/ call = "healing" /\ target' = target
                \/ /\ call = "heal" /\ Heal /\ target' = Len(procs) + 1
                   /\ Len(procs) < MaxProcs
                   /\ procs' = Append(procs, Compile(Due))
<1>0. TypeOK /\ CallTypes /\ CallSound
  BY ThreeParts DEF IInv
<1>1. CASE UNCHANGED <<planVars, callerVars>>
  <2>1. UNCHANGED <<want, loaded, call, target>>
    BY <1>1 DEF planVars, callerVars
  <2>2. Due \in Engines
    BY <1>0, <1>1, <2>1, DueIsAnEngine DEF CallSound
  <2>3. ~Start
    <3>1. Start => call' \in {"look", "idle"}
      BY DEF Start, Deferred, PassesThrough, Goes
    <3> QED BY <3>1
  <2> QED BY <2>1, <2>2, <2>3 DEF Due
<1>2. CASE Configures
  <2>1. UNCHANGED <<want, loaded>>
    BY <1>0, <1>2, ConfigureSteps DEF Leaves
  <2>2. ~Start /\ ~NothingDue
    BY DEF Start, Deferred, PassesThrough, NothingDue, Completes, Goes
  <2>3. ~Healed
    BY DEF Healed, EngineLoaded, NotLoaded, ModelLoaded, Completes, Goes
  <2>4. CASE Look
    <3>1. /\ loaded < Len(Wanted(want)) /\ call = "look"
          /\ \/ ~Cached(Due) /\ call' = "decide" /\ UNCHANGED cache
             \/ Cached(Due) /\ ~Whole(cache[Due]) /\ call' = "heal"
      BY <2>4 DEF Look, EngineLoaded, NotLoaded, ModelLoaded, Completes, Goes
    <3>2. Due \in Engines
      BY <1>0, <3>1, DueIsAnEngine
    <3> QED BY <2>1, <2>2, <3>1, <3>2 DEF Due, Cached
  <2>5. CASE Heal
    <3>1. NotLoaded => call' = "idle"
      BY DEF NotLoaded, Completes, Goes
    <3>2. /\ call = "heal" /\ call' = "healing"
          /\ Due \in Engines
          /\ Len(procs) < MaxProcs /\ procs' = Append(procs, Compile(Due))
          /\ target' = Len(procs) + 1
      BY <1>0, <2>5, <3>1, HealAdds DEF Heal, Goes
    <3> QED BY <2>1, <2>2, <2>5, <3>2 DEF Due
  <2>6. CASE Decide
    <3>1. call = "decide" /\ call' = "start"
      BY <2>6 DEF Decide, NoSecondTry, Deferred, PassesThrough, Completes,
                  Goes
    <3>2. Due \in Engines
      BY <1>0, <3>1, DueIsAnEngine DEF CallSound
    <3> QED BY <2>1, <2>2, <3>1, <3>2 DEF Due
  <2> QED BY <1>2, <2>2, <2>3, <2>4, <2>5, <2>6 DEF Configures
<1>3. ~UserConfigures /\ ~Reconfigure /\ ~Poll /\ ~Destroy /\ ~Kill
        /\ ~DestroyReturns /\ ~Crash /\ ~Restart
  BY DEF UserConfigures, Reconfigure, ConfigureCall, Poll, Polls, Destroy,
         Kill, DestroyReturns, Crash, Gone, Restart
<1> QED BY <1>1, <1>2, <1>3, CallerSteps DEF Configures

LEMMA EnginesApartInv ==
    ASSUME IInv, [Next]_vars
    PROVE  EnginesApart'
<1>0. /\ TypeOK /\ CallSound /\ WorkerSound
      /\ call \in {"decide", "start"} => cache[Due] # Unusable
      /\ \A e \in build.engine : e \in Engines /\ cache[e] # Unusable
      /\ \A e \in build'.engine : e \in Engines
  BY WorkerInv DEF IInv, EnginesApart, WorkerSound
<1>1. call' \in {"decide", "start"} => cache'[Due'] # Unusable
  <2> SUFFICES ASSUME call' \in {"decide", "start"}
               PROVE  cache'[Due'] # Unusable
    OBVIOUS
  <2>1. /\ Due' = Due /\ Due \in Engines
        /\ call \in {"decide", "start"} \/ cache'[Due] = NoFile
    BY DueSteps
  <2>2. cache'[Due] = cache[Due] \/ cache'[Due] # Unusable
    BY <2>1, CacheSteps
  <2>3. NoFile # Unusable
    BY DEF NoFile, Unusable
  <2> QED BY <1>0, <2>1, <2>2, <2>3
<1>2. \A e \in build'.engine : cache'[e] # Unusable
  <2> SUFFICES ASSUME NEW e \in build'.engine
               PROVE  cache'[e] # Unusable
    OBVIOUS
  <2>1. cache'[e] = cache[e] \/ cache'[e] # Unusable
    BY <1>0, CacheSteps
  <2>2. cache[e] # Unusable
    BY <1>0, EngineSteps DEF Start
  <2> QED BY <2>1, <2>2
<1>3. ASSUME past' # "orphan", call' = "heal"
      PROVE  Due' \notin build'.engine
  <2>1. /\ Due' = Due /\ Due \in Engines /\ ~Start
        /\ call = "heal" \/ (Cached(Due) /\ ~Whole(cache[Due]))
    BY <1>3, DueSteps
  <2>2. /\ past # "orphan"
        /\ call = "heal" => Due \notin build.engine
        /\ cache[Due] \in Procs => Whole(cache[Due])
    BY <1>0, <1>3, <2>1, PastSteps DEF IInv, EnginesApart, EngineWhole
  <2>3. cache[Due] \in Procs \cup {NoFile, Unusable}
    <3>1. cache[Due] \in Unusable..MaxProcs
      BY <1>0, <2>1 DEF TypeOK
    <3> QED BY <3>1, Bounds DEF Procs, NoFile, Unusable
  <2>4. Due \notin build.engine
    BY <1>0, <2>1, <2>2, <2>3 DEF Cached
  <2> QED BY <2>1, <2>4, EngineSteps
<1>4. ASSUME past' # "orphan", call' = "healing"
      PROVE  procs'[target'].makes \notin build'.engine
  <2>1. past # "orphan"
    BY <1>0, <1>3, <1>4, PastSteps
  <2>2. ~Start /\ Due \in Engines
    BY <1>4, DueSteps
  <2>3. CASE call = "healing" /\ target' = target
    <3>1. target \in DOMAIN procs
      BY <1>0, <2>3 DEF CallSound
    <3>2. procs'[target].makes = procs[target].makes
      BY <1>0, <3>1, AliveSteps
    <3>3. procs[target].makes \notin build.engine
      BY <2>1, <2>3 DEF IInv, EnginesApart
    <3> QED BY <2>2, <2>3, <3>2, <3>3, EngineSteps
  <2>4. CASE /\ call = "heal" /\ target' = Len(procs) + 1
             /\ Len(procs) < MaxProcs
             /\ procs' = Append(procs, Compile(Due))
    <3>1. procs'[target'].makes = Due
      BY <1>0, <2>2, <2>4, AddProcess
    <3>2. Due \notin build.engine
      BY <2>1, <2>4 DEF IInv, EnginesApart
    <3> QED BY <2>2, <3>1, <3>2, EngineSteps
  <2> QED BY <1>4, <2>3, <2>4, DueSteps
<1> QED BY <1>1, <1>2, <1>3, <1>4 DEF EnginesApart

-----------------------------------------------------------------------------
(* The theorems. *)

LEMMA InitInv == Init => IInv
<1> SUFFICES ASSUME Init
             PROVE  IInv
  OBVIOUS
<1> USE DEF Init, NoProc, NoFile, Unusable
<1>1. /\ << >> \in Seq(Process) /\ Len(<< >>) = 0
      /\ << >> \in Seq(Engines) /\ DOMAIN procs = {}
  BY EmptySeq
<1>2. /\ 0 \in 0..MaxProcs /\ 0 \in 0..MaxCalls /\ 0 \in 0..0
      /\ 0 \in -1..MaxProcs /\ -1 \in -1..MaxProcs /\ 0 <= MaxProcs
  BY Bounds
<1>3. TypeOK
  <2>1. ThreadTypes
    BY <1>1, <1>2 DEF ThreadTypes, NoBuild
  <2>2. CallTypes
    BY <1>1, <1>2 DEF CallTypes, NoChain
  <2>3. MachineTypes
    BY <1>1, <1>2 DEF MachineTypes
  <2> QED BY <2>1, <2>2, <2>3, ThreeParts
<1>4. WorkerSound
  BY <1>1, <1>2 DEF WorkerSound, HasKid, NoBuild
<1>5. CallSound /\ EnginesApart
  BY DEF CallSound, EnginesApart, NoBuild
<1>6. FilesApart
  BY <1>1 DEF FilesApart
<1>7. OneWriter /\ EngineWhole
  BY <1>1 DEF OneWriter, EngineWhole, Procs
<1> QED BY <1>3, <1>4, <1>5, <1>6, <1>7 DEF IInv

(* The inductive invariant holds in every reachable state: what the        *)
(* BuildState says of the worker and its helper, the two threads at        *)
(* different engines, each compile with a file of its own.                 *)
THEOREM Invariance == Spec => []IInv
<1>1. IInv /\ [Next]_vars => IInv'
  <2> SUFFICES ASSUME IInv, [Next]_vars
               PROVE  IInv'
    OBVIOUS
  <2>1. TypeOK' /\ WorkerSound' /\ CallSound'
    BY ThreeParts, MachineInv, WorkerInv, CallInv
  <2> QED BY <2>1, EnginesApartInv, FilesInv, OneWriterInv, EngineWholeInv
          DEF IInv
<1> QED BY <1>1, InitInv, PTL DEF Spec

(* The types hold for any engines, chains, compiles and deaths, and a      *)
(* BuildState that is done has no pid to kill.                             *)
THEOREM TypeCorrect == Spec => []TypeOK
<1>1. IInv => TypeOK
  BY DEF IInv
<1> QED BY <1>1, Invariance, PTL

(* A file at an engine's final path is all of what one compile wrote, as   *)
(* the comment in aji_rocm_mxr.h says, whatever fails and whenever the     *)
(* player quits; it may even die, unless a helper is then running.         *)
THEOREM FinalPathIsWhole == Spec => []EngineWhole
<1>1. IInv => EngineWhole
  BY DEF IInv
<1> QED BY <1>1, Invariance, PTL

(* While every player leaves by aji_destroy, one helper runs at a time,    *)
(* none is left after it, and none is running when aji_poll has said that  *)
(* a compile is done.                                                      *)
THEOREM QuitsCleanly == Spec => []QuitIsClean
<1>1. IInv => QuitIsClean
  BY DEF IInv, QuitIsClean, OneWriter, CallSound
<1> QED BY <1>1, Invariance, PTL

=============================================================================
