------------------------------ MODULE RocmBuild ------------------------------
(***************************************************************************)
(* Background engine compiles of the ROCm backend (src/aji_rocm.cpp,       *)
(* aji_rocm_mxr.h and aji_rocm_compile.cpp), with async_build set, as the  *)
(* player does.                                                            *)
(*                                                                         *)
(* An engine that is not in the cache is compiled by a helper process for  *)
(* which a worker thread waits; the outcome is in a BuildState that the    *)
(* two threads share, and aji_poll tells the caller to configure again.    *)
(* An engine that is in the cache but does not load is removed and         *)
(* compiled in the calling thread.  A compile saves to a temporary file    *)
(* and renames it.  The player quits, starts again, and may die; a helper  *)
(* then goes on alone.                                                     *)
(*                                                                         *)
(* An action is a stretch of code between two accesses to what the threads *)
(* and processes share: the atomics of BuildState and the cache directory. *)
(***************************************************************************)
EXTENDS Integers, Sequences

CONSTANTS
    Engines,     \* cache keys: a network at a resolution
    Chains,      \* of the profile: the engines of its models, and of RIFE,
                 \* as sequences, the latter of at most one
    MaxProcs,    \* bound of the model: compiles started
    MaxCalls     \* bound of the model: configures the user asks for, restarts

ASSUME ChainsAssumption ==
    /\ \A c \in Chains : /\ c.models \in Seq(Engines)
                         /\ c.rife \in Seq(Engines) /\ Len(c.rife) <= 1
                         /\ c.models \o c.rife # << >>
    /\ MaxProcs \in Nat /\ MaxCalls \in Nat

Procs == 1..MaxProcs
NoProc == 0
NoFile == 0
Unusable == -1   \* an engine of another MIGraphX version, which does not load

NoChain == [models |-> << >>, rife |-> << >>]
NoBuild == [engine |-> {}, child |-> NoProc, done |-> FALSE, ok |-> FALSE,
            reported |-> FALSE]

VARIABLES
    \* aji_ctx
    build,       \* the BuildState, and the one engine it is for
    thread,      \* where the worker of build_thread is
    kid,         \* the helper it forked
    failed,      \* failed_builds
    want,        \* the chain of the last configure
    loaded,      \* how many of its models are loaded
    rife,        \* off, disabled, deferred or loaded
    ans,         \* what aji_configure answered
    \* the caller
    up,          \* the player runs and has a context
    call,        \* what the caller's thread is inside of
    target,      \* the compile it waits for, or is about to kill
    told,        \* aji_poll has said 1, and the caller will configure
    calls,       \* configures and starts of the player so far
    past,        \* history: how the player has ended so far, at its worst:
                 \* "quit", "died", or "orphan", died with a helper running
    \* the machine
    procs,       \* the compiles: what each makes, how far it is, the file it
                 \* has open
    pieces,      \* of each file: the parts it holds, and who wrote them
    tmp,         \* of each engine: the file at its temporary path
    cache        \* of each engine: the file at its final path

workVars == <<thread, kid>>
planVars == <<want, loaded, rife, ans>>
callerVars == <<up, call, target, told, calls, past>>
procVars == <<procs, pieces>>
fileVars == <<tmp, cache>>
vars == <<build, workVars, failed, planVars, callerVars, procVars, fileVars>>

(* Files are named by the compile that created them. *)
Init ==
    /\ build = NoBuild /\ thread = "none" /\ kid = NoProc
    /\ failed = {}
    /\ want = NoChain /\ loaded = 0 /\ rife = "off" /\ ans = "none"
    /\ up = TRUE /\ call = "idle" /\ target = NoProc /\ told = FALSE
    /\ calls = 0 /\ past = "quit"
    /\ procs = << >>
    /\ pieces = [f \in Procs |-> {}]
    /\ tmp = [e \in Engines |-> NoFile]
    /\ cache \in [Engines -> {NoFile, Unusable}]

(* A file holds an engine if it is all of what one compile wrote. *)
Whole(f) ==
    /\ f \in Procs
    /\ \E p \in Procs : pieces[f] = {<<p, "head">>, <<p, "tail">>}

Cached(e) == cache[e] # NoFile

Alive(p) == procs[p].phase \notin {"succeeded", "failed"}

-----------------------------------------------------------------------------
(* aji_rocm_compile_mxr, in a helper or in the calling thread. *)

Compile(e) == [makes |-> e, phase |-> "compiling", file |-> NoFile]

Opens(p) ==
    /\ procs[p].phase = "compiling"
    /\ LET e == procs[p].makes
           f == IF tmp[e] = NoFile THEN p ELSE tmp[e] IN
         /\ tmp' = [tmp EXCEPT ![e] = f]
         /\ pieces' = [pieces EXCEPT ![f] = {}]
         /\ procs' = [procs EXCEPT ![p].phase = "opened", ![p].file = f]
    /\ UNCHANGED <<build, workVars, failed, planVars, callerVars, cache>>

Saves(p, from, part, to) ==
    /\ procs[p].phase = from
    /\ pieces' = [pieces EXCEPT ![procs[p].file] = @ \cup {<<p, part>>}]
    /\ procs' = [procs EXCEPT ![p].phase = to]
    /\ UNCHANGED <<build, workVars, failed, planVars, callerVars, fileVars>>

(* The rename needs a file, and may fail for other reasons. *)
RenamesAt(p, phase) ==
    /\ procs[p].phase = phase
    /\ LET e == procs[p].makes IN
         /\ tmp' = [tmp EXCEPT ![e] = NoFile]
         /\ \/ /\ tmp[e] # NoFile
               /\ cache' = [cache EXCEPT ![e] = tmp[e]]
               /\ procs' = [procs EXCEPT ![p].phase = "succeeded"]
            \/ /\ procs' = [procs EXCEPT ![p].phase = "failed"]
               /\ UNCHANGED cache
    /\ UNCHANGED <<build, workVars, failed, planVars, callerVars, pieces>>

(* Fault: the rename does not wait for the file to be written out. *)
RenamesUnsaved(p) == RenamesAt(p, "saving")

Renames(p) == RenamesAt(p, "saved")

(* MIGraphX gives up, or the helper is killed: the temporary file stays. *)
Fails(p) ==
    /\ Alive(p)
    /\ procs' = [procs EXCEPT ![p].phase = "failed"]
    /\ UNCHANGED <<build, workVars, failed, planVars, callerVars, pieces,
                   fileVars>>

Compiles(p) == \/ Opens(p)
               \/ Saves(p, "opened", "head", "saving")
               \/ Saves(p, "saving", "tail", "saved")
               \/ Renames(p)
               \/ Fails(p)

-----------------------------------------------------------------------------
(* The worker: start_async_build and run_compile_subprocess. *)

Spawn ==
    /\ thread = "spawn"
    /\ \/ /\ Len(procs) < MaxProcs
          /\ \E e \in build.engine : procs' = Append(procs, Compile(e))
          /\ kid' = Len(procs) + 1
          /\ thread' = "store"
       \/ /\ kid' = NoProc
          /\ thread' = "finish"
          /\ UNCHANGED procs
    /\ UNCHANGED <<build, failed, planVars, callerVars, pieces, fileVars>>

Moves(from, to) ==
    /\ thread = from /\ thread' = to
    /\ UNCHANGED <<kid, failed, planVars, callerVars, procVars, fileVars>>

Store == Moves("store", "wait") /\ build' = [build EXCEPT !.child = kid]

(* waitpid. *)
Reap == Moves("wait", "unstore") /\ ~Alive(kid) /\ UNCHANGED build

(* Fault: the pid stays after the process has gone. *)
UnstoreKeeps == Moves("unstore", "finish") /\ UNCHANGED build

Unstore ==
    Moves("unstore", "finish") /\ build' = [build EXCEPT !.child = NoProc]

Exited == kid # NoProc /\ procs[kid].phase = "succeeded"

Finish ==
    /\ Moves("finish", "flag")
    /\ build' = [build EXCEPT
                    !.ok = Exited /\ \A e \in build.engine : Cached(e)]

SetDone == Moves("flag", "ended") /\ build' = [build EXCEPT !.done = TRUE]

Worker == Spawn \/ Store \/ Reap \/ Unstore \/ Finish \/ SetDone

-----------------------------------------------------------------------------
(* aji_configure: build_plan with ensure_model, load_model and setup_rife. *)

Wanted(c) == c.models \o c.rife

(* The engine the configure has come to. *)
Due == Wanted(want)[loaded + 1]
AtRife == loaded = Len(want.models)

ConfigureCall(c) ==
    /\ up /\ call = "idle"
    /\ call' = "look"
    /\ want' = c /\ loaded' = 0 /\ rife' = "off"
    /\ told' = FALSE
    /\ UNCHANGED <<build, workVars, failed, ans, up, target, past, procVars,
                   fileVars>>

(* The user plays something, or picks another profile. *)
UserConfigures ==
    /\ calls < MaxCalls
    /\ calls' = calls + 1
    /\ \E c \in Chains : ConfigureCall(c)

(* What the caller of aji_poll does when it says 1. *)
Reconfigure == told /\ ConfigureCall(want) /\ UNCHANGED calls

(* How build_plan goes on, or ends. *)
Goes(to) == call' = to /\ UNCHANGED <<up, told, calls, past, want>>

ModelLoaded ==
    Goes("look") /\ loaded' = loaded + 1 /\ UNCHANGED <<rife, ans>>

(* The plan is complete, with or without interpolation. *)
Completes(how) ==
    /\ Goes("idle")
    /\ rife' = how
    /\ ans' = IF loaded = 0 THEN "passthrough" ELSE "active"
    /\ UNCHANGED loaded

EngineLoaded == IF AtRife THEN Completes("loaded") ELSE ModelLoaded

(* Models loaded so far are dropped. *)
PassesThrough(how) ==
    /\ Goes("idle")
    /\ loaded' = 0 /\ rife' = how /\ ans' = "passthrough"

(* load_model fails: with RIFE the chain goes on without, with a model the *)
(* configure ends, and what is loaded stays.                               *)
NotLoaded ==
    IF AtRife THEN Completes("disabled")
    ELSE Goes("idle") /\ ans' = "error" /\ UNCHANGED <<loaded, rife>>

(* The end of a chain without RIFE. *)
NothingDue ==
    /\ call = "look" /\ loaded = Len(Wanted(want))
    /\ Completes("off")
    /\ UNCHANGED <<build, workVars, failed, target, procVars, fileVars>>

(* An engine that is there is loaded; it may lack what the backend needs,  *)
(* or the memory for it.  One that does not load is removed.               *)
Look ==
    /\ call = "look" /\ loaded < Len(Wanted(want))
    /\ IF ~Cached(Due)
       THEN Goes("decide") /\ UNCHANGED <<loaded, rife, ans, cache>>
       ELSE IF Whole(cache[Due])
       THEN (EngineLoaded \/ NotLoaded) /\ UNCHANGED cache
       ELSE /\ Goes("heal")
            /\ cache' = [cache EXCEPT ![Due] = NoFile]
            /\ UNCHANGED <<loaded, rife, ans>>
    /\ UNCHANGED <<build, workVars, failed, target, procVars, tmp>>

(* The compile in the calling thread, and the second try to load. *)
Heal ==
    /\ call = "heal"
    /\ \/ /\ Len(procs) < MaxProcs
          /\ procs' = Append(procs, Compile(Due))
          /\ target' = Len(procs) + 1
          /\ Goes("healing")
          /\ UNCHANGED <<loaded, rife, ans>>
       \/ NotLoaded /\ UNCHANGED <<procs, target>>
    /\ UNCHANGED <<build, workVars, failed, pieces, fileVars>>

Healed ==
    /\ call = "healing" /\ ~Alive(target)
    /\ target' = NoProc
    /\ IF procs[target].phase = "succeeded" /\ Whole(cache[Due])
       THEN EngineLoaded \/ NotLoaded
       ELSE NotLoaded
    /\ UNCHANGED <<build, workVars, failed, procVars, fileVars>>

(* Fault: a failed compile of RIFE stops the chain. *)
NoSecondTryStops == PassesThrough(rife)

(* A compile that failed is not tried again. *)
NoSecondTry == IF AtRife THEN Completes("disabled") ELSE PassesThrough(rife)

Building == build.engine # {} /\ ~build.done

Deferred == PassesThrough(IF AtRife THEN "deferred" ELSE rife)

(* One compile at a time. *)
Decide ==
    /\ call = "decide"
    /\ IF Due \in failed THEN NoSecondTry
       ELSE IF Building THEN Deferred
       ELSE Goes("start") /\ UNCHANGED <<loaded, rife, ans>>
    /\ UNCHANGED <<build, workVars, failed, target, procVars, fileVars>>

(* start_async_build: join the worker that came before, whose BuildState   *)
(* goes, told or untold, and start another.                                *)
Ended == thread \in {"none", "ended"}

Start ==
    /\ call = "start"
    /\ Ended
    /\ build' = [NoBuild EXCEPT !.engine = {Due}]
    /\ thread' = "spawn" /\ kid' = NoProc
    /\ Deferred
    /\ UNCHANGED <<failed, target, procVars, fileVars>>

(* aji_poll says 1, once per BuildState. *)
Polls ==
    /\ up /\ call = "idle"
    /\ build.done /\ ~build.reported /\ Ended
    /\ build' = [build EXCEPT !.reported = TRUE]
    /\ told' = TRUE
    /\ UNCHANGED <<workVars, planVars, up, call, target, calls, past,
                   procVars, fileVars>>

(* Fault: a failure is not filed. *)
PollForgets == Polls /\ UNCHANGED failed

Poll ==
    Polls /\ failed' = IF build.ok THEN failed ELSE failed \cup build.engine

-----------------------------------------------------------------------------
(* The player quits, starts again, dies. *)

(* aji_destroy: the pid to kill. *)
Destroy ==
    /\ up /\ call = "idle"
    /\ target' = build.child
    /\ call' = "kill"
    /\ UNCHANGED <<build, workVars, failed, planVars, up, told, calls, past,
                   procVars, fileVars>>

Dead(p) ==
    [q \in DOMAIN procs |->
        IF q = p /\ Alive(q) THEN [procs[q] EXCEPT !.phase = "failed"]
        ELSE procs[q]]

Kill ==
    /\ call = "kill"
    /\ procs' = Dead(target)
    /\ call' = "join"
    /\ UNCHANGED <<build, workVars, failed, planVars, up, target, told, calls,
                   past, pieces, fileVars>>

(* The context is gone, by aji_destroy or with the player. *)
Gone ==
    /\ up' = FALSE /\ call' = "gone" /\ target' = NoProc /\ told' = FALSE
    /\ build' = NoBuild /\ thread' = "none" /\ kid' = NoProc
    /\ failed' = {}
    /\ want' = NoChain /\ loaded' = 0 /\ rife' = "off" /\ ans' = "none"
    /\ UNCHANGED <<calls, pieces, fileVars>>

(* Fault: the worker is not joined. *)
DestroyUnjoined == call = "join" /\ Gone /\ UNCHANGED <<past, procs>>

DestroyReturns == call = "join" /\ Ended /\ Gone /\ UNCHANGED <<past, procs>>

(* The player is killed, with a compile of its own; a helper is not. *)
Crash ==
    /\ up
    /\ procs' = IF call = "healing" THEN Dead(target) ELSE procs
    /\ past' = IF \/ past = "orphan"
                  \/ \E p \in DOMAIN procs :
                        Alive(p) /\ (call = "healing" => p # target)
               THEN "orphan" ELSE "died"
    /\ Gone

Restart ==
    /\ ~up
    /\ calls < MaxCalls
    /\ calls' = calls + 1
    /\ up' = TRUE /\ call' = "idle"
    /\ UNCHANGED <<build, workVars, failed, planVars, target, told, past,
                   procVars, fileVars>>

-----------------------------------------------------------------------------
InCall == \/ NothingDue \/ Look \/ Heal \/ Healed \/ Decide \/ Start
          \/ Kill \/ DestroyReturns

Caller == UserConfigures \/ Reconfigure \/ Poll \/ Destroy \/ InCall

Next == \/ Caller \/ Worker \/ Crash \/ Restart
        \/ \E p \in DOMAIN procs : Compiles(p)

(* The threads run, a compile comes to an end, and the caller polls and    *)
(* configures again when it is told to.                                    *)
Fairness ==
    /\ WF_vars(InCall) /\ WF_vars(Worker)
    /\ WF_vars(Poll) /\ WF_vars(Reconfigure)
    /\ \A p \in Procs : WF_vars(p \in DOMAIN procs /\ Compiles(p))

Spec == Init /\ [][Next]_vars /\ Fairness

-----------------------------------------------------------------------------
(* Properties. *)

(* Types; and a BuildState that is done has no pid to kill. *)
TypeOK ==
    /\ build.engine \in {{}} \cup {{e} : e \in Engines}
    /\ build.child \in {NoProc, kid}
    /\ build.done => build.child = NoProc
    /\ build.reported => build.done
    /\ build.ok \in BOOLEAN
    /\ thread \in {"none", "spawn", "store", "wait", "unstore", "finish",
                   "flag", "ended"}
    /\ kid \in 0..Len(procs) /\ target \in 0..Len(procs)
    /\ failed \subseteq Engines
    /\ want \in Chains \cup {NoChain} /\ loaded \in 0..Len(want.models)
    /\ rife \in {"off", "disabled", "deferred", "loaded"}
    /\ ans \in {"none", "active", "passthrough", "error"}
    /\ up \in BOOLEAN /\ told \in BOOLEAN /\ calls \in 0..MaxCalls
    /\ past \in {"quit", "died", "orphan"}
    /\ call \in {"idle", "look", "heal", "healing", "decide", "start",
                 "kill", "join", "gone"}
    /\ procs \in Seq([makes : Engines, file : 0..MaxProcs,
                      phase : {"compiling", "opened", "saving", "saved",
                               "succeeded", "failed"}])
    /\ Len(procs) <= MaxProcs
    /\ pieces \in [Procs -> SUBSET (Procs \X {"head", "tail"})]
    /\ tmp \in [Engines -> 0..MaxProcs]
    /\ cache \in [Engines -> Unusable..MaxProcs]

(* "An interrupted compile (player quit mid-build) never leaves a          *)
(* half-written .mxr": so it is, whoever fails or dies when, as long as no *)
(* player died with a helper running, which shares its temporary file with *)
(* the next compile of the same engine.                                    *)
EngineWhole ==
    past # "orphan" =>
        \A e \in Engines : cache[e] \in Procs => Whole(cache[e])

(* The compile that is no helper. *)
Own(p) == call = "healing" /\ p = target

(* As long as the player quits by aji_destroy, one helper runs at a time,  *)
(* none is left when it has quit, and none of its BuildStates is ever      *)
(* reported while the helper still runs.                                   *)
QuitIsClean ==
    past = "quit" =>
        /\ \A p, q \in DOMAIN procs :
             Alive(p) /\ Alive(q) /\ ~Own(p) /\ ~Own(q) => p = q
        /\ ~up \/ told => \A p \in DOMAIN procs : Own(p) \/ ~Alive(p)

Runs == loaded = Len(want.models) /\ rife \in
            (IF want.rife = << >> THEN {"off"} ELSE {"loaded", "disabled"})
Stopped == \E i \in DOMAIN want.models : want.models[i] \in failed
Settled == call = "idle" /\ (Runs \/ Stopped \/ ans = "error")

(* A chain comes to run, or to stop at a model that cannot be had, unless  *)
(* the user asks for another or quits; and one whose RIFE cannot be had    *)
(* runs without it.  No end of a compile gets lost for good on the way     *)
(* from the worker through aji_poll to the next aji_configure, although a  *)
(* configure in between may drop it.                                       *)
ChainSettles == \A c \in Chains : up /\ want = c ~> Settled \/ ~up \/ want # c

-----------------------------------------------------------------------------
(* The inductive invariant behind the safety properties. *)

(* The worker has a helper that it has not finished with. *)
HasKid == kid # NoProc /\ thread \in {"store", "wait", "unstore", "finish"}

(* What the BuildState says about the worker, and what it knows of the     *)
(* helper.                                                                 *)
WorkerSound ==
    /\ build \in [engine : SUBSET Engines, child : 0..Len(procs),
                  done : BOOLEAN, ok : BOOLEAN, reported : BOOLEAN]
    /\ build.done <=> thread = "ended"
    /\ thread # "none" => \E e \in Engines : build.engine = {e}
    /\ build.child = IF thread \in {"wait", "unstore"} THEN kid ELSE NoProc
    /\ thread \in {"store", "wait", "unstore"} => kid # NoProc
    /\ HasKid => procs[kid].makes \in build.engine
    /\ HasKid /\ thread \in {"unstore", "finish"} => ~Alive(kid)

(* What the caller's thread may rely on from one step to the next. *)
CallSound ==
    /\ up <=> call # "gone"
    /\ ~up => thread = "none"
    /\ told => thread = "ended" /\ call \in {"idle", "kill", "join"}
    /\ call \in {"heal", "healing", "decide", "start"} =>
         loaded < Len(Wanted(want))
    /\ call = "healing" => target \in DOMAIN procs

(* What the worker compiles does not need to be removed first, and the     *)
(* calling thread compiles something else.                                 *)
EnginesApart ==
    /\ call \in {"decide", "start"} => cache[Due] # Unusable
    /\ \A e \in build.engine : cache[e] # Unusable
    /\ past # "orphan" =>
         /\ call = "heal" => Due \notin build.engine
         /\ call = "healing" => procs[target].makes \notin build.engine

(* No file has two paths, and a compile that has not opened one yet can    *)
(* create one.                                                             *)
FilesApart ==
    /\ \A e \in Engines : tmp[e] <= Len(procs) /\ cache[e] <= Len(procs)
    /\ \A d, e \in Engines :
         tmp[e] # NoFile => /\ cache[d] # tmp[e]
                            /\ tmp[d] = tmp[e] => d = e
    /\ \A p \in DOMAIN procs : procs[p].phase = "compiling" =>
         \A e \in Engines : tmp[e] # p /\ cache[e] # p

Parts(phase) == IF phase = "opened" THEN {}
                ELSE IF phase = "saving" THEN {"head"} ELSE {"head", "tail"}

(* p has the temporary file of its engine, and nobody else wrote in it.    *)
OwnsFile(p) ==
    /\ procs[p].file \in Procs
    /\ tmp[procs[p].makes] = procs[p].file
    /\ pieces[procs[p].file] = {p} \X Parts(procs[p].phase)

(* Unless a player died with a helper running, only the worker's helper    *)
(* runs and the compile of the calling thread.                             *)
OneWriter ==
    past # "orphan" => \A p \in DOMAIN procs : Alive(p) =>
        /\ (p = kid /\ thread \in {"store", "wait"}) \/ Own(p)
        /\ procs[p].phase # "compiling" => OwnsFile(p)

IInv == /\ TypeOK /\ WorkerSound /\ CallSound /\ EnginesApart
        /\ FilesApart /\ OneWriter /\ EngineWhole

=============================================================================
