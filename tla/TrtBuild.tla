------------------------------ MODULE TrtBuild ------------------------------
(***************************************************************************)
(* Background engine builds of the TensorRT backend (src/aji_trt.cpp, with *)
(* async_build set, as the player does).                                   *)
(*                                                                         *)
(* aji_configure loads the engines of a chain from the cache directory.  A *)
(* missing one is built by a trtexec process that a worker thread of the   *)
(* library starts and waits for; the chain stays inactive, and aji_poll    *)
(* tells the caller when to configure again.  Four parties move here: the  *)
(* caller's thread, the worker, trtexec, and the player as a process,      *)
(* which quits, starts again, and may die.                                 *)
(*                                                                         *)
(* An action is a stretch of code between two accesses to what the threads *)
(* share: the atomics of aji_ctx and the files of the cache directory.     *)
(***************************************************************************)
EXTENDS Integers, Sequences

CONSTANTS
    Engines,     \* cache keys: a model, its settings, a resolution
    Chains,      \* the chains of the configuration, as sequences of engines
    Frail,       \* the engines that may not load though their file is whole:
                 \* another trtexec wrote it, or no memory is left
    MaxProcs,    \* bound of the model: trtexec processes started
    MaxCalls     \* bound of the model: configures the user asks for, restarts

ASSUME ChainsAssumption ==
    /\ Chains \subseteq Seq(Engines) \ {<< >>}
    /\ Frail \subseteq Engines
    /\ MaxProcs \in Nat /\ MaxCalls \in Nat

Procs == 1..MaxProcs
NoProc == 0
NoFile == 0
Unusable == -1      \* an engine an earlier TensorRT left, which does not load

VARIABLES
    \* aji_ctx
    thread,      \* where the worker of build_thread is
    kid,         \* the process it forked
    child,       \* build_child
    running,     \* build_running
    doneFlag,    \* build_done_flag
    ok,          \* build_ok
    epath,       \* build_epath, and the engine of the worker's BuildSpec
    failed,      \* failed_builds
    want,        \* the chain of the last configure
    loaded,      \* how many of its engines are loaded
    refused,     \* history: the engines this player has built or found whole
                 \* that did not load
    \* the caller
    up,          \* the player runs and has a context
    call,        \* what the caller's thread is inside of
    victim,      \* the pid aji_destroy is about to kill
    told,        \* aji_poll has said 1, and the caller will configure
    calls,       \* configures and starts of the player so far
    past,        \* history: how the player has ended so far, at its worst:
                 \* "quit", "died", or "orphan", died with a trtexec running
    \* the machine
    procs,       \* the trtexec processes: what each makes, how far it is, the
                 \* file it has open
    pieces,      \* of each file: the parts it holds, and who wrote them
    building,    \* of each engine: the file at its .building path
    cache        \* of each engine: the file at its final path

atomics == <<child, running, doneFlag, ok>>
workVars == <<thread, kid>>
planVars == <<want, loaded, refused>>
callerVars == <<up, call, victim, told, calls, past>>
procVars == <<procs, pieces>>
fileVars == <<building, cache>>
vars == <<workVars, atomics, epath, failed, planVars, callerVars, procVars,
          fileVars>>

(* Files are named by the process that created them. *)
Init ==
    /\ thread = "none" /\ kid = NoProc
    /\ child = NoProc /\ running = FALSE /\ doneFlag = FALSE /\ ok = FALSE
    /\ epath = {} /\ failed = {}
    /\ want = << >> /\ loaded = 0 /\ refused = {}
    /\ up = TRUE /\ call = "idle" /\ victim = NoProc /\ told = FALSE
    /\ calls = 0 /\ past = "quit"
    /\ procs = << >>
    /\ pieces = [f \in Procs |-> {}]
    /\ building = [e \in Engines |-> NoFile]
    /\ cache \in [Engines -> {NoFile, Unusable}]

(* A file holds an engine if it is all of what one process wrote.          *)
Whole(f) ==
    /\ f \in Procs
    /\ \E p \in Procs : pieces[f] = {<<p, "head">>, <<p, "tail">>}

Alive(p) == procs[p].phase \in {"started", "opened", "writing"}

-----------------------------------------------------------------------------
(* trtexec, as the comment in make_build_spec describes it: it "creates    *)
(* --saveEngine immediately and fills it at the end".                      *)

Opens(p) ==
    /\ procs[p].phase = "started"
    /\ LET e == procs[p].makes
           f == IF building[e] = NoFile THEN p ELSE building[e] IN
         /\ building' = [building EXCEPT ![e] = f]
         /\ pieces' = [pieces EXCEPT ![f] = {}]
         /\ procs' = [procs EXCEPT ![p].phase = "opened", ![p].file = f]
    /\ UNCHANGED <<workVars, atomics, epath, failed, planVars, callerVars,
                   cache>>

Writes(p, from, part, to) ==
    /\ procs[p].phase = from
    /\ pieces' = [pieces EXCEPT ![procs[p].file] = @ \cup {<<p, part>>}]
    /\ procs' = [procs EXCEPT ![p].phase = to]
    /\ UNCHANGED <<workVars, atomics, epath, failed, planVars, callerVars,
                   fileVars>>

Fails(p) ==
    /\ Alive(p)
    /\ procs' = [procs EXCEPT ![p].phase = "failed"]
    /\ UNCHANGED <<workVars, atomics, epath, failed, planVars, callerVars,
                   pieces, fileVars>>

Trtexec(p) == \/ Opens(p)
              \/ Writes(p, "opened", "head", "writing")
              \/ Writes(p, "writing", "tail", "succeeded")
              \/ Fails(p)

-----------------------------------------------------------------------------
(* The worker: run_build_process, run_build_spec, start_async_build. *)

(* fork, which may fail. *)
Spawn ==
    /\ thread = "spawn"
    /\ \/ /\ Len(procs) < MaxProcs
          /\ \E e \in epath :
                procs' = Append(procs, [makes |-> e, phase |-> "started",
                                        file |-> NoFile])
          /\ kid' = Len(procs) + 1
          /\ thread' = "store"
       \/ /\ kid' = NoProc
          /\ thread' = "finish"
          /\ UNCHANGED procs
    /\ UNCHANGED <<atomics, epath, failed, planVars, callerVars, pieces,
                   fileVars>>

Store ==
    /\ thread = "store"
    /\ child' = kid
    /\ thread' = "wait"
    /\ UNCHANGED <<kid, running, doneFlag, ok, epath, failed, planVars,
                   callerVars, procVars, fileVars>>

(* waitpid. *)
Reap ==
    /\ thread = "wait"
    /\ ~Alive(kid)
    /\ thread' = "unstore"
    /\ UNCHANGED <<kid, atomics, epath, failed, planVars, callerVars,
                   procVars, fileVars>>

Reaped ==
    /\ thread = "unstore"
    /\ thread' = "finish"
    /\ UNCHANGED <<kid, running, doneFlag, ok, epath, failed, planVars,
                   callerVars, procVars, fileVars>>

(* Fault: the pid stays after the process has gone. *)
UnstoreKeeps == Reaped /\ UNCHANGED child

Unstore == Reaped /\ child' = NoProc

Exited == kid # NoProc /\ procs[kid].phase = "succeeded"

(* The engine is published, or its .building file removed. *)
Publish(e) ==
    /\ cache' = [cache EXCEPT ![e] = building[e]]
    /\ building' = [building EXCEPT ![e] = NoFile]
    /\ ok' = TRUE
Discard(e) ==
    /\ building' = [building EXCEPT ![e] = NoFile]
    /\ ok' = FALSE
    /\ UNCHANGED cache

Finishes(e) ==
    /\ thread = "finish"
    /\ thread' = "clear"
    /\ UNCHANGED <<kid, child, running, doneFlag, epath, failed, planVars,
                   callerVars, procVars>>

(* Faults: a build that failed is published if it left a file; a file it   *)
(* left is not removed.                                                    *)
FinishUnchecked == \E e \in epath :
    Finishes(e) /\ IF building[e] # NoFile THEN Publish(e) ELSE Discard(e)
FinishLitters == \E e \in epath :
    /\ Finishes(e)
    /\ IF Exited /\ building[e] # NoFile
       THEN Publish(e)
       ELSE ok' = FALSE /\ UNCHANGED fileVars

(* A build that failed, or left no file, has nothing to publish; the       *)
(* rename may fail too.                                                    *)
Finish == \E e \in epath :
    /\ Finishes(e)
    /\ \/ Exited /\ building[e] # NoFile /\ Publish(e)
       \/ Discard(e)

ClearRunning ==
    /\ thread = "clear"
    /\ running' = FALSE
    /\ thread' = "flag"
    /\ UNCHANGED <<kid, child, doneFlag, ok, epath, failed, planVars,
                   callerVars, procVars, fileVars>>

SetFlag ==
    /\ thread = "flag"
    /\ doneFlag' = TRUE
    /\ thread' = "ended"
    /\ UNCHANGED <<kid, child, running, ok, epath, failed, planVars,
                   callerVars, procVars, fileVars>>

Worker == \/ Spawn \/ Store \/ Reap \/ Unstore \/ Finish
          \/ ClearRunning \/ SetFlag

-----------------------------------------------------------------------------
(* aji_configure and its ensure_engine. *)

ConfigureCall(c) ==
    /\ up /\ call = "idle"
    /\ call' = "look"
    /\ want' = c /\ loaded' = 0
    /\ told' = FALSE
    /\ UNCHANGED <<workVars, atomics, epath, failed, refused, up, victim,
                   past, procVars, fileVars>>

(* The user plays something, seeks to another resolution, or picks another *)
(* profile.                                                                *)
UserConfigures ==
    /\ calls < MaxCalls
    /\ calls' = calls + 1
    /\ \E c \in Chains : ConfigureCall(c)

(* What the caller of aji_poll does when it says 1. *)
Reconfigure == told /\ ConfigureCall(want) /\ UNCHANGED calls

Returns(n) ==
    /\ call' = "idle"
    /\ loaded' = n
    /\ UNCHANGED <<want, refused, up, victim, told, calls, past>>

(* The engine the configure has come to. *)
Due == want[loaded + 1]

(* A file that does not load is removed, be it a whole one: what the next  *)
(* build makes is the same again, and no failure is filed.                 *)
Removed ==
    /\ cache' = [cache EXCEPT ![Due] = NoFile]
    /\ call' = "decide"
    /\ UNCHANGED loaded

Look ==
    /\ call = "look" /\ loaded < Len(want)
    /\ \/ /\ Whole(cache[Due])
          /\ loaded' = loaded + 1
          /\ UNCHANGED <<call, cache, refused>>
       \/ /\ Whole(cache[Due]) /\ Due \in Frail
          /\ Removed
          /\ refused' = refused \cup {Due}
       \/ /\ ~Whole(cache[Due])
          /\ Removed
          /\ UNCHANGED refused
    /\ UNCHANGED <<workVars, atomics, epath, failed, want, up, victim, told,
                   calls, past, procVars, building>>

ConfigureReturns ==
    /\ call = "look" /\ loaded = Len(want)
    /\ Returns(loaded)
    /\ UNCHANGED <<workVars, atomics, epath, failed, procVars, fileVars>>

(* No second try of a build that failed, no second build at a time. *)
Defers ==
    /\ call = "decide"
    /\ Due \in failed \/ running
    /\ Returns(loaded)
    /\ UNCHANGED <<workVars, atomics, epath, failed, procVars, fileVars>>

Starts ==
    /\ call = "decide"
    /\ call' = "start"
    /\ UNCHANGED <<workVars, atomics, epath, failed, planVars, up, victim,
                   told, calls, past, procVars, fileVars>>

(* Fault: a build is started whether or not one is running. *)
DecideBusy == Starts /\ Due \notin failed

Decide == Starts /\ Due \notin failed /\ ~running

(* start_async_build: join the worker that came before, and start another. *)
Ended == thread \in {"none", "ended"}
Start ==
    /\ call = "start"
    /\ Ended
    /\ epath' = {Due}
    /\ doneFlag' = FALSE /\ ok' = FALSE /\ running' = TRUE
    /\ thread' = "spawn"
    /\ Returns(loaded)
    /\ UNCHANGED <<kid, child, failed, procVars, fileVars>>

(* aji_poll says 1: a failure is filed, and the caller will configure.     *)
Polls ==
    /\ up /\ call = "idle"
    /\ doneFlag /\ Ended
    /\ doneFlag' = FALSE
    /\ told' = TRUE
    /\ UNCHANGED <<workVars, child, running, ok, epath, planVars, up, call,
                   victim, calls, past, procVars, fileVars>>

(* Fault: a failure is not filed. *)
PollForgets == Polls /\ UNCHANGED failed

Poll == Polls /\ failed' = IF ok THEN failed ELSE failed \cup epath

-----------------------------------------------------------------------------
(* The player quits, starts again, dies. *)

(* aji_destroy: the pid to kill, if a build is running. *)
Destroy ==
    /\ up /\ call = "idle"
    /\ victim' = IF running THEN child ELSE NoProc
    /\ call' = "kill"
    /\ UNCHANGED <<workVars, atomics, epath, failed, planVars, up, told,
                   calls, past, procVars, fileVars>>

Kill ==
    /\ call = "kill"
    /\ procs' = [p \in DOMAIN procs |->
                   IF p = victim /\ Alive(p)
                   THEN [procs[p] EXCEPT !.phase = "failed"]
                   ELSE procs[p]]
    /\ call' = "join"
    /\ UNCHANGED <<workVars, atomics, epath, failed, planVars, up, victim,
                   told, calls, past, pieces, fileVars>>

(* The context is gone, by aji_destroy or with the player. *)
Goes ==
    /\ up' = FALSE /\ call' = "gone"
    /\ thread' = "none" /\ kid' = NoProc
    /\ child' = NoProc /\ running' = FALSE /\ doneFlag' = FALSE /\ ok' = FALSE
    /\ epath' = {} /\ failed' = {}
    /\ want' = << >> /\ loaded' = 0 /\ refused' = {}
    /\ victim' = NoProc /\ told' = FALSE
    /\ UNCHANGED <<calls, procVars, fileVars>>

(* Fault: the worker is not joined. *)
DestroyUnjoined == call = "join" /\ Goes /\ UNCHANGED past

DestroyReturns == call = "join" /\ Ended /\ Goes /\ UNCHANGED past

(* The player is killed; trtexec is not. *)
Crash ==
    /\ up
    /\ past' = IF past = "orphan" \/ \E p \in DOMAIN procs : Alive(p)
               THEN "orphan" ELSE "died"
    /\ Goes

Restart ==
    /\ ~up
    /\ calls < MaxCalls
    /\ calls' = calls + 1
    /\ up' = TRUE /\ call' = "idle"
    /\ UNCHANGED <<workVars, atomics, epath, failed, planVars, victim, told,
                   past, procVars, fileVars>>

-----------------------------------------------------------------------------
InCall == \/ Look \/ ConfigureReturns \/ Defers \/ Decide \/ Start
          \/ Kill \/ DestroyReturns

Caller == UserConfigures \/ Reconfigure \/ Poll \/ Destroy \/ InCall

Next == \/ Caller \/ Worker \/ Crash \/ Restart
        \/ \E p \in DOMAIN procs : Trtexec(p)

(* The threads run, trtexec comes to an end, and the caller polls and      *)
(* configures again when it is told to.                                    *)
Fairness ==
    /\ WF_vars(InCall) /\ WF_vars(Worker)
    /\ WF_vars(Poll) /\ WF_vars(Reconfigure)
    /\ \A p \in Procs : WF_vars(p \in DOMAIN procs /\ Trtexec(p))

Spec == Init /\ [][Next]_vars /\ Fairness

-----------------------------------------------------------------------------
(* Properties. *)

TypeOK ==
    /\ thread \in {"none", "spawn", "store", "wait", "unstore", "finish",
                   "clear", "flag", "ended"}
    /\ kid \in 0..Len(procs) /\ child \in {NoProc, kid}
    /\ running \in BOOLEAN /\ doneFlag \in BOOLEAN /\ ok \in BOOLEAN
    /\ epath \in {{}} \cup {{e} : e \in Engines}
    /\ failed \subseteq Engines /\ refused \subseteq Frail
    /\ want \in Chains \cup {<< >>} /\ loaded \in 0..Len(want)
    /\ up \in BOOLEAN /\ told \in BOOLEAN /\ calls \in 0..MaxCalls
    /\ past \in {"quit", "died", "orphan"}
    /\ call \in {"idle", "look", "decide", "start", "kill", "join", "gone"}
    /\ victim \in 0..Len(procs)
    /\ procs \in Seq([makes : Engines, file : 0..MaxProcs,
                      phase : {"started", "opened", "writing", "succeeded",
                               "failed"}])
    /\ Len(procs) <= MaxProcs
    /\ pieces \in [Procs -> SUBSET (Procs \X {"head", "tail"})]
    /\ building \in [Engines -> 0..MaxProcs]
    /\ cache \in [Engines -> Unusable..MaxProcs]

(* "The final path only ever exists as a complete engine" (the comment in  *)
(* make_build_spec), apart from what an earlier TensorRT left there.       *)
FinalPathComplete ==
    \A e \in Engines : cache[e] \in Procs => Whole(cache[e])

(* It does as long as the player never dies during a build.                *)
EngineWhole == past # "orphan" => FinalPathComplete

(* aji_configure does not wait for a build: when it joins the worker that  *)
(* came before, that one has nothing left to do but set its flag.          *)
ConfigureDoesNotWait == call = "start" => Ended \/ thread = "flag"

(* As long as the player quits by aji_destroy there is one trtexec at a    *)
(* time, and none, and no half-written engine, after it has quit.          *)
QuitIsClean ==
    past = "quit" =>
        /\ \A p, q \in DOMAIN procs : Alive(p) /\ Alive(q) => p = q
        /\ ~up => /\ \A p \in DOMAIN procs : ~Alive(p)
                  /\ \A e \in Engines : building[e] = NoFile

(* A chain comes to be loaded, or to stop at an engine whose build failed, *)
(* unless the user asks for another or quits: no end of a build gets lost  *)
(* on the way from the worker through aji_poll to the next aji_configure,  *)
(* what a dead player left behind does not stop a later one, and an engine *)
(* of an earlier TensorRT is "deleted and rebuilt once" (the comment on    *)
(* ensure_engine).  Once, if the new one loads: a chain need not settle at *)
(* an engine that was whole and did not, for that one is built again at    *)
(* every configure, and each time aji_poll asks for the next configure.    *)
Settled == call = "idle" /\ (loaded = Len(want) \/ Due \in failed)
Rebuilds == told /\ loaded < Len(want) /\ Due \in refused
ChainSettles ==
    \A c \in Chains :
        up /\ want = c ~> Settled \/ Rebuilds \/ ~up \/ want # c

-----------------------------------------------------------------------------
(* The inductive invariant behind the safety properties. *)

(* The worker has a trtexec that it has not finished with. *)
HasKid == kid # NoProc /\ thread \in {"store", "wait", "unstore", "finish"}

(* What the atomics say about the worker, and what it knows of trtexec.    *)
WorkerSound ==
    /\ running <=> thread \in {"spawn", "store", "wait", "unstore", "finish",
                               "clear"}
    /\ thread # "none" => \E e \in Engines : epath = {e}
    /\ child = IF thread \in {"wait", "unstore"} THEN kid ELSE NoProc
    /\ thread \in {"store", "wait", "unstore"} => kid # NoProc
    /\ HasKid => procs[kid].makes \in epath
    /\ HasKid /\ thread \in {"unstore", "finish"} => ~Alive(kid)

(* What the caller's thread may rely on from one step to the next. *)
CallSound ==
    /\ up <=> call # "gone"
    /\ ~up => thread = "none"
    /\ call \in {"decide", "start"} => loaded < Len(want)
    /\ call = "start" => ~running

(* No file has two paths, and a trtexec that has not opened one yet can    *)
(* create one.                                                             *)
FilesApart ==
    /\ \A e \in Engines : building[e] <= Len(procs) /\ cache[e] <= Len(procs)
    /\ \A d, e \in Engines :
         building[e] # NoFile => /\ cache[d] # building[e]
                                 /\ building[d] = building[e] => d = e
    /\ \A p \in DOMAIN procs : procs[p].phase = "started" =>
         \A e \in Engines : building[e] # p /\ cache[e] # p

Parts(phase) == IF phase = "opened" THEN {}
                ELSE IF phase = "writing" THEN {"head"} ELSE {"head", "tail"}

(* p has the .building file of its engine, and nobody else wrote in it.    *)
OwnsFile(p) ==
    /\ procs[p].file \in Procs
    /\ building[procs[p].makes] = procs[p].file
    /\ pieces[procs[p].file] = {p} \X Parts(procs[p].phase)

(* Unless a player died during a build, only the worker's trtexec runs.    *)
OneWriter ==
    past # "orphan" =>
        /\ \A p \in DOMAIN procs :
             Alive(p) => p = kid /\ thread \in {"store", "wait"}
        /\ HasKid /\ procs[kid].phase \notin {"started", "failed"} =>
             OwnsFile(kid)

(* Unless a player died, each .building file is that of a build going on.  *)
NothingLeft ==
    past = "quit" => \A e \in Engines :
        building[e] # NoFile => HasKid /\ procs[kid].makes = e

IInv == /\ TypeOK /\ WorkerSound /\ CallSound
        /\ FilesApart /\ OneWriter /\ NothingLeft
        /\ EngineWhole

=============================================================================
