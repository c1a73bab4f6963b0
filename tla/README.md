# Verification of libaji

libaji upscales and interpolates video frames on the GPU. A player's filter (or
the offline encoder `animejanai-encode`) hands it frames and collects them some
frames later; four backends do the work, each with its own idea of what "later"
means. This directory models the part of the code where order matters: who uses
which buffer when, what an answer such as "ticket 7 is complete" is worth, what
is left of one frame, format or configuration when the next one comes, and what
happens when a thread, a process, a GPU or a call does not keep up.

Paths below are relative to the repository.

## The system

| Part | Where | State it keeps | Hard because |
|---|---|---|---|
| Ticket contract | `include/aji.h` | none: `aji_infer`, `aji_flush`, `aji_done`, `aji_wait` and their promises | every backend has to keep it with other means |
| Vulkan frame pipeline | `src/aji_vk.cpp` | 12 slots, a work queue, up to 4 worker threads, the ticket counter | slots are filled, run and emptied outside the mutex; frames finish out of order |
| ROCm frame pipeline | `src/aji_rocm.cpp` | 4 slots, a queue, one worker; errors travel in the slot | colours are converted by either thread, depending on the plan |
| ROCm engine compiles | `src/aji_rocm.cpp`, `aji_rocm_mxr.h`, `aji_rocm_compile.cpp` | a `BuildState` shared with a thread that waits for a helper process, the set that failed | two more ways to compile than one would think; a report that can be dropped |
| TensorRT tickets | `src/aji_trt.cpp` | 8 CUDA events used in turn, the next ticket, a watermark | an event is recorded again for a newer ticket |
| TensorRT engine builds | `src/aji_trt.cpp` | a worker thread, a `trtexec` process, atomics, the cache directory | threads, processes and a player that may die, with files as the only memory |
| TensorRT chain | `src/aji_trt.cpp`, `src/kernels.cu` | steps, chain buffers, staging, four plans, a captured CUDA graph | addresses baked into the graph; sizes of three parts that must agree |
| DirectML fences | `src/aji_dml.cpp` | two fences, a pool of command lists, one event handle | three clocks (CPU, D3D11, D3D12), and waits that time out |
| DirectML chain and staging | `src/aji_dml.cpp` | steps, staging and plans by key, cached shared textures | rebuilt in place, in part, under frames in flight; cached raw addresses |
| RIFE | each backend, `src/rife_cpu.cpp` | the network, cached embeddings | synchronous; mostly numeric |
| Encoder | `src/encode.c` | a ring of frames in flight, two RIFE neighbours, packets held back | every buffer lives exactly as long as its last reference |
| Dispatcher | `src/aji_dispatch.cpp` | the chosen library | stateless once loaded |
| Profiles | `src/aji_conf.cpp` | a parsed file | a pure function, read again at every configure |
| Numeric kernels | shaders, `.cu`, `.hip`, `src/resample.h` | none | floating point |

One filter thread makes all calls on a context. Workers of the Vulkan and ROCm
pipelines share the slot ring with it under one mutex, and the contents of
slots without it. The GPU queues run on their own and are visible through
events and fences. The TensorRT build adds a worker thread that talks to the
caller through atomics and to `trtexec` through files; `aji_poll` is how the
caller hears of it. The encoder is just another caller, but a strict one: it
also owns the buffers.

What makes each part correct:

* a ticket called complete is complete, with all earlier ones (all backends);
* the result of a frame lands in that frame's planes, and in nobody else's;
* a slot, a command list or a buffer has one user, and is given back;
* no call blocks for good, no build or error is lost on its way to the caller;
* a file at an engine's final path is a whole engine;
* a frame goes through the chain of the last configure, with buffers that exist
  and are large enough, and with plans made for its own format, siting and
  size;
* the encoder puts out every picture, once, in order.

The hazards, each at its line and with the properties that watch it, are listed
in `PROJECT.json`.

## The modules

| Module | Models | In a sentence |
|---|---|---|
| `FrameTickets` | `include/aji.h` | the abstract specification: submit, finish in order, report what is over |
| `VkPipeline` | `src/aji_vk.cpp` | refines `FrameTickets`; proved |
| `RocmPipeline` | `src/aji_rocm.cpp` | refines `FrameTickets`; proved |
| `TrtTickets` | `src/aji_trt.cpp` | refines `FrameTickets`; proved |
| `DmlFences` | `src/aji_dml.cpp` | refines `FrameTickets` while the GPU answers in time; proved |
| `TrtBuild` | `src/aji_trt.cpp` | background builds with processes, files and a player that dies; proved |
| `RocmBuild` | `src/aji_rocm.cpp`, `aji_rocm_mxr.h`, `aji_rocm_compile.cpp` | the same for ROCm, whose worker, helper and report are others; proved |
| `Profile` | `src/aji_conf.cpp` | operators: a file, the profile read from it, the chain it picks |
| `ChainGeometry` | `src/aji_trt.cpp` | operators: the sizes a frame takes on its way (the DirectML code is the same) |
| `TrtChain` | `src/aji_trt.cpp` | configure, infer, resize and RIFE over the memory they keep; uses both; proved |
| `DmlChain` | `src/aji_dml.cpp` | the same for DirectML, with frames in flight; uses both |
| `Transcode` | `src/encode.c` | the encoder, a caller that stands on an instance of `FrameTickets`; proved |
| `VkPipeline_proofs`, `RocmPipeline_proofs`, `TrtTickets_proofs`, `Dml_proofs`, `TrtBuild_proofs`, `RocmBuild_proofs`, `TrtChain_proofs`, `Transcode_proofs` | | the theorems |
| `MC*` | | instances for TLC; `MCFiles` has the profiles of both chains |

The `map` of `PROJECT.json` gives the source lines of each definition.

**Frames, tickets, planes.** The frame of ticket *n* is frame *n*, and so are
its input and output planes; a history variable `written` notes which input
went where. Pixel formats are in `TrtChain` and `DmlChain`, and in `VkPipeline`
as the look of a frame; sizes in the two chains only, the numbers nowhere.

**VkPipeline, RocmPipeline.** An action is a critical section under the mutex
or the work one thread does on a slot between two of them. `worker_loop` is
four actions: take under the lock, read the input, write the output, mark DONE.
They are separate because `aji_wait` can free the slot in between. `aji_infer`
is claim, fill, enqueue. A condition variable is the guard of the action after
its wait: every change of a predicate is made under the mutex and followed by a
notify. `aji_configure` and `aji_destroy` stop the workers, which run the queue
dry first, and free the ring (Vulkan) or expect it drained (ROCm). The filter
is part of the model: it keeps at most `Depth` tickets, collects them as
`aji.h` allows, and on a reconfigure of ROCm drains first. On Vulkan a plan
without a resize is a single network, whose result the GPU converts with what
all workers share (`c->gp`); `gp` is the look, that is format, matrix and
range, which that was last built for. With a resize the CPU converts, with
scratch of the worker's own.

**TrtTickets.** The stream is a count of operations put on it and a count of
those that ran; an event has fired when the operation that last recorded it has
run. One action per call, as all calls come from one thread. All the ways
`aji_flush` fails are there.

**DmlFences.** A call is a short program of steps (`todo`): record and submit a
list, wait for D3D11's handoff, put a marker and wait for it, tear down. The
D3D12 queue is a sequence of executes, waits and markers, run from the front;
any step of a frame can fail. `late` says whether the GPUs may stop answering;
then waits time out, and the model has what the code does after a timeout.

**TrtBuild.** The worker of `start_async_build` and `run_build_process` is cut
at every access to an atomic (`build_child`, `build_running`,
`build_done_flag`), the caller's `ensure_engine`, `aji_poll` and `aji_destroy`
likewise. A file is a set of pieces with the process that wrote each;
`.building` and final paths are names for files, so that a process keeps
writing to the file it opened after a rename, as POSIX has it. The player may
quit, die (its `trtexec` lives on) and start again. A whole engine of `Frail`
may load or not, each time it is looked at; one that does not is removed, as in
the code (`Removed`), and `refused` keeps its name.

**RocmBuild.** Cut at the accesses to `BuildState` and to the cache directory:
the worker forks the helper, stores its pid, reaps it, clears the pid, sets the
result and then `done`; `build_plan` comes to one engine after the other, loads
it, removes it if it does not load and compiles it in the calling thread
(`Heal`), or defers it to the worker (`Start`). Saving has three steps, so that
a process may die, and another open the same file, in between. A model that has
to wait drops the chain to passthrough, RIFE that failed leaves the chain
without it.

**Profile, ChainGeometry.** A file is a record of what it says. `Load` gives
the profile (limits with 0 for none, models counted and not listed, the sharp
preset for built-in slots only, the file's slot before the built-in one), and
`Select` the chain for a video. Rounding is exact: `round_even` of a quotient.

**TrtChain.** One thread, one action per call. `Outlines` works out, before the
run, all chains a slot may pick for a video; `aji_configure` chooses one and
what goes wrong with it (`Troubles`). A plan is the description it was made
from, a buffer its size, a graph what it computes, which memory it has
addresses of, and which of that was freed since. `faults` notes what the last
call did wrong: used memory that is gone, wrote past a buffer, gave a frame
something that was not its own, refused it. The caller sends what the library
told it to send, of any format, siting and colours.

**DmlChain.** The same, with calls that only submit. `busy` has the resources
that submitted work uses; a call that replaces one of these puts it into
`released`. Any step of a frame may fail and leaves the staging partly replaced
as the code does, and later frames go on with what is left. The caller's
textures are addresses; at a configure it may get new ones at the same
addresses.

**Transcode.** One thread, so an action is a stretch of straight code; the GPU
runs the jobs of the tickets in between. What a buffer holds is modelled, and a
buffer without a reference may be given out again at once, so a reference
dropped early shows as a wrong picture in the output. The encoder gives back as
many packets as it likes. Of a copied packet the output notes whether the muxer
took it, which the code does not look at, and the time base it is written in.

## The runs

| Run | Checks | Expected |
|---|---|---|
| `vk_pipeline` | slots, refinement, termination of calls: one worker under any drain and with changing formats, two workers if the oldest ticket is collected first and the format stays | pass |
| `vk_parallel_drain` | two workers, the filter drains by its newest ticket: `CompleteMeansFinished` | violated |
| `rocm_pipeline` | the ROCm ring | pass |
| `trt_tickets` | the event ring, a caller deeper than the ring | pass |
| `trt_build` | two chains over two engines, one of which may not load; quits, deaths, restarts | pass |
| `trt_chain` | memory, plans and graph, and the sizes of RIFE, hoisted resize and chain, with and without a profile | pass |
| `trt_hoist_alone` | a caller that asks for the resize only if RIFE comes first: `NeverRefused` | violated |
| `dml_fences` | lists, markers, handoffs; hanging GPUs | pass |
| `dml_stale_event` | the answers after a wait that timed out | violated |
| `dml_chain` | staging, plans and textures of changing frames in flight; sizes and element types | pass |
| `rocm_build` | a model and RIFE; engines of another version; quits, deaths, restarts | pass |
| `transcode` | depths at both ends of the clamp, RIFE factors 1 to 3 | pass |

What their properties say together: `SlotsSound` is that a slot has one user,
is never lost and that no frame's picture lands in another's planes, and on
Vulkan that it has the colours this frame asks for; `Progress`
and `CallsReturn` that queued frames finish and calls come back;
`ImplementsTickets` is the refinement of the contract. `EngineWhole`,
`QuitIsClean` and `ChainSettles` are stated for both backends that build
engines. `MemorySafe` (dead memory, overruns) and `FramesGetTheirChain` are
about what one call leaves to a later one on TensorRT, `FramesGetTheirOwn` and
`InFlightKept` on DirectML; `NeverRefused`, `HoistIsInvisible` and
`PicturesFit` relate the sizes of parts that work them out on their own.

**Bounds.** Every constant called `Max...` is a bound of the model, used in
guards only. Rings are smaller than in the code (3 slots for 12, 2 for 4, 2
events for 8) and the number of frames is larger than the ring, so that every
slot is used again; the depth reaches the ring's size, the limit `aji.h` sets
(in `trt_tickets` it exceeds it, since nothing stops the TensorRT caller). Two
workers are enough for frames to overtake each other. `trt_build` allows four
`trtexec` processes, enough for a build, an orphan and a build after a restart
of two engines. In `dml_fences` four lists and five markers let each list be
recycled. In `trt_build` the engine that may not load is RIFE's, at the end of
one chain and absent from the other. `rocm_build` likewise has four compiles,
for a helper, an orphan, a helper after the restart and one in the calling
thread. The profiles of `trt_chain` and `dml_chain` have a chain for each case:
a resize before RIFE and one within the chain, RIFE first, RIFE last and RIFE
alone, a factor over 100 that a cap takes back, one that enlarges before RIFE,
networks of both element types, a network that is not there. Two videos give
configures that change every size; two or three formats and two sitings make
every key differ in each part. `dml_chain` lets one call fail between two
configures, which the later ones then meet. In `transcode` five pictures cross
a ring of three slots, with three surfaces and four pool frames: buffers are
used again as soon as their last reference goes, and the pool can run dry. The
proofs have none of these bounds: they are about any ring, depth, number of
workers, lists, engines, processes, deaths, surfaces, pool frames, any factor
and any length of run, since each `Max...` is a constant that may be any
natural.

**Deadlock** is checked except in `dml_fences`, `trt_tickets`, `trt_build`,
`rocm_build` and the two chains, where the caller may simply stop calling and
every bound may be used up. `VkPipeline`, `RocmPipeline` and `Transcode`
stutter once the context is gone, and only then.

**Fairness.** Weak fairness of running threads and of a call already entered;
none of a call being made. `Progress`, `CallsReturn`, `RunEnds` need no more
than an OS that schedules. In `DmlFences` the queues are fair unless `late`: a
GPU that hangs is just what the timeouts are for, and `CallsReturn` holds then
too. In `TrtBuild` and `RocmBuild` compiles end, and the caller polls and
configures when it is told to, which is what `aji.h` asks of it (lines 233 to
237): without it no chain could settle. The chains have safety properties only:
their calls are straight code. In `Transcode` failures may happen at any call
and never have to.

**Mutants.** Each property of a passing run is shown to be falsifiable: the
operators marked "Fault" in the modules are plausible slips in the code (a slot
not popped, a wait that frees too early, a watermark one too high, a join left
out), and replacing the faithful definition by the faulty one breaks the
property under the same configuration. They are in no behaviour of the
specifications.

## What the runs found

Three runs show the code do other than a comment or the header says; they are
the findings of `PROJECT.json`.

* **Vulkan, several workers.** `aji_wait` frees all slots with earlier tickets,
  as "the FIFO worker finished every lower-ticket frame already" (line 1346 of
  `src/aji_vk.cpp`); the default is four workers, and after a drain by the
  newest ticket a worker may still be reading and writing a slot that is free.
  Held back by collecting the oldest first: `vk_pipeline`.
* **DirectML, timeouts.** A wait that timed out leaves its event registered;
  the event ends a later wait early. `ImplementsTickets` of `dml_fences` shows
  that nothing else does while the GPU is in time.
* **TensorRT, RIFE first.** While RIFE's engine is being built, `aji_configure`
  wants frames of the hoisted size, but `aji_rife_before_upscale` answers 0. A
  caller that does as `aji.h` says (line 215) then sends frames of the source's
  size, and gets `AJI_ERR_SHAPE` for each. `trt_chain` shows that one that asks
  `aji_pre_resize` by itself is served.

Further observations, made while modelling. Some are exceptions that a property
names, so that it says what else holds.

* Vulkan: a model that fails in a worker yields `AJI_OK` (line 1075); the
  planes are then unwritten.
* Vulkan: `c->gp` is "Read-only after build, shared across workers" (line 771),
  but `build_gp_shared` builds it anew for a frame of another format, matrix or
  range, while another worker is using it without the lock (line 936). With
  `Mode(2, TRUE, Changing)`, two workers and changing formats, `OwnColours`
  fails. Nothing happens while all frames in flight look alike, or with one
  worker: `vk_pipeline`.
* ROCm: if the CPU converts the colours, `aji_done` answers 1 before the planes
  are written (line 1294). A filter that always calls `aji_wait` afterwards is
  safe: `CollectedMeansWritten`.
* TensorRT: `aji_flush` answers 0, "nothing pending", when it fails with the
  work already on the stream, and the encoder then emits the frame without
  waiting (`src/encode.c:908`).
* TensorRT builds: a `trtexec` that outlives its player writes on in the file
  which the next player's build renames (lines 610, 701); ROCm's helper has one
  temporary file per engine (`aji_rocm_mxr.h:86`) and does the same. Hence
  `past # "orphan"` in `EngineWhole`. A compile that is killed leaves its
  temporary file.
* TensorRT builds: an engine that `trtexec` builds whole but the runtime does
  not load is removed (line 901). The comment on `ensure_engine` has it
  "deleted and rebuilt once" (line 885), and so it is for a caller that waits
  for builds. With `async_build` nothing remembers that it was: the build did
  not fail, so it is not in `failed_builds`, `aji_poll` says 1, the next
  configure removes the new engine and starts the next build, for ever. Hence
  the exception `Rebuilds` of `ChainSettles`, which needs an engine to have
  been refused.
* ROCm compiles: the second try after an engine that does not load is made in
  the calling thread, although `async_build` is set (line 384). A configure
  between the end of a compile and the `aji_poll` for it drops the report, and
  a failure with it: the compile is made once more, which `ChainSettles`
  allows. `aji_destroy` between the fork and the store of the pid waits for the
  whole compile.
* TensorRT chain: with a factor over 100 and a cap in the settings, the picture
  between the two resizes is not counted (line 1412) and does not fit the
  buffers: the exception `UncountedPicture` of `MemorySafe`.
* DirectML: a staging buffer that cannot be had leaves the key of the old ones
  in place, and a later frame of the old format finds it (lines 1933 to 1953;
  for RIFE 2494 to 2505), which is then null in part, or of the wrong size:
  "leftover staging", until a frame of another key, or a reconfigure, has it
  made anew. And staging and plans are replaced while earlier frames use them
  if format or siting changes from frame to frame, with no wait: the exception
  `Differs` of `InFlightKept`. When the drain before a teardown times out the
  teardown goes on, so `IdleWhenReset` is stated for a GPU in time.
* DirectML: a frame that fails between `begin` and `exec` leaves its list open,
  and `DoneGuard` files it with the others (line 716). Neither that nor a
  teardown closes it, so `Reset` (line 630) fails for each frame that draws it
  from the pool, and it goes back as it was. No property sees this, as the
  model does not note that a list is open.
* DirectML chain: the buffers are counted from the source (line 1810), also
  where the first resize is moved before RIFE and the chain begins with what it
  makes. `aji.h` calls that a "Pre-RIFE downscale" (line 215), but
  `first_resize_target` moves one that enlarges as well: with a profile that
  only enlarges by half before RIFE, as one of `dml_chain` does, `aji_resize`
  writes, and `aji_infer` reads, pictures larger than the buffers. TensorRT
  counts both sizes (line 1349 of `src/aji_trt.cpp`). It is the exception
  `Enlarges` of `PicturesFit`; that there is no other is proved.
* Both `build_plan`s, on an error, leave `active` set with half a plan
  (`aji_vk.cpp:708`, `aji_rocm.cpp:850`).
* Encoder: packets read before the header was written keep the input's time
  base (line 716). Nobody looks at whether the muxer takes them, nor those
  written later (line 1099): one it refuses is missing from the output, and
  `main` returns 0. For encoded pictures the answer is looked at (line 896) and
  ends the run. So `NothingLost` speaks of copied packets handed to the muxer;
  time bases no property speaks of.
* Encoder: it never asks `aji_pre_resize` or `aji_rife_before_upscale`, but
  upscales first. With a profile whose RIFE comes first its pictures have other
  sizes than RIFE, or with a hoisted resize the chain, is set up for
  (`AJI_ERR_SHAPE`). And a profile of RIFE alone makes `aji_configure` answer
  0, which the encoder takes for passthrough: no pool is made (line 1308), and
  `upscale_one` asks for a frame of it.
* Profiles: models are counted, not listed, so that `model_1` and `model_3`
  give an empty model 2 and lose model 3.

## What is proved

Every theorem is about the specification as TLC runs it, for every value of the
constants that the module's `ASSUME` admits. Each `*_proofs` module has the
same layout: lemmas about the module's operators, one lemma per action (or per
part of the invariant), `Invariance`, which is `Spec => []IInv`, and then the
properties of the runs, each from `IInv`. The invariants stand at the end of
the modules they are about, in named parts; TLC checked each of them on the
instance of its run before it was proved.

| Module | Theorems, besides `Invariance` and `TypeCorrect` | Assumes |
|---|---|---|
| `TrtTickets` | `WatermarkIsTrue`, `NoTicketLost`, `ShallowFlushDoesNotBlock`, `Implements` | an event in the ring |
| `VkPipeline` | `SlotsAreSound`, `AnswersAreTrue`, `Implements` | depth at most the ring; frames are collected in the order they finish in |
| `RocmPipeline` | `SlotsAreSound`, `CollectedIsWritten`, `Implements` | depth at most the ring |
| `DmlFences` | `ListsAreIdle`, `Implements`, `AnswersAreTrue` | a list, a ticket |
| `DmlChain` | `FramesAreTheirOwn`, `FlightIsKept`, `PicturesAlwaysFit` | `"none"` is no format; for the last and the types, `ProfilesTyped` |
| `TrtBuild` | `FinalPathIsWhole`, `NoWait`, `QuitsCleanly` | chains are not empty |
| `RocmBuild` | `FinalPathIsWhole`, `QuitsCleanly` | chains are not empty, with one RIFE at most |
| `TrtChain` | `FramesAreTheirOwn`, `NothingDead`, `MemoryIsSafe`, `NeverRefusesOwnSizes` | `"none"` is no format; for the last two, `ProfilesTyped` |
| `Transcode` | `PicturesComeInOrder`, `NothingIsLost` | a ring of two slots, factors from 1 |

**The contract.** All four `Implements` are proved, so what `aji.h` promises of
tickets holds of the four backends: of Vulkan under the hypothesis below, of
DirectML while the GPU answers in time. There `AnswersAreTrue` draws the
conclusion that no report is premature from the contract alone (`Promise`). On
Vulkan and ROCm a frame may be over while an earlier one is not; what is
`finished` in the abstract specification is then the longest prefix of tickets
that are over, which a step extends by one `Finish` or leaves as it is
(`LongestPrefix`, `PrefixGrows`).

**TrtTickets.** The invariant has four parts: `TypeOK`, with one entry of the
history `marks` per ticket; the marks up to the watermark have run
(`CompleteMeansRan`); a ticket whose event was recorded again is below the
watermark, and the event of any other still tracks it (`RingTracksTickets`);
and later tickets were marked later (`MarksInOrder`). `CompleteMeansRan` alone
is not inductive. `aji_done` raises the watermark to *t* because *one* event
has fired; that the event is *t*'s is the third part, that all earlier tickets
are over too is the fourth. The third part survives a flush because two tickets
less than a ring apart have different slots (`SlotsApart`) and tickets a ring
apart have the same one (`SlotWraps`), so that the ticket that loses its event
is the one `Retire` has just put below the watermark.

**VkPipeline.** The theorems have the hypothesis
`\A m \in Modes : CollectsInOrder(m)`: a single worker, or a filter that asks
about its oldest ticket only and whose frames look alike. It is there since the
code does not keep the promise without it: `vk_parallel_drain` is the
counterexample for the order, and the observation on `c->gp` above the one for
the looks. `SlotsSound` needs to know where each slot is. `RingSound` says it
from the slot's side (a SUBMITTED slot is claimed by the call or queued, a
RUNNING one has a worker, a DONE one a ticket that is over), `WorkersSound` and
`QueueSound` from that of its users; `ThreadsSound` has the stop and start of
the workers, `CallSound` what a call may assume after it released the mutex.
The queue does not outgrow the ring, because its slots are distinct. For
`CompleteMeansFinished` it takes `TicketsSound`: the tickets in the ring are
the latest, so what `aji_wait` frees together with its target is over.

**RocmPipeline.** The same, with one worker and a stricter order (`OrderSound`:
what is DONE is earlier than what the worker has, and that is earlier than the
queue). As errors and results travel in the slot, `WorkerSound` and `RingSound`
say what a result means for the planes, and `CallSound` what the verdict of
`aji_wait` does: `CollectedIsWritten` follows, that a frame collected with
`AJI_OK` is in its own planes, whichever thread converts it.

**DmlFences.** `IdleWhenReset` follows from `ListsSound`: work in the queue is
of a list that is neither free nor being recorded, and behind it comes the
marker by which the list will be retired. The marker is put into the queue only
after the list was executed, and lists are retired by a fence that the queue
has passed. A teardown frees all lists at once, so `DrainSound` says that the
marker waited for before is behind all work, and `WaitSound` that the event
means the marker was reached, which is the part that fails when waits time
out. `BudgetSound` bounds the markers a call may still put, so that they fit
the type.

**TrtBuild, RocmBuild.** `EngineWhole` is about files, whose writers are
processes that outlive threads and players. `FilesApart` says that no file has
two paths; `OneWriter` that, unless a player died during a build, at most the
worker's process runs, and that it owns the file it writes: no other process
has written in it, and it has the pieces this process wrote so far. What is
renamed is then whole. `WorkerSound` says what the atomics are worth: which
thread is where when `build_running`, `build_child` or the flag are set. From
it follow `ConfigureDoesNotWait`, as a worker that may be joined has nothing
left to do but to return, and `QuitIsClean`. On ROCm the calling thread may
compile next to the worker. The two would share a file if they compiled the
same engine; `EnginesApart` says they never do, since the worker is only given
engines that are not `Unusable`, and the calling thread only heals one that is.

**TrtChain.** `FramesGetTheirChain` has to be known of a graph long before it
is launched. `GraphSound` says that a captured graph does what its key asks
for, with the steps of now, and that while graphs are used none of its
addresses was freed, nor will be when the next frame of its key comes: the
staging has grown for it already (`GrownEnough`). A frame that frees an address
first gives graphs up. `ChainSound` has the buffers of an active chain, and
the direct mode, in which a graph outlives a change of size; `RifeSound` that
the staging of RIFE is for the format it notes. For frames without a graph it
is `OwnPlans`: whatever plan was there, the one used is of the frame's key.
`NeverRefusesOwnSizes` is about a caller that asks `aji_pre_resize` each time
(`~OrderFirst`, as in `trt_chain`; for the other, `trt_hoist_alone` is the
counterexample). Its invariant `SizesSound` says that what the chain, the
hoisted resize and RIFE take as their sizes go together. `MemoryIsSafe` adds to
`NothingDead` that every picture fits; its invariant `MemorySound` has the
bytes of the buffers, of an active chain and of RIFE, against each size that a
call will bring.

**DmlChain.** Its invariant is `ChainIInv` (theorem `ChainInvariance`; its
types are `ChainTypeCorrect`). `FramesGetTheirOwn` cannot rest on the keys: a
key says what staging was, and staging that could not be had leaves the key.
`StagingSound` says that staging is what its key says unless some of another
format was to replace it (`botched`), which takes a failed call since the last
configure. Frames with that key are the exception the theorem
`FramesAreTheirOwn` has in its statement, and whatever happens after them is
part of the behaviours it is about. `BusySound` says of submitted work that the
staging has a key, and the plans are, of its call's sizes; as these stay
between two configures, a later call replaces what is in use only for a frame
of another format or siting: `InFlightKept`. `PicturesFit` rests on two more
parts, `SizesSound`, as on TensorRT, and `BuffersSound`: the buffers of an
active chain have room for the source and for what each step writes, in its
element type, and no network gets a type it does not take.

**The loop over the models.** What `aji_configure` makes of a profile is a fold
over any number of models (`Walk`). The facts about it are needed for all
profiles, so both chains' proofs have the induction, with `FoldLeft` unfolded
to the recursive function it stands for: such a function exists for one more
model if it does for those before (`FoldGrows`, `FoldExists`), and a set that
holds the start and is closed under a turn holds the result (`WalkStays`). The
induction itself is the least counterexample, which the naturals have by
well-founded induction (`Least`). `WalkTurned` puts in what the loop keeps:
sizes that are no empty pictures, an end that differs from the start only by a
step and, on TensorRT, bytes that cover every picture but `UncountedPicture`.
`ProfilesTyped` is the hypothesis on the data: videos have pictures, networks a
scale, factors and heights are numbers, and no height is 1, of which
`round_even` makes 0; on TensorRT also that the engine of a file, in direct
mode, has a largest size. TLC evaluates it for the profiles of both runs.

**Transcode.** In the loop without RIFE, `RingSound` says that the ring holds
the decoded pictures not sent yet, in order from the oldest slot, together with
all jobs that may still run, and that the output buffer of a job belongs to one
slot and to no picture inside the codec. With RIFE, `RifeSound` says which
pictures the neighbours are, and that what was sent ends at the earlier one or
at the phase between the two. `EncoderSound` says that what the codec still
refers to is what it is to show. That buffers are recycled the moment their
last reference goes is what makes these parts necessary: `PicturesInOrder`
speaks of the output only, in which it is too late. `AuxSound` and
`ProgramSound` (every picture was sent when the trailer is due) give
`NothingLost`; `AuxSound` says of each packet that it is still held back or was
handed to the muxer, after all before it, whatever the muxer made of it. The
numeric lemmas are on places in a ring (`Wrap`, `AtIs`, `Places`) and on the
division by the factor (`Phases`, `CountedToEarlier`).

**Model-checked only.** `HoistIsInvisible` of `TrtChain`: it compares two
walks, and selects the networks among their steps with a recursive operator of
the community modules. Nor is it claimed of every typed profile: with a first
model that has no network, and a height above the cap, rounding may part the
two walks. Of `Profile` and `ChainGeometry`, what the operators
compute; only the types of the sizes are proved. And all liveness:
`CallsReturn`, `Progress`, `ChainSettles` and `RunEnds` rest on fairness, which
the proof system does not reason about.

## What is not modelled

* Numbers: colours, resampling, networks, shaders, JIT-compiled kernels.
* `AJI_VK_SYNC`, which has no ring; the Vulkan and ROCm RIFE paths, which are
  synchronous; the plans of these two backends beyond a flag and, on Vulkan, a
  resize; Vulkan's input conversion on the GPU, which is off by default.
* Of `TrtBuild`: builds a caller waits for, a model file that is not there
  (`make_build_spec` fails and with it the configure), engines of other
  TensorRT versions being removed, the legacy file name. Of `RocmBuild`:
  compiles without `async_build`, the direct mode, the skipping of chains. A
  pid is never used again for another process.
* Of `TrtChain`: callers with more than one stream, the log, and the asynchrony
  of the GPU, which is `TrtTickets`. The file names of engines. A direct
  configure that is refused (lines 1194 to 1203), as it changes nothing.
* Of `DmlFences` and `DmlChain`: device removal, a failure between the last two
  segments of an interpolation (`Programs` has them as one), open lists, the
  ONNX Runtime submissions between segments, a GPU that is late while staging
  is replaced, and textures that change without a configure.
* Of `Profile`: the text of the file.
* Of `Transcode`: the command line, opening files and codecs, resizing, the
  download path of software encoders (which copies, so keeps references for
  less long), failing flushes, profiles whose RIFE comes first or is alone, and
  an error while reading, which the code takes for the end of the input.
* The dispatcher, harnesses and tools.

## Plan

Order was by importance: the contract, the four ways to keep it, the build of
engines, the largest caller, then the chains between frames, ROCm's compiles
and the profile. What is next:

1. **Model.** An abstract specification of engine builds, "a request is settled
   once", that `TrtBuild` and `RocmBuild` implement. `Dispatch`: loading,
   falling back, forwarding. A caller that composes `TrtChain` with
   `TrtTickets`: plans and staging replaced under frames on the stream.
2. **Prove.** The same for what item 1 adds; and that what `Select` picks is
   typed (`ProfilesTyped`) for every file whose sections are.
