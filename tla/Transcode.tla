------------------------------ MODULE Transcode ------------------------------
(***************************************************************************)
(* The offline encoder (src/encode.c): decode, upscale or interpolate,     *)
(* encode, and copy the other streams.                                     *)
(*                                                                         *)
(* The encoder is a caller of libaji, so it stands on the tickets of       *)
(* FrameTickets: the GPU runs the jobs of the tickets when it likes, in    *)
(* order.  One thread runs everything else.  The upscale path keeps a ring *)
(* of frames in flight; the RIFE path waits for every ticket at once.      *)
(*                                                                         *)
(* A picture is named by its time, in frames of the output: with a factor  *)
(* F, decoded frame n shows time (n - 1) * F.  A buffer holds a picture,   *)
(* and is free when no frame reference is left; free buffers are used      *)
(* again, by the decoder (surfaces) or by the pool libaji writes into.     *)
(***************************************************************************)
EXTENDS Integers, SequencesExt

CONSTANTS
    MaxRing,     \* MAX_RING (32 in the code)
    Requests,    \* --pipeline-depth
    Factors,     \* the RIFE factor; 1 is a chain without RIFE
    NumSurfaces, \* the decoder's surfaces
    NumPool,     \* the frames of aji_pool
    MaxPictures, \* bound of the model: the input is no longer than that
    MaxPackets   \* bound of the model: packets of the other streams

ASSUME EncoderAssumption ==
    /\ MaxRing \in Nat /\ MaxRing > 1
    /\ Requests \subseteq Int /\ Factors \subseteq Nat \ {0}
    /\ NumSurfaces \in Nat /\ NumPool \in Nat
    /\ MaxPictures \in Nat /\ MaxPackets \in Nat

Surfaces == 1..NumSurfaces
Pool == (NumSurfaces + 1)..(NumSurfaces + NumPool)
NoBuffer == 0
NoPicture == -1
Empty == [in |-> NoBuffer, out |-> NoBuffer, ticket |-> 0]

VARIABLES
    submitted, finished, reported,   \* the tickets
    jobs,        \* of each ticket: the buffer read, the buffer written
    content,     \* the picture each buffer holds
    factor,      \* rnum, or 1
    passthrough, \* no chain is active: frames go to the encoder as they are
    rebases,     \* will the muxer's header change the streams' time bases?
    depth,       \* ring_depth
    ring, head, count,    \* the ring of slots
    prev, cur, phase,     \* up_prev, up_cur, k
    dec,         \* the decoded frame in push_upscale or push_rife
    decoded,     \* frames decoded so far
    pc,          \* where the program is
    opened,      \* the header is written
    enc,         \* frames the encoder holds
    video,       \* pictures in the output, in order
    held,        \* aux_buf
    packets,     \* packets of the other streams read so far
    aux,         \* those handed to the muxer: which, in whose time base,
                 \* and whether it took them
    success      \* main returns 0

tickets == <<submitted, finished, reported>>
modeVars == <<factor, passthrough, rebases, depth>>
ringVars == <<ring, head, count>>
rifeVars == <<prev, cur, phase>>
inputVars == <<dec, decoded>>
auxVars == <<held, packets, aux>>
outVars == <<opened, enc, video, success>>
vars == <<tickets, jobs, content, modeVars, ringVars, rifeVars, inputVars,
          pc, outVars, auxVars>>

Tickets == INSTANCE FrameTickets

(* main: the depth asked for is clamped to 1 .. MAX_RING - 1. *)
Clamp(n) == IF n < 1 THEN 1 ELSE IF n > MaxRing - 1 THEN MaxRing - 1 ELSE n

Init ==
    /\ Tickets!Init
    /\ jobs = << >>
    /\ content = [b \in Surfaces \cup Pool |-> NoPicture]
    /\ factor \in Factors
    /\ passthrough \in {FALSE} \cup (IF factor = 1 THEN {TRUE} ELSE {})
    /\ rebases \in BOOLEAN
    /\ depth \in {Clamp(n) : n \in Requests}
    /\ ring = [i \in 0..(MaxRing - 1) |-> Empty] /\ head = 0 /\ count = 0
    /\ prev = NoBuffer /\ cur = NoBuffer /\ phase = 0
    /\ dec = NoBuffer /\ decoded = 0
    /\ pc = "read"
    /\ opened = FALSE /\ enc = << >> /\ video = << >> /\ success = FALSE
    /\ held = << >> /\ packets = 0 /\ aux = << >>

Interpolates == factor > 1

(* The buffers some frame reference holds. *)
InUse == {dec, prev, cur} \cup ToSet(enc)
         \cup {ring[i].in : i \in DOMAIN ring}
         \cup {ring[i].out : i \in DOMAIN ring}

(* The buffer that is used next.  Which free one it is does not matter;    *)
(* the first one is used again as soon as it can be.                       *)
FreeIn(set) ==
    {b \in set \ InUse : \A c \in set \ InUse : b <= c}

(* The GPU runs the job of the next ticket. *)
GpuRuns ==
    /\ \E t \in 1..submitted :
          /\ 1..(t - 1) \subseteq finished
          /\ Tickets!Finish(t)
          /\ content' = [content EXCEPT ![jobs[t].to] = content[jobs[t].from]]
    /\ UNCHANGED <<jobs, modeVars, ringVars, rifeVars, inputVars, pc,
                   outVars, auxVars>>

(* aji_infer and aji_flush: a job from one buffer to another. *)
Submits(from, to) ==
    /\ Tickets!Submit
    /\ jobs' = Append(jobs, [from |-> from, to |-> to])

(* aji_wait. *)
Waited(t) == Tickets!Report(t)

-----------------------------------------------------------------------------
(* emit_output: the first frame opens the encoder and writes the header    *)
(* and, after it, the packets held back until then; the frame is sent, and *)
(* as many packets as there are come back.  The encoder refers to a frame  *)
(* until its packet is out.  The pictures are read from read[b].           *)
(*                                                                         *)
(* A picture the muxer does not take ends the run (Fails).  Nobody looks   *)
(* at what it says of a packet of another stream: one it does not take is  *)
(* lost, and the run goes on.                                              *)

Written(packet, base, taken) ==
    [id |-> packet, base |-> base, taken |-> taken]
AsRead == IF rebases THEN "in" ELSE "out"

Emits(b, read) ==
    /\ opened' = TRUE
    /\ IF opened
       THEN UNCHANGED <<held, aux>>
       ELSE /\ \E taken \in [DOMAIN held -> BOOLEAN] :
                  aux' = [i \in DOMAIN held |->
                            Written(held[i], AsRead, taken[i])]
            /\ held' = << >>
    /\ LET sent == Append(enc, b) IN
       \E n \in 0..Len(sent) :
          /\ video' = video \o [i \in 1..n |-> read[sent[i]]]
          /\ enc' = SubSeq(sent, n + 1, Len(sent))
    /\ UNCHANGED <<packets, success>>

-----------------------------------------------------------------------------
(* The demux and decode loop: run. *)

Decode ==
    /\ pc = "read" /\ dec = NoBuffer
    /\ decoded * factor < MaxPictures
    /\ \E s \in FreeIn(Surfaces) :
          /\ dec' = s
          /\ content' = [content EXCEPT ![s] = decoded * factor]
    /\ decoded' = decoded + 1
    /\ UNCHANGED <<tickets, jobs, modeVars, ringVars, rifeVars, pc, outVars,
                   auxVars>>

(* A packet of a stream to be copied: held back until the header is there, *)
(* and rescaled and written, if the muxer takes it, once it is.            *)
Copy ==
    /\ pc = "read" /\ dec = NoBuffer
    /\ packets < MaxPackets
    /\ packets' = packets + 1
    /\ IF opened
       THEN /\ \E taken \in BOOLEAN :
                  aux' = Append(aux, Written(packets + 1, "out", taken))
            /\ UNCHANGED held
       ELSE /\ held' = Append(held, packets + 1)
            /\ UNCHANGED aux
    /\ UNCHANGED <<tickets, jobs, content, modeVars, ringVars, rifeVars,
                   inputVars, pc, outVars>>

EndOfInput ==
    /\ pc = "read" /\ dec = NoBuffer
    /\ pc' = "flush"
    /\ UNCHANGED <<tickets, jobs, content, modeVars, ringVars, rifeVars,
                   inputVars, outVars, auxVars>>

-----------------------------------------------------------------------------
(* The ring: push_upscale and ring_reclaim. *)

Oldest == (head - count + MaxRing) % MaxRing

(* The oldest slot is waited for, emitted and emptied: when the ring is    *)
(* full, and at the end of the input.                                      *)
Reclaims(i) ==
    /\ ~Interpolates
    /\ \/ pc = "read" /\ dec # NoBuffer /\ count = depth
       \/ pc = "flush" /\ count > 0
    /\ IF ring[i].ticket = 0 THEN UNCHANGED tickets ELSE Waited(ring[i].ticket)
    /\ Emits(ring[i].out, content)
    /\ ring' = [ring EXCEPT ![i] = Empty]
    /\ count' = count - 1
    /\ UNCHANGED <<jobs, content, modeVars, head, rifeVars, inputVars, pc>>

(* Fault: the slot before the head, the newest, is taken for the oldest. *)
ReclaimNewest == Reclaims((head - 1 + MaxRing) % MaxRing)

Reclaim == Reclaims(Oldest)

Push(slot) ==
    /\ ~Interpolates
    /\ pc = "read" /\ dec # NoBuffer /\ count < depth
    /\ ring' = [ring EXCEPT ![head] = slot]
    /\ head' = (head + 1) % MaxRing
    /\ count' = count + 1
    /\ dec' = NoBuffer
    /\ UNCHANGED <<finished, reported, content, modeVars, rifeVars, decoded,
                   pc, outVars, auxVars>>

PushPassthrough ==
    /\ passthrough
    /\ Push([Empty EXCEPT !.out = dec])
    /\ UNCHANGED <<submitted, jobs>>

(* The slot of a job from the decoded frame to a frame of the pool keeps   *)
(* both until the job is waited for.  Faults: only the output is kept; the *)
(* ticket is the one after.                                                *)
Kept(out) == [in |-> dec, out |-> out, ticket |-> submitted + 1]
KeptOutput(out) == [Kept(out) EXCEPT !.in = NoBuffer]
KeptLater(out) == [Kept(out) EXCEPT !.ticket = @ + 1]

Slot(out) == Kept(out)

PushUpscale ==
    /\ ~passthrough
    /\ \E b \in FreeIn(Pool) : Submits(dec, b) /\ Push(Slot(b))

-----------------------------------------------------------------------------
(* RIFE: upscale_one and push_rife. *)

RifeUpscale ==
    /\ Interpolates
    /\ pc = "read" /\ dec # NoBuffer
    /\ \E b \in FreeIn(Pool) : Submits(dec, b) /\ cur' = b
    /\ pc' = "sync"
    /\ UNCHANGED <<finished, reported, content, modeVars, ringVars, prev,
                   phase, inputVars, outVars, auxVars>>

(* The frame is upscaled; the first one has no neighbour yet. *)
RifeWait ==
    /\ pc = "sync"
    /\ Waited(submitted)
    /\ dec' = NoBuffer
    /\ IF prev = NoBuffer
       THEN prev' = cur /\ cur' = NoBuffer /\ pc' = "read"
       ELSE pc' = "base" /\ UNCHANGED <<prev, cur>>
    /\ UNCHANGED <<jobs, content, modeVars, ringVars, phase, decoded,
                   outVars, auxVars>>

RifeBase ==
    /\ pc = "base"
    /\ Emits(prev, content)
    /\ phase' = 1
    /\ pc' = "phases"
    /\ UNCHANGED <<tickets, jobs, content, modeVars, ringVars, prev, cur,
                   inputVars>>

(* aji_infer_rife: the picture at phase k between two neighbours. *)
Between(k) == IF content[cur] = content[prev] + factor
              THEN content[prev] + k ELSE NoPicture

(* One picture between the neighbours is made in buffer b and emitted or,  *)
(* across a scene change, the earlier neighbour is emitted again.          *)
Interpolated(b) ==
    /\ pc = "phases" /\ phase < factor
    /\ \/ /\ content' = [content EXCEPT ![b] = Between(phase)]
          /\ Emits(b, content')
       \/ /\ Emits(prev, content)
          /\ UNCHANGED content
    /\ phase' = phase + 1
    /\ UNCHANGED <<tickets, jobs, modeVars, ringVars, prev, cur, inputVars,
                   pc>>

(* Fault: the buffer is not a fresh one, but always the same. *)
RifePhaseReuses == Interpolated(CHOOSE b \in Pool : b \notin {prev, cur})

RifePhase == \E b \in FreeIn(Pool) : Interpolated(b)

RifeShift ==
    /\ pc = "phases" /\ phase = factor
    /\ prev' = cur /\ cur' = NoBuffer /\ phase' = 0
    /\ pc' = "read"
    /\ UNCHANGED <<tickets, jobs, content, modeVars, ringVars, inputVars,
                   outVars, auxVars>>

-----------------------------------------------------------------------------
(* The end: run, main and cleanup. *)

(* The last frame, which has no successor, is emitted if there is one.     *)
Flushes ==
    /\ pc = "flush"
    /\ pc' = "trailer"
    /\ IF Interpolates /\ prev # NoBuffer
       THEN Emits(prev, content)
       ELSE UNCHANGED <<outVars, auxVars>>
    /\ UNCHANGED <<tickets, jobs, content, modeVars, ringVars, rifeVars,
                   inputVars>>

(* Fault: what is in the ring at the end of the input stays there. *)
FlushedEarly == Flushes

Flushed == count = 0 /\ Flushes

(* The encoder gives what it holds, and the file is finished; it is an     *)
(* error if nothing was ever sent.                                         *)
Trailer ==
    /\ pc = "trailer"
    /\ opened
    /\ video' = video \o [i \in DOMAIN enc |-> content[enc[i]]]
    /\ enc' = << >>
    /\ success' = TRUE
    /\ pc' = "cleanup"
    /\ UNCHANGED <<tickets, jobs, content, modeVars, ringVars, rifeVars,
                   inputVars, opened, auxVars>>

Ends ==
    /\ pc' = "cleanup"
    /\ UNCHANGED <<tickets, jobs, content, modeVars, ringVars, rifeVars,
                   inputVars, outVars, auxVars>>

(* Any call may fail, and ends the run. *)
Fails ==
    /\ pc \in {"read", "sync", "base", "phases", "flush", "trailer"}
    /\ Ends

(* The run cannot go on: no frame is left in the pool, which is fixed-size,*)
(* or nothing was ever sent to the encoder.                                *)
GivesUp ==
    /\ \/ pc = "read" /\ dec # NoBuffer /\ FreeIn(Pool) = {}
       \/ pc = "phases" /\ FreeIn(Pool) = {}
       \/ pc = "trailer" /\ ~opened
    /\ Ends

Cleanup ==
    /\ pc = "cleanup"
    /\ ring' = [i \in DOMAIN ring |-> Empty]
    /\ prev' = NoBuffer /\ cur' = NoBuffer
    /\ pc' = "destroy"
    /\ UNCHANGED <<tickets, jobs, content, modeVars, head, count, phase,
                   inputVars, outVars, auxVars>>

(* aji_destroy waits for the GPU; then the buffers are unmapped. *)
Destroy ==
    /\ pc = "destroy"
    /\ 1..submitted \subseteq finished
    /\ enc' = << >>
    /\ pc' = "gone"
    /\ UNCHANGED <<tickets, jobs, content, modeVars, ringVars, rifeVars,
                   inputVars, opened, video, success, auxVars>>

Gone == pc = "gone" /\ UNCHANGED vars

Run == \/ Decode \/ Copy \/ EndOfInput
       \/ Reclaim \/ PushPassthrough \/ PushUpscale
       \/ RifeUpscale \/ RifeWait \/ RifeBase \/ RifePhase \/ RifeShift
       \/ Flushed \/ Trailer \/ GivesUp \/ Cleanup \/ Destroy

Next == GpuRuns \/ Run \/ Fails \/ Gone

(* The program runs, and so does the GPU; nothing need ever fail. *)
Spec == Init /\ [][Next]_vars /\ WF_vars(GpuRuns) /\ WF_vars(Run)

-----------------------------------------------------------------------------
(* Properties. *)

Buffers == Surfaces \cup Pool \cup {NoBuffer}

TypeOK ==
    /\ Tickets!TypeOK
    /\ jobs \in Seq([from : Surfaces, to : Pool]) /\ Len(jobs) = submitted
    /\ content \in [Surfaces \cup Pool -> Int]
    /\ factor \in Factors /\ depth \in 1..(MaxRing - 1)
    /\ passthrough \in BOOLEAN /\ rebases \in BOOLEAN
    /\ ring \in [0..(MaxRing - 1) -> [in : Buffers, out : Buffers,
                                     ticket : 0..submitted]]
    /\ head \in 0..(MaxRing - 1) /\ count \in 0..depth
    /\ prev \in Pool \cup {NoBuffer} /\ cur \in Pool \cup {NoBuffer}
    /\ phase \in 0..factor
    /\ dec \in Surfaces \cup {NoBuffer} /\ decoded \in 0..MaxPictures
    /\ pc \in {"read", "sync", "base", "phases", "flush", "trailer",
               "cleanup", "destroy", "gone"}
    /\ opened \in BOOLEAN /\ success \in BOOLEAN
    /\ enc \in Seq(Surfaces \cup Pool) /\ video \in Seq(Int)
    /\ held \in Seq(1..packets) /\ packets \in 0..MaxPackets
    /\ aux \in Seq([id : 1..packets, base : {"in", "out"}, taken : BOOLEAN])

(* "Frames arrive in display order" (the comment on emit_output): the n-th *)
(* picture of the output is the one for its time or, when a scene changes, *)
(* the decoded one before it.  It holds the upscaled or interpolated       *)
(* picture, not what was in the buffer before, and not what came after.    *)
PicturesInOrder ==
    \A i \in DOMAIN video :
        video[i] \in {i - 1, ((i - 1) \div factor) * factor}

(* An encoder that ends well has every decoded frame and every picture     *)
(* between two of them in the output.  It has handed every packet of the   *)
(* other streams to the muxer, once and in its order, those it held until  *)
(* the header came included: the output lacks those the muxer did not take *)
(* (main returns 0 all the same), and no others.                           *)
NothingLost ==
    success =>
        /\ Len(video) = (decoded - 1) * factor + 1
        /\ held = << >>
        /\ [i \in DOMAIN aux |-> aux[i].id] = [i \in 1..packets |-> i]

(* The encoder ends: it never waits for a ticket that is not to come. *)
RunEnds == <>(pc = "gone")

-----------------------------------------------------------------------------
(* The inductive invariant behind the safety properties. *)

Running == pc \notin {"cleanup", "destroy", "gone"}

(* The pictures that have left for the output, the encoder's included.     *)
Sent == Len(video) + Len(enc)

(* The time at which decoded frame n is shown, and what may be shown as    *)
(* the i-th picture.                                                       *)
Shown(n) == (n - 1) * factor
InPlace(i, picture) == picture \in {i - 1, ((i - 1) \div factor) * factor}

(* What the encoder refers to is what it is to show. *)
EncoderSound ==
    Running => \A i \in DOMAIN enc :
        InPlace(Len(video) + i, content[enc[i]])

(* A program has left the loop without a frame in its hands, and everything*)
(* was sent when it comes to the trailer.                                  *)
ProgramSound ==
    /\ pc \in {"flush", "trailer"} => dec = NoBuffer
    /\ ~Interpolates => pc \notin {"sync", "base", "phases"}
    /\ passthrough => ~Interpolates
    /\ pc = "trailer" =>
         Sent = IF decoded = 0 THEN 0 ELSE Shown(decoded) + 1

(* The slots in use, the k-th after the oldest. *)
Place(k) == (Oldest + k) % MaxRing
InRing == 0..(count - 1)

(* A slot with a job keeps what the job reads and writes, and nobody else  *)
(* has the latter.                                                         *)
JobSound(s, picture) ==
    /\ jobs[s.ticket] = [from |-> s.in, to |-> s.out]
    /\ content[s.in] = picture
    /\ s.ticket \in finished => content[s.out] = picture
    /\ s.out \notin ToSet(enc)
    /\ \A l \in InRing : ring[Place(l)].out = s.out => ring[Place(l)] = s

(* The ring has the decoded pictures that are not sent yet, in their       *)
(* order, and all the jobs that may still be running.                      *)
RingSound ==
    Running /\ ~Interpolates =>
        /\ decoded = Sent + count + IF dec = NoBuffer THEN 0 ELSE 1
        /\ dec # NoBuffer => content[dec] = decoded - 1
        /\ \A k \in InRing :
             LET s == ring[Place(k)] IN
             /\ s.out # NoBuffer
             /\ IF s.ticket = 0 THEN content[s.out] = Sent + k
                ELSE JobSound(s, Sent + k)
        /\ \A t \in (1..submitted) \ finished :
             \E k \in InRing : ring[Place(k)].ticket = t

(* The decoded frame whose picture is in prev. *)
Latest == decoded - IF dec = NoBuffer /\ cur = NoBuffer THEN 0 ELSE 1

(* The neighbours hold the last decoded pictures, and what was sent ends   *)
(* before prev or, between the neighbours, at the phase.                   *)
RifeSound ==
    Running /\ Interpolates =>
        /\ pc # "trailer" =>
             /\ prev = NoBuffer <=> Latest = 0
             /\ prev = NoBuffer => Sent = 0
             /\ prev # NoBuffer =>
                  /\ content[prev] = Shown(Latest)
                  /\ Sent = Shown(Latest)
                              + IF pc = "phases" THEN phase ELSE 0
             /\ dec # NoBuffer => content[dec] = Shown(decoded)
        /\ pc \in {"read", "flush"} => cur = NoBuffer
        /\ pc = "sync" =>
             /\ dec # NoBuffer /\ cur \notin {NoBuffer, prev} \cup ToSet(enc)
             /\ submitted # 0 /\ 1..(submitted - 1) \subseteq finished
             /\ jobs[submitted] = [from |-> dec, to |-> cur]
             /\ submitted \in finished => content[cur] = Shown(decoded)
        /\ pc # "sync" => 1..submitted \subseteq finished
        /\ pc \in {"base", "phases"} =>
             /\ dec = NoBuffer /\ prev # NoBuffer /\ cur # NoBuffer
             /\ content[cur] = Shown(decoded)
        /\ pc = "phases" => phase # 0

(* The packets that were read are with the muxer once the header is there, *)
(* which comes with the first picture, and held until then.                *)
AuxSound ==
    /\ Running /\ opened => Sent # 0
    /\ success => ~Running /\ opened
    /\ IF opened
       THEN /\ held = << >> /\ Len(aux) = packets
            /\ \A i \in DOMAIN aux : aux[i].id = i
       ELSE /\ aux = << >> /\ Len(held) = packets
            /\ \A i \in DOMAIN held : held[i] = i

IInv == /\ TypeOK /\ ProgramSound /\ EncoderSound /\ RingSound /\ RifeSound
        /\ AuxSound /\ PicturesInOrder /\ NothingLost
=============================================================================
