-------------------------- MODULE Transcode_proofs --------------------------
(***************************************************************************)
(* Proofs about the offline encoder: the inductive invariant IInv of       *)
(* Transcode, that the pictures come out in order and that none is lost.   *)
(* The ring, the depth, the factor, the buffers and the input are          *)
(* arbitrary.                                                              *)
(***************************************************************************)
EXTENDS Transcode, SequenceTheorems, TLAPS

-----------------------------------------------------------------------------
(* The places of the ring: arithmetic modulo MaxRing. *)

(* A number is a multiple of MaxRing and a rest. *)
LEMMA Divides ==
    ASSUME NEW a \in Nat
    PROVE  /\ a = (MaxRing * (a \div MaxRing)) + (a % MaxRing)
           /\ a \div MaxRing \in Nat
           /\ a % MaxRing \in 0..(MaxRing - 1)
BY EncoderAssumption

(* Once around the ring. *)
LEMMA Wrap ==
    ASSUME NEW a \in Nat, a < 2 * MaxRing
    PROVE  a % MaxRing = IF a < MaxRing THEN a ELSE a - MaxRing
<1> DEFINE q == a \div MaxRing
           r == a % MaxRing
<1>1. a = (MaxRing * q) + r /\ q \in Nat /\ r \in 0..(MaxRing - 1)
  BY Divides
<1> HIDE DEF q, r
<1>2. MaxRing \in Nat
  BY EncoderAssumption
<1>3. q < 2
  <2> SUFFICES ASSUME q >= 2 PROVE FALSE
    BY <1>1
  <2>1. MaxRing * q >= MaxRing * 2
    BY <1>1, <1>2
  <2> QED BY <2>1, <1>1, <1>2
<1>4. CASE q = 0
  <2>1. a = r
    BY <1>1, <1>2, <1>4
  <2> QED BY <2>1, <1>1, <1>2 DEF r
<1>5. CASE q = 1
  <2>1. a = MaxRing + r
    BY <1>1, <1>2, <1>5
  <2> QED BY <2>1, <1>1, <1>2 DEF r
<1> QED BY <1>1, <1>3, <1>4, <1>5

(* The k-th place after the oldest of c slots before h. *)
At(h, c, k) == (((h - c + MaxRing) % MaxRing) + k) % MaxRing

LEMMA AtIs ==
    ASSUME NEW h \in 0..(MaxRing - 1), NEW c \in 0..(MaxRing - 1),
           NEW k \in 0..(MaxRing - 1)
    PROVE  At(h, c, k) =
             LET d == h - c + k
             IN  IF d < 0 THEN d + MaxRing
                 ELSE IF d < MaxRing THEN d ELSE d - MaxRing
<1>1. MaxRing \in Nat
  BY EncoderAssumption
<1> DEFINE o == h - c + MaxRing
           p == o % MaxRing
           m == p + k
<1>2. o \in Nat /\ o < 2 * MaxRing
  BY <1>1
<1>3. p = IF o < MaxRing THEN o ELSE o - MaxRing
  BY <1>2, Wrap
<1>4. m \in Nat /\ m < 2 * MaxRing
  BY <1>3, <1>1
<1>5. At(h, c, k) = m % MaxRing
  BY DEF At
<1> HIDE DEF m, p, o
<1>6. m % MaxRing = IF m < MaxRing THEN m ELSE m - MaxRing
  BY <1>4, Wrap
<1> QED BY <1>5, <1>6, <1>3, <1>1 DEF m, o

(* What the proofs use of places: they are in the ring and apart; the head *)
(* is the place after the last; taking the oldest moves all by one; adding *)
(* one at the head moves none.                                             *)
LEMMA Places ==
    ASSUME NEW h \in 0..(MaxRing - 1), NEW c \in 0..(MaxRing - 1)
    PROVE  /\ \A k \in 0..(MaxRing - 1) : At(h, c, k) \in 0..(MaxRing - 1)
           /\ \A k, l \in 0..(MaxRing - 1) :
                At(h, c, k) = At(h, c, l) => k = l
           /\ At(h, c, c) = h
           /\ c > 0 => \A k \in 0..(MaxRing - 2) :
                At(h, c - 1, k) = At(h, c, k + 1)
           /\ c < MaxRing - 1 => \A k \in 0..(MaxRing - 1) :
                At((h + 1) % MaxRing, c + 1, k) = At(h, c, k)
           /\ (h + 1) % MaxRing \in 0..(MaxRing - 1)
           /\ At(h, c, 0) = (h - c + MaxRing) % MaxRing
<1>1. MaxRing \in Nat /\ MaxRing > 1
  BY EncoderAssumption
<1>2. \A k \in 0..(MaxRing - 1) : At(h, c, k) \in 0..(MaxRing - 1)
  BY AtIs, <1>1
<1>3. \A k, l \in 0..(MaxRing - 1) : At(h, c, k) = At(h, c, l) => k = l
  <2> TAKE k, l \in 0..(MaxRing - 1)
  <2>1. At(h, c, k) =
             LET d == h - c + k
             IN  IF d < 0 THEN d + MaxRing
                 ELSE IF d < MaxRing THEN d ELSE d - MaxRing
    BY AtIs
  <2>2. At(h, c, l) =
             LET d == h - c + l
             IN  IF d < 0 THEN d + MaxRing
                 ELSE IF d < MaxRing THEN d ELSE d - MaxRing
    BY AtIs
  <2> QED BY <2>1, <2>2, <1>1
<1>4. At(h, c, c) = h
  BY AtIs, <1>1
<1>5. ASSUME c > 0, NEW k \in 0..(MaxRing - 2)
      PROVE  At(h, c - 1, k) = At(h, c, k + 1)
  <2>1. /\ c - 1 \in 0..(MaxRing - 1) /\ k + 1 \in 0..(MaxRing - 1)
        /\ k \in 0..(MaxRing - 1)
    BY <1>1, <1>5
  <2> QED BY <2>1, AtIs, <1>1
<1>6. (h + 1) % MaxRing = IF h + 1 < MaxRing THEN h + 1 ELSE 0
  <2>1. h + 1 \in Nat /\ h + 1 < 2 * MaxRing
    BY <1>1
  <2> QED BY <2>1, Wrap, <1>1
<1>7. ASSUME c < MaxRing - 1, NEW k \in 0..(MaxRing - 1)
      PROVE  At((h + 1) % MaxRing, c + 1, k) = At(h, c, k)
  <2>1. /\ c + 1 \in 0..(MaxRing - 1)
        /\ (h + 1) % MaxRing \in 0..(MaxRing - 1)
    BY <1>6, <1>7, <1>1
  <2>2. At(h, c, k) =
             LET d == h - c + k
             IN  IF d < 0 THEN d + MaxRing
                 ELSE IF d < MaxRing THEN d ELSE d - MaxRing
    BY AtIs
  <2> DEFINE g == (h + 1) % MaxRing
  <2>3. g \in 0..(MaxRing - 1) /\ g = IF h + 1 < MaxRing THEN h + 1 ELSE 0
    BY <2>1, <1>6
  <2> HIDE DEF g
  <2>4. At(g, c + 1, k) =
             LET d == g - (c + 1) + k
             IN  IF d < 0 THEN d + MaxRing
                 ELSE IF d < MaxRing THEN d ELSE d - MaxRing
    <3>1. /\ g \in 0..(MaxRing - 1) /\ c + 1 \in 0..(MaxRing - 1)
          /\ k \in 0..(MaxRing - 1)
      BY <2>1, <2>3
    <3> QED BY <3>1, AtIs
  <2>5. At(g, c + 1, k) = At(h, c, k)
    BY <2>2, <2>3, <2>4, <1>1, <1>7
  <2> QED BY <2>5 DEF g
<1>8. At(h, c, 0) = (h - c + MaxRing) % MaxRing
  <2>1. h - c + MaxRing \in Nat /\ h - c + MaxRing < 2 * MaxRing
        /\ 0 \in 0..(MaxRing - 1)
    BY <1>1
  <2>2. At(h, c, 0) =
             LET d == h - c + 0
             IN  IF d < 0 THEN d + MaxRing
                 ELSE IF d < MaxRing THEN d ELSE d - MaxRing
    BY <2>1, AtIs
  <2>3. (h - c + MaxRing) % MaxRing = IF h - c + MaxRing < MaxRing
                                      THEN h - c + MaxRing ELSE h - c
    BY <2>1, Wrap, <1>1
  <2> QED BY <2>2, <2>3, <1>1
<1> QED BY <1>1, <1>2, <1>3, <1>4, <1>5, <1>6, <1>7, <1>8

-----------------------------------------------------------------------------
(* The times of the pictures: multiples of the factor. *)

(* A picture between two decoded ones is counted to the earlier one. *)
LEMMA CountedToEarlier ==
    ASSUME NEW f \in Nat \ {0}, NEW q \in Nat, NEW r \in 0..(f - 1)
    PROVE  ((q * f) + r) \div f = q
<1> DEFINE a == (q * f) + r
           p == a \div f
           s == a % f
<1>1. q * f \in Nat
  OBVIOUS
<1>2. a \in Nat
  BY <1>1
<1>3. a = (f * p) + s /\ p \in Nat /\ s \in 0..(f - 1)
  <2> HIDE DEF a
  <2> QED BY <1>2
<1>4. p - q \in Int /\ r - s = f * (p - q)
  <2> HIDE DEF p, s
  <2>1. a = (q * f) + r
    OBVIOUS
  <2> HIDE DEF a
  <2> QED BY <1>3, <2>1
<1> HIDE DEF a, p, s
<1>5. p - q < 1
  <2> SUFFICES ASSUME p - q >= 1 PROVE FALSE
    BY <1>4
  <2>1. f * (p - q) >= f
    BY <1>4
  <2> QED BY <2>1, <1>3, <1>4
<1>6. p - q > -1
  <2> SUFFICES ASSUME p - q <= -1 PROVE FALSE
    BY <1>4
  <2>1. f * (p - q) <= -f
    BY <1>4
  <2> QED BY <2>1, <1>3, <1>4
<1> QED BY <1>3, <1>5, <1>6 DEF p, a

(* What may be shown after the pictures before decoded frame n. *)
LEMMA Phases ==
    ASSUME TypeOK, NEW n \in Nat \ {0}, NEW r \in 0..(factor - 1)
    PROVE  /\ Shown(n) \in Nat
           /\ InPlace(Shown(n) + r + 1, Shown(n) + r)
           /\ InPlace(Shown(n) + r + 1, Shown(n))
<1> DEFINE q == n - 1
           f == factor
<1>1. f \in Nat \ {0} /\ q \in Nat
  BY EncoderAssumption DEF TypeOK
<1>2. Shown(n) = q * f
  BY DEF Shown
<1>3. q * f \in Nat
  <2> HIDE DEF q, f
  <2> QED BY <1>1
<1>4. ((q * f) + r) \div f = q
  <2>1. r \in 0..(f - 1)
    OBVIOUS
  <2> HIDE DEF q, f
  <2> QED BY <1>1, <2>1, CountedToEarlier
<1>5. (Shown(n) + r + 1) - 1 = (q * f) + r
  <2> HIDE DEF q, f
  <2> QED BY <1>1, <1>2, <1>3
<1>6. ((Shown(n) + r + 1) - 1) \div factor = q
  BY <1>4, <1>5
<1>7. InPlace(Shown(n) + r + 1, Shown(n) + r)
  BY <1>2, <1>3, <1>5 DEF InPlace
<1>8. InPlace(Shown(n) + r + 1, Shown(n))
  BY <1>2, <1>6 DEF InPlace
<1> QED BY <1>2, <1>3, <1>7, <1>8

LEMMA ShownNext ==
    ASSUME TypeOK, NEW n \in Nat \ {0}
    PROVE  /\ Shown(n) \in Nat
           /\ Shown(n + 1) = Shown(n) + factor
           /\ Shown(n + 1) = n * factor
           /\ Shown(1) = 0
           /\ factor = 1 => Shown(n) = n - 1
<1> DEFINE f == factor
           q == n - 1
<1>1. f \in Nat \ {0} /\ q \in Nat /\ n = q + 1
  BY EncoderAssumption DEF TypeOK
<1> HIDE DEF f, q
<1>2. q * f \in Nat /\ (q + 1) * f = (q * f) + f
  BY <1>1
<1>3. Shown(n) = q * f
  BY DEF Shown, f, q
<1>4. Shown(n + 1) = (q + 1) * f
  BY <1>1 DEF Shown, f
<1>5. Shown(1) = 0 * f /\ 0 * f = 0
  BY <1>1 DEF Shown, f
<1>6. f = 1 => q * f = q
  BY <1>1
<1>7. n * factor = (q + 1) * f
  BY <1>1 DEF f
<1> QED BY <1>1, <1>2, <1>3, <1>4, <1>5, <1>6, <1>7 DEF f

-----------------------------------------------------------------------------
(* Buffers, and who may use one. *)

Frames == Surfaces \cup Pool

LEMMA BuffersApart ==
    /\ Surfaces \subseteq Nat \ {0} /\ Pool \subseteq Nat \ {0}
    /\ Surfaces \cap Pool = {} /\ NoBuffer \notin Frames
    /\ Frames \subseteq Buffers /\ NoBuffer \in Buffers
    /\ \A b \in Buffers : b # NoBuffer => b \in Frames
BY EncoderAssumption DEF Surfaces, Pool, NoBuffer, Frames, Buffers

(* A free buffer is nobody's. *)
LEMMA FreeIsFree ==
    ASSUME NEW set, NEW b \in FreeIn(set)
    PROVE  /\ b \in set /\ b # dec /\ b # prev /\ b # cur
           /\ b \notin ToSet(enc)
           /\ \A i \in DOMAIN ring : b # ring[i].in /\ b # ring[i].out
BY DEF FreeIn, InUse

LEMMA Sequences ==
    ASSUME TypeOK
    PROVE  /\ enc \in Seq(Frames) /\ video \in Seq(Int)
           /\ Len(enc) \in Nat /\ Len(video) \in Nat /\ Sent \in Nat
           /\ DOMAIN enc = 1..Len(enc) /\ DOMAIN video = 1..Len(video)
           /\ \A i \in 1..Len(enc) : enc[i] \in Frames
           /\ \A i \in 1..Len(enc) : enc[i] \in ToSet(enc)
           /\ factor \in Nat \ {0}
<1>1. enc \in Seq(Frames) /\ video \in Seq(Int)
  BY DEF TypeOK, Frames
<1>2. /\ Len(enc) \in Nat /\ DOMAIN enc = 1..Len(enc)
      /\ enc \in [1..Len(enc) -> Frames]
  BY <1>1, LenProperties
<1>3. Len(video) \in Nat /\ DOMAIN video = 1..Len(video)
  BY <1>1, LenProperties
<1>4. factor \in Nat \ {0}
  BY EncoderAssumption DEF TypeOK
<1> QED BY <1>1, <1>2, <1>3, <1>4 DEF Sent, ToSet

(* emit_output: one more picture has left; those that come back are read   *)
(* in their order.                                                         *)
LEMMA EmitsSteps ==
    ASSUME TypeOK, NEW b \in Frames, NEW read \in [Frames -> Int],
           Emits(b, read), PicturesInOrder, factor' = factor,
           \A i \in DOMAIN enc : InPlace(Len(video) + i, read[enc[i]]),
           InPlace(Sent + 1, read[b])
    PROVE  /\ enc' \in Seq(Frames) /\ video' \in Seq(Int)
           /\ Sent' = Sent + 1
           /\ ToSet(enc') \subseteq ToSet(enc) \cup {b}
           /\ \A i \in DOMAIN enc' :
                InPlace(Len(video') + i, read[enc'[i]])
           /\ PicturesInOrder'
<1> DEFINE sent == Append(enc, b)
<1>1. /\ enc \in Seq(Frames) /\ video \in Seq(Int)
      /\ Len(enc) \in Nat /\ Len(video) \in Nat
      /\ DOMAIN enc = 1..Len(enc) /\ DOMAIN video = 1..Len(video)
  BY Sequences
<1>2. /\ sent \in Seq(Frames) /\ Len(sent) = Len(enc) + 1
      /\ \A i \in 1..Len(enc) : sent[i] = enc[i]
      /\ sent[Len(enc) + 1] = b
  BY <1>1, AppendProperties
<1>3. PICK n \in 0..Len(sent) :
         /\ video' = video \o [i \in 1..n |-> read[sent[i]]]
         /\ enc' = SubSeq(sent, n + 1, Len(sent))
  BY DEF Emits
<1> HIDE DEF sent
<1>4. n \in Nat /\ n <= Len(enc) + 1 /\ n + 1 \in Int /\ Len(sent) \in Int
  BY <1>1, <1>2
<1>5. \A i \in 1..Len(sent) : sent[i] \in Frames
  BY <1>2, LenProperties
<1>6. \A i \in 1..Len(sent) : InPlace(Len(video) + i, read[sent[i]])
  <2> TAKE i \in 1..Len(sent)
  <2>1. CASE i \in 1..Len(enc)
    BY <2>1, <1>1, <1>2
  <2>2. CASE i = Len(enc) + 1
    BY <2>2, <1>1, <1>2 DEF Sent
  <2> QED BY <2>1, <2>2, <1>1, <1>2
<1>7. /\ enc' \in Seq(Frames)
      /\ Len(enc') = Len(enc) + 1 - n
      /\ \A i \in 1..Len(enc') : enc'[i] = sent[n + i]
  <2>1. \A i \in (n + 1)..Len(sent) : sent[i] \in Frames
    BY <1>4, <1>5
  <2>2. /\ SubSeq(sent, n + 1, Len(sent)) \in Seq(Frames)
        /\ Len(SubSeq(sent, n + 1, Len(sent)))
             = IF n + 1 <= Len(sent) THEN Len(sent) - (n + 1) + 1 ELSE 0
        /\ \A i \in 1..(Len(sent) - (n + 1) + 1) :
             SubSeq(sent, n + 1, Len(sent))[i] = sent[(n + 1) + i - 1]
    BY <1>4, <2>1, SubSeqProperties
  <2> QED BY <2>2, <1>1, <1>2, <1>3, <1>4
<1>8. DOMAIN enc' = 1..Len(enc')
  BY <1>7, LenProperties
<1> DEFINE out == [i \in 1..n |-> read[sent[i]]]
<1>9. /\ out \in Seq(Int) /\ Len(out) = n
      /\ \A i \in 1..n : out[i] = read[sent[i]]
  <2>1. \A i \in 1..n : read[sent[i]] \in Int
    BY <1>2, <1>4, <1>5
  <2>2. out \in Seq(Int)
    BY <2>1, <1>4, IsASeq
  <2> QED BY <2>2, <1>4, LenProperties
<1>10. video' = video \o out
  BY <1>3
<1> HIDE DEF out
<1>11. /\ video' \in Seq(Int) /\ Len(video') = Len(video) + n
       /\ \A i \in 1..(Len(video) + n) :
            video'[i] = IF i <= Len(video) THEN video[i]
                        ELSE out[i - Len(video)]
  BY <1>1, <1>9, <1>10, ConcatProperties
<1>12. DOMAIN video' = 1..(Len(video) + n)
  BY <1>11, LenProperties
<1>13. Sent' = Sent + 1
  BY <1>1, <1>4, <1>7, <1>11 DEF Sent
<1>14. ToSet(enc') \subseteq ToSet(enc) \cup {b}
  <2> SUFFICES ASSUME NEW i \in 1..Len(enc')
               PROVE  enc'[i] \in ToSet(enc) \cup {b}
    BY <1>8 DEF ToSet
  <2>1. n + i \in 1..(Len(enc) + 1) /\ enc'[i] = sent[n + i]
    <3>1. enc'[i] = sent[n + i]
      BY <1>7
    <3>2. i \in 1..(Len(enc) + 1 - n)
      BY <1>7
    <3> QED BY <3>1, <3>2, <1>1, <1>4
  <2>2. CASE n + i \in 1..Len(enc)
    <3>1. enc'[i] = enc[n + i]
      BY <2>1, <2>2, <1>2
    <3> QED BY <3>1, <2>2, <1>1 DEF ToSet
  <2>3. CASE n + i = Len(enc) + 1
    BY <2>1, <2>3, <1>2
  <2>4. i \in Nat
    BY <1>1, <1>4, <1>7
  <2>5. n + i \in 1..Len(enc) \/ n + i = Len(enc) + 1
    BY <2>1, <2>4, <1>1, <1>4
  <2> QED BY <2>2, <2>3, <2>5
<1>15. \A i \in DOMAIN enc' : InPlace(Len(video') + i, read[enc'[i]])
  <2> TAKE i \in DOMAIN enc'
  <2>1. i \in 1..Len(enc') /\ i \in Nat
    BY <1>1, <1>4, <1>7, <1>8
  <2>2. enc'[i] = sent[n + i]
    BY <2>1, <1>7
  <2>4. n + i \in 1..Len(sent)
    <3>1. i \in 1..(Len(enc) + 1 - n) /\ Len(sent) = Len(enc) + 1
      BY <2>1, <1>2, <1>7
    <3> QED BY <3>1, <1>1, <1>4
  <2>3. Len(video') + i = Len(video) + (n + i)
    BY <2>1, <1>1, <1>4, <1>11
  <2> QED BY <2>2, <2>3, <2>4, <1>6
<1>16. \A i \in 1..Len(video) : InPlace(i, video[i])
  BY <1>1 DEF PicturesInOrder, InPlace
<1>17. \A i \in DOMAIN video' : InPlace(i, video'[i])
  <2> SUFFICES ASSUME NEW i \in 1..(Len(video) + n)
               PROVE  InPlace(i, video'[i])
    BY <1>12
  <2>1. CASE i \in 1..Len(video)
    BY <2>1, <1>1, <1>11, <1>16
  <2>2. CASE i > Len(video)
    <3>1. i - Len(video) \in 1..n /\ i - Len(video) \in 1..Len(sent)
          /\ Len(video) + (i - Len(video)) = i
      BY <2>2, <1>1, <1>2, <1>4
    <3>2. video'[i] = out[i - Len(video)]
      BY <2>2, <1>1, <1>11
    <3>3. out[i - Len(video)] = read[sent[i - Len(video)]]
      BY <3>1, <1>9
    <3> QED BY <3>1, <3>2, <3>3, <1>6
  <2> QED BY <2>1, <2>2, <1>1
<1>18. PicturesInOrder'
  BY <1>17 DEF PicturesInOrder, InPlace
<1> QED BY <1>7, <1>11, <1>13, <1>14, <1>15, <1>18

(* What the muxer was given of n packets. *)
Handed(n) == [id : 1..n, base : {"in", "out"}, taken : BOOLEAN]

(* The header and the packets held back for it. *)
LEMMA EmitsAux ==
    ASSUME TypeOK, NEW b, NEW read, Emits(b, read),
           IF opened
           THEN /\ held = << >> /\ Len(aux) = packets
                /\ \A i \in DOMAIN aux : aux[i].id = i
           ELSE /\ aux = << >> /\ Len(held) = packets
                /\ \A i \in DOMAIN held : held[i] = i
    PROVE  /\ opened' /\ opened' \in BOOLEAN /\ packets' = packets
           /\ success' = success
           /\ held' \in Seq(1..packets)
           /\ aux' \in Seq(Handed(packets))
           /\ held' = << >> /\ Len(aux') = packets
           /\ \A i \in DOMAIN aux' : aux'[i].id = i
<1> DEFINE Copied == Handed(packets)
<1>1. opened' = TRUE /\ packets' = packets /\ success' = success
  BY DEF Emits
<1>2. CASE opened
  BY <1>1, <1>2 DEF Emits, TypeOK, Handed
<1>3. CASE ~opened
  <2>1. /\ held' = << >>
        /\ \E taken \in [DOMAIN held -> BOOLEAN] :
             aux' = [i \in DOMAIN held |-> Written(held[i], AsRead, taken[i])]
    BY <1>3 DEF Emits
  <2> PICK taken \in [DOMAIN held -> BOOLEAN] :
             aux' = [i \in DOMAIN held |-> Written(held[i], AsRead, taken[i])]
    BY <2>1
  <2> DEFINE new(i) == Written(held[i], AsRead, taken[i])
  <2>2. held \in Seq(1..packets) /\ packets \in Nat
    BY DEF TypeOK
  <2>3. /\ DOMAIN held = 1..Len(held) /\ Len(held) = packets
        /\ held \in [1..Len(held) -> 1..packets]
        /\ \A i \in DOMAIN held : held[i] = i
    BY <2>2, <1>3, LenProperties
  <2>4. \A i \in 1..packets :
          new(i) \in Copied /\ new(i).id = i
    BY <2>3 DEF AsRead, Written, Handed
  <2>5. aux' = [i \in 1..packets |-> new(i)]
    BY <2>1, <2>3
  <2> HIDE DEF new
  <2>6. aux' \in Seq(Copied)
    BY <2>2, <2>4, <2>5, IsASeq
  <2>7. Len(aux') = packets /\ DOMAIN aux' = 1..packets
    BY <2>2, <2>5, <2>6, LenProperties
  <2>8. \A i \in DOMAIN aux' : aux'[i].id = i
    BY <2>4, <2>5, <2>7
  <2>9. << >> \in Seq(1..packets)
    OBVIOUS
  <2> QED BY <1>1, <2>1, <2>6, <2>7, <2>8, <2>9
<1> QED BY <1>2, <1>3

-----------------------------------------------------------------------------
(* What is shown next. *)

LEMMA RingPlaces ==
    ASSUME TypeOK
    PROVE  /\ count \in Nat /\ count \in 0..(MaxRing - 1)
           /\ head \in 0..(MaxRing - 1) /\ MaxRing \in Nat /\ MaxRing > 1
           /\ \A k : Place(k) = At(head, count, k)
           /\ Place(0) = Oldest /\ Oldest \in 0..(MaxRing - 1)
           /\ Place(count) = head
           /\ \A k \in 0..(MaxRing - 1) : Place(k) \in 0..(MaxRing - 1)
           /\ \A k, l \in 0..(MaxRing - 1) : Place(k) = Place(l) => k = l
           /\ \A k \in InRing : k \in 0..(MaxRing - 1)
           /\ count > 0 => 0 \in InRing
<1>1. /\ head \in 0..(MaxRing - 1) /\ count \in 0..depth
      /\ depth \in 1..(MaxRing - 1) /\ MaxRing \in Nat /\ MaxRing > 1
  BY EncoderAssumption DEF TypeOK
<1>2. count \in 0..(MaxRing - 1)
  BY <1>1
<1>3. \A k : Place(k) = At(head, count, k)
  BY DEF Place, At, Oldest
<1>4. 0 \in 0..(MaxRing - 1)
  BY <1>1
<1>5. Oldest = At(head, count, 0)
  BY <1>1, <1>2, Places DEF Oldest
<1>6. \A k \in InRing : k \in 0..(MaxRing - 1)
  BY <1>1 DEF InRing
<1>7. count > 0 => 0 \in InRing
  BY <1>1 DEF InRing
<1>8. At(head, count, count) = head
  BY <1>1, <1>2, Places
<1>9. /\ \A k \in 0..(MaxRing - 1) :
           At(head, count, k) \in 0..(MaxRing - 1)
      /\ \A k, l \in 0..(MaxRing - 1) :
           At(head, count, k) = At(head, count, l) => k = l
  <2>1. \A k \in 0..(MaxRing - 1) :
           At(head, count, k) \in 0..(MaxRing - 1)
    BY <1>1, <1>2, Places
  <2>2. \A k, l \in 0..(MaxRing - 1) :
           At(head, count, k) = At(head, count, l) => k = l
    BY <1>1, <1>2, Places
  <2> QED BY <2>1, <2>2
<1> QED BY <1>1, <1>2, <1>3, <1>4, <1>5, <1>6, <1>7, <1>8, <1>9

LEMMA RingTyped ==
    ASSUME TypeOK
    PROVE  /\ DOMAIN ring = 0..(MaxRing - 1)
           /\ \A i \in 0..(MaxRing - 1) :
                /\ ring[i] \in [in : Buffers, out : Buffers,
                                ticket : 0..submitted]
                /\ ring[i].in \in Buffers /\ ring[i].out \in Buffers
                /\ ring[i].ticket \in 0..submitted
           /\ submitted \in Nat /\ finished \subseteq 1..submitted
           /\ reported \subseteq 1..submitted
           /\ content \in [Frames -> Int]
<1>1. ring \in [0..(MaxRing - 1) -> [in : Buffers, out : Buffers,
                                     ticket : 0..submitted]]
  BY DEF TypeOK
<1>2. /\ submitted \in Nat /\ finished \subseteq 1..submitted
      /\ reported \subseteq 1..submitted
  BY DEF TypeOK, Tickets!TypeOK
<1>3. content \in [Frames -> Int]
  BY DEF TypeOK, Frames
<1> QED BY <1>1, <1>2, <1>3

(* The oldest slot holds the picture that is shown next, once its job is   *)
(* over.                                                                   *)
LEMMA ReclaimShows ==
    ASSUME IInv, Reclaim
    PROVE  /\ ring[Oldest].out \in Frames
           /\ content[ring[Oldest].out] = Sent
           /\ Emits(ring[Oldest].out, content)
           /\ Running /\ ~Interpolates /\ count > 0
<1>1. TypeOK /\ RingSound
  BY DEF IInv
<1>2. /\ ~Interpolates /\ Running /\ count > 0
      /\ \/ ring[Oldest].ticket = 0
         \/ Waited(ring[Oldest].ticket)
      /\ Emits(ring[Oldest].out, content)
  <2>1. depth \in Nat \ {0} /\ count \in Nat
    BY <1>1, EncoderAssumption DEF TypeOK
  <2> QED BY <2>1 DEF Reclaim, Reclaims, Running
<1>3. 0 \in InRing /\ Place(0) = Oldest /\ Oldest \in 0..(MaxRing - 1)
  BY <1>1, <1>2, RingPlaces
<1> DEFINE s == ring[Oldest]
<1>4. /\ s.out # NoBuffer
      /\ IF s.ticket = 0 THEN content[s.out] = Sent + 0
         ELSE JobSound(s, Sent + 0)
  BY <1>1, <1>2, <1>3 DEF RingSound
<1>5. s.out \in Buffers /\ s.ticket \in Nat /\ Sent \in Nat
  BY <1>1, <1>3, RingTyped, Sequences
<1>6. s.out \in Frames
  BY <1>4, <1>5, BuffersApart
<1>7. s.ticket # 0 => s.ticket \in finished
  BY <1>2, <1>5 DEF Waited, Tickets!Report
<1>8. content[s.out] = Sent
  BY <1>4, <1>5, <1>7 DEF JobSound
<1> QED BY <1>2, <1>6, <1>8

(* The neighbours are decoded frames. *)
LEMMA LatestIs ==
    ASSUME TypeOK, RifeSound, Running, Interpolates, pc # "trailer",
           prev # NoBuffer
    PROVE  /\ Latest \in Nat \ {0} /\ content[prev] = Shown(Latest)
           /\ Sent = Shown(Latest) + IF pc = "phases" THEN phase ELSE 0
           /\ Shown(Latest) \in Nat
<1>1. /\ Latest # 0 /\ content[prev] = Shown(Latest)
      /\ Sent = Shown(Latest) + IF pc = "phases" THEN phase ELSE 0
  BY DEF RifeSound
<1>2. /\ decoded \in Nat /\ factor \in Nat \ {0} /\ Sent \in Nat
      /\ phase \in 0..factor
  BY EncoderAssumption, Sequences DEF TypeOK
<1>3. Latest \in Int /\ Latest >= -1
  BY <1>2 DEF Latest
<1>4. Latest # -1
  <2> SUFFICES ASSUME Latest = -1 PROVE FALSE
    OBVIOUS
  <2>1. Shown(Latest) = (-2) * factor
    BY DEF Shown
  <2> QED BY <1>1, <1>2, <2>1
<1>5. Latest \in Nat \ {0}
  BY <1>1, <1>3, <1>4
<1> QED BY <1>1, <1>5, ShownNext

(* RIFE's first picture between two neighbours is the earlier one. *)
LEMMA BaseShows ==
    ASSUME IInv, RifeBase
    PROVE  /\ prev \in Frames /\ Emits(prev, content)
           /\ InPlace(Sent + 1, content[prev])
           /\ Running /\ Interpolates
<1>1. TypeOK /\ RifeSound /\ ProgramSound
  BY DEF IInv
<1>2. pc = "base" /\ Emits(prev, content)
  BY DEF RifeBase
<1>3. Interpolates /\ Running
  BY <1>1, <1>2 DEF ProgramSound, Running
<1>4. prev # NoBuffer
  BY <1>1, <1>2, <1>3 DEF RifeSound
<1>5. /\ Latest \in Nat \ {0} /\ content[prev] = Shown(Latest)
      /\ Sent = Shown(Latest) + 0 /\ Shown(Latest) \in Nat
  BY <1>1, <1>2, <1>3, <1>4, LatestIs
<1>6. 0 \in 0..(factor - 1)
  BY <1>1, Sequences
<1>7. InPlace(Shown(Latest) + 0 + 1, Shown(Latest))
  BY <1>1, <1>5, <1>6, Phases
<1>8. Sent + 1 = Shown(Latest) + 0 + 1
  BY <1>5
<1>9. prev \in Frames
  BY <1>1, <1>4, BuffersApart DEF TypeOK, Frames
<1> QED BY <1>2, <1>3, <1>5, <1>7, <1>8, <1>9

(* The others are the interpolated ones, in a buffer of their own, or the  *)
(* earlier neighbour again.                                                *)
LEMMA PhaseShows ==
    ASSUME IInv, RifePhase
    PROVE  /\ \E b \in Frames :
                Emits(b, content') /\ InPlace(Sent + 1, content'[b])
           /\ content' \in [Frames -> Int]
           /\ \A i \in DOMAIN enc : content'[enc[i]] = content[enc[i]]
           /\ content'[prev] = content[prev] /\ content'[cur] = content[cur]
           /\ pc = "phases" /\ phase < factor /\ Running /\ Interpolates
<1>1. TypeOK /\ RifeSound /\ ProgramSound
  BY DEF IInv
<1>2. PICK b \in FreeIn(Pool) : Interpolated(b)
  BY DEF RifePhase
<1>3. /\ pc = "phases" /\ phase < factor
      /\ \/ /\ content' = [content EXCEPT ![b] = Between(phase)]
            /\ Emits(b, content')
         \/ /\ Emits(prev, content)
            /\ content' = content
  BY <1>2 DEF Interpolated
<1>4. Interpolates /\ Running
  BY <1>1, <1>3 DEF ProgramSound, Running
<1>5. /\ prev # NoBuffer /\ cur # NoBuffer /\ dec = NoBuffer /\ phase # 0
      /\ content[cur] = Shown(decoded)
  BY <1>1, <1>3, <1>4 DEF RifeSound
<1>6. /\ Latest \in Nat \ {0} /\ content[prev] = Shown(Latest)
      /\ Sent = Shown(Latest) + phase /\ Shown(Latest) \in Nat
  BY <1>1, <1>3, <1>4, <1>5, LatestIs
<1>7. /\ phase \in 0..(factor - 1) /\ phase \in Nat /\ decoded \in Nat
      /\ factor \in Nat \ {0}
  <2>1. phase \in 0..factor /\ decoded \in Nat
    BY <1>1 DEF TypeOK
  <2> QED BY <2>1, <1>1, <1>3, Sequences
<1>8. /\ InPlace(Shown(Latest) + phase + 1, Shown(Latest) + phase)
      /\ InPlace(Shown(Latest) + phase + 1, Shown(Latest))
  BY <1>1, <1>6, <1>7, Phases
<1>9. Sent + 1 = Shown(Latest) + phase + 1
  BY <1>6, <1>7
<1>10. prev \in Frames /\ cur \in Frames /\ prev # b /\ cur # b
       /\ b \in Frames
  BY <1>1, <1>2, <1>5, FreeIsFree, BuffersApart DEF TypeOK, Frames
<1>11. Between(phase) = Shown(Latest) + phase
  <2>1. decoded = Latest + 1
    BY <1>5, <1>7 DEF Latest
  <2>2. content[cur] = Shown(Latest) + factor
    BY <2>1, <1>1, <1>5, <1>6, ShownNext
  <2> QED BY <2>2, <1>6 DEF Between
<1>12. /\ content \in [Frames -> Int]
       /\ Between(phase) \in Int
  BY <1>1, <1>6, <1>7, <1>11, RingTyped
<1>13. /\ content' \in [Frames -> Int]
       /\ \A c \in Frames : c # b => content'[c] = content[c]
  BY <1>3, <1>12
<1>14. \A i \in DOMAIN enc : content'[enc[i]] = content[enc[i]]
  <2> TAKE i \in DOMAIN enc
  <2>1. enc[i] \in Frames /\ enc[i] \in ToSet(enc)
    BY <1>1, Sequences
  <2>2. b \notin ToSet(enc)
    BY <1>2, FreeIsFree
  <2> QED BY <2>1, <2>2, <1>13
<1>15. \E c \in Frames :
         Emits(c, content') /\ InPlace(Sent + 1, content'[c])
  <2>1. CASE /\ content' = [content EXCEPT ![b] = Between(phase)]
             /\ Emits(b, content')
    <3>1. content'[b] = Shown(Latest) + phase
      BY <2>1, <1>10, <1>11, <1>12
    <3> QED BY <3>1, <2>1, <1>8, <1>9, <1>10
  <2>2. CASE Emits(prev, content) /\ content' = content
    BY <2>2, <1>6, <1>8, <1>9, <1>10
  <2> QED BY <2>1, <2>2, <1>3
<1> QED BY <1>3, <1>4, <1>10, <1>13, <1>14, <1>15

(* The last frame has no successor. *)
LEMMA FlushShows ==
    ASSUME IInv, Flushed, Interpolates, prev # NoBuffer
    PROVE  /\ prev \in Frames /\ Emits(prev, content)
           /\ InPlace(Sent + 1, content[prev])
           /\ Running /\ Sent = Shown(decoded) /\ decoded # 0
<1>1. TypeOK /\ RifeSound /\ ProgramSound
  BY DEF IInv
<1>2. pc = "flush" /\ Emits(prev, content)
  BY DEF Flushed, Flushes
<1>3. Running /\ dec = NoBuffer
  BY <1>1, <1>2 DEF ProgramSound, Running
<1>4. cur = NoBuffer
  BY <1>1, <1>2, <1>3 DEF RifeSound
<1>5. /\ Latest \in Nat \ {0} /\ content[prev] = Shown(Latest)
      /\ Sent = Shown(Latest) + 0 /\ Shown(Latest) \in Nat
  BY <1>1, <1>2, <1>3, LatestIs
<1>6. 0 \in 0..(factor - 1)
  BY <1>1, Sequences
<1>7. InPlace(Shown(Latest) + 0 + 1, Shown(Latest))
  BY <1>1, <1>5, <1>6, Phases
<1>8. Sent + 1 = Shown(Latest) + 0 + 1
  BY <1>5
<1>9. prev \in Frames
  BY <1>1, BuffersApart DEF TypeOK, Frames
<1>10. Latest = decoded
  BY <1>1, <1>3, <1>4 DEF Latest, TypeOK
<1> QED BY <1>2, <1>3, <1>5, <1>7, <1>8, <1>9, <1>10

(* The steps that send a picture, and what they all keep. *)
Sends == \/ Reclaim \/ RifeBase \/ RifePhase
         \/ Flushed /\ Interpolates /\ prev # NoBuffer

LEMMA SendsOne ==
    ASSUME IInv, Sends
    PROVE  /\ enc' \in Seq(Frames) /\ video' \in Seq(Int)
           /\ Sent' = Sent + 1 /\ Running
           /\ \A i \in DOMAIN enc' :
                InPlace(Len(video') + i, content'[enc'[i]])
           /\ PicturesInOrder'
           /\ opened' /\ opened' \in BOOLEAN /\ packets' = packets
           /\ success' = success
           /\ held' \in Seq(1..packets)
           /\ aux' \in Seq(Handed(packets))
           /\ held' = << >> /\ Len(aux') = packets
           /\ \A i \in DOMAIN aux' : aux'[i].id = i
<1>1. /\ TypeOK /\ EncoderSound /\ AuxSound /\ PicturesInOrder
  BY DEF IInv
<1>2. Sent \in Nat /\ content \in [Frames -> Int]
  BY <1>1, Sequences, RingTyped
<1>3. /\ Running /\ content' \in [Frames -> Int] /\ factor' = factor
      /\ \A i \in DOMAIN enc : content'[enc[i]] = content[enc[i]]
      /\ \E b \in Frames :
           Emits(b, content') /\ InPlace(Sent + 1, content'[b])
  <2>1. CASE Reclaim
    <3>1. /\ ring[Oldest].out \in Frames
          /\ content[ring[Oldest].out] = Sent
          /\ Emits(ring[Oldest].out, content) /\ Running
      BY <2>1, ReclaimShows
    <3>2. content' = content /\ factor' = factor
      BY <2>1 DEF Reclaim, Reclaims, modeVars
    <3>3. InPlace(Sent + 1, content[ring[Oldest].out])
      BY <3>1, <1>2 DEF InPlace
    <3> QED BY <3>1, <3>2, <3>3, <1>2
  <2>2. CASE RifeBase
    <3>1. content' = content /\ factor' = factor
      BY <2>2 DEF RifeBase, modeVars
    <3> QED BY <3>1, <2>2, <1>2, BaseShows
  <2>3. CASE RifePhase
    <3>1. factor' = factor
      BY <2>3 DEF RifePhase, Interpolated, modeVars
    <3> QED BY <3>1, <2>3, PhaseShows
  <2>4. CASE Flushed /\ Interpolates /\ prev # NoBuffer
    <3>1. content' = content /\ factor' = factor
      BY <2>4 DEF Flushed, Flushes, modeVars
    <3> QED BY <3>1, <2>4, <1>2, FlushShows
  <2> QED BY <2>1, <2>2, <2>3, <2>4 DEF Sends
<1>4. PICK b \in Frames : Emits(b, content') /\ InPlace(Sent + 1, content'[b])
  BY <1>3
<1>5. \A i \in DOMAIN enc : InPlace(Len(video) + i, content'[enc[i]])
  BY <1>1, <1>3 DEF EncoderSound
<1>6. /\ enc' \in Seq(Frames) /\ video' \in Seq(Int) /\ Sent' = Sent + 1
      /\ \A i \in DOMAIN enc' :
           InPlace(Len(video') + i, content'[enc'[i]])
      /\ PicturesInOrder'
  BY <1>1, <1>3, <1>4, <1>5, EmitsSteps
<1>7. IF opened
      THEN /\ held = << >> /\ Len(aux) = packets
           /\ \A i \in DOMAIN aux : aux[i].id = i
      ELSE /\ aux = << >> /\ Len(held) = packets
           /\ \A i \in DOMAIN held : held[i] = i
  BY <1>1 DEF AuxSound
<1>8. /\ opened' /\ opened' \in BOOLEAN /\ packets' = packets
      /\ success' = success
      /\ held' \in Seq(1..packets)
      /\ aux' \in Seq(Handed(packets))
      /\ held' = << >> /\ Len(aux') = packets
      /\ \A i \in DOMAIN aux' : aux'[i].id = i
  BY <1>1, <1>4, <1>7, EmitsAux
<1> QED BY <1>3, <1>6, <1>8

-----------------------------------------------------------------------------
(* The steps, seen from outside: who touches what. *)

(* Those that leave the encoder and the output alone. *)
Silent == \/ GpuRuns \/ Decode \/ PushPassthrough \/ PushUpscale
          \/ RifeUpscale \/ RifeWait \/ RifeShift \/ EndOfInput
          \/ GivesUp \/ Fails \/ Cleanup \/ UNCHANGED vars

LEMMA SilentSteps ==
    ASSUME Silent
    PROVE  UNCHANGED <<opened, enc, video, success, held, packets, aux,
                       factor, depth, passthrough, rebases>>
<1>1. ASSUME GpuRuns \/ Decode \/ EndOfInput \/ Cleanup \/ UNCHANGED vars
      PROVE  UNCHANGED <<outVars, auxVars, modeVars>>
  BY <1>1 DEF GpuRuns, Decode, EndOfInput, Cleanup, vars
<1>2. ASSUME PushPassthrough \/ PushUpscale
      PROVE  UNCHANGED <<outVars, auxVars, modeVars>>
  BY <1>2 DEF PushPassthrough, PushUpscale, Push
<1>3. ASSUME RifeUpscale \/ RifeWait \/ RifeShift
      PROVE  UNCHANGED <<outVars, auxVars, modeVars>>
  BY <1>3 DEF RifeUpscale, RifeWait, RifeShift
<1>4. ASSUME GivesUp \/ Fails
      PROVE  UNCHANGED <<outVars, auxVars, modeVars>>
  BY <1>4 DEF GivesUp, Fails, Ends
<1>5. UNCHANGED <<outVars, auxVars, modeVars>>
  BY <1>1, <1>2, <1>3, <1>4 DEF Silent
<1> QED BY <1>5 DEF outVars, auxVars, modeVars

(* At the end of the input a run without neighbours has nothing to send. *)
FlushesNothing == Flushed /\ ~(Interpolates /\ prev # NoBuffer)

LEMMA AllSteps ==
    [Next]_vars => \/ Silent \/ Sends \/ FlushesNothing
                   \/ Copy \/ Trailer \/ Destroy
<1>1. Gone => UNCHANGED vars
  BY DEF Gone
<1> QED BY <1>1 DEF Next, Run, Silent, Sends, FlushesNothing

-----------------------------------------------------------------------------
(* Types. *)

SlotType == [in : Buffers, out : Buffers, ticket : 0..submitted]

MemoryTypes ==
    /\ Tickets!TypeOK
    /\ jobs \in Seq([from : Surfaces, to : Pool]) /\ Len(jobs) = submitted
    /\ content \in [Frames -> Int]
    /\ ring \in [0..(MaxRing - 1) -> SlotType]

ProgramTypes ==
    /\ factor \in Factors /\ depth \in 1..(MaxRing - 1)
    /\ passthrough \in BOOLEAN /\ rebases \in BOOLEAN
    /\ head \in 0..(MaxRing - 1) /\ count \in 0..depth
    /\ prev \in Pool \cup {NoBuffer} /\ cur \in Pool \cup {NoBuffer}
    /\ phase \in 0..factor
    /\ dec \in Surfaces \cup {NoBuffer} /\ decoded \in 0..MaxPictures
    /\ pc \in {"read", "sync", "base", "phases", "flush", "trailer",
               "cleanup", "destroy", "gone"}

OutputTypes ==
    /\ opened \in BOOLEAN /\ success \in BOOLEAN
    /\ enc \in Seq(Frames) /\ video \in Seq(Int)
    /\ held \in Seq(1..packets) /\ packets \in 0..MaxPackets
    /\ aux \in Seq(Handed(packets))

LEMMA ThreeTypes ==
    /\ TypeOK <=> MemoryTypes /\ ProgramTypes /\ OutputTypes
    /\ TypeOK' <=> MemoryTypes' /\ ProgramTypes' /\ OutputTypes'
<1>1. TypeOK <=> MemoryTypes /\ ProgramTypes /\ OutputTypes
  BY DEF TypeOK, MemoryTypes, ProgramTypes, OutputTypes, Frames, SlotType,
         Handed
<1>2. TypeOK' <=> MemoryTypes' /\ ProgramTypes' /\ OutputTypes'
  BY DEF TypeOK, MemoryTypes, ProgramTypes, OutputTypes, Frames, SlotType,
         Handed
<1> QED BY <1>1, <1>2

LEMMA EmptyTyped ==
    Empty \in [in : Buffers, out : Buffers, ticket : {0}]
BY BuffersApart DEF Empty

LEMMA OutputTyped ==
    ASSUME IInv, [Next]_vars
    PROVE  OutputTypes'
<1>1. TypeOK /\ OutputTypes
  BY ThreeTypes DEF IInv
<1>2. ASSUME Silent PROVE OutputTypes'
  BY <1>2, <1>1, SilentSteps DEF OutputTypes
<1>3. ASSUME Sends PROVE OutputTypes'
  <2>1. packets' = packets /\ packets \in 0..MaxPackets
    BY <1>1, <1>3, SendsOne DEF OutputTypes
  <2>2. success' \in BOOLEAN /\ opened' \in BOOLEAN
    BY <1>1, <1>3, SendsOne DEF OutputTypes
  <2>3. /\ enc' \in Seq(Frames) /\ video' \in Seq(Int)
        /\ held' \in Seq(1..packets)
        /\ aux' \in Seq(Handed(packets))
    BY <1>3, SendsOne
  <2>4. packets' \in 0..MaxPackets
    BY <2>1
  <2>5. /\ held' \in Seq(1..packets')
        /\ aux' \in Seq(Handed(packets'))
    BY <2>1, <2>3
  <2> QED BY <2>2, <2>3, <2>4, <2>5 DEF OutputTypes
<1>4. ASSUME FlushesNothing PROVE OutputTypes'
  BY <1>4, <1>1 DEF FlushesNothing, Flushed, Flushes, OutputTypes, outVars,
     auxVars
<1>5. ASSUME Copy PROVE OutputTypes'
  <2>0. PICK taken \in BOOLEAN :
           /\ packets < MaxPackets /\ packets' = packets + 1
           /\ UNCHANGED outVars
           /\ IF opened
              THEN /\ aux' = Append(aux, Written(packets + 1, "out", taken))
                   /\ held' = held
              ELSE held' = Append(held, packets + 1) /\ aux' = aux
    BY <1>5 DEF Copy
  <2> DEFINE new == Written(packets + 1, "out", taken)
  <2>1. /\ packets < MaxPackets /\ packets' = packets + 1
        /\ UNCHANGED outVars
        /\ IF opened
           THEN aux' = Append(aux, new) /\ held' = held
           ELSE held' = Append(held, packets + 1) /\ aux' = aux
    BY <2>0
  <2>2. packets \in Nat /\ packets + 1 \in 0..MaxPackets /\ MaxPackets \in Nat
    BY <2>1, <1>1, EncoderAssumption DEF OutputTypes
  <2> DEFINE Old == Handed(packets)
             New == Handed(packets + 1)
  <2>3. /\ Old \subseteq New /\ 1..packets \subseteq 1..(packets + 1)
        /\ new \in New
        /\ packets + 1 \in 1..(packets + 1)
    BY <2>2 DEF Handed, Written
  <2>4. aux \in Seq(Old) /\ held \in Seq(1..packets)
    BY <1>1 DEF OutputTypes
  <2> HIDE DEF Old, New, new
  <2>5. aux \in Seq(New) /\ held \in Seq(1..(packets + 1))
    BY <2>3, <2>4, SeqMonotonic
  <2>6. /\ Append(aux, new) \in Seq(New)
        /\ Append(held, packets + 1) \in Seq(1..(packets + 1))
    BY <2>3, <2>5, AppendProperties
  <2>7. aux' \in Seq(New) /\ held' \in Seq(1..(packets + 1))
    BY <2>1, <2>5, <2>6
  <2>8. UNCHANGED <<opened, enc, video, success>>
    BY <2>1 DEF outVars
  <2> USE DEF New
  <2> QED BY <2>1, <2>2, <2>7, <2>8, <1>1 DEF OutputTypes
<1>6. ASSUME Trailer PROVE OutputTypes'
  <2>1. /\ video' = video \o [i \in DOMAIN enc |-> content[enc[i]]]
        /\ enc' = << >> /\ success' = TRUE
        /\ UNCHANGED <<opened, auxVars>>
    BY <1>6 DEF Trailer
  <2> DEFINE out == [i \in 1..Len(enc) |-> content[enc[i]]]
  <2>2. video' = video \o out
    BY <2>1, <1>1, Sequences
  <2>3. \A i \in 1..Len(enc) : content[enc[i]] \in Int
    BY <1>1, Sequences, RingTyped
  <2>4. out \in Seq(Int)
    BY <2>3, <1>1, Sequences, IsASeq
  <2>5. video' \in Seq(Int)
    BY <2>2, <2>4, <1>1, Sequences, ConcatProperties
  <2>6. << >> \in Seq(Frames)
    OBVIOUS
  <2> QED BY <2>1, <2>5, <2>6, <1>1 DEF OutputTypes, auxVars
<1>7. ASSUME Destroy PROVE OutputTypes'
  <2>1. << >> \in Seq(Frames)
    OBVIOUS
  <2> QED BY <1>7, <2>1, <1>1 DEF Destroy, OutputTypes, auxVars
<1> QED BY <1>2, <1>3, <1>4, <1>5, <1>6, <1>7, AllSteps

LEMMA ProgramTyped ==
    ASSUME IInv, [Next]_vars
    PROVE  ProgramTypes'
<1>1. TypeOK /\ ProgramTypes /\ RifeSound /\ ProgramSound
  BY ThreeTypes DEF IInv
<1>2. factor \in Nat \ {0} /\ MaxPictures \in Nat /\ depth \in Nat
      /\ decoded \in Nat /\ count \in Nat
  BY <1>1, EncoderAssumption DEF ProgramTypes
<1>3. ASSUME GpuRuns \/ Copy \/ EndOfInput \/ UNCHANGED vars
      PROVE  ProgramTypes'
  BY <1>1, <1>3 DEF ProgramTypes, GpuRuns, Copy, EndOfInput, vars,
     modeVars, ringVars, rifeVars, inputVars
<1>4. ASSUME Decode PROVE ProgramTypes'
  <2>1. /\ decoded * factor < MaxPictures /\ decoded' = decoded + 1
        /\ UNCHANGED <<modeVars, ringVars, rifeVars, pc>>
        /\ \E s \in FreeIn(Surfaces) : dec' = s
    BY <1>4 DEF Decode
  <2>2. decoded * factor >= decoded
    BY <1>2
  <2>3. decoded' \in 0..MaxPictures
    <3> DEFINE x == decoded * factor
    <3>1. x < MaxPictures /\ x >= decoded /\ x \in Int
      BY <1>2, <2>1, <2>2
    <3> HIDE DEF x
    <3> QED BY <3>1, <1>2, <2>1
  <2>4. dec' \in Surfaces
    BY <2>1, FreeIsFree
  <2> QED BY <2>1, <2>3, <2>4, <1>1 DEF ProgramTypes, modeVars, ringVars,
          rifeVars
<1>5. ASSUME Reclaim PROVE ProgramTypes'
  <2>1. count > 0
    BY <1>5, ReclaimShows
  <2>2. /\ count' = count - 1
        /\ UNCHANGED <<modeVars, head, rifeVars, inputVars, pc>>
    BY <1>5 DEF Reclaim, Reclaims
  <2>3. count' \in 0..depth
    BY <2>1, <2>2, <1>1, <1>2 DEF ProgramTypes
  <2> QED BY <2>2, <2>3, <1>1 DEF ProgramTypes, modeVars, rifeVars, inputVars
<1>6. ASSUME NEW s, Push(s) PROVE ProgramTypes'
  <2>1. /\ head' = (head + 1) % MaxRing /\ count' = count + 1
        /\ count < depth /\ dec' = NoBuffer
        /\ UNCHANGED <<modeVars, rifeVars, decoded, pc>>
    BY <1>6 DEF Push
  <2>2. head' \in 0..(MaxRing - 1)
    BY <2>1, <1>1, RingPlaces, Places
  <2>3. count' \in 0..depth
    BY <2>1, <1>1, <1>2 DEF ProgramTypes
  <2> QED BY <2>1, <2>2, <2>3, <1>1 DEF ProgramTypes, modeVars, rifeVars
<1>7. ASSUME PushPassthrough \/ PushUpscale PROVE ProgramTypes'
  BY <1>6, <1>7 DEF PushPassthrough, PushUpscale
<1>8. ASSUME RifeUpscale PROVE ProgramTypes'
  <2>1. \E b \in FreeIn(Pool) : cur' = b
    BY <1>8 DEF RifeUpscale
  <2>2. cur' \in Pool
    BY <2>1, FreeIsFree
  <2> QED BY <2>2, <1>1, <1>8 DEF RifeUpscale, ProgramTypes, modeVars,
          ringVars, inputVars
<1>9. ASSUME RifeWait PROVE ProgramTypes'
  BY <1>1, <1>9 DEF RifeWait, ProgramTypes, modeVars, ringVars
<1>10. ASSUME RifeBase PROVE ProgramTypes'
  <2>1. 1 \in 0..factor
    BY <1>2
  <2> QED BY <2>1, <1>1, <1>10 DEF RifeBase, ProgramTypes, modeVars, ringVars,
          inputVars
<1>11. ASSUME RifePhase PROVE ProgramTypes'
  <2>1. /\ phase < factor /\ phase' = phase + 1
        /\ UNCHANGED <<modeVars, ringVars, prev, cur, inputVars, pc>>
    BY <1>11 DEF RifePhase, Interpolated
  <2>2. phase' \in 0..factor
    BY <2>1, <1>1, <1>2 DEF ProgramTypes
  <2> QED BY <2>1, <2>2, <1>1 DEF ProgramTypes, modeVars, ringVars, inputVars
<1>12. ASSUME RifeShift PROVE ProgramTypes'
  <2>1. 0 \in 0..factor
    BY <1>2
  <2> QED BY <2>1, <1>1, <1>12 DEF RifeShift, ProgramTypes, modeVars, ringVars,
          inputVars
<1>13. ASSUME Flushed PROVE ProgramTypes'
  BY <1>1, <1>13 DEF Flushed, Flushes, ProgramTypes, modeVars, ringVars,
     rifeVars, inputVars
<1>14. ASSUME GivesUp \/ Fails \/ Trailer PROVE ProgramTypes'
  BY <1>1, <1>14 DEF GivesUp, Fails, Ends, Trailer, ProgramTypes, modeVars,
     ringVars, rifeVars, inputVars
<1>15. ASSUME Cleanup \/ Destroy PROVE ProgramTypes'
  BY <1>1, <1>15 DEF Cleanup, Destroy, ProgramTypes, modeVars,
     ringVars, rifeVars, inputVars
<1>16. Gone => UNCHANGED vars
  BY DEF Gone
<1> QED BY <1>3, <1>4, <1>5, <1>7, <1>8, <1>9, <1>10, <1>11, <1>12, <1>13,
        <1>14, <1>15, <1>16 DEF Next, Run

(* A job is submitted for the decoded frame. *)
LEMMA SubmitTyped ==
    ASSUME TypeOK, NEW from \in Surfaces, NEW to \in Pool, Submits(from, to)
    PROVE  /\ Tickets!TypeOK' /\ Len(jobs') = submitted'
           /\ jobs' \in Seq([from : Surfaces, to : Pool])
           /\ submitted' = submitted + 1
           /\ finished' = finished /\ reported' = reported
           /\ \A t \in 1..submitted : jobs'[t] = jobs[t]
           /\ jobs'[submitted'] = [from |-> from, to |-> to]
           /\ submitted' \notin finished'
<1> DEFINE Jobs == [from : Surfaces, to : Pool]
           job == [from |-> from, to |-> to]
<1>1. /\ submitted \in Nat /\ finished \subseteq 1..submitted
      /\ reported \subseteq 1..submitted
  BY RingTyped
<1>2. /\ submitted' = submitted + 1 /\ finished' = finished
      /\ reported' = reported /\ jobs' = Append(jobs, job)
  BY DEF Submits, Tickets!Submit
<1>3. jobs \in Seq(Jobs) /\ Len(jobs) = submitted /\ job \in Jobs
  BY DEF TypeOK
<1> HIDE DEF Jobs, job
<1>4. /\ jobs' \in Seq(Jobs) /\ Len(jobs') = submitted + 1
      /\ \A t \in 1..submitted : jobs'[t] = jobs[t]
      /\ jobs'[submitted + 1] = job
  BY <1>2, <1>3, AppendProperties
<1>5. Tickets!TypeOK'
  BY <1>1, <1>2 DEF Tickets!TypeOK
<1>6. submitted' \notin finished'
  BY <1>1, <1>2
<1> USE DEF Jobs, job
<1> QED BY <1>2, <1>4, <1>5, <1>6

LEMMA ReportTyped ==
    ASSUME TypeOK, NEW t \in 1..submitted, Waited(t)
    PROVE  /\ Tickets!TypeOK' /\ submitted' = submitted
           /\ finished' = finished /\ 1..t \subseteq finished
<1>1. /\ submitted \in Nat /\ finished \subseteq 1..submitted
      /\ reported \subseteq 1..submitted
  BY RingTyped
<1>2. /\ submitted' = submitted /\ finished' = finished
      /\ reported' = reported \cup 1..t /\ 1..t \subseteq finished
  BY DEF Waited, Tickets!Report
<1> QED BY <1>1, <1>2 DEF Tickets!TypeOK

(* The GPU runs the next job. *)
LEMMA GpuSteps ==
    ASSUME TypeOK, GpuRuns
    PROVE  \E t \in 1..submitted :
             /\ t \notin finished /\ finished' = finished \cup {t}
             /\ 1..(t - 1) \subseteq finished
             /\ jobs[t] \in [from : Surfaces, to : Pool]
             /\ jobs[t].to \in Pool /\ jobs[t].from \in Surfaces
             /\ content' = [content EXCEPT ![jobs[t].to]
                                            = content[jobs[t].from]]
             /\ content' \in [Frames -> Int]
             /\ content'[jobs[t].to] = content[jobs[t].from]
             /\ \A b \in Frames :
                  b # jobs[t].to => content'[b] = content[b]
             /\ Tickets!TypeOK'
             /\ UNCHANGED <<submitted, reported, jobs>>
<1>1. PICK t \in 1..submitted :
          /\ 1..(t - 1) \subseteq finished
          /\ Tickets!Finish(t)
          /\ content' = [content EXCEPT ![jobs[t].to] = content[jobs[t].from]]
  BY DEF GpuRuns
<1>2. /\ submitted \in Nat /\ finished \subseteq 1..submitted
      /\ reported \subseteq 1..submitted /\ content \in [Frames -> Int]
  BY RingTyped
<1>3. /\ t \notin finished /\ finished' = finished \cup 1..t
      /\ UNCHANGED <<submitted, reported, jobs>>
  BY <1>1 DEF GpuRuns, Tickets!Finish
<1>4. finished' = finished \cup {t}
  BY <1>1, <1>2, <1>3
<1>5. Tickets!TypeOK'
  BY <1>1, <1>2, <1>3, <1>4 DEF Tickets!TypeOK
<1>6. jobs[t] \in [from : Surfaces, to : Pool]
  <2>1. jobs \in Seq([from : Surfaces, to : Pool]) /\ Len(jobs) = submitted
    BY DEF TypeOK
  <2> QED BY <2>1, ElementOfSeq
<1>7. jobs[t].to \in Pool /\ jobs[t].from \in Surfaces
  BY <1>6
<1>8. jobs[t].to \in Frames /\ jobs[t].from \in Frames
  BY <1>7 DEF Frames
<1>9. /\ content' \in [Frames -> Int]
      /\ content'[jobs[t].to] = content[jobs[t].from]
      /\ \A b \in Frames : b # jobs[t].to => content'[b] = content[b]
  BY <1>1, <1>2, <1>8
<1> QED BY <1>1, <1>3, <1>4, <1>5, <1>6, <1>7, <1>9

(* A slot that is filled: with the decoded frame itself, or with the job   *)
(* from it to a frame of the pool.                                         *)
LEMMA SlotIs ==
    ASSUME NEW b
    PROVE  /\ Slot(b).in = dec /\ Slot(b).out = b
           /\ Slot(b).ticket = submitted + 1
           /\ [Empty EXCEPT !.out = dec].in = NoBuffer
           /\ [Empty EXCEPT !.out = dec].out = dec
           /\ [Empty EXCEPT !.out = dec].ticket = 0
           /\ Slot(b) = [in |-> dec, out |-> b, ticket |-> submitted + 1]
           /\ [Empty EXCEPT !.out = dec]
                = [in |-> NoBuffer, out |-> dec, ticket |-> 0]
BY DEF Slot, Kept, Empty

LEMMA MemoryTyped ==
    ASSUME IInv, [Next]_vars
    PROVE  MemoryTypes'
<1>1. TypeOK /\ MemoryTypes /\ RifeSound
  BY ThreeTypes DEF IInv
<1>2. /\ submitted \in Nat /\ content \in [Frames -> Int]
      /\ ring \in [0..(MaxRing - 1) -> SlotType]
      /\ dec \in Surfaces \cup {NoBuffer}
  BY <1>1, RingTyped DEF MemoryTypes, TypeOK
<1>3. Empty \in SlotType
  BY <1>2, EmptyTyped DEF SlotType
<1>4. ASSUME UNCHANGED <<tickets, jobs>>, content' \in [Frames -> Int],
             ring' \in [0..(MaxRing - 1) -> SlotType]
      PROVE  MemoryTypes'
  BY <1>1, <1>4 DEF MemoryTypes, SlotType, tickets, Tickets!TypeOK
<1>5. ASSUME Copy \/ EndOfInput \/ RifeBase \/ RifeShift \/ Flushed
             \/ Trailer \/ GivesUp \/ Fails \/ Destroy \/ UNCHANGED vars
      PROVE  MemoryTypes'
  <2>1. UNCHANGED <<tickets, jobs, content, ring>>
    <3>1. ASSUME Copy \/ EndOfInput \/ RifeBase \/ RifeShift \/ UNCHANGED vars
          PROVE  UNCHANGED <<tickets, jobs, content, ring>>
      BY <3>1 DEF Copy, EndOfInput, RifeBase, RifeShift, vars, ringVars
    <3>2. ASSUME Flushed \/ Trailer \/ GivesUp \/ Fails \/ Destroy
          PROVE  UNCHANGED <<tickets, jobs, content, ring>>
      BY <3>2 DEF Flushed, Flushes, Trailer, GivesUp, Fails, Ends, Destroy,
         ringVars
    <3> QED BY <3>1, <3>2, <1>5
  <2> QED BY <2>1, <1>2, <1>4
<1>6. ASSUME GpuRuns PROVE MemoryTypes'
  <2>1. /\ Tickets!TypeOK' /\ content' \in [Frames -> Int]
        /\ UNCHANGED <<submitted, jobs>>
    BY <1>1, <1>6, GpuSteps
  <2>2. ring' = ring
    BY <1>6 DEF GpuRuns, ringVars
  <2> QED BY <2>1, <2>2, <1>1 DEF MemoryTypes, SlotType
<1>7. ASSUME Decode PROVE MemoryTypes'
  <2>1. PICK s \in FreeIn(Surfaces) :
             content' = [content EXCEPT ![s] = decoded * factor]
    BY <1>7 DEF Decode
  <2>2. decoded * factor \in Int
    BY <1>1, EncoderAssumption DEF TypeOK
  <2>3. content' \in [Frames -> Int]
    BY <2>1, <2>2, <1>2
  <2> QED BY <2>3, <1>2, <1>4, <1>7 DEF Decode, ringVars
<1>8. ASSUME Reclaim PROVE MemoryTypes'
  <2>1. /\ ring' = [ring EXCEPT ![Oldest] = Empty]
        /\ UNCHANGED <<jobs, content>>
        /\ IF ring[Oldest].ticket = 0 THEN UNCHANGED tickets
           ELSE Waited(ring[Oldest].ticket)
    BY <1>8 DEF Reclaim, Reclaims
  <2>2. ring' \in [0..(MaxRing - 1) -> SlotType]
    BY <2>1, <1>2, <1>3
  <2>3. CASE UNCHANGED tickets
    BY <2>1, <2>2, <2>3, <1>2, <1>4
  <2>4. CASE ring[Oldest].ticket # 0 /\ Waited(ring[Oldest].ticket)
    <3>1. ring[Oldest].ticket \in 1..submitted
      BY <2>4, <1>1, <1>2, RingPlaces, RingTyped
    <3>2. Tickets!TypeOK' /\ submitted' = submitted
      BY <3>1, <2>4, <1>1, ReportTyped
    <3> QED BY <3>2, <2>1, <2>2, <1>1 DEF MemoryTypes, SlotType
  <2> QED BY <2>1, <2>3, <2>4
<1>9. ASSUME PushPassthrough PROVE MemoryTypes'
  <2> DEFINE s == [Empty EXCEPT !.out = dec]
  <2>1. /\ ring' = [ring EXCEPT ![head] = s] /\ content' = content
        /\ UNCHANGED <<tickets, jobs>>
    BY <1>9 DEF PushPassthrough, Push, tickets
  <2>2. s \in SlotType
    <3>1. /\ dec \in Buffers /\ NoBuffer \in Buffers
          /\ 0 \in 0..submitted
      BY <1>2, BuffersApart DEF Buffers
    <3>2. s = [in |-> NoBuffer, out |-> dec, ticket |-> 0]
      BY SlotIs
    <3> QED BY <3>1, <3>2 DEF SlotType
  <2>3. ring' \in [0..(MaxRing - 1) -> SlotType]
    <3> HIDE DEF s
    <3> QED BY <2>1, <2>2, <1>2
  <2> QED BY <2>1, <2>3, <1>2, <1>4
<1>10. ASSUME PushUpscale PROVE MemoryTypes'
  <2>1. PICK b \in FreeIn(Pool) : Submits(dec, b) /\ Push(Slot(b))
    BY <1>10 DEF PushUpscale
  <2>2. /\ ring' = [ring EXCEPT ![head] = Slot(b)] /\ content' = content
        /\ dec # NoBuffer
    BY <2>1 DEF Push
  <2>3. b \in Pool /\ dec \in Surfaces
    BY <2>2, <1>2, FreeIsFree
  <2>4. /\ Tickets!TypeOK' /\ Len(jobs') = submitted'
        /\ jobs' \in Seq([from : Surfaces, to : Pool])
        /\ submitted' = submitted + 1
    BY <2>1, <2>3, <1>1, SubmitTyped
  <2>5. /\ SlotType \subseteq SlotType'
        /\ Slot(b) \in SlotType'
    <3>1. 0..submitted \subseteq 0..submitted'
          /\ submitted + 1 \in 0..submitted'
      BY <2>4, <1>2
    <3>2. b \in Buffers /\ dec \in Buffers
      BY <2>3 DEF Buffers
    <3> QED BY <3>1, <3>2, SlotIs DEF SlotType
  <2>6. ring' \in [0..(MaxRing - 1) -> SlotType']
    <3>1. ring \in [0..(MaxRing - 1) -> SlotType']
      BY <2>5, <1>2
    <3> QED BY <3>1, <2>2, <2>5
  <2> QED BY <2>2, <2>4, <2>6, <1>2 DEF MemoryTypes
<1>11. ASSUME RifeUpscale PROVE MemoryTypes'
  <2>1. PICK b \in FreeIn(Pool) : Submits(dec, b)
    BY <1>11 DEF RifeUpscale
  <2>2. UNCHANGED <<content, ring>> /\ dec # NoBuffer
    BY <1>11 DEF RifeUpscale, ringVars
  <2>3. b \in Pool /\ dec \in Surfaces
    BY <2>2, <1>2, FreeIsFree
  <2>4. /\ Tickets!TypeOK' /\ Len(jobs') = submitted'
        /\ jobs' \in Seq([from : Surfaces, to : Pool])
        /\ submitted' = submitted + 1
    BY <2>1, <2>3, <1>1, SubmitTyped
  <2>5. SlotType \subseteq SlotType'
    <3>1. 0..submitted \subseteq 0..submitted'
      BY <2>4, <1>2
    <3> QED BY <3>1 DEF SlotType
  <2>6. ring' \in [0..(MaxRing - 1) -> SlotType']
    BY <2>2, <2>5, <1>2
  <2> QED BY <2>2, <2>4, <2>6, <1>2 DEF MemoryTypes
<1>12. ASSUME RifeWait PROVE MemoryTypes'
  <2>1. /\ pc = "sync" /\ Waited(submitted)
        /\ UNCHANGED <<jobs, content, ring>>
    BY <1>12 DEF RifeWait, ringVars
  <2>2. Running /\ Interpolates
    BY <2>1 DEF IInv, ProgramSound, Running
  <2>3. submitted # 0
    BY <2>1, <2>2, <1>1 DEF RifeSound
  <2>4. Tickets!TypeOK' /\ submitted' = submitted
    BY <2>1, <2>3, <1>1, <1>2, ReportTyped
  <2> QED BY <2>1, <2>4, <1>1 DEF MemoryTypes, SlotType
<1>13. ASSUME RifePhase PROVE MemoryTypes'
  <2>1. UNCHANGED <<tickets, jobs, ring>>
    BY <1>13 DEF RifePhase, Interpolated, ringVars
  <2> QED BY <2>1, <1>2, <1>4, <1>13, PhaseShows
<1>14. ASSUME Cleanup PROVE MemoryTypes'
  <2>1. /\ ring' = [i \in DOMAIN ring |-> Empty]
        /\ UNCHANGED <<tickets, jobs, content>>
    BY <1>14 DEF Cleanup
  <2>2. ring' \in [0..(MaxRing - 1) -> SlotType]
    BY <2>1, <1>2, <1>3
  <2> QED BY <2>1, <2>2, <1>2, <1>4
<1>15. Gone => UNCHANGED vars
  BY DEF Gone
<1> QED BY <1>5, <1>6, <1>7, <1>8, <1>9, <1>10, <1>11, <1>12, <1>13,
        <1>14, <1>15 DEF Next, Run

LEMMA TypesKept ==
    ASSUME IInv, [Next]_vars
    PROVE  TypeOK'
BY ProgramTyped, MemoryTyped, OutputTyped, ThreeTypes

-----------------------------------------------------------------------------
(* What the encoder refers to stays as it is. *)

(* Nothing comes back from the cleanup. *)
LEMMA RunningBefore ==
    ASSUME [Next]_vars, Running'
    PROVE  Running
<1>1. ASSUME UNCHANGED pc PROVE Running
  BY <1>1 DEF Running
<1>2. ASSUME GpuRuns \/ Decode \/ Copy \/ Reclaim \/ RifePhase
             \/ UNCHANGED vars
      PROVE  Running
  <2>1. UNCHANGED pc
    BY <1>2 DEF GpuRuns, Decode, Copy, Reclaim, Reclaims, RifePhase,
       Interpolated, vars
  <2> QED BY <2>1, <1>1
<1>3. ASSUME PushPassthrough \/ PushUpscale PROVE Running
  <2>1. UNCHANGED pc
    BY <1>3 DEF PushPassthrough, PushUpscale, Push
  <2> QED BY <2>1, <1>1
<1>4. ASSUME EndOfInput \/ RifeUpscale \/ RifeWait \/ RifeBase \/ RifeShift
             \/ Flushed
      PROVE  Running
  BY <1>4 DEF EndOfInput, RifeUpscale, RifeWait, RifeBase, RifeShift,
     Flushed, Flushes, Running
<1>5. ~Trailer /\ ~GivesUp /\ ~Fails /\ ~Cleanup /\ ~Destroy
  BY DEF Running, Trailer, GivesUp, Fails, Ends, Cleanup, Destroy
<1>6. Gone => UNCHANGED vars
  BY DEF Gone
<1> QED BY <1>2, <1>3, <1>4, <1>5, <1>6 DEF Next, Run

(* A job that is still to run belongs to a slot or to RIFE's new frame.    *)
LEMMA OpenJobs ==
    ASSUME IInv, Running, NEW t \in 1..submitted, t \notin finished
    PROVE  /\ jobs[t].to \notin ToSet(enc)
           /\ ~Interpolates =>
                \E k \in InRing : /\ ring[Place(k)].ticket = t
                                  /\ JobSound(ring[Place(k)], Sent + k)
           /\ Interpolates => /\ pc = "sync" /\ t = submitted
                              /\ jobs[t] = [from |-> dec, to |-> cur]
<1>1. /\ TypeOK /\ RingSound /\ RifeSound
  BY DEF IInv
<1>2. submitted \in Nat
  BY <1>1, RingTyped
<1>3. CASE ~Interpolates
  <2>1. PICK k \in InRing : ring[Place(k)].ticket = t
    BY <1>1, <1>3 DEF RingSound
  <2>2. JobSound(ring[Place(k)], Sent + k)
    BY <2>1, <1>1, <1>3 DEF RingSound
  <2>3. jobs[t].to = ring[Place(k)].out
    BY <2>1, <2>2 DEF JobSound
  <2>4. jobs[t].to \notin ToSet(enc)
    BY <2>2, <2>3 DEF JobSound
  <2> QED BY <2>1, <2>2, <2>4, <1>3
<1>4. CASE Interpolates
  <2>1. pc = "sync"
    BY <1>1, <1>4 DEF RifeSound
  <2>2. /\ cur \notin ToSet(enc) /\ 1..(submitted - 1) \subseteq finished
        /\ jobs[submitted] = [from |-> dec, to |-> cur]
    BY <2>1, <1>1, <1>4 DEF RifeSound
  <2>3. t = submitted
    BY <2>2, <1>2
  <2> QED BY <2>1, <2>2, <2>3, <1>4
<1> QED BY <1>3, <1>4

(* Neither the GPU nor the decoder writes what the encoder is to read. *)
LEMMA SilentKeeps ==
    ASSUME IInv, Silent, Running
    PROVE  \A i \in DOMAIN enc : content'[enc[i]] = content[enc[i]]
<1>1. TypeOK
  BY DEF IInv
<1>2. \A i \in DOMAIN enc : enc[i] \in Frames /\ enc[i] \in ToSet(enc)
  BY <1>1, Sequences
<1>3. CASE GpuRuns
  <2>1. PICK t \in 1..submitted :
             /\ t \notin finished
             /\ \A b \in Frames : b # jobs[t].to => content'[b] = content[b]
    BY <1>1, <1>3, GpuSteps
  <2>2. jobs[t].to \notin ToSet(enc)
    BY <2>1, OpenJobs
  <2> QED BY <2>1, <2>2, <1>2
<1>4. CASE Decode
  <2>1. PICK s \in FreeIn(Surfaces) :
             content' = [content EXCEPT ![s] = decoded * factor]
    BY <1>4 DEF Decode
  <2>2. s \notin ToSet(enc)
    BY <2>1, FreeIsFree
  <2>3. content \in [Frames -> Int]
    BY <1>1, RingTyped
  <2> QED BY <2>1, <2>2, <2>3, <1>2
<1>5. CASE PushPassthrough \/ PushUpscale
  BY <1>5 DEF PushPassthrough, PushUpscale, Push
<1>6. CASE RifeUpscale \/ RifeWait \/ RifeShift \/ EndOfInput \/ Cleanup
           \/ UNCHANGED vars
  BY <1>6 DEF RifeUpscale, RifeWait, RifeShift, EndOfInput, Cleanup, vars
<1>7. CASE GivesUp \/ Fails
  BY <1>7 DEF GivesUp, Fails, Ends
<1> QED BY <1>3, <1>4, <1>5, <1>6, <1>7 DEF Silent

(* The pictures in the output are never touched again. *)
LEMMA PicturesKept ==
    ASSUME IInv, [Next]_vars
    PROVE  PicturesInOrder' /\ EncoderSound'
<1>1. TypeOK /\ PicturesInOrder /\ EncoderSound
  BY DEF IInv
<1>2. ASSUME UNCHANGED <<video, factor>> PROVE PicturesInOrder'
  BY <1>1, <1>2 DEF PicturesInOrder
<1>3. ASSUME UNCHANGED <<video, factor, enc>>,
             \A i \in DOMAIN enc : content'[enc[i]] = content[enc[i]],
             Running' => Running
      PROVE  EncoderSound'
  <2> SUFFICES ASSUME Running', NEW i \in DOMAIN enc'
               PROVE  InPlace(Len(video') + i, content'[enc'[i]])
    BY <1>3 DEF EncoderSound, InPlace
  <2>1. InPlace(Len(video) + i, content[enc[i]]) /\ i \in DOMAIN enc
    BY <1>1, <1>3 DEF EncoderSound
  <2> QED BY <2>1, <1>3
<1>4. Running' => Running
  BY RunningBefore
<1>5. ASSUME Silent PROVE PicturesInOrder' /\ EncoderSound'
  <2>1. UNCHANGED <<video, factor, enc>>
    BY <1>5, SilentSteps
  <2>2. PicturesInOrder'
    BY <2>1, <1>2
  <2>3. ASSUME Running' PROVE EncoderSound'
    BY <2>1, <2>3, <1>3, <1>4, <1>5, SilentKeeps
  <2>4. ASSUME ~Running' PROVE EncoderSound'
    BY <2>4 DEF EncoderSound
  <2> QED BY <2>2, <2>3, <2>4
<1>6. ASSUME Sends PROVE PicturesInOrder' /\ EncoderSound'
  <2>1. /\ PicturesInOrder'
        /\ \A i \in DOMAIN enc' : InPlace(Len(video') + i, content'[enc'[i]])
    BY <1>6, SendsOne
  <2>2. factor' = factor
    <3>1. ASSUME Reclaim \/ RifeBase PROVE factor' = factor
      BY <3>1 DEF Reclaim, Reclaims, RifeBase, modeVars
    <3>2. ASSUME RifePhase \/ Flushed PROVE factor' = factor
      BY <3>2 DEF RifePhase, Interpolated, Flushed, Flushes, modeVars
    <3> QED BY <3>1, <3>2, <1>6 DEF Sends
  <2> QED BY <2>1, <2>2 DEF EncoderSound, InPlace
<1>7. ASSUME FlushesNothing \/ Copy PROVE PicturesInOrder' /\ EncoderSound'
  <2>1. UNCHANGED <<video, factor, enc, content>>
    BY <1>7 DEF FlushesNothing, Flushed, Flushes, Copy, outVars, modeVars
  <2> QED BY <2>1, <1>2, <1>3, <1>4
<1>8. ASSUME Trailer PROVE PicturesInOrder' /\ EncoderSound'
  <2>1. /\ video' = video \o [i \in DOMAIN enc |-> content[enc[i]]]
        /\ pc = "trailer" /\ pc' = "cleanup" /\ factor' = factor
    BY <1>8 DEF Trailer, modeVars
  <2> DEFINE out == [i \in 1..Len(enc) |-> content[enc[i]]]
             n == Len(video)
             m == Len(enc)
  <2>2. /\ video \in Seq(Int) /\ n \in Nat /\ m \in Nat
        /\ DOMAIN enc = 1..m /\ DOMAIN video = 1..n
        /\ \A i \in 1..m : content[enc[i]] \in Int
    BY <1>1, Sequences, RingTyped
  <2>3. out \in Seq(Int) /\ Len(out) = m
        /\ \A i \in 1..m : out[i] = content[enc[i]]
    <3>1. out \in Seq(Int)
      BY <2>2, IsASeq
    <3> QED BY <3>1, <2>2, LenProperties
  <2>4. video' = video \o out
    BY <2>1, <2>2
  <2> HIDE DEF out
  <2>5. /\ video' \in Seq(Int) /\ Len(video') = n + m
        /\ \A i \in 1..(n + m) :
             video'[i] = IF i <= n THEN video[i] ELSE out[i - n]
    <3>1. /\ video \o out \in Seq(Int) /\ Len(video \o out) = n + Len(out)
          /\ \A i \in 1..(n + Len(out)) :
               (video \o out)[i] = IF i <= n THEN video[i] ELSE out[i - n]
      BY <2>2, <2>3, ConcatProperties
    <3> QED BY <3>1, <2>3, <2>4
  <2>6. DOMAIN video' = 1..(n + m)
    BY <2>5, LenProperties
  <2>7. \A i \in 1..n : InPlace(i, video[i])
    BY <1>1, <2>2 DEF PicturesInOrder, InPlace
  <2>8. \A i \in 1..m : InPlace(n + i, content[enc[i]])
    BY <1>1, <2>1, <2>2 DEF EncoderSound, Running
  <2> HIDE DEF n, m
  <2>9. \A i \in 1..(n + m) : InPlace(i, video'[i])
    <3> TAKE i \in 1..(n + m)
    <3>1. CASE i \in 1..n
      BY <3>1, <2>2, <2>5, <2>7
    <3>2. CASE i > n
      <4>1. i - n \in 1..m /\ n + (i - n) = i
        BY <3>2, <2>2
      <4>2. video'[i] = out[i - n]
        BY <3>2, <2>2, <2>5
      <4>3. out[i - n] = content[enc[i - n]]
        BY <4>1, <2>3
      <4> QED BY <4>1, <4>2, <4>3, <2>8
    <3> QED BY <3>1, <3>2, <2>2
  <2>10. PicturesInOrder'
    BY <2>1, <2>6, <2>9 DEF PicturesInOrder, InPlace
  <2> QED BY <2>1, <2>10 DEF EncoderSound, Running
<1>9. ASSUME Destroy PROVE PicturesInOrder' /\ EncoderSound'
  BY <1>9, <1>2 DEF Destroy, modeVars, EncoderSound, Running
<1> QED BY <1>5, <1>6, <1>7, <1>8, <1>9, AllSteps

-----------------------------------------------------------------------------
(* The other streams. *)

LEMMA AuxKept ==
    ASSUME IInv, [Next]_vars
    PROVE  AuxSound'
<1>1. TypeOK /\ AuxSound
  BY DEF IInv
<1>2. Running' => Running
  BY RunningBefore
<1>3. Sent \in Nat /\ packets \in Nat
  BY <1>1, Sequences DEF TypeOK
<1>4. ASSUME UNCHANGED <<opened, enc, video, success, held, packets, aux>>
      PROVE  AuxSound'
  <2>1. Sent' = Sent
    BY <1>4 DEF Sent
  <2> QED BY <1>1, <1>2, <1>4, <2>1 DEF AuxSound
<1>5. ASSUME Silent PROVE AuxSound'
  BY <1>5, <1>4, SilentSteps
<1>6. ASSUME Sends PROVE AuxSound'
  <2>1. /\ Sent' = Sent + 1 /\ opened' /\ Running /\ success' = success
        /\ held' = << >> /\ Len(aux') = packets /\ packets' = packets
        /\ \A i \in DOMAIN aux' : aux'[i].id = i
    BY <1>6, SendsOne
  <2>2. ~success' /\ Sent' # 0
    BY <2>1, <1>1, <1>3 DEF AuxSound
  <2> QED BY <2>1, <2>2 DEF AuxSound
<1>7. ASSUME FlushesNothing PROVE AuxSound'
  BY <1>7, <1>4 DEF FlushesNothing, Flushed, Flushes, outVars, auxVars
<1>8. ASSUME Copy PROVE AuxSound'
  <2>0. PICK taken \in BOOLEAN :
           /\ packets' = packets + 1
           /\ UNCHANGED <<opened, enc, video, success>> /\ pc = "read"
           /\ IF opened
              THEN /\ aux' = Append(aux, Written(packets + 1, "out", taken))
                   /\ held' = held
              ELSE held' = Append(held, packets + 1) /\ aux' = aux
    BY <1>8 DEF Copy, outVars
  <2> DEFINE new == Written(packets + 1, "out", taken)
  <2>1. /\ packets' = packets + 1
        /\ UNCHANGED <<opened, enc, video, success>> /\ pc = "read"
        /\ IF opened
           THEN aux' = Append(aux, new) /\ held' = held
           ELSE held' = Append(held, packets + 1) /\ aux' = aux
    BY <2>0
  <2>2. Sent' = Sent /\ Running /\ ~success
    BY <2>1, <1>1 DEF Sent, Running, AuxSound
  <2> DEFINE Copied == Handed(packets + 1)
  <2>3. IF opened'
        THEN /\ held' = << >> /\ Len(aux') = packets'
             /\ \A i \in DOMAIN aux' : aux'[i].id = i
        ELSE /\ aux' = << >> /\ Len(held') = packets'
             /\ \A i \in DOMAIN held' : held'[i] = i
    <3>1. CASE opened
      <4>1. /\ held = << >> /\ Len(aux) = packets
            /\ \A i \in DOMAIN aux : aux[i].id = i
        BY <3>1, <1>1 DEF AuxSound
      <4>2. aux \in Seq(Copied) /\ new \in Copied /\ new.id = packets + 1
        <5>1. aux \in Seq(Handed(packets))
          BY <1>1 DEF TypeOK, Handed
        <5>2. Handed(packets) \subseteq Copied
          BY <1>3 DEF Handed
        <5>3. aux \in Seq(Copied)
          <6> HIDE DEF Copied
          <6> QED BY <5>1, <5>2, SeqMonotonic
        <5>4. new \in Copied /\ new.id = packets + 1
          BY <1>3 DEF Written, Handed
        <5> QED BY <5>3, <5>4
      <4>3. aux' = Append(aux, new)
        BY <2>1, <3>1
      <4> HIDE DEF Copied, new
      <4>4. /\ aux' \in Seq(Copied) /\ Len(aux') = packets + 1
            /\ \A i \in 1..packets : aux'[i] = aux[i]
            /\ aux'[packets + 1] = new
        BY <4>1, <4>2, <4>3, AppendProperties
      <4>5. DOMAIN aux' = 1..(packets + 1) /\ DOMAIN aux = 1..packets
        BY <4>1, <4>2, <4>4, LenProperties
      <4>6. \A i \in 1..(packets + 1) : aux'[i].id = i
        BY <4>1, <4>2, <4>4, <4>5, <1>3
      <4> QED BY <4>1, <4>4, <4>5, <4>6, <2>1, <3>1
    <3>2. CASE ~opened
      <4>1. /\ aux = << >> /\ Len(held) = packets
            /\ \A i \in DOMAIN held : held[i] = i
        BY <3>2, <1>1 DEF AuxSound
      <4>2. held \in Seq(Nat) /\ packets + 1 \in Nat
        <5>1. held \in Seq(1..packets) /\ 1..packets \subseteq Nat
          BY <1>1, <1>3 DEF TypeOK
        <5>2. held \in Seq(Nat)
          BY <5>1, SeqMonotonic
        <5> QED BY <5>2, <1>3
      <4>3. held' = Append(held, packets + 1)
        BY <2>1, <3>2
      <4>4. /\ held' \in Seq(Nat) /\ Len(held') = packets + 1
            /\ \A i \in 1..packets : held'[i] = held[i]
            /\ held'[packets + 1] = packets + 1
        BY <4>1, <4>2, <4>3, AppendProperties
      <4>5. DOMAIN held' = 1..(packets + 1) /\ DOMAIN held = 1..packets
        BY <4>1, <4>2, <4>4, LenProperties
      <4>6. \A i \in 1..(packets + 1) : held'[i] = i
        BY <4>1, <4>4, <4>5, <1>3
      <4> QED BY <4>1, <4>4, <4>5, <4>6, <2>1, <3>2
    <3> QED BY <3>1, <3>2
  <2>4. Running' /\ opened' => Sent' # 0
    BY <2>1, <2>2, <1>1 DEF AuxSound
  <2> QED BY <2>1, <2>2, <2>3, <2>4 DEF AuxSound
<1>9. ASSUME Trailer PROVE AuxSound'
  <2>1. /\ opened /\ ~Running'
        /\ UNCHANGED <<opened, held, packets, aux>>
    BY <1>9 DEF Trailer, auxVars, Running
  <2> QED BY <2>1, <1>1 DEF AuxSound
<1>10. ASSUME Destroy PROVE AuxSound'
  <2>1. /\ ~Running' /\ ~Running
        /\ UNCHANGED <<opened, success, held, packets, aux>>
    BY <1>10 DEF Destroy, auxVars, Running
  <2> QED BY <2>1, <1>1 DEF AuxSound
<1> QED BY <1>5, <1>6, <1>7, <1>8, <1>9, <1>10, AllSteps

-----------------------------------------------------------------------------
(* The course of the program. *)

(* What is sent when the input is at its end and nothing is in flight. *)
LEMMA FlushSends ==
    ASSUME IInv, Flushed
    PROVE  Sent' = IF decoded = 0 THEN 0 ELSE Shown(decoded) + 1
<1>1. TypeOK /\ RingSound /\ RifeSound /\ ProgramSound
  BY DEF IInv
<1>2. /\ pc = "flush" /\ count = 0 /\ Running
      /\ decoded \in Nat /\ Sent \in Nat /\ dec = NoBuffer
  BY <1>1, Sequences DEF Flushed, Flushes, Running, TypeOK, ProgramSound
<1>3. CASE Interpolates /\ prev # NoBuffer
  <2>1. Sent' = Sent + 1
    BY <1>3, SendsOne DEF Sends
  <2>2. Sent = Shown(decoded) /\ decoded # 0
    BY <1>3, FlushShows
  <2> QED BY <2>1, <2>2
<1>4. ASSUME ~(Interpolates /\ prev # NoBuffer)
      PROVE  Sent' = Sent
  BY <1>4 DEF Flushed, Flushes, outVars, Sent
<1>5. CASE Interpolates /\ prev = NoBuffer
  <2>1. Latest = 0 /\ Sent = 0 /\ cur = NoBuffer
    BY <1>1, <1>2, <1>5 DEF RifeSound
  <2>2. decoded = 0
    BY <2>1, <1>2 DEF Latest
  <2> QED BY <2>1, <2>2, <1>4, <1>5
<1>6. CASE ~Interpolates
  <2>1. decoded = Sent
    BY <1>1, <1>2, <1>6 DEF RingSound
  <2>2. decoded # 0 => Shown(decoded) = decoded - 1
    <3>1. factor = 1
      BY <1>1, <1>6, Sequences DEF Interpolates
    <3> QED BY <3>1, <1>1, <1>2, ShownNext
  <2> QED BY <2>1, <2>2, <1>2, <1>4, <1>6
<1> QED BY <1>3, <1>5, <1>6

LEMMA ProgramKept ==
    ASSUME IInv, [Next]_vars
    PROVE  ProgramSound'
<1>1. TypeOK /\ ProgramSound /\ RifeSound
  BY DEF IInv
<1>2. ASSUME pc' \in {"read", "cleanup", "destroy", "gone"},
             UNCHANGED <<factor, passthrough>>
      PROVE  ProgramSound'
  BY <1>1, <1>2 DEF ProgramSound, Interpolates
<1>3. ASSUME UNCHANGED <<dec, decoded, pc, opened, enc, video, success,
                         factor, passthrough>>
      PROVE  ProgramSound'
  <2>1. Sent' = Sent /\ Shown(decoded)' = Shown(decoded)
    BY <1>3 DEF Sent, Shown
  <2> QED BY <2>1, <1>1, <1>3 DEF ProgramSound, Interpolates
<1>4. ASSUME GpuRuns \/ UNCHANGED vars PROVE ProgramSound'
  BY <1>3, <1>4 DEF GpuRuns, vars, inputVars, outVars, modeVars
<1>5. ASSUME Decode \/ Copy \/ RifeShift \/ Trailer \/ Cleanup \/ Destroy
      PROVE  ProgramSound'
  BY <1>2, <1>5 DEF Decode, Copy, RifeShift, Trailer, Cleanup, Destroy,
     modeVars
<1>6. ASSUME GivesUp \/ Fails \/ PushPassthrough \/ PushUpscale
      PROVE  ProgramSound'
  BY <1>2, <1>6 DEF GivesUp, Fails, Ends, PushPassthrough, PushUpscale, Push,
     modeVars
<1>7. ASSUME EndOfInput PROVE ProgramSound'
  BY <1>1, <1>7 DEF EndOfInput, ProgramSound, Interpolates, modeVars,
     inputVars
<1>8. ASSUME Reclaim PROVE ProgramSound'
  <2>1. /\ pc' = pc /\ UNCHANGED <<factor, passthrough, dec, decoded>>
        /\ pc \in {"read", "flush"}
    BY <1>8 DEF Reclaim, Reclaims, modeVars, inputVars
  <2> QED BY <2>1, <1>1 DEF ProgramSound, Interpolates
<1>9. ASSUME RifeUpscale \/ RifeBase \/ RifePhase PROVE ProgramSound'
  <2>1. UNCHANGED <<factor, passthrough>>
    BY <1>9 DEF RifeUpscale, RifeBase, RifePhase, Interpolated, modeVars
  <2>2. pc' \in {"sync", "phases"} /\ Interpolates
    <3>1. ASSUME RifeUpscale PROVE pc' \in {"sync"} /\ Interpolates
      BY <3>1 DEF RifeUpscale
    <3>2. ASSUME RifeBase PROVE pc' \in {"phases"} /\ Interpolates
      BY <3>2, BaseShows DEF RifeBase
    <3>3. ASSUME RifePhase PROVE pc' \in {"phases"} /\ Interpolates
      BY <3>3, PhaseShows DEF RifePhase, Interpolated
    <3> QED BY <3>1, <3>2, <3>3, <1>9
  <2> QED BY <2>1, <2>2, <1>1 DEF ProgramSound, Interpolates
<1>10. ASSUME RifeWait PROVE ProgramSound'
  <2>1. /\ UNCHANGED <<factor, passthrough>> /\ pc = "sync"
        /\ pc' \in {"read", "base"}
    BY <1>10 DEF RifeWait, modeVars
  <2> QED BY <2>1, <1>1 DEF ProgramSound, Interpolates
<1>11. ASSUME Flushed PROVE ProgramSound'
  <2>1. /\ pc = "flush" /\ pc' = "trailer"
        /\ UNCHANGED <<factor, passthrough, dec, decoded>>
    BY <1>11 DEF Flushed, Flushes, modeVars, inputVars
  <2>2. Shown(decoded)' = Shown(decoded)
    BY <2>1 DEF Shown
  <2>3. Sent' = IF decoded = 0 THEN 0 ELSE Shown(decoded) + 1
    BY <1>11, FlushSends
  <2> QED BY <2>1, <2>2, <2>3, <1>1 DEF ProgramSound, Interpolates
<1>12. Gone => UNCHANGED vars
  BY DEF Gone
<1> QED BY <1>4, <1>5, <1>6, <1>7, <1>8, <1>9, <1>10, <1>11, <1>12
        DEF Next, Run

(* The trailer takes all the encoder holds. *)
LEMMA LostKept ==
    ASSUME IInv, [Next]_vars
    PROVE  NothingLost'
<1>1. TypeOK /\ ProgramSound /\ AuxSound /\ NothingLost
  BY DEF IInv
<1>2. ASSUME UNCHANGED <<success, video, decoded, factor, held, aux, packets>>
      PROVE  NothingLost'
  BY <1>1, <1>2 DEF NothingLost
<1>3. ASSUME success' = success, Running PROVE NothingLost'
  BY <1>1, <1>3 DEF NothingLost, AuxSound
<1>4. ASSUME Sends \/ FlushesNothing \/ Copy PROVE NothingLost'
  <2>1. ASSUME Sends PROVE success' = success /\ Running
    BY <2>1, SendsOne
  <2>2. ASSUME FlushesNothing \/ Copy PROVE success' = success /\ Running
    BY <2>2 DEF FlushesNothing, Flushed, Flushes, Copy, outVars, Running
  <2> QED BY <2>1, <2>2, <1>3, <1>4
<1>5. ASSUME Silent PROVE NothingLost'
  <2>1. UNCHANGED <<success, video, factor, held, aux, packets>>
    BY <1>5, SilentSteps
  <2>2. ASSUME Decode PROVE NothingLost'
    BY <2>1, <2>2, <1>3 DEF Decode, Running
  <2>3. ASSUME ~Decode PROVE decoded' = decoded
    <3>1. ASSUME GpuRuns \/ EndOfInput \/ Cleanup \/ UNCHANGED vars
          PROVE  decoded' = decoded
      BY <3>1 DEF GpuRuns, EndOfInput, Cleanup, vars, inputVars
    <3>2. ASSUME PushPassthrough \/ PushUpscale PROVE decoded' = decoded
      BY <3>2 DEF PushPassthrough, PushUpscale, Push
    <3>3. ASSUME RifeUpscale \/ RifeWait \/ RifeShift
          PROVE  decoded' = decoded
      BY <3>3 DEF RifeUpscale, RifeWait, RifeShift, inputVars
    <3>4. ASSUME GivesUp \/ Fails PROVE decoded' = decoded
      BY <3>4 DEF GivesUp, Fails, Ends, inputVars
    <3> QED BY <3>1, <3>2, <3>3, <3>4, <1>5, <2>3 DEF Silent
  <2>4. ASSUME ~Decode PROVE NothingLost'
    BY <2>1, <2>3, <2>4, <1>2
  <2> QED BY <2>2, <2>4
<1>6. ASSUME Trailer PROVE NothingLost'
  <2>1. /\ pc = "trailer" /\ opened
        /\ video' = video \o [i \in DOMAIN enc |-> content[enc[i]]]
        /\ UNCHANGED <<factor, decoded, held, packets, aux>>
    BY <1>6 DEF Trailer, modeVars, inputVars, auxVars
  <2>2. /\ Sent # 0 /\ held = << >> /\ Len(aux) = packets
        /\ \A i \in DOMAIN aux : aux[i].id = i
    BY <2>1, <1>1 DEF AuxSound, Running
  <2>3. Sent = Shown(decoded) + 1
    BY <2>1, <2>2, <1>1 DEF ProgramSound
  <2>4. /\ video \in Seq(Int) /\ DOMAIN enc = 1..Len(enc)
        /\ Len(enc) \in Nat
        /\ \A i \in 1..Len(enc) : content[enc[i]] \in Int
    BY <1>1, Sequences, RingTyped
  <2> DEFINE out == [i \in 1..Len(enc) |-> content[enc[i]]]
  <2>5. out \in Seq(Int) /\ Len(out) = Len(enc)
    <3>1. out \in Seq(Int)
      BY <2>4, IsASeq
    <3> QED BY <3>1, <2>4, LenProperties
  <2>6. Len(video') = Len(video) + Len(enc)
    BY <2>1, <2>4, <2>5, ConcatProperties
  <2>7. Len(video') = ((decoded - 1) * factor) + 1
    BY <2>3, <2>6 DEF Sent, Shown
  <2>8. DOMAIN aux = 1..packets
    <3>1. aux \in Seq(Handed(packets))
      BY <1>1 DEF TypeOK, Handed
    <3> QED BY <3>1, <2>2, LenProperties
  <2>9. [i \in DOMAIN aux |-> aux[i].id] = [i \in 1..packets |-> i]
    BY <2>2, <2>8
  <2> QED BY <2>1, <2>2, <2>7, <2>9 DEF NothingLost
<1>7. ASSUME Destroy PROVE NothingLost'
  BY <1>7, <1>2 DEF Destroy, inputVars, modeVars, auxVars
<1> QED BY <1>4, <1>5, <1>6, <1>7, AllSteps

-----------------------------------------------------------------------------
(* The ring. *)

SlotSound(k) ==
    LET s == ring[Place(k)] IN
    /\ s.out # NoBuffer
    /\ IF s.ticket = 0 THEN content[s.out] = Sent + k
       ELSE JobSound(s, Sent + k)

Counted == decoded = Sent + count + IF dec = NoBuffer THEN 0 ELSE 1
InHand == dec # NoBuffer => content[dec] = decoded - 1
JobsHaveSlots == \A t \in (1..submitted) \ finished :
                    \E k \in InRing : ring[Place(k)].ticket = t

LEMMA RingParts ==
    /\ RingSound <=> (Running /\ ~Interpolates =>
                        /\ Counted /\ InHand /\ JobsHaveSlots
                        /\ \A k \in InRing : SlotSound(k))
    /\ RingSound' <=> (Running' /\ ~Interpolates' =>
                         /\ Counted' /\ InHand' /\ JobsHaveSlots'
                         /\ \A k \in InRing' : SlotSound(k)')
<1>1. RingSound <=> (Running /\ ~Interpolates =>
                       /\ Counted /\ InHand /\ JobsHaveSlots
                       /\ \A k \in InRing : SlotSound(k))
  BY DEF RingSound, Counted, InHand, JobsHaveSlots, SlotSound
<1>2. RingSound' <=> (Running' /\ ~Interpolates' =>
                        /\ Counted' /\ InHand' /\ JobsHaveSlots'
                        /\ \A k \in InRing' : SlotSound(k)')
  BY DEF RingSound, Counted, InHand, JobsHaveSlots, SlotSound
<1> QED BY <1>1, <1>2

(* What there is to show of a slot after a step. *)
LEMMA SlotAfter ==
    ASSUME NEW k, NEW s, NEW p, ring'[Place(k)'] = s, Sent' + k = p,
           s.out # NoBuffer, s.ticket = 0 => content'[s.out] = p,
           s.ticket # 0 =>
             /\ jobs'[s.ticket] = [from |-> s.in, to |-> s.out]
             /\ content'[s.in] = p
             /\ s.ticket \in finished' => content'[s.out] = p
             /\ s.out \notin ToSet(enc')
             /\ \A l \in InRing' : ring'[Place(l)'].out = s.out
                                     => ring'[Place(l)'] = s
    PROVE  SlotSound(k)'
BY DEF SlotSound, JobSound

(* What a slot of the ring is. *)
LEMMA SlotBefore ==
    ASSUME TypeOK, NEW k \in InRing, SlotSound(k)
    PROVE  LET s == ring[Place(k)] IN
           /\ Place(k) \in 0..(MaxRing - 1) /\ k \in Nat
           /\ s.out \in Frames /\ s.ticket \in 0..submitted
           /\ s.ticket = 0 => content[s.out] = Sent + k
           /\ s.ticket # 0 =>
                /\ s.ticket \in 1..submitted
                /\ s.in \in Surfaces /\ s.out \in Pool
                /\ jobs[s.ticket] = [from |-> s.in, to |-> s.out]
                /\ jobs[s.ticket].to = s.out
                /\ content[s.in] = Sent + k
                /\ s.ticket \in finished => content[s.out] = Sent + k
                /\ s.out \notin ToSet(enc)
                /\ \A l \in InRing : ring[Place(l)].out = s.out
                                       => ring[Place(l)] = s
<1> DEFINE s == ring[Place(k)]
<1>1. Place(k) \in 0..(MaxRing - 1) /\ k \in Nat
  BY RingPlaces DEF InRing
<1>2. s.out \in Buffers /\ s.ticket \in 0..submitted /\ submitted \in Nat
  BY <1>1, RingTyped
<1>3. s.out \in Frames
  BY <1>2, BuffersApart DEF SlotSound
<1>4. ASSUME s.ticket # 0
      PROVE  /\ s.ticket \in 1..submitted
             /\ jobs[s.ticket] = [from |-> s.in, to |-> s.out]
             /\ s.in \in Surfaces /\ s.out \in Pool
             /\ jobs[s.ticket].to = s.out
             /\ JobSound(s, Sent + k)
  <2>1. JobSound(s, Sent + k) /\ s.ticket \in 1..submitted
    BY <1>2, <1>4 DEF SlotSound
  <2>2. jobs[s.ticket] = [from |-> s.in, to |-> s.out]
    BY <2>1 DEF JobSound
  <2>3. jobs \in Seq([from : Surfaces, to : Pool]) /\ Len(jobs) = submitted
    BY DEF TypeOK
  <2>4. jobs[s.ticket] \in [from : Surfaces, to : Pool]
    BY <2>1, <2>3, ElementOfSeq
  <2>5. jobs[s.ticket].from = s.in /\ jobs[s.ticket].to = s.out
    BY <2>2
  <2>6. s.in \in Surfaces /\ s.out \in Pool
    BY <2>4, <2>5
  <2> QED BY <2>1, <2>2, <2>5, <2>6
<1>5. s.ticket = 0 => content[s.out] = Sent + k
  BY DEF SlotSound
<1> QED BY <1>1, <1>2, <1>3, <1>4, <1>5 DEF JobSound

(* No two slots of the ring write the same buffer. *)
LEMMA OutsApart ==
    ASSUME TypeOK, NEW k \in InRing, NEW l \in InRing, k # l,
           SlotSound(k), SlotSound(l), ring[Place(k)].ticket # 0
    PROVE  ring[Place(k)].out # ring[Place(l)].out
<1> SUFFICES ASSUME ring[Place(k)].out = ring[Place(l)].out PROVE FALSE
  OBVIOUS
<1>1. ring[Place(l)] = ring[Place(k)]
      /\ content[ring[Place(k)].in] = Sent + k
  BY SlotBefore
<1>2. content[ring[Place(l)].in] = Sent + l
  BY <1>1, SlotBefore
<1>3. k \in Nat /\ l \in Nat /\ Sent \in Nat
  BY SlotBefore, Sequences
<1> QED BY <1>1, <1>2, <1>3

(* The ring with all the encoder does in it, while RIFE is not at work.    *)
RingWhole == /\ TypeOK /\ Counted /\ InHand /\ JobsHaveSlots
             /\ \A k \in InRing : SlotSound(k)
RingAfter == /\ Counted /\ InHand /\ JobsHaveSlots
             /\ \A k \in InRing : SlotSound(k)

(* The GPU fills the slot whose job it runs. *)
LEMMA RingGpu ==
    ASSUME RingWhole, GpuRuns
    PROVE  RingAfter'
<1>1. /\ TypeOK /\ Counted /\ InHand /\ JobsHaveSlots
      /\ \A k \in InRing : SlotSound(k)
  BY DEF RingWhole
<1>2. PICK t \in 1..submitted :
             /\ t \notin finished /\ finished' = finished \cup {t}
             /\ jobs[t].to \in Pool /\ jobs[t].from \in Surfaces
             /\ content' \in [Frames -> Int]
             /\ content'[jobs[t].to] = content[jobs[t].from]
             /\ \A b \in Frames :
                  b # jobs[t].to => content'[b] = content[b]
             /\ UNCHANGED <<submitted, jobs>>
  BY <1>1, GpuSteps
<1>3. UNCHANGED <<ring, head, count, enc, video, dec, decoded, pc>>
  BY DEF GpuRuns, ringVars, outVars, inputVars
<1>4. /\ InRing' = InRing /\ Sent' = Sent
      /\ \A k \in InRing : Place(k)' = Place(k)
  BY <1>3 DEF InRing, Sent, Place, Oldest
<1>5. PICK m \in InRing : ring[Place(m)].ticket = t
  BY <1>1, <1>2 DEF JobsHaveSlots
<1> DEFINE s0 == ring[Place(m)]
<1>6. /\ s0.ticket # 0 /\ s0.ticket = t /\ jobs[t].to = s0.out
      /\ jobs[t].from = s0.in
      /\ content[s0.in] = Sent + m
      /\ \A l \in InRing : ring[Place(l)].out = s0.out => ring[Place(l)] = s0
  <2>1. submitted \in Nat /\ t # 0
    BY <1>1, RingTyped
  <2>2. jobs[t] = [from |-> s0.in, to |-> s0.out]
    BY <2>1, <1>1, <1>5, SlotBefore
  <2>3. jobs[t].to = s0.out /\ jobs[t].from = s0.in
    BY <2>2
  <2> QED BY <2>1, <2>3, <1>1, <1>5, SlotBefore
<1>7. ASSUME NEW k \in InRing PROVE SlotSound(k)'
  <2> DEFINE s == ring[Place(k)]
  <2>1. /\ s.out \in Frames /\ s.ticket \in 0..submitted
        /\ s.ticket = 0 => content[s.out] = Sent + k
        /\ s.ticket # 0 =>
             /\ s.in \in Surfaces /\ s.out \in Pool
             /\ jobs[s.ticket] = [from |-> s.in, to |-> s.out]
             /\ content[s.in] = Sent + k
             /\ s.ticket \in finished => content[s.out] = Sent + k
             /\ s.out \notin ToSet(enc)
             /\ \A l \in InRing : ring[Place(l)].out = s.out
                                    => ring[Place(l)] = s
    BY <1>1, <1>7, SlotBefore
  <2>2. s.out # NoBuffer
    BY <2>1, BuffersApart
  <2>3. ring'[Place(k)'] = s /\ Sent' + k = Sent + k
    BY <1>3, <1>4, <1>7
  <2>4. s.out = s0.out => s = s0
    BY <1>6, <1>7
  <2> HIDE DEF s, s0
  <2>5. s.ticket = 0 => content'[s.out] = Sent + k
    <3> SUFFICES ASSUME s.ticket = 0 PROVE content'[s.out] = Sent + k
      OBVIOUS
    <3>1. s.out # jobs[t].to
      BY <2>4, <1>6
    <3> QED BY <3>1, <2>1, <1>2
  <2>6. s.ticket # 0 =>
          /\ jobs'[s.ticket] = [from |-> s.in, to |-> s.out]
          /\ content'[s.in] = Sent + k
          /\ s.ticket \in finished' => content'[s.out] = Sent + k
          /\ s.out \notin ToSet(enc')
          /\ \A l \in InRing' : ring'[Place(l)'].out = s.out
                                  => ring'[Place(l)'] = s
    <3> SUFFICES ASSUME s.ticket # 0
                 PROVE  /\ jobs'[s.ticket] = [from |-> s.in, to |-> s.out]
                        /\ content'[s.in] = Sent + k
                        /\ s.ticket \in finished'
                             => content'[s.out] = Sent + k
                        /\ s.out \notin ToSet(enc')
                        /\ \A l \in InRing' : ring'[Place(l)'].out = s.out
                                                => ring'[Place(l)'] = s
      OBVIOUS
    <3>1. jobs'[s.ticket] = [from |-> s.in, to |-> s.out]
          /\ s.out \notin ToSet(enc')
      BY <2>1, <1>2, <1>3
    <3>2. content'[s.in] = Sent + k
      BY <2>1, <1>2, BuffersApart DEF Frames
    <3>3. ASSUME s.ticket \in finished' PROVE content'[s.out] = Sent + k
      <4>1. CASE s.ticket = t
        <5>1. s.out = jobs[t].to /\ s.in = jobs[t].from
          BY <4>1, <2>1
        <5> QED BY <5>1, <2>1, <1>2
      <4>2. CASE s.ticket # t
        <5>1. s.out # jobs[t].to /\ s.ticket \in finished
          BY <4>2, <3>3, <2>4, <1>2, <1>6
        <5> QED BY <5>1, <2>1, <1>2
      <4> QED BY <4>1, <4>2
    <3>4. \A l \in InRing' : ring'[Place(l)'].out = s.out
                                  => ring'[Place(l)'] = s
      BY <2>1, <1>3, <1>4
    <3> QED BY <3>1, <3>2, <3>3, <3>4
  <2> QED BY <2>2, <2>3, <2>5, <2>6, SlotAfter
<1>8. Counted'
  BY <1>1, <1>3, <1>4 DEF Counted
<1>9. InHand'
  <2> SUFFICES ASSUME dec # NoBuffer PROVE content'[dec] = decoded - 1
    BY <1>3 DEF InHand
  <2>1. dec \in Surfaces /\ content[dec] = decoded - 1
    BY <1>1 DEF InHand, TypeOK
  <2> QED BY <2>1, <1>2, BuffersApart DEF Frames
<1>10. JobsHaveSlots'
  <2> SUFFICES ASSUME NEW u \in (1..submitted) \ finished'
               PROVE  \E k \in InRing' : ring'[Place(k)'].ticket = u
    BY <1>2 DEF JobsHaveSlots
  <2>1. u \in (1..submitted) \ finished
    BY <1>2
  <2>2. PICK k \in InRing : ring[Place(k)].ticket = u
    BY <2>1, <1>1 DEF JobsHaveSlots
  <2> QED BY <2>2, <1>3, <1>4
<1> QED BY <1>4, <1>7, <1>8, <1>9, <1>10 DEF RingAfter

(* The decoder writes a surface that is in no slot. *)
LEMMA RingDecode ==
    ASSUME RingWhole, Decode, ~Interpolates
    PROVE  RingAfter'
<1>1. /\ TypeOK /\ Counted /\ InHand /\ JobsHaveSlots
      /\ \A k \in InRing : SlotSound(k)
  BY DEF RingWhole
<1>2. PICK b \in FreeIn(Surfaces) :
        dec' = b /\ content' = [content EXCEPT ![b] = decoded * factor]
  BY DEF Decode
<1>3. /\ UNCHANGED <<ring, head, count, enc, video, jobs, submitted, finished>>
      /\ dec = NoBuffer /\ decoded' = decoded + 1
  BY DEF Decode, ringVars, outVars, tickets
<1>4. /\ InRing' = InRing /\ Sent' = Sent
      /\ \A k \in InRing : Place(k)' = Place(k)
  BY <1>3 DEF InRing, Sent, Place, Oldest
<1>5. /\ b \in Surfaces
      /\ \A i \in 0..(MaxRing - 1) : b # ring[i].in /\ b # ring[i].out
  BY <1>1, <1>2, FreeIsFree, RingTyped
<1>6. decoded * factor = decoded /\ decoded \in Nat
  <2>1. factor = 1 /\ decoded \in Nat
    <3>1. factor \in Nat \ {0}
      BY <1>1, Sequences
    <3> QED BY <3>1, <1>1 DEF Interpolates, TypeOK
  <2> QED BY <2>1
<1>7. /\ content'[b] = decoded
      /\ \A c \in Frames : c # b => content'[c] = content[c]
  <2>1. content \in [Frames -> Int] /\ b \in Frames
    BY <1>1, <1>5, RingTyped DEF Frames
  <2> QED BY <2>1, <1>2, <1>6
<1>8. ASSUME NEW k \in InRing PROVE SlotSound(k)'
  <2> DEFINE s == ring[Place(k)]
  <2>1. /\ s.out \in Frames /\ s.ticket \in 0..submitted
        /\ s.ticket = 0 => content[s.out] = Sent + k
        /\ s.ticket # 0 =>
             /\ s.in \in Surfaces /\ s.out \in Pool
             /\ jobs[s.ticket] = [from |-> s.in, to |-> s.out]
             /\ content[s.in] = Sent + k
             /\ s.ticket \in finished => content[s.out] = Sent + k
             /\ s.out \notin ToSet(enc)
             /\ \A l \in InRing : ring[Place(l)].out = s.out
                                    => ring[Place(l)] = s
    BY <1>1, <1>8, SlotBefore
  <2>2. s.out # NoBuffer /\ b # s.in /\ b # s.out
    <3>1. Place(k) \in 0..(MaxRing - 1)
      BY <1>1, <1>8, RingPlaces
    <3> QED BY <3>1, <2>1, <1>5, BuffersApart
  <2>3. ring'[Place(k)'] = s /\ Sent' + k = Sent + k
    BY <1>3, <1>4, <1>8
  <2> HIDE DEF s
  <2>4. content'[s.out] = content[s.out]
        /\ (s.ticket # 0 => content'[s.in] = content[s.in])
    BY <2>1, <2>2, <1>7 DEF Frames
  <2>5. s.ticket # 0 =>
          /\ jobs'[s.ticket] = [from |-> s.in, to |-> s.out]
          /\ content'[s.in] = Sent + k
          /\ s.ticket \in finished' => content'[s.out] = Sent + k
          /\ s.out \notin ToSet(enc')
          /\ \A l \in InRing' : ring'[Place(l)'].out = s.out
                                  => ring'[Place(l)'] = s
    BY <2>1, <2>4, <1>3, <1>4
  <2> QED BY <2>1, <2>2, <2>3, <2>4, <2>5, SlotAfter
<1>9. Counted' /\ InHand'
  <2>1. dec' # NoBuffer
    BY <1>2, <1>5, BuffersApart DEF Frames
  <2>2. Sent \in Nat /\ count \in Nat
    BY <1>1, Sequences, RingPlaces
  <2> QED BY <2>1, <2>2, <1>1, <1>2, <1>3, <1>4, <1>6, <1>7
          DEF Counted, InHand
<1>10. JobsHaveSlots'
  BY <1>1, <1>3, <1>4 DEF JobsHaveSlots
<1> QED BY <1>4, <1>8, <1>9, <1>10 DEF RingAfter

(* The oldest slot is emptied: the others move up by one, with what they   *)
(* are to show.                                                            *)
LEMMA RingReclaim ==
    ASSUME IInv, RingWhole, Reclaim
    PROVE  RingAfter'
<1>1. /\ TypeOK /\ Counted /\ InHand /\ JobsHaveSlots
      /\ \A k \in InRing : SlotSound(k)
  BY DEF RingWhole
<1>2. /\ ring' = [ring EXCEPT ![Oldest] = Empty] /\ count' = count - 1
      /\ UNCHANGED <<jobs, content, head, dec, decoded, factor>>
      /\ IF ring[Oldest].ticket = 0 THEN UNCHANGED tickets
         ELSE Waited(ring[Oldest].ticket)
  BY DEF Reclaim, Reclaims, inputVars, modeVars
<1>3. /\ ring[Oldest].out \in Frames /\ content[ring[Oldest].out] = Sent
      /\ Emits(ring[Oldest].out, content) /\ count > 0
  BY ReclaimShows
<1>4. /\ count \in Nat /\ count \in 0..(MaxRing - 1) /\ MaxRing \in Nat
      /\ head \in 0..(MaxRing - 1) /\ Place(0) = Oldest /\ 0 \in InRing
      /\ Oldest \in 0..(MaxRing - 1) /\ Sent \in Nat
  BY <1>1, <1>3, RingPlaces, Sequences
<1>5. /\ Sent' = Sent + 1
      /\ ToSet(enc') \subseteq ToSet(enc) \cup {ring[Oldest].out}
  <2>1. InPlace(Sent + 1, content[ring[Oldest].out])
    BY <1>3, <1>4 DEF InPlace
  <2>2. \A i \in DOMAIN enc : InPlace(Len(video) + i, content[enc[i]])
    <3>1. Running /\ EncoderSound
      BY ReclaimShows DEF IInv
    <3> QED BY <3>1 DEF EncoderSound
  <2>3. content \in [Frames -> Int] /\ PicturesInOrder
    BY <1>1, RingTyped DEF IInv
  <2> QED BY <2>1, <2>2, <2>3, <1>1, <1>2, <1>3, EmitsSteps
<1>6. /\ submitted' = submitted /\ finished' = finished
      /\ ring[Oldest].ticket \in finished \cup {0}
  <2>1. CASE ring[Oldest].ticket = 0
    BY <2>1, <1>2 DEF tickets
  <2>2. CASE ring[Oldest].ticket # 0
    <3>1. ring[Oldest].ticket \in 1..submitted
      BY <2>2, <1>1, <1>4, RingTyped
    <3>2. Waited(ring[Oldest].ticket)
      BY <2>2, <1>2
    <3>3. /\ submitted' = submitted /\ finished' = finished
          /\ 1..ring[Oldest].ticket \subseteq finished
      BY <3>1, <3>2, <1>1, ReportTyped
    <3> QED BY <3>1, <3>3
  <2> QED BY <2>1, <2>2
<1>7. \A k \in InRing' : k \in Nat /\ k + 1 \in InRing /\ k + 1 # 0
  BY <1>2, <1>4 DEF InRing
<1>8. ASSUME NEW k \in InRing'
      PROVE  Place(k)' = Place(k + 1) /\ Place(k + 1) # Oldest
  <2>1. k \in 0..(MaxRing - 2) /\ k + 1 \in 0..(MaxRing - 1)
        /\ 0 \in 0..(MaxRing - 1)
    BY <1>2, <1>4, <1>8 DEF InRing
  <2>2. At(head, count - 1, k) = At(head, count, k + 1)
    BY <2>1, <1>3, <1>4, Places
  <2>3. Place(k)' = At(head, count - 1, k)
    BY <1>2 DEF Place, Oldest, At
  <2>4. Place(k + 1) = At(head, count, k + 1)
    BY <1>1, RingPlaces
  <2>5. Place(k + 1) # Place(0)
    <3>1. k + 1 # 0
      BY <2>1
    <3> QED BY <3>1, <2>1, <1>1, RingPlaces
  <2> QED BY <2>2, <2>3, <2>4, <2>5, <1>4
<1>9. ASSUME NEW k \in InRing'
      PROVE  ring'[Place(k)'] = ring[Place(k + 1)]
  <2>1. Place(k + 1) \in 0..(MaxRing - 1)
    <3>1. k + 1 \in 0..(MaxRing - 1)
      BY <1>2, <1>4, <1>9 DEF InRing
    <3> QED BY <3>1, <1>1, RingPlaces
  <2>2. DOMAIN ring = 0..(MaxRing - 1)
    BY <1>1, RingTyped
  <2> QED BY <2>1, <2>2, <1>2, <1>8, <1>9
<1>10. ASSUME NEW k \in InRing' PROVE SlotSound(k)'
  <2> DEFINE s == ring[Place(k + 1)]
  <2>1. k + 1 \in InRing /\ SlotSound(k + 1) /\ SlotSound(0) /\ k + 1 # 0
        /\ k \in Nat
    BY <1>1, <1>4, <1>7, <1>10
  <2>2. /\ s.out \in Frames
        /\ s.ticket = 0 => content[s.out] = Sent + (k + 1)
        /\ s.ticket # 0 =>
             /\ jobs[s.ticket] = [from |-> s.in, to |-> s.out]
             /\ content[s.in] = Sent + (k + 1)
             /\ s.ticket \in finished => content[s.out] = Sent + (k + 1)
             /\ s.out \notin ToSet(enc)
             /\ \A l \in InRing : ring[Place(l)].out = s.out
                                    => ring[Place(l)] = s
    BY <2>1, <1>1, SlotBefore
  <2>3. s.ticket # 0 => s.out # ring[Oldest].out
    BY <2>1, <1>1, <1>4, OutsApart
  <2>4. ring'[Place(k)'] = s /\ Sent' + k = Sent + (k + 1)
    BY <2>1, <1>4, <1>5, <1>9, <1>10
  <2>5. \A l \in InRing' : l + 1 \in InRing
                           /\ ring'[Place(l)'] = ring[Place(l + 1)]
    BY <1>7, <1>9
  <2>6. s.out # NoBuffer
    BY <2>2, BuffersApart
  <2> HIDE DEF s
  <2>7. s.ticket # 0 =>
          /\ jobs'[s.ticket] = [from |-> s.in, to |-> s.out]
          /\ content'[s.in] = Sent + (k + 1)
          /\ s.ticket \in finished' => content'[s.out] = Sent + (k + 1)
          /\ s.out \notin ToSet(enc')
          /\ \A l \in InRing' : ring'[Place(l)'].out = s.out
                                  => ring'[Place(l)'] = s
    BY <2>2, <2>3, <2>5, <1>2, <1>5, <1>6
  <2> QED BY <2>2, <2>4, <2>6, <2>7, <1>2, SlotAfter
<1>11. Counted' /\ InHand'
  <2>1. decoded \in Nat
    BY <1>1 DEF TypeOK
  <2> QED BY <2>1, <1>1, <1>2, <1>4, <1>5 DEF Counted, InHand
<1>12. JobsHaveSlots'
  <2> SUFFICES ASSUME NEW u \in (1..submitted) \ finished
               PROVE  \E k \in InRing' : ring'[Place(k)'].ticket = u
    BY <1>6 DEF JobsHaveSlots
  <2>1. PICK k \in InRing : ring[Place(k)].ticket = u
    BY <1>1 DEF JobsHaveSlots
  <2>2. k # 0
    <3>1. submitted \in Nat /\ u # 0 /\ u \notin finished
      BY <1>1, RingTyped
    <3> QED BY <3>1, <2>1, <1>4, <1>6
  <2>3. k - 1 \in InRing' /\ (k - 1) + 1 = k
    BY <2>2, <1>2, <1>4 DEF InRing
  <2>4. ring'[Place(k - 1)'] = ring[Place((k - 1) + 1)]
    BY <2>3, <1>9
  <2> QED BY <2>1, <2>3, <2>4
<1> QED BY <1>10, <1>11, <1>12 DEF RingAfter

(* A slot is filled at the head: the others stay, and it comes last.       *)
LEMMA RingPush ==
    ASSUME RingWhole, NEW s, Push(s), s.out # NoBuffer,
           finished' = finished,
           \A u \in 1..submitted : jobs'[u] = jobs[u],
           (1..submitted') \ finished
             \subseteq ((1..submitted) \ finished) \cup {s.ticket},
           \A l \in InRing :
             ring[Place(l)].ticket # 0 => ring[Place(l)].out # s.out,
           s.ticket = 0 => content[s.out] = decoded - 1,
           s.ticket # 0 => /\ jobs'[s.ticket] = [from |-> s.in, to |-> s.out]
                           /\ content[s.in] = decoded - 1
                           /\ s.ticket \notin finished
                           /\ s.out \notin ToSet(enc)
                           /\ \A l \in InRing : ring[Place(l)].out # s.out
    PROVE  RingAfter'
<1>1. /\ TypeOK /\ Counted /\ InHand /\ JobsHaveSlots
      /\ \A k \in InRing : SlotSound(k)
  BY DEF RingWhole
<1>2. /\ ring' = [ring EXCEPT ![head] = s] /\ count' = count + 1
      /\ head' = (head + 1) % MaxRing /\ dec # NoBuffer /\ count < depth
      /\ dec' = NoBuffer
      /\ UNCHANGED <<content, decoded, enc, video>>
  BY DEF Push, outVars
<1>3. /\ count \in Nat /\ count \in 0..(MaxRing - 1) /\ MaxRing \in Nat
      /\ head \in 0..(MaxRing - 1) /\ Place(count) = head
      /\ count < MaxRing - 1 /\ Sent \in Nat /\ decoded \in Nat
  <2>1. depth \in 1..(MaxRing - 1) /\ decoded \in Nat
    BY <1>1 DEF TypeOK
  <2>2. /\ count \in Nat /\ count \in 0..(MaxRing - 1) /\ MaxRing \in Nat
        /\ head \in 0..(MaxRing - 1) /\ Place(count) = head /\ Sent \in Nat
    BY <1>1, RingPlaces, Sequences
  <2> QED BY <2>1, <2>2, <1>2
<1>4. Sent' = Sent /\ decoded - 1 = Sent + count
  BY <1>1, <1>2, <1>3 DEF Sent, Counted
<1> PICK n : n = count
  OBVIOUS
<1>5. /\ n \in InRing' /\ InRing \subseteq InRing'
      /\ \A k \in InRing' : k \in InRing \/ k = n
      /\ \A k \in InRing : k # n
      /\ \A k \in InRing' : k \in 0..(MaxRing - 1)
  BY <1>2, <1>3 DEF InRing
<1>6. ASSUME NEW k \in InRing' PROVE Place(k)' = Place(k)
  <2>1. k \in 0..(MaxRing - 1)
    BY <1>5, <1>6
  <2>2. At((head + 1) % MaxRing, count + 1, k) = At(head, count, k)
    BY <2>1, <1>3, Places
  <2>3. Place(k)' = At((head + 1) % MaxRing, count + 1, k)
    BY <1>2 DEF Place, Oldest, At
  <2>4. Place(k) = At(head, count, k)
    BY <1>1, RingPlaces
  <2> QED BY <2>2, <2>3, <2>4
<1>7. DOMAIN ring = 0..(MaxRing - 1)
  BY <1>1, RingTyped
<1>8. ring'[Place(n)'] = s
  <2>1. Place(n)' = Place(n)
    BY <1>5, <1>6
  <2>2. Place(n) = head
    BY <1>3
  <2> QED BY <2>1, <2>2, <1>2, <1>3, <1>7
<1>9. ASSUME NEW k \in InRing PROVE ring'[Place(k)'] = ring[Place(k)]
  <2>1. k \in 0..(MaxRing - 1) /\ k # n /\ k \in InRing'
    BY <1>5, <1>9
  <2>2. Place(k) # head /\ Place(k) \in 0..(MaxRing - 1)
    BY <2>1, <1>1, <1>3, RingPlaces
  <2>3. Place(k)' = Place(k)
    BY <2>1, <1>6
  <2> QED BY <2>2, <2>3, <1>2, <1>7
<1>10. ASSUME NEW k \in InRing PROVE SlotSound(k)'
  <2> DEFINE r == ring[Place(k)]
  <2>1. /\ r.out \in Frames
        /\ r.ticket = 0 => content[r.out] = Sent + k
        /\ r.ticket # 0 =>
             /\ r.ticket \in 1..submitted
             /\ jobs[r.ticket] = [from |-> r.in, to |-> r.out]
             /\ content[r.in] = Sent + k
             /\ r.ticket \in finished => content[r.out] = Sent + k
             /\ r.out \notin ToSet(enc)
             /\ \A l \in InRing : ring[Place(l)].out = r.out
                                    => ring[Place(l)] = r
    BY <1>1, <1>10, SlotBefore
  <2>2. ring'[Place(k)'] = r /\ Sent' + k = Sent + k
    BY <1>4, <1>9, <1>10
  <2>3. r.ticket # 0 => r.out # s.out
    BY <1>10
  <2>4. \A l \in InRing' : \/ ring'[Place(l)'] = s
                           \/ l \in InRing /\ ring'[Place(l)'] = ring[Place(l)]
    BY <1>5, <1>8, <1>9
  <2>5. r.out # NoBuffer
    BY <2>1, BuffersApart
  <2> HIDE DEF r
  <2>6. r.ticket # 0 =>
          /\ jobs'[r.ticket] = [from |-> r.in, to |-> r.out]
          /\ content'[r.in] = Sent + k
          /\ r.ticket \in finished' => content'[r.out] = Sent + k
          /\ r.out \notin ToSet(enc')
          /\ \A l \in InRing' : ring'[Place(l)'].out = r.out
                                  => ring'[Place(l)'] = r
    BY <2>1, <2>3, <2>4, <1>2
  <2> QED BY <2>1, <2>2, <2>5, <2>6, <1>2, SlotAfter
<1>11. SlotSound(n)'
  <2>1. Sent' + n = decoded - 1
    BY <1>4
  <2>2. \A l \in InRing' : \/ l = n
                           \/ l \in InRing /\ ring'[Place(l)'] = ring[Place(l)]
    BY <1>5, <1>9
  <2>3. s.ticket # 0 =>
          /\ jobs'[s.ticket] = [from |-> s.in, to |-> s.out]
          /\ content'[s.in] = decoded - 1
          /\ s.ticket \in finished' => content'[s.out] = decoded - 1
          /\ s.out \notin ToSet(enc')
          /\ \A l \in InRing' : ring'[Place(l)'].out = s.out
                                  => ring'[Place(l)'] = s
    BY <2>2, <1>2, <1>8
  <2>4. s.ticket = 0 => content'[s.out] = decoded - 1
    BY <1>2
  <2> QED BY <2>1, <2>3, <2>4, <1>8, SlotAfter
<1>12. \A k \in InRing' : SlotSound(k)'
  BY <1>5, <1>10, <1>11
<1>13. Counted' /\ InHand'
  BY <1>2, <1>3, <1>4 DEF Counted, InHand
<1>14. JobsHaveSlots'
  <2> SUFFICES ASSUME NEW u \in (1..submitted') \ finished
               PROVE  \E k \in InRing' : ring'[Place(k)'].ticket = u
    BY DEF JobsHaveSlots
  <2>1. CASE u \in (1..submitted) \ finished
    <3>1. PICK k \in InRing : ring[Place(k)].ticket = u
      BY <2>1, <1>1 DEF JobsHaveSlots
    <3> QED BY <3>1, <1>5, <1>9
  <2>2. CASE u = s.ticket
    BY <2>2, <1>5, <1>8
  <2> QED BY <2>1, <2>2
<1> QED BY <1>12, <1>13, <1>14 DEF RingAfter

LEMMA RingStill ==
    ASSUME RingWhole,
           UNCHANGED <<submitted, finished, jobs, content, ring, head, count,
                       dec, decoded, enc, video>>
    PROVE  RingAfter'
<1>1. /\ InRing' = InRing /\ Sent' = Sent
      /\ \A k \in InRing : Place(k)' = Place(k)
  BY DEF InRing, Sent, Place, Oldest
<1>2. Counted' /\ InHand'
  BY <1>1 DEF RingWhole, Counted, InHand
<1>3. JobsHaveSlots'
  BY <1>1 DEF RingWhole, JobsHaveSlots
<1>4. ASSUME NEW k \in InRing PROVE SlotSound(k)'
  <2>1. TypeOK /\ SlotSound(k)
    BY <1>4 DEF RingWhole
  <2> DEFINE s == ring[Place(k)]
  <2>2. /\ s.out \in Frames
        /\ s.ticket = 0 => content[s.out] = Sent + k
        /\ s.ticket # 0 =>
             /\ jobs[s.ticket] = [from |-> s.in, to |-> s.out]
             /\ content[s.in] = Sent + k
             /\ s.ticket \in finished => content[s.out] = Sent + k
             /\ s.out \notin ToSet(enc)
             /\ \A l \in InRing : ring[Place(l)].out = s.out
                                    => ring[Place(l)] = s
    BY <2>1, <1>4, SlotBefore
  <2>3. ring'[Place(k)'] = s /\ Sent' + k = Sent + k
    BY <1>1, <1>4
  <2>4. s.out # NoBuffer
    BY <2>2, BuffersApart
  <2> HIDE DEF s
  <2>5. s.ticket # 0 =>
          /\ jobs'[s.ticket] = [from |-> s.in, to |-> s.out]
          /\ content'[s.in] = Sent + k
          /\ s.ticket \in finished' => content'[s.out] = Sent + k
          /\ s.out \notin ToSet(enc')
          /\ \A l \in InRing' : ring'[Place(l)'].out = s.out
                                  => ring'[Place(l)'] = s
    BY <2>2, <1>1
  <2> QED BY <2>2, <2>3, <2>4, <2>5, SlotAfter
<1> QED BY <1>1, <1>2, <1>3, <1>4 DEF RingAfter

(* A passthrough slot has no job. *)
LEMMA RingPassthrough ==
    ASSUME RingWhole, PushPassthrough
    PROVE  RingAfter'
<1>1. /\ TypeOK /\ InHand /\ \A k \in InRing : SlotSound(k)
  BY DEF RingWhole
<1> DEFINE s == [Empty EXCEPT !.out = dec]
<1>2. Push(s) /\ UNCHANGED <<submitted, jobs>>
  BY DEF PushPassthrough
<1>3. s.out = dec /\ s.ticket = 0
  BY SlotIs
<1> HIDE DEF s
<1>4. dec # NoBuffer /\ dec \in Surfaces /\ finished' = finished
  BY <1>1, <1>2 DEF Push, TypeOK
<1>5. \A l \in InRing :
        ring[Place(l)].ticket # 0 => ring[Place(l)].out # s.out
  BY <1>1, <1>3, <1>4, SlotBefore, BuffersApart
<1>6. content[s.out] = decoded - 1
  BY <1>1, <1>3, <1>4 DEF InHand
<1> QED BY <1>2, <1>3, <1>4, <1>5, <1>6, RingPush

(* The slot of a job keeps the decoded frame and a frame of the pool that  *)
(* was nobody's.                                                           *)
LEMMA RingUpscale ==
    ASSUME RingWhole, PushUpscale
    PROVE  RingAfter'
<1>1. /\ TypeOK /\ InHand /\ \A k \in InRing : SlotSound(k)
  BY DEF RingWhole
<1>2. PICK b \in FreeIn(Pool) : Submits(dec, b) /\ Push(Slot(b))
  BY DEF PushUpscale
<1>3. /\ Slot(b).in = dec /\ Slot(b).out = b
      /\ Slot(b).ticket = submitted + 1
  BY SlotIs
<1>4. dec # NoBuffer /\ dec \in Surfaces
  BY <1>1, <1>2 DEF Push, TypeOK
<1>5. /\ b \in Pool /\ b \notin ToSet(enc)
      /\ \A i \in 0..(MaxRing - 1) : b # ring[i].out
  BY <1>1, <1>2, FreeIsFree, RingTyped
<1>6. /\ submitted' = submitted + 1 /\ finished' = finished
      /\ \A t \in 1..submitted : jobs'[t] = jobs[t]
      /\ jobs'[submitted'] = [from |-> dec, to |-> b]
      /\ submitted' \notin finished' /\ submitted \in Nat
  BY <1>1, <1>2, <1>4, <1>5, SubmitTyped, RingTyped
<1>7. \A l \in InRing : ring[Place(l)].out # b
  BY <1>1, <1>5, SlotBefore
<1>8. content[dec] = decoded - 1
  BY <1>1, <1>4 DEF InHand
<1>9. (1..submitted') \ finished
        \subseteq ((1..submitted) \ finished) \cup {Slot(b).ticket}
  BY <1>3, <1>6
<1> DEFINE s == Slot(b)
<1>10. /\ s.in = dec /\ s.out = b /\ s.ticket = submitted + 1
       /\ s.ticket # 0 /\ Push(s) /\ s.out # NoBuffer
       /\ (1..submitted') \ finished
            \subseteq ((1..submitted) \ finished) \cup {s.ticket}
  <2>1. b # NoBuffer /\ submitted + 1 # 0
    BY <1>5, <1>6, BuffersApart DEF Frames
  <2> QED BY <2>1, <1>2, <1>3, <1>9
<1> HIDE DEF s
<1>11. /\ jobs'[s.ticket] = [from |-> s.in, to |-> s.out]
       /\ content[s.in] = decoded - 1
       /\ s.ticket \notin finished
       /\ s.out \notin ToSet(enc)
       /\ \A l \in InRing : ring[Place(l)].out # s.out
  BY <1>5, <1>6, <1>7, <1>8, <1>10
<1> QED BY <1>6, <1>10, <1>11, RingPush

LEMMA FactorKept ==
    ASSUME [Next]_vars
    PROVE  UNCHANGED <<factor, depth, passthrough>>
<1>1. ASSUME Silent PROVE UNCHANGED <<factor, depth, passthrough>>
  BY <1>1, SilentSteps
<1>2. ASSUME Sends \/ FlushesNothing
      PROVE  UNCHANGED <<factor, depth, passthrough>>
  <2>1. ASSUME Reclaim \/ RifeBase
        PROVE UNCHANGED <<factor, depth, passthrough>>
    BY <2>1 DEF Reclaim, Reclaims, RifeBase, modeVars
  <2>2. ASSUME RifePhase \/ Flushed
        PROVE UNCHANGED <<factor, depth, passthrough>>
    BY <2>2 DEF RifePhase, Interpolated, Flushed, Flushes, modeVars
  <2> QED BY <2>1, <2>2, <1>2 DEF Sends, FlushesNothing
<1>3. ASSUME Copy \/ Trailer \/ Destroy
      PROVE UNCHANGED <<factor, depth, passthrough>>
  BY <1>3 DEF Copy, Trailer, Destroy, modeVars
<1> QED BY <1>1, <1>2, <1>3, AllSteps

LEMMA RingKept ==
    ASSUME IInv, [Next]_vars
    PROVE  RingSound'
<1> SUFFICES ASSUME Running', ~Interpolates'
             PROVE  RingAfter'
  BY RingParts DEF RingAfter
<1>1. Running /\ ~Interpolates
  BY RunningBefore, FactorKept DEF Interpolates
<1>2. RingWhole
  BY <1>1, RingParts DEF IInv, RingWhole
<1>3. ProgramSound
  BY DEF IInv
<1>4. ASSUME Copy \/ EndOfInput \/ FlushesNothing \/ UNCHANGED vars
      PROVE  RingAfter'
  <2>1. UNCHANGED <<submitted, finished, jobs, content, ring, head, count,
                    dec, decoded, enc, video>>
    <3>1. ASSUME Copy \/ EndOfInput
          PROVE  UNCHANGED <<submitted, finished, jobs, content, ring, head,
                             count, dec, decoded, enc, video>>
      BY <3>1 DEF Copy, EndOfInput, tickets, ringVars, inputVars, outVars
    <3>2. ASSUME FlushesNothing
          PROVE  UNCHANGED <<submitted, finished, jobs, content, ring, head,
                             count, dec, decoded, enc, video>>
      BY <3>2 DEF FlushesNothing, Flushed, Flushes, tickets, ringVars,
         inputVars, outVars
    <3>3. ASSUME UNCHANGED vars
          PROVE  UNCHANGED <<submitted, finished, jobs, content, ring, head,
                             count, dec, decoded, enc, video>>
      BY <3>3 DEF vars, tickets, ringVars, inputVars, outVars
    <3> QED BY <3>1, <3>2, <3>3, <1>4
  <2> QED BY <2>1, <1>2, RingStill
<1>5. ASSUME GpuRuns PROVE RingAfter'
  BY <1>2, <1>5, RingGpu
<1>6. ASSUME Decode PROVE RingAfter'
  BY <1>1, <1>2, <1>6, RingDecode
<1>7. ASSUME Reclaim PROVE RingAfter'
  BY <1>2, <1>7, RingReclaim
<1>8. ASSUME PushPassthrough \/ PushUpscale PROVE RingAfter'
  BY <1>2, <1>8, RingPassthrough, RingUpscale
<1>9. /\ ~RifeUpscale /\ ~RifeWait /\ ~RifeBase /\ ~RifePhase /\ ~RifeShift
      /\ ~(Flushed /\ Interpolates /\ prev # NoBuffer)
  BY <1>1, <1>3 DEF RifeUpscale, RifeWait, RifeBase, RifePhase, Interpolated,
     RifeShift, ProgramSound
<1>10. ~GivesUp /\ ~Fails /\ ~Cleanup /\ ~Trailer /\ ~Destroy
  BY DEF GivesUp, Fails, Ends, Cleanup, Trailer, Destroy, Running
<1> QED BY <1>4, <1>5, <1>6, <1>7, <1>8, <1>9, <1>10, AllSteps
        DEF Silent, Sends

-----------------------------------------------------------------------------
(* RIFE's two neighbours. *)

Neighbours ==
    /\ prev = NoBuffer <=> Latest = 0
    /\ prev = NoBuffer => Sent = 0
    /\ prev # NoBuffer =>
         /\ content[prev] = Shown(Latest)
         /\ Sent = Shown(Latest) + IF pc = "phases" THEN phase ELSE 0
    /\ dec # NoBuffer => content[dec] = Shown(decoded)

AtSync ==
    /\ dec # NoBuffer /\ cur \notin {NoBuffer, prev} \cup ToSet(enc)
    /\ submitted # 0 /\ 1..(submitted - 1) \subseteq finished
    /\ jobs[submitted] = [from |-> dec, to |-> cur]
    /\ submitted \in finished => content[cur] = Shown(decoded)

AtPhases ==
    /\ dec = NoBuffer /\ prev # NoBuffer /\ cur # NoBuffer
    /\ content[cur] = Shown(decoded)

RifeWhole ==
    /\ pc # "trailer" => Neighbours
    /\ pc \in {"read", "flush"} => cur = NoBuffer
    /\ pc = "sync" => AtSync
    /\ pc # "sync" => 1..submitted \subseteq finished
    /\ pc \in {"base", "phases"} => AtPhases
    /\ pc = "phases" => phase # 0

LEMMA RifeParts ==
    /\ RifeSound <=> (Running /\ Interpolates => RifeWhole)
    /\ RifeSound' <=> (Running' /\ Interpolates' => RifeWhole')
<1>1. RifeSound <=> (Running /\ Interpolates => RifeWhole)
  BY DEF RifeSound, RifeWhole, Neighbours, AtSync, AtPhases
<1>2. RifeSound' <=> (Running' /\ Interpolates' => RifeWhole')
  BY DEF RifeSound, RifeWhole, Neighbours, AtSync, AtPhases
<1> QED BY <1>1, <1>2

(* The GPU makes RIFE's new frame, and nothing else. *)
LEMMA RifeGpu ==
    ASSUME IInv, Running, Interpolates, RifeWhole, GpuRuns
    PROVE  RifeWhole'
<1>1. TypeOK
  BY DEF IInv
<1>2. PICK t \in 1..submitted :
             /\ t \notin finished /\ finished' = finished \cup {t}
             /\ jobs[t].to \in Pool /\ jobs[t].from \in Surfaces
             /\ content'[jobs[t].to] = content[jobs[t].from]
             /\ \A b \in Frames :
                  b # jobs[t].to => content'[b] = content[b]
             /\ UNCHANGED <<submitted, jobs>>
  BY <1>1, GpuSteps
<1>3. pc = "sync" /\ t = submitted /\ jobs[t] = [from |-> dec, to |-> cur]
  BY <1>2, OpenJobs
<1>4. jobs[t].to = cur /\ jobs[t].from = dec
  BY <1>3
<1>5. Neighbours /\ AtSync
  BY <1>3 DEF RifeWhole
<1>6. UNCHANGED <<prev, cur, phase, dec, decoded, pc, enc, video, factor>>
  BY DEF GpuRuns, rifeVars, inputVars, outVars, modeVars
<1>7. /\ Latest' = Latest /\ Sent' = Sent
      /\ Shown(Latest)' = Shown(Latest) /\ Shown(decoded)' = Shown(decoded)
  BY <1>6 DEF Latest, Sent, Shown
<1>8. /\ prev # NoBuffer => content'[prev] = content[prev]
      /\ dec # NoBuffer => content'[dec] = content[dec]
  <2>1. prev # NoBuffer => prev \in Frames /\ prev # cur
    BY <1>1, <1>5 DEF TypeOK, Frames, AtSync
  <2>2. dec # NoBuffer => dec \in Frames /\ dec # cur
    BY <1>1, <1>2, <1>4, BuffersApart DEF TypeOK, Frames
  <2> QED BY <2>1, <2>2, <1>2, <1>4
<1>9. Neighbours'
  BY <1>5, <1>6, <1>7, <1>8 DEF Neighbours
<1>10. AtSync'
  <2>1. content'[cur] = Shown(decoded)
    BY <1>2, <1>4, <1>5 DEF AtSync, Neighbours
  <2> QED BY <2>1, <1>2, <1>5, <1>6, <1>7 DEF AtSync
<1> QED BY <1>3, <1>6, <1>9, <1>10 DEF RifeWhole

(* A decoded frame: the neighbours are those before it. *)
LEMMA RifeDecode ==
    ASSUME TypeOK, Interpolates, RifeWhole, Decode
    PROVE  RifeWhole'
<1>1. PICK b \in FreeIn(Surfaces) :
        dec' = b /\ content' = [content EXCEPT ![b] = decoded * factor]
  BY DEF Decode
<1>2. /\ pc = "read" /\ dec = NoBuffer /\ decoded' = decoded + 1
      /\ UNCHANGED <<submitted, finished, factor, prev, cur, phase, pc, enc,
                     video>>
  BY DEF Decode, tickets, modeVars, rifeVars, outVars
<1>3. Neighbours /\ cur = NoBuffer /\ 1..submitted \subseteq finished
  BY <1>2 DEF RifeWhole
<1>4. /\ b \in Surfaces /\ b # prev /\ b # NoBuffer /\ b \in Frames
      /\ prev # NoBuffer => prev \in Frames
  <2>1. b \in Surfaces /\ b # prev
    BY <1>1, FreeIsFree
  <2>2. b # NoBuffer /\ b \in Frames
    BY <2>1, BuffersApart DEF Frames
  <2>3. prev # NoBuffer => prev \in Frames
    BY DEF Frames, TypeOK
  <2> QED BY <2>1, <2>2, <2>3
<1>5. content \in [Frames -> Int] /\ decoded \in Nat
  <2>1. decoded \in Nat
    BY DEF TypeOK
  <2> QED BY <2>1, RingTyped
<1>6. /\ content'[b] = decoded * factor
      /\ prev # NoBuffer => content'[prev] = content[prev]
  BY <1>1, <1>4, <1>5
<1>7. Latest' = Latest /\ Sent' = Sent /\ Shown(Latest)' = Shown(Latest)
  <2>1. Latest' = Latest
    BY <1>1, <1>2, <1>3, <1>4, <1>5 DEF Latest
  <2> QED BY <2>1, <1>2 DEF Sent, Shown
<1>8. Shown(decoded)' = decoded * factor
  <2>1. Shown(decoded)' = ((decoded + 1) - 1) * factor
    BY <1>2 DEF Shown
  <2>2. (decoded + 1) - 1 = decoded
    BY <1>5
  <2> QED BY <2>1, <2>2
<1>9. Neighbours'
  BY <1>1, <1>2, <1>3, <1>6, <1>7, <1>8 DEF Neighbours
<1> QED BY <1>2, <1>3, <1>9 DEF RifeWhole

LEMMA RifeUpscaleKept ==
    ASSUME TypeOK, Interpolates, RifeWhole, RifeUpscale
    PROVE  RifeWhole'
<1>1. PICK b \in FreeIn(Pool) : Submits(dec, b) /\ cur' = b
  BY DEF RifeUpscale
<1>2. /\ pc = "read" /\ dec # NoBuffer /\ pc' = "sync"
      /\ UNCHANGED <<finished, content, factor, prev, phase, dec, decoded,
                     enc, video>>
  BY DEF RifeUpscale, modeVars, inputVars, outVars
<1>3. Neighbours /\ cur = NoBuffer /\ 1..submitted \subseteq finished
  BY <1>2 DEF RifeWhole
<1>4. /\ b \in Pool /\ b # prev /\ b # NoBuffer /\ b \notin ToSet(enc)
      /\ dec \in Surfaces
  BY <1>1, <1>2, FreeIsFree, BuffersApart DEF Frames, TypeOK
<1>5. /\ submitted' = submitted + 1
      /\ jobs'[submitted'] = [from |-> dec, to |-> b]
      /\ submitted' \notin finished' /\ submitted \in Nat
  BY <1>1, <1>4, SubmitTyped, RingTyped
<1>6. /\ Latest' = Latest /\ Sent' = Sent
      /\ Shown(Latest)' = Shown(Latest) /\ Shown(decoded)' = Shown(decoded)
  BY <1>2 DEF Latest, Sent, Shown
<1>7. Neighbours'
  BY <1>2, <1>3, <1>6 DEF Neighbours
<1>8. AtSync'
  <2>1. submitted' # 0 /\ 1..(submitted' - 1) \subseteq finished'
    BY <1>2, <1>3, <1>5
  <2>2. dec' # NoBuffer /\ cur' \notin {NoBuffer, prev'} \cup ToSet(enc')
    BY <1>1, <1>2, <1>4
  <2>3. jobs'[submitted'] = [from |-> dec', to |-> cur']
    BY <1>1, <1>2, <1>5
  <2> QED BY <2>1, <2>2, <2>3, <1>5 DEF AtSync
<1> QED BY <1>2, <1>7, <1>8 DEF RifeWhole

LEMMA RifeWaitKept ==
    ASSUME TypeOK, Interpolates, RifeWhole, RifeWait
    PROVE  RifeWhole'
<1>1. /\ pc = "sync" /\ Waited(submitted) /\ dec' = NoBuffer
      /\ UNCHANGED <<content, factor, phase, decoded, enc, video>>
  BY DEF RifeWait, modeVars, outVars
<1>2. \/ /\ prev = NoBuffer /\ prev' = cur /\ cur' = NoBuffer
         /\ pc' = "read"
      \/ prev # NoBuffer /\ pc' = "base" /\ prev' = prev /\ cur' = cur
  BY DEF RifeWait
<1>3. Neighbours /\ AtSync
  BY <1>1 DEF RifeWhole
<1>4. submitted \in Nat /\ decoded \in Nat
  BY RingTyped DEF TypeOK
<1>5. /\ submitted' = submitted /\ finished' = finished
      /\ 1..submitted \subseteq finished
  <2>1. submitted \in 1..submitted
    BY <1>3, <1>4 DEF AtSync
  <2> QED BY <2>1, <1>1, ReportTyped
<1>6. content[cur] = Shown(decoded) /\ cur # NoBuffer /\ dec # NoBuffer
  <2>1. submitted \in finished
    BY <1>3, <1>4, <1>5 DEF AtSync
  <2> QED BY <2>1, <1>3 DEF AtSync
<1>7. Latest = decoded - 1 /\ Sent' = Sent /\ Shown(decoded)' = Shown(decoded)
  BY <1>1, <1>6 DEF Latest, Sent, Shown
<1>8. ASSUME prev = NoBuffer, prev' = cur, cur' = NoBuffer, pc' = "read"
      PROVE  RifeWhole'
  <2>1. decoded = 1 /\ Sent = 0
    BY <1>3, <1>4, <1>7, <1>8 DEF Neighbours
  <2>2. Latest' = decoded
    BY <1>1, <1>4, <1>8 DEF Latest
  <2>3. Shown(Latest)' = Shown(decoded)
    BY <2>2, <1>1 DEF Shown
  <2>4. Shown(decoded) = 0
    BY <2>1, ShownNext
  <2>5. Neighbours'
    BY <2>1, <2>2, <2>3, <2>4, <1>1, <1>6, <1>7, <1>8 DEF Neighbours
  <2> QED BY <2>5, <1>5, <1>8 DEF RifeWhole
<1>9. ASSUME prev # NoBuffer, pc' = "base", prev' = prev, cur' = cur
      PROVE  RifeWhole'
  <2>1. Latest' = Latest
    BY <1>1, <1>4, <1>6, <1>7, <1>9 DEF Latest
  <2>2. Shown(Latest)' = Shown(Latest)
    BY <2>1, <1>1 DEF Shown
  <2>3. Neighbours'
    BY <2>1, <2>2, <1>1, <1>3, <1>7, <1>9 DEF Neighbours
  <2>4. AtPhases'
    BY <1>1, <1>6, <1>7, <1>9 DEF AtPhases
  <2> QED BY <2>3, <2>4, <1>5, <1>9 DEF RifeWhole
<1> QED BY <1>2, <1>8, <1>9

(* From one neighbour to the other. *)
LEMMA RifeSendsKept ==
    ASSUME IInv, Interpolates, RifeWhole, RifeBase \/ RifePhase
    PROVE  RifeWhole'
<1>1. /\ TypeOK /\ Sent' = Sent + 1
      /\ UNCHANGED <<submitted, finished, factor, prev, cur, dec, decoded>>
  <2>1. ASSUME RifeBase
        PROVE  UNCHANGED <<submitted, finished, factor, prev, cur, dec,
                           decoded>>
    BY <2>1 DEF RifeBase, tickets, modeVars, inputVars
  <2>2. ASSUME RifePhase
        PROVE  UNCHANGED <<submitted, finished, factor, prev, cur, dec,
                           decoded>>
    BY <2>2 DEF RifePhase, Interpolated, tickets, modeVars, inputVars
  <2> QED BY <2>1, <2>2, SendsOne DEF Sends, IInv
<1>2. /\ pc \in {"base", "phases"} /\ pc' = "phases"
      /\ content'[prev] = content[prev] /\ content'[cur] = content[cur]
      /\ phase' = (IF pc = "phases" THEN phase ELSE 0) + 1
  <2>1. ASSUME RifeBase
        PROVE  /\ pc = "base" /\ pc' = "phases" /\ content' = content
               /\ phase' = 1
    BY <2>1 DEF RifeBase
  <2>2. ASSUME RifePhase
        PROVE  /\ pc = "phases" /\ pc' = "phases" /\ phase' = phase + 1
               /\ content'[prev] = content[prev]
               /\ content'[cur] = content[cur]
    BY <2>2, PhaseShows DEF RifePhase, Interpolated
  <2> QED BY <2>1, <2>2
<1>3. Neighbours /\ AtPhases /\ 1..submitted \subseteq finished
  BY <1>2 DEF RifeWhole
<1>4. /\ Latest' = Latest /\ Shown(Latest)' = Shown(Latest)
      /\ Shown(decoded)' = Shown(decoded)
  BY <1>1 DEF Latest, Shown
<1>5. phase \in Nat /\ Latest \in Nat \ {0} /\ Shown(Latest) \in Nat
  <2>1. Running /\ RifeSound
    BY <1>2 DEF Running, IInv
  <2>2. pc # "trailer" /\ prev # NoBuffer
    BY <1>2, <1>3 DEF AtPhases
  <2>3. Latest \in Nat \ {0} /\ Shown(Latest) \in Nat
    BY <2>1, <2>2, <1>1, LatestIs
  <2>4. phase \in Nat
    BY <1>1, EncoderAssumption DEF TypeOK
  <2> QED BY <2>3, <2>4
<1>6. Neighbours'
  <2>1. Sent' = Shown(Latest) + phase'
    BY <1>1, <1>2, <1>3, <1>5 DEF Neighbours, AtPhases
  <2> QED BY <2>1, <1>1, <1>2, <1>3, <1>4 DEF Neighbours, AtPhases
<1>7. AtPhases'
  BY <1>1, <1>2, <1>3, <1>4 DEF AtPhases
<1>8. phase' # 0
  BY <1>2, <1>5
<1> QED BY <1>1, <1>2, <1>3, <1>6, <1>7, <1>8 DEF RifeWhole

LEMMA RifeShiftKept ==
    ASSUME IInv, Interpolates, RifeWhole, RifeShift
    PROVE  RifeWhole'
<1>1. /\ pc = "phases" /\ phase = factor /\ prev' = cur /\ cur' = NoBuffer
      /\ pc' = "read"
      /\ UNCHANGED <<submitted, finished, content, factor, dec, decoded, enc,
                     video>>
  BY DEF RifeShift, tickets, modeVars, inputVars, outVars
<1>2. Neighbours /\ AtPhases /\ 1..submitted \subseteq finished /\ TypeOK
  BY <1>1 DEF RifeWhole, IInv
<1>3. decoded \in Nat /\ Latest = decoded - 1
  BY <1>2 DEF Latest, AtPhases, TypeOK
<1>4. Latest \in Nat \ {0}
  <2>1. Running /\ RifeSound /\ pc # "trailer" /\ prev # NoBuffer
    BY <1>1, <1>2 DEF Running, IInv, AtPhases
  <2> QED BY <2>1, <1>2, LatestIs
<1>5. Shown(decoded) = Shown(Latest) + factor
  <2>1. decoded = Latest + 1
    BY <1>3
  <2> QED BY <2>1, <1>2, <1>4, ShownNext
<1>6. Sent = Shown(decoded) /\ content[cur] = Shown(decoded)
  BY <1>1, <1>2, <1>5 DEF Neighbours, AtPhases
<1>7. Latest' = decoded
  BY <1>1, <1>2, <1>3 DEF Latest, AtPhases
<1>8. Shown(Latest)' = Shown(decoded) /\ Sent' = Sent
  BY <1>1, <1>7 DEF Shown, Sent
<1>9. Shown(decoded) \in Nat /\ decoded # 0
  <2>1. decoded \in Nat \ {0}
    BY <1>3, <1>4
  <2> QED BY <2>1, <1>2, ShownNext
<1>10. Neighbours'
  BY <1>1, <1>2, <1>6, <1>7, <1>8, <1>9 DEF Neighbours, AtPhases
<1> QED BY <1>1, <1>2, <1>10 DEF RifeWhole

LEMMA RifeStill ==
    ASSUME RifeWhole,
           UNCHANGED <<submitted, finished, jobs, content, factor, prev, cur,
                       phase, dec, decoded, enc, video>>,
           pc' = pc \/ (pc = "read" /\ pc' = "flush")
    PROVE  RifeWhole'
<1>1. /\ Latest' = Latest /\ Sent' = Sent
      /\ Shown(Latest)' = Shown(Latest) /\ Shown(decoded)' = Shown(decoded)
  BY DEF Latest, Sent, Shown
<1>2. Neighbours => Neighbours'
  BY <1>1 DEF Neighbours
<1>3. (AtSync => AtSync') /\ (AtPhases => AtPhases')
  BY <1>1 DEF AtSync, AtPhases
<1> QED BY <1>2, <1>3 DEF RifeWhole

LEMMA RifeKept ==
    ASSUME IInv, [Next]_vars
    PROVE  RifeSound'
<1> SUFFICES ASSUME Running', Interpolates'
             PROVE  RifeWhole'
  BY RifeParts
<1>1. Running /\ Interpolates
  BY RunningBefore, FactorKept DEF Interpolates
<1>2. RifeWhole /\ TypeOK
  BY <1>1, RifeParts DEF IInv
<1>3. ASSUME Copy \/ EndOfInput \/ UNCHANGED vars
      PROVE  RifeWhole'
  <2>1. UNCHANGED <<submitted, finished, jobs, content, factor, prev, cur,
                       phase, dec, decoded, enc, video>>
    BY <1>3 DEF Copy, EndOfInput, vars, tickets, modeVars, rifeVars, inputVars,
       outVars
  <2>2. pc' = pc \/ (pc = "read" /\ pc' = "flush")
    BY <1>3 DEF Copy, EndOfInput, vars
  <2> QED BY <2>1, <2>2, <1>2, RifeStill
<1>4. ASSUME Flushed PROVE RifeWhole'
  <2>1. /\ pc = "flush" /\ pc' = "trailer"
        /\ UNCHANGED <<submitted, finished>>
    BY <1>4 DEF Flushed, Flushes, tickets
  <2> QED BY <2>1, <1>2 DEF RifeWhole
<1>5. ASSUME GpuRuns PROVE RifeWhole'
  BY <1>1, <1>2, <1>5, RifeGpu
<1>6. ASSUME Decode \/ RifeUpscale \/ RifeWait PROVE RifeWhole'
  BY <1>1, <1>2, <1>6, RifeDecode, RifeUpscaleKept, RifeWaitKept
<1>7. ASSUME RifeBase \/ RifePhase \/ RifeShift PROVE RifeWhole'
  BY <1>1, <1>2, <1>7, RifeSendsKept, RifeShiftKept
<1>8. ~Reclaim /\ ~PushPassthrough /\ ~PushUpscale
  BY <1>1 DEF Reclaim, Reclaims, PushPassthrough, PushUpscale, Push
<1>9. ~GivesUp /\ ~Fails /\ ~Cleanup /\ ~Trailer /\ ~Destroy
  BY DEF GivesUp, Fails, Ends, Cleanup, Trailer, Destroy, Running
<1> QED BY <1>3, <1>4, <1>5, <1>6, <1>7, <1>8, <1>9, AllSteps
        DEF Silent, Sends, FlushesNothing

-----------------------------------------------------------------------------
(* The theorems. *)

LEMMA InitSound == Init => IInv
<1> SUFFICES ASSUME Init PROVE IInv
  OBVIOUS
<1>1. /\ submitted = 0 /\ finished = {} /\ reported = {}
  BY DEF Init, Tickets!Init
<1>2. factor \in Factors /\ factor \in Nat \ {0}
  BY EncoderAssumption DEF Init
<1>3. depth \in 1..(MaxRing - 1)
  <2>1. PICK n \in Requests : depth = Clamp(n)
    BY DEF Init
  <2> QED BY <2>1, EncoderAssumption DEF Clamp
<1>4. TypeOK
  <2>1. ring \in [0..(MaxRing - 1) -> [in : Buffers, out : Buffers,
                                       ticket : 0..submitted]]
    <3>1. Empty \in [in : Buffers, out : Buffers, ticket : 0..submitted]
      BY <1>1, EmptyTyped
    <3>2. ring = [i \in 0..(MaxRing - 1) |-> Empty]
      BY DEF Init
    <3> QED BY <3>1, <3>2
  <2>2. content \in [Surfaces \cup Pool -> Int]
    BY DEF Init, NoPicture
  <2>3. Tickets!TypeOK
    BY <1>1 DEF Tickets!TypeOK
  <2>4. jobs \in Seq([from : Surfaces, to : Pool]) /\ Len(jobs) = submitted
    BY <1>1 DEF Init
  <2>5. /\ enc \in Seq(Surfaces \cup Pool) /\ video \in Seq(Int)
        /\ packets \in 0..MaxPackets /\ held \in Seq(1..packets)
        /\ aux \in Seq(Handed(packets))
    BY EncoderAssumption DEF Init
  <2>6. /\ head \in 0..(MaxRing - 1) /\ count \in 0..depth
        /\ phase \in 0..factor /\ decoded \in 0..MaxPictures
    BY <1>2, <1>3, EncoderAssumption DEF Init
  <2>7. /\ prev \in Pool \cup {NoBuffer} /\ cur \in Pool \cup {NoBuffer}
        /\ dec \in Surfaces \cup {NoBuffer}
        /\ passthrough \in BOOLEAN /\ rebases \in BOOLEAN
        /\ opened \in BOOLEAN /\ success \in BOOLEAN
        /\ pc \in {"read", "sync", "base", "phases", "flush", "trailer",
                   "cleanup", "destroy", "gone"}
    BY DEF Init
  <2> QED BY <1>2, <1>3, <2>1, <2>2, <2>3, <2>4, <2>5, <2>6, <2>7
          DEF TypeOK, Handed
<1>5. /\ pc = "read" /\ enc = << >> /\ video = << >> /\ count = 0
      /\ decoded = 0 /\ dec = NoBuffer /\ prev = NoBuffer /\ cur = NoBuffer
      /\ aux = << >> /\ held = << >> /\ packets = 0
      /\ opened = FALSE /\ success = FALSE
      /\ passthrough => factor = 1
  BY DEF Init
<1>6. Sent = 0 /\ Latest = 0
  BY <1>5 DEF Sent, Latest
<1>7. ProgramSound
  BY <1>5 DEF ProgramSound, Interpolates
<1>8. EncoderSound /\ PicturesInOrder
  BY <1>5 DEF EncoderSound, PicturesInOrder
<1>9. RingSound
  BY <1>1, <1>5, <1>6 DEF RingSound, InRing
<1>10. RifeSound
  BY <1>1, <1>5, <1>6 DEF RifeSound
<1>11. AuxSound /\ NothingLost
  BY <1>5, <1>6 DEF AuxSound, NothingLost
<1> QED BY <1>4, <1>7, <1>8, <1>9, <1>10, <1>11 DEF IInv

(* The inductive invariant: what a buffer, a slot and a neighbour hold is  *)
(* what is to be shown next from it, at every point of the program.        *)
THEOREM Invariance == Spec => []IInv
<1>1. IInv /\ [Next]_vars => IInv'
  BY TypesKept, ProgramKept, PicturesKept, RingKept, RifeKept, AuxKept,
     LostKept DEF IInv
<1> QED BY <1>1, InitSound, PTL DEF Spec

(* The state of the encoder is well-formed; in particular the ring never   *)
(* holds more than its depth, and no slot of it names a ticket to come.    *)
THEOREM TypeCorrect == Spec => []TypeOK
BY Invariance, PTL DEF IInv

(* Frames arrive in display order (emit_output): each picture of the       *)
(* output is the one for its place, whatever is decoded into, upscaled     *)
(* into or interpolated into the buffers at the same time.                 *)
THEOREM PicturesComeInOrder == Spec => []PicturesInOrder
BY Invariance, PTL DEF IInv

(* A run that ends well has put out every picture, and has handed every    *)
(* packet of the other streams to the muxer, once and in order.            *)
THEOREM NothingIsLost == Spec => []NothingLost
BY Invariance, PTL DEF IInv
=============================================================================
