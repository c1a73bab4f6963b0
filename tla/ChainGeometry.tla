---------------------------- MODULE ChainGeometry ----------------------------
(***************************************************************************)
(* The sizes a frame takes on its way through a chain (src/aji_trt.cpp):   *)
(* explicit resizes before a network, and the cap of a dynamic engine.     *)
(* Pure operators; a size is <<width, height>>, and real numbers are       *)
(* quotients.                                                              *)
(***************************************************************************)
EXTENDS Integers

Even(n) == 2 * (n \div 2)

\* round_even of the quotient n / d: half up, then the last bit cleared.
RoundEven(n, d) == Even((2 * n + d) \div (2 * d))

\* fit_box for a box of 16:9 and the given height, aspect kept.
FitBox(s, height) ==
    IF 9 * s[1] > 16 * s[2]
    THEN <<RoundEven(16 * height, 9),
           RoundEven(16 * height * s[2], 9 * s[1])>>
    ELSE <<RoundEven(height * s[1], s[2]), RoundEven(height, 1)>>

\* fit_within: the largest even size inside the box, aspect kept.
FitWithin(s, box) ==
    IF box[1] * s[2] <= box[2] * s[1]
    THEN <<Even(box[1]), Even((s[2] * box[1]) \div s[1])>>
    ELSE <<Even((s[1] * box[2]) \div s[2]), Even(box[2])>>

Exceeds(s, box) == s[1] > box[1] \/ s[2] > box[2]
Drawable(s) == s[1] >= 2 /\ s[2] >= 2

\* resize_factor_before_upscale, in percent; a result too small is dropped.
ByFactor(s, factor) ==
    LET t == <<RoundEven(s[1] * factor, 100), RoundEven(s[2] * factor, 100)>>
    IN IF factor # 100 /\ Drawable(t) THEN t ELSE s

\* first_resize_target: the explicit resize of a model.
ResizeTarget(m, s) ==
    IF m.height = 0 THEN ByFactor(s, m.factor)
    ELSE IF m.height # s[2] THEN FitBox(s, m.height) ELSE s

\* 3 planes of fp16: one picture in a chain buffer.
Bytes(s) == 3 * s[1] * s[2] * 2
=============================================================================
