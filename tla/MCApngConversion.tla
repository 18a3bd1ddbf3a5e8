--------------------------- MODULE MCApngConversion ---------------------------
(* Files of up to eight chunks: long enough for a fallback image and two   *)
(* frames, or for three frames, or for a chunk too many of any kind.  Then *)
(* their one to three frames on a canvas of two pixels, each frame covering*)
(* one or both with every alpha, blend and disposal; the delays differ with*)
(* the blend, one of them a fraction of a millisecond too long.            *)
EXTENDS ApngConversion, TLC

Plain(type) == [type |-> type, valid |-> TRUE, number |-> 0, bytes |-> 0]

MCChunks ==
  {Plain("IHDR"), Plain("other"), Plain("broken")}
    \cup {[Plain("acTL") EXCEPT !.number = n] : n \in 0..3}
    \cup {[Plain("fcTL") EXCEPT !.number = n] : n \in 0..3}
    \cup {[Plain("fcTL") EXCEPT !.valid = FALSE]}
    \cup {[Plain("IDAT") EXCEPT !.bytes = b] : b \in 0..1}
    \cup {[Plain("fdAT") EXCEPT !.number = n, !.bytes = 1] : n \in 1..4}
    \cup {[Plain("fdAT") EXCEPT !.number = 1, !.valid = v] : v \in BOOLEAN}

MCFrames ==
  {[alpha |-> a, blend |-> b, dispose |-> d,
    numerator |-> IF b = "source" THEN 2 ELSE 1, denominator |-> 3] :
     a \in UNION {[rect -> {"clear", "partial", "opaque"}] : rect \in SUBSET Pixels \ {{}}},
     b \in {"source", "over"}, d \in {"none", "background", "previous"}}

ASSUME MaxChunks >= 8 /\ MaxFrames = 3

(* Pixels are told apart by nothing but the frames' own alpha.             *)
PixelSymmetry == Permutations(Pixels)
=============================================================================
