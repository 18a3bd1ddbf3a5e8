--------------------------- MODULE MCAnimatedFrames ---------------------------
(* A small world for AnimatedFrames: three frames allowed, or two by their *)
(* pixels; clocks that divide a second evenly and not; durations of less   *)
(* than a millisecond, more than a second, and too long for the timeline.  *)
EXTENDS AnimatedFrames

MCClocks == {[ticks |-> t, per |-> p] : t \in {7, 3000}, p \in {1, 2}}

ASSUME \E p \in PixelCounts : MaxPixels \div p < MaxFrames
=============================================================================
