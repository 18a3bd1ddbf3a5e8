------------------------------ MODULE ApngCanvas ------------------------------
(***************************************************************************)
(* convert_apng_to_webp (src/src/media/apng_conversion.cpp): the decoded   *)
(* frames are composed on one canvas (src/src/media/apng_compositor.cpp)   *)
(* and what it shows after each is handed to the encoder with the time it  *)
(* starts at.                                                              *)
(*                                                                         *)
(* A pixel of the canvas is the sequence of frames whose colour is in it,  *)
(* bottom first; <<>> is transparent.  What the blending arithmetic makes  *)
(* of such a sequence is not modelled, which frames take part in it is.    *)
(***************************************************************************)
EXTENDS Integers, Sequences, SequencesExt

CONSTANTS
  Pixels,        \* the pixels of the canvas
  Frames,        \* the frames decode_apng_frames can return
  MaxFrames,     \* bound: frames in a file
  MaxTimestamp   \* the largest std::int32_t

Frame == [alpha : UNION {[rect -> {"clear", "partial", "opaque"}] : rect \in SUBSET Pixels \ {{}}},
          blend : {"source", "over"},
          dispose : {"none", "background", "previous"},
          numerator : Nat,            \* of the delay, in seconds
          denominator : Nat \ {0}]    \* parse_apng refuses 0

VARIABLES
  decoded,     \* the frames composed so far
  canvas,      \* what the next frame is drawn on
  displayed,   \* what the encoder was given last
  timestamp,   \* and when it starts
  pc           \* "frames", "failed", "assembled"

vars == <<decoded, canvas, displayed, timestamp, pc>>

Transparent == [p \in Pixels |-> <<>>]

Init ==
  /\ decoded = <<>>
  /\ canvas = Transparent
  /\ displayed = Transparent
  /\ timestamp = 0
  /\ pc = "frames"
-----------------------------------------------------------------------------
Rect(frame) == DOMAIN frame.alpha

ClearRectangle(pixels, frame) == [p \in Pixels |-> IF p \in Rect(frame) THEN <<>> ELSE pixels[p]]

(* source_copy, after the rectangle was cleared.                           *)
SourceCopy(pixels, frame, n) ==
  [p \in Pixels |-> IF p \notin Rect(frame) THEN pixels[p]
                    ELSE IF frame.alpha[p] = "clear" THEN <<>> ELSE <<n>>]

(* source_over_pixel: nothing of a clear pixel, the whole of an opaque one *)
(* or of one on a transparent ground, and a mixture otherwise.             *)
SourceOverPixel(below, alpha, n) ==
  IF alpha = "clear" THEN below
  ELSE IF alpha = "opaque" \/ below = <<>> THEN <<n>>
  ELSE Append(below, n)

SourceOver(pixels, frame, n) ==
  [p \in Pixels |-> IF p \in Rect(frame) THEN SourceOverPixel(pixels[p], frame.alpha[p], n)
                    ELSE pixels[p]]

(* compose_apng_frame, the part before disposal; a wrong one draws every   *)
(* frame over what is there.                                               *)
AlwaysOver(pixels, frame, n) == SourceOver(pixels, frame, n)
Blend(pixels, frame, n) ==
  IF frame.blend = "source" THEN SourceCopy(ClearRectangle(pixels, frame), frame, n)
  ELSE SourceOver(pixels, frame, n)

(* What the next frame finds.                                              *)
Dispose(before, after, frame) ==
  IF frame.dispose = "background" THEN ClearRectangle(after, frame)
  ELSE IF frame.dispose = "previous" THEN before ELSE after

(* apng_frame_duration_ms: truncated, never rounded.                       *)
DurationMs(frame) == (frame.numerator * 1000) \div frame.denominator

(* When frame n = Len(decoded) + 1 starts: the first at 0, and each when   *)
(* the one before it has had its time.  A wrong one uses its own delay.    *)
OwnDelay(frame) == IF decoded = <<>> THEN 0 ELSE timestamp + DurationMs(frame)
StartsAt(frame) ==
  IF decoded = <<>> THEN 0 ELSE timestamp + DurationMs(Last(decoded))

(* duration > max - timestamp.                                             *)
Overflows(at) == at > MaxTimestamp

AddFrame(frame) ==
  /\ pc = "frames"
  /\ Len(decoded) < MaxFrames
  /\ ~Overflows(StartsAt(frame))
  /\ LET n == Len(decoded) + 1
         shown == Blend(canvas, frame, n)
     IN /\ displayed' = shown
        /\ canvas' = Dispose(canvas, shown, frame)
  /\ timestamp' = StartsAt(frame)
  /\ decoded' = Append(decoded, frame)
  /\ UNCHANGED pc

(* The timeline does not fit an std::int32_t, or libwebp refuses a frame.  *)
Fail ==
  /\ pc = "frames"
  /\ pc' = "failed"
  /\ UNCHANGED <<decoded, canvas, displayed, timestamp>>

(* No end is added after the last frame: libwebp makes its duration up.    *)
Assemble ==
  /\ pc = "frames"
  /\ decoded # <<>>
  /\ pc' = "assembled"
  /\ UNCHANGED <<decoded, canvas, displayed, timestamp>>

Next == (\E frame \in Frames : AddFrame(frame)) \/ Fail \/ Assemble

Spec == Init /\ [][Next]_vars
-----------------------------------------------------------------------------
Drawn == Len(decoded)

Covers(j, p) == p \in Rect(decoded[j])

(* Frame j, drawn after others and before the last one, leaves nothing of them *)
(* at p; the last frame hides what it replaces.                            *)
Wipes(j, p) ==
  /\ Covers(j, p)
  /\ \/ decoded[j].dispose = "background" /\ j < Drawn
     \/ /\ decoded[j].dispose # "previous" \/ j = Drawn
        /\ decoded[j].blend = "source" \/ decoded[j].alpha[p] = "opaque"

(* Frame k has colour at p in what is displayed now.                       *)
Visible(k, p) ==
  /\ Covers(k, p) /\ decoded[k].alpha[p] # "clear"
  /\ k = Drawn \/ decoded[k].dispose = "none"
  /\ \A j \in (k + 1)..Drawn : ~Wipes(j, p)

(* The frames in set, bottom first.                                        *)
Stacked(layers, set) ==
  /\ Range(layers) = set
  /\ \A i \in 2..Len(layers) : layers[i - 1] < layers[i]

(* What is displayed is decided frame by frame and pixel by pixel: a frame *)
(* shows at a pixel exactly if it has colour there, was not disposed of,   *)
(* and nothing drawn or disposed of since covers it; later frames lie above*)
(* earlier ones.  This is APNG's composition without a canvas.             *)
DisplayedLayers ==
  Drawn > 0 =>
    \A p \in Pixels : Stacked(displayed[p], {k \in 1..Drawn : Visible(k, p)})

(* When frame k is due, by the delays of those before it alone.            *)
Due[k \in 1..Drawn] == IF k = 1 THEN 0 ELSE Due[k - 1] + DurationMs(decoded[k - 1])

(* Frames start in order, the first at 0 and each after exactly the delays *)
(* of those before it, each truncated to milliseconds; no start time wraps.*)
Timeline ==
  /\ Drawn > 0 => timestamp = Due[Drawn]
  /\ timestamp <= MaxTimestamp
=============================================================================
