---------------------------- MODULE AnimatedFrames ----------------------------
(***************************************************************************)
(* The frame loops of convert_animated_avif and convert_animated_jxl       *)
(* (src/src/media/animated_conversion.cpp, src/src/media/avif_alpha.cpp):  *)
(* frames come out of a decoder one by one, are counted against the caps,  *)
(* joined with their alpha, given a start time and added to the WebP       *)
(* encoder.  libheif and libjxl are external; the file unfolds as they     *)
(* decode it.                                                              *)
(***************************************************************************)
EXTENDS Integers, Sequences

CONSTANTS
  MaxFrames,      \* maximum_animation_frames (1024)
  MaxPixels,      \* maximum_animation_decoded_pixels (128,000,000)
  MaxTimestamp,   \* the largest std::int32_t
  PixelCounts,    \* width * height of a frame, in units of MaxPixels
  Durations,      \* frame durations, in ticks
  Clocks          \* [ticks, per]: a second has ticks / per ticks

ASSUME FramesAssumption ==
  /\ {MaxFrames, MaxPixels, MaxTimestamp} \subseteq Nat
  /\ PixelCounts \subseteq Nat \ {0}
  /\ Durations \subseteq Nat
  /\ Clocks \subseteq [ticks : Nat \ {0}, per : Nat \ {0}]

VARIABLES
  format,       \* "avif" or "jxl"
  pixels,       \* pixels_per_frame
  clock,        \* timescale, or tps_numerator and tps_denominator
  alpha,        \* AVIF: whether alpha comes from a track of its own
  profile,      \* JPEG XL: "none", "icc" or "huge"
  pc,           \* where the loop stands; then "assembled" or why it failed
  frame_count,
  durations,    \* ticks of the frames added to the encoder
  alphas,       \* ticks of the alpha frames taken from the alpha track
  starts,       \* timestamp_ms each frame was added at
  timestamp_ms,
  iccp          \* the ICCP chunk of the result

fileVars == <<format, pixels, clock, alpha, profile>>
vars == <<fileVars, pc, frame_count, durations, alphas, starts, timestamp_ms, iccp>>

Init ==
  /\ format \in {"avif", "jxl"}
  /\ pixels \in PixelCounts
  /\ clock \in {c \in Clocks : format = "avif" => c.per = 1}
  /\ alpha \in IF format = "avif" THEN BOOLEAN ELSE {FALSE}
  /\ profile \in IF format = "jxl" THEN {"none", "icc", "huge"} ELSE {"none"}
  /\ pc = IF format = "avif" THEN "next" ELSE "color"
  /\ frame_count = 0
  /\ durations = <<>>
  /\ alphas = <<>>
  /\ starts = <<>>
  /\ timestamp_ms = 0
  /\ iccp = FALSE
-----------------------------------------------------------------------------
AtLeastOne(ms) == IF ms < 1 THEN 1 ELSE ms

(* AVIF: one division.  JPEG XL: whole seconds first, so that no product   *)
(* leaves 64 bits; a wrong form forgets what is left of a second.          *)
WholeSeconds(ticks) == AtLeastOne(((ticks * clock.per) \div clock.ticks) * 1000)
DurationMs(ticks) ==
  IF format = "avif" THEN AtLeastOne((ticks * 1000) \div clock.ticks)
  ELSE LET scaled == ticks * clock.per
       IN AtLeastOne((scaled \div clock.ticks) * 1000
                       + ((scaled % clock.ticks) * 1000) \div clock.ticks)

TooLong(ticks) ==
  \/ format = "jxl" /\ (ticks * clock.per) \div clock.ticks > MaxTimestamp \div 1000
  \/ DurationMs(ticks) > MaxTimestamp - timestamp_ms

(* The caps.  AVIF counts a frame and then looks; JPEG XL looks before the *)
(* frame is decoded.  A wrong form is off by one.                          *)
CountedTooLate(count) == count > MaxFrames + 1 \/ count > MaxPixels \div pixels
CountedTooMany(count) == count > MaxFrames \/ count > MaxPixels \div pixels
LooksTooMany(count) == count >= MaxFrames \/ count >= MaxPixels \div pixels

Stop(why) ==
  /\ pc' = why
  /\ UNCHANGED <<fileVars, durations, alphas, starts, timestamp_ms, iccp>>

(* The encoder is given the frame before its duration is checked.          *)
AddFrame(ticks, continue) ==
  /\ durations' = Append(durations, ticks)
  /\ starts' = Append(starts, timestamp_ms)
  /\ IF TooLong(ticks)
       THEN pc' = "too_long" /\ UNCHANGED timestamp_ms
       ELSE pc' = continue /\ timestamp_ms' = timestamp_ms + DurationMs(ticks)
-----------------------------------------------------------------------------
(* Whether an alpha frame belongs to the visual frame: apply_avif_alpha_   *)
(* frame compares their durations.                                         *)
SameDuration(ticks, alphaTicks) == alphaTicks = ticks

(* A visual frame is decoded, counted, and joined with the next frame of   *)
(* the alpha track if there is one; alphaTicks is that frame's duration.   *)
AvifFrame(ticks, alphaTicks) ==
  /\ format = "avif"
  /\ pc = "next"
  /\ frame_count' = frame_count + 1
  /\ IF CountedTooMany(frame_count + 1) THEN Stop("too_many")
     ELSE IF ~alpha
       THEN AddFrame(ticks, "next") /\ UNCHANGED <<fileVars, alphas, iccp>>
     ELSE IF SameDuration(ticks, alphaTicks)
       THEN /\ AddFrame(ticks, "next")
            /\ alphas' = Append(alphas, alphaTicks)
            /\ UNCHANGED <<fileVars, iccp>>
     ELSE Stop("failed")

(* The alpha track has no frame for this one, or a broken one.             *)
AvifAlphaFails ==
  /\ format = "avif"
  /\ pc = "next"
  /\ alpha
  /\ ~CountedTooMany(frame_count + 1)
  /\ frame_count' = frame_count + 1
  /\ Stop("failed")

(* The visual track is over; the alpha track must be over too, which a     *)
(* wrong loop does not ask.                                                *)
ExtraIgnored(extra) == TRUE
AlphaOver(extra) == alpha => ~extra

AvifEnd(extra) ==
  /\ format = "avif"
  /\ pc = "next"
  /\ extra => alpha
  /\ alphas' = IF extra THEN Append(alphas, 0) ELSE alphas
  /\ pc' = IF frame_count > 0 /\ AlphaOver(extra) THEN "assembled" ELSE "failed"
  /\ UNCHANGED <<fileVars, frame_count, durations, starts, timestamp_ms, iccp>>
-----------------------------------------------------------------------------
(* JXL_DEC_COLOR_ENCODING.                                                 *)
JxlColor ==
  /\ pc = "color"
  /\ UNCHANGED frame_count
  /\ IF profile = "huge" THEN Stop("failed") ELSE Stop("next")

(* JXL_DEC_FRAME and JXL_DEC_NEED_IMAGE_OUT_BUFFER.                        *)
JxlBuffer ==
  /\ format = "jxl"
  /\ pc = "next"
  /\ UNCHANGED frame_count
  /\ IF LooksTooMany(frame_count) THEN Stop("too_many") ELSE Stop("image")

(* JXL_DEC_FULL_IMAGE.                                                     *)
JxlImage(ticks) ==
  /\ pc = "image"
  /\ frame_count' = frame_count + 1
  /\ AddFrame(ticks, "next")
  /\ UNCHANGED <<fileVars, alphas, iccp>>

(* JXL_DEC_SUCCESS; the ICC profile is muxed into the encoder's result.    *)
JxlEnd ==
  /\ format = "jxl"
  /\ pc = "next"
  /\ pc' = IF frame_count > 0 THEN "assembled" ELSE "failed"
  /\ iccp' = (frame_count > 0 /\ profile = "icc")
  /\ UNCHANGED <<fileVars, frame_count, durations, alphas, starts, timestamp_ms>>

(* A decoder or the encoder reports an error, or the file ends early.      *)
Fail ==
  /\ pc \in {"color", "next", "image"}
  /\ UNCHANGED frame_count
  /\ Stop("failed")

Next ==
  \/ \E ticks, alphaTicks \in Durations : AvifFrame(ticks, alphaTicks)
  \/ AvifAlphaFails
  \/ \E extra \in BOOLEAN : AvifEnd(extra)
  \/ JxlColor
  \/ JxlBuffer
  \/ \E ticks \in Durations : JxlImage(ticks)
  \/ JxlEnd
  \/ Fail

Spec == Init /\ [][Next]_vars
-----------------------------------------------------------------------------
Added == Len(starts)

(* Both formats add exactly as many frames as the caps allow: never one    *)
(* more, in frames or in pixels, and they give up only at a frame that     *)
(* would have been one more.                                               *)
CapsAreExact ==
  /\ Added <= MaxFrames /\ Added * pixels <= MaxPixels
  /\ pc = "too_many" => Added + 1 > MaxFrames \/ (Added + 1) * pixels > MaxPixels

(* An AVIF with an alpha track is converted only if colour and alpha are   *)
(* the same animation: as many frames, of the same durations, in step all  *)
(* the way to the end of both.                                             *)
AlphaInStep ==
  /\ pc \in {"next", "assembled"} /\ alpha => alphas = durations
  /\ ~alpha => alphas = <<>>

(* The exact length of a frame, in milliseconds.                           *)
Exact(ticks) ==
  LET ms == (ticks * clock.per * 1000) \div clock.ticks IN IF ms = 0 THEN 1 ELSE ms

(* When the last frame that was added has had its time.                    *)
Finish == IF Added = 0 THEN 0 ELSE starts[Added] + Exact(durations[Added])

(* The first frame starts at 0 and every other one when the one before it  *)
(* has had its exact time, however the two formats compute it, so that     *)
(* start times strictly increase; the timeline ends when the last frame has*)
(* had its own, and a file is too long only if it really leaves 32 bits.   *)
StartTimes ==
  /\ Added > 0 => starts[1] = 0
  /\ \A k \in 2..Added : starts[k] = starts[k - 1] + Exact(durations[k - 1])
  /\ pc = "assembled" => timestamp_ms = Finish
  /\ pc = "too_long" => Finish > MaxTimestamp
=============================================================================
