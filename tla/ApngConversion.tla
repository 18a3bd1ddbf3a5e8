---------------------------- MODULE ApngConversion ----------------------------
(***************************************************************************)
(* convert_apng_to_webp (src/src/media/apng_conversion.cpp) from the bytes *)
(* of a file to the assembled animation: decode_apng_frames, which is      *)
(* ApngStream, and then the loop over the frames it returned, which is     *)
(* ApngCanvas.  The two share nothing but those frames: what the decoder   *)
(* kept of the file is gone when it returns.                               *)
(* The actions and the specification have names of their own, so that this *)
(* module can be extended together with MediaConversion.                   *)
(***************************************************************************)
EXTENDS Naturals, Sequences

CONSTANTS Chunks, MaxChunks, Pixels, Frames, MaxFrames, MaxTimestamp

VARIABLES
  chunks, parsing, have_ihdr, have_actl, declared_frames, frames,
  default_image_is_frame, frame_has_data, saw_idat, expected_sequence,
  offset, frame_index, saw_frame_control, before_default_image_data,
  shared, compressed,
  decoded, canvas, displayed, timestamp, drawing

Stream == INSTANCE ApngStream WITH pc <- parsing
Canvas == INSTANCE ApngCanvas WITH pc <- drawing

ASSUME ApngAssumption ==
  /\ Chunks \subseteq Stream!Chunk /\ MaxChunks \in Nat
  /\ Frames \subseteq Canvas!Frame /\ MaxFrames \in Nat \ {0}
  /\ MaxTimestamp \in Nat

streamVars == <<chunks, parsing, have_ihdr, have_actl, declared_frames, frames,
                default_image_is_frame, frame_has_data, saw_idat, expected_sequence,
                offset, frame_index, saw_frame_control, before_default_image_data,
                shared, compressed>>
canvasVars == <<decoded, canvas, displayed, timestamp, drawing>>
apngVars == <<streamVars, canvasVars>>

(* The canvas is made after the frames; until then nothing is drawn.       *)
ApngInit == Stream!Init /\ Canvas!Init
-----------------------------------------------------------------------------
DecodeFrames ==
  /\ parsing # "returned"
  /\ Stream!Next
  /\ UNCHANGED canvasVars

(* decode_apng_frames returns its frames, of which there is at least one,  *)
(* and its locals end.                                                     *)
FramesReturned ==
  /\ parsing = "decoded"
  /\ parsing' = "returned"
  /\ chunks' = <<>>
  /\ have_ihdr' = FALSE /\ have_actl' = FALSE
  /\ default_image_is_frame' = FALSE /\ frame_has_data' = FALSE
  /\ saw_idat' = FALSE /\ expected_sequence' = 0
  /\ offset' = 0 /\ frame_index' = 1
  /\ saw_frame_control' = FALSE /\ before_default_image_data' = TRUE
  /\ shared' = {} /\ compressed' = <<>>
  /\ UNCHANGED <<declared_frames, frames, canvasVars>>

(* for (index = 0; index < decoded.frames.size(); ++index); a wrong loop   *)
(* leaves the last frame out.                                              *)
AllButTheLast == Len(decoded) + 1 < frames
MoreFrames == Len(decoded) < frames

Draw ==
  /\ parsing = "returned"
  /\ \/ MoreFrames /\ \E frame \in Frames : Canvas!AddFrame(frame)
     \/ Canvas!Fail
     \/ ~MoreFrames /\ Canvas!Assemble
  /\ UNCHANGED streamVars

ApngNext == DecodeFrames \/ FramesReturned \/ Draw

ApngSpec == ApngInit /\ [][ApngNext]_apngVars
-----------------------------------------------------------------------------
(* The parser lets exactly the well-formed files through.                  *)
ParsesTheGrammar == Stream!ParsesTheGrammar

(* The second pass gives every frame its own data and the shared chunks.   *)
FramesGetTheirData == Stream!FramesGetTheirData

(* The encoder is handed what APNG's composition says, pixel by pixel.     *)
DisplayedLayers == Canvas!DisplayedLayers

(* Frame start times are the exact sums of the delays before them, and an  *)
(* assembled animation has as many frames as the file's acTL declared.     *)
Timeline ==
  /\ Canvas!Timeline
  /\ drawing = "assembled" => Len(decoded) = declared_frames
=============================================================================
