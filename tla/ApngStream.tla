------------------------------ MODULE ApngStream ------------------------------
(***************************************************************************)
(* An APNG on its way to decoded frames: parse_apng reads the chunks once  *)
(* and checks their order (src/src/media/apng.cpp), and decode_apng_frames *)
(* then reads them again, trusting what the first pass established, and    *)
(* sorts their payloads into frames (src/src/media/apng_decoder.cpp).      *)
(*                                                                         *)
(* A chunk is a record; what makes one unreadable (its length, its CRC, a  *)
(* truncated file) is the type "broken", and what makes one wrong in itself*)
(* (an IHDR of 0 by 0, a frame outside the canvas, a zero delay            *)
(* denominator, an unknown operation, an fdAT of less than four bytes) is  *)
(* valid = FALSE.  The file unfolds while it is parsed.                    *)
(***************************************************************************)
EXTENDS Naturals, Sequences, FiniteSets

CONSTANTS
  Chunks,      \* the chunks a file is made of
  MaxChunks    \* bound: chunks in a file

Chunk == [type : {"IHDR", "acTL", "fcTL", "IDAT", "fdAT", "other", "broken"},
          valid : BOOLEAN,
          number : Nat,   \* sequence number of fcTL and fdAT, frames of acTL
          bytes : Nat]    \* payload bytes of IDAT and fdAT

VARIABLES
  chunks,     \* the file as far as it was read
  pc,         \* "parse", "rejected" by a chunk or "incomplete" at the end,
              \* "collect", "frames", "failed", "decoded"
  have_ihdr, have_actl, declared_frames,
  frames,     \* how many frame controls parse_apng has stored
  default_image_is_frame, frame_has_data, saw_idat, expected_sequence,
  offset,     \* chunks decode_apng_frames has read
  frame_index, saw_frame_control, before_default_image_data,
  shared,     \* chunks copied into every frame's PNG
  compressed  \* the data chunks collected for each frame

parserVars == <<have_ihdr, have_actl, declared_frames, frames, default_image_is_frame,
                frame_has_data, saw_idat, expected_sequence>>
decoderVars == <<offset, frame_index, saw_frame_control, before_default_image_data,
                 shared, compressed>>
vars == <<chunks, pc, parserVars, decoderVars>>

Init ==
  /\ chunks = <<>>
  /\ pc = "parse"
  /\ have_ihdr = FALSE
  /\ have_actl = FALSE
  /\ declared_frames = 0
  /\ frames = 0
  /\ default_image_is_frame = FALSE
  /\ frame_has_data = FALSE
  /\ saw_idat = FALSE
  /\ expected_sequence = 0
  /\ offset = 0
  /\ frame_index = 1
  /\ saw_frame_control = FALSE
  /\ before_default_image_data = TRUE
  /\ shared = {}
  /\ compressed = <<>>
-----------------------------------------------------------------------------
(* parse_apng, one chunk at a time.  Accepted(c) is what lets the loop go  *)
(* on after the chunk c.                                                   *)
AcceptsIhdr(c) == ~have_ihdr /\ c.valid

AcceptsActl(c) == have_ihdr /\ ~have_actl /\ ~saw_idat /\ c.valid /\ c.number > 0

(* A frame control ends the frame before it, which must have had its data; *)
(* a wrong parser would look at that at the end of the file only.          *)
ControlAnywhere(c) ==
  have_ihdr /\ have_actl /\ c.valid /\ c.number = expected_sequence
AcceptsFctl(c) ==
  /\ have_ihdr /\ have_actl
  /\ frames > 0 => frame_has_data
  /\ c.number = expected_sequence
  /\ c.valid

(* IDAT is the static fallback, or the data of the first frame.            *)
AcceptsIdat(c) == have_actl /\ (frames = 0 \/ (default_image_is_frame /\ frames = 1))

(* fdAT never continues the frame that IDAT belongs to.                    *)
AcceptsFdat(c) ==
  /\ saw_idat /\ frames > 0 /\ c.valid
  /\ ~(default_image_is_frame /\ frames = 1)
  /\ c.number = expected_sequence

Accepted(c) ==
  CASE c.type = "IHDR" -> AcceptsIhdr(c)
    [] c.type = "acTL" -> AcceptsActl(c)
    [] c.type = "fcTL" -> AcceptsFctl(c)
    [] c.type = "IDAT" -> AcceptsIdat(c)
    [] c.type = "fdAT" -> AcceptsFdat(c)
    [] c.type = "broken" -> FALSE
    [] OTHER -> TRUE

Reject(c) ==
  /\ pc = "parse"
  /\ Len(chunks) < MaxChunks
  /\ ~Accepted(c)
  /\ chunks' = Append(chunks, c)
  /\ pc' = "rejected"
  /\ UNCHANGED <<parserVars, decoderVars>>

(* What every accepted chunk changes, and what only its type changes.      *)
Parse(type, c) ==
  /\ pc = "parse"
  /\ Len(chunks) < MaxChunks
  /\ c.type = type
  /\ Accepted(c)
  /\ chunks' = Append(chunks, c)
  /\ UNCHANGED <<pc, decoderVars>>

ParseIhdr(c) ==
  /\ Parse("IHDR", c)
  /\ have_ihdr' = TRUE
  /\ UNCHANGED <<have_actl, declared_frames, frames, default_image_is_frame,
                 frame_has_data, saw_idat, expected_sequence>>

ParseActl(c) ==
  /\ Parse("acTL", c)
  /\ have_actl' = TRUE
  /\ declared_frames' = c.number
  /\ UNCHANGED <<have_ihdr, frames, default_image_is_frame, frame_has_data, saw_idat,
                 expected_sequence>>

ParseFctl(c) ==
  /\ Parse("fcTL", c)
  /\ frames' = frames + 1
  /\ default_image_is_frame' = IF frames = 0 THEN ~saw_idat ELSE default_image_is_frame
  /\ frame_has_data' = FALSE
  /\ expected_sequence' = expected_sequence + 1
  /\ UNCHANGED <<have_ihdr, have_actl, declared_frames, saw_idat>>

ParseIdat(c) ==
  /\ Parse("IDAT", c)
  /\ saw_idat' = TRUE
  /\ frame_has_data' = (frame_has_data \/ default_image_is_frame)
  /\ UNCHANGED <<have_ihdr, have_actl, declared_frames, frames, default_image_is_frame,
                 expected_sequence>>

ParseFdat(c) ==
  /\ Parse("fdAT", c)
  /\ frame_has_data' = TRUE
  /\ expected_sequence' = expected_sequence + 1
  /\ UNCHANGED <<have_ihdr, have_actl, declared_frames, frames, default_image_is_frame, saw_idat>>

ParseOther(c) == Parse("other", c) /\ UNCHANGED parserVars

(* The checks at the end of the file.                                      *)
Complete == have_ihdr /\ have_actl /\ frame_has_data /\ frames = declared_frames

ParseEnd ==
  /\ pc = "parse"
  /\ IF Complete
       THEN pc' = "collect" /\ compressed' = [i \in 1..frames |-> <<>>]
       ELSE pc' = "incomplete" /\ UNCHANGED compressed
  /\ UNCHANGED <<chunks, parserVars, offset, frame_index, saw_frame_control,
                 before_default_image_data, shared>>
-----------------------------------------------------------------------------
(* decode_apng_frames: the second pass, by chunk type.                     *)
Collect(type) ==
  /\ pc = "collect"
  /\ offset < Len(chunks)
  /\ chunks[offset + 1].type \in type
  /\ offset' = offset + 1
  /\ UNCHANGED <<chunks, parserVars>>

(* A wrong decoder counts the first frame control like the others.         *)
EveryControl == frame_index + 1
NextFrame == IF saw_frame_control THEN frame_index + 1 ELSE frame_index

CollectFctl ==
  /\ Collect({"fcTL"})
  /\ frame_index' = NextFrame
  /\ saw_frame_control' = TRUE
  /\ UNCHANGED <<pc, before_default_image_data, shared, compressed>>

AddData ==
  IF frame_index > Len(compressed)
    THEN pc' = "failed" /\ UNCHANGED compressed
    ELSE /\ compressed' = [compressed EXCEPT ![frame_index] = Append(@, offset + 1)]
         /\ UNCHANGED pc

(* Only a default image that is a frame is collected; a wrong decoder takes*)
(* the fallback for the first frame.                                       *)
AnyDefaultImage == TRUE
CollectsDefault == default_image_is_frame

CollectIdat ==
  /\ Collect({"IDAT"})
  /\ before_default_image_data' = FALSE
  /\ IF CollectsDefault THEN AddData ELSE UNCHANGED <<pc, compressed>>
  /\ UNCHANGED <<frame_index, saw_frame_control, shared>>

CollectFdat ==
  /\ Collect({"fdAT"})
  /\ AddData
  /\ UNCHANGED <<frame_index, saw_frame_control, before_default_image_data, shared>>

(* Palette, transparency and the like, as long as no IDAT has come.  A     *)
(* wrong decoder stops at the first frame control.                         *)
BeforeFirstControl == before_default_image_data /\ ~saw_frame_control
IsShared == before_default_image_data

CollectOther ==
  /\ Collect({"IHDR", "acTL", "other"})
  /\ shared' = IF IsShared /\ chunks[offset + 1].type = "other"
                 THEN shared \cup {offset + 1} ELSE shared
  /\ UNCHANGED <<pc, frame_index, saw_frame_control, before_default_image_data, compressed>>

CollectEnd ==
  /\ pc = "collect"
  /\ offset = Len(chunks)
  /\ pc' = "frames"
  /\ UNCHANGED <<chunks, parserVars, decoderVars>>

Payload(i) == {k \in 1..Len(compressed[i]) : chunks[compressed[i][k]].bytes > 0}

(* Every frame's PNG is put together and given to libpng, which is external*)
(* and may refuse it.                                                      *)
DecodeFrames ==
  /\ pc = "frames"
  /\ pc' \in IF \E i \in 1..frames : Payload(i) = {} THEN {"failed"} ELSE {"failed", "decoded"}
  /\ UNCHANGED <<chunks, parserVars, decoderVars>>

Next ==
  \/ \E c \in Chunks :
       \/ Reject(c)
       \/ ParseIhdr(c) \/ ParseActl(c) \/ ParseFctl(c)
       \/ ParseIdat(c) \/ ParseFdat(c) \/ ParseOther(c)
  \/ ParseEnd
  \/ CollectFctl \/ CollectIdat \/ CollectFdat \/ CollectOther \/ CollectEnd
  \/ DecodeFrames

Spec == Init /\ [][Next]_vars
-----------------------------------------------------------------------------
(* The well-formed files, without a parser.                                *)
At(type) == {i \in 1..Len(chunks) : chunks[i].type = type}

Before(i, set) == {j \in set : j < i}

(* The frame a chunk belongs to: the number of frame controls before it.   *)
Frame(i) == Cardinality(Before(i, At("fcTL")))

(* The first frame is the default image when no IDAT precedes its control. *)
DefaultIsFrame ==
  \E i \in At("fcTL") : Frame(i) = 0 /\ Before(i, At("IDAT")) = {}

Numbered == At("fcTL") \cup At("fdAT")

Readable ==
  /\ At("broken") = {}
  /\ \A i \in 1..Len(chunks) \ At("IDAT") : chunks[i].type # "other" => chunks[i].valid

(* One header and one animation control, before all that they announce.    *)
ControlFirst ==
  /\ Cardinality(At("IHDR")) <= 1 /\ Cardinality(At("acTL")) <= 1
  /\ \A i \in At("acTL") :
       Before(i, At("IHDR")) # {} /\ Before(i, At("IDAT")) = {} /\ chunks[i].number > 0
  /\ \A i \in Numbered \cup At("IDAT") : Before(i, At("acTL")) # {}

InSequence == \A i \in Numbered : chunks[i].number = Cardinality(Before(i, Numbered))

(* Data of either type is where its type can be.                           *)
DataPlaced ==
  /\ \A i \in At("IDAT") : Frame(i) = 0 \/ (DefaultIsFrame /\ Frame(i) = 1)
  /\ \A i \in At("fdAT") :
       Before(i, At("IDAT")) # {} /\ Frame(i) > IF DefaultIsFrame THEN 1 ELSE 0

NoFrameEmpty ==
  \A i \in At("fcTL") :
    Frame(i) > 0 => \E j \in At("IDAT") \cup At("fdAT") : j < i /\ Frame(j) = Frame(i)

Sound == Readable /\ ControlFirst /\ InSequence /\ DataPlaced /\ NoFrameEmpty

Whole ==
  /\ Cardinality(At("IHDR")) = 1
  /\ \E i \in At("acTL") : Cardinality(At("fcTL")) = chunks[i].number
  /\ \E j \in At("IDAT") \cup At("fdAT") : Frame(j) = Cardinality(At("fcTL")) /\ Frame(j) > 0

(* The parser accepts exactly the files that the grammar describes: it     *)
(* stops at the first chunk that makes a file unsound, never earlier, and  *)
(* passes a whole file on only if every frame that was announced is there  *)
(* with data of its own and the sequence numbers run from 0 without a gap. *)
ParsesTheGrammar ==
  /\ pc # "rejected" => Sound
  /\ pc = "rejected" => ~Sound
  /\ pc = "incomplete" => ~Whole
  /\ pc \in {"collect", "frames", "failed", "decoded"} => Whole

(* The second pass, which checks no order of its own, puts every data chunk*)
(* into the frame its control announced, in file order; the pixels of a    *)
(* fallback image end up in none.  Every frame also gets the palette and   *)
(* transparency chunks before the default image, those behind the first    *)
(* frame control too, and no others.  (Frame below is read off the file,   *)
(* not off the decoder.)                                                   *)
DataInFrames ==
  /\ \A i \in 1..frames : \A k \in 1..Len(compressed[i]) :
       /\ Frame(compressed[i][k]) = i
       /\ k > 1 => compressed[i][k - 1] < compressed[i][k]
  /\ \A j \in At("fdAT") \cup {d \in At("IDAT") : Frame(d) > 0} :
       \E k \in 1..Len(compressed[Frame(j)]) : compressed[Frame(j)][k] = j
  /\ shared = {i \in At("other") : Before(i, At("IDAT")) = {}}

(* A file the parser has accepted fails in the second pass only after every*)
(* frame has got its data, because a frame has no bytes or libpng refuses  *)
(* one: the frame index never leaves the frames that were counted.         *)
FramesGetTheirData ==
  /\ pc \in {"frames", "decoded"} => DataInFrames
  /\ pc = "failed" => \A i \in 1..frames : compressed[i] # <<>>
=============================================================================
