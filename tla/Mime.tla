--------------------------------- MODULE Mime ---------------------------------
(***************************************************************************)
(* sniff_mime (src/src/media/mime.cpp) and the classification of what it   *)
(* finds (src/src/media/classification.cpp).                               *)
(*                                                                         *)
(* A body is a record of what these functions look at.  Text is a sequence *)
(* of pieces of markup with their lengths, of which the sample may show    *)
(* only the beginning; an "ftyp" box is its declared size and its brands.  *)
(***************************************************************************)
EXTENDS Integers, Sequences, SequencesExt, FiniteSetsExt

(* The signatures that are looked for before and after the text formats.   *)
Binary ==
  [ico |-> "image/x-icon", bmp |-> "image/bmp", gif |-> "image/gif", webp |-> "image/webp",
   png |-> "image/png", jpeg |-> "image/jpeg", jxl |-> "image/jxl", pdf |-> "application/pdf",
   ps |-> "application/postscript", id3 |-> "audio/mpeg", ogg |-> "application/ogg",
   webm |-> "video/webm", avi |-> "video/avi", wave |-> "audio/wave",
   zip |-> "application/zip", gzip |-> "application/x-gzip", wasm |-> "application/wasm"]

Fonts ==
  [truetype |-> "font/ttf", otto |-> "font/otf", ttcf |-> "font/collection",
   woff |-> "font/woff", woff2 |-> "font/woff2"]

Piece == [kind : {"bom", "utf16be", "utf16le", "space", "comment", "instruction", "xml",
                  "svg", "unbounded svg", "html", "words"},
          size : Nat]    \* bytes, with the one that bounds a tag's name

Body ==
  [length : Nat,
   signature : DOMAIN Binary \cup DOMAIN Fonts \cup {"none"},   \* what its first bytes are
   anim : BOOLEAN,             \* "ANIM" at 0x1e
   apng : BOOLEAN,             \* what classify_apng says of it
   jxl_animation : BOOLEAN,    \* what libjxl says of it
   ftyp : BOOLEAN,             \* an "ftyp" box begins it
   box : Nat,                  \* the declared size of that box, which can be 0
   brands : Seq(STRING),       \* major brand, then the words from offset 16 on
   control : BOOLEAN,          \* binary control bytes in the sample
   eot : BOOLEAN,              \* "LP" at 34
   text : Seq(Piece)]

MaximumMimeSampleBytes == 512

(* is_animated_avif, over the whole body: a brand that fills a word within *)
(* the declared box.  Brand 1 is at offset 8, brand k + 1 at 12 + 4k.      *)
InBox(body, k) == k = 1 \/ 12 + 4 * (k - 1) + 4 <= body.box
IsAnimatedAvif(body) ==
  /\ body.length >= 16
  /\ body.ftyp /\ body.box \in 16..body.length
  /\ \E k \in DOMAIN body.brands : body.brands[k] = "avis" /\ InBox(body, k)

(* The first four bytes are the size of the box, which some signatures are *)
(* too, and which begins with a zero byte below this one.                  *)
LargeBox == 16777216

SmallBox(body) == body.ftyp /\ body.box < LargeBox

SignatureOf(body) ==
  CASE ~SmallBox(body) -> body.signature
    [] SmallBox(body) /\ body.box = 256 -> "ico"           \* 00 00 01 00
    [] SmallBox(body) /\ body.box = 65536 -> "truetype"    \* 00 01 00 00
    [] SmallBox(body) /\ body.box = 6386541 -> "wasm"      \* 00 61 73 6d
    [] OTHER -> "none"

Mp4Brands == {"mp41", "mp42", "isom", "iso2", "avc1", "M4V ", "M4A ", "3gp5"}
-----------------------------------------------------------------------------
(* The pieces that the sample shows; of the one it cuts, the rest.         *)
Ends(text) ==
  LET sum[i \in 0..Len(text)] == IF i = 0 THEN 0 ELSE sum[i - 1] + text[i].size
  IN sum
EndOf(text, i) == Ends(text)[i]

Shown(text) == {i \in DOMAIN text : EndOf(text, i) <= MaximumMimeSampleBytes}

(* The whole body instead of the sample, as a wrong sniffer reads it.      *)
AllOfIt(text, i) == i \in DOMAIN text
Complete(text, i) == i \in Shown(text)

Kind(text, i) == IF i \in DOMAIN text THEN text[i].kind ELSE "end"

(* is_svg skips a BOM at the very beginning, then spaces, comments and     *)
(* instructions as far as they are complete.                               *)
Skipped(text, i) ==
  /\ Complete(text, i)
  /\ \/ Kind(text, i) \in {"space", "comment", "instruction", "xml"}
     \/ i = 1 /\ Kind(text, i) = "bom"

FirstUnskipped(text) ==
  Min({i \in 1..(Len(text) + 1) :
         ~Skipped(text, i) /\ \A j \in 1..(i - 1) : Skipped(text, j)})

IsSvg(text) ==
  LET i == FirstUnskipped(text) IN Kind(text, i) = "svg" /\ Complete(text, i)

(* What is_html and the XML check look at: only spaces are skipped.        *)
AfterSpace(text) ==
  Min({i \in 1..(Len(text) + 1) :
         Kind(text, i) # "space" /\ \A j \in 1..(i - 1) : Kind(text, j) = "space"})

(* A comment makes HTML before it is complete, a tag after its boundary.   *)
IsHtml(text) ==
  LET i == AfterSpace(text)
  IN \/ Kind(text, i) = "html" /\ Complete(text, i)
     \/ Kind(text, i) = "comment" /\ EndOf(text, i - 1) + 4 <= MaximumMimeSampleBytes

IsXml(text) ==
  LET i == AfterSpace(text)
  IN Kind(text, i) = "xml" /\ EndOf(text, i - 1) + 5 <= MaximumMimeSampleBytes

Bom(text) == Kind(text, 1) \in {"bom", "utf16be", "utf16le"}

BomType ==
  [bom |-> "text/plain; charset=utf-8", utf16be |-> "text/plain; charset=utf-16be",
   utf16le |-> "text/plain; charset=utf-16le"]

(* sniff_standard.                                                         *)
SniffStandard(body) ==
  LET signature == SignatureOf(body)
  IN CASE signature \in DOMAIN Binary -> Binary[signature]
       [] signature \notin DOMAIN Binary /\ IsSvg(body.text) -> "image/svg+xml"
       [] OTHER ->
            IF IsHtml(body.text) THEN "text/html; charset=utf-8"
            ELSE IF IsXml(body.text) THEN "text/xml; charset=utf-8"
            ELSE IF Bom(body.text) THEN BomType[body.text[1].kind]
            ELSE IF body.ftyp /\ body.brands[1] \in Mp4Brands THEN "video/mp4"
            ELSE IF signature \in DOMAIN Fonts THEN Fonts[signature]
            ELSE IF body.eot THEN "application/vnd.ms-fontobject"
            ELSE IF body.control THEN "application/octet-stream"
            ELSE "text/plain; charset=utf-8"

(* The sequence check comes first, the override for stills last; a wrong   *)
(* sniffer leaves the first one to the classification.                     *)
StillsOnly(body) == FALSE
IsSequence(body) == IsAnimatedAvif(body)

SniffMime(body) ==
  IF IsSequence(body) THEN "image/avif"
  ELSE IF /\ SniffStandard(body) = "application/octet-stream"
          /\ body.length >= 12 /\ body.ftyp /\ body.brands[1] = "avif"
    THEN "image/avif"
  ELSE SniffStandard(body)

(* What one body's fields have to do with each other, which all come from  *)
(* the same bytes: no signature of an image and no zero byte, a binary     *)
(* control byte, begins a text; and no body is larger than the download    *)
(* lets it be.                                                             *)
Coherent(body) ==
  /\ body.length <= 10485760
  /\ body.signature \in DOMAIN Binary \/ SmallBox(body) =>
       Kind(body.text, 1) \in {"words", "end"}
  /\ SmallBox(body) => body.control
-----------------------------------------------------------------------------
ConvertibleMimes ==
  {"image/avif", "image/ico", "image/jpeg", "image/jxl", "image/svg+xml", "image/png",
   "image/webp", "image/gif", "image/x-icon"}

Animated(body, mime) ==
  CASE mime = "image/gif" -> TRUE
    [] mime = "image/avif" -> IsAnimatedAvif(body)
    [] mime = "image/jxl" -> body.jxl_animation
    [] mime = "image/webp" -> body.anim
    [] OTHER -> FALSE

(* What convert_media makes of a body: an APNG is converted as one before  *)
(* force_static is looked at.                                              *)
Plan(body, force_static, preferred) ==
  LET mime == SniffMime(body)
      animated == ~force_static /\ Animated(body, mime)
  IN CASE mime = "image/png" /\ body.apng -> [converts |-> TRUE, animated |-> TRUE, output |-> "webp"]
       [] mime \notin ConvertibleMimes -> [converts |-> FALSE, animated |-> FALSE, output |-> "none"]
       [] OTHER -> [converts |-> TRUE, animated |-> animated,
                    output |-> IF animated THEN "webp" ELSE preferred]
=============================================================================
