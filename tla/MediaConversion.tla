---------------------------- MODULE MediaConversion ----------------------------
(***************************************************************************)
(* One conversion after another in the same process: convert_media         *)
(* (src/src/media/conversion.cpp), the choice of a path                    *)
(* (src/src/media/classification.cpp), the loads of convert_static_image   *)
(* (src/src/media/static_conversion.cpp) and of convert_animated_image,    *)
(* and the body they read, which handle_function_url_event owns            *)
(* (src/src/handler.cpp).                                                  *)
(*                                                                         *)
(* libvips is external.  It keeps a cache of load operations, found again  *)
(* by the address of the buffer and the load options, whose lazy images    *)
(* still refer to that buffer; it drops entries as it likes.  The allocator*)
(* can hand out an address again once it was freed.  libvips's error buffer*)
(* holds messages only, and is left out.                                   *)
(***************************************************************************)
EXTENDS Naturals

CONSTANTS
  Buffers,    \* addresses a response body can have
  Bodies,     \* what a body can be, see Body
  Free        \* no body at this address

Loads == {"all pages", "first page", "entry"}

Mimes == {"png", "gif", "webp", "avif", "jxl", "svg", "ico", "jpeg", "unconvertible"}

(* A body, by all that the code asks of it: its number, what sniff_mime and*)
(* classify_apng say, whether its own header says animated, and the loads  *)
(* that libvips can do.                                                    *)
Body == [id : Nat, mime : Mimes, apng : BOOLEAN, animated : BOOLEAN, opens : SUBSET Loads]

ASSUME ConversionAssumption ==
  /\ Bodies \subseteq Body
  /\ \A one, other \in Bodies : one.id = other.id => one = other
  /\ \A one \in Bodies : one.id # 0
  /\ Free \notin Bodies

VARIABLES
  heap,          \* what is at each address
  body,          \* the address of the request's body
  force_static,  \* the request's options
  preferred,
  pc,
  load,          \* the load that is tried next
  image,         \* the body the image being converted was decoded from
  cache,         \* libvips's cached loads
  result         \* format of the converted body and the body it shows, or failed

requestVars == <<body, force_static, preferred>>
vars == <<heap, requestVars, pc, load, image, cache, result>>

NoImage == 0
Failed == [format |-> "none", shows |-> NoImage]

Init ==
  /\ heap = [b \in Buffers |-> Free]
  /\ body \in Buffers
  /\ force_static = FALSE
  /\ preferred = "webp"
  /\ pc = "idle"
  /\ load = "all pages"
  /\ image = NoImage
  /\ cache = {}
  /\ result = Failed

Source == heap[body]
-----------------------------------------------------------------------------
(* The handler has downloaded a body, at whatever address is free.         *)
Request(address, content) ==
  /\ pc = "idle"
  /\ heap[address] = Free
  /\ heap' = [heap EXCEPT ![address] = content]
  /\ body' = address
  /\ force_static' \in BOOLEAN
  /\ preferred' \in {"webp", "avif"}
  /\ pc' = "classify"
  /\ image' = NoImage
  /\ result' = Failed
  /\ UNCHANGED <<load, cache>>

(* classify_media: who is animated, and what that makes the output.        *)
Convertible == Source.mime # "unconvertible"
Animated ==
  ~force_static /\ (Source.mime = "gif" \/ (Source.mime \in {"avif", "jxl", "webp"} /\ Source.animated))

IsApng == Source.mime = "png" /\ Source.apng

(* The format an image is encoded in.                                      *)
Format == IF IsApng \/ Animated THEN "webp" ELSE preferred

(* Paths that decode the body without libvips's loaders.                   *)
OwnDecoder ==
  IF Animated THEN Source.mime \in {"avif", "jxl"} ELSE Source.mime \in {"svg", "jxl"}

Classify ==
  /\ pc = "classify"
  /\ IF ~Convertible THEN pc' = "return" /\ UNCHANGED <<load, image>>
     ELSE IF IsApng THEN pc' = "load" /\ load' = "first page" /\ UNCHANGED image
     ELSE IF OwnDecoder
       THEN pc' = "decode" /\ UNCHANGED <<load, image>>
     ELSE pc' = "load" /\ load' = "all pages" /\ UNCHANGED image
  /\ UNCHANGED <<heap, requestVars, cache, result>>

(* libheif, libjxl or resvg, and the copy of its pixels.                   *)
Decode ==
  /\ pc = "decode"
  /\ \/ pc' = "encode" /\ image' = Source.id
     \/ pc' = "return" /\ UNCHANGED image
  /\ UNCHANGED <<heap, requestVars, load, cache, result>>

Hits == {c \in cache : c.address = body /\ c.load = load}

(* vips_image_new_from_buffer: the operation found in the cache, or a load *)
(* of the body that libvips may remember.                                  *)
Opened == IF Hits = {} THEN {Source.id} ELSE {c.id : c \in Hits}

LoadOpens ==
  /\ pc = "load"
  /\ Hits # {} \/ load \in Source.opens
  /\ image' \in Opened
  /\ pc' = "encode"
  /\ cache' \in SUBSET (cache \cup {[address |-> body, load |-> load, id |-> image']})
  /\ UNCHANGED <<heap, requestVars, load, result>>

(* What is tried after a load that failed: a static load without the page  *)
(* option, which some loaders do not have, then the AVIF sequence or the   *)
(* directory of an ICO file.  libvips remembers operations that were built,*)
(* so a failed load leaves none.                                           *)
LoadFails ==
  /\ pc = "load"
  /\ Hits = {}
  /\ load \notin Source.opens
  /\ IF IsApng \/ Animated THEN pc' = "return" /\ UNCHANGED load
     ELSE IF load = "all pages" THEN load' = "first page" /\ UNCHANGED pc
     ELSE IF load = "first page" /\ Source.mime = "avif" THEN pc' = "decode" /\ UNCHANGED load
     ELSE IF load = "first page" /\ Source.mime = "ico" THEN load' = "entry" /\ UNCHANGED pc
     ELSE pc' = "return" /\ UNCHANGED load
  /\ UNCHANGED <<heap, requestVars, image, cache, result>>

(* Dimensions, crop, resize and encoding, or the frames of an APNG: each   *)
(* reads pixels of the lazy image, and each can fail.                      *)
Encode ==
  /\ pc = "encode"
  /\ pc' = "return"
  /\ \/ result' = [format |-> Format, shows |-> image]
     \/ UNCHANGED result
  /\ UNCHANGED <<heap, requestVars, load, image, cache>>

(* std::bad_alloc, anywhere.                                               *)
Throw ==
  /\ pc \in {"classify", "decode", "load", "encode"}
  /\ pc' = "unwind"
  /\ UNCHANGED <<heap, requestVars, load, image, cache, result>>

(* RequestStateReset runs on every way out of convert_media; a wrong one,  *)
(* a call before the last return, misses exceptions.                       *)
OnReturnOnly(left) == IF pc = "return" THEN {} ELSE left
Reset(left) == {}

Leave ==
  /\ pc \in {"return", "unwind"}
  /\ cache' = Reset(cache)
  /\ pc' = "free"
  /\ UNCHANGED <<heap, requestVars, load, image, result>>

(* The handler's download, and the body with it, is destroyed.             *)
Release ==
  /\ pc = "free"
  /\ heap' = [heap EXCEPT ![body] = Free]
  /\ pc' = "idle"
  /\ UNCHANGED <<requestVars, load, image, cache, result>>

Next ==
  \/ \E address \in Buffers, content \in Bodies : Request(address, content)
  \/ Classify \/ Decode
  \/ LoadOpens \/ LoadFails
  \/ Encode \/ Throw \/ Leave \/ Release

Spec == Init /\ [][Next]_vars
-----------------------------------------------------------------------------
(* The variables' types; a format is one the encoders have.                *)
TypeOK ==
  /\ heap \in [Buffers -> Bodies \cup {Free}]
  /\ body \in Buffers
  /\ force_static \in BOOLEAN
  /\ preferred \in {"webp", "avif"}
  /\ pc \in {"idle", "classify", "decode", "load", "encode", "return", "unwind", "free"}
  /\ pc # "idle" => heap[body] \in Bodies
  /\ load \in Loads
  /\ image \in Nat
  /\ cache \subseteq [address : Buffers, load : Loads, id : Nat]
  /\ result \in [format : {"none", "webp", "avif"}, shows : Nat]

(* No cached operation outlives the buffer it reads: whatever libvips keeps*)
(* was decoded from what is still at that address, also after an exception.*)
CacheIsAlive ==
  \A c \in cache : heap[c.address] # Free /\ heap[c.address].id = c.id

(* Requests do not see each other's images: what is converted, and what is *)
(* returned, was decoded from this request's body, though addresses are    *)
(* reused and libvips goes by addresses.                                   *)
OwnImage ==
  pc # "idle" => image \in {NoImage, Source.id} /\ result.shows \in {NoImage, Source.id}

=============================================================================
