--------------------------- MODULE RasterConversion ---------------------------
(***************************************************************************)
(* One image from its bytes to the encoder: convert_static_image with all  *)
(* the loads it has (src/src/media/static_conversion.cpp, and the SVG one  *)
(* in src/rust/resvg-shim/src/lib.rs), and the pages of                    *)
(* convert_animated_image (src/src/media/animated_conversion.cpp).  The    *)
(* geometry is that of Resize.                                             *)
(*                                                                         *)
(* libvips, libheif, libjxl and usvg are external: a file is a record of   *)
(* what they make of it, and any of their operations can fail.             *)
(***************************************************************************)
EXTENDS Integers, Sequences, FiniteSets

CONSTANTS
  Files,                 \* the files considered, see below
  Limits,                \* what select_media_options gives out
  MaxWidth, MaxHeight,   \* maximum_media_width and maximum_media_height
  MaxDataUrls,           \* MAX_DATA_URLS
  MaxDataUrlBytes,       \* MAX_DATA_URL_BYTES
  NoImage,               \* a null VipsImage
  Absent                 \* a metadata field that is not there

ASSUME RasterAssumption ==
  /\ MaxWidth \in Nat \ {0} /\ MaxHeight \in Nat \ {0}
  /\ MaxDataUrls \in Nat /\ MaxDataUrlBytes \in Nat
  /\ Limits \subseteq [width : Nat, height : Nat]

(* An image as libvips opened it, with its page metadata.                  *)
Image == [width : Int, height : Int, pages : Int \cup {Absent},
          page_height : Int \cup {Absent}]

(* A payload of an ICO directory, and whether an image opens from it.      *)
Entry == [place : {"empty", "outside", "inside"}, opens : Image \cup {NoImage}]

(* A data URL of an SVG.                                                   *)
DataUrl == [size : Nat, doctype : BOOLEAN, mime : {"svg", "text", "image"},
            raster : {"none", "fits", "exceeds"}, xml : BOOLEAN]

(* What every file has; its detail is a directory (ico), a frame (avif),   *)
(* the decoder's answers (jxl) or a document (svg).                        *)
File(detail) ==
  [mime : {"ico", "avif", "jxl", "svg", "other"},
   animated : BOOLEAN,            \* convert_animated_image, for "other" files only
   all : Image \cup {NoImage},    \* opened with "n", -1
   one : Image \cup {NoImage},    \* opened without
   detail : detail]

IcoDetail == [entries : Seq(Entry), count : Nat]
AvifDetail == [width : Nat, height : Nat, stride : Nat]
JxlDetail == [width : Nat, height : Nat, icc : {"none", "small", "over 10 MiB"}, size : Nat]
SvgDetail == [valid : BOOLEAN, urls : Seq(DataUrl), width : Nat, height : Nat]

ASSUME FilesAssumption ==
  \A f \in Files :
    /\ f \in File({f.detail})
    /\ f.mime = "ico" => f.detail \in IcoDetail
    /\ f.mime = "avif" => f.detail \in AvifDetail
    /\ f.mime = "jxl" => f.detail \in JxlDetail
    /\ f.mime = "svg" => f.detail \in SvgDetail

VARIABLES
  file,
  image,     \* loaded
  next,      \* the entry or the data URL that comes next
  embedded,  \* the data URLs that were resolved to images
  spent,     \* data_url_bytes
  pixels,    \* bytes decoded outside of libvips, or Undecoded
  owners,    \* what will release the AVIF frame when it is destroyed
  releases,  \* how often the frame was released
  loaded, limits, source, target, scale, pc   \* see Resize

decodeVars == <<next, embedded, spent, pixels, owners, releases>>
resizeVars == <<loaded, limits, source, target, scale>>
vars == <<file, image, decodeVars, resizeVars, pc>>

Geometry == INSTANCE Resize WITH Loaded <- {}, Pages <- {}

Undecoded == -1
NoLoad == [width |-> 0, height |-> 0, pages |-> 0, animated |-> FALSE]

Init ==
  /\ file \in Files
  /\ image = NoImage
  /\ next = 1
  /\ embedded = {}
  /\ spent = 0
  /\ pixels = Undecoded
  /\ owners = {}
  /\ releases = 0
  /\ loaded = NoLoad
  /\ limits = Geometry!None
  /\ source = Geometry!None
  /\ target = Geometry!None
  /\ scale = Geometry!Same
  /\ pc = "load"

(* An early return, with the destructors that run: the frame goes with     *)
(* whatever owns it.                                                       *)
End(result) ==
  /\ pc' = result
  /\ releases' = releases + Cardinality(owners)
  /\ owners' = {}

Reject ==
  /\ End("rejected")
  /\ UNCHANGED <<file, image, next, embedded, spent, pixels, resizeVars>>

Opened(width, height) ==
  [width |-> width, height |-> height, pages |-> Absent, page_height |-> Absent]

(* validate_dimensions for one page.                                       *)
Fits(width, height) == width \in 1..MaxWidth /\ height \in 1..MaxHeight
-----------------------------------------------------------------------------
(* load_image, for what libvips opens; an animation is opened with all its *)
(* pages or not at all.                                                    *)
ByVips == file.mime \notin {"svg", "jxl"}

Open ==
  /\ pc = "load"
  /\ ByVips
  /\ LET opens == IF file.all # NoImage \/ file.animated THEN file.all ELSE file.one
     IN opens # NoImage /\ image' = opens
  /\ pc' = "pages"
  /\ UNCHANGED <<file, decodeVars, resizeVars>>

Unopened ==
  /\ pc = "load" /\ ByVips
  /\ file.all = NoImage /\ (file.one = NoImage \/ file.animated)

OpensNothing == Unopened /\ file.mime = "other" /\ Reject

(* load_ico_fallback.  The entries are those the file has room for, of     *)
(* which the directory counts some, or more than there are.                *)
Directory == file.detail
DirectoryIsWhole == Directory.count > 0 /\ Directory.count <= Len(Directory.entries)

ReadDirectory ==
  /\ Unopened /\ file.mime = "ico"
  /\ IF DirectoryIsWhole
       THEN pc' = "entries" /\ UNCHANGED <<owners, releases>>
       ELSE End("rejected")
  /\ UNCHANGED <<file, image, next, embedded, spent, pixels, resizeVars>>

(* One entry's failure leaves the next one its turn; a wrong loop returns. *)
GivesUp(i) == Directory.count + 1
Following(i) == i + 1

TryEntry ==
  /\ pc = "entries"
  /\ next <= Directory.count
  /\ LET entry == Directory.entries[next]
     IN IF entry.place = "inside" /\ entry.opens # NoImage
          THEN image' = entry.opens /\ pc' = "pages" /\ UNCHANGED next
          ELSE next' = Following(next) /\ UNCHANGED <<image, pc>>
  /\ UNCHANGED <<file, embedded, spent, pixels, owners, releases, resizeVars>>

EntriesEnd == pc = "entries" /\ next > Directory.count /\ Reject
-----------------------------------------------------------------------------
(* load_avif_sequence_first_frame.  The frame is owned by the local that   *)
(* holds it, then by the image over its pixels, then by the cropped one; a *)
(* wrong hand-over leaves the first owner its claim.                       *)
Bands == 4
Packed == file.detail.width * Bands

BothOwn(from, to) == owners \cup {to}
HandedOver(from, to) == (owners \ {from}) \cup {to}

DecodeFrame ==
  /\ Unopened /\ file.mime = "avif"
  /\ \/ owners' = {"decoded"} /\ pc' = "frame" /\ pixels' = file.detail.stride * file.detail.height
        /\ UNCHANGED releases
     \/ End("rejected") /\ UNCHANGED pixels
  /\ UNCHANGED <<file, image, next, embedded, spent, resizeVars>>

FrameIsUsable ==
  /\ Fits(file.detail.width, file.detail.height)
  /\ file.detail.stride >= Packed
  /\ file.detail.stride % Bands = 0

WrapFrame ==
  /\ pc = "frame"
  /\ FrameIsUsable
  /\ owners' = HandedOver("decoded", "memory")
  /\ pc' = "memory"
  /\ UNCHANGED <<file, image, next, embedded, spent, pixels, releases, resizeVars>>

(* The locals go: "decoded" with what it may still own, but not an image   *)
(* that is returned or that the returned one refers to.                    *)
ReturnFrame ==
  /\ pc = "memory"
  /\ LET kept == IF file.detail.stride = Packed THEN owners ELSE HandedOver("memory", "cropped")
     IN /\ owners' = kept \ {"decoded"}
        /\ releases' = releases + Cardinality(kept \cap {"decoded"})
  /\ image' = Opened(file.detail.width, file.detail.height)
  /\ pc' = "pages"
  /\ UNCHANGED <<file, next, embedded, spent, pixels, resizeVars>>

(* The dimensions, the alpha frame, the stride or an allocation; or a crop.*)
FrameFails ==
  /\ pc = "frame" \/ (pc = "memory" /\ file.detail.stride # Packed)
  /\ Reject
-----------------------------------------------------------------------------
(* load_jxl_first_frame: what libjxl reports, in its order, is basic       *)
(* information, a colour encoding, the need for a buffer, the image; and   *)
(* an error instead of any of them.                                        *)
BeginJxl ==
  /\ pc = "load" /\ ~ByVips /\ file.mime = "jxl"
  /\ pc' = "basic info"
  /\ UNCHANGED <<file, image, decodeVars, resizeVars>>

BasicInfo ==
  /\ pc = "basic info"
  /\ Fits(file.detail.width, file.detail.height)
  /\ pc' = "colour"
  /\ UNCHANGED <<file, image, decodeVars, resizeVars>>

(* A profile that libjxl cannot give is done without.                      *)
ColorEncoding ==
  /\ pc = "colour"
  /\ file.detail.icc # "over 10 MiB"
  /\ pc' = "buffer"
  /\ UNCHANGED <<file, image, decodeVars, resizeVars>>

(* Only a buffer of the expected size; a wrong loader takes libjxl's word. *)
AnySize(size) == TRUE
ExpectedSize(size) == size = file.detail.width * file.detail.height * Bands

NeedBuffer ==
  /\ pc = "buffer"
  /\ ExpectedSize(file.detail.size)
  /\ pixels' = file.detail.size
  /\ pc' = "full image"
  /\ UNCHANGED <<file, image, next, embedded, spent, owners, releases, resizeVars>>

FullImage ==
  /\ pc = "full image"
  /\ image' = Opened(file.detail.width, file.detail.height)
  /\ pc' = "pages"
  /\ UNCHANGED <<file, decodeVars, resizeVars>>

JxlFails == pc \in {"basic info", "colour", "buffer", "full image"} /\ Reject
-----------------------------------------------------------------------------
(* load_svg: validate_xml, then the data URLs in the order usvg meets them.*)
ParseDocument ==
  /\ pc = "load" /\ ~ByVips /\ file.mime = "svg"
  /\ IF file.detail.valid
       THEN pc' = "urls" /\ UNCHANGED <<owners, releases>>
       ELSE End("rejected")
  /\ UNCHANGED <<file, image, next, embedded, spent, pixels, resizeVars>>

Url == file.detail.urls[next]
Counted == next <= MaxDataUrls /\ ~Url.doctype
Affordable == spent + Url.size <= MaxDataUrlBytes

(* What does not fit is not charged; a wrong budget is.                    *)
ChargedAnyway == spent + Url.size
Charged == IF Affordable THEN spent + Url.size ELSE spent

ReadAsXml == Url.mime = "svg" \/ (Url.mime = "text" /\ Url.raster = "none")
Embeddable == Url.raster # "exceeds" /\ (ReadAsXml => Url.xml)

ResolveData ==
  /\ pc = "urls"
  /\ next <= Len(file.detail.urls)
  /\ spent' = IF Counted THEN Charged ELSE spent
  /\ embedded' = IF Counted /\ Affordable /\ Embeddable THEN embedded \cup {next} ELSE embedded
  /\ next' = next + 1
  /\ UNCHANGED <<file, image, pixels, owners, releases, resizeVars, pc>>

(* mp_resvg_render into a buffer of the tree's size.                       *)
Render ==
  /\ pc = "urls"
  /\ next > Len(file.detail.urls)
  /\ Fits(file.detail.width, file.detail.height)
  /\ pixels' = file.detail.width * file.detail.height * Bands
  /\ image' = Opened(file.detail.width, file.detail.height)
  /\ pc' = "pages"
  /\ UNCHANGED <<file, next, embedded, spent, owners, releases, resizeVars>>

SvgFails == pc = "urls" /\ next > Len(file.detail.urls) /\ Reject
-----------------------------------------------------------------------------
(* The page metadata, which an animation must have.                        *)
Given(field, fallback) == IF field = Absent THEN fallback ELSE field
PageCount == Given(image.pages, 1)
PageHeight == Given(image.page_height, image.height)

(* A wrong form does without the remainder.                                *)
PagesByQuotient ==
  /\ file.animated => image.pages # Absent /\ image.page_height # Absent
  /\ PageCount > 0 /\ PageHeight > 0
  /\ image.height \div PageHeight = PageCount

PagesAreWhole ==
  /\ file.animated => image.pages # Absent /\ image.page_height # Absent
  /\ PageCount > 0 /\ PageHeight > 0
  /\ image.height % PageHeight = 0
  /\ image.height \div PageHeight = PageCount

(* The limits are the request's; nothing reads them before this.           *)
ReadPages ==
  /\ pc = "pages"
  /\ PagesAreWhole
  /\ loaded' = [width |-> image.width,
                height |-> IF file.animated THEN image.height ELSE PageHeight,
                pages |-> IF file.animated THEN PageCount ELSE 1,
                animated |-> file.animated]
  /\ limits' \in Limits
  /\ pc' = "validate"
  /\ UNCHANGED <<file, image, decodeVars, source, target, scale>>

PagesFail == pc = "pages" /\ ~PagesAreWhole /\ Reject

Validate ==
  /\ Geometry!Validate
  /\ IF pc' = "rejected"
       THEN releases' = releases + Cardinality(owners) /\ owners' = {}
       ELSE UNCHANGED <<owners, releases>>
  /\ UNCHANGED <<file, image, next, embedded, spent, pixels>>

Scale ==
  /\ Geometry!ResizeStatic \/ Geometry!ResizeAnimated
  /\ UNCHANGED <<file, image, decodeVars>>

(* vips_crop of the first page, the resize, and the encoder: every one of  *)
(* them reads the pixels.                                                  *)
Encode ==
  /\ pc = "done"
  /\ End("encoded")
  /\ UNCHANGED <<file, image, next, embedded, spent, pixels, resizeVars>>

EncodeFails == pc = "done" /\ Reject

Next ==
  \/ Open \/ OpensNothing
  \/ ReadDirectory \/ TryEntry \/ EntriesEnd
  \/ DecodeFrame \/ WrapFrame \/ ReturnFrame \/ FrameFails
  \/ BeginJxl \/ BasicInfo \/ ColorEncoding \/ NeedBuffer \/ FullImage \/ JxlFails
  \/ ParseDocument \/ ResolveData \/ Render \/ SvgFails
  \/ ReadPages \/ PagesFail \/ Validate \/ Scale \/ Encode \/ EncodeFails

Spec == Init /\ [][Next]_vars
-----------------------------------------------------------------------------
Ended == pc \in {"encoded", "rejected"}
Reading == pc \in {"pages", "validate", "resize", "done", "encoded"}

(* See Resize.                                                             *)
NeverUpscales == Geometry!NeverUpscales
OneLimitMet == Geometry!OneLimitMet
AspectKept == Geometry!AspectKept

(* What is scaled is one page, all of it and nothing of another.  The rows *)
(* of an image are those of equally high pages, as many as its metadata    *)
(* says, or of one page if the load gave it none; whatever path it came by,*)
(* source is the size of such a page, and an image in such pages is refused*)
(* only for the size of one, or as an animation without metadata.          *)
Rows == IF image.page_height = Absent THEN image.height ELSE image.page_height
EqualPages ==
  LET pages == IF image.pages = Absent THEN 1 ELSE image.pages
  IN pages > 0 /\ Rows > 0 /\ pages * Rows = image.height

WholePageShown ==
  /\ pc \in {"resize", "done", "encoded"} =>
       EqualPages /\ source = [width |-> image.width, height |-> Rows]
  /\ pc = "rejected" /\ image # NoImage /\ source = [width |-> 0, height |-> 0] =>
       \/ ~EqualPages
       \/ ~Fits(image.width, Rows)
       \/ file.animated /\ Absent \in {image.pages, image.page_height}

(* The image of an ICO file that libvips has no loader for is the one of   *)
(* its first entry that lies in the file and opens, and none only if there *)
(* is no such entry in a whole directory: an entry that is empty, outside  *)
(* or unreadable costs no later one its turn, and what lies behind the     *)
(* counted entries is none.                                                *)
FirstOpeningEntry ==
  file.mime = "ico" /\ file.all = NoImage /\ file.one = NoImage =>
    LET usable == {i \in DOMAIN Directory.entries :
                     /\ i <= Directory.count
                     /\ Directory.entries[i].place = "inside"
                     /\ Directory.entries[i].opens # NoImage}
    IN /\ Reading =>
            \E i \in usable : /\ image = Directory.entries[i].opens
                              /\ \A j \in usable : i <= j
       /\ Ended /\ image = NoImage => usable = {} \/ Directory.count > Len(Directory.entries)

(* The data URLs that are in order by themselves.                          *)
Sound(urls) ==
  {i \in DOMAIN urls :
     /\ ~urls[i].doctype /\ urls[i].raster # "exceeds"
     /\ urls[i].xml \/ urls[i].mime = "image" \/ (urls[i].mime = "text" /\ urls[i].raster = "fits")}

(* Those of the first i that could be charged at all.                      *)
Chargeable(urls, i) == {j \in 1..i : ~urls[j].doctype /\ urls[j].size <= MaxDataUrlBytes}

(* Bytes(urls, set)[k] is the size of those of a set among the first k.    *)
Bytes(urls, set) ==
  LET sum[k \in 0..Len(urls)] ==
        IF k = 0 THEN 0 ELSE sum[k - 1] + (IF k \in set THEN urls[k].size ELSE 0)
  IN sum

(* The images embedded in an SVG take no more than the budget together, and*)
(* none comes after the last URL that is counted.  A URL is left out for   *)
(* its own contents or for the URLs before it: one that alone exceeds the  *)
(* budget, or has a document type, costs the others nothing.               *)
EmbeddedWithinBudget ==
  file.mime = "svg" /\ file.detail.valid =>
    LET urls == file.detail.urls
        bytes(set) == Bytes(urls, set)[Len(urls)]
    IN /\ bytes(embedded) <= MaxDataUrlBytes
       /\ embedded \subseteq Sound(urls) \cap (1..MaxDataUrls)
       /\ \A i \in Sound(urls) \cap (1..(next - 1)) :
            i <= MaxDataUrls /\ bytes(Chargeable(urls, i) \cup {i}) <= MaxDataUrlBytes => i \in embedded

(* An image decoded outside of libvips has four bytes for each of its      *)
(* pixels, and while libvips can still read them they are not released;    *)
(* afterwards they are, once, however the conversion ended.                *)
PixelsBehindTheImage ==
  /\ Reading /\ pixels # Undecoded => image.width * image.height * Bands <= pixels
  /\ owners # {} => releases = 0
  /\ pc \in {"pages", "validate", "resize", "done"} /\ file.mime = "avif" /\ pixels # Undecoded =>
       owners # {}
  /\ Ended => releases = IF file.mime = "avif" /\ pixels # Undecoded THEN 1 ELSE 0
=============================================================================
