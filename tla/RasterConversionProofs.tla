------------------------- MODULE RasterConversionProofs -------------------------
(***************************************************************************)
(* Theorems about RasterConversion, with the geometry of Resize, for any   *)
(* files, limits and caps: what a resize may ask for, which page and which *)
(* entry of an icon is shown, what an SVG may embed, and who owns the      *)
(* pixels libheif decoded.                                                 *)
(***************************************************************************)
EXTENDS RasterConversion, FiniteSetTheorems, WellFoundedInduction, TLAPS

Steps == {"load", "entries", "frame", "memory", "basic info", "colour", "buffer", "full image",
          "urls", "pages", "validate", "resize", "done", "encoded", "rejected"}

TypeOK ==
  /\ file \in Files
  /\ image \in Image \cup {NoImage}
  /\ next \in Nat \ {0}
  /\ embedded \subseteq 1..MaxDataUrls
  /\ spent \in 0..MaxDataUrlBytes
  /\ pixels \in Int
  /\ owners \subseteq {"decoded", "memory", "cropped"}
  /\ releases \in Nat
  /\ loaded \in [width : Int, height : Int, pages : Nat, animated : BOOLEAN]
  /\ limits \in [width : Nat, height : Nat]
  /\ source \in [width : Int, height : Int]
  /\ target \in [width : Int, height : Int]
  /\ scale \in [num : Nat, den : Nat]
  /\ pc \in Steps

(* Which loader is at work, and that it has an image when it is done.      *)
LoaderInv ==
  /\ pc = "entries" => file.mime = "ico" /\ DirectoryIsWhole
  /\ pc \in {"frame", "memory"} => file.mime = "avif"
  /\ pc \in {"basic info", "colour", "buffer", "full image"} => file.mime = "jxl"
  /\ pc = "urls" => file.mime = "svg"
  /\ pc = "pages" => image \in Image

(* Where the decoded pixels are, and whose they are.                       *)
DecodedBytes == file.detail.stride * file.detail.height
Usable == {i \in DOMAIN Directory.entries :
             /\ i <= Directory.count
             /\ Directory.entries[i].place = "inside"
             /\ Directory.entries[i].opens # NoImage}
IsDecoded == file.mime = "avif" /\ pixels # Undecoded

OwnerInv ==
  /\ pc \in {"load", "entries", "basic info", "colour", "buffer", "urls"} =>
       pixels = Undecoded
  /\ pc = "frame" => owners = {"decoded"} /\ pixels = DecodedBytes
  /\ pc = "memory" => owners = {"memory"} /\ pixels = DecodedBytes /\ FrameIsUsable
  /\ pc = "full image" => pixels = file.detail.width * file.detail.height * Bands
  /\ Reading /\ pixels # Undecoded => image.width * image.height * Bands <= pixels
  /\ ~Ended => releases = 0 /\ owners \in IF IsDecoded THEN {{"decoded"}, {"memory"}, {"cropped"}}
                                          ELSE {{}}
  /\ Ended => owners = {} /\ releases = IF IsDecoded THEN 1 ELSE 0

(* The entries passed over are of no use.                                  *)
EntryInv ==
  file.mime = "ico" /\ file.all = NoImage /\ file.one = NoImage =>
    /\ pc \in {"load", "entries"} => image = NoImage
    /\ pc = "load" => next = 1
    /\ pc = "entries" => next <= Directory.count + 1 /\ \A i \in Usable : next <= i
    /\ Reading => \E i \in Usable : /\ image = Directory.entries[i].opens
                                    /\ \A j \in Usable : i <= j
    /\ Ended /\ image = NoImage => Usable = {} \/ ~DirectoryIsWhole

(* What validate_dimensions and the resize have worked out so far.         *)
GeometryInv ==
  /\ pc \in {"validate", "resize", "done"} => loaded.pages > 0
  /\ pc \in {"resize", "done"} =>
       /\ Geometry!PagesFit
       /\ source = [width |-> loaded.width, height |-> Geometry!FrameHeight]
       /\ source.width > 0 /\ source.height > 0
  /\ pc = "done" => IF loaded.animated THEN target \in Geometry!Targets ELSE scale = Geometry!Scale

(* The budget of an SVG between what was embedded and what could have been *)
(* charged for, as far as the data URLs are read.                          *)
SvgInv ==
  file.mime = "svg" /\ file.detail.valid =>
    LET urls == file.detail.urls
        chargeable == Chargeable(urls, Len(urls))
    IN /\ next <= Len(urls) + 1
       /\ embedded \subseteq Sound(urls) \cap (1..(next - 1))
       /\ Bytes(urls, embedded)[next - 1] <= spent
       /\ spent <= Bytes(urls, chargeable)[next - 1]
       /\ \A i \in Sound(urls) \cap (1..(next - 1)) :
            /\ i <= MaxDataUrls
            /\ Bytes(urls, Chargeable(urls, i) \cup {i})[Len(urls)] <= MaxDataUrlBytes
            => i \in embedded

IInv == TypeOK /\ LoaderInv /\ OwnerInv /\ EntryInv /\ GeometryInv /\ SvgInv
-----------------------------------------------------------------------------
(* Resize: std::round, and what it makes of the limits.                    *)
LEMMA RoundedIsNear ==
  ASSUME NEW n \in Nat, NEW d \in Nat \ {0}, NEW v \in Geometry!Rounded(n, d)
  PROVE  v \in Int /\ 2 * (v * d - n) \in (-d)..d
<1> DEFINE a == 2 * n + d
           b == 2 * d
           q == a \div b
           r == a % b
<1>1. a \in Nat /\ b \in Nat \ {0}
  OBVIOUS
<1>2. q \in Nat /\ r \in 0..(b - 1) /\ a = b * q + r
  <2> HIDE DEF a, b
  <2>1. QED BY <1>1
<1>3. v \in IF r = 0 THEN {q - 1, q} ELSE {q}
  BY DEF Geometry!Rounded
<1> HIDE DEF q, r
<1>4. CASE v = q
  <2>1. b * q = 2 * (v * d)
    BY <1>2, <1>4
  <2>2. v * d \in Int
    BY <1>2, <1>4
  <2>3. QED BY <1>2, <1>4, <2>1, <2>2
<1>5. CASE v = q - 1 /\ r = 0
  <2>1. b * q = 2 * (v * d) + b
    BY <1>2, <1>5
  <2>2. v * d \in Int
    BY <1>2, <1>5
  <2>3. QED BY <1>2, <1>5, <2>1, <2>2
<1>6. QED BY <1>3, <1>4, <1>5

(* A side scaled down by a factor below one does not grow.                 *)
LEMMA RoundedIsNotLarger ==
  ASSUME NEW k \in Nat, NEW d \in Nat \ {0}, k < d, NEW side \in Nat \ {0},
         NEW v \in Geometry!Rounded(k * side, d)
  PROVE  v \in Int /\ v <= side
<1>1. k * side \in Nat
  OBVIOUS
<1>2. v \in Int /\ 2 * (v * d - k * side) <= d
  <2> DEFINE n == k * side
  <2>1. n \in Nat /\ v \in Geometry!Rounded(n, d)
    BY <1>1
  <2> HIDE DEF n
  <2>2. v \in Int /\ 2 * (v * d - n) \in (-d)..d
    BY <2>1, RoundedIsNear
  <2>3. v * d \in Int
    BY <2>2
  <2>4. 2 * (v * d - n) <= d
    BY <2>1, <2>2, <2>3
  <2>5. QED BY <2>2, <2>4 DEF n
<1>3. ASSUME v > side PROVE FALSE
  <2>1. v * d >= (side + 1) * d
    <3>1. v - (side + 1) \in Nat
      BY <1>2, <1>3
    <3>2. (v - (side + 1)) * d \in Nat
      BY <3>1
    <3>3. (v - (side + 1)) * d = v * d - (side + 1) * d
      BY <1>2
    <3>4. v * d \in Int /\ (side + 1) * d \in Int
      BY <1>2
    <3>5. QED BY <3>2, <3>3, <3>4
  <2>2. k * side <= d * side
    <3>1. (d - k) * side \in Nat
      OBVIOUS
    <3>2. (d - k) * side = d * side - k * side
      OBVIOUS
    <3>3. d * side \in Nat
      OBVIOUS
    <3>4. QED BY <1>1, <3>1, <3>2, <3>3
  <2>3. (side + 1) * d = d * side + d
    OBVIOUS
  <2>4. v * d \in Int /\ d * side \in Int
    BY <1>2
  <2>5. v * d - k * side >= d
    BY <1>1, <2>1, <2>2, <2>3, <2>4
  <2>6. v * d - k * side \in Int
    BY <1>1, <2>4
  <2>7. QED BY <1>2, <2>5, <2>6
<1>4. QED BY <1>2, <1>3

(* What the resize of an animation may ask for, whatever the limits.       *)
Distortion(t) == 2 * (t.width * source.height - t.height * source.width)

LEMMA TargetsFit ==
  ASSUME source \in [width : Int, height : Int], source.width > 0, source.height > 0,
         limits \in [width : Nat, height : Nat],
         NEW t \in Geometry!Targets
  PROVE  /\ t \in [width : Int, height : Int]
         /\ t.width \in 1..source.width /\ t.height \in 1..source.height
         /\ t # source =>
              \/ source.width > limits.width /\ t.width <= limits.width
              \/ source.height > limits.height /\ t.height <= limits.height
         /\ \/ Distortion(t) \in (-source.width)..source.width
            \/ Distortion(t) \in (-source.height)..source.height
<1> DEFINE w == source.width
           h == source.height
           kept == Geometry!Kept
           Fine(u) ==
             /\ u \in [width : Int, height : Int]
             /\ u.width \in 1..w /\ u.height \in 1..h
             /\ u # source =>
                  \/ w > limits.width /\ u.width <= limits.width
                  \/ h > limits.height /\ u.height <= limits.height
             /\ \/ Distortion(u) \in (-w)..w
                \/ Distortion(u) \in (-h)..h
<1>1. w \in Nat \ {0} /\ h \in Nat \ {0}
  OBVIOUS
<1>2. /\ kept.width \in Nat /\ kept.height \in Nat
      /\ kept.width # 0 => kept.width = limits.width
      /\ kept.height # 0 => kept.height = limits.height
  BY DEF Geometry!Kept
<1>3. Fine(source)
  <2>1. Distortion(source) = 0
    <3>1. \A a, b \in Nat : 2 * (a * b - b * a) = 0
      OBVIOUS
    <3>2. QED BY <1>1, <3>1 DEF Distortion
  <2>2. QED BY <1>1, <2>1
<1>4. ASSUME kept.width # 0, w > kept.width, NEW v \in Geometry!Rounded(kept.width * h, w)
      PROVE  Fine(Geometry!OrSource(kept.width, v))
  <2> DEFINE k == kept.width
             n == k * h
  <2>1. k \in Nat \ {0} /\ k < w /\ k = limits.width
    BY <1>1, <1>2, <1>4
  <2> HIDE DEF w, h, k
  <2>2. n \in Nat
    BY <1>1, <2>1
  <2>3. v \in Int /\ v <= h
    BY <1>1, <1>4, <2>1, RoundedIsNotLarger DEF k
  <2>4. 2 * (v * w - n) \in (-w)..w
    <3> HIDE DEF n
    <3>1. v \in Geometry!Rounded(n, w)
      BY <1>4 DEF k, n
    <3>2. QED BY <1>1, <2>2, <3>1, RoundedIsNear
  <2> DEFINE u == [width |-> k, height |-> v]
  <2>5. CASE v < 1
    <3>1. Geometry!OrSource(k, v) = source
      BY <2>5 DEF Geometry!OrSource
    <3>2. QED BY <1>3, <3>1 DEF k
  <2>6. CASE v >= 1
    <3>1. Geometry!OrSource(k, v) = u
      BY <2>1, <2>3, <2>6 DEF Geometry!OrSource
    <3>2. Distortion(u) \in (-w)..w
      <4>1. Distortion(u) = 2 * (k * h - v * w)
        BY DEF Distortion, w, h
      <4>2. v * w \in Int /\ n = k * h
        BY <1>1, <2>3
      <4> HIDE DEF n
      <4>3. QED BY <1>1, <2>2, <2>4, <4>1, <4>2
    <3>3. /\ u \in [width : Int, height : Int]
          /\ u.width \in 1..w /\ u.height \in 1..h
          /\ w > limits.width /\ u.width <= limits.width
      BY <1>1, <2>1, <2>3, <2>6
    <3> HIDE DEF u
    <3>4. Fine(u)
      BY <3>2, <3>3
    <3>5. QED BY <3>1, <3>4 DEF k
  <2>7. QED BY <2>3, <2>5, <2>6
<1>5. ASSUME kept.width = 0, kept.height # 0, h > kept.height,
             NEW v \in Geometry!Rounded(kept.height * w, h)
      PROVE  Fine(Geometry!OrSource(v, kept.height))
  <2> DEFINE k == kept.height
             n == k * w
  <2>1. k \in Nat \ {0} /\ k < h /\ k = limits.height
    BY <1>1, <1>2, <1>5
  <2> HIDE DEF w, h, k
  <2>2. n \in Nat
    BY <1>1, <2>1
  <2>3. v \in Int /\ v <= w
    BY <1>1, <1>5, <2>1, RoundedIsNotLarger DEF k
  <2>4. 2 * (v * h - n) \in (-h)..h
    <3> HIDE DEF n
    <3>1. v \in Geometry!Rounded(n, h)
      BY <1>5 DEF k, n
    <3>2. QED BY <1>1, <2>2, <3>1, RoundedIsNear
  <2> DEFINE u == [width |-> v, height |-> k]
  <2>5. CASE v < 1
    <3>1. Geometry!OrSource(v, k) = source
      BY <2>5 DEF Geometry!OrSource
    <3>2. QED BY <1>3, <3>1 DEF k
  <2>6. CASE v >= 1
    <3>1. Geometry!OrSource(v, k) = u
      BY <2>1, <2>3, <2>6 DEF Geometry!OrSource
    <3>2. Distortion(u) \in (-h)..h
      <4>1. Distortion(u) = 2 * (v * h - k * w)
        BY DEF Distortion, w, h
      <4>2. n = k * w
        OBVIOUS
      <4> HIDE DEF n
      <4>3. QED BY <2>4, <4>1, <4>2
    <3>3. /\ u \in [width : Int, height : Int]
          /\ u.width \in 1..w /\ u.height \in 1..h
          /\ h > limits.height /\ u.height <= limits.height
      BY <1>1, <2>1, <2>3, <2>6
    <3> HIDE DEF u
    <3>4. Fine(u)
      BY <3>2, <3>3
    <3>5. QED BY <3>1, <3>4 DEF k
  <2>7. QED BY <2>3, <2>5, <2>6
<1>6. Fine(t)
  <2>1. CASE t = source
    BY <1>3, <2>1
  <2>2. CASE /\ kept.width # 0 /\ w > kept.width
             /\ \E v \in Geometry!Rounded(kept.width * h, w) :
                  t = Geometry!OrSource(kept.width, v)
    <3> HIDE DEF Fine, kept
    <3>1. QED BY <1>4, <2>2
  <2>3. CASE /\ kept.width = 0 /\ kept.height # 0 /\ h > kept.height
             /\ \E v \in Geometry!Rounded(kept.height * w, h) :
                  t = Geometry!OrSource(v, kept.height)
    <3> HIDE DEF Fine, kept
    <3>1. QED BY <1>5, <2>3
  <2>4. QED BY <2>1, <2>2, <2>3 DEF Geometry!Targets
<1>7. QED BY <1>6

(* And the scale of a static image.                                        *)
LEMMA ScaleFits ==
  ASSUME source \in [width : Int, height : Int], source.width > 0, source.height > 0,
         limits \in [width : Nat, height : Nat],
         scale = Geometry!Scale
  PROVE  /\ scale \in [num : Nat, den : Nat]
         /\ scale.num <= scale.den
         /\ scale # Geometry!Same =>
              \/ source.width > limits.width
                   /\ scale.num * source.width <= limits.width * scale.den
              \/ source.height > limits.height
                   /\ scale.num * source.height <= limits.height * scale.den
<1>1. /\ source.width \in Nat /\ source.height \in Nat
      /\ limits.width \in Nat /\ limits.height \in Nat
  OBVIOUS
<1>2. CASE scale = Geometry!Same
  BY <1>2 DEF Geometry!Same
<1>3. CASE ~Geometry!Within /\ Geometry!HeightDecides
           /\ scale = [num |-> limits.height, den |-> source.height]
  <2>1. source.height > limits.height
    BY <1>1, <1>3 DEF Geometry!Within, Geometry!HeightDecides, Geometry!WidthExcess,
                      Geometry!HeightExcess
  <2>2. limits.height * source.height \in Nat
    BY <1>1
  <2>3. QED BY <1>1, <1>3, <2>1, <2>2
<1>4. CASE ~Geometry!Within /\ ~Geometry!HeightDecides
           /\ scale = [num |-> limits.width, den |-> source.width]
  <2>1. source.width > limits.width
    BY <1>1, <1>4 DEF Geometry!Within, Geometry!HeightDecides, Geometry!WidthExcess,
                      Geometry!HeightExcess
  <2>2. limits.width * source.width \in Nat
    BY <1>1
  <2>3. QED BY <1>1, <1>4, <2>1, <2>2
<1>5. QED BY <1>2, <1>3, <1>4 DEF Geometry!Scale
-----------------------------------------------------------------------------
(* Every step reads the same file.                                         *)
(* What the data URLs come to.                                             *)
LEMMA Least ==
  ASSUME NEW D, D \subseteq Nat, D # {}
  PROVE  \E m \in D : \A j \in D : m <= j
<1>1. PICK m \in D : \A j \in D : ~(<<j, m>> \in OpToRel(<, Nat))
  BY WFMin, NatLessThanWellFounded
<1>2. \A j \in D : ~(j < m)
  BY <1>1 DEF OpToRel
<1> QED
  BY <1>2

SumsUp(f, d, n) == f[0] = 0 /\ \A k \in 1..n : f[k] = f[k - 1] + d[k]

(* Two running sums of the same terms.                                     *)
LEMMA SumsAgree ==
  ASSUME NEW n \in Nat, NEW f, NEW g, NEW d, SumsUp(f, d, n), SumsUp(g, d, n)
  PROVE  f[n] = g[n]
<1> DEFINE D == {k \in 0..n : f[k] # g[k]}
<1>1. CASE D = {}
  BY <1>1
<1>2. CASE D # {}
  <2>1. D \subseteq Nat
    OBVIOUS
  <2>2. PICK m \in D : \A j \in D : m <= j
    <3> HIDE DEF D
    <3> QED
      BY <1>2, <2>1, Least
  <2>3. m \in 1..n /\ f[m] # g[m] /\ m - 1 \in 0..n /\ ~(m <= m - 1)
    BY <2>2 DEF SumsUp
  <2>4. f[m - 1] = g[m - 1]
    BY <2>2, <2>3
  <2> QED
    BY <2>3, <2>4 DEF SumsUp
<1> QED
  BY <1>1, <1>2

LEMMA SumsExist ==
  ASSUME NEW n \in Nat, NEW d \in [1..n -> Nat]
  PROVE  \E h \in [0..n -> Nat] : h[0] = 0 /\ \A k \in 1..n : h[k] = h[k - 1] + d[k]
<1> DEFINE Exist(i) == \E h \in [0..i -> Nat] :
                         h[0] = 0 /\ \A k \in 1..i : h[k] = h[k - 1] + d[k]
           D == {i \in 0..n : ~Exist(i)}
<1>1. SUFFICES ASSUME D # {} PROVE FALSE
  <2>1. n \in 0..n
    OBVIOUS
  <2> QED
    BY <1>1, <2>1
<1>2. PICK m \in D : \A j \in D : m <= j
  <2>1. D \subseteq Nat
    OBVIOUS
  <2> HIDE DEF D
  <2> QED
    BY <1>1, <2>1, Least
<1>3. Exist(0)
  <2>1. /\ [k \in 0..0 |-> 0] \in [0..0 -> Nat] /\ [k \in 0..0 |-> 0][0] = 0
        /\ \A k \in 1..0 : FALSE
    OBVIOUS
  <2> QED
    BY <2>1
<1>4. m \in 1..n /\ Exist(m - 1)
  <2> HIDE DEF Exist
  <2>1. m \in 0..n /\ ~Exist(m)
    BY <1>2
  <2>2. m # 0
    BY <1>3, <2>1
  <2>3. m - 1 \in 0..n /\ ~(m <= m - 1)
    BY <2>1, <2>2
  <2>4. m - 1 \notin D
    BY <1>2, <2>3
  <2> QED
    BY <2>1, <2>2, <2>3, <2>4
<1>5. PICK h \in [0..(m - 1) -> Nat] : h[0] = 0 /\ \A k \in 1..(m - 1) : h[k] = h[k - 1] + d[k]
  BY <1>4
<1> DEFINE g == [k \in 0..m |-> IF k = m THEN h[m - 1] + d[m] ELSE h[k]]
<1>6. g \in [0..m -> Nat] /\ g[0] = 0
  BY <1>4, <1>5
<1>7. \A k \in 1..m : g[k] = g[k - 1] + d[k]
  <2> TAKE k \in 1..m
  <2>1. k - 1 \in 0..m /\ k - 1 # m /\ g[k - 1] = h[k - 1]
    BY <1>4
  <2>2. CASE k = m
    BY <1>4, <2>1, <2>2
  <2>3. CASE k # m
    <3>1. k \in 1..(m - 1) /\ g[k] = h[k]
      BY <1>4, <2>3
    <3> QED
      BY <1>5, <2>1, <3>1
  <2> QED
    BY <2>2, <2>3
<1>8. Exist(m)
  <2> HIDE DEF g
  <2> QED
    BY <1>6, <1>7
<1> QED
  BY <1>2, <1>8

(* What URL k adds to the bytes of a set.                                  *)
Added(urls, set, k) == IF k \in set THEN urls[k].size ELSE 0

Sizes(urls, set) == [k \in 1..Len(urls) |-> Added(urls, set, k)]

LEMMA SizesType ==
  ASSUME NEW urls \in Seq(DataUrl), NEW set
  PROVE  Sizes(urls, set) \in [1..Len(urls) -> Nat]
<1>1. \A k \in 1..Len(urls) : urls[k].size \in Nat
  <2>1. \A k \in 1..Len(urls) : urls[k] \in DataUrl
    OBVIOUS
  <2> QED
    BY <2>1 DEF DataUrl
<1> QED
  BY <1>1 DEF Sizes, Added

(* Bytes is what its recursive definition says.                            *)
LEMMA BytesAre ==
  ASSUME NEW urls \in Seq(DataUrl), NEW set
  PROVE  /\ SumsUp(Bytes(urls, set), Sizes(urls, set), Len(urls))
         /\ \A k \in 0..Len(urls) : Bytes(urls, set)[k] \in Nat
<1> DEFINE n == Len(urls)
           d == Sizes(urls, set)
           sum == Bytes(urls, set)
<1>1. n \in Nat /\ d \in [1..n -> Nat]
  BY SizesType
<1>2. PICK h \in [0..n -> Nat] : h[0] = 0 /\ \A k \in 1..n : h[k] = h[k - 1] + d[k]
  <2> HIDE DEF n, d
  <2> QED
    BY <1>1, SumsExist
<1> DEFINE size(k) == Added(urls, set, k)
<1>3. \A k \in 1..n : d[k] = size(k)
  BY <1>1 DEF Sizes
<1>4. h = [k \in 0..n |-> IF k = 0 THEN 0 ELSE h[k - 1] + size(k)]
  <2> HIDE DEF n, d, size
  <2>1. \A k \in 0..n : h[k] = IF k = 0 THEN 0 ELSE h[k - 1] + size(k)
    BY <1>1, <1>2, <1>3
  <2>2. h = [k \in 0..n |-> h[k]]
    BY <1>2
  <2> QED
    BY <2>1, <2>2, Zenon
<1>5. sum = [k \in 0..n |-> IF k = 0 THEN 0 ELSE sum[k - 1] + size(k)]
  BY <1>4, Zenon DEF Bytes, Added
<1> HIDE DEF sum, d, size
<1>6. SumsUp(sum, d, n)
  BY <1>1, <1>3, <1>5 DEF SumsUp
<1>7. ASSUME NEW k \in 0..n PROVE sum[k] \in Nat
  <2>1. k \in Nat /\ SumsUp(sum, d, k) /\ SumsUp(h, d, k)
    BY <1>1, <1>2, <1>6 DEF SumsUp
  <2>2. sum[k] = h[k]
    BY <2>1, SumsAgree, Zenon
  <2> QED
    BY <1>2, <2>2
<1> QED
  BY <1>6, <1>7 DEF sum, d

(* What a URL adds, and what it does not.                                  *)
LEMMA BytesNext ==
  ASSUME NEW urls \in Seq(DataUrl), NEW set, NEW k \in 1..Len(urls)
  PROVE  /\ urls[k].size \in Nat
         /\ Bytes(urls, set)[k - 1] \in Nat /\ Bytes(urls, set)[k] \in Nat
         /\ Bytes(urls, set)[k] = Bytes(urls, set)[k - 1] + Added(urls, set, k)
<1>1. k - 1 \in 0..Len(urls) /\ k \in 0..Len(urls)
  OBVIOUS
<1>2. urls[k].size \in Nat
  <2>1. urls[k] \in DataUrl
    OBVIOUS
  <2> QED
    BY <2>1 DEF DataUrl
<1>3. Sizes(urls, set)[k] = Added(urls, set, k)
  BY DEF Sizes
<1> QED
  BY <1>1, <1>2, <1>3, BytesAre DEF SumsUp

(* Sets that agree up to a URL come to the same up to it.                  *)
LEMMA BytesAgree ==
  ASSUME NEW urls \in Seq(DataUrl), NEW set, NEW other, NEW n \in 0..Len(urls),
         \A k \in 1..n : k \in set <=> k \in other
  PROVE  Bytes(urls, set)[n] = Bytes(urls, other)[n]
<1>1. \A k \in 1..n : k \in 1..Len(urls) /\ Sizes(urls, set)[k] = Sizes(urls, other)[k]
  BY DEF Sizes, Added
<1>2. SumsUp(Bytes(urls, set), Sizes(urls, set), n)
  BY BytesAre, <1>1 DEF SumsUp
<1>3. SumsUp(Bytes(urls, other), Sizes(urls, set), n)
  BY BytesAre, <1>1 DEF SumsUp
<1>4. n \in Nat
  OBVIOUS
<1> QED
  BY <1>2, <1>3, <1>4, SumsAgree, Zenon

(* URLs behind the last one of a set do not count.                         *)
LEMMA BytesBehind ==
  ASSUME NEW urls \in Seq(DataUrl), NEW n \in 0..Len(urls), NEW set, set \subseteq 1..n
  PROVE  Bytes(urls, set)[Len(urls)] = Bytes(urls, set)[n]
<1> DEFINE whole == Bytes(urls, set)
           D == {k \in n..Len(urls) : whole[k] # whole[n]}
<1>1. SUFFICES ASSUME D # {} PROVE FALSE
  <2>1. Len(urls) \in n..Len(urls)
    OBVIOUS
  <2> QED
    BY <1>1, <2>1
<1>2. PICK m \in D : \A j \in D : m <= j
  <2>1. D \subseteq Nat
    OBVIOUS
  <2> HIDE DEF D
  <2> QED
    BY <1>1, <2>1, Least
<1>3. m \in 1..Len(urls) /\ m > n /\ m - 1 \in n..Len(urls) /\ ~(m <= m - 1) /\ m \notin set
  BY <1>2
<1>4. whole[m] = whole[m - 1] + 0 /\ whole[m - 1] \in Nat
  BY <1>3, BytesNext DEF Added
<1>5. whole[m - 1] = whole[n]
  BY <1>2, <1>3
<1> QED
  BY <1>2, <1>4, <1>5

-----------------------------------------------------------------------------
LEMMA SameFile == [Next]_vars => file' = file
BY DEF Next, vars, Open, OpensNothing, Unopened, ReadDirectory, TryEntry, EntriesEnd, DecodeFrame,
       WrapFrame, ReturnFrame, FrameFails, BeginJxl, BasicInfo, ColorEncoding, NeedBuffer,
       FullImage, JxlFails, ParseDocument, ResolveData, Render, SvgFails, ReadPages, PagesFail,
       Validate, Scale, Encode, EncodeFails, Reject

LEMMA FileTyped ==
  ASSUME TypeOK
  PROVE  /\ file.animated \in BOOLEAN
         /\ file.all \in Image \cup {NoImage} /\ file.one \in Image \cup {NoImage}
         /\ file.mime = "ico" => file.detail \in IcoDetail
         /\ file.mime = "avif" => file.detail \in AvifDetail
         /\ file.mime = "jxl" => file.detail \in JxlDetail
         /\ file.mime = "svg" => file.detail \in SvgDetail
<1>1. file \in Files
  BY DEF TypeOK
<1>2. file \in File({file.detail})
  BY <1>1, FilesAssumption
<1>3. QED BY <1>1, <1>2, FilesAssumption DEF File

LEMMA OpenedIsImage ==
  ASSUME NEW width \in Int, NEW height \in Int
  PROVE  Opened(width, height) \in Image
BY DEF Opened, Image

(* A conversion that ends destroys the one owner there is, if there is one.*)
LEMMA EndCounts ==
  ASSUME TypeOK, OwnerInv, ~Ended, NEW result, End(result)
  PROVE  /\ pc' = result /\ owners' = {}
         /\ releases' = IF IsDecoded THEN 1 ELSE 0
<1>1. releases = 0 /\ owners \in IF IsDecoded THEN {{"decoded"}, {"memory"}, {"cropped"}} ELSE {{}}
  BY DEF OwnerInv
<1>2. Cardinality({}) = 0 /\ \A o : Cardinality({o}) = 1
  BY FS_EmptySet, FS_Singleton
<1>3. Cardinality(owners) = IF IsDecoded THEN 1 ELSE 0
  <2>1. CASE IsDecoded
    <3>1. \E o : owners = {o}
      BY <1>1, <2>1
    <3>2. QED BY <1>2, <2>1, <3>1
  <2>2. CASE ~IsDecoded
    BY <1>1, <1>2, <2>2
  <2>3. QED BY <2>1, <2>2
<1>4. QED BY <1>1, <1>3 DEF End

LEMMA SafetyInit == Init => IInv
<1> SUFFICES ASSUME Init PROVE IInv
  OBVIOUS
<1>1. TypeOK
  <2>1. spent \in 0..MaxDataUrlBytes
    BY RasterAssumption DEF Init
  <2>2. QED BY <2>1 DEF Init, TypeOK, Steps, Undecoded, NoLoad, Geometry!None, Geometry!Same
<1>2. LoaderInv
  BY DEF Init, LoaderInv
<1>3. OwnerInv
  BY DEF Init, OwnerInv, Reading, Ended, IsDecoded
<1>4. EntryInv
  BY DEF Init, EntryInv, Reading, Ended
<1>5. GeometryInv
  BY DEF Init, GeometryInv
<1>6. SvgInv
  <2> SUFFICES ASSUME file.mime = "svg" PROVE SvgInv
    BY DEF SvgInv
  <2>1. PICK urls : urls = file.detail.urls
    OBVIOUS
  <2>2. urls \in Seq(DataUrl) /\ next = 1 /\ embedded = {} /\ spent = 0
    BY <1>1, <2>1, FileTyped DEF Init, SvgDetail
  <2>3. \A set : Bytes(urls, set)[0] = 0
    BY <2>2, BytesAre DEF SumsUp
  <2>4. 1 <= Len(urls) + 1 /\ 1 - 1 = 0 /\ 1..0 = {}
    BY <2>2
  <2> QED
    BY <2>1, <2>2, <2>3, <2>4 DEF SvgInv
<1>7. QED BY <1>1, <1>2, <1>3, <1>4, <1>5, <1>6 DEF IInv
-----------------------------------------------------------------------------
(* An entry's turn: its image is taken or it is of no use.                 *)
LEMMA EntryTried ==
  ASSUME TypeOK, LoaderInv, TryEntry
  PROVE  /\ pc = "entries" /\ next \in DOMAIN Directory.entries
         /\ \/ /\ next \in Usable
               /\ image' = Directory.entries[next].opens /\ image' \in Image /\ image' # NoImage
               /\ pc' = "pages" /\ next' = next
            \/ next \notin Usable /\ next' = next + 1 /\ image' = image /\ pc' = "entries"
<1>1. Directory.entries \in Seq(Entry) /\ next \in 1..Len(Directory.entries) /\ pc = "entries"
  BY FileTyped, SMTT(40) DEF TryEntry, LoaderInv, DirectoryIsWhole, Directory, IcoDetail, TypeOK
<1>2. Directory.entries[next] \in Entry /\ next \in DOMAIN Directory.entries
  BY <1>1
<1>3. Directory.entries[next].opens \in Image \cup {NoImage}
  BY <1>2 DEF Entry
<1>4. CASE next \in Usable
  BY <1>1, <1>2, <1>3, <1>4 DEF TryEntry, Usable
<1>5. CASE next \notin Usable
  BY <1>1, <1>2, <1>5 DEF TryEntry, Usable, Following
<1>6. QED BY <1>1, <1>2, <1>4, <1>5

(* What was loaded goes to the geometry with its pages.                    *)
LEMMA PagesRead ==
  ASSUME IInv, ReadPages
  PROVE  /\ loaded' \in [width : Int, height : Int, pages : Nat, animated : BOOLEAN]
         /\ loaded'.pages > 0
         /\ limits' \in [width : Nat, height : Nat]
         /\ pc' = "validate"
<1>1. image \in Image /\ file.animated \in BOOLEAN
  BY FileTyped DEF IInv, LoaderInv, ReadPages
<1>2. PageCount \in Int /\ PageHeight \in Int /\ PageCount > 0
  BY <1>1 DEF Image, PageCount, PageHeight, Given, PagesAreWhole, ReadPages
<1>3. image.width \in Int /\ image.height \in Int
  BY <1>1 DEF Image
<1>4. loaded' = [width |-> image.width,
                 height |-> IF file.animated THEN image.height ELSE PageHeight,
                 pages |-> IF file.animated THEN PageCount ELSE 1,
                 animated |-> file.animated]
  BY DEF ReadPages
<1>5. limits' \in [width : Nat, height : Nat] /\ pc' = "validate"
  BY RasterAssumption DEF ReadPages
<1>6. QED BY <1>1, <1>2, <1>3, <1>4, <1>5

(* The dimensions the caps allow are those of one page, all of it.         *)
LEMMA DimensionsValidated ==
  ASSUME IInv, Validate
  PROVE  \/ /\ pc' = "resize" /\ UNCHANGED <<owners, releases, loaded, limits, target, scale>>
            /\ source' = [width |-> loaded.width, height |-> Geometry!FrameHeight]
            /\ source' \in [width : Int, height : Int]
            /\ source'.width > 0 /\ source'.height > 0 /\ Geometry!PagesFit
         \/ End("rejected") /\ UNCHANGED resizeVars
<1>1. /\ pc = "validate" /\ UNCHANGED <<loaded, limits, target, scale>>
      /\ IF Geometry!Valid
           THEN /\ source' = [width |-> loaded.width, height |-> Geometry!FrameHeight]
                /\ pc' = "resize"
           ELSE pc' = "rejected" /\ UNCHANGED source
      /\ IF pc' = "rejected"
           THEN releases' = releases + Cardinality(owners) /\ owners' = {}
           ELSE UNCHANGED <<owners, releases>>
  BY DEF Validate, Geometry!Validate
<1>2. CASE ~Geometry!Valid
  BY <1>1, <1>2 DEF End, resizeVars
<1>3. CASE Geometry!Valid
  <2>1. /\ loaded \in [width : Int, height : Int, pages : Nat, animated : BOOLEAN]
        /\ loaded.pages > 0
    BY <1>1 DEF IInv, TypeOK, GeometryInv
  <2>2. Geometry!FrameHeight \in Int
    <3>1. loaded.pages \in Nat \ {0} /\ loaded.height \in Int
      BY <2>1
    <3>2. loaded.height \div loaded.pages \in Int
      BY <3>1
    <3>3. QED BY <3>1, <3>2 DEF Geometry!FrameHeight
  <2>3. loaded.width > 0 /\ Geometry!FrameHeight > 0 /\ Geometry!PagesFit
    BY <1>3 DEF Geometry!Valid
  <2>4. QED BY <1>1, <1>3, <2>1, <2>2, <2>3
<1>4. QED BY <1>2, <1>3

(* The resize chooses what Resize gives it to choose.                      *)
LEMMA ScaleChosen ==
  ASSUME IInv, Scale
  PROVE  /\ pc = "resize" /\ pc' = "done"
         /\ UNCHANGED <<image, decodeVars, loaded, limits, source>>
         /\ target' \in [width : Int, height : Int] /\ scale' \in [num : Nat, den : Nat]
         /\ IF loaded.animated THEN target' \in Geometry!Targets ELSE scale' = Geometry!Scale
<1>1. /\ pc = "resize" /\ pc' = "done"
      /\ UNCHANGED <<image, decodeVars, loaded, limits, source>>
      /\ IF loaded.animated THEN target' \in Geometry!Targets /\ scale' = scale
                            ELSE scale' = Geometry!Scale /\ target' = target
  BY DEF Scale, Geometry!ResizeStatic, Geometry!ResizeAnimated
<1>2. /\ source \in [width : Int, height : Int] /\ source.width > 0 /\ source.height > 0
      /\ limits \in [width : Nat, height : Nat]
      /\ target \in [width : Int, height : Int] /\ scale \in [num : Nat, den : Nat]
  BY <1>1 DEF IInv, TypeOK, GeometryInv
<1>3. CASE loaded.animated
  BY <1>1, <1>2, <1>3, TargetsFit
<1>4. CASE ~loaded.animated
  <2>1. Geometry!Scale \in [num : Nat, den : Nat]
    <3>1. limits.height \in Nat /\ limits.width \in Nat /\ source.height \in Nat
          /\ source.width \in Nat
      BY <1>2
    <3>2. QED BY <3>1 DEF Geometry!Scale, Geometry!Same
  <2>2. QED BY <1>1, <1>2, <1>4, <2>1
<1>5. QED BY <1>3, <1>4
-----------------------------------------------------------------------------
(* One lemma for each part of the invariant.                               *)
LEMMA TypeStep == IInv /\ Next => TypeOK'
<1> SUFFICES ASSUME IInv, Next PROVE TypeOK'
  OBVIOUS
<1>1. TypeOK /\ OwnerInv /\ LoaderInv /\ file' = file /\ file' \in Files
  BY SameFile DEF IInv, TypeOK
<1>2. \A result \in {"rejected", "encoded"} :
        ~Ended /\ End(result) => pc' \in Steps /\ owners' = {} /\ releases' \in Nat
  <2>1. SUFFICES ASSUME NEW result \in {"rejected", "encoded"}, ~Ended, End(result)
                 PROVE  pc' \in Steps /\ owners' = {} /\ releases' \in Nat
    OBVIOUS
  <2>2. pc' = result /\ owners' = {} /\ releases' = IF IsDecoded THEN 1 ELSE 0
    BY <1>1, <2>1, EndCounts
  <2>3. QED BY <2>2 DEF Steps
<1>3. ASSUME Reject, ~Ended PROVE TypeOK'
  BY <1>1, <1>2, <1>3 DEF Reject, TypeOK, resizeVars
<1>4. ASSUME Open PROVE TypeOK'
  <2>1. image' \in Image
    BY <1>1, <1>4, FileTyped DEF Open
  <2>2. QED BY <1>1, <1>4, <2>1 DEF Open, TypeOK, decodeVars, resizeVars, Steps
<1>5. ASSUME ReadDirectory PROVE TypeOK'
  <2>1. ~Ended
    BY <1>5 DEF ReadDirectory, Unopened, Ended
  <2>2. QED BY <1>1, <1>2, <1>5, <2>1 DEF ReadDirectory, TypeOK, resizeVars, Steps
<1>6. ASSUME TryEntry PROVE TypeOK'
  <2>1. image' \in Image \cup {NoImage} /\ next' \in Nat \ {0} /\ pc' \in Steps
    <3>1. image \in Image \cup {NoImage} /\ next \in Nat \ {0}
      BY <1>1 DEF TypeOK
    <3>2. \/ image' \in Image /\ next' = next /\ pc' = "pages"
          \/ image' = image /\ next' = next + 1 /\ pc' = "entries"
      BY <1>1, <1>6, EntryTried
    <3>3. pc' \in Steps
      BY <3>2 DEF Steps
    <3>4. QED BY <3>1, <3>2, <3>3
  <2>2. QED BY <1>1, <1>6, <2>1 DEF TryEntry, TypeOK, resizeVars
<1>7. ASSUME DecodeFrame PROVE TypeOK'
  <2>1. ~Ended /\ file.detail \in AvifDetail
    BY <1>1, <1>7, FileTyped DEF DecodeFrame, Unopened, Ended
  <2>2. file.detail.stride * file.detail.height \in Nat
    BY <2>1 DEF AvifDetail
  <2>3. pixels' \in Int
    BY <1>1, <1>7, <2>2 DEF DecodeFrame, TypeOK
  <2>4. QED BY <1>1, <1>2, <1>7, <2>1, <2>3 DEF DecodeFrame, TypeOK, resizeVars, Steps
<1>8. ASSUME WrapFrame PROVE TypeOK'
  <2>1. owners' \subseteq {"decoded", "memory", "cropped"}
    BY <1>1, <1>8 DEF WrapFrame, HandedOver, TypeOK
  <2>2. QED BY <1>1, <1>8, <2>1 DEF WrapFrame, TypeOK, resizeVars, Steps
<1>9. ASSUME ReturnFrame PROVE TypeOK'
  <2>1. file.detail \in AvifDetail
    BY <1>1, <1>9, FileTyped DEF ReturnFrame, LoaderInv
  <2>2. image' \in Image
    <3>1. image' = Opened(file.detail.width, file.detail.height)
      BY <1>9 DEF ReturnFrame
    <3>2. file.detail.width \in Int /\ file.detail.height \in Int
      BY <2>1 DEF AvifDetail
    <3>3. QED BY <3>1, <3>2, OpenedIsImage
  <2>3. owners' \in {{"memory"}, {"cropped"}} /\ releases' = releases
    <3>1. pc = "memory" /\ owners = {"memory"}
      BY <1>1, <1>9 DEF ReturnFrame, OwnerInv
    <3>2. HandedOver("memory", "cropped") = {"cropped"}
      BY <3>1 DEF HandedOver
    <3>3. \A kept \in {{"memory"}, {"cropped"}} :
            kept \ {"decoded"} = kept /\ kept \cap {"decoded"} = {}
      OBVIOUS
    <3>4. releases + Cardinality({}) = releases
      BY <1>1, FS_EmptySet DEF TypeOK
    <3>5. QED BY <1>9, <3>1, <3>2, <3>3, <3>4 DEF ReturnFrame
  <2>4. QED BY <1>1, <1>9, <2>2, <2>3 DEF ReturnFrame, TypeOK, resizeVars, Steps
<1>10. ASSUME BeginJxl \/ BasicInfo \/ ColorEncoding PROVE TypeOK'
  BY <1>1, <1>10 DEF BeginJxl, BasicInfo, ColorEncoding, TypeOK, decodeVars, resizeVars, Steps
<1>11. ASSUME NeedBuffer PROVE TypeOK'
  <2>1. file.detail \in JxlDetail
    BY <1>1, <1>11, FileTyped DEF NeedBuffer, LoaderInv
  <2>2. pixels' \in Int
    <3>1. file.detail.size \in Nat
      BY <2>1 DEF JxlDetail
    <3>2. pixels' = file.detail.size
      BY <1>11 DEF NeedBuffer
    <3>3. QED BY <3>1, <3>2
  <2>3. QED BY <1>1, <1>11, <2>2 DEF NeedBuffer, TypeOK, resizeVars, Steps
<1>12. ASSUME FullImage PROVE TypeOK'
  <2>1. file.detail \in JxlDetail
    BY <1>1, <1>12, FileTyped DEF FullImage, LoaderInv
  <2>2. image' \in Image
    <3>1. image' = Opened(file.detail.width, file.detail.height)
      BY <1>12 DEF FullImage
    <3>2. file.detail.width \in Nat /\ file.detail.height \in Nat
      BY <2>1 DEF JxlDetail
    <3>3. QED BY <3>1, <3>2, OpenedIsImage
  <2>3. QED BY <1>1, <1>12, <2>2 DEF FullImage, TypeOK, decodeVars, resizeVars, Steps
<1>13. ASSUME ParseDocument PROVE TypeOK'
  <2>1. ~Ended
    BY <1>13 DEF ParseDocument, Ended
  <2>2. QED BY <1>1, <1>2, <1>13, <2>1 DEF ParseDocument, TypeOK, resizeVars, Steps
<1>14. ASSUME ResolveData PROVE TypeOK'
  <2>1. file.detail \in SvgDetail
    BY <1>1, <1>14, FileTyped DEF ResolveData, LoaderInv
  <2>2. Url \in DataUrl
    BY <1>1, <1>14, <2>1, SMTT(40) DEF ResolveData, SvgDetail, Url, TypeOK
  <2>3. spent' \in 0..MaxDataUrlBytes
    BY <1>1, <1>14, <2>2, RasterAssumption DEF ResolveData, Charged, Affordable, DataUrl, TypeOK
  <2>4. embedded' \subseteq 1..MaxDataUrls /\ next' \in Nat \ {0}
    BY <1>1, <1>14, RasterAssumption DEF ResolveData, Counted, TypeOK
  <2>5. QED BY <1>1, <1>14, <2>3, <2>4 DEF ResolveData, TypeOK, resizeVars, Steps
<1>15. ASSUME Render PROVE TypeOK'
  <2>1. file.detail \in SvgDetail
    BY <1>1, <1>15, FileTyped DEF Render, LoaderInv
  <2>2. file.detail.width \in Nat /\ file.detail.height \in Nat
    BY <2>1 DEF SvgDetail
  <2>3. file.detail.width * file.detail.height * Bands \in Nat
    BY <2>2 DEF Bands
  <2>4. image' \in Image
    BY <1>15, <2>2, OpenedIsImage DEF Render
  <2>5. QED BY <1>1, <1>15, <2>3, <2>4, SMTT(40) DEF Render, TypeOK, resizeVars, Steps
<1>16. ASSUME ReadPages PROVE TypeOK'
  BY <1>1, <1>16, PagesRead DEF ReadPages, TypeOK, decodeVars, Steps
<1>17. ASSUME Validate PROVE TypeOK'
  <2>1. ~Ended /\ UNCHANGED <<image, next, embedded, spent, pixels>>
    BY <1>17 DEF Validate, Geometry!Validate, Ended
  <2>2. CASE End("rejected") /\ UNCHANGED resizeVars
    BY <1>1, <1>2, <2>1, <2>2 DEF TypeOK, resizeVars
  <2>3. CASE /\ pc' = "resize" /\ UNCHANGED <<owners, releases, loaded, limits, target, scale>>
             /\ source' \in [width : Int, height : Int]
    BY <1>1, <2>1, <2>3 DEF TypeOK, Steps
  <2>4. QED BY <1>17, <2>2, <2>3, DimensionsValidated
<1>18. ASSUME Scale PROVE TypeOK'
  BY <1>1, <1>18, ScaleChosen DEF TypeOK, decodeVars, Steps
<1>19. ASSUME Encode PROVE TypeOK'
  <2>1. ~Ended
    BY <1>19 DEF Encode, Ended
  <2>2. QED BY <1>1, <1>2, <1>19, <2>1 DEF Encode, TypeOK, resizeVars
<1>20. ASSUME \/ OpensNothing \/ EntriesEnd \/ FrameFails \/ JxlFails \/ SvgFails
              \/ PagesFail \/ EncodeFails
       PROVE  Reject /\ ~Ended
  BY <1>20 DEF OpensNothing, Unopened, EntriesEnd, FrameFails, JxlFails, SvgFails, PagesFail,
               EncodeFails, Ended
<1>21. QED
  BY <1>3, <1>4, <1>5, <1>6, <1>7, <1>8, <1>9, <1>10, <1>11, <1>12, <1>13, <1>14, <1>15, <1>16,
     <1>17, <1>18, <1>19, <1>20 DEF Next

LEMMA LoaderStep == IInv /\ Next => LoaderInv'
<1> SUFFICES ASSUME IInv, Next PROVE LoaderInv'
  OBVIOUS
<1>1. TypeOK /\ LoaderInv /\ file' = file
  BY SameFile DEF IInv
<1>2. ASSUME Open \/ FullImage \/ ReturnFrame \/ Render PROVE LoaderInv'
  <2>1. image' \in Image
    <3>1. CASE Open
      BY <1>1, <3>1, FileTyped DEF Open
    <3>2. CASE FullImage \/ ReturnFrame \/ Render
      <4>1. image' = Opened(file.detail.width, file.detail.height)
        BY <3>2 DEF FullImage, ReturnFrame, Render
      <4>2. file.detail.width \in Nat /\ file.detail.height \in Nat
        <5>1. \/ file.detail \in JxlDetail \/ file.detail \in AvifDetail \/ file.detail \in SvgDetail
          BY <1>1, <3>2, FileTyped DEF FullImage, ReturnFrame, Render, LoaderInv
        <5>2. QED BY <5>1 DEF JxlDetail, AvifDetail, SvgDetail
      <4>3. QED BY <4>1, <4>2, OpenedIsImage
    <3>3. QED BY <1>2, <3>1, <3>2
  <2>2. pc' = "pages"
    BY <1>2 DEF Open, FullImage, ReturnFrame, Render
  <2>3. QED BY <2>1, <2>2 DEF LoaderInv
<1>3. ASSUME TryEntry PROVE LoaderInv'
  <2>1. DirectoryIsWhole' <=> DirectoryIsWhole
    BY <1>1 DEF DirectoryIsWhole, Directory
  <2>2. \/ pc' = "pages" /\ image' \in Image
        \/ pc' = "entries" /\ pc = "entries"
    BY <1>1, <1>3, EntryTried
  <2>3. QED BY <1>1, <2>1, <2>2 DEF LoaderInv
<1>4. ASSUME ReadDirectory PROVE LoaderInv'
  <2>1. DirectoryIsWhole' <=> DirectoryIsWhole
    BY <1>1 DEF DirectoryIsWhole, Directory
  <2>2. QED BY <1>1, <1>4, <2>1 DEF ReadDirectory, Unopened, End, LoaderInv
<1>5. ASSUME Reject \/ Encode PROVE LoaderInv'
  BY <1>5 DEF Reject, Encode, End, LoaderInv
<1>6. ASSUME DecodeFrame \/ WrapFrame PROVE LoaderInv'
  BY <1>1, <1>6 DEF DecodeFrame, WrapFrame, End, LoaderInv
<1>7. ASSUME BeginJxl \/ BasicInfo \/ ColorEncoding \/ NeedBuffer PROVE LoaderInv'
  BY <1>1, <1>7 DEF BeginJxl, BasicInfo, ColorEncoding, NeedBuffer, LoaderInv
<1>8. ASSUME ParseDocument \/ ResolveData PROVE LoaderInv'
  BY <1>1, <1>8 DEF ParseDocument, ResolveData, End, LoaderInv
<1>9. ASSUME ReadPages \/ Validate \/ Scale PROVE LoaderInv'
  <2>1. pc' \in {"validate", "resize", "done", "rejected"}
    BY <1>9 DEF ReadPages, Validate, Geometry!Validate, Scale, Geometry!ResizeStatic,
                Geometry!ResizeAnimated
  <2>2. QED BY <2>1 DEF LoaderInv
<1>10. QED
  BY <1>2, <1>3, <1>4, <1>5, <1>6, <1>7, <1>8, <1>9
  DEF Next, OpensNothing, EntriesEnd, FrameFails, JxlFails, SvgFails, PagesFail, EncodeFails

LEMMA GeometryStep == IInv /\ Next => GeometryInv'
<1> SUFFICES ASSUME IInv, Next PROVE GeometryInv'
  OBVIOUS
<1>1. CASE ReadPages
  <2>1. pc' = "validate" /\ loaded'.pages > 0
    BY <1>1, PagesRead
  <2>2. QED BY <2>1 DEF GeometryInv
<1>2. CASE Validate
  <2>1. CASE End("rejected")
    BY <2>1 DEF End, GeometryInv
  <2>2. CASE /\ pc' = "resize" /\ UNCHANGED <<owners, releases, loaded, limits, target, scale>>
             /\ source' = [width |-> loaded.width, height |-> Geometry!FrameHeight]
             /\ source' \in [width : Int, height : Int]
             /\ source'.width > 0 /\ source'.height > 0 /\ Geometry!PagesFit
    <3>1. pc = "validate" /\ loaded.pages > 0
      BY <1>2 DEF Validate, Geometry!Validate, IInv, GeometryInv
    <3>2. Geometry!FrameHeight' = Geometry!FrameHeight /\ (Geometry!PagesFit' <=> Geometry!PagesFit)
      BY <2>2 DEF Geometry!FrameHeight, Geometry!PagesFit
    <3>3. QED BY <2>2, <3>1, <3>2 DEF GeometryInv
  <2>3. QED BY <1>2, <2>1, <2>2, DimensionsValidated
<1>3. CASE Scale
  <2>1. /\ pc = "resize" /\ pc' = "done" /\ UNCHANGED <<loaded, limits, source>>
        /\ IF loaded.animated THEN target' \in Geometry!Targets ELSE scale' = Geometry!Scale
    BY <1>3, ScaleChosen
  <2>2. /\ Geometry!Targets' = Geometry!Targets /\ Geometry!Scale' = Geometry!Scale
        /\ Geometry!FrameHeight' = Geometry!FrameHeight /\ (Geometry!PagesFit' <=> Geometry!PagesFit)
    BY <2>1 DEF Geometry!Targets, Geometry!Scale, Geometry!FrameHeight, Geometry!PagesFit,
                Geometry!Within, Geometry!Kept, Geometry!HeightDecides, Geometry!WidthExcess,
                Geometry!HeightExcess, Geometry!OrSource
  <2>3. QED BY <2>1, <2>2 DEF IInv, GeometryInv
<1>4. CASE Reject \/ Encode
  BY <1>4 DEF Reject, Encode, End, GeometryInv
<1>5. CASE /\ ~ReadPages /\ ~Validate /\ ~Scale /\ ~Reject /\ ~Encode
  <2>1. pc' \notin {"validate", "resize", "done"}
    BY <1>5 DEF Next, Open, OpensNothing, ReadDirectory, TryEntry, EntriesEnd, DecodeFrame,
       WrapFrame, ReturnFrame, FrameFails, BeginJxl, BasicInfo, ColorEncoding, NeedBuffer,
       FullImage, JxlFails, ParseDocument, ResolveData, Render, SvgFails, PagesFail,
       EncodeFails, End
  <2>2. QED BY <2>1 DEF GeometryInv
<1>6. QED BY <1>1, <1>2, <1>3, <1>4, <1>5

LEMMA OwnerStep == IInv /\ Next => OwnerInv'
<1> SUFFICES ASSUME IInv, Next PROVE OwnerInv'
  OBVIOUS
<1>1. TypeOK /\ LoaderInv /\ OwnerInv /\ file' = file
  BY SameFile DEF IInv
<1>2. ASSUME ~Ended, UNCHANGED <<pixels, image>>, NEW result \in {"rejected", "encoded"},
             End(result), pc = "done" \/ result = "rejected"
      PROVE  OwnerInv'
  <2>1. pc' = result /\ owners' = {} /\ releases' = IF IsDecoded THEN 1 ELSE 0
    BY <1>1, <1>2, EndCounts
  <2>2. IsDecoded' <=> IsDecoded
    BY <1>1, <1>2 DEF IsDecoded
  <2>3. Reading' => Reading
    BY <1>2, <2>1 DEF Reading
  <2>4. QED BY <1>1, <1>2, <2>1, <2>2, <2>3 DEF OwnerInv, Ended
<1>3. ASSUME ~Ended, Reject PROVE OwnerInv'
  BY <1>2, <1>3 DEF Reject
  (* Where nothing has been decoded, nothing is owned. *)
<1>4. ASSUME pc \in {"load", "entries", "basic info", "colour", "buffer", "urls"}
      PROVE  pixels = Undecoded /\ owners = {} /\ releases = 0 /\ ~Ended
  BY <1>1, <1>4 DEF OwnerInv, IsDecoded, Ended
<1>5. ASSUME UNCHANGED <<pixels, owners, releases>>,
             pc \in {"load", "entries", "basic info", "colour", "buffer", "urls"},
             pc' \in {"entries", "basic info", "colour", "buffer", "urls", "pages"}
      PROVE  OwnerInv'
  BY <1>4, <1>5 DEF OwnerInv, IsDecoded, Ended
<1>6. ASSUME Open \/ BeginJxl \/ BasicInfo \/ ColorEncoding \/ ResolveData PROVE OwnerInv'
  BY <1>5, <1>6 DEF Open, BeginJxl, BasicInfo, ColorEncoding, ResolveData, decodeVars
<1>7. ASSUME TryEntry PROVE OwnerInv'
  <2>1. pc = "entries" /\ pc' \in {"entries", "pages"}
    BY <1>1, <1>7, EntryTried
  <2>2. QED BY <1>5, <1>7, <2>1 DEF TryEntry
<1>8. ASSUME ReadDirectory \/ ParseDocument PROVE OwnerInv'
  <2>1. pc = "load" /\ ~Ended /\ UNCHANGED <<pixels, image>>
    BY <1>8 DEF ReadDirectory, ParseDocument, Unopened, Ended
  <2>2. CASE End("rejected")
    BY <1>2, <2>1, <2>2
  <2>3. CASE pc' \in {"entries", "urls"} /\ UNCHANGED <<owners, releases>>
    BY <1>5, <2>1, <2>3
  <2>4. QED BY <1>8, <2>2, <2>3 DEF ReadDirectory, ParseDocument
<1>9. ASSUME DecodeFrame PROVE OwnerInv'
  <2>1. pc = "load" /\ file.mime = "avif" /\ file.detail \in AvifDetail /\ UNCHANGED image
    BY <1>1, <1>9, FileTyped DEF DecodeFrame, Unopened
  <2>2. DecodedBytes' = DecodedBytes /\ DecodedBytes \in Nat
    <3>1. file.detail.stride \in Nat /\ file.detail.height \in Nat
      BY <2>1 DEF AvifDetail
    <3>2. QED BY <1>1, <3>1 DEF DecodedBytes
  <2>3. CASE /\ owners' = {"decoded"} /\ pc' = "frame" /\ pixels' = DecodedBytes
             /\ UNCHANGED releases
    <3>1. IsDecoded'
      BY <1>1, <2>1, <2>2, <2>3 DEF IsDecoded, Undecoded
    <3>2. QED BY <1>4, <2>1, <2>2, <2>3, <3>1 DEF OwnerInv, Ended, Reading
  <2>4. CASE End("rejected") /\ UNCHANGED pixels
    BY <1>2, <1>4, <2>1, <2>4
  <2>5. QED BY <1>9, <2>3, <2>4 DEF DecodeFrame, DecodedBytes
<1>10. ASSUME WrapFrame PROVE OwnerInv'
  <2>1. /\ pc = "frame" /\ pc' = "memory" /\ FrameIsUsable
        /\ owners' = HandedOver("decoded", "memory")
        /\ UNCHANGED <<pixels, releases, image>>
    BY <1>10 DEF WrapFrame
  <2>2. owners = {"decoded"} /\ pixels = DecodedBytes /\ releases = 0 /\ IsDecoded
    <3>1. owners = {"decoded"} /\ pixels = DecodedBytes /\ ~Ended
      BY <1>1, <2>1 DEF OwnerInv, Ended
    <3>2. QED BY <1>1, <3>1 DEF OwnerInv
  <2>3. owners' = {"memory"}
    BY <2>1, <2>2 DEF HandedOver
  <2>4. /\ DecodedBytes' = DecodedBytes /\ (FrameIsUsable' <=> FrameIsUsable)
        /\ (IsDecoded' <=> IsDecoded)
    BY <1>1, <2>1 DEF DecodedBytes, FrameIsUsable, Packed, IsDecoded
  <2>5. QED BY <2>1, <2>2, <2>3, <2>4 DEF OwnerInv, Ended, Reading
<1>11. ASSUME ReturnFrame PROVE OwnerInv'
  <2>1. /\ pc = "memory" /\ pc' = "pages" /\ UNCHANGED pixels
        /\ image' = Opened(file.detail.width, file.detail.height)
    BY <1>11 DEF ReturnFrame
  <2>2. /\ owners = {"memory"} /\ pixels = DecodedBytes /\ releases = 0 /\ IsDecoded
        /\ FrameIsUsable /\ file.detail \in AvifDetail
    <3>1. owners = {"memory"} /\ pixels = DecodedBytes /\ FrameIsUsable /\ ~Ended
      BY <1>1, <2>1 DEF OwnerInv, Ended
    <3>2. QED BY <1>1, <2>1, <3>1, FileTyped DEF OwnerInv, LoaderInv
  <2>3. owners' \in {{"memory"}, {"cropped"}} /\ releases' = 0
    <3>1. HandedOver("memory", "cropped") = {"cropped"}
      BY <2>2 DEF HandedOver
    <3>2. \A kept \in {{"memory"}, {"cropped"}} :
            kept \ {"decoded"} = kept /\ kept \cap {"decoded"} = {}
      OBVIOUS
    <3>3. releases + Cardinality({}) = 0
      BY <2>2, FS_EmptySet
    <3>4. QED BY <1>11, <2>2, <3>1, <3>2, <3>3 DEF ReturnFrame
  <2>4. image'.width * image'.height * Bands <= pixels
    <3> DEFINE w == file.detail.width
               h == file.detail.height
               stride == file.detail.stride
    <3>1. w \in Nat /\ h \in Nat /\ stride \in Nat /\ stride >= w * 4
      BY <2>2 DEF AvifDetail, FrameIsUsable, Packed, Bands
    <3>2. image'.width = w /\ image'.height = h /\ pixels = stride * h
      BY <2>1, <2>2 DEF Opened, DecodedBytes
    <3> HIDE DEF w, h, stride
    <3>3. (stride - w * 4) * h \in Nat
      <4>1. stride - w * 4 \in Nat
        BY <3>1
      <4>2. QED BY <3>1, <4>1
    <3>4. (stride - w * 4) * h = stride * h - w * h * 4
      BY <3>1
    <3>5. w * h * 4 \in Nat /\ stride * h \in Nat
      BY <3>1
    <3>6. w * h * 4 <= stride * h
      BY <3>3, <3>4, <3>5
    <3>7. QED BY <3>2, <3>6 DEF Bands
  <2>5. IsDecoded' <=> IsDecoded
    BY <1>1, <2>1 DEF IsDecoded
  <2>6. QED BY <2>1, <2>2, <2>3, <2>4, <2>5 DEF OwnerInv, Ended, Reading
<1>12. ASSUME NeedBuffer PROVE OwnerInv'
  <2>1. /\ pc = "buffer" /\ pc' = "full image" /\ UNCHANGED <<owners, releases>>
        /\ pixels' = file.detail.width * file.detail.height * Bands
        /\ file.mime = "jxl"
    BY <1>1, <1>12 DEF NeedBuffer, ExpectedSize, LoaderInv
  <2>2. ~IsDecoded'
    BY <1>1, <2>1 DEF IsDecoded
  <2>3. QED BY <1>1, <1>4, <2>1, <2>2 DEF OwnerInv, Ended, Reading
<1>13. ASSUME FullImage \/ Render PROVE OwnerInv'
  <2>1. /\ pc \in {"full image", "urls"} /\ pc' = "pages" /\ UNCHANGED <<owners, releases>>
        /\ pixels' = file.detail.width * file.detail.height * Bands
        /\ image' = Opened(file.detail.width, file.detail.height)
        /\ file.mime # "avif"
        /\ file.detail.width \in Nat /\ file.detail.height \in Nat
    <3>1. CASE FullImage
      <4>1. pc = "full image" /\ file.mime = "jxl" /\ file.detail \in JxlDetail
        BY <1>1, <3>1, FileTyped DEF FullImage, LoaderInv
      <4>2. pixels = file.detail.width * file.detail.height * Bands
        BY <1>1, <4>1 DEF OwnerInv
      <4>3. file.detail.width \in Nat /\ file.detail.height \in Nat
        BY <4>1 DEF JxlDetail
      <4>4. QED BY <3>1, <4>1, <4>2, <4>3 DEF FullImage, decodeVars
    <3>2. CASE Render
      <4>1. pc = "urls" /\ file.mime = "svg" /\ file.detail \in SvgDetail
        BY <1>1, <3>2, FileTyped DEF Render, LoaderInv
      <4>2. file.detail.width \in Nat /\ file.detail.height \in Nat
        BY <4>1 DEF SvgDetail
      <4>3. QED BY <3>2, <4>1, <4>2 DEF Render
    <3>3. QED BY <1>13, <3>1, <3>2
  <2>2. image'.width * image'.height * Bands <= pixels'
    <3>1. \A a \in Nat, b \in Nat : a * b * 4 <= a * b * 4
      OBVIOUS
    <3>2. QED BY <2>1, <3>1 DEF Opened, Bands
  <2>3. ~Ended /\ ~IsDecoded /\ ~IsDecoded'
    BY <1>1, <2>1 DEF Ended, IsDecoded
  <2>4. releases = 0 /\ owners = {}
    BY <1>1, <2>3 DEF OwnerInv
  <2>5. QED BY <2>1, <2>2, <2>3, <2>4 DEF OwnerInv, Ended, Reading
<1>14. ASSUME UNCHANGED <<image, pixels, owners, releases>>,
              pc \in {"pages", "validate", "resize"}, pc' \in {"validate", "resize", "done"}
       PROVE  OwnerInv'
  <2>1. IsDecoded' <=> IsDecoded
    BY <1>1, <1>14 DEF IsDecoded
  <2>2. QED BY <1>1, <1>14, <2>1 DEF OwnerInv, Ended, Reading
<1>15. ASSUME ReadPages \/ Scale PROVE OwnerInv'
  <2>1. UNCHANGED <<image, decodeVars>> /\ pc \in {"pages", "resize"} /\ pc' \in {"validate", "done"}
    BY <1>15, ScaleChosen DEF ReadPages
  <2>2. QED BY <1>14, <2>1 DEF decodeVars
<1>16. ASSUME Validate PROVE OwnerInv'
  <2>1. pc = "validate" /\ UNCHANGED <<image, pixels>> /\ ~Ended
    BY <1>16 DEF Validate, Geometry!Validate, Ended
  <2>2. CASE pc' = "resize" /\ UNCHANGED <<owners, releases>>
    BY <1>14, <2>1, <2>2
  <2>3. CASE End("rejected")
    BY <1>2, <2>1, <2>3
  <2>4. QED BY <1>16, <2>2, <2>3, DimensionsValidated
<1>17. ASSUME Encode PROVE OwnerInv'
  BY <1>2, <1>17 DEF Encode, Ended
<1>18. ASSUME \/ OpensNothing \/ EntriesEnd \/ FrameFails \/ JxlFails \/ SvgFails
              \/ PagesFail \/ EncodeFails
       PROVE  Reject /\ ~Ended
  BY <1>18 DEF OpensNothing, Unopened, EntriesEnd, FrameFails, JxlFails, SvgFails, PagesFail,
               EncodeFails, Ended
<1>19. QED
  BY <1>3, <1>6, <1>7, <1>8, <1>9, <1>10, <1>11, <1>12, <1>13, <1>15, <1>16, <1>17, <1>18 DEF Next

LEMMA EntryStep == IInv /\ Next => EntryInv'
<1> SUFFICES ASSUME IInv, Next, file.mime = "ico", file.all = NoImage, file.one = NoImage
             PROVE  EntryInv'
  BY SameFile DEF EntryInv
<1>1. TypeOK /\ LoaderInv /\ OwnerInv /\ file' = file
  BY SameFile DEF IInv
<1>2. Directory' = Directory /\ Usable' = Usable /\ (DirectoryIsWhole' <=> DirectoryIsWhole)
  BY <1>1 DEF Directory, Usable, DirectoryIsWhole
<1>3. /\ pc \in {"load", "entries"} => image = NoImage
      /\ pc = "load" => next = 1
      /\ pc = "entries" => next <= Directory.count + 1 /\ \A i \in Usable : next <= i
      /\ Reading => \E i \in Usable : /\ image = Directory.entries[i].opens
                                      /\ \A j \in Usable : i <= j
      /\ Ended /\ image = NoImage => Usable = {} \/ ~DirectoryIsWhole
  BY DEF IInv, EntryInv
<1>4. CASE Reading /\ UNCHANGED image /\ pc' \in {"validate", "resize", "done", "encoded", "rejected"}
  <2>1. image # NoImage
    BY <1>3, <1>4 DEF Usable
  <2>2. QED BY <1>2, <1>3, <1>4, <2>1 DEF EntryInv, Reading, Ended
<1>5. ASSUME ReadPages \/ PagesFail \/ Validate \/ Scale \/ Encode \/ EncodeFails
      PROVE  Reading /\ UNCHANGED image
             /\ pc' \in {"validate", "resize", "done", "encoded", "rejected"}
  BY <1>5, ScaleChosen DEF ReadPages, PagesFail, Validate, Geometry!Validate, Encode, EncodeFails,
                           Reject, End, Reading, IInv
<1>6. ASSUME ReadDirectory PROVE EntryInv'
  <2>1. pc = "load" /\ image = NoImage /\ next = 1 /\ UNCHANGED <<image, next>>
    BY <1>3, <1>6 DEF ReadDirectory, Unopened
  <2>2. CASE DirectoryIsWhole /\ pc' = "entries"
    <3>1. Directory.count \in Nat /\ Directory.entries \in Seq(Entry)
      BY <1>1, FileTyped DEF Directory, IcoDetail
    <3>2. \A i \in Usable : 1 <= i
      BY <3>1 DEF Usable
    <3>3. 1 <= Directory.count + 1
      BY <3>1
    <3>4. QED BY <1>2, <2>1, <2>2, <3>2, <3>3 DEF EntryInv, Reading, Ended
  <2>3. CASE ~DirectoryIsWhole /\ pc' = "rejected"
    BY <1>2, <2>1, <2>3 DEF EntryInv, Reading, Ended
  <2>4. QED BY <1>6, <2>2, <2>3 DEF ReadDirectory, End
<1>7. ASSUME TryEntry PROVE EntryInv'
  <2>1. /\ pc = "entries" /\ next \in DOMAIN Directory.entries
        /\ next <= Directory.count
    BY <1>1, <1>7, EntryTried DEF TryEntry
  <2>2. image = NoImage /\ \A i \in Usable : next <= i
    BY <1>3, <2>1
  <2>3. CASE /\ next \in Usable
             /\ image' = Directory.entries[next].opens
             /\ pc' = "pages"
    BY <1>2, <2>2, <2>3 DEF EntryInv, Reading, Ended
  <2>4. CASE next \notin Usable /\ next' = next + 1 /\ image' = image /\ pc' = "entries"
    <3>1. Directory.count \in Nat /\ next \in Nat /\ Directory.entries \in Seq(Entry)
      BY <1>1, FileTyped DEF Directory, IcoDetail, TypeOK
    <3>2. ASSUME NEW i \in Usable PROVE next + 1 <= i
      <4>1. i \in Nat /\ next <= i /\ i # next
        BY <2>2, <2>4, <3>1 DEF Usable
      <4>2. QED BY <3>1, <4>1
    <3>3. next + 1 <= Directory.count + 1
      BY <2>1, <3>1
    <3>4. QED BY <1>2, <2>2, <2>4, <3>2, <3>3 DEF EntryInv, Reading, Ended
  <2>5. QED BY <1>1, <1>7, <2>3, <2>4, EntryTried
<1>8. ASSUME EntriesEnd PROVE EntryInv'
  <2>1. /\ pc = "entries" /\ next > Directory.count /\ pc' = "rejected" /\ UNCHANGED image
    BY <1>8 DEF EntriesEnd, Reject, End
  <2>2. Usable = {}
    <3>1. SUFFICES ASSUME NEW i \in Usable PROVE FALSE
      OBVIOUS
    <3>2. DirectoryIsWhole /\ next <= i
      BY <1>1, <1>3, <2>1 DEF LoaderInv
    <3>3. Directory.count \in Nat /\ Directory.entries \in Seq(Entry) /\ next \in Nat
      BY <1>1, FileTyped DEF Directory, IcoDetail, TypeOK
    <3>4. i \in 1..Directory.count
      BY <3>2, <3>3 DEF Usable, DirectoryIsWhole
    <3>5. QED BY <2>1, <3>2, <3>3, <3>4
  <2>3. QED BY <1>2, <2>1, <2>2 DEF EntryInv, Reading, Ended
  (* The other loaders are not for an icon. *)
<1>9. /\ ~Open /\ ~OpensNothing /\ ~DecodeFrame /\ ~WrapFrame /\ ~ReturnFrame /\ ~FrameFails
      /\ ~BeginJxl /\ ~BasicInfo /\ ~ColorEncoding /\ ~NeedBuffer /\ ~FullImage /\ ~JxlFails
      /\ ~ParseDocument /\ ~ResolveData /\ ~Render /\ ~SvgFails
  BY <1>1 DEF LoaderInv, Open, OpensNothing, DecodeFrame, WrapFrame, ReturnFrame, FrameFails,
              BeginJxl, BasicInfo, ColorEncoding, NeedBuffer, FullImage, JxlFails, ParseDocument,
              ResolveData, Render, SvgFails
<1>10. QED
  BY <1>4, <1>5, <1>6, <1>7, <1>8, <1>9 DEF Next

(* One data URL is read: what it costs, and whether it is embedded.        *)
LEMMA DataResolved ==
  ASSUME IInv, ResolveData, file.mime = "svg", file.detail.valid
  PROVE  SvgInv'
<1>1. PICK urls : urls = file.detail.urls
  OBVIOUS
<1>2. PICK i : i = next
  OBVIOUS
<1> DEFINE n == Len(urls)
           url == urls[i]
           chargeable == Chargeable(urls, n)
           spends == Counted /\ Affordable
<1>3. urls \in Seq(DataUrl) /\ i \in 1..n
  <2>1. urls \in Seq(DataUrl)
    BY <1>1, FileTyped DEF IInv, SvgDetail
  <2>2. next \in Nat \ {0}
    BY DEF IInv, TypeOK
  <2>3. next <= Len(urls)
    BY <1>1 DEF ResolveData
  <2> QED
    BY <1>2, <2>1, <2>2, <2>3
<1>4. /\ file' = file /\ next' = i + 1
      /\ spent' = IF spends THEN spent + url.size ELSE spent
      /\ embedded' = IF spends /\ Embeddable THEN embedded \cup {i} ELSE embedded
  BY <1>1, <1>2 DEF ResolveData, Charged, Url
<1>5. /\ url.size \in Nat /\ url.doctype \in BOOLEAN /\ url.xml \in BOOLEAN
      /\ url.mime \in {"svg", "text", "image"} /\ url.raster \in {"none", "fits", "exceeds"}
  <2>1. url \in DataUrl
    BY <1>3
  <2> QED
    BY <2>1 DEF DataUrl
<1>6. spent \in Nat /\ MaxDataUrlBytes \in Nat /\ MaxDataUrls \in Nat
  BY RasterAssumption DEF IInv, TypeOK
<1>7. /\ embedded \subseteq Sound(urls) \cap (1..(i - 1))
      /\ Bytes(urls, embedded)[i - 1] <= spent
      /\ spent <= Bytes(urls, chargeable)[i - 1]
      /\ \A j \in Sound(urls) \cap (1..(i - 1)) :
           /\ j <= MaxDataUrls
           /\ Bytes(urls, Chargeable(urls, j) \cup {j})[n] <= MaxDataUrlBytes
           => j \in embedded
  BY <1>1, <1>2 DEF IInv, SvgInv
<1>8. /\ Counted <=> i <= MaxDataUrls /\ ~url.doctype
      /\ Affordable <=> spent + url.size <= MaxDataUrlBytes
  BY <1>1, <1>2 DEF Counted, Affordable, Url
<1>9. i \in Sound(urls) <=> ~url.doctype /\ Embeddable
  BY <1>1, <1>2, <1>3, <1>5 DEF Sound, Embeddable, ReadAsXml, Url
<1> HIDE DEF n, url, chargeable
<1>10. embedded' \subseteq Sound(urls) \cap (1..i)
  BY <1>3, <1>4, <1>7, <1>8, <1>9 DEF n
<1>11. Bytes(urls, embedded')[i] <= spent'
  <2>1. PICK old : old = embedded
    OBVIOUS
  <2>2. PICK taken : taken = embedded'
    OBVIOUS
  <2>3. i \notin old /\ taken = IF spends /\ Embeddable THEN old \cup {i} ELSE old
    BY <1>3, <1>4, <1>7, <2>1, <2>2
  <2>4. Bytes(urls, taken)[i - 1] = Bytes(urls, old)[i - 1]
    <3>1. i - 1 \in 0..n
      BY <1>3 DEF n
    <3>2. \A k \in 1..(i - 1) : k \in taken <=> k \in old
      BY <1>3, <2>3
    <3> QED
      BY <1>3, <3>1, <3>2, BytesAgree DEF n
  <2>5. /\ Bytes(urls, taken)[i - 1] \in Nat
        /\ Bytes(urls, taken)[i] = Bytes(urls, taken)[i - 1] + Added(urls, taken, i)
    BY <1>3, BytesNext DEF n
  <2>6. i \in taken => spends
    BY <2>3
  <2> HIDE DEF spends
  <2>7. Bytes(urls, taken)[i - 1] <= spent
    BY <1>7, <2>1, <2>4
  <2>8. CASE i \in taken
    BY <1>4, <1>5, <1>6, <2>2, <2>5, <2>6, <2>7, <2>8 DEF Added, url
  <2>9. CASE i \notin taken
    BY <1>4, <1>5, <1>6, <2>2, <2>5, <2>7, <2>9 DEF Added, url
  <2> QED
    BY <2>8, <2>9
<1>12. spent' <= Bytes(urls, chargeable)[i]
  <2>1. /\ Bytes(urls, chargeable)[i - 1] \in Nat
        /\ Bytes(urls, chargeable)[i] =
             Bytes(urls, chargeable)[i - 1] + Added(urls, chargeable, i)
    BY <1>3, BytesNext DEF n
  <2>2. spends => i \in chargeable
    BY <1>3, <1>5, <1>6, <1>8 DEF chargeable, Chargeable, n, url
  <2> HIDE DEF spends
  <2>3. CASE i \in chargeable
    BY <1>4, <1>5, <1>6, <1>7, <2>1, <2>3 DEF Added, url
  <2>4. CASE i \notin chargeable
    BY <1>4, <1>5, <1>6, <1>7, <2>1, <2>2, <2>4 DEF Added, url
  <2> QED
    BY <2>3, <2>4
<1>13. ASSUME NEW j \in Sound(urls) \cap (1..i), j <= MaxDataUrls,
              Bytes(urls, Chargeable(urls, j) \cup {j})[n] <= MaxDataUrlBytes
       PROVE  j \in embedded'
  <2>1. CASE j # i
    BY <1>3, <1>4, <1>7, <1>13, <2>1
  <2>2. CASE j = i
    <3> DEFINE own == Chargeable(urls, i) \cup {i}
    <3>1. own \subseteq 1..i /\ i \in own
      BY <1>3 DEF Chargeable, n
    <3>2. \A k \in 1..(i - 1) : k \in own <=> k \in chargeable
      BY <1>3 DEF Chargeable, chargeable, n
    <3> HIDE DEF own
    <3>3. Bytes(urls, own)[n] = Bytes(urls, own)[i]
      <4>1. i \in 0..n
        BY <1>3 DEF n
      <4> QED
        BY <1>3, <3>1, <4>1, BytesBehind DEF n
    <3>4. Bytes(urls, own)[i - 1] = Bytes(urls, chargeable)[i - 1]
      <4>1. i - 1 \in 0..n
        BY <1>3 DEF n
      <4> QED
        BY <1>3, <3>2, <4>1, BytesAgree DEF n
    <3>5. /\ Bytes(urls, own)[i - 1] \in Nat
          /\ Bytes(urls, own)[i] = Bytes(urls, own)[i - 1] + url.size
      BY <1>3, <3>1, BytesNext DEF n, url, Added
    <3>6. Bytes(urls, own)[i] <= MaxDataUrlBytes
      BY <1>13, <2>2, <3>3 DEF own
    <3>7. spent + url.size <= MaxDataUrlBytes
      BY <1>5, <1>6, <1>7, <3>4, <3>5, <3>6
    <3> QED
      BY <1>4, <1>8, <1>9, <1>13, <2>2, <3>7
  <2> QED
    BY <2>1, <2>2
<1>14. i + 1 <= n + 1 /\ (i + 1) - 1 = i
  BY <1>3 DEF n
<1> QED
  BY <1>1, <1>4, <1>10, <1>11, <1>12, <1>13, <1>14 DEF SvgInv, n, chargeable

LEMMA SvgStep == IInv /\ Next => SvgInv'
<1> SUFFICES ASSUME IInv, Next, file.mime = "svg", file.detail.valid PROVE SvgInv'
  BY SameFile DEF SvgInv
<1>1. CASE ResolveData
  BY <1>1, DataResolved
<1>2. CASE UNCHANGED <<file, next, embedded, spent>>
  BY <1>2 DEF IInv, SvgInv
<1>3. ~TryEntry
  BY DEF IInv, LoaderInv, TryEntry
<1>4. Next => ResolveData \/ TryEntry \/ UNCHANGED <<file, next, embedded, spent>>
  BY DEF Next, vars, decodeVars, Open, OpensNothing, Unopened, ReadDirectory, EntriesEnd, DecodeFrame,
         WrapFrame, ReturnFrame, FrameFails, BeginJxl, BasicInfo, ColorEncoding, NeedBuffer,
         FullImage, JxlFails, ParseDocument, Render, SvgFails, ReadPages, PagesFail,
         Validate, Scale, Encode, EncodeFails, Reject
<1> QED
  BY <1>1, <1>2, <1>3, <1>4

LEMMA SafetyStep == IInv /\ [Next]_vars => IInv'
<1>1. IInv /\ Next => IInv'
  BY TypeStep, LoaderStep, OwnerStep, EntryStep, GeometryStep, SvgStep DEF IInv
<1>2. IInv /\ UNCHANGED vars => IInv'
  <2> SUFFICES ASSUME IInv, UNCHANGED vars PROVE IInv'
    OBVIOUS
  <2>1. UNCHANGED <<file, image, next, embedded, spent, pixels, owners, releases, loaded, limits,
                    source, target, scale, pc>>
    BY DEF vars, decodeVars, resizeVars
  <2>2. TypeOK'
    BY <2>1 DEF IInv, TypeOK
  <2>3. LoaderInv'
    BY <2>1 DEF IInv, LoaderInv, DirectoryIsWhole, Directory
  <2>4. OwnerInv'
    BY <2>1 DEF IInv, OwnerInv, DecodedBytes, FrameIsUsable, Packed, IsDecoded, Reading, Ended
  <2>5. EntryInv'
    BY <2>1 DEF IInv, EntryInv, Usable, Directory, DirectoryIsWhole, Reading, Ended
  <2>6. GeometryInv'
    BY <2>1 DEF IInv, GeometryInv, Geometry!Targets, Geometry!Scale, Geometry!FrameHeight,
       Geometry!PagesFit, Geometry!Within, Geometry!Kept, Geometry!HeightDecides,
       Geometry!WidthExcess, Geometry!HeightExcess, Geometry!OrSource
  <2>7. SvgInv'
    BY <2>1 DEF IInv, SvgInv
  <2>8. QED BY <2>2, <2>3, <2>4, <2>5, <2>6, <2>7 DEF IInv
<1>3. QED BY <1>1, <1>2
-----------------------------------------------------------------------------
(* Nothing is opened before the page metadata is read, and the dimensions  *)
(* that are validated then are those of the pages.                         *)
Opening == {"load", "entries", "frame", "memory", "basic info", "colour", "buffer", "full image",
            "urls"}

PageInv ==
  /\ pc \in Opening => image = NoImage
  /\ pc \in Opening \cup {"pages", "validate"} => source = [width |-> 0, height |-> 0]
  /\ pc = "validate" =>
       /\ image \in Image /\ PagesAreWhole
       /\ loaded = [width |-> image.width,
                    height |-> IF file.animated THEN image.height ELSE PageHeight,
                    pages |-> IF file.animated THEN PageCount ELSE 1,
                    animated |-> file.animated]
  /\ WholePageShown

LEMMA Divides ==
  ASSUME NEW h \in Int, NEW p \in Int, NEW r \in Int, p > 0, r > 0
  PROVE  /\ h % r = 0 /\ h \div r = p <=> p * r = h
         /\ p * r = h => h % p = 0 /\ h \div p = r
<1>1. ASSUME NEW d \in Nat \ {0}
      PROVE  /\ h \div d \in Int /\ h % d \in 0..(d - 1) /\ h = d * (h \div d) + (h % d)
  OBVIOUS
<1>2. ASSUME NEW d \in Nat \ {0}, NEW q \in Int, q * d = h PROVE h % d = 0 /\ h \div d = q
  <2>1. PICK e \in Int, m \in 0..(d - 1) : e = h \div d /\ m = h % d /\ h = d * e + m
    BY <1>1
  <2>2. d * (q - e) = m
    BY <1>2, <2>1
  <2>3. ASSUME q - e >= 1 PROVE FALSE
    <3>1. d * (q - e) >= d
      BY <2>1, <2>3
    <3> QED
      BY <2>1, <2>2, <3>1
  <2>4. ASSUME q - e <= -1 PROVE FALSE
    <3>1. d * (q - e) <= -d
      BY <2>1, <2>4
    <3> QED
      BY <2>1, <2>2, <3>1
  <2>5. q = e
    BY <2>1, <2>3, <2>4
  <2> QED
    BY <2>1, <2>2, <2>5
<1>3. ASSUME h % r = 0, h \div r = p PROVE p * r = h
  BY <1>1, <1>3
<1>4. ASSUME p * r = h PROVE r * p = h
  BY <1>4
<1> QED
  BY <1>2, <1>3, <1>4

(* The two readings of the metadata agree.                                 *)
LEMMA PagesAre ==
  ASSUME image \in Image
  PROVE  /\ Rows = PageHeight /\ Rows \in Int /\ PageCount \in Int
         /\ EqualPages <=> PageCount > 0 /\ Rows > 0 /\ PageCount * Rows = image.height
         /\ PagesAreWhole <=>
              EqualPages /\ (file.animated => Absent \notin {image.pages, image.page_height})
<1>1. /\ image.height \in Int /\ image.pages \in Int \cup {Absent}
      /\ image.page_height \in Int \cup {Absent}
  BY DEF Image
<1>2. Rows = PageHeight /\ Rows \in Int /\ PageCount \in Int
  BY <1>1 DEF Rows, PageHeight, PageCount, Given
<1>3. EqualPages <=> PageCount > 0 /\ Rows > 0 /\ PageCount * Rows = image.height
  BY DEF EqualPages, PageCount, Given
<1>4. PagesAreWhole <=> /\ PageCount > 0 /\ Rows > 0
                        /\ image.height % Rows = 0 /\ image.height \div Rows = PageCount
                        /\ file.animated => image.pages # Absent /\ image.page_height # Absent
  BY <1>2 DEF PagesAreWhole
<1>5. PageCount > 0 /\ Rows > 0 =>
        (image.height % Rows = 0 /\ image.height \div Rows = PageCount
           <=> PageCount * Rows = image.height)
  BY <1>1, <1>2, Divides
<1> QED
  BY <1>2, <1>3, <1>4, <1>5

LEMMA PageInit == Init => PageInv
BY DEF Init, PageInv, WholePageShown, Opening, Geometry!None

LEMMA PageStep == IInv /\ PageInv /\ [Next]_vars => PageInv'
<1> SUFFICES ASSUME IInv, PageInv, [Next]_vars PROVE PageInv'
  OBVIOUS
<1>1. file' = file /\ TypeOK /\ LoaderInv
  BY SameFile DEF IInv
<1>2. ASSUME image' = image
      PROVE  /\ Rows' = Rows /\ PageHeight' = PageHeight /\ PageCount' = PageCount
             /\ EqualPages' <=> EqualPages
             /\ PagesAreWhole' <=> PagesAreWhole
  BY <1>1, <1>2 DEF Rows, EqualPages, PageHeight, PageCount, Given, PagesAreWhole
<1>3. ASSUME pc \in Opening, source' = source,
             \/ pc' \in Opening /\ image' = image
             \/ pc' = "pages"
             \/ pc' = "rejected" /\ image' = image
      PROVE  PageInv'
  BY <1>3 DEF PageInv, Opening, WholePageShown
<1>4. CASE \/ Open \/ OpensNothing \/ ReadDirectory \/ TryEntry \/ EntriesEnd
           \/ DecodeFrame \/ WrapFrame \/ ReturnFrame \/ FrameFails
  BY <1>3, <1>4 DEF Open, OpensNothing, Unopened, ReadDirectory, TryEntry, EntriesEnd, DecodeFrame,
     WrapFrame, ReturnFrame, FrameFails, Reject, End, resizeVars, Opening
<1>5. CASE \/ BeginJxl \/ BasicInfo \/ ColorEncoding \/ NeedBuffer \/ FullImage \/ JxlFails
           \/ ParseDocument \/ ResolveData \/ Render \/ SvgFails
  BY <1>3, <1>5 DEF BeginJxl, BasicInfo, ColorEncoding, NeedBuffer, FullImage, JxlFails,
     ParseDocument, ResolveData, Render, SvgFails, Reject, End, resizeVars, Opening
<1>6. CASE ReadPages
  <2>1. pc = "pages" /\ pc' = "validate" /\ PagesAreWhole /\ UNCHANGED <<image, source>>
        /\ loaded' = [width |-> image.width,
                      height |-> IF file.animated THEN image.height ELSE PageHeight,
                      pages |-> IF file.animated THEN PageCount ELSE 1,
                      animated |-> file.animated]
    BY <1>6 DEF ReadPages
  <2>2. image \in Image
    BY <1>1, <2>1 DEF LoaderInv
  <2> QED
    BY <1>1, <1>2, <2>1, <2>2 DEF PageInv, Opening, WholePageShown
<1>7. CASE PagesFail
  <2>1. pc = "pages" /\ pc' = "rejected" /\ ~PagesAreWhole /\ UNCHANGED <<image, source>>
    BY <1>7 DEF PagesFail, Reject, End, resizeVars
  <2>2. ~EqualPages \/ (file.animated /\ Absent \in {image.pages, image.page_height})
    BY <1>1, <2>1, PagesAre DEF LoaderInv
  <2> QED
    BY <1>1, <1>2, <2>1, <2>2 DEF PageInv, Opening, WholePageShown
<1>8. CASE Validate
  <2>1. /\ pc = "validate" /\ UNCHANGED <<image, loaded>>
        /\ IF Geometry!Valid
             THEN /\ source' = [width |-> loaded.width, height |-> Geometry!FrameHeight]
                  /\ pc' = "resize"
             ELSE pc' = "rejected" /\ UNCHANGED source
    BY <1>8 DEF Validate, Geometry!Validate
  <2>2. image \in Image /\ PagesAreWhole /\ image.width \in Int /\ image.height \in Int
        /\ loaded = [width |-> image.width,
                     height |-> IF file.animated THEN image.height ELSE PageHeight,
                     pages |-> IF file.animated THEN PageCount ELSE 1,
                     animated |-> file.animated]
    BY <2>1 DEF PageInv, Image
  <2>3. /\ EqualPages /\ Rows = PageHeight /\ Rows \in Int /\ PageCount \in Int
        /\ PageCount > 0 /\ Rows > 0 /\ PageCount * Rows = image.height
    BY <2>2, PagesAre
  <2>4. image.height % PageCount = 0 /\ image.height \div PageCount = Rows
    BY <2>2, <2>3, Divides
  <2>5. Geometry!FrameHeight = Rows /\ Geometry!PagesFit
    BY <2>2, <2>3, <2>4 DEF Geometry!FrameHeight, Geometry!PagesFit
  <2>6. image.height > 0
    BY <2>2, <2>3
  <2>7. loaded.height > 0 /\ loaded.pages > 0 /\ loaded.width = image.width
    BY <2>2, <2>3, <2>6
  <2>8. Geometry!Valid <=> image.width > 0 /\ image.width <= MaxWidth /\ Rows <= MaxHeight
    BY <2>3, <2>5, <2>7 DEF Geometry!Valid, Geometry!WithinCaps
  <2>9. Geometry!Valid <=> Fits(image.width, Rows)
    BY <2>2, <2>3, <2>8, RasterAssumption DEF Fits
  <2>10. Fits(image.width, Rows)' = Fits(image.width, Rows)
    BY <1>2, <2>1 DEF Fits
  <2>11. CASE Geometry!Valid
    <3>1. pc' = "resize" /\ source' = [width |-> image.width, height |-> Rows]
      BY <2>1, <2>5, <2>7, <2>11
    <3>2. EqualPages' /\ source' = [width |-> image'.width, height |-> Rows']
      BY <1>2, <2>1, <2>3, <3>1
    <3> QED
      BY <3>1, <3>2 DEF PageInv, Opening, WholePageShown
  <2>12. CASE ~Geometry!Valid
    <3>1. pc' = "rejected" /\ ~Fits(image.width, Rows)'
      BY <2>1, <2>9, <2>10, <2>12
    <3> QED
      BY <3>1 DEF PageInv, Opening, WholePageShown
  <2> QED
    BY <2>11, <2>12
<1>9. CASE Scale
  <2>1. pc = "resize" /\ pc' = "done" /\ UNCHANGED <<image, source>>
    BY <1>9, ScaleChosen
  <2> QED
    BY <1>1, <1>2, <2>1 DEF PageInv, Opening, WholePageShown
<1>10. CASE Encode \/ EncodeFails
  <2>1. pc = "done" /\ pc' \in {"encoded", "rejected"} /\ UNCHANGED <<image, source>>
    BY <1>10 DEF Encode, EncodeFails, Reject, End, resizeVars
  <2>2. source.width > 0
    BY <2>1 DEF IInv, GeometryInv
  <2>3. source # [width |-> 0, height |-> 0]
    BY <2>2
  <2> QED
    BY <1>1, <1>2, <2>1, <2>3 DEF PageInv, Opening, WholePageShown
<1>11. CASE UNCHANGED vars
  <2>1. UNCHANGED <<pc, image, source, loaded>>
    BY <1>11 DEF vars, resizeVars
  <2> QED
    BY <1>1, <1>2, <2>1 DEF PageInv, Opening, WholePageShown, Fits
<1> QED
  BY <1>4, <1>5, <1>6, <1>7, <1>8, <1>9, <1>10, <1>11 DEF Next
-----------------------------------------------------------------------------
(* The inductive invariant holds in every state of a conversion.           *)
THEOREM Safety == Spec => []IInv
<1>1. QED BY SafetyInit, SafetyStep, PTL DEF Spec

(* Every variable of a conversion keeps its type; the bytes charged for the*)
(* images of an SVG stay within the budget, and only the data URLs that are*)
(* counted are embedded.                                                   *)
THEOREM TypeCorrect == Spec => []TypeOK
<1>1. IInv => TypeOK
  BY DEF IInv
<1>2. QED BY <1>1, Safety, PTL

(* No resize enlarges, and none asks for a side of 0: static_resize_scale  *)
(* and animated_resize_target, for every size of image, number of pages and*)
(* pair of limits.                                                         *)
THEOREM NothingIsEnlarged == Spec => []NeverUpscales
<1>1. ASSUME IInv PROVE NeverUpscales
  BY <1>1, TargetsFit, ScaleFits
  DEF IInv, TypeOK, GeometryInv, NeverUpscales, Geometry!NeverUpscales, Geometry!Static,
      Geometry!Animated, Geometry!Done
<1>2. QED BY <1>1, Safety, PTL

(* A resize meets at least one of the limits that were exceeded: the choice*)
(* by the larger excess, in both functions, never leaves both exceeded.    *)
THEOREM ALimitIsMet == Spec => []OneLimitMet
<1>1. ASSUME IInv PROVE OneLimitMet
  BY <1>1, TargetsFit, ScaleFits
  DEF IInv, TypeOK, GeometryInv, OneLimitMet, Geometry!OneLimitMet, Geometry!Static,
      Geometry!Animated, Geometry!Done
<1>2. QED BY <1>1, Safety, PTL

(* No resize distorts a page of an animation by more than the rounding of  *)
(* one side, as libvips loaded it: the pages divide the image without a    *)
(* rest, so the height of one is exact.                                    *)
THEOREM AspectIsKept == Spec => []AspectKept
<1>1. ASSUME IInv PROVE AspectKept
  <2>1. SUFFICES ASSUME Geometry!Animated PROVE
          LET distortion == 2 * (target.width * loaded.height
                                   - target.height * loaded.pages * loaded.width)
          IN \/ distortion \in (-loaded.width * loaded.pages)..(loaded.width * loaded.pages)
             \/ distortion \in (-loaded.height)..loaded.height
    BY DEF AspectKept, Geometry!AspectKept
  <2> DEFINE w == source.width
             h == source.height
             p == loaded.pages
             a == target.width
             b == target.height
             d == Distortion(target)
  <2>2. /\ loaded \in [width : Int, height : Int, pages : Nat, animated : BOOLEAN]
        /\ limits \in [width : Nat, height : Nat]
        /\ source \in [width : Int, height : Int] /\ w > 0 /\ h > 0
        /\ source = [width |-> loaded.width, height |-> Geometry!FrameHeight]
        /\ target \in Geometry!Targets /\ p > 0 /\ Geometry!PagesFit /\ loaded.animated
    BY <1>1, <2>1 DEF IInv, TypeOK, GeometryInv, Geometry!Animated, Geometry!Done
  <2>3. a \in Int /\ b \in Int /\ (d \in (-w)..w \/ d \in (-h)..h)
    BY <2>2, TargetsFit
  <2>4. p \in Nat \ {0} /\ w \in Nat /\ h \in Nat
    BY <2>2
  <2>5. loaded.width = w /\ loaded.height = p * h
    <3>1. h = loaded.height \div p /\ loaded.height % p = 0 /\ loaded.width = w
      BY <2>2 DEF Geometry!FrameHeight, Geometry!PagesFit
    <3>2. loaded.height \in Int
      BY <2>2
    <3> HIDE DEF h, p
    <3>3. QED BY <2>4, <3>1, <3>2
  <2>6. d = 2 * (a * h - b * w)
    BY DEF Distortion
  <2> HIDE DEF w, h, p, a, b, d
  <2>7. d \in Int
    BY <2>3, <2>4
  <2>8. 2 * (a * (p * h) - b * p * w) = p * d
    <3>1. a * (p * h) = p * (a * h) /\ b * p * w = p * (b * w)
      BY <2>3, <2>4
    <3>2. a * h \in Int /\ b * w \in Int
      BY <2>3, <2>4
    <3>3. QED BY <2>4, <2>6, <3>1, <3>2
  <2>9. ASSUME NEW s \in Nat, d \in (-s)..s PROVE p * d \in (-s * p)..(s * p)
    <3>1. p * (s - d) \in Nat /\ p * (s + d) \in Nat
      <4>1. s - d \in Nat /\ s + d \in Nat
        BY <2>7, <2>9
      <4>2. QED BY <2>4, <4>1
    <3>2. p * (s - d) = s * p - p * d /\ p * (s + d) = s * p + p * d
      BY <2>4, <2>7
    <3>3. p * d \in Int /\ s * p \in Int /\ -s * p = -(s * p)
      BY <2>4, <2>7
    <3>4. QED BY <3>1, <3>2, <3>3
  <2>10. \/ p * d \in (-w * p)..(w * p)
         \/ p * d \in (-(p * h))..(p * h)
    <3>1. -h * p = -(p * h) /\ h * p = p * h
      BY <2>4
    <3>2. QED BY <2>3, <2>4, <2>9, <3>1
  <2>11. QED BY <2>5, <2>8, <2>10 DEF a, b, p
<1>2. QED BY <1>1, Safety, PTL

(* For images of any size with any metadata: convert_static_image and      *)
(* convert_animated_image work on one whole page, and refuse none for its  *)
(* pages that are equal.                                                   *)
THEOREM OneWholePage == Spec => []WholePageShown
<1>1. PageInv => WholePageShown
  BY DEF PageInv
<1>2. Init => IInv /\ PageInv
  BY SafetyInit, PageInit
<1>3. (IInv /\ PageInv) /\ [Next]_vars => (IInv /\ PageInv)'
  BY SafetyStep, PageStep
<1> QED
  BY <1>1, <1>2, <1>3, PTL DEF Spec

(* load_ico_fallback shows the first entry that lies in the file and opens,*)
(* and gives up only where there is none, however many entries of whatever *)
(* kind a directory has.                                                   *)
THEOREM FirstEntryShown == Spec => []FirstOpeningEntry
<1>1. ASSUME IInv PROVE FirstOpeningEntry
  <2>1. ASSUME file.mime = "ico", Ended, ~DirectoryIsWhole
        PROVE  Usable = {} \/ Directory.count > Len(Directory.entries)
    <3>1. Directory.count \in Nat /\ Directory.entries \in Seq(Entry)
      BY <1>1, <2>1, FileTyped DEF IInv, Directory, IcoDetail
    <3>2. QED BY <2>1, <3>1 DEF DirectoryIsWhole, Usable
  <2>2. QED BY <1>1, <2>1 DEF IInv, EntryInv, FirstOpeningEntry, Usable
<1>2. QED BY <1>1, Safety, PTL

(* The pixels libheif, libjxl and resvg decoded are as many as the image   *)
(* over them has, are not released while it can be read, and are released  *)
(* exactly once, whichever return of load_avif_sequence_first_frame or of  *)
(* the conversion ends it.                                                 *)
THEOREM PixelsAreOwned == Spec => []PixelsBehindTheImage
<1>1. ASSUME IInv PROVE PixelsBehindTheImage
  <2>1. OwnerInv
    BY <1>1 DEF IInv
  <2>2. Reading /\ pixels # Undecoded => image.width * image.height * Bands <= pixels
    BY <2>1 DEF OwnerInv
  <2>3. owners # {} => releases = 0
    BY <2>1 DEF OwnerInv
  <2>4. pc \in {"pages", "validate", "resize", "done"} /\ file.mime = "avif"
          /\ pixels # Undecoded => owners # {}
    BY <2>1 DEF OwnerInv, Ended, IsDecoded
  <2>5. Ended => releases = IF file.mime = "avif" /\ pixels # Undecoded THEN 1 ELSE 0
    BY <2>1 DEF OwnerInv, IsDecoded
  <2>6. QED BY <2>2, <2>3, <2>4, <2>5 DEF PixelsBehindTheImage
<1>2. QED BY <1>1, Safety, PTL

(* Whatever the sizes, kinds and order of the data URLs of an SVG, those   *)
(* embedded keep to the budget and to the number that is counted, and none *)
(* is left out that is sound and fits together with all chargeable ones    *)
(* before it: the two counters of the resolver come to these sums.         *)
THEOREM EmbeddingIsFair == Spec => []EmbeddedWithinBudget
<1>1. ASSUME IInv PROVE EmbeddedWithinBudget
  <2> SUFFICES ASSUME file.mime = "svg", file.detail.valid PROVE EmbeddedWithinBudget
    BY DEF EmbeddedWithinBudget
  <2>1. PICK urls : urls = file.detail.urls
    OBVIOUS
  <2>2. urls \in Seq(DataUrl) /\ next \in Nat \ {0} /\ spent \in 0..MaxDataUrlBytes
        /\ embedded \subseteq 1..MaxDataUrls /\ MaxDataUrlBytes \in Nat
    BY <1>1, <2>1, FileTyped, RasterAssumption DEF IInv, TypeOK, SvgDetail
  <2>3. /\ next <= Len(urls) + 1
        /\ embedded \subseteq Sound(urls) \cap (1..(next - 1))
        /\ Bytes(urls, embedded)[next - 1] <= spent
        /\ \A i \in Sound(urls) \cap (1..(next - 1)) :
             /\ i <= MaxDataUrls
             /\ Bytes(urls, Chargeable(urls, i) \cup {i})[Len(urls)] <= MaxDataUrlBytes
             => i \in embedded
    BY <1>1, <2>1 DEF IInv, SvgInv
  <2>4. next - 1 \in 0..Len(urls) /\ embedded \subseteq 1..(next - 1)
    BY <2>2, <2>3
  <2>5. Bytes(urls, embedded)[Len(urls)] = Bytes(urls, embedded)[next - 1]
        /\ Bytes(urls, embedded)[next - 1] \in Nat
    BY <2>2, <2>4, BytesBehind, BytesAre
  <2>6. Bytes(urls, embedded)[Len(urls)] <= MaxDataUrlBytes
    BY <2>2, <2>3, <2>5
  <2> QED
    BY <2>1, <2>2, <2>3, <2>6 DEF EmbeddedWithinBudget
<1> QED
  BY <1>1, Safety, PTL
=============================================================================
