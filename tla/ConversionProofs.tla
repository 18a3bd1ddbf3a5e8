---------------------------- MODULE ConversionProofs ----------------------------
(***************************************************************************)
(* What holds of the conversion of an APNG for every file and every list of*)
(* frames (ApngConversion), and of one conversion after another in the same*)
(* process for every body and every address (MediaConversion).             *)
(*                                                                         *)
(* An APNG is followed in three invariants, one per stage:                 *)
(*   CanvasInv  what is on the canvas is, pixel by pixel, the frames that  *)
(*              no later one has buried, stacked in order;                 *)
(*   StreamInv  the parser's flags say what is in the file so far, and the *)
(*              second pass has collected what lies before its offset;     *)
(*   HandedOver between the two stages, only the frames.                   *)
(* The grammar is a property of a whole file.  It is brought down to one   *)
(* chunk by SoundMore: a sound file and a chunk are sound exactly if the   *)
(* chunk Fits, which is what the parser's own checks come to.              *)
(***************************************************************************)
EXTENDS ApngConversion, MediaConversion, Integers, FiniteSetTheorems, WellFoundedInduction, TLAPS

-----------------------------------------------------------------------------
(* The canvas.                                                            *)
CanvasTypeOK ==
  /\ decoded \in Seq(Canvas!Frame)
  /\ canvas \in [Pixels -> Seq(Nat)]
  /\ displayed \in [Pixels -> Seq(Nat)]
  /\ timestamp \in Nat
  /\ drawing \in {"frames", "failed", "assembled"}

(* Frame j leaves nothing of earlier frames at p once it is disposed of.   *)
Buries(j, p) ==
  /\ Canvas!Covers(j, p)
  /\ \/ decoded[j].dispose = "background"
     \/ /\ decoded[j].dispose = "none"
        /\ decoded[j].blend = "source" \/ decoded[j].alpha[p] = "opaque"

(* Frame k has colour at p that the next frame will be drawn on.           *)
Remains(k, p) ==
  /\ Canvas!Covers(k, p)
  /\ decoded[k].alpha[p] # "clear"
  /\ decoded[k].dispose = "none"
  /\ \A j \in (k + 1)..Len(decoded) : ~Buries(j, p)

Ground(p) == {k \in 1..Len(decoded) : Remains(k, p)}

Shown(p) == {k \in 1..Len(decoded) : Canvas!Visible(k, p)}

GroundInv == \A p \in Pixels : Canvas!Stacked(canvas[p], Ground(p))

LEMMA FrameFields ==
  ASSUME NEW f \in Canvas!Frame
  PROVE  /\ Canvas!Rect(f) \subseteq Pixels
         /\ \A p \in Canvas!Rect(f) : f.alpha[p] \in {"clear", "partial", "opaque"}
         /\ f.blend \in {"source", "over"}
         /\ f.dispose \in {"none", "background", "previous"}
         /\ f.numerator \in Nat /\ f.denominator \in Nat \ {0}
<1>1. /\ f.alpha \in UNION {[rect -> {"clear", "partial", "opaque"}] : rect \in SUBSET Pixels \ {{}}}
      /\ f.blend \in {"source", "over"}
      /\ f.dispose \in {"none", "background", "previous"}
      /\ f.numerator \in Nat /\ f.denominator \in Nat \ {0}
  BY DEF Canvas!Frame
<1>2. PICK rect \in SUBSET Pixels \ {{}} : f.alpha \in [rect -> {"clear", "partial", "opaque"}]
  BY <1>1
<1> QED
  BY <1>1, <1>2 DEF Canvas!Rect

LEMMA StackedEmpty ==
  Canvas!Stacked(<<>>, {})
BY DEF Canvas!Stacked, Canvas!Range

LEMMA StackedOne ==
  ASSUME NEW n \in Nat
  PROVE  Canvas!Stacked(<<n>>, {n})
BY DEF Canvas!Stacked, Canvas!Range

LEMMA StackedMore ==
  ASSUME NEW layers \in Seq(Nat), NEW set, Canvas!Stacked(layers, set),
         NEW n \in Nat, \A k \in set : k < n
  PROVE  Canvas!Stacked(Append(layers, n), set \cup {n})
<1> DEFINE more == Append(layers, n)
           m == Len(layers)
<1>1. /\ m \in Nat /\ Len(more) = m + 1 /\ DOMAIN more = 1..(m + 1) /\ DOMAIN layers = 1..m
      /\ \A i \in 1..m : more[i] = layers[i] /\ layers[i] \in Nat
      /\ more[m + 1] = n
  OBVIOUS
<1>2. \A i \in 1..m : layers[i] < n
  BY <1>1 DEF Canvas!Stacked, Canvas!Range
<1>3. \A i \in 2..m : layers[i - 1] < layers[i]
  BY DEF Canvas!Stacked
<1> HIDE DEF more, m
<1>4. Canvas!Range(more) = set \cup {n}
  <2>1. set = {layers[i] : i \in 1..m}
    BY <1>1 DEF Canvas!Stacked, Canvas!Range
  <2>2. Canvas!Range(more) = {more[i] : i \in 1..(m + 1)}
    BY <1>1 DEF Canvas!Range
  <2> QED
    BY <1>1, <2>1, <2>2
<1>5. \A i \in 2..(m + 1) : more[i - 1] < more[i]
  <2> TAKE i \in 2..(m + 1)
  <2>1. CASE i = m + 1
    BY <1>1, <1>2, <2>1
  <2>2. CASE i # m + 1
    BY <1>1, <1>3, <2>2
  <2> QED
    BY <2>1, <2>2
<1> QED
  BY <1>1, <1>4, <1>5 DEF Canvas!Stacked, more

(* What a frame more shows, and leaves, at a pixel.                        *)
Drawn1(f, p) ==
  LET n == Len(decoded) + 1
  IN IF p \notin Canvas!Rect(f) THEN Ground(p)
     ELSE IF f.alpha[p] = "clear" THEN IF f.blend = "source" THEN {} ELSE Ground(p)
     ELSE IF f.blend = "source" \/ f.alpha[p] = "opaque" THEN {n}
     ELSE Ground(p) \cup {n}

LEMMA FrameMore ==
  ASSUME CanvasTypeOK, NEW f \in Canvas!Frame, decoded' = Append(decoded, f)
  PROVE  /\ Len(decoded) \in Nat /\ Len(decoded') = Len(decoded) + 1
         /\ \A k \in 1..Len(decoded) : decoded'[k] = decoded[k] /\ decoded[k] \in Canvas!Frame
         /\ decoded'[Len(decoded) + 1] = f
         /\ decoded' \in Seq(Canvas!Frame)
BY DEF CanvasTypeOK

LEMMA ShownMore ==
  ASSUME CanvasTypeOK, NEW f \in Canvas!Frame, decoded' = Append(decoded, f), NEW p \in Pixels
  PROVE  Shown(p)' = Drawn1(f, p)
<1>a. PICK m \in Nat : m = Len(decoded)
  BY FrameMore
<1>b. PICK n \in Nat : n = m + 1
  OBVIOUS
<1>1. /\ m \in Nat /\ n = m + 1 /\ Len(decoded') = n
      /\ \A k \in 1..m : decoded'[k] = decoded[k] /\ decoded[k] \in Canvas!Frame
      /\ decoded'[n] = f
  BY <1>a, <1>b, FrameMore
<1>2. \A k \in 1..m : Canvas!Covers(k, p)' <=> Canvas!Covers(k, p)
  BY <1>1 DEF Canvas!Covers
<1>3. Canvas!Covers(n, p)' <=> p \in Canvas!Rect(f)
  BY <1>1 DEF Canvas!Covers
<1>4. \A j \in 1..m : Canvas!Wipes(j, p)' <=> Buries(j, p)
  <2> TAKE j \in 1..m
  <2>1. decoded'[j] = decoded[j] /\ decoded[j] \in Canvas!Frame /\ j < Len(decoded') /\ j # Len(decoded')
    BY <1>1
  <2>2. decoded[j].dispose \in {"none", "background", "previous"}
    BY <2>1, FrameFields
  <2>3. Canvas!Covers(j, p)' <=> Canvas!Covers(j, p)
    BY <1>2
  <2> QED
    BY <2>1, <2>2, <2>3 DEF Canvas!Wipes, Canvas!Drawn, Buries
<1>5. Canvas!Wipes(n, p)' <=> p \in Canvas!Rect(f) /\ (f.blend = "source" \/ f.alpha[p] = "opaque")
  <2>1. ~(n < Len(decoded')) /\ n = Len(decoded') /\ decoded'[n] = f
    BY <1>1
  <2> QED
    BY <2>1, <1>3 DEF Canvas!Wipes, Canvas!Drawn
<1>6. \A k \in 1..m : Canvas!Visible(k, p)' <=> Remains(k, p) /\ ~Canvas!Wipes(n, p)'
  <2> TAKE k \in 1..m
  <2>1. decoded'[k] = decoded[k] /\ k # Len(decoded') /\ (Canvas!Covers(k, p)' <=> Canvas!Covers(k, p))
    BY <1>1, <1>2
  <2>2. (\A j \in (k + 1)..n : ~Canvas!Wipes(j, p)') <=>
          (\A j \in (k + 1)..m : ~Buries(j, p)) /\ ~Canvas!Wipes(n, p)'
    <3>1. \A j : j \in (k + 1)..n <=> j \in (k + 1)..m \/ j = n
      BY <1>1
    <3>2. \A j \in (k + 1)..m : j \in 1..m
      BY <1>1
    <3> QED
      BY <3>1, <3>2, <1>4
  <2> QED
    BY <2>1, <2>2, <1>1, <1>a DEF Canvas!Visible, Canvas!Drawn, Remains
<1>7. Canvas!Visible(n, p)' <=> p \in Canvas!Rect(f) /\ f.alpha[p] # "clear"
  <2>1. \A j : ~(j \in (n + 1)..n)
    BY <1>1
  <2> QED
    BY <2>1, <1>1, <1>3 DEF Canvas!Visible, Canvas!Drawn
<1>8. Shown(p)' = {k \in 1..m : Canvas!Visible(k, p)'} \cup {k \in {n} : Canvas!Visible(n, p)'}
  <2>1. 1..Len(decoded') = 1..m \cup {n}
    BY <1>1
  <2> QED
    BY <2>1 DEF Shown
<1>9. Ground(p) = {k \in 1..m : Remains(k, p)}
  BY <1>a DEF Ground
<1> QED
  BY <1>5, <1>6, <1>7, <1>8, <1>9, <1>a, <1>b DEF Drawn1

LEMMA GroundMore ==
  ASSUME CanvasTypeOK, NEW f \in Canvas!Frame, decoded' = Append(decoded, f), NEW p \in Pixels
  PROVE  Ground(p)' = IF p \notin Canvas!Rect(f) THEN Ground(p)
                      ELSE IF f.dispose = "background" THEN {}
                      ELSE IF f.dispose = "previous" THEN Ground(p) ELSE Drawn1(f, p)
<1>a. PICK m \in Nat : m = Len(decoded)
  BY FrameMore
<1>b. PICK n \in Nat : n = m + 1
  OBVIOUS
<1>1. /\ m \in Nat /\ n = m + 1 /\ Len(decoded') = n
      /\ \A k \in 1..m : decoded'[k] = decoded[k] /\ decoded[k] \in Canvas!Frame
      /\ decoded'[n] = f
  BY <1>a, <1>b, FrameMore
<1>0. f.dispose \in {"none", "background", "previous"}
  BY FrameFields
<1>2. \A k \in 1..m : Canvas!Covers(k, p)' <=> Canvas!Covers(k, p)
  BY <1>1 DEF Canvas!Covers
<1>3. Canvas!Covers(n, p)' <=> p \in Canvas!Rect(f)
  BY <1>1 DEF Canvas!Covers
<1>4. \A j \in 1..m : Buries(j, p)' <=> Buries(j, p)
  BY <1>1, <1>2 DEF Buries
<1>5. Buries(n, p)' <=>
        /\ p \in Canvas!Rect(f)
        /\ \/ f.dispose = "background"
           \/ f.dispose = "none" /\ (f.blend = "source" \/ f.alpha[p] = "opaque")
  BY <1>1, <1>3 DEF Buries
<1>6. \A k \in 1..m : Remains(k, p)' <=> Remains(k, p) /\ ~Buries(n, p)'
  <2> TAKE k \in 1..m
  <2>1. decoded'[k] = decoded[k] /\ (Canvas!Covers(k, p)' <=> Canvas!Covers(k, p))
    BY <1>1, <1>2
  <2>2. (\A j \in (k + 1)..n : ~Buries(j, p)') <=>
          (\A j \in (k + 1)..m : ~Buries(j, p)) /\ ~Buries(n, p)'
    <3>1. \A j : j \in (k + 1)..n <=> j \in (k + 1)..m \/ j = n
      BY <1>1
    <3>2. \A j \in (k + 1)..m : j \in 1..m
      BY <1>1
    <3> QED
      BY <3>1, <3>2, <1>4
  <2> QED
    BY <2>1, <2>2, <1>1, <1>a DEF Remains
<1>7. Remains(n, p)' <=> p \in Canvas!Rect(f) /\ f.alpha[p] # "clear" /\ f.dispose = "none"
  <2>1. \A j : ~(j \in (n + 1)..n)
    BY <1>1
  <2> QED
    BY <2>1, <1>1, <1>3 DEF Remains
<1>8. Ground(p)' = {k \in 1..m : Remains(k, p)'} \cup {k \in {n} : Remains(n, p)'}
  <2>1. 1..Len(decoded') = 1..m \cup {n}
    BY <1>1
  <2> QED
    BY <2>1 DEF Ground
<1>9. Ground(p) = {k \in 1..m : Remains(k, p)}
  BY <1>a DEF Ground
<1> QED
  BY <1>0, <1>5, <1>6, <1>7, <1>8, <1>9, <1>a, <1>b DEF Drawn1

(* Drawing adds the new frame to the layers of a pixel, on top or alone.   *)
LEMMA BlendIsDrawn1 ==
  ASSUME CanvasTypeOK, GroundInv, NEW f \in Canvas!Frame, NEW p \in Pixels
  PROVE  LET shown == Canvas!Blend(canvas, f, Len(decoded) + 1)
         IN  shown[p] \in Seq(Nat) /\ Canvas!Stacked(shown[p], Drawn1(f, p))
<1>1. PICK n \in Nat : n = Len(decoded) + 1
  BY DEF CanvasTypeOK
<1>2. PICK below \in Seq(Nat) : below = canvas[p]
  BY DEF CanvasTypeOK
<1>3. Canvas!Stacked(below, Ground(p))
  BY <1>2 DEF GroundInv
<1>4. \A k \in Ground(p) : k < n
  BY <1>1 DEF Ground, CanvasTypeOK
<1>5. /\ p \in Canvas!Rect(f) => f.alpha[p] \in {"clear", "partial", "opaque"}
      /\ f.blend \in {"source", "over"}
  BY FrameFields
<1>6. /\ Canvas!Stacked(<<>>, {}) /\ Canvas!Stacked(<<n>>, {n})
      /\ Canvas!Stacked(Append(below, n), Ground(p) \cup {n})
  BY <1>3, <1>4, StackedEmpty, StackedOne, StackedMore
<1>7. /\ <<>> \in Seq(Nat) /\ <<n>> \in Seq(Nat) /\ Append(below, n) \in Seq(Nat)
  OBVIOUS
<1>8. below = <<>> => Ground(p) = {} /\ Canvas!Stacked(<<n>>, Ground(p) \cup {n})
  <2>1. below = <<>> => Ground(p) = {}
    BY <1>3 DEF Canvas!Stacked, Canvas!Range
  <2>2. {} \cup {n} = {n}
    OBVIOUS
  <2> QED
    BY <2>1, <2>2, <1>6
<1>9. Canvas!Blend(canvas, f, n)[p] =
        IF p \notin Canvas!Rect(f) THEN below
        ELSE IF f.alpha[p] = "clear" THEN IF f.blend = "source" THEN <<>> ELSE below
        ELSE IF f.blend = "source" \/ f.alpha[p] = "opaque" \/ below = <<>> THEN <<n>>
        ELSE Append(below, n)
  <2>1. CASE f.blend = "source"
    BY <2>1, <1>2 DEF Canvas!Blend, Canvas!SourceCopy, Canvas!ClearRectangle
  <2>2. CASE f.blend = "over"
    <3>1. Canvas!Blend(canvas, f, n)[p] =
            IF p \in Canvas!Rect(f) THEN Canvas!SourceOverPixel(below, f.alpha[p], n) ELSE below
      BY <2>2, <1>2 DEF Canvas!Blend, Canvas!SourceOver
    <3> QED
      BY <2>2, <3>1 DEF Canvas!SourceOverPixel
  <2> QED
    BY <1>5, <2>1, <2>2
<1>10. Drawn1(f, p) =
         IF p \notin Canvas!Rect(f) THEN Ground(p)
         ELSE IF f.alpha[p] = "clear" THEN IF f.blend = "source" THEN {} ELSE Ground(p)
         ELSE IF f.blend = "source" \/ f.alpha[p] = "opaque" THEN {n}
         ELSE Ground(p) \cup {n}
  BY <1>1 DEF Drawn1
<1>11. /\ Canvas!Blend(canvas, f, n)[p] \in Seq(Nat)
       /\ Canvas!Stacked(Canvas!Blend(canvas, f, n)[p], Drawn1(f, p))
  BY <1>3, <1>6, <1>7, <1>8, <1>9, <1>10
<1> QED
  BY <1>1, <1>11

LEMMA PixelAfter ==
  ASSUME CanvasTypeOK, GroundInv, NEW f \in Canvas!Frame, Canvas!AddFrame(f), NEW p \in Pixels
  PROVE  /\ displayed'[p] \in Seq(Nat) /\ Canvas!Stacked(displayed'[p], Shown(p)')
         /\ canvas'[p] \in Seq(Nat) /\ Canvas!Stacked(canvas'[p], Ground(p)')
<1>1. PICK n : n = Len(decoded) + 1
  OBVIOUS
<1>2. PICK shown : shown = Canvas!Blend(canvas, f, n)
  OBVIOUS
<1>3. /\ displayed' = shown /\ canvas' = Canvas!Dispose(canvas, shown, f)
      /\ decoded' = Append(decoded, f)
  BY <1>1, <1>2 DEF Canvas!AddFrame
<1>4. shown[p] \in Seq(Nat) /\ Canvas!Stacked(shown[p], Drawn1(f, p))
  BY <1>1, <1>2, BlendIsDrawn1
<1>5. Shown(p)' = Drawn1(f, p)
  BY <1>3, ShownMore
<1>6. Ground(p)' = IF p \notin Canvas!Rect(f) THEN Ground(p)
                   ELSE IF f.dispose = "background" THEN {}
                   ELSE IF f.dispose = "previous" THEN Ground(p) ELSE Drawn1(f, p)
  BY <1>3, GroundMore
<1>7. canvas[p] \in Seq(Nat) /\ Canvas!Stacked(canvas[p], Ground(p))
  BY DEF CanvasTypeOK, GroundInv
<1>8. f.dispose \in {"none", "background", "previous"}
  BY FrameFields
<1>9. canvas'[p] = IF f.dispose = "background"
                     THEN IF p \in Canvas!Rect(f) THEN <<>> ELSE shown[p]
                   ELSE IF f.dispose = "previous" THEN canvas[p] ELSE shown[p]
  BY <1>3 DEF Canvas!Dispose, Canvas!ClearRectangle
<1>10. p \notin Canvas!Rect(f) => Drawn1(f, p) = Ground(p)
  BY DEF Drawn1
<1> QED
  BY <1>3, <1>4, <1>5, <1>6, <1>7, <1>8, <1>9, <1>10, StackedEmpty

LEMMA BlendType ==
  ASSUME NEW pixels, NEW f, NEW n
  PROVE  /\ DOMAIN Canvas!Blend(pixels, f, n) = Pixels
         /\ Canvas!Blend(pixels, f, n) = [p \in Pixels |-> Canvas!Blend(pixels, f, n)[p]]
BY DEF Canvas!Blend, Canvas!SourceCopy, Canvas!SourceOver

-----------------------------------------------------------------------------
(* The least-number principle, for sets.                                   *)
LEMMA Least ==
  ASSUME NEW D, D \subseteq Nat, D # {}
  PROVE  \E m \in D : \A j \in D : m <= j
<1>1. PICK m \in D : \A j \in D : ~(<<j, m>> \in OpToRel(<, Nat))
  BY WFMin, NatLessThanWellFounded
<1>2. \A j \in D : ~(j < m)
  BY <1>1 DEF OpToRel
<1> QED
  BY <1>2

(* Running sums exist, so that the recursive definition of Due has a       *)
(* solution.                                                               *)
LEMMA SumsExist ==
  ASSUME NEW n \in Nat, NEW d \in [1..n -> Nat]
  PROVE  \E h \in [1..n -> Nat] :
           \A k \in 1..n : h[k] = IF k = 1 THEN 0 ELSE h[k - 1] + d[k - 1]
<1> DEFINE Sums(i) == \E h \in [1..i -> Nat] :
                        \A k \in 1..i : h[k] = IF k = 1 THEN 0 ELSE h[k - 1] + d[k - 1]
           D == {i \in 0..n : ~Sums(i)}
<1>1. SUFFICES ASSUME D # {} PROVE FALSE
  <2>1. n \in 0..n
    OBVIOUS
  <2> QED
    BY <1>1, <2>1
<1>2. PICK m \in D : \A j \in D : m <= j
  <2>1. D \subseteq Nat
    OBVIOUS
  <2> HIDE DEF D
  <2> QED
    BY <1>1, <2>1, Least
<1>3. Sums(0)
  <2>1. [k \in 1..0 |-> 0] \in [1..0 -> Nat] /\ \A k \in 1..0 : FALSE
    OBVIOUS
  <2> QED
    BY <2>1
<1>5. m \in 1..n /\ Sums(m - 1)
  <2> HIDE DEF Sums
  <2>1. m \in 0..n /\ ~Sums(m)
    BY <1>2
  <2>2. m # 0
    BY <1>3, <2>1
  <2>3. m - 1 \in 0..n /\ ~(m <= m - 1)
    BY <2>1, <2>2
  <2>4. m - 1 \notin D
    BY <1>2, <2>3
  <2> QED
    BY <2>1, <2>2, <2>3, <2>4
<1>4. m \in 1..n /\ m - 1 \in 0..n
  BY <1>5
<1>6. PICK h \in [1..(m - 1) -> Nat] :
        \A k \in 1..(m - 1) : h[k] = IF k = 1 THEN 0 ELSE h[k - 1] + d[k - 1]
  BY <1>5
<1> DEFINE last == IF m = 1 THEN 0 ELSE h[m - 1] + d[m - 1]
           g == [k \in 1..m |-> IF k = m THEN last ELSE h[k]]
<1>7. last \in Nat
  BY <1>4
<1>8. g \in [1..m -> Nat]
  BY <1>4, <1>7
<1>9. \A k \in 1..m : g[k] = IF k = 1 THEN 0 ELSE g[k - 1] + d[k - 1]
  <2> TAKE k \in 1..m
  <2>1. CASE k = m
    <3>1. k # 1 => k - 1 \in 1..m /\ k - 1 # m
      BY <1>4, <2>1
    <3>2. g[k] = last /\ (k # 1 => g[k - 1] = h[k - 1])
      BY <2>1, <3>1
    <3> QED
      BY <3>2, <2>1
  <2>2. CASE k # m
    <3>1. k \in 1..(m - 1) /\ (k # 1 => k - 1 \in 1..m /\ k - 1 # m)
      BY <1>4, <2>2
    <3>2. g[k] = h[k] /\ (k # 1 => g[k - 1] = h[k - 1])
      BY <2>2, <3>1
    <3> QED
      BY <3>1, <3>2, <1>6
  <2> QED
    BY <2>1, <2>2
<1>10. Sums(m)
  <2> HIDE DEF g
  <2> QED
    BY <1>8, <1>9
<1> QED
  BY <1>2, <1>10

LEMMA DurationType ==
  ASSUME NEW f \in Canvas!Frame
  PROVE  Canvas!DurationMs(f) \in Nat
<1>1. f.numerator \in Nat /\ f.denominator \in Nat \ {0}
  BY FrameFields
<1>2. \A a \in Nat, b \in Nat \ {0} : a \div b \in Nat
  OBVIOUS
<1> QED
  BY <1>1, <1>2 DEF Canvas!DurationMs

DueIsSummed ==
  \A k \in 1..Len(decoded) :
    /\ Canvas!Due[k] \in Nat
    /\ Canvas!Due[k] = IF k = 1 THEN 0
                       ELSE Canvas!Due[k - 1] + Canvas!DurationMs(decoded[k - 1])

AreFrames == decoded \in Seq(Canvas!Frame)

LEMMA DueIs == AreFrames => DueIsSummed
<1> SUFFICES ASSUME decoded \in Seq(Canvas!Frame) PROVE DueIsSummed
  BY DEF AreFrames
<1> DEFINE n == Len(decoded)
           d == [k \in 1..n |-> Canvas!DurationMs(decoded[k])]
<1>1. n \in Nat /\ d \in [1..n -> Nat]
  BY DurationType
<1>2. PICK h \in [1..n -> Nat] :
        \A k \in 1..n : h[k] = IF k = 1 THEN 0 ELSE h[k - 1] + d[k - 1]
  <2> HIDE DEF n, d
  <2> QED
    BY <1>1, SumsExist
<1>3. \A k \in 1..n : k # 1 => d[k - 1] = Canvas!DurationMs(decoded[k - 1])
  BY <1>1
<1>4. h = [k \in 1..n |-> IF k = 1 THEN 0
                          ELSE h[k - 1] + Canvas!DurationMs(decoded[k - 1])]
  <2>1. \A k \in 1..n : h[k] = IF k = 1 THEN 0
                               ELSE h[k - 1] + Canvas!DurationMs(decoded[k - 1])
    BY <1>2, <1>3
  <2>2. h = [k \in 1..n |-> h[k]]
    BY <1>2
  <2> HIDE DEF n, d
  <2> QED
    BY <2>1, <2>2, Zenon
<1>5. Canvas!Due = [k \in 1..n |-> IF k = 1 THEN 0
                          ELSE Canvas!Due[k - 1] + Canvas!DurationMs(decoded[k - 1])]
  BY <1>4 DEF Canvas!Due, Canvas!Drawn
<1> HIDE DEF d
<1>6. \A k \in 1..n : Canvas!Due[k] = IF k = 1 THEN 0
                          ELSE Canvas!Due[k - 1] + Canvas!DurationMs(decoded[k - 1])
  BY <1>5
<1>7. \A k \in 1..n : Canvas!Due[k] = h[k]
  <2> DEFINE D == {k \in 1..n : Canvas!Due[k] # h[k]}
  <2>1. SUFFICES ASSUME D # {} PROVE FALSE
    OBVIOUS
  <2>2. D \subseteq Nat
    OBVIOUS
  <2>3. PICK m \in D : \A j \in D : m <= j
    <3> HIDE DEF D
    <3> QED
      BY <2>1, <2>2, Least
  <2>4. m \in 1..n /\ Canvas!Due[m] # h[m] /\ (m # 1 => m - 1 \in 1..n)
    BY <2>3, <1>1
  <2>5. m # 1 => Canvas!Due[m - 1] = h[m - 1]
    BY <2>3, <2>4
  <2> QED
    BY <2>4, <2>5, <1>2, <1>3, <1>6
<1> QED
  BY <1>6, <1>7, <1>2 DEF DueIsSummed

(* A frame more changes nothing of when the others were due.               *)
LEMMA DueMore ==
  ASSUME CanvasTypeOK, NEW f \in Canvas!Frame, decoded' = Append(decoded, f)
  PROVE  Canvas!Due'[Len(decoded')] =
           IF decoded = <<>> THEN 0
           ELSE Canvas!Due[Len(decoded)] + Canvas!DurationMs(Canvas!Last(decoded))
<1>0. PICK m \in Nat : m = Len(decoded)
  BY DEF CanvasTypeOK
<1>1. /\ Len(decoded') = m + 1 /\ (m = 0 <=> decoded = <<>>)
      /\ \A k \in 1..m : decoded'[k] = decoded[k]
  BY <1>0, FrameMore DEF CanvasTypeOK
<1>2. \A k \in 1..m : /\ Canvas!Due[k] \in Nat
                      /\ Canvas!Due[k] = IF k = 1 THEN 0
                           ELSE Canvas!Due[k - 1] + Canvas!DurationMs(decoded[k - 1])
  BY <1>0, DueIs DEF CanvasTypeOK, DueIsSummed, AreFrames
<1>3. \A k \in 1..(m + 1) : /\ Canvas!Due'[k] \in Nat
                            /\ Canvas!Due'[k] = IF k = 1 THEN 0
                                ELSE Canvas!Due'[k - 1] + Canvas!DurationMs(decoded'[k - 1])
  <2>1. AreFrames' => DueIsSummed'
    BY DueIs, PTL
  <2>2. DueIsSummed'
    BY <2>1, FrameMore DEF AreFrames
  <2> QED
    BY <2>2, <1>1 DEF DueIsSummed
<1>4. \A k \in 1..m : Canvas!Due'[k] = Canvas!Due[k]
  <2> DEFINE D == {k \in 1..m : Canvas!Due'[k] # Canvas!Due[k]}
  <2>1. SUFFICES ASSUME D # {} PROVE FALSE
    OBVIOUS
  <2>2. D \subseteq Nat
    OBVIOUS
  <2>3. PICK i \in D : \A j \in D : i <= j
    <3> HIDE DEF D
    <3> QED
      BY <2>1, <2>2, Least
  <2>4. i \in 1..m /\ i \in 1..(m + 1) /\ Canvas!Due'[i] # Canvas!Due[i] /\ (i # 1 => i - 1 \in 1..m)
    BY <2>3
  <2>5. i # 1 => Canvas!Due'[i - 1] = Canvas!Due[i - 1]
    BY <2>3, <2>4
  <2>6. /\ Canvas!Due[i] =
             IF i = 1 THEN 0 ELSE Canvas!Due[i - 1] + Canvas!DurationMs(decoded[i - 1])
        /\ Canvas!Due'[i] =
             IF i = 1 THEN 0 ELSE Canvas!Due'[i - 1] + Canvas!DurationMs(decoded'[i - 1])
    BY <2>4, <1>2, <1>3
  <2>7. i # 1 => Canvas!DurationMs(decoded'[i - 1]) = Canvas!DurationMs(decoded[i - 1])
    BY <2>4, <1>1
  <2> QED
    BY <2>4, <2>5, <2>6, <2>7
<1>5. m # 0 => /\ Canvas!Due'[m] = Canvas!Due[m] /\ m + 1 # 1 /\ (m + 1) - 1 = m
               /\ decoded'[m] = decoded[m] /\ m + 1 \in 1..(m + 1)
  BY <1>1, <1>4
<1>6. m # 0 => Canvas!Due'[m + 1] = Canvas!Due[m] + Canvas!DurationMs(decoded[m])
  <2> SUFFICES ASSUME m # 0 PROVE Canvas!Due'[m + 1] = Canvas!Due[m] + Canvas!DurationMs(decoded[m])
    OBVIOUS
  <2>1. Canvas!Due'[m + 1] = Canvas!Due'[(m + 1) - 1] + Canvas!DurationMs(decoded'[(m + 1) - 1])
    BY <1>3, <1>5
  <2> QED
    BY <2>1, <1>5
<1>7. m = 0 => Canvas!Due'[m + 1] = 0
  BY <1>3
<1>8. Canvas!Last(decoded) = decoded[m]
  BY <1>0 DEF Canvas!Last
<1> QED
  BY <1>0, <1>1, <1>6, <1>7, <1>8

(* The canvas's invariant.                                                 *)
CanvasInv ==
  /\ CanvasTypeOK
  /\ GroundInv
  /\ Canvas!DisplayedLayers
  /\ Canvas!Timeline

LEMMA CanvasInit == ApngAssumption /\ Canvas!Init => CanvasInv /\ decoded = <<>> /\ drawing = "frames"
<1> SUFFICES ASSUME ApngAssumption, Canvas!Init
             PROVE  CanvasInv /\ decoded = <<>> /\ drawing = "frames"
  OBVIOUS
<1>1. /\ decoded = <<>> /\ Len(decoded) = 0 /\ timestamp = 0 /\ drawing = "frames"
      /\ canvas = [p \in Pixels |-> <<>>] /\ displayed = [p \in Pixels |-> <<>>]
  BY DEF Canvas!Init, Canvas!Transparent
<1>2. CanvasTypeOK
  BY <1>1 DEF CanvasTypeOK
<1>3. GroundInv
  <2>1. \A p \in Pixels : Ground(p) = {}
    BY <1>1 DEF Ground
  <2> QED
    BY <1>1, <2>1, StackedEmpty DEF GroundInv
<1>4. Canvas!DisplayedLayers /\ Canvas!Timeline
  BY <1>1 DEF Canvas!DisplayedLayers, Canvas!Timeline, Canvas!Drawn, ApngAssumption
<1> QED
  BY <1>1, <1>2, <1>3, <1>4 DEF CanvasInv

LEMMA CanvasAdds ==
  ASSUME CanvasInv, NEW f \in Frames, Canvas!AddFrame(f)
  PROVE  CanvasInv'
<1> USE DEF CanvasInv
<1>1. f \in Canvas!Frame /\ MaxTimestamp \in Nat
  BY ApngAssumption DEF ApngAssumption
<1>2. /\ decoded' = Append(decoded, f) /\ timestamp' = Canvas!StartsAt(f)
      /\ ~(timestamp' > MaxTimestamp) /\ drawing' = drawing
  BY DEF Canvas!AddFrame, Canvas!Overflows
<1>3. decoded' \in Seq(Canvas!Frame) /\ Len(decoded') \in Nat /\ Len(decoded') > 0
  BY <1>1, <1>2, FrameMore
<1>4. \A p \in Pixels :
        /\ displayed'[p] \in Seq(Nat) /\ Canvas!Stacked(displayed'[p], Shown(p)')
        /\ canvas'[p] \in Seq(Nat) /\ Canvas!Stacked(canvas'[p], Ground(p)')
  BY <1>1, PixelAfter
<1>5. displayed' \in [Pixels -> Seq(Nat)] /\ canvas' \in [Pixels -> Seq(Nat)]
  <2>1. PICK shown : shown = Canvas!Blend(canvas, f, Len(decoded) + 1)
    OBVIOUS
  <2>2. displayed' = shown /\ canvas' = Canvas!Dispose(canvas, shown, f)
    BY <2>1 DEF Canvas!AddFrame
  <2>3. shown = [p \in Pixels |-> shown[p]]
    BY <2>1, BlendType
  <2>4. displayed' \in [Pixels -> Seq(Nat)]
    BY <2>2, <2>3, <1>4
  <2>5. Canvas!Dispose(canvas, shown, f) = [p \in Pixels |-> Canvas!Dispose(canvas, shown, f)[p]]
    BY <2>3 DEF Canvas!Dispose, Canvas!ClearRectangle, CanvasTypeOK
  <2> QED
    BY <2>2, <2>4, <2>5, <1>4
<1>6. timestamp' = Canvas!Due'[Len(decoded')]
  <2>1. decoded # <<>> => timestamp = Canvas!Due[Len(decoded)]
    BY DEF Canvas!Timeline, Canvas!Drawn, CanvasTypeOK
  <2>2. Canvas!Due'[Len(decoded')] =
           IF decoded = <<>> THEN 0
           ELSE Canvas!Due[Len(decoded)] + Canvas!DurationMs(Canvas!Last(decoded))
    BY <1>1, <1>2, DueMore
  <2> QED
    BY <1>2, <2>1, <2>2 DEF Canvas!StartsAt
<1>7. timestamp' \in Nat
  <2>1. CASE decoded = <<>>
    BY <1>2, <2>1 DEF Canvas!StartsAt
  <2>2. CASE decoded # <<>>
    <3>1. Canvas!Last(decoded) \in Canvas!Frame
      BY <2>2 DEF Canvas!Last, CanvasTypeOK
    <3>2. Canvas!DurationMs(Canvas!Last(decoded)) \in Nat
      BY <3>1, DurationType
    <3> QED
      BY <1>2, <2>2, <3>2 DEF Canvas!StartsAt, CanvasTypeOK
  <2> QED
    BY <2>1, <2>2
<1>8. CanvasTypeOK'
  BY <1>2, <1>3, <1>5, <1>7 DEF CanvasTypeOK
<1>9. GroundInv'
  BY <1>4 DEF GroundInv
<1>10. Canvas!DisplayedLayers'
  BY <1>4 DEF Canvas!DisplayedLayers, Canvas!Drawn, Shown
<1>11. Canvas!Timeline'
  BY <1>1, <1>2, <1>6, <1>7 DEF Canvas!Timeline, Canvas!Drawn
<1> QED
  BY <1>8, <1>9, <1>10, <1>11

-----------------------------------------------------------------------------
(* The file.  Its sets of chunks and how often they are counted.           *)
LEMMA StreamCardinality == \A S : Stream!Cardinality(S) = Cardinality(S)
BY DEF Stream!Cardinality, Cardinality

IsFile == chunks \in Seq(Stream!Chunk)

Controls == Cardinality(Stream!At("fcTL"))

Numbers == Cardinality(Stream!Numbered)

HasData(i) ==
  i > 0 /\ \E j \in Stream!At("IDAT") \cup Stream!At("fdAT") : Stream!Frame(j) = i

LEMMA ChunkFields ==
  ASSUME NEW c \in Stream!Chunk
  PROVE  /\ c.type \in {"IHDR", "acTL", "fcTL", "IDAT", "fdAT", "other", "broken"}
         /\ c.valid \in BOOLEAN /\ c.number \in Nat /\ c.bytes \in Nat
BY DEF Stream!Chunk

LEMMA PositionsFinite ==
  ASSUME NEW n \in Nat, NEW S, S \subseteq 1..n
  PROVE  IsFiniteSet(S) /\ Cardinality(S) \in Nat /\ (Cardinality(S) = 0 <=> S = {})
<1>1. IsFiniteSet(1..n)
  BY FS_Interval
<1>2. IsFiniteSet(S)
  BY <1>1, FS_Subset
<1> QED
  BY <1>2, FS_CardinalityType, FS_EmptySet

(* A position behind all of a set's, counted and looked back from.         *)
LEMMA PositionMore ==
  ASSUME NEW n \in Nat, NEW S, S \subseteq 1..n
  PROVE  /\ Cardinality(S \cup {n + 1}) = Cardinality(S) + 1
         /\ \A i \in 1..n : Stream!Before(i, S \cup {n + 1}) = Stream!Before(i, S)
         /\ Stream!Before(n + 1, S \cup {n + 1}) = S
         /\ Stream!Before(n + 1, S) = S
<1>0. \A j \in S : j \in 1..n /\ j < n + 1
  OBVIOUS
<1>1. IsFiniteSet(S) /\ n + 1 \notin S
  <2>1. n + 1 \notin S
    BY <1>0
  <2> QED
    BY <2>1, PositionsFinite, Zenon
<1>2. Cardinality(S \cup {n + 1}) = Cardinality(S) + 1
  BY <1>1, FS_AddElement
<1>3. \A i \in 1..n : Stream!Before(i, S \cup {n + 1}) = Stream!Before(i, S)
  BY DEF Stream!Before
<1>4. Stream!Before(n + 1, S \cup {n + 1}) = S /\ Stream!Before(n + 1, S) = S
  <2>0. ~(n + 1 < n + 1)
    OBVIOUS
  <2>1. \A j : j \in {i \in S \cup {n + 1} : i < n + 1} <=> j \in S
    BY <1>0, <2>0, Zenon
  <2>2. \A j : j \in {i \in S : i < n + 1} <=> j \in S
    BY <1>0
  <2> QED
    BY <2>1, <2>2, Zenon DEF Stream!Before
<1> QED
  BY <1>2, <1>3, <1>4

LEMMA FileSets ==
  ASSUME IsFile
  PROVE  /\ Len(chunks) \in Nat
         /\ \A type : Stream!At(type) \subseteq 1..Len(chunks)
         /\ Stream!Numbered \subseteq 1..Len(chunks)
         /\ \A i \in 1..Len(chunks) : chunks[i] \in Stream!Chunk
         /\ \A i : Stream!Frame(i) \in Nat
         /\ \A i : Stream!Frame(i) = Cardinality(Stream!Before(i, Stream!At("fcTL")))
         /\ Controls \in Nat /\ Numbers \in Nat
         /\ Controls = 0 <=> Stream!At("fcTL") = {}
<1>1. Len(chunks) \in Nat /\ \A i \in 1..Len(chunks) : chunks[i] \in Stream!Chunk
  BY DEF IsFile
<1>2. \A type : Stream!At(type) \subseteq 1..Len(chunks)
  BY DEF Stream!At
<1>3. Stream!Numbered \subseteq 1..Len(chunks)
  BY <1>2 DEF Stream!Numbered
<1>4. \A i : Stream!Frame(i) = Cardinality(Stream!Before(i, Stream!At("fcTL")))
  BY StreamCardinality DEF Stream!Frame
<1>5. \A i : Stream!Before(i, Stream!At("fcTL")) \subseteq 1..Len(chunks)
  BY <1>2 DEF Stream!Before
<1>6. \A i : Stream!Frame(i) \in Nat
  BY <1>1, <1>4, <1>5, PositionsFinite
<1>7. Controls \in Nat /\ Numbers \in Nat /\ (Controls = 0 <=> Stream!At("fcTL") = {})
  BY <1>1, <1>2, <1>3, PositionsFinite DEF Controls, Numbers
<1> QED
  BY <1>1, <1>2, <1>3, <1>4, <1>6, <1>7

(* A chunk more at the end of the file.                                    *)
LEMMA ChunkMore ==
  ASSUME IsFile, NEW c \in Stream!Chunk, chunks' = Append(chunks, c),
         NEW n \in Nat, n = Len(chunks)
  PROVE  /\ Len(chunks') = n + 1 /\ chunks' \in Seq(Stream!Chunk)
         /\ \A i \in 1..n : chunks'[i] = chunks[i]
         /\ chunks'[n + 1] = c
         /\ \A type : Stream!At(type)' =
              IF c.type = type THEN Stream!At(type) \cup {n + 1} ELSE Stream!At(type)
         /\ Stream!Numbered' = IF c.type \in {"fcTL", "fdAT"} THEN Stream!Numbered \cup {n + 1}
                               ELSE Stream!Numbered
<1>1. /\ Len(chunks') = n + 1 /\ chunks' \in Seq(Stream!Chunk)
      /\ \A i \in 1..n : chunks'[i] = chunks[i]
      /\ chunks'[n + 1] = c
  BY DEF IsFile
<1>2. ASSUME NEW type
      PROVE  Stream!At(type)' =
               IF c.type = type THEN Stream!At(type) \cup {n + 1} ELSE Stream!At(type)
  <2>1. Stream!At(type) = {i \in 1..n : chunks[i].type = type}
    BY DEF Stream!At
  <2>2. Stream!At(type)' = {i \in 1..(n + 1) : chunks'[i].type = type}
    BY <1>1 DEF Stream!At
  <2> QED
    BY <1>1, <2>1, <2>2
<1>3. Stream!Numbered' = IF c.type \in {"fcTL", "fdAT"} THEN Stream!Numbered \cup {n + 1}
                         ELSE Stream!Numbered
  BY <1>2 DEF Stream!Numbered
<1> QED
  BY <1>1, <1>2, <1>3

LEMMA BeforeMore ==
  ASSUME IsFile, NEW c \in Stream!Chunk, chunks' = Append(chunks, c),
         NEW n \in Nat, n = Len(chunks)
  PROVE  /\ \A type : /\ \A i \in 1..n : Stream!Before(i, Stream!At(type)') =
                                         Stream!Before(i, Stream!At(type))
                      /\ Stream!Before(n + 1, Stream!At(type)') = Stream!At(type)
         /\ \A i \in 1..n : Stream!Before(i, Stream!Numbered') = Stream!Before(i, Stream!Numbered)
         /\ Stream!Before(n + 1, Stream!Numbered') = Stream!Numbered
<1>1. ASSUME NEW type
      PROVE  /\ \A i \in 1..n : Stream!Before(i, Stream!At(type)') =
                                Stream!Before(i, Stream!At(type))
             /\ Stream!Before(n + 1, Stream!At(type)') = Stream!At(type)
  <2>0. PICK S : S = Stream!At(type)
    OBVIOUS
  <2>1. S \subseteq 1..n
    BY <2>0, FileSets
  <2>2. Stream!At(type)' = S \/ Stream!At(type)' = S \cup {n + 1}
    BY <2>0, ChunkMore
  <2>3. /\ \A i \in 1..n : Stream!Before(i, S \cup {n + 1}) = Stream!Before(i, S)
        /\ Stream!Before(n + 1, S \cup {n + 1}) = S
        /\ Stream!Before(n + 1, S) = S
    BY ONLY <2>1, PositionMore, n \in Nat, Zenon
  <2>4. /\ \A i \in 1..n : Stream!Before(i, Stream!At(type)') = Stream!Before(i, S)
        /\ Stream!Before(n + 1, Stream!At(type)') = S
    BY <2>2, <2>3
  <2> QED
    BY <2>0, <2>4
<1>2. /\ \A i \in 1..n : Stream!Before(i, Stream!Numbered') = Stream!Before(i, Stream!Numbered)
      /\ Stream!Before(n + 1, Stream!Numbered') = Stream!Numbered
  <2>0. PICK S : S = Stream!Numbered
    OBVIOUS
  <2>1. S \subseteq 1..n
    BY <2>0, FileSets
  <2>2. Stream!Numbered' = S \/ Stream!Numbered' = S \cup {n + 1}
    BY <2>0, ChunkMore
  <2>3. /\ \A i \in 1..n : Stream!Before(i, S \cup {n + 1}) = Stream!Before(i, S)
        /\ Stream!Before(n + 1, S \cup {n + 1}) = S
        /\ Stream!Before(n + 1, S) = S
    BY ONLY <2>1, PositionMore, n \in Nat, Zenon
  <2>4. /\ \A i \in 1..n : Stream!Before(i, Stream!Numbered') = Stream!Before(i, S)
        /\ Stream!Before(n + 1, Stream!Numbered') = S
    BY <2>2, <2>3
  <2> QED
    BY <2>0, <2>4
<1> QED
  BY <1>1, <1>2

LEMMA CountMore ==
  ASSUME IsFile, NEW c \in Stream!Chunk, chunks' = Append(chunks, c),
         NEW n \in Nat, n = Len(chunks)
  PROVE  /\ Controls' = IF c.type = "fcTL" THEN Controls + 1 ELSE Controls
         /\ Numbers' = IF c.type \in {"fcTL", "fdAT"} THEN Numbers + 1 ELSE Numbers
         /\ \A i \in 1..n : Stream!Frame(i)' = Stream!Frame(i)
         /\ Stream!Frame(n + 1)' = Controls
<1>1. /\ Stream!At("fcTL") \subseteq 1..n /\ Stream!Numbered \subseteq 1..n
      /\ \A i : Stream!Frame(i) = Cardinality(Stream!Before(i, Stream!At("fcTL")))
  BY FileSets
<1>2. /\ Stream!At("fcTL")' =
           IF c.type = "fcTL" THEN Stream!At("fcTL") \cup {n + 1} ELSE Stream!At("fcTL")
      /\ Stream!Numbered' = IF c.type \in {"fcTL", "fdAT"} THEN Stream!Numbered \cup {n + 1}
                            ELSE Stream!Numbered
  BY ChunkMore
<1>a. ASSUME NEW S, S \subseteq 1..n
      PROVE  Cardinality(S \cup {n + 1}) = Cardinality(S) + 1
  BY ONLY <1>a, n \in Nat, PositionMore, Zenon
<1>3. Controls' = IF c.type = "fcTL" THEN Controls + 1 ELSE Controls
  <2>1. Cardinality(Stream!At("fcTL") \cup {n + 1}) = Cardinality(Stream!At("fcTL")) + 1
    BY <1>1, <1>a, Zenon
  <2> QED
    BY <1>2, <2>1 DEF Controls
<1>4. Numbers' = IF c.type \in {"fcTL", "fdAT"} THEN Numbers + 1 ELSE Numbers
  <2>1. Cardinality(Stream!Numbered \cup {n + 1}) = Cardinality(Stream!Numbered) + 1
    BY <1>1, <1>a, Zenon
  <2> QED
    BY <1>2, <2>1 DEF Numbers
<1>5. \A i : Stream!Frame(i)' = Cardinality(Stream!Before(i, Stream!At("fcTL")'))
  BY StreamCardinality DEF Stream!Frame
<1>6. /\ \A i \in 1..n : Stream!Before(i, Stream!At("fcTL")') = Stream!Before(i, Stream!At("fcTL"))
      /\ Stream!Before(n + 1, Stream!At("fcTL")') = Stream!At("fcTL")
  BY BeforeMore
<1>7. \A i \in 1..n : Stream!Frame(i)' = Stream!Frame(i)
  BY <1>1, <1>5, <1>6
<1>8. Stream!Frame(n + 1)' = Controls
  BY <1>5, <1>6 DEF Controls
<1> QED
  BY <1>3, <1>4, <1>7, <1>8

LEMMA DefaultMore ==
  ASSUME IsFile, NEW c \in Stream!Chunk, chunks' = Append(chunks, c)
  PROVE  Stream!DefaultIsFrame' <=>
           \/ Stream!DefaultIsFrame
           \/ c.type = "fcTL" /\ Controls = 0 /\ Stream!At("IDAT") = {}
<1>0. PICK n \in Nat : n = Len(chunks)
  BY FileSets
<1>1. /\ \A i \in 1..n : Stream!Frame(i)' = Stream!Frame(i)
      /\ Stream!Frame(n + 1)' = Controls
  BY <1>0, CountMore
<1>2. /\ \A i \in 1..n : Stream!Before(i, Stream!At("IDAT")') = Stream!Before(i, Stream!At("IDAT"))
      /\ Stream!Before(n + 1, Stream!At("IDAT")') = Stream!At("IDAT")
  BY <1>0, BeforeMore
<1>3. /\ Stream!At("fcTL") \subseteq 1..n
      /\ Stream!At("fcTL")' =
           IF c.type = "fcTL" THEN Stream!At("fcTL") \cup {n + 1} ELSE Stream!At("fcTL")
  BY <1>0, FileSets, ChunkMore
<1>4. Stream!DefaultIsFrame <=>
        \E i \in Stream!At("fcTL") : Stream!Frame(i) = 0 /\ Stream!Before(i, Stream!At("IDAT")) = {}
  BY DEF Stream!DefaultIsFrame
<1>5. Stream!DefaultIsFrame' <=>
        \E i \in Stream!At("fcTL")' :
          Stream!Frame(i)' = 0 /\ Stream!Before(i, Stream!At("IDAT")') = {}
  BY DEF Stream!DefaultIsFrame, Stream!Before
<1>6. \A i \in Stream!At("fcTL") :
        (Stream!Frame(i)' = 0 /\ Stream!Before(i, Stream!At("IDAT")') = {}) <=>
        (Stream!Frame(i) = 0 /\ Stream!Before(i, Stream!At("IDAT")) = {})
  BY <1>1, <1>2, <1>3
<1> QED
  BY <1>1, <1>2, <1>3, <1>4, <1>5, <1>6

LEMMA HasDataMore ==
  ASSUME IsFile, NEW c \in Stream!Chunk, chunks' = Append(chunks, c), NEW i
  PROVE  HasData(i)' <=> HasData(i) \/ (i > 0 /\ c.type \in {"IDAT", "fdAT"} /\ i = Controls)
<1>0. PICK n \in Nat : n = Len(chunks)
  BY FileSets
<1>1. /\ \A j \in 1..n : Stream!Frame(j)' = Stream!Frame(j)
      /\ Stream!Frame(n + 1)' = Controls
  BY <1>0, CountMore
<1> DEFINE D == Stream!At("IDAT") \cup Stream!At("fdAT")
<1>2. D \subseteq 1..n
  BY <1>0, FileSets
<1>3. D' = IF c.type \in {"IDAT", "fdAT"} THEN D \cup {n + 1} ELSE D
  BY <1>0, ChunkMore
<1>4. HasData(i) <=> i > 0 /\ \E j \in D : Stream!Frame(j) = i
  BY DEF HasData
<1>5. HasData(i)' <=> i > 0 /\ \E j \in D' : Stream!Frame(j)' = i
  BY DEF HasData
<1> HIDE DEF D
<1>6. \A j \in D : Stream!Frame(j)' = Stream!Frame(j)
  BY <1>1, <1>2
<1> QED
  BY <1>1, <1>3, <1>4, <1>5, <1>6

(* What makes a chunk fit behind a sound file.                             *)
FitsReadable(c) ==
  c.type # "broken" /\ (c.type \notin {"IDAT", "other"} => c.valid)

FitsControlFirst(c) ==
  /\ c.type = "IHDR" => Stream!At("IHDR") = {}
  /\ c.type = "acTL" =>
       Stream!At("acTL") = {} /\ Stream!At("IHDR") # {} /\ Stream!At("IDAT") = {} /\ c.number > 0
  /\ c.type \in {"fcTL", "fdAT", "IDAT"} => Stream!At("acTL") # {}

FitsInSequence(c) == c.type \in {"fcTL", "fdAT"} => c.number = Numbers

FitsDataPlaced(c) ==
  /\ c.type = "IDAT" => Controls = 0 \/ (Stream!DefaultIsFrame /\ Controls = 1)
  /\ c.type = "fdAT" =>
       Stream!At("IDAT") # {} /\ Controls > IF Stream!DefaultIsFrame THEN 1 ELSE 0

FitsNoFrameEmpty(c) == c.type = "fcTL" => Controls = 0 \/ HasData(Controls)

Fits(c) ==
  /\ FitsReadable(c)
  /\ FitsControlFirst(c)
  /\ FitsInSequence(c)
  /\ FitsDataPlaced(c)
  /\ FitsNoFrameEmpty(c)

LEMMA ReadableMore ==
  ASSUME IsFile, NEW c \in Stream!Chunk, chunks' = Append(chunks, c)
  PROVE  Stream!Readable' <=> Stream!Readable /\ FitsReadable(c)
<1>0. PICK n \in Nat : n = Len(chunks)
  BY FileSets
<1>1. /\ Len(chunks') = n + 1 /\ chunks'[n + 1] = c
      /\ \A i \in 1..n : chunks'[i] = chunks[i]
      /\ \A type : Stream!At(type)' =
           IF c.type = type THEN Stream!At(type) \cup {n + 1} ELSE Stream!At(type)
      /\ \A type : Stream!At(type) \subseteq 1..n
  BY <1>0, ChunkMore, FileSets
<1>2. Stream!At("broken")' = {} <=> Stream!At("broken") = {} /\ c.type # "broken"
  BY <1>1
<1>3. n + 1 \notin Stream!At("IDAT")
  BY <1>1
<1>4. 1..(n + 1) \ Stream!At("IDAT")' =
        (1..n \ Stream!At("IDAT")) \cup (IF c.type = "IDAT" THEN {} ELSE {n + 1})
  <2>1. 1..(n + 1) = 1..n \cup {n + 1} /\ n + 1 \notin 1..n
    OBVIOUS
  <2> QED
    BY <1>1, <1>3, <2>1
<1>5. (\A i \in 1..(n + 1) \ Stream!At("IDAT")' : chunks'[i].type # "other" => chunks'[i].valid) <=>
      /\ \A i \in 1..n \ Stream!At("IDAT") : chunks[i].type # "other" => chunks[i].valid
      /\ c.type \notin {"IDAT", "other"} => c.valid
  BY <1>1, <1>4
<1> QED
  BY <1>0, <1>1, <1>2, <1>5 DEF Stream!Readable, FitsReadable

LEMMA ControlFirstMore ==
  ASSUME IsFile, NEW c \in Stream!Chunk, chunks' = Append(chunks, c)
  PROVE  Stream!ControlFirst' <=> Stream!ControlFirst /\ FitsControlFirst(c)
<1>0. PICK n \in Nat : n = Len(chunks)
  BY FileSets
<1>1. /\ chunks'[n + 1] = c
      /\ \A i \in 1..n : chunks'[i] = chunks[i]
      /\ \A type : Stream!At(type)' =
           IF c.type = type THEN Stream!At(type) \cup {n + 1} ELSE Stream!At(type)
      /\ \A type : Stream!At(type) \subseteq 1..n
      /\ Stream!Numbered \subseteq 1..n
      /\ Stream!Numbered' = IF c.type \in {"fcTL", "fdAT"} THEN Stream!Numbered \cup {n + 1}
                            ELSE Stream!Numbered
  BY <1>0, ChunkMore, FileSets
<1>2. \A type : /\ \A i \in 1..n : Stream!Before(i, Stream!At(type)') =
                                   Stream!Before(i, Stream!At(type))
                /\ Stream!Before(n + 1, Stream!At(type)') = Stream!At(type)
  BY <1>0, BeforeMore
<1>3. ASSUME NEW type
      PROVE  Cardinality(Stream!At(type)') <= 1 <=>
               Cardinality(Stream!At(type)) <= 1 /\ (c.type = type => Stream!At(type) = {})
  <2>1. PICK S : S = Stream!At(type)
    OBVIOUS
  <2>2. S \subseteq 1..n
    BY <1>1, <2>1
  <2>3. Cardinality(S) \in Nat /\ (Cardinality(S) = 0 <=> S = {})
    BY <2>2, PositionsFinite
  <2>4. Cardinality(S \cup {n + 1}) = Cardinality(S) + 1
    BY <2>2, PositionMore
  <2>5. Stream!At(type)' = IF c.type = type THEN S \cup {n + 1} ELSE S
    BY <1>1, <2>1
  <2> QED
    BY <2>1, <2>3, <2>4, <2>5
<1>4. (\A i \in Stream!At("acTL")' :
         /\ Stream!Before(i, Stream!At("IHDR")') # {} /\ Stream!Before(i, Stream!At("IDAT")') = {}
         /\ chunks'[i].number > 0) <=>
      /\ \A i \in Stream!At("acTL") :
           /\ Stream!Before(i, Stream!At("IHDR")) # {} /\ Stream!Before(i, Stream!At("IDAT")) = {}
           /\ chunks[i].number > 0
      /\ c.type = "acTL" => Stream!At("IHDR") # {} /\ Stream!At("IDAT") = {} /\ c.number > 0
  <2>1. \A i \in Stream!At("acTL") : i \in 1..n
    BY <1>1
  <2>2. \A i : i \in Stream!At("acTL")' <=> i \in Stream!At("acTL") \/ (c.type = "acTL" /\ i = n + 1)
    BY <1>1
  <2> QED
    BY <1>1, <1>2, <2>1, <2>2
<1>5. (\A i \in Stream!Numbered' \cup Stream!At("IDAT")' : Stream!Before(i, Stream!At("acTL")') # {}) <=>
      /\ \A i \in Stream!Numbered \cup Stream!At("IDAT") : Stream!Before(i, Stream!At("acTL")) # {}
      /\ c.type \in {"fcTL", "fdAT", "IDAT"} => Stream!At("acTL") # {}
  <2>1. \A i \in Stream!Numbered \cup Stream!At("IDAT") : i \in 1..n
    BY <1>1
  <2>2. \A i : i \in Stream!Numbered' \cup Stream!At("IDAT")' <=>
          \/ i \in Stream!Numbered \cup Stream!At("IDAT")
          \/ c.type \in {"fcTL", "fdAT", "IDAT"} /\ i = n + 1
    BY <1>1
  <2> QED
    BY <1>2, <2>1, <2>2
<1>6. Stream!ControlFirst <=>
        /\ Cardinality(Stream!At("IHDR")) <= 1 /\ Cardinality(Stream!At("acTL")) <= 1
        /\ \A i \in Stream!At("acTL") :
             /\ Stream!Before(i, Stream!At("IHDR")) # {} /\ Stream!Before(i, Stream!At("IDAT")) = {}
             /\ chunks[i].number > 0
        /\ \A i \in Stream!Numbered \cup Stream!At("IDAT") : Stream!Before(i, Stream!At("acTL")) # {}
  BY StreamCardinality DEF Stream!ControlFirst
<1>7. Stream!ControlFirst' <=>
        /\ Cardinality(Stream!At("IHDR")') <= 1 /\ Cardinality(Stream!At("acTL")') <= 1
        /\ \A i \in Stream!At("acTL")' :
             /\ Stream!Before(i, Stream!At("IHDR")') # {} /\ Stream!Before(i, Stream!At("IDAT")') = {}
             /\ chunks'[i].number > 0
        /\ \A i \in Stream!Numbered' \cup Stream!At("IDAT")' : Stream!Before(i, Stream!At("acTL")') # {}
  BY StreamCardinality DEF Stream!ControlFirst
<1> QED
  BY <1>3, <1>4, <1>5, <1>6, <1>7 DEF FitsControlFirst

LEMMA InSequenceMore ==
  ASSUME IsFile, NEW c \in Stream!Chunk, chunks' = Append(chunks, c)
  PROVE  Stream!InSequence' <=> Stream!InSequence /\ FitsInSequence(c)
<1>0. PICK n \in Nat : n = Len(chunks)
  BY FileSets
<1>1. /\ chunks'[n + 1] = c
      /\ \A i \in 1..n : chunks'[i] = chunks[i]
      /\ Stream!Numbered \subseteq 1..n
      /\ Stream!Numbered' = IF c.type \in {"fcTL", "fdAT"} THEN Stream!Numbered \cup {n + 1}
                            ELSE Stream!Numbered
  BY <1>0, ChunkMore, FileSets
<1>2. /\ \A i \in 1..n : Stream!Before(i, Stream!Numbered') = Stream!Before(i, Stream!Numbered)
      /\ Stream!Before(n + 1, Stream!Numbered') = Stream!Numbered
  BY <1>0, BeforeMore
<1>3. Stream!InSequence <=>
        \A i \in Stream!Numbered :
          chunks[i].number = Cardinality(Stream!Before(i, Stream!Numbered))
  BY StreamCardinality DEF Stream!InSequence
<1>4. Stream!InSequence' <=>
        \A i \in Stream!Numbered' :
          chunks'[i].number = Cardinality(Stream!Before(i, Stream!Numbered'))
  BY StreamCardinality DEF Stream!InSequence
<1>5. \A i \in Stream!Numbered :
        /\ chunks'[i] = chunks[i]
        /\ Stream!Before(i, Stream!Numbered') = Stream!Before(i, Stream!Numbered)
  BY <1>1, <1>2
<1>6. \A i : i \in Stream!Numbered' <=>
        i \in Stream!Numbered \/ (c.type \in {"fcTL", "fdAT"} /\ i = n + 1)
  BY <1>1
<1> QED
  BY <1>1, <1>2, <1>3, <1>4, <1>5, <1>6 DEF FitsInSequence, Numbers

LEMMA DataPlacedMore ==
  ASSUME IsFile, NEW c \in Stream!Chunk, chunks' = Append(chunks, c)
  PROVE  Stream!DataPlaced' <=> Stream!DataPlaced /\ FitsDataPlaced(c)
<1>0. PICK n \in Nat : n = Len(chunks)
  BY FileSets
<1>1. /\ \A type : Stream!At(type)' =
           IF c.type = type THEN Stream!At(type) \cup {n + 1} ELSE Stream!At(type)
      /\ \A type : Stream!At(type) \subseteq 1..n
  BY <1>0, ChunkMore, FileSets
<1>2. /\ \A i \in 1..n : Stream!Before(i, Stream!At("IDAT")') = Stream!Before(i, Stream!At("IDAT"))
      /\ Stream!Before(n + 1, Stream!At("IDAT")') = Stream!At("IDAT")
  BY <1>0, BeforeMore
<1>3. /\ \A i \in 1..n : Stream!Frame(i)' = Stream!Frame(i)
      /\ Stream!Frame(n + 1)' = Controls
  BY <1>0, CountMore
<1>4. Stream!DefaultIsFrame' <=>
        Stream!DefaultIsFrame \/ (c.type = "fcTL" /\ Controls = 0 /\ Stream!At("IDAT") = {})
  BY DefaultMore
<1> DEFINE Image(default, i) == Stream!Frame(i) = 0 \/ (default /\ Stream!Frame(i) = 1)
           Data(default, i) == /\ Stream!Before(i, Stream!At("IDAT")) # {}
                               /\ Stream!Frame(i) > IF default THEN 1 ELSE 0
<1>5. Stream!DataPlaced <=>
        /\ \A i \in Stream!At("IDAT") : Image(Stream!DefaultIsFrame, i)
        /\ \A i \in Stream!At("fdAT") : Data(Stream!DefaultIsFrame, i)
  BY DEF Stream!DataPlaced
<1>6. Stream!DataPlaced' <=>
        /\ \A i \in Stream!At("IDAT")' :
             Stream!Frame(i)' = 0 \/ (Stream!DefaultIsFrame' /\ Stream!Frame(i)' = 1)
        /\ \A i \in Stream!At("fdAT")' :
             /\ Stream!Before(i, Stream!At("IDAT")') # {}
             /\ Stream!Frame(i)' > IF Stream!DefaultIsFrame' THEN 1 ELSE 0
  BY DEF Stream!DataPlaced, Stream!Before
<1>7. \A i \in Stream!At("IDAT") \cup Stream!At("fdAT") :
        /\ Stream!Frame(i)' = Stream!Frame(i)
        /\ Stream!Before(i, Stream!At("IDAT")') = Stream!Before(i, Stream!At("IDAT"))
  BY <1>1, <1>2, <1>3
<1>8. /\ \A i : i \in Stream!At("IDAT")' <=> i \in Stream!At("IDAT") \/ (c.type = "IDAT" /\ i = n + 1)
      /\ \A i : i \in Stream!At("fdAT")' <=> i \in Stream!At("fdAT") \/ (c.type = "fdAT" /\ i = n + 1)
  BY <1>1
<1>9. Stream!DataPlaced' <=>
        /\ \A i \in Stream!At("IDAT") : Image(Stream!DefaultIsFrame', i)
        /\ \A i \in Stream!At("fdAT") : Data(Stream!DefaultIsFrame', i)
        /\ c.type = "IDAT" => Controls = 0 \/ (Stream!DefaultIsFrame' /\ Controls = 1)
        /\ c.type = "fdAT" => /\ Stream!At("IDAT") # {}
                              /\ Controls > IF Stream!DefaultIsFrame' THEN 1 ELSE 0
  BY <1>2, <1>3, <1>6, <1>7, <1>8
<1>10. CASE Stream!DefaultIsFrame' <=> Stream!DefaultIsFrame
  BY <1>5, <1>9, <1>10 DEF FitsDataPlaced
<1>11. CASE ~(Stream!DefaultIsFrame' <=> Stream!DefaultIsFrame)
  <2>1. c.type = "fcTL" /\ Controls = 0 /\ Stream!At("IDAT") = {}
    BY <1>4, <1>11
  <2>2. \A i : Stream!Before(i, Stream!At("IDAT")) = {}
    BY <2>1 DEF Stream!Before
  <2>3. \A default, i : ~Data(default, i)
    BY <2>2
  <2> HIDE DEF Image, Data
  <2> QED
    BY <1>5, <1>9, <2>1, <2>3 DEF FitsDataPlaced
<1> QED
  BY <1>10, <1>11

LEMMA NoFrameEmptyMore ==
  ASSUME IsFile, NEW c \in Stream!Chunk, chunks' = Append(chunks, c)
  PROVE  Stream!NoFrameEmpty' <=> Stream!NoFrameEmpty /\ FitsNoFrameEmpty(c)
<1>0. PICK n \in Nat : n = Len(chunks)
  BY FileSets
<1>1. /\ \A type : Stream!At(type)' =
           IF c.type = type THEN Stream!At(type) \cup {n + 1} ELSE Stream!At(type)
      /\ \A type : Stream!At(type) \subseteq 1..n
      /\ Controls \in Nat
  BY <1>0, ChunkMore, FileSets
<1>3. /\ \A i \in 1..n : Stream!Frame(i)' = Stream!Frame(i) /\ Stream!Frame(i) \in Nat
      /\ Stream!Frame(n + 1)' = Controls
  BY <1>0, CountMore, FileSets
<1> DEFINE D == Stream!At("IDAT") \cup Stream!At("fdAT")
           Filled(i) == Stream!Frame(i) > 0 =>
                          \E j \in D : j < i /\ Stream!Frame(j) = Stream!Frame(i)
<1>4. /\ D \subseteq 1..n
      /\ \A j : j \in D' <=> j \in D \/ (c.type \in {"IDAT", "fdAT"} /\ j = n + 1)
      /\ \A i : i \in Stream!At("fcTL")' <=> i \in Stream!At("fcTL") \/ (c.type = "fcTL" /\ i = n + 1)
      /\ Stream!At("fcTL") \subseteq 1..n
  BY <1>1
<1>5. Stream!NoFrameEmpty <=> \A i \in Stream!At("fcTL") : Filled(i)
  BY DEF Stream!NoFrameEmpty
<1>6. Stream!NoFrameEmpty' <=>
        \A i \in Stream!At("fcTL")' :
          Stream!Frame(i)' > 0 => \E j \in D' : j < i /\ Stream!Frame(j)' = Stream!Frame(i)'
  BY DEF Stream!NoFrameEmpty
<1>7. HasData(Controls) <=> Controls > 0 /\ \E j \in D : Stream!Frame(j) = Controls
  BY DEF HasData
<1> HIDE DEF D
<1>8. \A i \in Stream!At("fcTL") :
        (Stream!Frame(i)' > 0 => \E j \in D' : j < i /\ Stream!Frame(j)' = Stream!Frame(i)')
        <=> Filled(i)
  <2> TAKE i \in Stream!At("fcTL")
  <2>1. i \in 1..n /\ ~(n + 1 < i)
    BY <1>4
  <2>2. \A j : (j \in D' /\ j < i) <=> (j \in D /\ j < i)
    BY <1>4, <2>1
  <2>3. \A j \in D : Stream!Frame(j)' = Stream!Frame(j)
    BY <1>3, <1>4
  <2>4. Stream!Frame(i)' = Stream!Frame(i)
    BY <1>3, <2>1
  <2> QED
    BY <2>2, <2>3, <2>4
<1>9. (Stream!Frame(n + 1)' > 0 =>
         \E j \in D' : j < n + 1 /\ Stream!Frame(j)' = Stream!Frame(n + 1)')
      <=> Controls = 0 \/ HasData(Controls)
  <2>0. (\A j \in D : j < n + 1) /\ ~(n + 1 < n + 1)
    BY <1>4
  <2>1. \A j : (j \in D' /\ j < n + 1) <=> j \in D
    <3> TAKE j
    <3>1. j \in D' <=> j \in D \/ (c.type \in {"IDAT", "fdAT"} /\ j = n + 1)
      BY <1>4
    <3>2. j = n + 1 => ~(j < n + 1)
      BY <2>0
    <3> QED
      BY <2>0, <3>1, <3>2
  <2>2. \A j \in D : Stream!Frame(j)' = Stream!Frame(j)
    BY <1>3, <1>4
  <2> QED
    BY <1>1, <1>3, <1>7, <2>1, <2>2
<1> HIDE DEF Filled
<1> QED
  BY <1>4, <1>5, <1>6, <1>8, <1>9 DEF FitsNoFrameEmpty

(* A sound file stays sound with exactly the chunks that fit.              *)
LEMMA SoundMore ==
  ASSUME IsFile, NEW c \in Stream!Chunk, chunks' = Append(chunks, c)
  PROVE  Stream!Sound' <=> Stream!Sound /\ Fits(c)
BY ReadableMore, ControlFirstMore, InSequenceMore, DataPlacedMore, NoFrameEmptyMore
   DEF Stream!Sound, Fits

-----------------------------------------------------------------------------
(* What parse_apng knows of the chunks it has accepted.                    *)
ParsedInv ==
  /\ have_ihdr <=> Stream!At("IHDR") # {}
  /\ have_actl <=> Stream!At("acTL") # {}
  /\ \A i \in Stream!At("acTL") : chunks[i].number = declared_frames
  /\ frames = Controls
  /\ expected_sequence = Numbers
  /\ saw_idat <=> Stream!At("IDAT") # {}
  /\ default_image_is_frame <=> Stream!DefaultIsFrame
  /\ frame_has_data <=> HasData(frames)
  /\ \A i \in 1..frames : i < frames => HasData(i)

ParserTypeOK ==
  /\ IsFile
  /\ have_ihdr \in BOOLEAN /\ have_actl \in BOOLEAN
  /\ default_image_is_frame \in BOOLEAN /\ frame_has_data \in BOOLEAN /\ saw_idat \in BOOLEAN
  /\ declared_frames \in Nat /\ frames \in Nat /\ expected_sequence \in Nat

(* The checks of the loop are the grammar's.                               *)
LEMMA AcceptedFits ==
  ASSUME ParserTypeOK, ParsedInv, Stream!Sound, NEW c \in Stream!Chunk
  PROVE  Stream!Accepted(c) <=> Fits(c)
<1>1. c.type \in {"IHDR", "acTL", "fcTL", "IDAT", "fdAT", "other", "broken"} /\ c.valid \in BOOLEAN
  BY ChunkFields
<1>2. Stream!At("acTL") # {} => Stream!At("IHDR") # {}
  <2>1. \A i \in Stream!At("acTL") : Stream!Before(i, Stream!At("IHDR")) # {}
    BY DEF Stream!Sound, Stream!ControlFirst
  <2> QED
    BY <2>1 DEF Stream!Before
<1>3. Stream!At("IDAT") # {} => Stream!At("acTL") # {}
  <2>1. \A i \in Stream!At("IDAT") : Stream!Before(i, Stream!At("acTL")) # {}
    BY DEF Stream!Sound, Stream!ControlFirst
  <2> QED
    BY <2>1 DEF Stream!Before
<1>4. frames \in Nat /\ frames = Controls
  BY DEF ParserTypeOK, ParsedInv
<1>5. CASE c.type = "IHDR"
  BY <1>5 DEF Stream!Accepted, Stream!AcceptsIhdr, ParsedInv, Fits, FitsReadable,
              FitsControlFirst, FitsInSequence, FitsDataPlaced, FitsNoFrameEmpty
<1>6. CASE c.type = "acTL"
  BY <1>6, <1>3 DEF Stream!Accepted, Stream!AcceptsActl, ParsedInv, Fits, FitsReadable,
              FitsControlFirst, FitsInSequence, FitsDataPlaced, FitsNoFrameEmpty
<1>7. CASE c.type = "fcTL"
  <2>1. (frames > 0 => frame_has_data) <=> Controls = 0 \/ HasData(Controls)
    BY <1>4 DEF ParsedInv
  <2> QED
    BY <1>7, <1>2, <2>1 DEF Stream!Accepted, Stream!AcceptsFctl, ParsedInv, Fits, FitsReadable,
              FitsControlFirst, FitsInSequence, FitsDataPlaced, FitsNoFrameEmpty
<1>8. CASE c.type = "IDAT"
  BY <1>8 DEF Stream!Accepted, Stream!AcceptsIdat, ParsedInv, Fits, FitsReadable,
              FitsControlFirst, FitsInSequence, FitsDataPlaced, FitsNoFrameEmpty
<1>9. CASE c.type = "fdAT"
  <2>1. frames > 0 /\ ~(default_image_is_frame /\ frames = 1) <=>
          Controls > IF Stream!DefaultIsFrame THEN 1 ELSE 0
    BY <1>4 DEF ParsedInv
  <2> QED
    BY <1>9, <1>3, <2>1 DEF Stream!Accepted, Stream!AcceptsFdat, ParsedInv, Fits, FitsReadable,
              FitsControlFirst, FitsInSequence, FitsDataPlaced, FitsNoFrameEmpty
<1>10. CASE c.type = "broken" \/ c.type = "other"
  BY <1>10 DEF Stream!Accepted, Fits, FitsReadable,
              FitsControlFirst, FitsInSequence, FitsDataPlaced, FitsNoFrameEmpty
<1> QED
  BY <1>1, <1>5, <1>6, <1>7, <1>8, <1>9, <1>10

(* And so are the checks at the end.                                       *)
LEMMA CompleteIsWhole ==
  ASSUME ParserTypeOK, ParsedInv, Stream!Sound
  PROVE  Stream!Complete <=> Stream!Whole
<1>1. /\ \A type : Stream!At(type) \subseteq 1..Len(chunks) /\ Len(chunks) \in Nat
      /\ frames = Controls /\ Controls \in Nat
  BY FileSets DEF ParserTypeOK, ParsedInv
<1>2. Cardinality(Stream!At("IHDR")) = 1 <=> have_ihdr
  <2>1. PICK S : S = Stream!At("IHDR")
    OBVIOUS
  <2>2. Cardinality(S) \in Nat /\ (Cardinality(S) = 0 <=> S = {})
    BY <1>1, <2>1, PositionsFinite
  <2>3. Cardinality(S) <= 1
    BY <2>1, StreamCardinality DEF Stream!Sound, Stream!ControlFirst
  <2> QED
    BY <2>1, <2>2, <2>3 DEF ParsedInv
<1>3. (\E i \in Stream!At("acTL") : Controls = chunks[i].number) <=>
        have_actl /\ frames = declared_frames
  BY <1>1 DEF ParsedInv
<1>4. (\E j \in Stream!At("IDAT") \cup Stream!At("fdAT") :
         Stream!Frame(j) = Controls /\ Stream!Frame(j) > 0) <=> frame_has_data
  BY <1>1 DEF ParsedInv, HasData
<1>5. Stream!Whole <=>
        /\ Cardinality(Stream!At("IHDR")) = 1
        /\ \E i \in Stream!At("acTL") : Controls = chunks[i].number
        /\ \E j \in Stream!At("IDAT") \cup Stream!At("fdAT") :
             Stream!Frame(j) = Controls /\ Stream!Frame(j) > 0
  BY StreamCardinality DEF Stream!Whole, Controls
<1> QED
  BY <1>2, <1>3, <1>4, <1>5 DEF Stream!Complete

LEMMA FrameAtMost ==
  ASSUME IsFile
  PROVE  \A i : Stream!Frame(i) <= Controls
<1>1. SUFFICES ASSUME NEW i PROVE Stream!Frame(i) <= Controls
  OBVIOUS
<1>2. PICK S : S = Stream!At("fcTL")
  OBVIOUS
<1>3. IsFiniteSet(S)
  BY <1>2, FileSets, PositionsFinite
<1>4. Stream!Before(i, S) \in SUBSET S
  BY DEF Stream!Before
<1>5. Cardinality(Stream!Before(i, S)) <= Cardinality(S)
  BY <1>3, <1>4, FS_Subset
<1> QED
  BY <1>2, <1>5, FileSets DEF Controls

(* The chunks that parse_apng accepts, one type at a time.                 *)
LEMMA ParserTypeKept ==
  ASSUME ParserTypeOK, NEW c \in Stream!Chunk,
         \/ Stream!ParseIhdr(c) \/ Stream!ParseActl(c) \/ Stream!ParseFctl(c)
         \/ Stream!ParseIdat(c) \/ Stream!ParseFdat(c) \/ Stream!ParseOther(c)
  PROVE  /\ ParserTypeOK' /\ chunks' = Append(chunks, c) /\ Stream!Accepted(c)
         /\ UNCHANGED <<parsing, Stream!decoderVars>> /\ parsing = "parse"
<1>1. \A type : Stream!Parse(type, c) =>
        /\ chunks' = Append(chunks, c) /\ Stream!Accepted(c)
        /\ UNCHANGED <<parsing, Stream!decoderVars>> /\ parsing = "parse"
  BY DEF Stream!Parse
<1>2. /\ chunks' = Append(chunks, c) /\ Stream!Accepted(c)
      /\ UNCHANGED <<parsing, Stream!decoderVars>> /\ parsing = "parse"
  BY <1>1 DEF Stream!ParseIhdr, Stream!ParseActl, Stream!ParseFctl, Stream!ParseIdat,
              Stream!ParseFdat, Stream!ParseOther
<1>3. IsFile'
  BY <1>2 DEF IsFile, ParserTypeOK
<1>4. c.number \in Nat
  BY ChunkFields
<1>5. ParserTypeOK'
  <2> USE <1>3, <1>4 DEF ParserTypeOK
  <2>1. CASE Stream!ParseIhdr(c)
    BY <2>1 DEF Stream!ParseIhdr
  <2>2. CASE Stream!ParseActl(c)
    BY <2>2 DEF Stream!ParseActl
  <2>3. CASE Stream!ParseFctl(c)
    <3>1. default_image_is_frame' \in BOOLEAN
      BY <2>3, Zenon DEF Stream!ParseFctl
    <3>2. /\ frames' = frames + 1 /\ frame_has_data' = FALSE
          /\ expected_sequence' = expected_sequence + 1
          /\ UNCHANGED <<have_ihdr, have_actl, declared_frames, saw_idat>>
      BY <2>3 DEF Stream!ParseFctl
    <3>3. frames' \in Nat /\ expected_sequence' \in Nat
      BY <3>2
    <3>4. /\ have_ihdr' \in BOOLEAN /\ have_actl' \in BOOLEAN /\ saw_idat' \in BOOLEAN
          /\ declared_frames' \in Nat /\ frame_has_data' \in BOOLEAN
      BY <3>2, Zenon
    <3> QED
      BY <3>1, <3>3, <3>4, Zenon
  <2>4. CASE Stream!ParseIdat(c)
    <3>1. frame_has_data' \in BOOLEAN
      BY <2>4, Zenon DEF Stream!ParseIdat
    <3> QED
      BY <2>4, <3>1 DEF Stream!ParseIdat
  <2>5. CASE Stream!ParseFdat(c)
    BY <2>5 DEF Stream!ParseFdat
  <2>6. CASE Stream!ParseOther(c)
    BY <2>6 DEF Stream!ParseOther, Stream!parserVars
  <2> QED
    BY <2>1, <2>2, <2>3, <2>4, <2>5, <2>6
<1> QED
  BY <1>2, <1>5

LEMMA ParsedMore ==
  ASSUME ParserTypeOK, ParsedInv, Stream!Sound, NEW c \in Stream!Chunk,
         \/ Stream!ParseIhdr(c) \/ Stream!ParseActl(c) \/ Stream!ParseFctl(c)
         \/ Stream!ParseIdat(c) \/ Stream!ParseFdat(c) \/ Stream!ParseOther(c)
  PROVE  ParsedInv'
<1>0. PICK n \in Nat : n = Len(chunks)
  BY FileSets DEF ParserTypeOK
<1>1. IsFile /\ chunks' = Append(chunks, c) /\ Stream!Accepted(c)
  BY ParserTypeKept DEF ParserTypeOK
<1>2. Fits(c)
  BY <1>1, AcceptedFits
<1>3. \A type : Stream!At(type)' =
        IF c.type = type THEN Stream!At(type) \cup {n + 1} ELSE Stream!At(type)
  BY <1>0, <1>1, ChunkMore
<1>4. /\ \A i \in 1..n : chunks'[i] = chunks[i]
      /\ chunks'[n + 1] = c
      /\ \A type : Stream!At(type) \subseteq 1..n
      /\ Controls \in Nat
  BY <1>0, <1>1, ChunkMore, FileSets
<1>5. /\ Controls' = IF c.type = "fcTL" THEN Controls + 1 ELSE Controls
      /\ Numbers' = IF c.type \in {"fcTL", "fdAT"} THEN Numbers + 1 ELSE Numbers
  BY <1>0, <1>1, CountMore
<1>6. Stream!DefaultIsFrame' <=>
        Stream!DefaultIsFrame \/ (c.type = "fcTL" /\ Controls = 0 /\ Stream!At("IDAT") = {})
  BY <1>1, DefaultMore
<1>7. \A i : HasData(i)' <=>
        HasData(i) \/ (i > 0 /\ c.type \in {"IDAT", "fdAT"} /\ i = Controls)
  BY <1>1, HasDataMore
<1>8. ~HasData(Controls + 1)
  <2>1. \A j : Stream!Frame(j) <= Controls /\ Stream!Frame(j) \in Nat
    BY <1>1, FrameAtMost, FileSets
  <2>2. \A j : Stream!Frame(j) # Controls + 1
    BY <1>4, <2>1
  <2> QED
    BY <2>2 DEF HasData
<1>9. /\ Stream!At("IHDR")' # {} <=> Stream!At("IHDR") # {} \/ c.type = "IHDR"
      /\ Stream!At("acTL")' # {} <=> Stream!At("acTL") # {} \/ c.type = "acTL"
      /\ Stream!At("IDAT")' # {} <=> Stream!At("IDAT") # {} \/ c.type = "IDAT"
  BY <1>3
<1>10. c.type # "acTL" => \A i \in Stream!At("acTL")' : chunks'[i].number = declared_frames
  <2>1. c.type # "acTL" => Stream!At("acTL")' = Stream!At("acTL")
    BY <1>3
  <2>2. \A i \in Stream!At("acTL") : chunks'[i] = chunks[i]
    BY <1>4
  <2> QED
    BY <2>1, <2>2 DEF ParsedInv
<1>11. c.type = "acTL" => \A i \in Stream!At("acTL")' : chunks'[i].number = c.number
  <2>1. c.type = "acTL" => Stream!At("acTL")' = {n + 1}
    BY <1>2, <1>3 DEF Fits, FitsControlFirst
  <2> QED
    BY <2>1, <1>4
<1>12. frames = Controls /\ (frame_has_data <=> HasData(Controls))
  BY DEF ParsedInv
<1>13. \A i \in 1..frames : i < frames => HasData(i)
  BY DEF ParsedInv
<1>14. CASE Stream!ParseFctl(c)
  <2>1. /\ c.type = "fcTL" /\ frames' = frames + 1 /\ frame_has_data' = FALSE
        /\ expected_sequence' = expected_sequence + 1
        /\ UNCHANGED <<have_ihdr, have_actl, declared_frames, saw_idat>>
    BY <1>14 DEF Stream!ParseFctl, Stream!Parse
  <2>2. default_image_is_frame' <=> IF frames = 0 THEN ~saw_idat ELSE default_image_is_frame
    BY <1>14 DEF Stream!ParseFctl
  <2>3. default_image_is_frame' <=> Stream!DefaultIsFrame'
    <3>1. frames = 0 => ~Stream!DefaultIsFrame
      BY <1>1, <1>12, FileSets DEF Stream!DefaultIsFrame
    <3> QED
      BY <2>1, <2>2, <3>1, <1>6, <1>12 DEF ParsedInv
  <2>4. \A i : HasData(i)' <=> HasData(i)
    BY <2>1, <1>7
  <2>5. frame_has_data' <=> HasData(frames)'
    <3>1. frames' = Controls + 1
      BY <2>1, <1>12
    <3> QED
      BY <2>1, <2>4, <3>1, <1>8
  <2>6. \A i \in 1..frames' : i < frames' => HasData(i)'
    <3>1. frames > 0 => HasData(frames)
      BY <1>2, <2>1, <1>12 DEF Fits, FitsNoFrameEmpty
    <3> QED
      BY <1>4, <1>12, <1>13, <2>1, <2>4, <3>1
  <2>7. /\ frames' = Controls' /\ expected_sequence' = Numbers'
        /\ \A i \in Stream!At("acTL")' : chunks'[i].number = declared_frames'
    BY <2>1, <1>5, <1>10, <1>12 DEF ParsedInv
  <2>8. /\ have_ihdr' <=> Stream!At("IHDR")' # {}
        /\ have_actl' <=> Stream!At("acTL")' # {}
        /\ saw_idat' <=> Stream!At("IDAT")' # {}
    BY <2>1, <1>9 DEF ParsedInv
  <2> QED
    BY <2>3, <2>5, <2>6, <2>7, <2>8 DEF ParsedInv
<1>15. CASE Stream!ParseIdat(c)
  <2>1. /\ c.type = "IDAT" /\ saw_idat' = TRUE
        /\ UNCHANGED <<have_ihdr, have_actl, declared_frames, frames, default_image_is_frame,
                       expected_sequence>>
    BY <1>15 DEF Stream!ParseIdat, Stream!Parse
  <2>2. frame_has_data' <=> frame_has_data \/ default_image_is_frame
    BY <1>15, Zenon DEF Stream!ParseIdat
  <2>3. default_image_is_frame => Controls = 1
    <3>1. default_image_is_frame => Controls # 0
      BY <1>1, FileSets DEF ParsedInv, Stream!DefaultIsFrame
    <3> QED
      BY <2>1, <3>1, <1>2 DEF Fits, FitsDataPlaced
  <2>4. Controls > 0 => default_image_is_frame
    BY <2>1, <1>2, <1>4 DEF Fits, FitsDataPlaced, ParsedInv
  <2>5. frame_has_data' <=> HasData(Controls)'
    <3>1. HasData(Controls)' <=> HasData(Controls) \/ Controls > 0
      BY <2>1, <1>5, <1>7
    <3> QED
      BY <2>2, <2>3, <2>4, <3>1, <1>12
  <2>6. \A i \in 1..frames' : i < frames' => HasData(i)'
    BY <2>1, <1>7, <1>13
  <2>7. frames' = Controls'
    BY <2>1, <1>5, <1>12
  <2>8. frame_has_data' <=> HasData(frames)'
    BY <2>5, <2>7
  <2> QED
    BY <2>1, <2>6, <2>7, <2>8, <1>5, <1>6, <1>9, <1>10 DEF ParsedInv
<1>16. CASE Stream!ParseFdat(c)
  <2>1. /\ c.type = "fdAT" /\ frame_has_data' = TRUE
        /\ expected_sequence' = expected_sequence + 1
        /\ UNCHANGED <<have_ihdr, have_actl, declared_frames, frames, default_image_is_frame,
                       saw_idat>>
    BY <1>16 DEF Stream!ParseFdat, Stream!Parse
  <2>2. Controls > 0
    BY <2>1, <1>2, <1>4 DEF Fits, FitsDataPlaced
  <2>3. frames' = Controls' /\ frames' = Controls
    BY <2>1, <1>5, <1>12
  <2>4. HasData(frames)'
    BY <2>1, <2>2, <2>3, <1>7
  <2>5. \A i \in 1..frames' : i < frames' => HasData(i)'
    BY <2>1, <1>7, <1>13
  <2> QED
    BY <2>1, <2>3, <2>4, <2>5, <1>5, <1>6, <1>9, <1>10 DEF ParsedInv
<1>17. ASSUME c.type \in {"IHDR", "acTL", "other"},
              UNCHANGED <<frames, default_image_is_frame, frame_has_data, saw_idat,
                          expected_sequence>>,
              have_ihdr' <=> have_ihdr \/ c.type = "IHDR",
              have_actl' <=> have_actl \/ c.type = "acTL",
              declared_frames' = IF c.type = "acTL" THEN c.number ELSE declared_frames
       PROVE  ParsedInv'
  <2>1. \A i \in Stream!At("acTL")' : chunks'[i].number = declared_frames'
    BY <1>17, <1>10, <1>11
  <2>2. frames' = Controls' /\ frames' = Controls
    BY <1>5, <1>12, <1>17
  <2>3. \A i : HasData(i)' <=> HasData(i)
    BY <1>7, <1>17
  <2>4. frame_has_data' <=> HasData(frames)'
    BY <2>2, <2>3, <1>12, <1>17
  <2>5. \A i \in 1..frames' : i < frames' => HasData(i)'
    BY <2>3, <1>13, <1>17
  <2> QED
    BY <2>1, <2>2, <2>4, <2>5, <1>5, <1>6, <1>9, <1>17 DEF ParsedInv
<1>18. CASE Stream!ParseIhdr(c)
  BY <1>17, <1>18 DEF Stream!ParseIhdr, Stream!Parse
<1>19. CASE Stream!ParseActl(c)
  BY <1>17, <1>19 DEF Stream!ParseActl, Stream!Parse
<1>20. CASE Stream!ParseOther(c)
  BY <1>17, <1>20 DEF Stream!ParseOther, Stream!Parse, Stream!parserVars
<1> QED
  BY <1>14, <1>15, <1>16, <1>18, <1>19, <1>20

-----------------------------------------------------------------------------
(* The second pass reads a file that no longer changes.                    *)
LEMMA SameFile ==
  ASSUME chunks' = chunks
  PROVE  /\ \A type : Stream!At(type)' = Stream!At(type)
         /\ Stream!Numbered' = Stream!Numbered
         /\ \A i : Stream!Frame(i)' = Stream!Frame(i)
         /\ Stream!DefaultIsFrame' <=> Stream!DefaultIsFrame
         /\ Stream!Sound' <=> Stream!Sound
         /\ Stream!Whole' <=> Stream!Whole
         /\ Controls' = Controls /\ Numbers' = Numbers
         /\ \A i : HasData(i)' <=> HasData(i)
<1>1. \A type : Stream!At(type)' = Stream!At(type)
  BY DEF Stream!At
<1>2. Stream!Numbered' = Stream!Numbered
  BY <1>1 DEF Stream!Numbered
<1>3. \A i : Stream!Frame(i)' = Stream!Frame(i)
  BY <1>1 DEF Stream!Frame
<1>4. Stream!DefaultIsFrame' <=> Stream!DefaultIsFrame
  BY <1>1, <1>3 DEF Stream!DefaultIsFrame
<1>5. Stream!Readable' <=> Stream!Readable
  BY <1>1 DEF Stream!Readable
<1>6. Stream!ControlFirst' <=> Stream!ControlFirst
  BY <1>1, <1>2 DEF Stream!ControlFirst
<1>7. Stream!InSequence' <=> Stream!InSequence
  BY <1>2 DEF Stream!InSequence
<1>8. Stream!DataPlaced' <=> Stream!DataPlaced
  BY <1>1, <1>3, <1>4 DEF Stream!DataPlaced
<1>9. Stream!NoFrameEmpty' <=> Stream!NoFrameEmpty
  BY <1>1, <1>3 DEF Stream!NoFrameEmpty
<1>10. Stream!Sound' <=> Stream!Sound
  BY <1>5, <1>6, <1>7, <1>8, <1>9 DEF Stream!Sound
<1>11. Stream!Whole' <=> Stream!Whole
  BY <1>1, <1>3 DEF Stream!Whole
<1>12. Controls' = Controls /\ Numbers' = Numbers
  BY <1>1, <1>2 DEF Controls, Numbers
<1>13. \A i : HasData(i)' <=> HasData(i)
  BY <1>1, <1>3 DEF HasData
<1> QED
  BY <1>1, <1>2, <1>3, <1>4, <1>10, <1>11, <1>12, <1>13

LEMMA BeforeNext ==
  ASSUME NEW n \in Nat, NEW S, S \subseteq 1..n, NEW m \in 1..n
  PROVE  /\ Stream!Before(m + 1, S) =
              IF m \in S THEN Stream!Before(m, S) \cup {m} ELSE Stream!Before(m, S)
         /\ m \notin Stream!Before(m, S)
         /\ IsFiniteSet(Stream!Before(m, S))
<1>1. \A j \in S : j < m + 1 <=> j < m \/ j = m
  OBVIOUS
<1>2. Stream!Before(m + 1, S) =
        IF m \in S THEN Stream!Before(m, S) \cup {m} ELSE Stream!Before(m, S)
  BY <1>1 DEF Stream!Before
<1>3. ~(m < m)
  OBVIOUS
<1>4. m \notin Stream!Before(m, S)
  BY <1>3, Zenon DEF Stream!Before
<1>5. Stream!Before(m, S) \subseteq 1..n
  BY DEF Stream!Before
<1>6. IsFiniteSet(Stream!Before(m, S))
  BY ONLY n \in Nat, <1>5, PositionsFinite, Zenon
<1> QED
  BY <1>2, <1>4, <1>6

LEMMA FrameNext ==
  ASSUME IsFile, NEW m \in 1..Len(chunks)
  PROVE  Stream!Frame(m + 1) =
           IF chunks[m].type = "fcTL" THEN Stream!Frame(m) + 1 ELSE Stream!Frame(m)
<1>0. PICK n \in Nat : n = Len(chunks)
  BY FileSets
<1>1. PICK S : S = Stream!At("fcTL")
  OBVIOUS
<1>2. S \subseteq 1..n /\ (m \in S <=> chunks[m].type = "fcTL")
  BY <1>0, <1>1 DEF Stream!At
<1>3. /\ Stream!Before(m + 1, S) =
              IF m \in S THEN Stream!Before(m, S) \cup {m} ELSE Stream!Before(m, S)
      /\ m \notin Stream!Before(m, S)
      /\ IsFiniteSet(Stream!Before(m, S))
  <2>1. m \in 1..n
    BY <1>0
  <2> QED
    BY ONLY n \in Nat, <2>1, <1>2, BeforeNext, Zenon
<1>4. Cardinality(Stream!Before(m, S) \cup {m}) = Cardinality(Stream!Before(m, S)) + 1
  BY ONLY <1>3, FS_AddElement, Zenon
<1>5. \A i : Stream!Frame(i) = Cardinality(Stream!Before(i, S))
  BY <1>1, FileSets
<1> QED
  BY <1>2, <1>3, <1>4, <1>5

(* A default image that is a frame is the first one.                       *)
LEMMA DefaultIsFirst ==
  ASSUME IsFile, Stream!DataPlaced, Stream!DefaultIsFrame, NEW m \in Stream!At("IDAT")
  PROVE  Stream!Frame(m) = 1
<1>1. PICK i \in Stream!At("fcTL") : Stream!Before(i, Stream!At("IDAT")) = {}
  BY DEF Stream!DefaultIsFrame
<1>2. /\ i \in 1..Len(chunks) /\ m \in 1..Len(chunks) /\ Len(chunks) \in Nat
      /\ chunks[i].type = "fcTL" /\ chunks[m].type = "IDAT"
  BY FileSets DEF Stream!At
<1>3. ~(m < i) /\ m # i
  BY <1>1, <1>2 DEF Stream!Before
<1>4. i < m
  BY <1>2, <1>3
<1>5. PICK S : S = Stream!Before(m, Stream!At("fcTL"))
  OBVIOUS
<1>6. S # {} /\ S \subseteq 1..Len(chunks)
  BY <1>4, <1>5, FileSets DEF Stream!Before
<1>7. Stream!Frame(m) = Cardinality(S)
  BY <1>5, FileSets
<1>8. Stream!Frame(m) # 0
  BY <1>2, <1>6, <1>7, PositionsFinite
<1> QED
  BY <1>8 DEF Stream!DataPlaced

(* The chunks whose data is a frame's.                                     *)
Data == Stream!At("fdAT") \cup {d \in Stream!At("IDAT") : Stream!Frame(d) > 0}

(* What decode_apng_frames has made of the first offset chunks: what it    *)
(* counts, what it shares, and which data it has put into each frame.      *)
Counted ==
  /\ offset \in 0..Len(chunks)
  /\ saw_frame_control \in BOOLEAN /\ before_default_image_data \in BOOLEAN
  /\ frame_index = IF Stream!Frame(offset + 1) = 0 THEN 1 ELSE Stream!Frame(offset + 1)
  /\ saw_frame_control <=> Stream!Frame(offset + 1) > 0
  /\ before_default_image_data <=> Stream!Before(offset + 1, Stream!At("IDAT")) = {}
  /\ shared = {i \in Stream!At("other") : i <= offset /\ Stream!Before(i, Stream!At("IDAT")) = {}}

Collected ==
  /\ compressed \in [1..frames -> Seq(Nat)]
  /\ \A i \in 1..frames : \A k \in 1..Len(compressed[i]) :
       /\ compressed[i][k] \in 1..offset
       /\ Stream!Frame(compressed[i][k]) = i
       /\ k > 1 => compressed[i][k - 1] < compressed[i][k]
  /\ \A j \in Data : j <= offset =>
       \E k \in 1..Len(compressed[Stream!Frame(j)]) : compressed[Stream!Frame(j)][k] = j

LEMMA IndexInFrames ==
  ASSUME IsFile, Counted, frames = Controls, frames > 0
  PROVE  frame_index \in 1..frames
<1>1. Stream!Frame(offset + 1) \in Nat /\ Stream!Frame(offset + 1) <= Controls /\ Controls \in Nat
  BY FileSets, FrameAtMost
<1> QED
  BY <1>1 DEF Counted

LEMMA DataFrames ==
  ASSUME IsFile, Stream!DataPlaced
  PROVE  \A j \in Data : Stream!Frame(j) \in 1..Controls
<1>1. \A j : Stream!Frame(j) \in Nat /\ Stream!Frame(j) <= Controls /\ Controls \in Nat
  BY FileSets, FrameAtMost
<1>2. \A j \in Data : Stream!Frame(j) > 0
  BY <1>1 DEF Data, Stream!DataPlaced
<1> QED
  BY <1>1, <1>2

LEMMA DataAdded ==
  ASSUME IsFile, Stream!DataPlaced, frames = Controls, Collected, offset \in Nat,
         chunks' = chunks, frames' = frames, offset' = offset + 1,
         frame_index \in 1..frames, frame_index = Stream!Frame(offset + 1),
         compressed' = [compressed EXCEPT ![frame_index] = Append(@, offset + 1)]
  PROVE  Collected'
<1>1. PICK m, g : m = offset /\ g = frame_index /\ m \in Nat
  OBVIOUS
<1>2. /\ \A i : Stream!Frame(i)' = Stream!Frame(i)
      /\ Data' = Data
  BY SameFile DEF Data
<1>3. compressed \in [1..frames -> Seq(Nat)]
  BY DEF Collected
<1>4. /\ compressed' \in [1..frames -> Seq(Nat)]
      /\ \A i \in 1..frames \ {g} : compressed'[i] = compressed[i]
      /\ compressed'[g] = Append(compressed[g], m + 1)
  BY <1>1, <1>3
<1>5. /\ \A i \in 1..frames : Len(compressed[i]) \in Nat
      /\ Len(compressed'[g]) = Len(compressed[g]) + 1
      /\ compressed'[g][Len(compressed[g]) + 1] = m + 1
      /\ \A k \in 1..Len(compressed[g]) : compressed'[g][k] = compressed[g][k]
  BY <1>1, <1>3, <1>4
<1>6. ASSUME NEW i \in 1..frames, NEW k \in 1..Len(compressed[i])
      PROVE  /\ compressed[i][k] \in 1..m
             /\ Stream!Frame(compressed[i][k]) = i
             /\ k > 1 => compressed[i][k - 1] < compressed[i][k]
  BY <1>1 DEF Collected
<1>7. ASSUME NEW i \in 1..frames, NEW k \in 1..Len(compressed'[i])
      PROVE  /\ compressed'[i][k] \in 1..(m + 1)
             /\ Stream!Frame(compressed'[i][k]) = i
             /\ k > 1 => compressed'[i][k - 1] < compressed'[i][k]
  <2>1. CASE i # g
    BY <2>1, <1>1, <1>4, <1>6
  <2>2. CASE i = g /\ k \in 1..Len(compressed[g])
    <3>1. k > 1 => k - 1 \in 1..Len(compressed[g])
      BY <2>2, <1>5
    <3> QED
      BY <2>2, <3>1, <1>1, <1>5, <1>6
  <2>3. CASE i = g /\ k = Len(compressed[g]) + 1
    <3>1. compressed'[i][k] = m + 1 /\ Stream!Frame(m + 1) = g
      BY <2>3, <1>1, <1>5
    <3>2. k > 1 => compressed'[i][k - 1] = compressed[g][k - 1] /\ compressed[g][k - 1] \in 1..m
      BY <2>3, <1>1, <1>5, <1>6
    <3> QED
      BY <2>3, <3>1, <3>2, <1>1
  <2>4. i = g => k \in 1..Len(compressed[g]) \/ k = Len(compressed[g]) + 1
    BY <1>5
  <2> QED
    BY <2>1, <2>2, <2>3, <2>4, Zenon
<1>8. ASSUME NEW j \in Data, j <= m + 1
      PROVE  \E k \in 1..Len(compressed'[Stream!Frame(j)]) : compressed'[Stream!Frame(j)][k] = j
  <2>1. j \in Nat
    BY FileSets DEF Data
  <2>2. CASE j = m + 1
    BY <2>2, <1>1, <1>5
  <2>3. CASE j <= m
    <3>1. PICK k \in 1..Len(compressed[Stream!Frame(j)]) : compressed[Stream!Frame(j)][k] = j
      BY <2>3, <1>1 DEF Collected
    <3>2. CASE Stream!Frame(j) = g
      BY <3>1, <3>2, <1>5
    <3>3. CASE Stream!Frame(j) # g
      <4>1. Stream!Frame(j) \in 1..frames
        BY DataFrames
      <4> QED
        BY <3>1, <3>3, <4>1, <1>4
    <3> QED
      BY <3>2, <3>3
  <2> QED
    BY <1>8, <1>1, <2>1, <2>2, <2>3
<1>9. \A i \in 1..frames' : \A k \in 1..Len(compressed'[i]) :
        /\ compressed'[i][k] \in 1..offset'
        /\ Stream!Frame(compressed[i][k])' = i
        /\ k > 1 => compressed'[i][k - 1] < compressed'[i][k]
  BY <1>1, <1>2, <1>7
<1>10. \A j \in Data' : j <= offset' =>
         \E k \in 1..Len(compressed'[Stream!Frame(j)']) : compressed'[Stream!Frame(j)'][k] = j
  BY <1>1, <1>2, <1>8
<1> QED
  BY <1>4, <1>9, <1>10 DEF Collected

LEMMA NoDataAdded ==
  ASSUME IsFile, Collected, offset \in Nat, offset + 1 \notin Data,
         chunks' = chunks, frames' = frames, offset' = offset + 1, compressed' = compressed
  PROVE  Collected'
<1>1. /\ \A i : Stream!Frame(i)' = Stream!Frame(i)
      /\ Data' = Data
  BY SameFile DEF Data
<1>2. \A j \in Data : j <= offset + 1 => j <= offset
  BY FileSets DEF Data
<1>3. \A k : k \in 1..offset => k \in 1..(offset + 1)
  OBVIOUS
<1> QED
  BY <1>1, <1>2, <1>3 DEF Collected

LEMMA CountedMore ==
  ASSUME IsFile, Counted, offset < Len(chunks),
         chunks' = chunks, offset' = offset + 1,
         IF chunks[offset + 1].type = "fcTL"
           THEN frame_index' = Stream!NextFrame /\ saw_frame_control' = TRUE
           ELSE UNCHANGED <<frame_index, saw_frame_control>>,
         IF chunks[offset + 1].type = "IDAT"
           THEN before_default_image_data' = FALSE
           ELSE UNCHANGED before_default_image_data,
         shared' = IF chunks[offset + 1].type = "other" /\ before_default_image_data
                     THEN shared \cup {offset + 1} ELSE shared
  PROVE  Counted'
<1>1. PICK m \in Nat, n \in Nat : m = offset + 1 /\ n = Len(chunks)
  BY FileSets DEF Counted
<1>2. m \in 1..n /\ offset' = m /\ offset = m - 1 /\ chunks'[m] = chunks[m]
  BY <1>1 DEF Counted
<1>3. /\ \A i : Stream!Frame(i)' = Stream!Frame(i)
      /\ \A type : Stream!At(type)' = Stream!At(type)
      /\ \A i : Stream!Frame(i) \in Nat
  BY SameFile, FileSets
<1>4. Stream!Frame(m + 1) = IF chunks[m].type = "fcTL" THEN Stream!Frame(m) + 1 ELSE Stream!Frame(m)
  BY <1>1, <1>2, FrameNext
<1>5. /\ frame_index = IF Stream!Frame(m) = 0 THEN 1 ELSE Stream!Frame(m)
      /\ saw_frame_control <=> Stream!Frame(m) > 0
  BY <1>1 DEF Counted
<1>6. /\ frame_index' = IF Stream!Frame(m + 1) = 0 THEN 1 ELSE Stream!Frame(m + 1)
      /\ saw_frame_control' <=> Stream!Frame(m + 1) > 0
  BY <1>1, <1>3, <1>4, <1>5 DEF Stream!NextFrame
<1>7. before_default_image_data' <=> Stream!Before(m + 1, Stream!At("IDAT")) = {}
  <2>1. PICK S : S = Stream!At("IDAT")
    OBVIOUS
  <2>2. S \subseteq 1..n /\ (m \in S <=> chunks[m].type = "IDAT")
    BY <1>1, <1>2, <2>1 DEF Stream!At
  <2>3. Stream!Before(m + 1, S) =
              IF m \in S THEN Stream!Before(m, S) \cup {m} ELSE Stream!Before(m, S)
    BY ONLY n \in Nat, <1>2, <2>2, BeforeNext, Zenon
  <2>4. before_default_image_data <=> Stream!Before(m, S) = {}
    BY <1>1, <2>1 DEF Counted
  <2> QED
    BY <1>1, <2>1, <2>2, <2>3, <2>4
<1>9. saw_frame_control' \in BOOLEAN /\ before_default_image_data' \in BOOLEAN
  BY Zenon DEF Counted
<1>8. shared' = {i \in Stream!At("other") : i <= m /\ Stream!Before(i, Stream!At("IDAT")) = {}}
  <2>1. m \in Stream!At("other") <=> chunks[m].type = "other"
    BY <1>1, <1>2 DEF Stream!At
  <2>2. \A i \in Stream!At("other") : i <= m <=> i <= m - 1 \/ i = m
    BY FileSets
  <2>3. before_default_image_data <=> Stream!Before(m, Stream!At("IDAT")) = {}
    BY <1>1 DEF Counted
  <2>4. shared = {i \in Stream!At("other") : i <= m - 1 /\ Stream!Before(i, Stream!At("IDAT")) = {}}
    BY <1>2 DEF Counted
  <2>5. shared' = IF m \in Stream!At("other") /\ Stream!Before(m, Stream!At("IDAT")) = {}
                    THEN shared \cup {m} ELSE shared
    BY <1>1, <2>1, <2>3
  <2> QED
    BY <2>2, <2>4, <2>5
<1> QED
  BY <1>1, <1>2, <1>3, <1>6, <1>7, <1>8, <1>9 DEF Counted

-----------------------------------------------------------------------------
(* The decoder's invariant.  While the file unfolds, the parser's flags    *)
(* say what is in it; from then on they say that it is a whole one, and    *)
(* the second pass is described by how far it has read.                    *)
Untouched ==
  /\ offset = 0 /\ frame_index = 1 /\ saw_frame_control = FALSE
  /\ before_default_image_data = TRUE /\ shared = {} /\ compressed = <<>>

StreamInv ==
  /\ ParserTypeOK
  /\ parsing \in {"parse", "rejected", "incomplete", "collect", "frames", "failed", "decoded",
                  "returned"}
  /\ parsing \notin {"rejected", "returned"} => ParsedInv /\ Stream!Sound
  /\ parsing = "rejected" => ~Stream!Sound
  /\ parsing = "incomplete" => ~Stream!Complete
  /\ parsing \in {"parse", "rejected", "incomplete", "returned"} => Untouched
  /\ parsing \in {"collect", "frames", "failed", "decoded"} =>
       Stream!Complete /\ Counted /\ Collected
  /\ parsing \in {"frames", "failed", "decoded"} => offset = Len(chunks)
  /\ parsing = "returned" => chunks = <<>> /\ frames = declared_frames

LEMMA EmptyFile ==
  ASSUME chunks = <<>>
  PROVE  /\ Stream!Sound /\ IsFile /\ Controls = 0 /\ Numbers = 0
         /\ \A type : Stream!At(type) = {}
         /\ ~Stream!DefaultIsFrame /\ \A i : ~HasData(i)
<1>1. IsFile /\ Len(chunks) = 0
  BY DEF IsFile
<1>2. \A type : Stream!At(type) = {}
  BY <1>1 DEF Stream!At
<1>3. Stream!Numbered = {}
  BY <1>2 DEF Stream!Numbered
<1>4. Cardinality({}) = 0
  BY FS_EmptySet
<1>5. \A i : ~HasData(i)
  BY <1>2 DEF HasData
<1>6. Stream!Readable /\ Stream!InSequence /\ Stream!DataPlaced /\ Stream!NoFrameEmpty
  BY <1>1, <1>2, <1>3 DEF Stream!Readable, Stream!InSequence, Stream!DataPlaced, Stream!NoFrameEmpty
<1>7. Stream!ControlFirst
  <2>1. /\ Stream!At("IHDR") = {} /\ Stream!At("acTL") = {} /\ Stream!At("IDAT") = {}
        /\ Stream!Cardinality({}) = 0
    BY <1>2, <1>4, StreamCardinality
  <2>2. Stream!Cardinality(Stream!At("IHDR")) <= 1 /\ Stream!Cardinality(Stream!At("acTL")) <= 1
    <3>1. 0 <= 1
      OBVIOUS
    <3> QED
      BY <2>1, <3>1, Zenon
  <2>3. /\ \A i \in Stream!At("acTL") : FALSE
        /\ \A i \in Stream!Numbered \cup Stream!At("IDAT") : FALSE
    BY <1>3, <2>1
  <2> QED
    BY <2>2, <2>3, Zenon DEF Stream!ControlFirst
<1> QED
  BY <1>1, <1>2, <1>3, <1>4, <1>5, <1>6, <1>7
     DEF Stream!Sound, Controls, Numbers, Stream!DefaultIsFrame

LEMMA StreamInit == Stream!Init => StreamInv
<1> SUFFICES ASSUME Stream!Init PROVE StreamInv
  OBVIOUS
<1>1. /\ chunks = <<>> /\ parsing = "parse" /\ have_ihdr = FALSE /\ have_actl = FALSE
      /\ declared_frames = 0 /\ frames = 0 /\ default_image_is_frame = FALSE
      /\ frame_has_data = FALSE /\ saw_idat = FALSE /\ expected_sequence = 0
      /\ Untouched
  BY DEF Stream!Init, Untouched
<1>2. ParserTypeOK
  BY <1>1, EmptyFile DEF ParserTypeOK
<1>3. ParsedInv
  BY <1>1, EmptyFile DEF ParsedInv
<1>4. Stream!Sound
  BY <1>1, EmptyFile
<1> QED
  BY <1>1, <1>2, <1>3, <1>4 DEF StreamInv

LEMMA ParseStep ==
  ASSUME StreamInv, NEW c \in Stream!Chunk,
         \/ Stream!ParseIhdr(c) \/ Stream!ParseActl(c) \/ Stream!ParseFctl(c)
         \/ Stream!ParseIdat(c) \/ Stream!ParseFdat(c) \/ Stream!ParseOther(c)
  PROVE  StreamInv'
<1>1. ParserTypeOK
  BY DEF StreamInv
<1>2. /\ ParserTypeOK' /\ chunks' = Append(chunks, c) /\ Stream!Accepted(c)
      /\ UNCHANGED <<parsing, Stream!decoderVars>> /\ parsing = "parse"
  BY <1>1, ParserTypeKept
<1>3. ParsedInv /\ Stream!Sound /\ Untouched
  BY <1>2 DEF StreamInv
<1>4. ParsedInv'
  BY <1>1, <1>3, ParsedMore
<1>5. Fits(c)
  BY <1>1, <1>2, <1>3, AcceptedFits
<1>6. Stream!Sound'
  BY <1>1, <1>2, <1>3, <1>5, SoundMore DEF ParserTypeOK
<1>7. Untouched'
  BY <1>2, <1>3 DEF Untouched, Stream!decoderVars
<1> QED
  BY <1>2, <1>4, <1>6, <1>7 DEF StreamInv

LEMMA RejectStep ==
  ASSUME StreamInv, NEW c \in Stream!Chunk, Stream!Reject(c)
  PROVE  StreamInv'
<1>1. /\ parsing = "parse" /\ ~Stream!Accepted(c) /\ chunks' = Append(chunks, c)
      /\ parsing' = "rejected" /\ UNCHANGED <<Stream!parserVars, Stream!decoderVars>>
  BY DEF Stream!Reject
<1>2. ParserTypeOK /\ ParsedInv /\ Stream!Sound /\ IsFile /\ Untouched
  BY <1>1 DEF StreamInv, ParserTypeOK
<1>3. ~Fits(c)
  BY <1>1, <1>2, AcceptedFits
<1>4. ~Stream!Sound'
  BY <1>1, <1>2, <1>3, SoundMore
<1>5. ParserTypeOK'
  BY <1>1, <1>2 DEF ParserTypeOK, IsFile, Stream!parserVars
<1>6. Untouched'
  BY <1>1, <1>2 DEF Untouched, Stream!decoderVars
<1> QED
  BY <1>1, <1>4, <1>5, <1>6 DEF StreamInv

(* While the file is the same and the parser is done, its knowledge is.    *)
LEMMA ParserDone ==
  ASSUME ParserTypeOK, ParsedInv, Stream!Sound, chunks' = chunks, UNCHANGED Stream!parserVars
  PROVE  ParserTypeOK' /\ ParsedInv' /\ Stream!Sound' /\ (Stream!Complete' <=> Stream!Complete)
<1>1. /\ \A type : Stream!At(type)' = Stream!At(type)
      /\ Stream!DefaultIsFrame' <=> Stream!DefaultIsFrame
      /\ Stream!Sound' <=> Stream!Sound
      /\ Controls' = Controls /\ Numbers' = Numbers
      /\ \A i : HasData(i)' <=> HasData(i)
  BY SameFile
<1>2. UNCHANGED <<have_ihdr, have_actl, declared_frames, frames, default_image_is_frame,
                  frame_has_data, saw_idat, expected_sequence>>
  BY DEF Stream!parserVars
<1>3. ParserTypeOK' /\ (Stream!Complete' <=> Stream!Complete)
  BY <1>2 DEF ParserTypeOK, IsFile, Stream!Complete
<1>4. (frame_has_data <=> HasData(frames))'
  BY <1>1, <1>2 DEF ParsedInv
<1>5. (\A i \in 1..frames : i < frames => HasData(i))'
  BY <1>1, <1>2 DEF ParsedInv
<1>6. ParsedInv'
  BY <1>1, <1>2, <1>4, <1>5 DEF ParsedInv
<1> QED
  BY <1>1, <1>3, <1>6

LEMMA ParseEndStep ==
  ASSUME StreamInv, Stream!ParseEnd
  PROVE  StreamInv'
<1>1. /\ parsing = "parse" /\ chunks' = chunks /\ UNCHANGED Stream!parserVars
      /\ UNCHANGED <<offset, frame_index, saw_frame_control, before_default_image_data, shared>>
  BY DEF Stream!ParseEnd
<1>2. ParserTypeOK /\ ParsedInv /\ Stream!Sound /\ Untouched /\ IsFile
  BY <1>1 DEF StreamInv, ParserTypeOK
<1>3. ParserTypeOK' /\ ParsedInv' /\ Stream!Sound' /\ (Stream!Complete' <=> Stream!Complete)
  BY <1>1, <1>2, ParserDone
<1>4. CASE ~Stream!Complete
  <2>1. parsing' = "incomplete" /\ UNCHANGED compressed
    BY <1>4 DEF Stream!ParseEnd
  <2>2. Untouched'
    BY <1>1, <1>2, <2>1 DEF Untouched
  <2> QED
    BY <1>3, <1>4, <2>1, <2>2 DEF StreamInv
<1>5. CASE Stream!Complete
  <2>1. parsing' = "collect" /\ compressed' = [i \in 1..frames |-> <<>>]
    BY <1>5 DEF Stream!ParseEnd
  <2>2. /\ offset' = 0 /\ frame_index' = 1 /\ saw_frame_control' = FALSE
        /\ before_default_image_data' = TRUE /\ shared' = {} /\ frames' = frames
    BY <1>1, <1>2 DEF Untouched, Stream!parserVars
  <2>3. /\ \A i : Stream!Frame(i)' = Stream!Frame(i)
        /\ \A type : Stream!At(type)' = Stream!At(type)
        /\ Data' = Data
    BY <1>1, SameFile DEF Data
  <2>4. /\ Len(chunks) \in Nat
        /\ \A type : \A i \in Stream!At(type) : i \in Nat /\ i > 0
    BY <1>2, FileSets
  <2>5. \A type : Stream!Before(1, Stream!At(type)) = {}
    BY <2>4 DEF Stream!Before
  <2>6. Stream!Frame(1) = 0
    BY <1>2, <2>5, FileSets, FS_EmptySet
  <2>7. Counted'
    <3>1. \A i \in Stream!At("other") : ~(i <= 0)
      BY <2>4
    <3>2. offset' \in 0..Len(chunks') /\ offset' + 1 = 1
      BY <1>1, <2>2, <2>4
    <3>3. /\ saw_frame_control' \in BOOLEAN /\ before_default_image_data' \in BOOLEAN
          /\ Stream!Frame(1)' = 0 /\ Stream!Before(1, Stream!At("IDAT")') = {}
      BY <2>2, <2>3, <2>5, <2>6
    <3>4. shared' = {i \in Stream!At("other")' :
                      i <= 0 /\ Stream!Before(i, Stream!At("IDAT")') = {}}
      BY <2>2, <2>3, <3>1
    <3> QED
      BY <2>2, <3>2, <3>3, <3>4 DEF Counted
  <2>8. Collected'
    <3>1. \A j \in Data : ~(j <= 0)
      BY <2>4 DEF Data
    <3>2. /\ compressed' \in [1..frames' -> Seq(Nat)]
          /\ \A i \in 1..frames' : Len(compressed'[i]) = 0
      BY <2>1, <2>2
    <3> QED
      BY <2>2, <2>3, <3>1, <3>2 DEF Collected
  <2> QED
    BY <1>3, <1>5, <2>1, <2>7, <2>8 DEF StreamInv
<1> QED
  BY <1>4, <1>5

(* A second pass over a whole file finds a frame for all of its data.      *)
LEMMA Collects ==
  ASSUME StreamInv, parsing = "collect", offset < Len(chunks), offset' = offset + 1,
         UNCHANGED <<chunks, Stream!parserVars>>
  PROVE  /\ Counted' /\ Collected' /\ UNCHANGED parsing => StreamInv'
         /\ IsFile /\ Counted /\ Collected /\ offset \in Nat /\ frames = Controls
         /\ UNCHANGED <<chunks, frames>>
         /\ Stream!DataPlaced /\ (default_image_is_frame <=> Stream!DefaultIsFrame)
         /\ offset + 1 \in Stream!At(chunks[offset + 1].type)
         /\ \A type : offset + 1 \in Stream!At(type) => chunks[offset + 1].type = type
         /\ Stream!AddData /\ frame_index = Stream!Frame(offset + 1) =>
              Collected' /\ UNCHANGED parsing
<1>1. ParserTypeOK /\ ParsedInv /\ Stream!Sound /\ Counted /\ Collected /\ Stream!Complete
  BY DEF StreamInv
<1>2. ParserTypeOK' /\ ParsedInv' /\ Stream!Sound' /\ (Stream!Complete' <=> Stream!Complete)
  BY <1>1, ParserDone
<1>3. /\ IsFile /\ offset \in Nat /\ frames = Controls /\ UNCHANGED <<chunks, frames>>
      /\ Stream!DataPlaced /\ (default_image_is_frame <=> Stream!DefaultIsFrame)
      /\ Controls \in Nat
  BY <1>1, FileSets DEF ParserTypeOK, ParsedInv, Counted, Stream!Sound, Stream!parserVars
<1>4. Counted' /\ Collected' /\ UNCHANGED parsing => StreamInv'
  BY <1>1, <1>2 DEF StreamInv
<1>5. /\ offset + 1 \in Stream!At(chunks[offset + 1].type)
      /\ \A type : offset + 1 \in Stream!At(type) => chunks[offset + 1].type = type
  <2>1. offset + 1 \in 1..Len(chunks)
    BY <1>3, FileSets
  <2> QED
    BY <2>1 DEF Stream!At
<1>6. frames > 0
  BY <1>1, <1>3 DEF Stream!Complete, ParsedInv, HasData
<1>7. frame_index \in 1..frames
  BY <1>1, <1>3, <1>6, IndexInFrames
<1>8. Len(compressed) = frames
  BY <1>1, <1>3 DEF Collected
<1>9. Stream!AddData => /\ UNCHANGED parsing
        /\ compressed' = [compressed EXCEPT ![frame_index] = Append(@, offset + 1)]
  BY <1>3, <1>7, <1>8 DEF Stream!AddData
<1>10. Stream!AddData /\ frame_index = Stream!Frame(offset + 1) => Collected' /\ UNCHANGED parsing
  BY <1>1, <1>3, <1>7, <1>9, DataAdded
<1> QED
  BY <1>1, <1>3, <1>4, <1>5, <1>10

LEMMA CollectStep ==
  ASSUME StreamInv,
         \/ Stream!CollectFctl \/ Stream!CollectIdat \/ Stream!CollectFdat \/ Stream!CollectOther
  PROVE  StreamInv'
<1>1. /\ parsing = "collect" /\ offset < Len(chunks) /\ offset' = offset + 1
      /\ UNCHANGED <<chunks, Stream!parserVars>>
  BY DEF Stream!CollectFctl, Stream!CollectIdat, Stream!CollectFdat, Stream!CollectOther,
         Stream!Collect
<1>2. /\ Counted' /\ Collected' /\ UNCHANGED parsing => StreamInv'
      /\ IsFile /\ Counted /\ Collected /\ offset \in Nat /\ frames = Controls
      /\ UNCHANGED <<chunks, frames>>
      /\ Stream!DataPlaced /\ (default_image_is_frame <=> Stream!DefaultIsFrame)
      /\ offset + 1 \in Stream!At(chunks[offset + 1].type)
      /\ \A type : offset + 1 \in Stream!At(type) => chunks[offset + 1].type = type
      /\ Stream!AddData /\ frame_index = Stream!Frame(offset + 1) =>
           Collected' /\ UNCHANGED parsing
  BY <1>1, Collects
<1>3. frame_index = IF Stream!Frame(offset + 1) = 0 THEN 1 ELSE Stream!Frame(offset + 1)
  BY <1>2 DEF Counted
<1>4. offset + 1 \in Data <=>
        \/ chunks[offset + 1].type = "fdAT"
        \/ chunks[offset + 1].type = "IDAT" /\ Stream!Frame(offset + 1) > 0
  BY <1>2 DEF Data
<1>5. offset + 1 \notin Data /\ UNCHANGED compressed => Collected'
  BY <1>1, <1>2, NoDataAdded
<1>6. CASE Stream!CollectFctl
  <2>1. /\ chunks[offset + 1].type = "fcTL"
        /\ frame_index' = Stream!NextFrame /\ saw_frame_control' = TRUE
        /\ UNCHANGED <<parsing, before_default_image_data, shared, compressed>>
    BY <1>6 DEF Stream!CollectFctl, Stream!Collect
  <2>2. Counted'
    BY <1>1, <1>2, <2>1, CountedMore
  <2> QED
    BY <1>2, <1>4, <1>5, <2>1, <2>2
<1>7. CASE Stream!CollectIdat
  <2>1. /\ chunks[offset + 1].type = "IDAT" /\ before_default_image_data' = FALSE
        /\ UNCHANGED <<frame_index, saw_frame_control, shared>>
    BY <1>7 DEF Stream!CollectIdat, Stream!Collect
  <2>2. Counted'
    BY <1>1, <1>2, <2>1, CountedMore
  <2>3. CASE default_image_is_frame
    <3>1. Stream!Frame(offset + 1) = 1
      BY <1>2, <2>1, <2>3, DefaultIsFirst
    <3>2. Stream!AddData
      BY <1>7, <2>3 DEF Stream!CollectIdat, Stream!CollectsDefault
    <3> QED
      BY <1>2, <1>3, <2>2, <3>1, <3>2
  <2>4. CASE ~default_image_is_frame
    <3>1. UNCHANGED <<parsing, compressed>>
      BY <1>7, <2>4 DEF Stream!CollectIdat, Stream!CollectsDefault
    <3>2. Stream!Frame(offset + 1) = 0
      BY <1>2, <2>1, <2>4 DEF Stream!DataPlaced
    <3> QED
      BY <1>2, <1>4, <1>5, <2>1, <2>2, <3>1, <3>2
  <2> QED
    BY <2>3, <2>4
<1>8. CASE Stream!CollectFdat
  <2>1. /\ chunks[offset + 1].type = "fdAT" /\ Stream!AddData
        /\ UNCHANGED <<frame_index, saw_frame_control, before_default_image_data, shared>>
    BY <1>8 DEF Stream!CollectFdat, Stream!Collect
  <2>2. Counted'
    BY <1>1, <1>2, <2>1, CountedMore
  <2>3. Stream!Frame(offset + 1) > 0
    BY <1>2, <2>1, FileSets DEF Stream!DataPlaced
  <2> QED
    BY <1>2, <1>3, <2>1, <2>2, <2>3
<1>9. CASE Stream!CollectOther
  <2>1. /\ chunks[offset + 1].type \in {"IHDR", "acTL", "other"}
        /\ shared' = IF before_default_image_data /\ chunks[offset + 1].type = "other"
                       THEN shared \cup {offset + 1} ELSE shared
        /\ UNCHANGED <<parsing, frame_index, saw_frame_control, before_default_image_data,
                       compressed>>
    BY <1>9 DEF Stream!CollectOther, Stream!Collect, Stream!IsShared
  <2>2. Counted'
    BY <1>1, <1>2, <2>1, CountedMore
  <2> QED
    BY <1>2, <1>4, <1>5, <2>1, <2>2
<1> QED
  BY <1>6, <1>7, <1>8, <1>9

(* Where nothing is read, only the phase changes.                          *)
LEMMA PhaseStep ==
  ASSUME StreamInv, UNCHANGED <<chunks, Stream!parserVars, Stream!decoderVars>>,
         \/ parsing = "collect" /\ offset = Len(chunks) /\ parsing' = "frames"
         \/ parsing = "frames" /\ parsing' \in {"failed", "decoded"}
         \/ parsing' = parsing
  PROVE  StreamInv'
<1>1. /\ ParserTypeOK /\ chunks' = chunks /\ frames' = frames /\ declared_frames' = declared_frames
      /\ UNCHANGED <<offset, frame_index, saw_frame_control, before_default_image_data, shared,
                     compressed>>
  BY DEF StreamInv, Stream!parserVars, Stream!decoderVars
<1>2. /\ \A i : Stream!Frame(i)' = Stream!Frame(i)
      /\ \A type : Stream!At(type)' = Stream!At(type)
      /\ Stream!Sound' <=> Stream!Sound
      /\ Data' = Data
  BY <1>1, SameFile DEF Data
<1>3. Counted => Counted'
  BY <1>1, <1>2 DEF Counted
<1>4. Collected => Collected'
  BY <1>1, <1>2 DEF Collected
<1>5. ParserTypeOK' /\ (Stream!Complete' <=> Stream!Complete)
  BY <1>1 DEF ParserTypeOK, IsFile, Stream!Complete, Stream!parserVars
<1>6. ParsedInv /\ Stream!Sound => ParsedInv'
  BY <1>1, ParserDone
<1>7. Untouched => Untouched'
  BY <1>1 DEF Untouched
<1> QED
  BY <1>1, <1>2, <1>3, <1>4, <1>5, <1>6, <1>7 DEF StreamInv

-----------------------------------------------------------------------------
(* What the invariant says of a decoder.                                   *)
LEMMA StreamSafe ==
  ASSUME StreamInv
  PROVE  Stream!ParsesTheGrammar /\ Stream!FramesGetTheirData
<1>1. Stream!ParsesTheGrammar
  <2>1. parsing # "rejected" => Stream!Sound
    BY EmptyFile DEF StreamInv
  <2>2. parsing = "incomplete" => ~Stream!Whole
    BY CompleteIsWhole DEF StreamInv
  <2>3. parsing \in {"collect", "frames", "failed", "decoded"} => Stream!Whole
    BY CompleteIsWhole DEF StreamInv
  <2> QED
    BY <2>1, <2>2, <2>3 DEF Stream!ParsesTheGrammar, StreamInv
<1>2. SUFFICES ASSUME parsing \in {"frames", "decoded", "failed"}
               PROVE  /\ Stream!DataInFrames
                      /\ \A i \in 1..frames : compressed[i] # <<>>
  BY <1>1 DEF Stream!FramesGetTheirData
<1>3. /\ IsFile /\ ParsedInv /\ Stream!Complete /\ Stream!Sound /\ Counted /\ Collected
      /\ offset = Len(chunks)
  BY <1>2 DEF StreamInv, ParserTypeOK
<1>4. /\ Len(chunks) \in Nat
      /\ \A type : Stream!At(type) \subseteq 1..Len(chunks)
      /\ \A i : Stream!Frame(i) \in Nat
      /\ frames = Controls /\ frames \in Nat
  BY <1>3, FileSets DEF ParsedInv
<1>5. \A j \in Data : j <= offset
  BY <1>3, <1>4 DEF Data
<1>6. \A j \in Data : \E k \in 1..Len(compressed[Stream!Frame(j)]) : compressed[Stream!Frame(j)][k] = j
  BY <1>3, <1>5 DEF Collected
<1>7. Stream!DataInFrames
  <2>1. \A i \in 1..frames : \A k \in 1..Len(compressed[i]) :
       /\ Stream!Frame(compressed[i][k]) = i
       /\ k > 1 => compressed[i][k - 1] < compressed[i][k]
    BY <1>3 DEF Collected
  <2>2. shared = {i \in Stream!At("other") : Stream!Before(i, Stream!At("IDAT")) = {}}
    BY <1>3, <1>4 DEF Counted
  <2> QED
    BY <1>6, <2>1, <2>2 DEF Stream!DataInFrames, Data
<1>8. \A i \in 1..frames : compressed[i] # <<>>
  <2>1. SUFFICES ASSUME NEW i \in 1..frames PROVE compressed[i] # <<>>
    OBVIOUS
  <2>2. HasData(i)
    <3>1. i < frames => HasData(i)
      BY <1>3 DEF ParsedInv
    <3>2. HasData(frames)
      BY <1>3 DEF ParsedInv, Stream!Complete
    <3>3. i < frames \/ i = frames
      BY <1>4
    <3> QED
      BY <3>1, <3>2, <3>3
  <2>3. PICK j \in Data : Stream!Frame(j) = i
    BY <2>2 DEF HasData, Data
  <2>4. PICK k \in 1..Len(compressed[i]) : TRUE
    BY <2>3, <1>6
  <2> QED
    BY <2>4
<1> QED
  BY <1>7, <1>8

-----------------------------------------------------------------------------
(* The conversion: a decoder, then a canvas, and between them the frames.  *)
HandedOver ==
  /\ parsing # "returned" => decoded = <<>> /\ drawing # "assembled"
  /\ Len(decoded) <= frames
  /\ drawing = "assembled" => Len(decoded) = frames

ApngInv ==
  /\ StreamInv
  /\ CanvasInv
  /\ HandedOver

LEMMA CanvasSame ==
  ASSUME CanvasInv, UNCHANGED <<decoded, canvas, displayed, timestamp>>,
         drawing' \in {"frames", "failed", "assembled"}
  PROVE  CanvasInv'
<1>1. CanvasTypeOK'
  BY DEF CanvasInv, CanvasTypeOK
<1>2. GroundInv'
  BY DEF CanvasInv, GroundInv, Ground, Remains, Buries, Canvas!Covers, Canvas!Rect, Canvas!Stacked
<1>3. Canvas!DisplayedLayers'
  BY DEF CanvasInv, Canvas!DisplayedLayers, Canvas!Drawn, Canvas!Stacked, Canvas!Visible,
         Canvas!Covers, Canvas!Wipes, Canvas!Rect
<1>4. Canvas!Timeline'
  BY DEF CanvasInv, Canvas!Timeline, Canvas!Drawn, Canvas!Due
<1> QED
  BY <1>1, <1>2, <1>3, <1>4 DEF CanvasInv

LEMMA DecodeStep ==
  ASSUME ApngInv, DecodeFrames
  PROVE  ApngInv' /\ decoded' = decoded
<1>1. parsing # "returned" /\ Stream!Next /\ UNCHANGED canvasVars
  BY DEF DecodeFrames
<1>2. CanvasInv' /\ decoded' = decoded /\ drawing' = drawing
  <2>1. UNCHANGED <<decoded, canvas, displayed, timestamp, drawing>>
    BY <1>1 DEF canvasVars
  <2>2. CanvasInv /\ drawing \in {"frames", "failed", "assembled"}
    BY DEF ApngInv, CanvasInv, CanvasTypeOK
  <2> QED
    BY <2>1, <2>2, CanvasSame
<1>3. StreamInv /\ decoded = <<>> /\ drawing # "assembled"
  BY <1>1 DEF ApngInv, HandedOver
<1>4. \A c \in Chunks : c \in Stream!Chunk
  BY ApngAssumption DEF ApngAssumption
<1>5. StreamInv' /\ parsing' # "returned"
  <2>1. ASSUME NEW c \in Chunks, Stream!Reject(c) PROVE StreamInv' /\ parsing' # "returned"
    BY <2>1, <1>3, <1>4, RejectStep DEF Stream!Reject
  <2>2. ASSUME NEW c \in Chunks,
               \/ Stream!ParseIhdr(c) \/ Stream!ParseActl(c) \/ Stream!ParseFctl(c)
               \/ Stream!ParseIdat(c) \/ Stream!ParseFdat(c) \/ Stream!ParseOther(c)
        PROVE  StreamInv' /\ parsing' # "returned"
    <3>1. ParserTypeOK
      BY <1>3 DEF StreamInv
    <3>2. UNCHANGED parsing
      BY <2>2, <1>4, <3>1, ParserTypeKept
    <3> QED
      BY <2>2, <1>1, <1>3, <1>4, <3>2, ParseStep
  <2>3. ASSUME Stream!ParseEnd PROVE StreamInv' /\ parsing' # "returned"
    BY <2>3, <1>3, ParseEndStep DEF Stream!ParseEnd
  <2>4. ASSUME \/ Stream!CollectFctl \/ Stream!CollectIdat
               \/ Stream!CollectFdat \/ Stream!CollectOther
        PROVE  StreamInv' /\ parsing' # "returned"
    <3>1. parsing' # "returned"
      BY <2>4, <1>1 DEF Stream!CollectFctl, Stream!CollectIdat, Stream!CollectFdat,
                        Stream!CollectOther, Stream!Collect, Stream!AddData
    <3> QED
      BY <2>4, <1>3, <3>1, CollectStep
  <2>5. ASSUME Stream!CollectEnd PROVE StreamInv' /\ parsing' # "returned"
    BY <2>5, <1>3, PhaseStep DEF Stream!CollectEnd
  <2>6. ASSUME Stream!DecodeFrames PROVE StreamInv' /\ parsing' # "returned"
    <3>1. /\ parsing = "frames" /\ parsing' \in {"failed", "decoded"}
          /\ UNCHANGED <<chunks, Stream!parserVars, Stream!decoderVars>>
      BY <2>6 DEF Stream!DecodeFrames
    <3> QED
      BY <1>3, <3>1, PhaseStep
  <2> QED
    BY <1>1, <2>1, <2>2, <2>3, <2>4, <2>5, <2>6 DEF Stream!Next
<1>6. HandedOver'
  <2>1. decoded' = <<>> /\ drawing' # "assembled" /\ Len(decoded') = 0
    BY <1>2, <1>3
  <2>2. frames' \in Nat
    BY <1>5 DEF StreamInv, ParserTypeOK
  <2> QED
    BY <2>1, <2>2 DEF HandedOver
<1> QED
  BY <1>2, <1>5, <1>6 DEF ApngInv

LEMMA ReturnStep ==
  ASSUME ApngInv, FramesReturned
  PROVE  ApngInv' /\ decoded' = decoded
<1>1. /\ parsing = "decoded" /\ parsing' = "returned" /\ chunks' = <<>>
      /\ have_ihdr' = FALSE /\ have_actl' = FALSE
      /\ default_image_is_frame' = FALSE /\ frame_has_data' = FALSE
      /\ saw_idat' = FALSE /\ expected_sequence' = 0
      /\ UNCHANGED <<declared_frames, frames, decoded, canvas, displayed, timestamp, drawing>>
      /\ Untouched'
  BY DEF FramesReturned, canvasVars, Untouched
<1>2. StreamInv /\ CanvasInv /\ HandedOver
  BY DEF ApngInv
<1>3. ParserTypeOK'
  <2>1. IsFile'
    BY <1>1 DEF IsFile
  <2>2. declared_frames' \in Nat /\ frames' \in Nat /\ expected_sequence' \in Nat
    BY <1>1, <1>2 DEF StreamInv, ParserTypeOK
  <2> QED
    BY <1>1, <2>1, <2>2 DEF ParserTypeOK
<1>4. StreamInv'
  <2>1. frames' = declared_frames'
    BY <1>1, <1>2 DEF StreamInv, Stream!Complete
  <2> QED
    BY <1>1, <1>3, <2>1 DEF StreamInv
<1>5. CanvasInv'
  BY <1>1, <1>2, CanvasSame DEF CanvasInv, CanvasTypeOK
<1>6. HandedOver'
  BY <1>1, <1>2 DEF HandedOver
<1> QED
  BY <1>1, <1>4, <1>5, <1>6 DEF ApngInv

LEMMA DrawStep ==
  ASSUME ApngInv, Draw
  PROVE  /\ ApngInv'
         /\ decoded' # decoded => \E f \in Frames : Canvas!AddFrame(f)
<1>1. parsing = "returned" /\ UNCHANGED streamVars
  BY DEF Draw
<1>2. StreamInv /\ CanvasInv /\ HandedOver /\ frames \in Nat /\ parsing' = parsing
      /\ frames' = frames
  BY <1>1 DEF ApngInv, StreamInv, ParserTypeOK, streamVars
<1>3. StreamInv'
  BY <1>1, <1>2, PhaseStep DEF streamVars, Stream!parserVars, Stream!decoderVars
<1>4. Len(decoded) \in Nat
  BY <1>2 DEF CanvasInv, CanvasTypeOK
<1>5. ASSUME NEW f \in Frames, MoreFrames, Canvas!AddFrame(f)
      PROVE  ApngInv' /\ \E g \in Frames : Canvas!AddFrame(g)
  <2>1. CanvasInv'
    BY <1>2, <1>5, CanvasAdds
  <2>2. drawing = "frames" /\ drawing' = drawing /\ decoded' = Append(decoded, f)
    BY <1>5 DEF Canvas!AddFrame
  <2>3. Len(decoded') = Len(decoded) + 1
    BY <1>2, <2>2 DEF CanvasInv, CanvasTypeOK
  <2>4. HandedOver'
    BY <1>1, <1>2, <1>4, <1>5, <2>2, <2>3 DEF HandedOver, MoreFrames
  <2> QED
    BY <1>3, <1>5, <2>1, <2>4 DEF ApngInv
<1>6. ASSUME Canvas!Fail PROVE ApngInv' /\ decoded' = decoded
  <2>1. drawing' = "failed" /\ UNCHANGED <<decoded, canvas, displayed, timestamp>>
    BY <1>6 DEF Canvas!Fail
  <2>2. CanvasInv'
    BY <1>2, <2>1, CanvasSame
  <2>3. HandedOver'
    BY <1>1, <1>2, <2>1 DEF HandedOver
  <2> QED
    BY <1>3, <2>1, <2>2, <2>3 DEF ApngInv
<1>7. ASSUME ~MoreFrames, Canvas!Assemble PROVE ApngInv' /\ decoded' = decoded
  <2>1. drawing' = "assembled" /\ UNCHANGED <<decoded, canvas, displayed, timestamp>>
    BY <1>7 DEF Canvas!Assemble
  <2>2. CanvasInv'
    BY <1>2, <2>1, CanvasSame
  <2>3. Len(decoded) = frames
    BY <1>2, <1>4, <1>7 DEF HandedOver, MoreFrames
  <2>4. HandedOver'
    BY <1>1, <1>2, <2>1, <2>3 DEF HandedOver
  <2> QED
    BY <1>3, <2>1, <2>2, <2>4 DEF ApngInv
<1> QED
  BY <1>5, <1>6, <1>7 DEF Draw

LEMMA ApngInvInit == ApngInit => ApngInv
<1> SUFFICES ASSUME ApngInit PROVE ApngInv
  OBVIOUS
<1>1. StreamInv /\ CanvasInv /\ decoded = <<>> /\ drawing = "frames"
  BY ApngAssumption, StreamInit, CanvasInit DEF ApngInit
<1>2. frames \in Nat /\ parsing = "parse"
  BY <1>1 DEF StreamInv, ParserTypeOK, ApngInit, Stream!Init
<1> QED
  BY <1>1, <1>2 DEF ApngInv, HandedOver

LEMMA ApngInvStep == ApngInv /\ [ApngNext]_apngVars => ApngInv'
<1> SUFFICES ASSUME ApngInv, [ApngNext]_apngVars PROVE ApngInv'
  OBVIOUS
<1>1. CASE ApngNext
  BY <1>1, DecodeStep, ReturnStep, DrawStep DEF ApngNext
<1>2. CASE UNCHANGED apngVars
  <2>1. /\ UNCHANGED <<chunks, Stream!parserVars, Stream!decoderVars>>
        /\ UNCHANGED <<parsing, frames, decoded, canvas, displayed, timestamp, drawing>>
    BY <1>2 DEF apngVars, streamVars, canvasVars, Stream!parserVars, Stream!decoderVars
  <2>2. StreamInv'
    BY <2>1, PhaseStep DEF ApngInv
  <2>3. CanvasInv'
    BY <2>1, CanvasSame DEF ApngInv, CanvasInv, CanvasTypeOK
  <2>4. HandedOver'
    BY <2>1 DEF ApngInv, HandedOver
  <2> QED
    BY <2>2, <2>3, <2>4 DEF ApngInv
<1> QED
  BY <1>1, <1>2

LEMMA ApngSafety == ApngSpec => []ApngInv
BY ApngInvInit, ApngInvStep, PTL DEF ApngSpec

-----------------------------------------------------------------------------
(* Every variable of a conversion of an APNG has its type, for all files,  *)
(* canvases and frames.                                                    *)
ApngTypeOK ==
  /\ ParserTypeOK
  /\ CanvasTypeOK
  /\ parsing \in {"parse", "rejected", "incomplete", "collect", "frames", "failed", "decoded",
                  "returned"}
  /\ offset \in Nat /\ frame_index \in Nat \ {0}
  /\ saw_frame_control \in BOOLEAN /\ before_default_image_data \in BOOLEAN
  /\ shared \subseteq Nat /\ compressed \in Seq(Seq(Nat))

THEOREM ApngTypeCorrect == ApngSpec => []ApngTypeOK
<1>1. ASSUME ApngInv PROVE ApngTypeOK
  <2>1. StreamInv /\ CanvasTypeOK /\ ParserTypeOK /\ IsFile
    BY <1>1 DEF ApngInv, StreamInv, CanvasInv, ParserTypeOK
  <2>2. CASE Untouched
    <3>1. compressed \in Seq(Seq(Nat)) /\ shared \subseteq Nat /\ offset \in Nat
          /\ frame_index \in Nat \ {0}
      BY <2>2 DEF Untouched
    <3> QED
      BY <2>1, <2>2, <3>1 DEF StreamInv, ApngTypeOK, Untouched
  <2>3. CASE Counted /\ Collected
    <3>1. offset \in Nat /\ frame_index \in Nat \ {0} /\ shared \subseteq Nat
      BY <2>1, <2>3, FileSets DEF Counted
    <3>2. compressed \in Seq(Seq(Nat))
      BY <2>1, <2>3 DEF Collected, ParserTypeOK
    <3>3. saw_frame_control \in BOOLEAN /\ before_default_image_data \in BOOLEAN
      BY <2>3 DEF Counted
    <3> QED
      BY <2>1, <3>1, <3>2, <3>3 DEF StreamInv, ApngTypeOK
  <2> QED
    BY <2>1, <2>2, <2>3 DEF StreamInv
<1> QED
  BY <1>1, ApngSafety, PTL

(* parse_apng accepts exactly the files that the grammar describes, and    *)
(* stops at the first chunk that makes a file unsound.                     *)
THEOREM TheGrammarIsParsed == ApngSpec => []ParsesTheGrammar
<1>1. ApngInv => ParsesTheGrammar
  BY StreamSafe DEF ApngInv, ParsesTheGrammar
<1> QED
  BY <1>1, ApngSafety, PTL

(* decode_apng_frames, which checks no order of its own, gives every frame *)
(* its own data in file order, and the shared chunks, and never leaves the *)
(* frames that parse_apng has counted.                                     *)
THEOREM FramesHaveTheirData == ApngSpec => []FramesGetTheirData
<1>1. ApngInv => FramesGetTheirData
  BY StreamSafe DEF ApngInv, FramesGetTheirData
<1> QED
  BY <1>1, ApngSafety, PTL

(* What the encoder is given is APNG's composition of the frames so far, at*)
(* every pixel, whatever is blended and disposed of.                       *)
THEOREM LayersAreShown == ApngSpec => []DisplayedLayers
<1>1. ApngInv => DisplayedLayers
  BY DEF ApngInv, CanvasInv, DisplayedLayers
<1> QED
  BY <1>1, ApngSafety, PTL

(* A frame starts after exactly the truncated delays of those before it, no*)
(* start leaves std::int32_t, and an assembled animation has as many frames*)
(* as acTL has declared.                                                   *)
THEOREM StartsAreSums == ApngSpec => []Timeline
<1>1. ApngInv => Timeline
  BY DEF ApngInv, CanvasInv, HandedOver, StreamInv, Timeline
<1> QED
  BY <1>1, ApngSafety, PTL

-----------------------------------------------------------------------------
(* Conversions one after another, and what libvips keeps of them.          *)
(* What is cached during a request was decoded from its own body, and      *)
(* nothing is cached between requests.                                     *)
CachedFromBody ==
  \A c \in cache : c.address = body /\ heap[body] # Free /\ c.id = heap[body].id

EmptyBetweenRequests == pc \in {"idle", "free"} => cache = {}

MediaInv ==
  /\ TypeOK
  /\ CachedFromBody
  /\ EmptyBetweenRequests
  /\ OwnImage

LEMMA MediaInit == Init => MediaInv
<1> SUFFICES ASSUME Init PROVE MediaInv
  OBVIOUS
<1> USE DEF Init
<1>1. TypeOK
  BY DEF TypeOK, Failed, NoImage, Loads
<1>2. CachedFromBody /\ EmptyBetweenRequests
  BY DEF CachedFromBody, EmptyBetweenRequests
<1>3. OwnImage
  BY DEF OwnImage
<1> QED
  BY <1>1, <1>2, <1>3 DEF MediaInv

(* Whatever the body, the output is one of the two formats.                *)
LEMMA FormatIsKnown ==
  ASSUME TypeOK
  PROVE  Format \in {"webp", "avif"}
BY DEF TypeOK, Format

LEMMA MediaStep ==
  ASSUME MediaInv, [Next]_vars
  PROVE  MediaInv'
<1> USE DEF MediaInv
<1>0. Bodies \subseteq Body /\ Free \notin Bodies
  BY ConversionAssumption
<1>1. ASSUME NEW address \in Buffers, NEW content \in Bodies, Request(address, content)
      PROVE MediaInv'
  <2> USE <1>1 DEF Request
  <2>1. TypeOK'
    BY DEF TypeOK, Failed, NoImage
  <2>2. CachedFromBody' /\ EmptyBetweenRequests'
    BY DEF CachedFromBody, EmptyBetweenRequests
  <2>3. OwnImage'
    BY DEF OwnImage, Failed, NoImage
  <2> QED
    BY <2>1, <2>2, <2>3
<1>2. CASE UNCHANGED vars
  BY <1>2 DEF vars, requestVars, TypeOK, CachedFromBody,
              EmptyBetweenRequests, OwnImage, Format, IsApng, Animated,
              Source
<1>3. ASSUME UNCHANGED <<heap, requestVars>>
      PROVE  Source' = Source /\ Format' = Format
  BY <1>3 DEF requestVars, Source, Format, IsApng, Animated
<1>4. CASE Classify
  <2> USE <1>4, <1>3 DEF Classify, requestVars
  <2>1. TypeOK'
    BY DEF TypeOK, Loads
  <2>2. CachedFromBody' /\ EmptyBetweenRequests'
    BY DEF CachedFromBody, EmptyBetweenRequests
  <2>3. OwnImage'
    BY DEF OwnImage
  <2> QED
    BY <2>1, <2>2, <2>3
<1>5. CASE Decode
  <2> USE <1>5, <1>3 DEF Decode, requestVars
  <2>1. TypeOK'
    BY <1>0 DEF TypeOK, Source, Body
  <2>2. CachedFromBody' /\ EmptyBetweenRequests'
    BY DEF CachedFromBody, EmptyBetweenRequests
  <2>3. OwnImage'
    BY DEF OwnImage
  <2> QED
    BY <2>1, <2>2, <2>3
<1>6. CASE LoadOpens
  <2> USE <1>6, <1>3 DEF LoadOpens, requestVars
  <2>1. image' = Source.id
    BY DEF Opened, Hits, CachedFromBody, Source
  <2>2. TypeOK'
    BY <1>0, <2>1 DEF TypeOK, Source, Body
  <2>3. CachedFromBody' /\ EmptyBetweenRequests'
    BY <1>0, <2>1 DEF CachedFromBody, EmptyBetweenRequests, Source, TypeOK
  <2>4. OwnImage'
    BY <2>1 DEF OwnImage
  <2> QED
    BY <2>2, <2>3, <2>4
<1>7. CASE LoadFails
  <2> USE <1>7, <1>3 DEF LoadFails, requestVars
  <2>1. TypeOK'
    BY DEF TypeOK, Loads
  <2>2. CachedFromBody' /\ EmptyBetweenRequests'
    BY DEF CachedFromBody, EmptyBetweenRequests
  <2>3. OwnImage'
    BY DEF OwnImage
  <2> QED
    BY <2>1, <2>2, <2>3
<1>8. CASE Encode
  <2> USE <1>8, <1>3 DEF Encode, requestVars
  <2>1. TypeOK'
    BY FormatIsKnown DEF TypeOK
  <2>2. CachedFromBody' /\ EmptyBetweenRequests'
    BY DEF CachedFromBody, EmptyBetweenRequests
  <2>3. OwnImage'
    BY DEF OwnImage
  <2> QED
    BY <2>1, <2>2, <2>3
<1>9. CASE Throw
  <2> USE <1>9, <1>3 DEF Throw, requestVars
  <2>1. TypeOK'
    BY DEF TypeOK
  <2>2. CachedFromBody' /\ EmptyBetweenRequests'
    BY DEF CachedFromBody, EmptyBetweenRequests
  <2>3. OwnImage'
    BY DEF OwnImage
  <2> QED
    BY <2>1, <2>2, <2>3
<1>10. CASE Leave
  <2> USE <1>10, <1>3 DEF Leave, Reset, requestVars
  <2>1. TypeOK'
    BY DEF TypeOK
  <2>2. CachedFromBody' /\ EmptyBetweenRequests'
    BY DEF CachedFromBody, EmptyBetweenRequests
  <2>3. OwnImage'
    BY DEF OwnImage
  <2> QED
    BY <2>1, <2>2, <2>3
<1>11. CASE Release
  <2> USE <1>11 DEF Release, requestVars
  <2>1. TypeOK'
    BY DEF TypeOK
  <2>2. CachedFromBody' /\ EmptyBetweenRequests'
    BY DEF CachedFromBody, EmptyBetweenRequests
  <2>3. OwnImage'
    BY DEF OwnImage
  <2> QED
    BY <2>1, <2>2, <2>3
<1> QED
  BY <1>1, <1>2, <1>4, <1>5, <1>6, <1>7, <1>8, <1>9, <1>10, <1>11 DEF Next

LEMMA MediaSafety == Spec => []MediaInv
<1>1. MediaInv /\ [Next]_vars => MediaInv'
  BY MediaStep
<1> QED
  BY MediaInit, <1>1, PTL DEF Spec

(* libvips never keeps an operation on a body that is gone, nor on another *)
(* body at the same address: RequestStateReset runs before the handler     *)
(* destroys the download, on a return and on an exception.                 *)
THEOREM CachedLoadsAreAlive == Spec => []CacheIsAlive
<1>1. MediaInv => CacheIsAlive
  BY DEF MediaInv, CachedFromBody, CacheIsAlive
<1> QED
  BY <1>1, MediaSafety, PTL

(* A request is answered with a conversion of its own body, though every   *)
(* address a body has may have been another body's before.                 *)
THEOREM RequestsShowTheirOwnImage == Spec => []OwnImage
<1>1. MediaInv => OwnImage
  BY DEF MediaInv
<1> QED
  BY <1>1, MediaSafety, PTL
=============================================================================
