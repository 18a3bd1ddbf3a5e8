-------------------------------- MODULE Resize --------------------------------
(***************************************************************************)
(* The geometry of a conversion (src/src/media/resize.cpp): the dimensions *)
(* libvips reports are validated and the resize target is chosen, once for *)
(* each image.  A scale is a fraction [num, den]; the code's doubles can   *)
(* differ from it only where rounding is a tie.                            *)
(***************************************************************************)
EXTENDS Integers

CONSTANTS
  MaxWidth, MaxHeight,   \* maximum_media_width and maximum_media_height
  Loaded,                \* lengths libvips can report, 0 and below included
  Pages,                 \* page counts
  Limits                 \* [width, height] limits select_media_options gives out

VARIABLES
  loaded,    \* [width, height, pages, animated]
  limits,
  source,    \* what validate_dimensions returned; width 0 stands for nullopt
  target,    \* what the image is resized to; for a static image by scale
  scale,
  pc

vars == <<loaded, limits, source, target, scale, pc>>

None == [width |-> 0, height |-> 0]
Same == [num |-> 1, den |-> 1]

Init ==
  /\ loaded \in [width : Loaded, height : Loaded, pages : Pages, animated : BOOLEAN]
  /\ limits \in Limits
  /\ source = None
  /\ target = None
  /\ scale = Same
  /\ pc = "validate"
-----------------------------------------------------------------------------
(* The height of an animated image is that of all its pages, which divide  *)
(* it.                                                                     *)
FrameHeight == IF loaded.animated THEN loaded.height \div loaded.pages ELSE loaded.height
PagesFit == loaded.animated => loaded.height % loaded.pages = 0

WithinCaps == loaded.width <= MaxWidth /\ FrameHeight <= MaxHeight

Valid ==
  /\ loaded.width > 0 /\ loaded.height > 0 /\ loaded.pages > 0
  /\ PagesFit
  /\ FrameHeight > 0
  /\ WithinCaps

Validate ==
  /\ pc = "validate"
  /\ IF Valid
       THEN source' = [width |-> loaded.width, height |-> FrameHeight] /\ pc' = "resize"
       ELSE pc' = "rejected" /\ UNCHANGED source
  /\ UNCHANGED <<loaded, limits, target, scale>>

Within == source.width <= limits.width /\ source.height <= limits.height
WidthExcess == source.width - limits.width
HeightExcess == source.height - limits.height

(* The dimension with the larger excess decides; a wrong form takes the    *)
(* other one.                                                              *)
SmallerExcess == WidthExcess > HeightExcess
HeightDecides == WidthExcess < HeightExcess

(* static_resize_scale.                                                    *)
Scale ==
  IF limits.width = 0 \/ limits.height = 0 \/ Within THEN Same
  ELSE IF HeightDecides THEN [num |-> limits.height, den |-> source.height]
  ELSE [num |-> limits.width, den |-> source.width]

ResizeStatic ==
  /\ pc = "resize"
  /\ ~loaded.animated
  /\ scale' = Scale
  /\ pc' = "done"
  /\ UNCHANGED <<loaded, limits, source, target>>

(* std::round of n / d; in doubles a tie can land on either side.  A wrong *)
(* one is std::ceil.                                                       *)
RoundedUp(n, d) == {(n + d - 1) \div d}
Rounded(n, d) ==
  LET nearest == (2 * n + d) \div (2 * d)
  IN IF (2 * n + d) % (2 * d) = 0 THEN {nearest - 1, nearest} ELSE {nearest}

(* The limits animated_resize_target goes on with: one of two exceeded     *)
(* limits is dropped.                                                      *)
Kept ==
  IF /\ limits.width # 0 /\ limits.height # 0
     /\ source.width > limits.width /\ source.height > limits.height
    THEN IF HeightDecides THEN [limits EXCEPT !.width = 0] ELSE [limits EXCEPT !.height = 0]
    ELSE limits

(* Its results; a side that rounds to 0 gives the resize up.  A wrong form *)
(* would carry a side of 0 on.                                             *)
GivenUp(width, height) == [width |-> width, height |-> height]
OrSource(width, height) ==
  IF width < 1 \/ height < 1 THEN source ELSE [width |-> width, height |-> height]

Targets ==
  IF Within THEN {source}
  ELSE IF Kept.width # 0 /\ source.width > Kept.width
    THEN {OrSource(Kept.width, height) :
            height \in Rounded(Kept.width * source.height, source.width)}
  ELSE IF Kept.width = 0 /\ Kept.height # 0 /\ source.height > Kept.height
    THEN {OrSource(width, Kept.height) :
            width \in Rounded(Kept.height * source.width, source.height)}
  ELSE {source}

ResizeAnimated ==
  /\ pc = "resize"
  /\ loaded.animated
  /\ target' \in Targets
  /\ pc' = "done"
  /\ UNCHANGED <<loaded, limits, source, scale>>

Next == Validate \/ ResizeStatic \/ ResizeAnimated

Spec == Init /\ [][Next]_vars
-----------------------------------------------------------------------------
Done == pc = "done"
Animated == Done /\ loaded.animated
Static == Done /\ ~loaded.animated

(* The target is an image no larger than the source in either direction:   *)
(* no resize enlarges, and none asks libwebp or libvips for a side of 0.   *)
NeverUpscales ==
  /\ Static => scale.num <= scale.den
  /\ Animated => target.width \in 1..source.width /\ target.height \in 1..source.height

(* Whenever the width limit is exceeded and a resize happens, at least one *)
(* exceeded limit is met afterwards: the choice by absolute excess may     *)
(* leave the other one exceeded, never both.                               *)
OneLimitMet ==
  /\ Static /\ scale # Same =>
       \/ source.width > limits.width /\ scale.num * source.width <= limits.width * scale.den
       \/ source.height > limits.height /\ scale.num * source.height <= limits.height * scale.den
  /\ Animated /\ target # source =>
       \/ source.width > limits.width /\ target.width <= limits.width
       \/ source.height > limits.height /\ target.height <= limits.height

(* The aspect ratio of a page, as libvips loaded it, survives to within the*)
(* rounding of one side: no resize distorts a frame, and no division of the*)
(* pages cuts a part of one off.                                           *)
AspectKept ==
  Animated =>
    LET distortion == 2 * (target.width * loaded.height
                             - target.height * loaded.pages * loaded.width)
    IN \/ distortion \in (-loaded.width * loaded.pages)..(loaded.width * loaded.pages)
       \/ distortion \in (-loaded.height)..loaded.height

(* SPECIFICATION.md section 7.3, step 4: when W # 0 and w > W the new width*)
(* is W.                                                                   *)
WidthLimitMet ==
  Animated /\ Kept.width # 0 /\ source.width > Kept.width => target.width = Kept.width
=============================================================================
