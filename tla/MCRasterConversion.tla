------------------------- MODULE MCRasterConversion -------------------------
(* Images of up to 15 by 15 under caps of 14 by 12, one to three pages and *)
(* metadata that agrees with them or does not, against limits that are     *)
(* small, lopsided, and the 0 that means no limit; and the small files the *)
(* other loads take.                                                       *)
EXTENDS RasterConversion

Nothing == {}

Sized(width, height) == Opened(width, height)

Vips(animated, all, one) ==
  [mime |-> "other", animated |-> animated, all |-> all, one |-> one, detail |-> Nothing]

Paged ==
  [width : 1..15, height : 1..15, pages : {Absent} \cup 0..3, page_height : {Absent} \cup 0..15]

(* Images whose metadata agrees, and the others at one width.              *)
Agrees(opened) ==
  opened.page_height # Absent /\ opened.pages # Absent
    /\ opened.pages * opened.page_height = opened.height

Images == {opened \in Paged : Agrees(opened) \/ opened.width = 5}

VipsFiles ==
  {Vips(animated, opened, NoImage) : animated \in BOOLEAN, opened \in Images}
    \cup {Vips(animated, NoImage, opened) :
            animated \in BOOLEAN,
            opened \in {NoImage, Sized(3, 3), Sized(-1, 3), Sized(3, 0),
                        [Sized(3, 3) EXCEPT !.pages = 2, !.page_height = 3]}}

Entries ==
  {[place |-> "empty", opens |-> NoImage], [place |-> "outside", opens |-> NoImage],
   [place |-> "inside", opens |-> NoImage], [place |-> "inside", opens |-> Sized(2, 2)],
   [place |-> "inside", opens |-> Sized(15, 1)], [place |-> "outside", opens |-> Sized(4, 4)]}

IconFiles ==
  {[mime |-> "ico", animated |-> FALSE, all |-> NoImage, one |-> NoImage,
    detail |-> [entries |-> entries, count |-> count]] :
     entries \in UNION {[1..n -> Entries] : n \in 0..3}, count \in 0..3}

FrameFiles ==
  {[mime |-> "avif", animated |-> FALSE, all |-> NoImage, one |-> NoImage,
    detail |-> [width |-> width, height |-> height, stride |-> stride]] :
     width \in {0, 1, 3, 15}, height \in {0, 1, 12, 13}, stride \in {0, 4, 12, 14, 16, 60, 64}}

JxlFiles ==
  {[mime |-> "jxl", animated |-> FALSE, all |-> NoImage, one |-> NoImage,
    detail |-> [width |-> width, height |-> height, icc |-> icc, size |-> size]] :
     width \in {0, 1, 3, 15}, height \in {1, 12, 13}, icc \in {"none", "small", "over 10 MiB"},
     size \in {0, 4, 12, 48, 144}}

Url1(size) == [size |-> size, doctype |-> FALSE, mime |-> "image", raster |-> "fits", xml |-> FALSE]

Urls ==
  {Url1(size) : size \in 0..4}
    \cup {[Url1(2) EXCEPT !.doctype = TRUE], [Url1(1) EXCEPT !.raster = "exceeds"],
          [Url1(1) EXCEPT !.mime = "svg", !.raster = "none"],
          [Url1(1) EXCEPT !.mime = "svg", !.raster = "none", !.xml = TRUE],
          [Url1(1) EXCEPT !.mime = "text", !.raster = "none"],
          [Url1(2) EXCEPT !.mime = "text"]}

SvgFiles ==
  {[mime |-> "svg", animated |-> FALSE, all |-> NoImage, one |-> NoImage,
    detail |-> [valid |-> TRUE, urls |-> urls, width |-> 2, height |-> 2]] :
     urls \in UNION {[1..n -> Urls] : n \in 0..4}}
    \cup {[mime |-> "svg", animated |-> FALSE, all |-> NoImage, one |-> NoImage,
           detail |-> [valid |-> valid, urls |-> <<>>, width |-> width, height |-> 12]] :
            valid \in BOOLEAN, width \in {0, 14, 15}}

MCFiles == VipsFiles \cup IconFiles \cup FrameFiles \cup JxlFiles \cup SvgFiles

MCLimits ==
  {[width |-> w, height |-> h] : w \in {0, 1, 2, 5}, h \in {0, 1, 4, 6}}
=============================================================================
