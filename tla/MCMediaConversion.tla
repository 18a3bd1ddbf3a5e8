--------------------------- MODULE MCMediaConversion ---------------------------
(* Bodies of every kind the conversion tells apart: with and without        *)
(* animation, decodable at the first load, only at a later one, or never.   *)
EXTENDS MediaConversion, TLC

B(id, mime, apng, animated, opens) ==
  [id |-> id, mime |-> mime, apng |-> apng, animated |-> animated, opens |-> opens]

MCBodies == {
  B(1, "png", FALSE, FALSE, {"first page"}),
  B(2, "png", TRUE, FALSE, {"first page"}),
  B(3, "gif", FALSE, FALSE, {"all pages", "first page"}),
  B(4, "webp", FALSE, TRUE, {"all pages", "first page"}),
  B(5, "webp", FALSE, FALSE, {"all pages", "first page"}),
  B(6, "avif", FALSE, TRUE, {}),
  B(7, "jxl", FALSE, TRUE, {}),
  B(8, "svg", FALSE, FALSE, {}),
  B(9, "ico", FALSE, FALSE, {"entry"}),
  B(10, "jpeg", FALSE, FALSE, {}),
  B(11, "unconvertible", FALSE, FALSE, {"all pages"})}

Addresses == Permutations(Buffers)
=============================================================================
