--------------------------- MODULE MCOriginDownload ---------------------------
(* A small world for OriginDownload: four URLs on three hosts, one of them *)
(* an address literal, two redirects allowed, and every kind of answer.    *)
EXTENDS OriginDownload, TLC

CONSTANTS u1, u2, u3, u4, h1, h2, h3, p1, p2, private

MCHost == u1 :> h1 @@ u2 :> h1 @@ u3 :> h2 @@ u4 :> h3

MCLiteralAddress == u4 :> p2

MCAnswers ==
  {<<>>, <<p1>>, <<p1, p2>>, <<p1, private>>, <<p1, p1, p1>>, <<Malformed>>}
=============================================================================
