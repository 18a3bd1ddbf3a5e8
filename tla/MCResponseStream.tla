--------------------------- MODULE MCResponseStream ---------------------------
(* A small world for ResponseStream: bodies of no, one, two and three      *)
(* chunks' worth of bytes, a kernel buffer smaller than most writes, and   *)
(* replies that end below, at and above the cap.                           *)
EXTENDS ResponseStream

(* The reply cap is crossed by a whole read, as 64 KiB is by 1024 bytes.   *)
ASSUME MaxReply > AckCap + ReadSize
=============================================================================
