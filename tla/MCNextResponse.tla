---------------------------- MODULE MCNextResponse ----------------------------
(* A small world for NextResponse: header sections below, at and above the *)
(* cap, events below, at and above theirs, reads larger than both.         *)
EXTENDS NextResponse

(* The cases the run is about do occur within the bounds.                  *)
ASSUME MaxHeader > HeaderCap /\ MaxContent > EventCap /\ MaxLines > 5
=============================================================================
