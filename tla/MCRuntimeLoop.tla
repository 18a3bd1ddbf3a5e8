---------------------------- MODULE MCRuntimeLoop ----------------------------
(* Three invocations with their own trace ids.                             *)
EXTENDS RuntimeLoop, TLC

CONSTANTS i1, i2, i3, t1, t2, t3

MCTraceOf == i1 :> t1 @@ i2 :> t2 @@ i3 :> t3
=============================================================================
