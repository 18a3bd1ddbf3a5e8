------------------------------- MODULE MCResize -------------------------------
(* Strips for the run on the width limit, with no tie among the roundings: *)
(* seven columns by one row against a width limit of 2 is 700 by 1 against *)
(* one of 200.                                                             *)
EXTENDS Resize

StripLoaded == {1, 7}

StripPages == {1}

StripLimits == {[width |-> 2, height |-> 2]}
=============================================================================
