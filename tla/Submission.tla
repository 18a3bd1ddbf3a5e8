------------------------------ MODULE Submission ------------------------------
(***************************************************************************)
(* One request to the Runtime API as RuntimeLoop sees it: nothing, some or *)
(* all of it has reached the API; the API replies only to all of it; the   *)
(* client believes in success only after a 202, and can fail at any point. *)
(***************************************************************************)
VARIABLES sent, reply, outcome

vars == <<sent, reply, outcome>>

Init == sent = "nothing" /\ reply = "none" /\ outcome = "pending"

First == sent = "nothing" /\ sent' = "some" /\ UNCHANGED <<reply, outcome>>
Rest == sent = "some" /\ sent' = "all" /\ UNCHANGED <<reply, outcome>>

Reply ==
  /\ sent = "all"
  /\ reply = "none"
  /\ reply' \in {"202", "other"}
  /\ UNCHANGED <<sent, outcome>>

Acknowledge ==
  /\ outcome = "pending"
  /\ reply = "202"
  /\ outcome' = "acknowledged"
  /\ UNCHANGED <<sent, reply>>

Fail == outcome = "pending" /\ outcome' = "failed" /\ UNCHANGED <<sent, reply>>

Next == First \/ Rest \/ Reply \/ Acknowledge \/ Fail

Spec == Init /\ [][Next]_vars
=============================================================================
