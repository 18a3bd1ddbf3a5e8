-------------------------- MODULE InvocationService --------------------------
(***************************************************************************)
(* What the runtime promises the Lambda service about invocations: they    *)
(* are worked on one at a time, and each one handed out comes to exactly   *)
(* one end, an answer, a reported error, or a failure the service declares *)
(* itself when the process has gone.                                       *)
(***************************************************************************)
CONSTANT Invocations

VARIABLE status

Init == status = [i \in Invocations |-> "queued"]

Hand(i) ==
  /\ status[i] = "queued"
  /\ \A j \in Invocations : status[j] # "handed"
  /\ status' = [status EXCEPT ![i] = "handed"]

Settle(i) ==
  /\ status[i] = "handed"
  /\ \E end \in {"answered", "errored", "failed"} : status' = [status EXCEPT ![i] = end]

Next == \E i \in Invocations : Hand(i) \/ Settle(i)

Spec == Init /\ [][Next]_status
=============================================================================
