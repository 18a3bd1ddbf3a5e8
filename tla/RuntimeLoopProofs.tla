--------------------------- MODULE RuntimeLoopProofs ---------------------------
(***************************************************************************)
(* Theorems about RuntimeLoop for any set of invocations and any trace     *)
(* ids.                                                                    *)
(***************************************************************************)
EXTENDS RuntimeLoop, TLAPS

USE DEF Settled, processVars, connectionVars

LEMMA LoopInit == Init => IInv
BY LoopAssumption DEF Init, IInv, TypeOK, CurrentInv, SubmissionInv, TraceIsCurrent

LEMMA LoopStep == IInv /\ [Next]_vars => IInv'
<1> SUFFICES ASSUME IInv, [Next]_vars PROVE IInv'
  OBVIOUS
<1> USE DEF IInv, TypeOK, CurrentInv, SubmissionInv, TraceIsCurrent
<1>1. ASSUME NEW i \in Invocations, Poll(i) PROVE IInv'
  BY <1>1 DEF Poll
<1>2. CASE PollFails
  BY <1>2 DEF PollFails, Exit
<1>3. CASE SetTrace
  BY <1>3, LoopAssumption DEF SetTrace, TraceValue
<1>4. CASE SetTraceFails
  BY <1>4 DEF SetTraceFails, OnTraceFailure, Submit
<1>5. CASE Handle
  BY <1>5 DEF Handle, HandlerReturns, HandlerThrows, Submit
<1>6. CASE Connect
  BY <1>6 DEF Connect
<1>7. CASE Write
  <2>1. CASE WriteHead
    BY <2>1 DEF WriteHead
  <2>2. CASE WriteRest
    BY <2>2 DEF WriteRest
  <2>3. CASE ShutdownWrite
    BY <2>3 DEF ShutdownWrite
  <2>4. QED BY <1>7, <2>1, <2>2, <2>3 DEF Write
<1>8. CASE ApiReplies
  BY <1>8 DEF ApiReplies
<1>9. CASE ReadAck
  BY <1>9 DEF ReadAck, Acknowledged
<1>10. CASE SubmissionFails
  BY <1>10 DEF SubmissionFails, OnSubmissionFailure, Exit
<1>11. CASE Killed
  BY <1>11 DEF Killed, Exit
<1>12. CASE Restart
  BY <1>12 DEF Restart, GiveUp
<1>13. CASE UNCHANGED vars
  BY <1>13 DEF vars
<1>14. QED
  BY <1>1, <1>2, <1>3, <1>4, <1>5, <1>6, <1>7, <1>8, <1>9, <1>10, <1>11, <1>12, <1>13
     DEF Next

(* The inductive invariant holds throughout.                               *)
THEOREM LoopSafety == Spec => []IInv
BY LoopInit, LoopStep, PTL DEF Spec

(* No invocation is submitted twice, whatever fails and whenever.          *)
THEOREM AtMostOneSubmission == Spec => []OneSubmission
<1>1. IInv => OneSubmission
  BY DEF IInv, SubmissionInv, OneSubmission
<1>2. QED BY <1>1, LoopSafety, PTL

(* The next invocation is only asked for when the last one has ended.      *)
THEOREM PollsWhenSettled == Spec => []SettledBeforePoll
<1>1. IInv => SettledBeforePoll
  BY DEF IInv, CurrentInv, SettledBeforePoll
<1>2. QED BY <1>1, LoopSafety, PTL

(* The handler always runs under its invocation's trace id.                *)
THEOREM HandlerTrace == Spec => []TraceIsCurrent
BY LoopSafety, PTL DEF IInv

-----------------------------------------------------------------------------
LEMMA ServiceInit == Init => Service!Init
BY DEF Init, Service!Init

LEMMA ServiceStep == IInv /\ [Next]_vars => [Service!Next]_api
<1> SUFFICES ASSUME IInv, [Next]_vars PROVE [Service!Next]_api
  OBVIOUS
<1> USE DEF IInv, TypeOK, CurrentInv
<1>1. CASE UNCHANGED api
  BY <1>1
<1>2. CASE \E i \in Invocations : Poll(i)
  BY <1>2 DEF Poll, Service!Next, Service!Hand
<1>3. CASE PollFails
  BY <1>3 DEF PollFails, Service!Next, Service!Hand
<1>4. CASE ApiReplies
  BY <1>4 DEF ApiReplies, Service!Next, Service!Settle
<1>5. CASE Restart
  <2>1. CASE \A i \in Invocations : api[i] # "handed"
    BY <1>5, <2>1 DEF Restart, GiveUp
  <2>2. CASE \E i \in Invocations : api[i] = "handed"
    <3>1. PICK i \in Invocations : api[i] = "handed"
      BY <2>2
    <3>2. api' = [api EXCEPT ![i] = "failed"]
      BY <1>5, <3>1 DEF Restart, GiveUp
    <3>3. QED BY <3>1, <3>2 DEF Service!Next, Service!Settle
  <2>3. QED BY <2>1, <2>2
<1>6. QED
  BY <1>1, <1>2, <1>3, <1>4, <1>5
     DEF Next, vars, SetTrace, SetTraceFails, Handle, HandlerReturns, HandlerThrows,
         Connect, Write, WriteHead, WriteRest, ShutdownWrite, ReadAck, SubmissionFails, Killed

(* The runtime does nothing the invocation service does not allow: one     *)
(* invocation at a time, one end for each.                                 *)
THEOREM LoopRefinement == Spec => ImplementsService
BY ServiceInit, ServiceStep, LoopSafety, PTL DEF Spec, ImplementsService, Service!Spec
=============================================================================
