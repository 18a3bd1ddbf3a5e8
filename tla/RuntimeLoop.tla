----------------------------- MODULE RuntimeLoop -----------------------------
(***************************************************************************)
(* The main loop (src/src/bootstrap.cpp), execute_invocation               *)
(* (src/src/runtime/invocation.cpp) and the three requests of              *)
(* RuntimeClient (src/src/runtime/client.cpp) against the Runtime API.     *)
(*                                                                         *)
(* The Runtime API is external: it hands an invocation out on /next, takes *)
(* one request per connection, replies to a request it has received whole, *)
(* and starts a new process after one exits, having given up on the        *)
(* invocation that was in flight.  Any connection can break at any point:  *)
(* before anything was sent, in the middle of the request, and after the   *)
(* API has acted on it but before its reply is read.                       *)
(***************************************************************************)
EXTENDS Naturals

CONSTANTS
  Invocations,
  Traces,
  TraceOf,         \* the Lambda-Runtime-Trace-Id each invocation comes with
  NoInvocation

ASSUME LoopAssumption ==
  /\ TraceOf \in [Invocations -> Traces]
  /\ NoInvocation \notin Invocations

VARIABLES
  pc,          \* where the process stands; "dead" after return 1 from main
  current,     \* the Invocation poll_next returned
  request,     \* the endpoint being submitted to
  trace,       \* the _X_AMZN_TRACE_ID environment variable
  sent,        \* how much of the request the API has on this connection
  reply,       \* what the API has answered on this connection
  api,         \* the API's record of each invocation
  submissions  \* how many /response or /error requests it saw for each

processVars == <<pc, current, request, trace>>
connectionVars == <<sent, reply>>
vars == <<processVars, connectionVars, api, submissions>>

Settled == {"answered", "errored", "failed"}

(* The variables' types; the environment only ever holds a trace id.       *)
TypeOK ==
  /\ pc \in {"poll", "received", "handling", "connect", "write", "ack", "dead"}
  /\ current \in Invocations \cup {NoInvocation}
  /\ request \in {"response", "error"}
  /\ trace \in Traces
  /\ sent \in {"nothing", "some", "all"}
  /\ reply \in {"none", "202", "other"}
  /\ api \in [Invocations -> {"queued", "handed"} \cup Settled]
  /\ submissions \in [Invocations -> Nat]

Init ==
  /\ pc = "poll"
  /\ current = NoInvocation
  /\ request = "response"
  /\ trace \in Traces
  /\ sent = "nothing"
  /\ reply = "none"
  /\ api = [i \in Invocations |-> "queued"]
  /\ submissions = [i \in Invocations |-> 0]

Exit == pc' = "dead"

(* poll_next returned an invocation.                                       *)
Poll(i) ==
  /\ pc = "poll"
  /\ api[i] = "queued"
  /\ api' = [api EXCEPT ![i] = "handed"]
  /\ current' = i
  /\ pc' = "received"
  /\ UNCHANGED <<request, trace, connectionVars, submissions>>

(* No connection, a broken one, or a response the parser rejects; the API  *)
(* may or may not have handed an invocation out on it.                     *)
PollFails ==
  /\ pc = "poll"
  /\ Exit
  /\ \/ UNCHANGED api
     \/ \E i \in Invocations :
          api[i] = "queued" /\ api' = [api EXCEPT ![i] = "handed"]
  /\ UNCHANGED <<current, request, trace, connectionVars, submissions>>

(* setenv's value.                                                         *)
TraceValue(i) == TraceOf[i]

SetTrace ==
  /\ pc = "received"
  /\ trace' = TraceValue(current)
  /\ pc' = "handling"
  /\ UNCHANGED <<current, request, connectionVars, api, submissions>>

Submit(endpoint) ==
  /\ pc' = "connect"
  /\ request' = endpoint

(* setenv failed: report it.  A wrong loop goes on with the old variable.  *)
HandleAnyway == pc' = "handling" /\ UNCHANGED request
OnTraceFailure == Submit("error")

SetTraceFails ==
  /\ pc = "received"
  /\ OnTraceFailure
  /\ UNCHANGED <<current, trace, connectionVars, api, submissions>>

(* The handler returns a response, or throws (bad_alloc, std::exception or *)
(* anything else) and the failure is reported.                             *)
HandlerReturns ==
  /\ pc = "handling"
  /\ Submit("response")
  /\ UNCHANGED <<current, trace, connectionVars, api, submissions>>

HandlerThrows ==
  /\ pc = "handling"
  /\ Submit("error")
  /\ UNCHANGED <<current, trace, connectionVars, api, submissions>>

(* send_response or send_invocation_error returned false or threw.  Wrong  *)
(* loops report a failed response with /error, carry on after a failure,   *)
(* or wait for a better reply.                                             *)
ReportFailedResponse ==
  IF request = "response" THEN Submit("error") ELSE Exit /\ UNCHANGED request
PollAgain == pc' = "poll" /\ UNCHANGED request
WaitOn == UNCHANGED <<pc, request>>
OnSubmissionFailure == Exit /\ UNCHANGED request

SubmissionFails ==
  /\ pc \in {"connect", "write", "ack"}
  /\ OnSubmissionFailure
  /\ UNCHANGED <<current, trace, connectionVars, api, submissions>>

Connect ==
  /\ pc = "connect"
  /\ pc' = "write"
  /\ sent' = "nothing"
  /\ reply' = "none"
  /\ UNCHANGED <<current, request, trace, api, submissions>>

(* The first bytes reach the API.                                          *)
WriteHead ==
  /\ pc = "write"
  /\ sent = "nothing"
  /\ sent' = "some"
  /\ submissions' = [submissions EXCEPT ![current] = @ + 1]
  /\ UNCHANGED <<processVars, reply, api>>

(* The last bytes reach the API, whatever becomes of the connection.       *)
WriteRest ==
  /\ pc = "write"
  /\ sent = "some"
  /\ sent' = "all"
  /\ UNCHANGED <<processVars, reply, api, submissions>>

(* shutdown_write succeeded; only now is the reply read.                   *)
ShutdownWrite ==
  /\ pc = "write"
  /\ sent = "all"
  /\ pc' = "ack"
  /\ UNCHANGED <<current, request, trace, connectionVars, api, submissions>>

(* The API acts on a whole request, even if its sender has gone; a request *)
(* it does not accept leaves the invocation in flight.                     *)
ApiReplies ==
  /\ current # NoInvocation
  /\ sent = "all"
  /\ reply = "none"
  /\ \/ /\ api[current] = "handed"
        /\ reply' = "202"
        /\ api' = [api EXCEPT ![current] =
                     IF request = "response" THEN "answered" ELSE "errored"]
     \/ reply' = "other" /\ UNCHANGED api
  /\ UNCHANGED <<processVars, sent, submissions>>

(* read_response_ack; "HTTP/1.1 202 Accepted" is the only success.         *)
AnyReplyIsSuccess == reply # "none"
Acknowledged == reply = "202"

ReadAck ==
  /\ pc = "ack"
  /\ Acknowledged
  /\ pc' = "poll"
  /\ UNCHANGED <<current, request, trace, connectionVars, api, submissions>>

(* The environment is killed from outside (deadline, memory).              *)
Killed ==
  /\ pc # "dead"
  /\ Exit
  /\ UNCHANGED <<current, request, trace, connectionVars, api, submissions>>

GiveUp(records) ==
  [i \in Invocations |-> IF records[i] = "handed" THEN "failed" ELSE records[i]]

Restart ==
  /\ pc = "dead"
  /\ pc' = "poll"
  /\ api' = GiveUp(api)
  /\ current' = NoInvocation
  /\ sent' = "nothing"
  /\ reply' = "none"
  /\ UNCHANGED <<request, trace, submissions>>

Handle == HandlerReturns \/ HandlerThrows

Write == WriteHead \/ WriteRest \/ ShutdownWrite

Next ==
  \/ \E i \in Invocations : Poll(i)
  \/ PollFails
  \/ SetTrace
  \/ SetTraceFails
  \/ Handle
  \/ Connect
  \/ Write
  \/ ApiReplies
  \/ ReadAck
  \/ SubmissionFails
  \/ Killed
  \/ Restart

Spec == Init /\ [][Next]_vars

(* The process takes its own steps, the handler comes back, the API        *)
(* answers a request it has received, and the service starts a process     *)
(* again.  That /next ever delivers is not assumed.                        *)
Rejected == reply = "other" /\ SubmissionFails

Fairness ==
  /\ WF_vars(SetTrace \/ SetTraceFails)
  /\ WF_vars(Handle)
  /\ WF_vars(Connect)
  /\ WF_vars(Write)
  /\ WF_vars(ApiReplies)
  /\ WF_vars(ReadAck \/ Rejected)
  /\ WF_vars(Restart)

FairSpec == Spec /\ Fairness
-----------------------------------------------------------------------------
(* The API never sees two submissions for one invocation: once a response  *)
(* may have started, no /error request follows it, also when the process   *)
(* only lost the reply (the comment in execute_invocation).                *)
OneSubmission == \A i \in Invocations : submissions[i] <= 1

(* The process asks for the next invocation only when the previous one has *)
(* come to its end at the API.                                             *)
SettledBeforePoll == pc = "poll" => \A i \in Invocations : api[i] # "handed"

(* The handler runs under the trace id of its own invocation.              *)
TraceIsCurrent == pc = "handling" => trace = TraceOf[current]

(* An invocation that was handed out comes to an end.                      *)
EventuallySettled ==
  \A i \in Invocations : api[i] = "handed" ~> api[i] \in Settled

(* What the API makes of it.                                               *)
Service == INSTANCE InvocationService WITH
  status <- api

(* What the loop of client.cpp does to an invocation, crashes and restarts *)
(* of the process included, is what the service promises: it is handed    *)
(* out once, settled at most once, and never changed after that.          *)
ImplementsService == Service!Spec
-----------------------------------------------------------------------------
(* The induction's strengthening: only the invocation being worked on is   *)
(* in flight, and how far its submission has come is known at each step.   *)
CurrentInv ==
  /\ pc \in {"received", "handling", "connect", "write", "ack"} =>
       /\ current \in Invocations
       /\ \A i \in Invocations : api[i] = "handed" => i = current
  /\ pc \in {"received", "handling", "connect"} => api[current] = "handed"
  /\ pc \in {"write", "ack"} /\ reply = "none" => api[current] = "handed"
  /\ pc \in {"write", "ack"} /\ reply = "202" => api[current] # "handed"
  /\ reply # "none" => sent = "all"
  /\ pc \in {"poll", "received", "handling", "connect"} => sent = "nothing" \/ reply # "none"
  /\ \A i, j \in Invocations : api[i] = "handed" /\ api[j] = "handed" => i = j
  /\ pc = "poll" => \A i \in Invocations : api[i] # "handed"

SubmissionInv ==
  /\ \A i \in Invocations : api[i] = "queued" => submissions[i] = 0
  /\ \A i \in Invocations : submissions[i] <= 1
  /\ pc \in {"received", "handling", "connect"} => submissions[current] = 0
  /\ pc = "write" /\ sent = "nothing" => submissions[current] = 0

IInv == TypeOK /\ CurrentInv /\ SubmissionInv /\ TraceIsCurrent
=============================================================================
