-------------------------- MODULE OriginDownloadProofs --------------------------
(***************************************************************************)
(* Theorems about OriginDownload for every choice of its constants: any    *)
(* set of URLs, any resolver, any origin, any limits.                      *)
(***************************************************************************)
EXTENDS OriginDownload, TLAPS

USE DEF Pending, Success, Failure, RedirectFailure, NoAnswer, NoPin,
        EmptyResponse, FreshResponse

-----------------------------------------------------------------------------
(* The accumulator's methods return accumulators.                          *)
LEMMA HeaderLineType ==
  ASSUME NEW r \in Responses, NEW line \in HeaderLines
  PROVE  ConsumeHeaderLine(r, line) \in Responses
<1>1. CASE line \in [kind : {"location"}, value : Locations]
  BY <1>1 DEF ConsumeHeaderLine, Responses, ResponseErrors
<1>2. CASE line \in [kind : {"blocked_by_nextdns", "invalid_content_length",
                             "content_length_too_large", "allocation", "other"}]
  BY <1>2 DEF ConsumeHeaderLine, Responses, ResponseErrors
<1>3. QED BY <1>1, <1>2 DEF HeaderLines

LEMMA AppendBodyType ==
  ASSUME NEW r \in Responses, NEW n \in Nat
  PROVE  /\ AppendBody(r, n) \in Responses
         /\ Accepted(r, n) \in Nat
         /\ Accepted(r, n) <= n
BY ResponseAssumption DEF AppendBody, Accepted, Responses, ResponseErrors

(* The time left is a natural number, and when there is some it ends the   *)
(* reserve before the deadline.                                            *)
LEMMA RemainingBound ==
  ASSUME NEW t \in Nat
  PROVE  /\ Remaining(t) \in Nat
         /\ Remaining(t) > 0 => t + Remaining(t) + Reserve <= Deadline
BY DownloadAssumption DEF Remaining

(* An accepted answer holds public addresses only.                         *)
LEMMA AcceptedAnswerIsPublic ==
  ASSUME NEW answer, AnswerError(answer) = "none"
  PROVE  Candidates(answer) \subseteq Public
BY DEF AnswerError, PolicyRejects

(* A Location that is followed is a URL no earlier hop visited.            *)
LEMMA FollowedIsNew ==
  ASSUME NEW v \in Seq(Urls), NEW r \in Nat, NEW l \in Locations,
         l # Empty, FollowError(v, r, l) = "none"
  PROVE  l \in Urls /\ r < MaxRedirects /\ l \notin VisitedUrls(v)
BY UrlAssumption, RedirectAssumption
   DEF FollowError, AtRedirectLimit, Loops, Locations

-----------------------------------------------------------------------------
LEMMA TypeInit == Init => TypeOK
BY DownloadAssumption, ResponseAssumption, RedirectAssumption, UrlAssumption
   DEF Init, TypeOK, Responses, ResponseErrors, DownloadErrors, RedirectErrors

LEMMA TypeStep == TypeOK /\ [Next]_vars => TypeOK'
<1> SUFFICES ASSUME TypeOK, [Next]_vars PROVE TypeOK'
  OBVIOUS
<1> USE DEF TypeOK
<1>1. CASE BeginHop
  BY <1>1, ResponseAssumption, DownloadAssumption
     DEF BeginHop, Return, Responses, ResponseErrors, DownloadErrors, RedirectErrors
<1>2. CASE Resolve
  <2>1. ASSUME NEW answer \in Answers, ResolveAnswer(answer) PROVE TypeOK'
    <3>1. Candidates(answer) \subseteq Public \/ AnswerError(answer) # "none"
      BY AcceptedAnswerIsPublic
    <3>2. current \in Urls
      BY <2>1 DEF ResolveAnswer, ResolvedTo, Return, current
    <3>3. QED
      BY <2>1, <3>1, <3>2, AddressAssumption
         DEF ResolveAnswer, ResolvedTo, Return, wireVars, DownloadErrors, RedirectErrors
  <2>2. CASE LookupFails
    BY <2>2 DEF LookupFails, Return, wireVars, DownloadErrors, RedirectErrors
  <2>3. CASE ResolveLiteral
    BY <2>3, DownloadAssumption, AddressAssumption
       DEF ResolveLiteral, ResolvedTo, wireVars
  <2>4. QED BY <1>2, <2>1, <2>2, <2>3 DEF Resolve
<1>3. CASE Setup
  <2>1. CASE BeginTransfer
    <3>1. TransferExpiry(now) \in Nat
      BY RemainingBound, DownloadAssumption DEF TransferExpiry
    <3>2. QED
      BY <2>1, <3>1 DEF BeginTransfer, Return, wireVars, DownloadErrors, RedirectErrors
  <2>2. ASSUME NEW e \in {"resolve_pin", "easy_init", "curl_config"}, SetupFails(e)
        PROVE TypeOK'
    BY <2>2 DEF SetupFails, Return, wireVars, DownloadErrors, RedirectErrors
  <2>3. QED BY <1>3, <2>1, <2>2 DEF Setup
<1>4. CASE Connect
  <2>1. Dialable \subseteq Addresses
    BY DEF Dialable
  <2>2. QED BY <1>4, <2>1 DEF Connect, clientVars
<1>5. CASE Receive
  <2>1. ASSUME NEW line \in HeaderLines, HeaderLine(line) PROVE TypeOK'
    <3>1. resp' \in Responses
      BY <2>1, HeaderLineType DEF HeaderLine
    <3>2. announced' \in Locations \cup {NoLocation}
      BY <2>1 DEF HeaderLine, HeaderLines
    <3>3. QED BY <2>1, <3>1, <3>2 DEF HeaderLine, Report, clientVars
  <2>2. ASSUME NEW n \in 1..MaxSize, BodyBytes(n) PROVE TypeOK'
    <3>1. resp' \in Responses
      <4>1. AppendBody(resp, n) \in Responses
        BY AppendBodyType, DownloadAssumption
      <4>2. [resp EXCEPT !.error = "allocation"] \in Responses
        BY DEF Responses, ResponseErrors
      <4>3. QED BY <2>2, <4>1, <4>2 DEF BodyBytes
    <3>2. offered' \in 0..MaxSize
      BY <2>2, DownloadAssumption DEF BodyBytes
    <3>3. QED BY <2>2, <3>1, <3>2 DEF BodyBytes, Report, clientVars
  <2>3. QED BY <1>5, <2>1, <2>2 DEF Receive
<1>6. CASE EndTransfer
  BY <1>6 DEF EndTransfer, TransferEnds, wireVars
<1>7. CASE Conclude
  <2>1. CASE TransferFailed
    BY <2>1 DEF TransferFailed, Return, wireVars, DownloadErrors, RedirectErrors
  <2>2. CASE ResponseInfoFails
    BY <2>2 DEF ResponseInfoFails, Return, wireVars, DownloadErrors, RedirectErrors
  <2>3. CASE Finish
    <3>1. resp' \in Responses
      BY <2>3 DEF Finish, Finished, Responses, ResponseErrors
    <3>2. QED
      BY <2>3, <3>1 DEF Finish, Return, wireVars, DownloadErrors, RedirectErrors
  <2>4. CASE RedirectRefused
    <3>1. FollowError(visited, redirects, resp.location) \in RedirectErrors
      BY DEF FollowError, RedirectErrors
    <3>2. QED
      BY <2>4, <3>1 DEF RedirectRefused, Redirected, Return, wireVars,
                        DownloadErrors, RedirectErrors
  <2>5. CASE Follow
    <3>1. resp.location \in Urls /\ redirects < MaxRedirects
      BY <2>5, FollowedIsNew DEF Follow, Responses
    <3>2. QED
      BY <2>5, <3>1, RedirectAssumption DEF Follow, Redirected, wireVars
  <2>6. QED BY <1>7, <2>1, <2>2, <2>3, <2>4, <2>5 DEF Conclude
<1>8. CASE Tick
  BY <1>8, DownloadAssumption DEF Tick, clientVars, wireVars
<1>9. CASE UNCHANGED vars
  BY <1>9 DEF vars, clientVars, wireVars
<1>10. QED
  BY <1>1, <1>2, <1>3, <1>4, <1>5, <1>6, <1>7, <1>8, <1>9 DEF Next

(* Every variable keeps its type: in particular redirect_count_ never      *)
(* passes the limit and the accumulator never outgrows BodyLimit.          *)
THEOREM TypeCorrect == Spec => []TypeOK
BY TypeInit, TypeStep, PTL DEF Spec
-----------------------------------------------------------------------------
LEMMA SafetyInit == Init => IInv
BY TypeInit, RedirectAssumption
   DEF Init, IInv, StageInv, PublicPeersOnly, NoRevisit, TransferWithinBudget,
       DeliveredBody, HopIsolation

LEMMA SafetyStep == IInv /\ [Next]_vars => IInv'
<1> SUFFICES ASSUME IInv, [Next]_vars PROVE IInv'
  OBVIOUS
<1> USE DEF IInv, StageInv, PublicPeersOnly, NoRevisit, TransferWithinBudget,
            DeliveredBody, HopIsolation
<1>0. TypeOK'
  BY TypeStep
<1>1. CASE BeginHop
  BY <1>0, <1>1 DEF BeginHop, Return, current
<1>2. CASE Resolve
  <2>1. ASSUME NEW answer \in Answers, ResolveAnswer(answer) PROVE IInv'
    <3>1. AnswerError(answer) = "none" => Candidates(answer) \subseteq Public
      BY AcceptedAnswerIsPublic
    <3>2. QED
      BY <1>0, <2>1, <3>1 DEF ResolveAnswer, ResolvedTo, Return, current, wireVars
  <2>2. CASE LookupFails
    BY <1>0, <2>2 DEF LookupFails, Return, wireVars
  <2>3. CASE ResolveLiteral
    BY <1>0, <2>3, DownloadAssumption DEF ResolveLiteral, ResolvedTo, current, wireVars
  <2>4. QED BY <1>2, <2>1, <2>2, <2>3 DEF Resolve
<1>3. CASE Setup
  <2>1. CASE BeginTransfer
    <3>1. pc' = "transfer" => now' <= expires' /\ expires' + Reserve <= Deadline
      <4>1. now \in Nat /\ Remaining(now) \in Nat
        BY RemainingBound, DownloadAssumption DEF TypeOK
      <4>2. Remaining(now) > 0 => now + Remaining(now) + Reserve <= Deadline
        BY <4>1, RemainingBound
      <4>3. CASE Remaining(now) > 0 /\ now' = now /\ expires' = now + Remaining(now)
        BY <4>1, <4>2, <4>3, DownloadAssumption
      <4>4. QED
        BY <2>1, <4>3 DEF BeginTransfer, TransferExpiry, Return
    <3>2. QED
      BY <1>0, <2>1, <3>1, DownloadAssumption
         DEF BeginTransfer, Return, current, wireVars, TypeOK
  <2>2. ASSUME NEW e \in {"resolve_pin", "easy_init", "curl_config"}, SetupFails(e)
        PROVE IInv'
    BY <1>0, <2>2 DEF SetupFails, Return, wireVars
  <2>3. QED BY <1>3, <2>1, <2>2 DEF Setup
<1>4. CASE Connect
  <2>1. Dialable \subseteq Public
    BY <1>4 DEF Dialable, Connect, Running, current, TypeOK
  <2>2. QED
    BY <1>0, <1>4, <2>1 DEF Connect, Running, clientVars, current, TypeOK
<1>5. CASE Receive
  <2>1. ASSUME NEW line \in HeaderLines, HeaderLine(line) PROVE IInv'
    BY <1>0, <2>1 DEF HeaderLine, ConsumeHeaderLine, HeaderLines, Report, Running,
                      Responses, clientVars, current, TypeOK
  <2>2. ASSUME NEW n \in 1..MaxSize, BodyBytes(n) PROVE IInv'
    <3>1. /\ resp.error = "none" /\ code = "ok" /\ pc = "transfer"
          /\ resp.body = offered /\ resp.body \in 0..BodyLimit /\ n \in Nat /\ n > 0
          /\ offered' = offered + n /\ offered' <= origin.size
      BY <2>2, DownloadAssumption DEF BodyBytes, Running, Responses, TypeOK
    <3>2. CASE resp' = AppendBody(resp, n) /\ Report(Accepted(resp, n), n)
      <4>1. CASE n <= BodyLimit - resp.body
        <5>1. resp' = [resp EXCEPT !.body = @ + n] /\ code' = "ok"
          BY <3>1, <3>2, <4>1 DEF AppendBody, Accepted, Report
        <5>2. QED
          BY <1>0, <2>2, <3>1, <5>1
             DEF BodyBytes, Running, Responses, clientVars, current, TypeOK
      <4>2. CASE ~(n <= BodyLimit - resp.body)
        <5>1. /\ resp' = [resp EXCEPT !.body = BodyLimit]
              /\ code' = "write_error"
              /\ offered' > BodyLimit
          BY <3>1, <3>2, <4>2, ResponseAssumption
             DEF AppendBody, Accepted, Report, Responses, TypeOK
        <5>2. QED
          BY <1>0, <2>2, <3>1, <5>1, ResponseAssumption
             DEF BodyBytes, Running, Responses, clientVars, current, TypeOK
      <4>3. QED BY <4>1, <4>2
    <3>3. CASE resp' = [resp EXCEPT !.error = "allocation"] /\ Report(0, n)
      <4>1. code' = "write_error" /\ resp'.error = "allocation" /\ resp'.body = resp.body
            /\ resp'.location = resp.location
        BY <3>1, <3>3 DEF Report, Responses, TypeOK
      <4>2. QED
        BY <1>0, <2>2, <3>1, <4>1 DEF BodyBytes, clientVars, current, TypeOK
    <3>4. QED BY <2>2, <3>2, <3>3 DEF BodyBytes
  <2>3. QED BY <1>5, <2>1, <2>2 DEF Receive
<1>6. CASE EndTransfer
  <2>1. PICK c \in {"ok", "write_error", "failed"} : TransferEnds(c)
    BY <1>6 DEF EndTransfer
  <2>2. pc = "transfer" /\ pc' = "performed" /\ code' = c
    BY <2>1 DEF TransferEnds
  <2>3. c = "ok" => code = "ok" /\ offered = origin.size
    BY <2>1 DEF TransferEnds, TypeOK
  <2>4. c = "write_error" => code = "write_error"
    BY <2>1 DEF TransferEnds
  <2>5. UNCHANGED <<visited, redirects, pin, expires, result, peer, origin, offered, announced, resp>>
    BY <2>1 DEF TransferEnds, wireVars
  <2>6. c # "failed" => peer # NoPeer
    BY <2>1, <2>4 DEF TransferEnds
  <2>7. StageInv'
    <3>1. CASE c = "ok"
      BY <2>2, <2>3, <2>5, <2>6, <3>1
    <3>2. CASE c = "write_error"
      BY <2>2, <2>4, <2>5, <2>6, <3>2
    <3>3. CASE c = "failed"
      BY <2>2, <2>5, <3>3
    <3>4. QED BY <3>1, <3>2, <3>3
  <2>8. QED BY <1>0, <2>2, <2>5, <2>7
<1>7. CASE Conclude
  <2>1. CASE TransferFailed
    BY <1>0, <2>1 DEF TransferFailed, Return, wireVars
  <2>2. CASE ResponseInfoFails
    BY <1>0, <2>2 DEF ResponseInfoFails, Return, wireVars
  <2>3. CASE Finish
    BY <1>0, <2>3, ResponseAssumption DEF Finish, Finished, Redirected, CompletedTransfer, IsBodyLimitCompletion, AtBodyLimit,
                      Return, wireVars, TypeOK, Responses
  <2>4. CASE RedirectRefused
    BY <1>0, <2>4 DEF RedirectRefused, Redirected, Return, wireVars
  <2>5. CASE Follow
    <3>1. resp.location \in Urls /\ redirects < MaxRedirects
          /\ resp.location \notin VisitedUrls(visited)
      BY <2>5, FollowedIsNew DEF Follow, Responses, TypeOK
    <3>2. QED
      BY <1>0, <2>5, <3>1, RedirectAssumption
         DEF Follow, Redirected, wireVars, VisitedUrls, TypeOK
  <2>6. QED BY <1>7, <2>1, <2>2, <2>3, <2>4, <2>5 DEF Conclude
<1>8. CASE Tick
  BY <1>0, <1>8, DownloadAssumption DEF Tick, clientVars, wireVars, current, TypeOK
<1>9. CASE UNCHANGED vars
  BY <1>0, <1>9 DEF vars, clientVars, wireVars, current
<1>10. QED
  BY <1>1, <1>2, <1>3, <1>4, <1>5, <1>6, <1>7, <1>8, <1>9 DEF Next

(* The inductive invariant holds throughout; the properties the runs check *)
(* are among its conjuncts.                                                *)
THEOREM Safety == Spec => []IInv
BY SafetyInit, SafetyStep, PTL DEF Spec

(* No transfer is ever connected to an address the policy did not accept,  *)
(* whatever DNS answers on whatever hop.                                   *)
THEOREM PeersArePublic == Spec => []PublicPeersOnly
BY Safety, PTL DEF IInv

(* A download never visits a URL twice and never outgrows visited_.        *)
THEOREM TrailIsBounded == Spec => []NoRevisit
BY Safety, PTL DEF IInv

(* The submission reserve survives every transfer.                         *)
THEOREM ReserveIsKept == Spec => []TransferWithinBudget
BY Safety, PTL DEF IInv

(* A success is a whole 200 body, or exactly its first BodyLimit bytes.    *)
THEOREM BodyIsComplete == Spec => []DeliveredBody
BY Safety, PTL DEF IInv

(* No hop is decided by what an earlier hop's origin sent.                 *)
THEOREM HopsAreIsolated == Spec => []HopIsolation
BY Safety, PTL DEF IInv

-----------------------------------------------------------------------------
(* Refinement of OriginFetch.                                              *)
LEMMA FetchInit == Init => Fetch!Init
BY DEF Init, Fetch!Init, Fetch!NoServer, Server, Outcome

LEMMA FetchStep == IInv /\ IInv' /\ [Next]_vars => [Fetch!Next]_(Fetch!vars)
<1> SUFFICES ASSUME IInv, IInv', [Next]_vars PROVE [Fetch!Next]_(Fetch!vars)
  OBVIOUS
<1> USE DEF IInv, StageInv, Server, Outcome, Fetch!vars
<1>1. CASE BeginHop
  BY <1>1 DEF BeginHop, Return, Fetch!Next, Fetch!Fail
<1>2. CASE Resolve
  <2>1. UNCHANGED <<visited, peer, origin, resp>> /\ pc = "lookup" /\ pc' # "hop"
    BY <1>2 DEF Resolve, ResolveAnswer, LookupFails, ResolveLiteral, ResolvedTo, Return, wireVars
  <2>2. result' = result \/ result' = Failure("resolution")
    BY <1>2 DEF Resolve, ResolveAnswer, LookupFails, ResolveLiteral, ResolvedTo, Return
  <2>3. QED BY <2>1, <2>2 DEF Fetch!Next, Fetch!Fail
<1>3. CASE Setup
  <2>1. UNCHANGED <<visited, peer, origin, resp>> /\ pc = "resolved" /\ pc' # "hop"
    BY <1>3 DEF Setup, BeginTransfer, SetupFails, Return, wireVars
  <2>2. result' = result \/ \E e \in DownloadErrors \ {"none"} : result' = Failure(e)
    BY <1>3 DEF Setup, BeginTransfer, SetupFails, Return, DownloadErrors
  <2>3. QED BY <2>1, <2>2 DEF Fetch!Next, Fetch!Fail
<1>4. CASE Connect
  <2>1. Server = Fetch!NoServer /\ Outcome = "fetching"
    BY <1>4 DEF Connect, Running, Fetch!NoServer
  <2>2. Server' = [address |-> peer', status |-> origin'.status, size |-> origin'.size]
    BY <1>4, DownloadAssumption, AddressAssumption
       DEF Connect, Running, clientVars, Dialable, TypeOK, PublicPeersOnly
  <2>3. peer' \in Public /\ origin'.status \in Statuses /\ origin'.size \in 0..MaxSize
    BY <1>4, DownloadAssumption
       DEF Connect, Running, clientVars, Dialable, TypeOK, PublicPeersOnly, current
  <2>4. Server' \in [address : Public, status : Statuses, size : 0..MaxSize]
    BY <2>2, <2>3
  <2>5. UNCHANGED <<visited, result, resp>>
    BY <1>4 DEF Connect, clientVars
  <2>6. QED BY <2>1, <2>4, <2>5 DEF Fetch!Next, Fetch!Contact
<1>5. CASE Receive
  <2>1. UNCHANGED <<pc, visited, result, peer, origin>> /\ result = Pending
    BY <1>5 DEF Receive, HeaderLine, BodyBytes, clientVars, Running
  <2>2. QED BY <2>1
<1>6. CASE EndTransfer
  BY <1>6 DEF EndTransfer, TransferEnds, wireVars
<1>7. CASE Conclude
  <2>1. CASE TransferFailed
    BY <2>1 DEF TransferFailed, Return, wireVars, Fetch!Next, Fetch!Fail
  <2>2. CASE ResponseInfoFails
    BY <2>2 DEF ResponseInfoFails, Return, wireVars, Fetch!Next, Fetch!Fail
  <2>3. CASE Finish
    <3>1. pc = "performed" /\ pc' = "done" /\ UNCHANGED <<visited, peer, origin>>
      BY <2>3 DEF Finish, Return, wireVars
    <3>2. CASE result' = Success /\ resp'.error = "none"
      <4>1. peer # NoPeer
        BY <2>3 DEF Finish, CompletedTransfer, IsBodyLimitCompletion
      <4>2. /\ origin.status = 200
            /\ resp'.body = IF origin.size <= BodyLimit THEN origin.size ELSE BodyLimit
        BY <3>1, <3>2 DEF DeliveredBody
      <4>3. QED
        BY <3>1, <3>2, <4>1, <4>2 DEF Fetch!Next, Fetch!Deliver
    <3>3. CASE result' = Failure("response_policy")
      BY <3>1, <3>3 DEF Fetch!Next, Fetch!Fail
    <3>4. QED BY <2>3, <3>2, <3>3 DEF Finish, Return
  <2>4. CASE RedirectRefused
    BY <2>4 DEF RedirectRefused, Redirected, Return, wireVars, Fetch!Next, Fetch!Fail
  <2>5. CASE Follow
    <3>1. resp.location \in Urls /\ redirects < MaxRedirects
          /\ resp.location \notin VisitedUrls(visited)
      BY <2>5, FollowedIsNew DEF Follow, Responses, TypeOK
    <3>2. peer # NoPeer /\ origin.status \in RedirectStatuses /\ pc = "performed" /\ pc' = "hop"
      BY <2>5 DEF Follow, Redirected, CompletedTransfer, IsBodyLimitCompletion
    <3>3. Len(visited) <= MaxRedirects
      BY <3>1, RedirectAssumption DEF NoRevisit, TypeOK
    <3>4. visited' = Append(visited, resp.location) /\ result' = result /\ result = Pending
      BY <2>5 DEF Follow, Redirected
    <3>5. Fetch!Move(resp.location)
      BY <3>1, <3>2, <3>3, <3>4 DEF Fetch!Move, Fetch!NoServer, VisitedUrls
    <3>6. QED BY <3>1, <3>5 DEF Fetch!Next
  <2>6. QED BY <1>7, <2>1, <2>2, <2>3, <2>4, <2>5 DEF Conclude
<1>8. CASE Tick
  BY <1>8 DEF Tick, clientVars, wireVars
<1>9. CASE UNCHANGED vars
  BY <1>9 DEF vars, clientVars, wireVars
<1>10. QED
  BY <1>1, <1>2, <1>3, <1>4, <1>5, <1>6, <1>7, <1>8, <1>9 DEF Next

(* download_origin does nothing the abstract fetch does not allow.         *)
THEOREM Refinement == Spec => ImplementsFetch
BY FetchInit, FetchStep, Safety, PTL DEF Spec, Fetch!Spec, ImplementsFetch
=============================================================================
