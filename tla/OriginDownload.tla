---------------------------- MODULE OriginDownload ----------------------------
(***************************************************************************)
(* download_origin (src/src/http/origin_download.cpp): the loop that       *)
(* resolves, pins, transfers and follows redirects until a body or an      *)
(* error is returned, under the time the invocation has left.              *)
(*                                                                         *)
(* The client is sequential.  What surrounds it is not: time passes, DNS   *)
(* answers what it likes, an origin sends any header lines and any bytes,  *)
(* and a transfer can fail at any moment.  libcurl is external; its        *)
(* contract is the one the code relies on: it dials an address of the      *)
(* CURLOPT_RESOLVE entry of the URL's host (or looks the host up itself    *)
(* when there is none), stops when a callback takes fewer bytes than it    *)
(* was given, and stops at CURLOPT_TIMEOUT_MS.                             *)
(***************************************************************************)
EXTENDS DnsResolver, OriginResponse, RedirectTracker

CONSTANTS
  Host,           \* the hostname:port of each URL
  LiteralAddress, \* URL whose host is an address literal |-> that address
  Answers,        \* the getaddrinfo answers considered
  Statuses,       \* the response statuses considered
  MaxSize,        \* bound: bytes an origin's body has
  Deadline,       \* Lambda-Runtime-Deadline-Ms
  Reserve,        \* response_submission_reserve_ms
  Horizon,        \* bound: the clock stops here
  NoPeer

ASSUME DownloadAssumption ==
  /\ DOMAIN LiteralAddress \subseteq Urls
  /\ \A u \in DOMAIN LiteralAddress : LiteralAddress[u] \in Public
  /\ \A answer \in Answers : answer \in Seq(Addresses \cup {Malformed})
  /\ DOMAIN Host = Urls
  /\ Statuses \subseteq Nat
  /\ NoPeer \notin Addresses
  /\ {MaxSize, Deadline, Reserve, Horizon} \subseteq Nat

VARIABLES
  pc,         \* where perform_origin_request or its caller stands
  now,        \* the clock remaining_origin_milliseconds reads
  visited,    \* RedirectTracker::visited_[0 .. visited_count_)
  redirects,  \* RedirectTracker::redirect_count_
  pin,        \* CurlResolvePin of this hop: its URL and addresses
  expires,    \* when CURLOPT_TIMEOUT_MS ends the transfer
  peer,       \* address the transfer is connected to
  origin,     \* what the connected origin answers: status, size of its body
  offered,    \* body bytes it has handed to libcurl
  announced,  \* the last Location field it has sent
  resp,       \* OriginResponseAccumulator
  code,       \* CURLcode of the transfer
  result      \* OriginDownloadResult: error and redirect_error

clientVars == <<pc, visited, redirects, pin, expires, result>>
wireVars == <<peer, origin, offered, announced>>
vars == <<now, clientVars, wireVars, resp, code>>

DownloadErrors ==
  {"none", "resolution", "resolve_pin", "easy_init", "curl_config", "transfer",
   "response_info", "response_policy", "deadline", "redirect"}

Pending == [error |-> "pending", redirect_error |-> "none"]
Failure(e) == [error |-> e, redirect_error |-> "none"]
RedirectFailure(e) == [error |-> "redirect", redirect_error |-> e]
Success == [error |-> "none", redirect_error |-> "none"]

RedirectStatuses == {301, 302, 303, 307, 308}

NoAnswer == [status |-> 0, size |-> 0]

NoPin == [url |-> NoLocation, addresses |-> {}]

current == visited[Len(visited)]

(* remaining_origin_milliseconds at time t; a wrong one has no reserve.    *)
RemainingWithoutReserve(t) == IF Deadline <= t THEN 0 ELSE Deadline - t

Remaining(t) ==
  IF Deadline <= t \/ Deadline - t <= Reserve THEN 0
  ELSE Deadline - t - Reserve

(* The variables' types; the trail and the accumulator within their limits.*)
TypeOK ==
  /\ pc \in {"hop", "lookup", "resolved", "transfer", "performed", "done"}
  /\ now \in 0..Horizon
  /\ visited \in Seq(Urls) \ {<<>>}
  /\ redirects \in 0..MaxRedirects
  /\ pin \in [url : Urls \cup {NoLocation}, addresses : SUBSET Addresses]
  /\ expires \in Nat
  /\ peer \in Addresses \cup {NoPeer}
  /\ origin \in [status : Statuses \cup {0}, size : 0..MaxSize]
  /\ offered \in 0..MaxSize
  /\ announced \in Locations \cup {NoLocation}
  /\ resp \in Responses
  /\ code \in {"ok", "write_error", "failed"}
  /\ result \in [error : DownloadErrors \cup {"pending"},
                 redirect_error : RedirectErrors]
-----------------------------------------------------------------------------
(* The handler passes a URL validate_origin_url has just accepted, so      *)
(* RedirectTracker::create finds the same URL again.                       *)
Init ==
  /\ pc = "hop"
  /\ now \in 0..Horizon
  /\ \E u \in Urls : visited = <<u>>
  /\ redirects = 0
  /\ pin = NoPin
  /\ expires = 0
  /\ peer = NoPeer
  /\ origin = NoAnswer
  /\ offered = 0
  /\ announced = NoLocation
  /\ resp = EmptyResponse
  /\ code = "ok"
  /\ result = Pending

Return(r) == pc' = "done" /\ result' = r

(* Every hop starts from an empty accumulator; a wrong one reuses the last.*)
ReusedResponse == resp
FreshResponse == EmptyResponse

(* A fresh result, and the check made before anything is resolved.  The    *)
(* wire variables restart because the hop gets a new easy handle.          *)
BeginHop ==
  /\ pc = "hop"
  /\ resp' = FreshResponse
  /\ pin' = NoPin
  /\ peer' = NoPeer
  /\ offered' = 0
  /\ announced' = NoLocation
  /\ origin' = NoAnswer
  /\ code' = "ok"
  /\ \/ Remaining(now) = 0 /\ Return(Failure("deadline"))
     \/ Remaining(now) > 0 /\ pc' = "lookup" /\ UNCHANGED result
  /\ UNCHANGED <<now, visited, redirects, expires>>

(* getaddrinfo has returned, or was not needed for a literal address.      *)
LookupFails ==
  /\ pc = "lookup"
  /\ current \notin DOMAIN LiteralAddress
  /\ Return(Failure("resolution"))
  /\ UNCHANGED <<now, visited, redirects, pin, expires, wireVars, resp, code>>

ResolvedTo(addresses) ==
  /\ pin' = [url |-> current, addresses |-> addresses]
  /\ pc' = "resolved"
  /\ UNCHANGED result

ResolveLiteral ==
  /\ pc = "lookup"
  /\ current \in DOMAIN LiteralAddress
  /\ ResolvedTo({LiteralAddress[current]})
  /\ UNCHANGED <<now, visited, redirects, expires, wireVars, resp, code>>

ResolveAnswer(answer) ==
  /\ pc = "lookup"
  /\ current \notin DOMAIN LiteralAddress
  /\ IF AnswerError(answer) = "none" THEN ResolvedTo(Candidates(answer))
     ELSE Return(Failure("resolution")) /\ UNCHANGED pin
  /\ UNCHANGED <<now, visited, redirects, expires, wireVars, resp, code>>

(* The pin's slist or the handle cannot be allocated, or an option is      *)
(* refused; the remaining time is read between the first and the others.   *)
SetupFails(error) ==
  /\ pc = "resolved"
  /\ error \in {"easy_init", "curl_config"} => Remaining(now) > 0
  /\ Return(Failure(error))
  /\ UNCHANGED <<now, visited, redirects, pin, expires, wireVars, resp, code>>

(* A transfer may last as long as the budget lasts.  libcurl reads a       *)
(* timeout that is not set as no timeout at all.                           *)
NoTransferTimeout(t) == Horizon + 1
TransferExpiry(t) == t + Remaining(t)

(* DNS used up part of the budget: the second reading is the timeout.  No  *)
(* call that could wait lies between it and the start of curl.             *)
BeginTransfer ==
  /\ pc = "resolved"
  /\ \/ Remaining(now) = 0 /\ Return(Failure("deadline")) /\ UNCHANGED expires
     \/ /\ Remaining(now) > 0
        /\ pin.url = current
        /\ expires' = TransferExpiry(now)
        /\ pc' = "transfer"
        /\ UNCHANGED result
  /\ UNCHANGED <<now, visited, redirects, pin, wireVars, resp, code>>
-----------------------------------------------------------------------------
(* libcurl and the origin.                                                 *)
Running == pc = "transfer" /\ code = "ok" /\ now < expires

Dialable ==
  IF pin.url \in Urls /\ Host[pin.url] = Host[current] THEN pin.addresses
  ELSE Addresses

Connect ==
  /\ Running
  /\ peer = NoPeer
  /\ peer' \in Dialable
  /\ origin' \in [status : Statuses, size : 0..MaxSize]
  /\ UNCHANGED <<now, clientVars, offered, announced, resp, code>>

Report(taken, given) == code' = IF taken < given THEN "write_error" ELSE code

(* origin_header_callback; header lines also come before the final status  *)
(* (1xx) and after the body (trailers).                                    *)
HeaderLine(line) ==
  /\ Running
  /\ peer # NoPeer
  /\ resp' = ConsumeHeaderLine(resp, line)
  /\ announced' = IF line.kind = "location" THEN line.value ELSE announced
  /\ Report(IF resp'.error = "none" THEN 1 ELSE 0, 1)
  /\ UNCHANGED <<now, clientVars, peer, origin, offered>>

(* origin_body_callback; it may also run out of memory.                    *)
BodyBytes(n) ==
  /\ Running
  /\ peer # NoPeer
  /\ offered + n <= origin.size
  /\ offered' = offered + n
  /\ \/ resp' = AppendBody(resp, n) /\ Report(Accepted(resp, n), n)
     \/ /\ resp.body < BodyLimit
        /\ resp' = [resp EXCEPT !.error = "allocation"]
        /\ Report(0, n)
  /\ UNCHANGED <<now, clientVars, peer, origin, announced>>

(* curl_easy_perform returns: a callback's short count is CURLE_WRITE_ERROR,
   a whole response is CURLE_OK, and any other error can come at any time. *)
TransferEnds(c) ==
  /\ pc = "transfer"
  /\ c = "write_error" <=> code = "write_error"
  /\ c = "ok" => peer # NoPeer /\ offered = origin.size /\ now < expires
  /\ code' = c
  /\ pc' = "performed"
  /\ UNCHANGED <<now, visited, redirects, pin, expires, result, wireVars, resp>>
-----------------------------------------------------------------------------
(* What perform_origin_request and the redirect loop make of it.           *)
AnythingReceivedIsComplete == code = "ok" \/ resp.error = "none"
CompletedTransfer == code = "ok" \/ IsBodyLimitCompletion(code, resp)

TransferFailed ==
  /\ pc = "performed"
  /\ ~CompletedTransfer
  /\ Return(Failure(IF resp.error = "none" THEN "transfer" ELSE "response_policy"))
  /\ UNCHANGED <<now, visited, redirects, pin, expires, wireVars, resp, code>>

ResponseInfoFails ==
  /\ pc = "performed"
  /\ CompletedTransfer
  /\ Return(Failure("response_info"))
  /\ UNCHANGED <<now, visited, redirects, pin, expires, wireVars, resp, code>>

Redirected ==
  /\ pc = "performed"
  /\ CompletedTransfer
  /\ resp.error = "none"
  /\ origin.status \in RedirectStatuses

(* Any other completed transfer ends the download, as finish() judges it.  *)
Finish ==
  /\ pc = "performed"
  /\ CompletedTransfer
  /\ ~Redirected
  /\ resp' = Finished(resp, origin.status)
  /\ Return(IF resp'.error = "none" THEN Success ELSE Failure("response_policy"))
  /\ UNCHANGED <<now, visited, redirects, pin, expires, wireVars, code>>

(* No Location, an empty one, or one follow() refuses.                     *)
RedirectRefused ==
  /\ Redirected
  /\ \/ /\ resp.location \in {NoLocation, Empty}
        /\ Return(RedirectFailure("invalid_location"))
     \/ /\ resp.location \notin {NoLocation, Empty}
        /\ FollowError(visited, redirects, resp.location) # "none"
        /\ Return(RedirectFailure(FollowError(visited, redirects, resp.location)))
  /\ UNCHANGED <<now, visited, redirects, pin, expires, wireVars, resp, code>>

Follow ==
  /\ Redirected
  /\ resp.location \notin {NoLocation, Empty}
  /\ FollowError(visited, redirects, resp.location) = "none"
  /\ visited' = Append(visited, resp.location)
  /\ redirects' = redirects + 1
  /\ pc' = "hop"
  /\ UNCHANGED <<now, pin, expires, result, wireVars, resp, code>>

Tick ==
  /\ pc # "done"
  /\ pc = "transfer" => now < expires
  /\ now < Horizon
  /\ now' = now + 1
  /\ UNCHANGED <<clientVars, wireVars, resp, code>>

Resolve ==
  \/ LookupFails
  \/ ResolveLiteral
  \/ \E answer \in Answers : ResolveAnswer(answer)

Setup ==
  \/ BeginTransfer
  \/ \E error \in {"resolve_pin", "easy_init", "curl_config"} : SetupFails(error)

EndTransfer == \E c \in {"ok", "write_error", "failed"} : TransferEnds(c)

Conclude ==
  \/ TransferFailed
  \/ ResponseInfoFails
  \/ Finish
  \/ RedirectRefused
  \/ Follow

Receive ==
  \/ \E line \in HeaderLines : HeaderLine(line)
  \/ \E n \in 1..MaxSize : BodyBytes(n)

Next ==
  \/ BeginHop
  \/ Resolve
  \/ Setup
  \/ Connect
  \/ Receive
  \/ EndTransfer
  \/ Conclude
  \/ Tick

Spec == Init /\ [][Next]_vars

(* The client's own steps are taken, getaddrinfo returns, the clock moves, *)
(* and libcurl returns once its timeout has passed or a callback stopped   *)
(* it.  Nothing is assumed of the origin.                                  *)
TimedOut == pc = "transfer" /\ (now >= expires \/ code = "write_error")

Fairness ==
  /\ WF_vars(BeginHop)
  /\ WF_vars(Resolve)
  /\ WF_vars(Setup)
  /\ WF_vars(TimedOut /\ EndTransfer)
  /\ WF_vars(Conclude)
  /\ WF_vars(Tick)

FairSpec == Spec /\ Fairness
-----------------------------------------------------------------------------
(* Whatever the resolver answers and however often the download moves on,  *)
(* a transfer is only ever connected to an address the public-address      *)
(* policy accepted (perform_origin_request's "SSRF boundary").             *)
PublicPeersOnly == peer # NoPeer => peer \in Public

(* The visited array is never outgrown, never holds a URL twice, and its   *)
(* length and redirect_count_ keep step.                                   *)
NoRevisit ==
  /\ Len(visited) = redirects + 1
  /\ redirects <= MaxRedirects
  /\ \A i, j \in 1..Len(visited) : visited[i] = visited[j] => i = j

(* A running transfer always leaves the reserve for submitting the answer, *)
(* however long DNS took.                                                  *)
TransferWithinBudget == pc = "transfer" => now <= expires /\ expires + Reserve <= Deadline

(* A download that succeeds returns the whole body of a 200 response, or   *)
(* exactly its first BodyLimit bytes.                                      *)
DeliveredBody ==
  result = Success =>
    /\ origin.status = 200
    /\ resp.error = "none"
    /\ resp.body = IF origin.size <= BodyLimit THEN origin.size ELSE BodyLimit

(* The accumulator only knows what the current hop's origin sent: an       *)
(* earlier hop's Location or body never decides a later hop.               *)
HopIsolation ==
  pc \in {"lookup", "resolved", "transfer", "performed"} =>
    /\ resp.body <= offered
    /\ resp.location = announced

(* Some outcome is always reached, even when origins redirect in circles   *)
(* or drip header lines for ever.                                          *)
Termination == <>(pc = "done")

(* The promise made to the handler.                                        *)
Server ==
  IF pc = "hop" \/ peer = NoPeer THEN [address |-> NoPeer, status |-> 0, size |-> 0]
  ELSE [address |-> peer, status |-> origin.status, size |-> origin.size]

Outcome ==
  IF result = Pending THEN "fetching"
  ELSE IF result = Success THEN "delivered" ELSE "failed"

Fetch == INSTANCE OriginFetch WITH
  trail <- visited, server <- Server, outcome <- Outcome,
  bytes <- IF result = Success THEN resp.body ELSE 0

(* download_origin implements the abstract fetch.                          *)
ImplementsFetch == Fetch!Spec
-----------------------------------------------------------------------------
(* What an induction needs beyond the properties: what each stage of a hop *)
(* has established, and how the bytes taken relate to the bytes offered.   *)
StageInv ==
  /\ pin.addresses \subseteq Public
  /\ pc \in {"resolved", "transfer"} => pin.url = current
  /\ pc \in {"lookup", "resolved"} => code = "ok" /\ resp = EmptyResponse /\ offered = 0
  /\ pc = "transfer" /\ peer = NoPeer => offered = 0
  /\ pc = "transfer" => code # "failed"
  /\ pc = "transfer" /\ code = "write_error" => peer # NoPeer
  /\ pc = "performed" /\ code # "failed" => peer # NoPeer
  /\ pc = "transfer" /\ code = "ok" => resp.error = "none"
  /\ pc = "performed" /\ code = "ok" => offered = origin.size /\ resp.error = "none"
  /\ pc # "done" => result = Pending
  /\ pc \in {"transfer", "performed"} /\ code # "failed" /\ resp.error = "none" =>
       /\ offered <= origin.size
       /\ code = "ok" => resp.body = offered
       /\ code = "write_error" => resp.body = BodyLimit /\ offered > BodyLimit

IInv ==
  /\ TypeOK
  /\ StageInv
  /\ PublicPeersOnly
  /\ NoRevisit
  /\ TransferWithinBudget
  /\ DeliveredBody
  /\ HopIsolation
=============================================================================
