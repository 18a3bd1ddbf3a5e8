----------------------------- MODULE OriginFetch -----------------------------
(***************************************************************************)
(* What a download promises, without how: it walks a trail of at most      *)
(* MaxRedirects redirects over distinct URLs, talks to public addresses    *)
(* only, moves on only from a redirect response, and ends once, with a     *)
(* failure or with the first BodyLimit bytes of a 200 response.            *)
(***************************************************************************)
EXTENDS Naturals, Sequences

CONSTANTS Urls, Public, Statuses, RedirectStatuses, MaxRedirects, MaxSize,
          BodyLimit, NoPeer

VARIABLES
  trail,    \* URLs requested, in order
  server,   \* who answers the current request, and what; NoServer before
  outcome,  \* "fetching", "delivered" or "failed"
  bytes     \* length of the delivered body

NoServer == [address |-> NoPeer, status |-> 0, size |-> 0]

vars == <<trail, server, outcome, bytes>>

Init ==
  /\ \E u \in Urls : trail = <<u>>
  /\ server = NoServer
  /\ outcome = "fetching"
  /\ bytes = 0

Contact ==
  /\ outcome = "fetching"
  /\ server = NoServer
  /\ server' \in [address : Public, status : Statuses, size : 0..MaxSize]
  /\ UNCHANGED <<trail, outcome, bytes>>

Move(url) ==
  /\ outcome = "fetching"
  /\ server.address # NoPeer
  /\ server.status \in RedirectStatuses
  /\ Len(trail) <= MaxRedirects
  /\ \A i \in 1..Len(trail) : trail[i] # url
  /\ trail' = Append(trail, url)
  /\ server' = NoServer
  /\ UNCHANGED <<outcome, bytes>>

Deliver ==
  /\ outcome = "fetching"
  /\ server.address # NoPeer
  /\ server.status = 200
  /\ outcome' = "delivered"
  /\ bytes' = IF server.size <= BodyLimit THEN server.size ELSE BodyLimit
  /\ UNCHANGED <<trail, server>>

Fail ==
  /\ outcome = "fetching"
  /\ outcome' = "failed"
  /\ UNCHANGED <<trail, server, bytes>>

Next == Contact \/ (\E url \in Urls : Move(url)) \/ Deliver \/ Fail

Spec == Init /\ [][Next]_vars
=============================================================================
