--------------------------- MODULE RedirectTracker ---------------------------
(***************************************************************************)
(* RedirectTracker (src/src/http/redirect_policy.cpp): the canonical URLs  *)
(* one download has visited and the decision on a Location field.          *)
(***************************************************************************)
EXTENDS Naturals, Sequences, OriginUrl

CONSTANT MaxRedirects    \* maximum_origin_redirects (10 in redirect_policy.hpp)

ASSUME RedirectAssumption == MaxRedirects \in Nat

RedirectErrors ==
  {"none", "invalid_location", "url_policy", "loop", "too_many_redirects"}

VisitedUrls(visited) == {visited[i] : i \in 1..Len(visited)}

(* A wrong loop check: only a redirect of a URL to itself is seen.         *)
LoopsToCurrent(visited, url) == url = visited[Len(visited)]

Loops(visited, url) == url \in VisitedUrls(visited)

(* A wrong limit: one redirect too many is followed.                       *)
LimitOffByOne(redirects) == redirects > MaxRedirects

AtRedirectLimit(redirects) == redirects >= MaxRedirects

(* The error follow() reports, in the order it looks; "none" is a move.    *)
FollowError(visited, redirects, location) ==
  IF AtRedirectLimit(redirects) THEN "too_many_redirects"
  ELSE IF location = Unresolvable THEN "invalid_location"
  ELSE IF location = Refused THEN "url_policy"
  ELSE IF Loops(visited, location) THEN "loop"
  ELSE "none"
=============================================================================
