------------------------------ MODULE OriginUrl ------------------------------
(***************************************************************************)
(* The URLs a download works with.  Urls are the canonical URLs            *)
(* validate_origin_url accepts (src/src/http/url_policy.cpp).  A Location  *)
(* field names one of them (absolute, or relative and resolved against the *)
(* current one), or is Empty, Unresolvable (a NUL byte, or libcurl cannot  *)
(* resolve it) or Refused (resolved, and refused by the URL policy).       *)
(***************************************************************************)
CONSTANTS Urls, Empty, Unresolvable, Refused,
          NoLocation    \* no Location field was seen

Locations == Urls \cup {Empty, Unresolvable, Refused}

ASSUME UrlAssumption ==
  /\ {Empty, Unresolvable, Refused, NoLocation} \cap Urls = {}
  /\ NoLocation \notin {Empty, Unresolvable, Refused}
=============================================================================
