---------------------------- MODULE OriginResponse ----------------------------
(***************************************************************************)
(* OriginResponseAccumulator (src/src/http/origin_response.cpp): what one  *)
(* hop's response leaves behind.  The accumulator is a record and the      *)
(* operators are its methods.                                              *)
(*                                                                         *)
(* Bytes are counted, not stored.  A header line is a record naming the    *)
(* case consume_header_line takes for it.                                  *)
(***************************************************************************)
EXTENDS Naturals, OriginUrl

CONSTANT BodyLimit     \* maximum_origin_body_bytes (10 MiB)

ASSUME ResponseAssumption == BodyLimit \in Nat

ResponseErrors ==
  {"none", "blocked_by_nextdns", "invalid_content_length",
   "content_length_too_large", "allocation", "non_200_status"}

Responses ==
  [error : ResponseErrors, location : Locations \cup {NoLocation},
   body : 0..BodyLimit]

EmptyResponse == [error |-> "none", location |-> NoLocation, body |-> 0]

HeaderLines ==
  [kind : {"location"}, value : Locations]
    \cup [kind : {"blocked_by_nextdns", "invalid_content_length",
                  "content_length_too_large", "allocation", "other"}]

(* Once an error is recorded later lines change nothing; the last Location *)
(* field wins; a line of no interest leaves the accumulator alone.         *)
ConsumeHeaderLine(resp, line) ==
  IF resp.error # "none" \/ line.kind = "other" THEN resp
  ELSE IF line.kind = "location" THEN [resp EXCEPT !.location = line.value]
  ELSE [resp EXCEPT !.error = line.kind]

(* How many of n bytes append_body takes.                                  *)
Accepted(resp, n) ==
  IF resp.error # "none" THEN 0
  ELSE IF n <= BodyLimit - resp.body THEN n ELSE BodyLimit - resp.body

AppendBody(resp, n) == [resp EXCEPT !.body = @ + Accepted(resp, n)]

(* finish: the first error stays, and only a 200 has none.                 *)
Finished(resp, status) ==
  [resp EXCEPT !.error = IF @ = "none" /\ status # 200 THEN "non_200_status" ELSE @]

AtBodyLimit(resp) == resp.body = BodyLimit

(* is_body_limit_completion: the one curl error that is a finished body.   *)
IsBodyLimitCompletion(code, resp) ==
  /\ code = "write_error"
  /\ resp.error = "none"
  /\ AtBodyLimit(resp)
=============================================================================
