----------------------------- MODULE DnsResolver -----------------------------
(***************************************************************************)
(* The decision resolve_origin_addresses takes about one getaddrinfo       *)
(* answer (src/src/http/dns_resolver.cpp) together with the policy of      *)
(* validate_resolved_addresses (src/src/http/dns_policy.cpp).              *)
(*                                                                         *)
(* An answer is the linked list of candidates as a sequence.  A candidate  *)
(* is an address, or Malformed when format_candidate cannot turn it into   *)
(* text.  Which addresses are public is address_policy.cpp's business and  *)
(* is the constant Public here.                                            *)
(***************************************************************************)
EXTENDS Naturals, Sequences

CONSTANTS
  Addresses,      \* addresses an answer may name
  Public,         \* those validate_public_address accepts
  Malformed,      \* a candidate format_candidate rejects
  MaxCandidates   \* maximum_dns_candidates (64 in dns_resolver.hpp)

ASSUME AddressAssumption ==
  /\ Public \subseteq Addresses
  /\ Malformed \notin Addresses
  /\ MaxCandidates \in Nat \ {0}

ResolutionErrors ==
  {"none", "lookup_failure", "empty_answer", "too_many_answers",
   "malformed_answer", "address_policy"}

Candidates(answer) == {answer[i] : i \in 1..Len(answer)}

(* Two wrong policies: only the first candidate is judged; one public      *)
(* candidate redeems the rest.                                             *)
PolicyJudgesFirstOnly(answer) == answer[1] \notin Public
PolicyWantsOnePublic(answer) == Candidates(answer) \cap Public = {}

(* One address that is not public condemns the whole answer.               *)
PolicyRejects(answer) == \E a \in Candidates(answer) : a \notin Public

(* The traversal stops at the first malformed candidate, or at the         *)
(* candidate that no longer fits; the policy only sees a whole answer.     *)
AnswerError(answer) ==
  IF \E i \in 1..Len(answer) : i <= MaxCandidates /\ answer[i] = Malformed
    THEN "malformed_answer"
  ELSE IF Len(answer) > MaxCandidates THEN "too_many_answers"
  ELSE IF answer = <<>> THEN "empty_answer"
  ELSE IF PolicyRejects(answer) THEN "address_policy"
  ELSE "none"
=============================================================================
