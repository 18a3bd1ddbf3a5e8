------------------------------- MODULE UrlPolicy -------------------------------
(***************************************************************************)
(* validate_origin_url (src/src/http/url_policy.cpp) and the hostname rules*)
(* it calls (src/src/http/idna.cpp), in the order they are applied.        *)
(*                                                                         *)
(* A URL's text is a record of what these functions ask of it.  libcurl's  *)
(* parser and the IDNA conversion are external: they give the parts of the *)
(* URL and the labels of the converted hostname.                           *)
(***************************************************************************)
EXTENDS Integers, Sequences, SequencesExt, AddressPolicy

Label == [size : Nat,
          hyphens : {"none", "edge", "third", "a-label"},  \* "a-label": xn--
          ascii : BOOLEAN]                                 \* letters, digits, hyphens

Hostname ==
  [name : STRING,         \* what tells it from other hostnames
   size : Nat,            \* bytes before conversion
   colon : BOOLEAN,       \* as in an IPv6 literal
   converts : BOOLEAN,    \* to_ascii succeeds, without forbidden code points
   labels : Seq(Label) \ {<<>>},   \* one of size 0 in the root
   dot : BOOLEAN,         \* ends in the root dot
   quad : SUBSET [family : {"ipv4"}, bytes : [1..4 -> Octets]]]  \* the address its labels spell

Text ==
  [nul : BOOLEAN, https : BOOLEAN, authority : BOOLEAN, parses : BOOLEAN,
   user_information : BOOLEAN, host : Hostname,
   port : Nat,            \* 0 when there is none
   target : STRING]       \* path and query

MaxHostnameInputBytes == 4096
MaxDnsLabelBytes == 63
MaxDnsHostnameBytes == 253
MaxDnsHostnameWithTrailingDotBytes == 254

(* Bytes(labels)[i] is the length of the first i labels.  The converted    *)
(* hostname has dots between them too, which a wrong rule forgets.         *)
Bytes(labels) ==
  LET sum[i \in 0..Len(labels)] == IF i = 0 THEN 0 ELSE sum[i - 1] + labels[i].size
  IN sum
LettersOnly(host) == Bytes(host.labels)[Len(host.labels)]
AsciiSize(host) ==
  LettersOnly(host) + Len(host.labels) - 1 + IF host.dot THEN 1 ELSE 0

LabelIsValid(label) ==
  /\ label.size \in 1..MaxDnsLabelBytes
  /\ label.ascii
  /\ label.hyphens \in {"none", "a-label"}

(* normalize_hostname succeeds.                                            *)
Normalizes(host) ==
  /\ host.size \in 1..MaxHostnameInputBytes
  /\ host.converts
  /\ AsciiSize(host) <= IF host.dot THEN MaxDnsHostnameWithTrailingDotBytes
                        ELSE MaxDnsHostnameBytes
  /\ \A i \in DOMAIN host.labels : LabelIsValid(host.labels[i])

(* normalized.ascii.find('.'), which finds the root dot too.               *)
HasDot(host) == Len(host.labels) > 1 \/ host.dot

(* The hostname as inet_pton reads it: with a root dot it is a name.       *)
Literal(host) == IF host.dot THEN {} ELSE host.quad

(* parse_port.                                                             *)
PortOf(text) == IF text.port = 0 THEN 443 ELSE text.port

UrlError(text) ==
  IF text.nul THEN "invalid_syntax"
  ELSE IF ~text.https THEN "invalid_scheme"
  ELSE IF ~text.authority THEN "invalid_hostname"
  ELSE IF ~text.parses THEN "invalid_syntax"
  ELSE IF text.user_information THEN "user_information"
  ELSE IF text.host.colon \/ ~Normalizes(text.host) \/ ~HasDot(text.host)
    THEN "invalid_hostname"
  ELSE IF PortOf(text) \notin {80, 443} THEN "invalid_port"
  ELSE IF \E a \in Literal(text.host) : ~IsPublic(a) THEN "forbidden_address"
  ELSE "none"

Accepted(text) == UrlError(text) = "none"

(* The accepted URL, which says nothing of a port 443 that was spelt out.  *)
OriginUrl(text) ==
  [hostname |-> text.host.name, dot |-> text.host.dot, port |-> PortOf(text),
   target |-> text.target, literal_address |-> Literal(text.host)]
=============================================================================
