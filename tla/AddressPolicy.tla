----------------------------- MODULE AddressPolicy -----------------------------
(***************************************************************************)
(* validate_public_address (src/src/http/address_policy.cpp).  An address  *)
(* is its family and its bytes; text that inet_pton takes for neither      *)
(* family is parse_failure, and so is empty or overlong text.  Text that   *)
(* begins with "::ffff:" is refused before it is parsed; what it spells is *)
(* refused by the rules below too, if not always by the same one.          *)
(***************************************************************************)
EXTENDS Integers, Sequences, FiniteSetsExt

Octets == 0..255

IsAddress(a) ==
  /\ a.family \in {"ipv4", "ipv6"}
  /\ a.bytes \in [1..(IF a.family = "ipv4" THEN 4 ELSE 16) -> Octets]

(* An array initialised with fewer bytes than it has: the rest are zero.   *)
ByteOf(prefix, i) == IF i <= Len(prefix) THEN prefix[i] ELSE 0

(* has_prefix compares whole bytes, then the top bits of one more; a wrong *)
(* one compares the whole bytes only.                                      *)
WholeBytesOnly(bytes, prefix, bits) ==
  \A i \in 1..(bits \div 8) : bytes[i] = ByteOf(prefix, i)
HasPrefix(bytes, prefix, bits) ==
  LET full == bits \div 8
      low == 2^(8 - (bits % 8))
  IN /\ \A i \in 1..full : bytes[i] = ByteOf(prefix, i)
     /\ (bits % 8) # 0 => bytes[full + 1] \div low = ByteOf(prefix, full + 1) \div low

Rule(error, prefixes) == [error |-> error, prefixes |-> prefixes]

(* classify_ipv4 and classify_ipv6 up to its last rule, in their order.    *)
Ipv4Rules == <<
  Rule("unspecified", {<<<<0, 0, 0, 0>>, 32>>}),
  Rule("loopback", {<<<<127>>, 8>>}),
  Rule("private_address", {<<<<10>>, 8>>, <<<<172, 16>>, 12>>, <<<<192, 168>>, 16>>}),
  Rule("link_local", {<<<<169, 254>>, 16>>}),
  Rule("multicast", {<<<<224>>, 4>>}),
  Rule("denied_range", {<<<<0>>, 8>>, <<<<100, 64>>, 10>>}),
  Rule("not_global_unicast",
    {<<<<192, 0, 0>>, 24>>, <<<<192, 0, 2>>, 24>>, <<<<192, 88, 99>>, 24>>,
     <<<<198, 18>>, 15>>, <<<<198, 51, 100>>, 24>>, <<<<203, 0, 113>>, 24>>,
     <<<<240>>, 4>>}) >>

Zeros(n) == [i \in 1..n |-> 0]

Zero == Zeros(16)
Loopback == Zeros(15) \o <<1>>
Mapped == Zeros(10) \o <<255, 255>>

Ipv6Rules == <<
  Rule("unspecified", {<<Zero, 128>>}),
  Rule("loopback", {<<Loopback, 128>>}),
  Rule("mapped_ipv6", {<<Mapped, 96>>}),
  Rule("private_address", {<<<<252>>, 7>>}),
  Rule("link_local", {<<<<254, 128>>, 10>>}),
  Rule("multicast", {<<<<255>>, 8>>}),
  Rule("denied_range",
    {<<<<>>, 96>>, <<<<0, 100, 255, 155>>, 96>>, <<<<0, 100, 255, 155, 0, 1>>, 48>>,
     <<<<32, 1, 0, 16>>, 28>>, <<<<32, 1, 13, 184>>, 32>>}),
  Rule("not_global_unicast",
    {<<<<1, 0>>, 64>>, <<<<32, 1>>, 23>>, <<<<32, 2>>, 16>>, <<<<63, 255>>, 20>>}) >>

(* The last IPv6 rule refuses what is not in 2000::/3.                     *)
GlobalUnicast(a) == a.family = "ipv6" => HasPrefix(a.bytes, <<32>>, 3)

Matches(rule, bytes) ==
  \E prefix \in rule.prefixes : HasPrefix(bytes, prefix[1], prefix[2])

AddressError(a) ==
  LET rules == IF a.family = "ipv4" THEN Ipv4Rules ELSE Ipv6Rules
      hits == {i \in DOMAIN rules : Matches(rules[i], a.bytes)}
  IN IF hits # {} THEN rules[Min(hits)].error
     ELSE IF GlobalUnicast(a) THEN "none" ELSE "not_global_unicast"

IsPublic(a) == AddressError(a) = "none"
=============================================================================
