------------------------------- MODULE MCHandler -------------------------------
(* Queries of up to three fields, URLs that differ from a plain one in one *)
(* respect or a few, addresses at both ends of every reserved block and    *)
(* next to them, and bodies that look like more than one format.           *)
EXTENDS Handler, TLC
-----------------------------------------------------------------------------
(* Addresses: the first and last of each block, and their neighbours.      *)
After(octets) ==
  LET i == Max({j \in DOMAIN octets : octets[j] < 255})
  IN [j \in DOMAIN octets |-> IF j < i THEN octets[j] ELSE IF j = i THEN octets[i] + 1 ELSE 0]

Before(octets) ==
  LET i == Max({j \in DOMAIN octets : octets[j] > 0})
  IN [j \in DOMAIN octets |-> IF j < i THEN octets[j] ELSE IF j = i THEN octets[i] - 1 ELSE 255]

Edges(block) ==
  {block.first, block.last}
    \cup (IF \A i \in DOMAIN block.last : block.last[i] = 255 THEN {} ELSE {After(block.last)})
    \cup (IF \A i \in DOMAIN block.first : block.first[i] = 0 THEN {} ELSE {Before(block.first)})

BlockEdges ==
  UNION {{[family |-> block.family, bytes |-> octets] : octets \in Edges(block)} :
           block \in Reserved}

Quads == {a \in BlockEdges : a.family = "ipv4"}
Public4 == [family |-> "ipv4", bytes |-> <<11, 0, 0, 0>>]
Public6 == [family |-> "ipv6", bytes |-> <<32>> \o Zeros(15)]
Private4 == [family |-> "ipv4", bytes |-> <<10, 0, 0, 0>>]
-----------------------------------------------------------------------------
(* Hostnames.                                                              *)
Letters(size) == [size |-> size, hyphens |-> "none", ascii |-> TRUE]

Named(name, sizes) ==
  [name |-> name, size |-> 20, colon |-> FALSE, converts |-> TRUE,
   labels |-> [i \in DOMAIN sizes |-> Letters(sizes[i])], dot |-> FALSE, quad |-> {}]

Rooted(host) == [host EXCEPT !.dot = TRUE]
Hyphenated(name, hyphens) == [Named(name, <<8, 3>>) EXCEPT !.labels[1].hyphens = hyphens]

Digit(n) == <<"0", "1", "2", "3", "4", "5", "6", "7", "8", "9">>[n + 1]
Numeral(n) == Digit(n \div 100) \o Digit((n \div 10) % 10) \o Digit(n % 10)

QuadHost(a) ==
  [Named(FoldLeft(LAMBDA text, n : text \o Numeral(n) \o ".", "", a.bytes), <<2, 1, 3, 1>>)
     EXCEPT !.quad = {a}]

Plains == {Named("plain", <<5, 3>>)}

Hosts ==
  {Named("other", <<1, 2>>), Named("mixed", <<5, 3>>), Named("wide", <<4, 3>>),
   Named("single", <<9>>), Named("empty first", <<0, 3>>), Named("empty middle", <<3, 0, 3>>),
   Named("63", <<63, 3>>), Named("64", <<64, 3>>), Named("253", <<63, 63, 63, 61>>),
   Named("254", <<63, 63, 63, 62>>), Named("two long", <<126, 126>>)}
  \cup {Rooted(Named("single", <<9>>)), Rooted(Named("plain", <<5, 3>>)),
        Rooted(Named("253", <<63, 63, 63, 61>>)), Rooted(Named("254", <<63, 63, 63, 62>>)),
        Rooted(Named("root", <<0>>)), Rooted(Named("two dots", <<3, 0>>))}
  \cup {Hyphenated(hyphens, hyphens) : hyphens \in {"edge", "third", "a-label"}}
  \cup {[Named("underscore", <<5, 3>>) EXCEPT !.labels[1].ascii = FALSE],
        [Named("space", <<5, 3>>) EXCEPT !.converts = FALSE],
        [Named("::1", <<3>>) EXCEPT !.colon = TRUE],
        [Named("no host", <<0>>) EXCEPT !.size = 0],
        [Named("4096", <<5, 3>>) EXCEPT !.size = 4096],
        [Named("4097", <<5, 3>>) EXCEPT !.size = 4097]}
  \cup {QuadHost(a) : a \in Quads}
  \cup {Rooted(QuadHost(a)) : a \in {Public4, Private4}}

Answers ==
  [name \in {host.name : host \in Plains \cup Hosts} |->
     CASE name = "mixed" -> {{Public4, Private4}, {Public6}, {}}
       [] name = "wide" -> {{a} : a \in BlockEdges}
       [] OTHER -> {{Public4}}]
-----------------------------------------------------------------------------
(* URLs: every hostname in a plain URL, and every mixture of the other     *)
(* features with a few hostnames.                                          *)
At(host) ==
  [nul |-> FALSE, https |-> TRUE, authority |-> TRUE, parses |-> TRUE,
   user_information |-> FALSE, host |-> host, port |-> 0, target |-> "/"]

Mixtures ==
  [nul : {FALSE}, https : BOOLEAN, authority : BOOLEAN, parses : BOOLEAN,
   user_information : BOOLEAN,
   host : Plains \cup {Named("single", <<9>>), QuadHost(Private4)},
   port : {0, 80, 443, 8080}, target : {"/"}]

Variants == {At(host) : host \in Hosts} \cup Mixtures

Flag(set, name) == IF set THEN name ELSE ""

Word(text) ==
  text.host.name \o Flag(text.host.dot, " rooted") \o Flag(~text.https, " http")
    \o Flag(~text.authority, " empty") \o Flag(~text.parses, " garbled")
    \o Flag(text.user_information, " user") \o Flag(text.port = 80, " 80")
    \o Flag(text.port = 443, " 443") \o Flag(text.port = 8080, " 8080")

UrlTexts ==
  LET variants == Variants
  IN
  "u1" :> At(Named("plain", <<5, 3>>))
    @@ "u2" :> [At(Named("plain", <<5, 3>>)) EXCEPT !.target = "/?"]
    @@ "u3" :> At(Named("mixed", <<5, 3>>))
    @@ [word \in {Word(text) : text \in variants} |->
          CHOOSE text \in variants : Word(text) = word]

RedirectTexts ==
  {"u1", "u2", "u3", Word(At(QuadHost(Private4))), Word(At(QuadHost(Public4)))}
-----------------------------------------------------------------------------
(* Queries.                                                                *)
Coded(text) == [text |-> text, encoded |-> TRUE]

Setting(key, value) == <<Plain(key), Plain("="), Plain(value)>>

QueryFields ==
  {Setting(key, "1") : key \in Range(Precedence) \cup {"static", "other"}}
  \cup
  {Setting("url", "u1"), <<>>, <<Plain("url")>>, <<Plain("url"), Plain("=")>>,
   <<Coded("url"), Plain("="), Plain("u2")>>,
   Setting("url", "u1") \o <<Coded("&"), Coded("="), Plain("="), Plain("+")>>,
   <<Plain("url"), Coded("="), Plain("u1")>>,
   Setting("url", "u2") \o <<Plain("%")>>, Setting("url", "u2") \o <<Plain(";")>>,
   Setting("url", "u1") \o <<Coded("NUL")>>, Setting("url", "nowhere"),
   <<Plain("avatar")>>, Setting("avatar", "0"), Setting("avatar", "1") \o <<Coded("1")>>,
   <<Plain("preview"), Plain("="), Coded("1")>>, <<Plain("="), Plain("1")>>}

Joined(fields) ==
  FoldLeft(LAMBDA raw, field : raw \o <<Plain("&")>> \o field, fields[1], Tail(fields))

Queries == {Joined(fields) : fields \in UNION {[1..n -> QueryFields] : n \in 1..3}}

Media(query) == [json |-> "event", path |-> <<Plain("/")>>, query |-> query]

Paths ==
  {<<Plain("/status")>>, <<Coded("/status")>>, <<Plain("/status"), Plain("+")>>,
   <<Plain("/"), Plain("%")>>, <<>>}

Payloads ==
  {Media(query) : query \in Queries}
    \cup {Media(Setting("url", word)) : word \in DOMAIN UrlTexts}
    \cup {[json |-> json, path |-> path, query |-> query] :
            json \in {"invalid", "structure", "event"}, path \in Paths,
            query \in {<<>>, Setting("url", "u1")}}
-----------------------------------------------------------------------------
(* Bodies.                                                                 *)
Signed(signature) ==
  [EmptyBody EXCEPT !.length = 600, !.signature = signature, !.control = TRUE]

Markup(text) ==
  [EmptyBody EXCEPT !.length = 1 + EndOf(text, Len(text)), !.text = text]

Boxed(length, box, brands) ==
  [EmptyBody EXCEPT !.length = length, !.ftyp = TRUE, !.box = box, !.brands = brands, !.control = TRUE]

P(kind, size) == [kind |-> kind, size |-> size]

Leads ==
  {P("bom", 3), P("utf16be", 2), P("space", 1), P("comment", 20), P("comment", 600),
   P("instruction", 20), P("xml", 30)}

Roots == {P("svg", 5), P("unbounded svg", 5), P("html", 6), P("words", 8)}

SampleEdges ==
  {<<P("space", pad), root>> : pad \in {506, 507, 508}, root \in Roots \cup {P("xml", 30)}}
    \cup {<<P("bom", 3), P("comment", pad), P("svg", 5)>> : pad \in {504, 505, 509, 510}}

SniffedBodies ==
  {Signed(s) : s \in DOMAIN Binary \cup DOMAIN Fonts \cup {"none"}}
  \cup {[Signed("png") EXCEPT !.apng = TRUE], [Signed("webp") EXCEPT !.anim = TRUE],
        [Signed("jxl") EXCEPT !.jxl_animation = TRUE], [Signed("none") EXCEPT !.eot = TRUE]}
  \cup {Markup(text) : text \in {<<root>> : root \in Roots} \cup {<<lead>> : lead \in Leads}
                                  \cup {<<lead, root>> : lead \in Leads, root \in Roots}
                                  \cup SampleEdges}
  \cup {Boxed(7000000, box, brands) :
          box \in {0, 8, 16, 20, 24, 256, 65536, 6386541},
          brands \in {<<"avis", "mif1">>, <<"avif", "avis">>, <<"avif", "mif1", "avis">>,
                      <<"mp42", "avis">>, <<"mif1", "miaf">>, <<"avif", "miaf", "miaf">>}}
  \cup {Boxed(length, 16, <<"avif">>) : length \in {12, 15, 16}}
  \cup {[Boxed(7000000, 1112342528, <<"avif", "avis">>) EXCEPT !.signature = "bmp"],
        [Boxed(7000000, 1008807213, <<"avif", "avis">>) EXCEPT !.text = <<P("comment", 600)>>],
        Boxed(7000000, LargeBox, <<"avif", "avis">>)}
  \cup {Boxed(15, 16, <<"avis">>),
        [Boxed(60, 36, <<"avif", "mif1", "miaf", "MA1B", "MA1A", "xxLP">>) EXCEPT !.eot = TRUE]}
-----------------------------------------------------------------------------
(* The instance.  TLC evaluates a constant's replacement at every use, and *)
(* any other constant expression once.                                     *)
MCAddresses == BlockEdges
MCDns == Answers
MCTexts == UrlTexts
MCLocations == RedirectTexts
MCEvents == Payloads
MCBodies == SniffedBodies

(* A single label with its root dot, and nothing else.                     *)
SingleLabelEvents ==
  {Media(Setting("url", Word(At(host)))) :
     host \in {Named("single", <<9>>), Rooted(Named("single", <<9>>)), Rooted(Named("plain", <<5, 3>>))}}

SmallBodies == {Signed("png"), Signed("gif")}
=============================================================================
