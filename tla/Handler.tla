-------------------------------- MODULE Handler --------------------------------
(***************************************************************************)
(* handle_function_url_event (src/src/handler.cpp): one event from its     *)
(* payload to the HTTP response, through the request plan, the URL policy, *)
(* the download, sniffing and conversion.  The download is the abstract    *)
(* OriginFetch that OriginDownload implements; a conversion succeeds or    *)
(* fails as MediaConversion details it.                                    *)
(***************************************************************************)
EXTENDS Query, UrlPolicy, Mime

CONSTANTS
  Events,        \* the payloads considered, see Event
  Texts,         \* the URL each word of a query can begin with
  Locations,     \* the texts origins redirect to
  Dns,           \* the answers (sets of addresses) for a hostname
  Addresses,     \* every address there is
  Bodies,        \* bodies of at least one byte
  MaxRedirects,  \* maximum_origin_redirects
  NoPeer

Event == [json : {"invalid", "structure", "event"},   \* what parse_function_url_event reads
          path : Seq(Token(STRING)), query : Seq(Token(STRING))]

ASSUME HandlerAssumption ==
  /\ Events \subseteq Event
  /\ DOMAIN Texts # {} /\ Range(Texts) \subseteq Text /\ Locations \subseteq DOMAIN Texts
  /\ \A a \in Addresses : IsAddress(a)
  /\ UNION Range(Dns) \subseteq SUBSET Addresses
  /\ Bodies \subseteq {b \in Body : Coherent(b)}
  /\ MaxRedirects \in Nat

EmptyBody ==
  [length |-> 0, signature |-> "none", anim |-> FALSE, apng |-> FALSE,
   jxl_animation |-> FALSE, ftyp |-> FALSE, box |-> 0, brands |-> <<>>, control |-> FALSE,
   eot |-> FALSE, text |-> <<>>]

VARIABLES
  pc,          \* the step that comes next; "done" or "threw" at the end
  event,       \* the payload, until nothing reads it any more
  request,     \* MediaRequest
  trail, server, fetch, bytes,   \* the download, see OriginFetch
  body,        \* downloaded.response.body()
  converted,   \* what convert_media returned
  outcome,     \* HandlerDiagnostics::outcome
  response

fetchVars == <<trail, server, fetch, bytes>>
vars == <<pc, event, request, fetchVars, body, converted, outcome, response>>

Statuses == {200, 302, 404}

PublicAddresses == {a \in Addresses : IsPublic(a)}
AcceptedUrls == {OriginUrl(text) : text \in {t \in Range(Texts) : Accepted(t)}}

Fetch == INSTANCE OriginFetch WITH
  outcome <- fetch, Urls <- AcceptedUrls, Public <- PublicAddresses,
  RedirectStatuses <- {302}, MaxSize <- 1, BodyLimit <- 1

NoRequest == [url |-> <<>>, options |-> SelectMediaOptions(<<>>)]
NoEvent == [json |-> "event", path |-> <<>>, query |-> <<>>]
NoConversion == [error |-> "none", output |-> "none", quality |-> 0]
NoResponse == [status |-> 0, content_type |-> "none", cached |-> FALSE, body |-> NoConversion]

Init ==
  /\ pc = "plan"
  /\ event \in Events
  /\ request = NoRequest
  /\ trail = <<>>
  /\ server = [address |-> NoPeer, status |-> 0, size |-> 0]
  /\ fetch = "none"
  /\ bytes = 0
  /\ body = EmptyBody
  /\ converted = NoConversion
  /\ outcome = "bad_request"
  /\ response = NoResponse
-----------------------------------------------------------------------------
(* Text and JSON responses, none of which is cached.                       *)
Plainly(status, type) ==
  [status |-> status, content_type |-> type, cached |-> FALSE, body |-> NoConversion]

TextResponse(status) == Plainly(status, "text/plain; charset=utf-8")

Respond(result, answer) == pc' = "done" /\ outcome' = result /\ response' = answer

(* parse_function_url_event, then plan_request.                            *)
Path(e) == PercentDecode(e.path, FALSE)
Parses(e) == e.json = "event" /\ Decodes(e.path)
IsStatus(e) == Path(e) = <<"/status">>
SourceUrl(e) == First(ParseQuery(e.query), "url")

BadRequest ==
  /\ pc = "plan"
  /\ Parses(event) => ~IsStatus(event) /\ SourceUrl(event) = <<>>
  /\ Respond("bad_request", TextResponse(400))
  /\ UNCHANGED <<event, request, fetchVars, body, converted>>

Status ==
  /\ pc = "plan"
  /\ Parses(event) /\ IsStatus(event)
  /\ Respond("status", Plainly(200, "application/json"))
  /\ UNCHANGED <<event, request, fetchVars, body, converted>>

PlanMedia ==
  /\ pc = "plan"
  /\ Parses(event) /\ ~IsStatus(event) /\ SourceUrl(event) # <<>>
  /\ request' = [url |-> SourceUrl(event),
                 options |-> SelectMediaOptions(ParseQuery(event.query))]
  /\ pc' = "url"
  /\ UNCHANGED <<event, fetchVars, body, converted, outcome, response>>

(* What the text of the parameter is as a URL.                             *)
UrlText ==
  IF request.url[1] \in DOMAIN Texts
    THEN [Texts[request.url[1]] EXCEPT !.nul = "NUL" \in {request.url[i] : i \in DOMAIN request.url}]
    ELSE [Texts[CHOOSE word \in DOMAIN Texts : TRUE] EXCEPT !.https = FALSE]

AccessDenied ==
  /\ pc = "url"
  /\ ~Accepted(UrlText)
  /\ Respond("access_denied", TextResponse(403))
  /\ UNCHANGED <<event, request, fetchVars, body, converted>>

(* Nothing reads the payload, or the rest of the parsed query, from here.  *)
BeginFetch ==
  /\ pc = "url"
  /\ Accepted(UrlText)
  /\ trail' = <<OriginUrl(UrlText)>>
  /\ fetch' = "fetching"
  /\ event' = NoEvent
  /\ pc' = "fetch"
  /\ UNCHANGED <<request, server, bytes, body, converted, outcome, response>>
-----------------------------------------------------------------------------
(* The addresses of the current URL's host, and who may be dialled.        *)
Current == trail[Len(trail)]

CandidateSets ==
  IF Current.literal_address # {} THEN {Current.literal_address} ELSE Dns[Current.hostname]

Reachable == UNION {answer \in CandidateSets : answer \subseteq PublicAddresses}

Contact ==
  /\ pc = "fetch"
  /\ server' \in [address : Reachable, status : Statuses, size : 0..1]
  /\ Fetch!Contact
  /\ UNCHANGED <<pc, event, request, body, converted, outcome, response>>

Redirect(word) ==
  /\ pc = "fetch"
  /\ Accepted(Texts[word])
  /\ Fetch!Move(OriginUrl(Texts[word]))
  /\ UNCHANGED <<pc, event, request, body, converted, outcome, response>>

(* The download returns the bytes of a body, or an error.                  *)
Deliver ==
  /\ pc = "fetch"
  /\ Fetch!Deliver
  /\ body' \in IF bytes' = 0 THEN {EmptyBody} ELSE Bodies
  /\ pc' = "convert"
  /\ UNCHANGED <<event, request, converted, outcome, response>>

OriginFailure ==
  /\ pc = "fetch"
  /\ Fetch!Fail
  /\ Respond("origin_failure", TextResponse(500))
  /\ UNCHANGED <<event, request, body, converted>>
-----------------------------------------------------------------------------
(* encoding_quality_value.                                                 *)
QualityValue(url_only) == IF url_only THEN 70 ELSE 65

MediaPlan == Plan(body, request.options.force_static, request.options.preset.preferred_output)

(* What convert_media can return: a conversion can always fail.            *)
Conversions ==
  {[error |-> "convert", output |-> "none", quality |-> 0]}
    \cup IF MediaPlan.converts /\ body.length > 0
           THEN {[error |-> "none", output |-> MediaPlan.output,
                  quality |-> QualityValue(request.options.url_only)]}
           ELSE {}

Convert ==
  /\ pc = "convert"
  /\ converted' \in Conversions
  /\ pc' = "respond"
  /\ UNCHANGED <<event, request, fetchVars, body, outcome, response>>

MediaFailure ==
  /\ pc = "respond"
  /\ converted.error # "none"
  /\ Respond("media_failure", TextResponse(400))
  /\ UNCHANGED <<event, request, fetchVars, body, converted>>

(* The label follows the selector, not the body; a wrong handler lets it   *)
(* follow the body.                                                        *)
ContentTypeOfBody == IF converted.output = "avif" THEN "image/avif" ELSE "image/webp"
ContentType ==
  IF request.options.preset.preferred_output = "avif" THEN "image/avif" ELSE "image/webp"

MediaSuccess ==
  /\ pc = "respond"
  /\ converted.error = "none"
  /\ Respond("media_success", [status |-> 200, content_type |-> ContentType, cached |-> TRUE,
                               body |-> converted])
  /\ UNCHANGED <<event, request, fetchVars, body, converted>>

(* std::bad_alloc, anywhere: the runtime loop reports the invocation.      *)
Throw ==
  /\ pc \in {"plan", "url", "fetch", "convert", "respond"}
  /\ pc' = "threw"
  /\ UNCHANGED <<event, request, fetchVars, body, converted, outcome, response>>

Next ==
  \/ BadRequest \/ Status \/ PlanMedia
  \/ AccessDenied \/ BeginFetch
  \/ Contact \/ (\E word \in Locations : Redirect(word)) \/ Deliver \/ OriginFailure
  \/ Convert \/ MediaFailure \/ MediaSuccess
  \/ Throw

Spec == Init /\ [][Next]_vars
-----------------------------------------------------------------------------
(* The query by positions, without a parser: a field is a stretch between  *)
(* two "&" that are not encoded, a good one is not empty and has no plain  *)
(* ";" and no bad escape.                                                  *)
Stretches(raw) ==
  {ab \in (1..Len(raw)) \X (1..Len(raw)) :
     /\ ab[1] <= ab[2]
     /\ \A i \in ab[1]..ab[2] : raw[i] # Plain("&")
     /\ ab[1] > 1 => raw[ab[1] - 1] = Plain("&")
     /\ ab[2] < Len(raw) => raw[ab[2] + 1] = Plain("&")}

Good(raw) ==
  {ab \in Stretches(raw) : \A i \in ab[1]..ab[2] : raw[i] \notin {Plain(";"), Plain("%")}}

(* The field gives a value to the key: the key alone, or with "=" after it.*)
Names(raw, ab, key) ==
  raw[ab[1]].text = key /\ (ab[1] = ab[2] \/ raw[ab[1] + 1] = Plain("="))

Decisive(raw, key) ==
  {ab \in Good(raw) : Names(raw, ab, key)
                        /\ \A cd \in Good(raw) : Names(raw, cd, key) => ab[1] <= cd[1]}

On(raw, key) ==
  \E ab \in Decisive(raw, key) : ab[2] = ab[1] + 2 /\ raw[ab[2]].text = "1"

(* The URL is the value of the field that decides it, which is not empty.  *)
Gives(raw) == {ab \in Decisive(raw, "url") : ab[2] > ab[1] + 1}

UrlRead(raw, url) ==
  \E ab \in Gives(raw) :
    /\ Len(url) = ab[2] - ab[1] - 1
    /\ \A i \in DOMAIN url :
         LET token == raw[ab[1] + 1 + i]
         IN url[i] = IF token = Plain("+") THEN " " ELSE token.text

(* The preset is the first in precedence that a "1" selects.               *)
Selectors(raw) == {s \in DOMAIN Presets : On(raw, s)}

PresetRead(raw, preset) ==
  /\ Selectors(raw) = {} =>
       preset = [width_limit |-> 3200, height_limit |-> 3200, preferred_output |-> "webp"]
  /\ Selectors(raw) # {} =>
       \E i \in DOMAIN Precedence :
         /\ Precedence[i] \in Selectors(raw)
         /\ \A j \in 1..(i - 1) : Precedence[j] \notin Selectors(raw)
         /\ preset = Presets[Precedence[i]]

UrlAlone(raw) == \E ab \in Good(raw) : Good(raw) = {ab} /\ Names(raw, ab, "url")

(* The URL and the options of a request are those the fields of the query  *)
(* give: the first good field decides, and only a plain separator separates*)
(* (so a URL keeps its own "&" and "=" if they are encoded).  A payload is *)
(* refused only when it is no event, its path does not decode or no good   *)
(* field gives it a URL.                                                   *)
QueryReadsFields ==
  /\ pc = "url" =>
       /\ UrlRead(event.query, request.url)
       /\ PresetRead(event.query, request.options.preset)
       /\ request.options.force_static <=> On(event.query, "static")
       /\ request.options.url_only <=> UrlAlone(event.query)
  /\ pc = "done" /\ outcome = "bad_request" =>
       \/ event.json # "event"
       \/ Plain("%") \in {event.path[i] : i \in DOMAIN event.path}
       \/ Gives(event.query) = {}

(* Address blocks that are not routable on the Internet, first and last.   *)
Fill(first, n, byte) == [i \in 1..n |-> IF i <= Len(first) THEN first[i] ELSE byte]

Block(family, first, last) ==
  LET n == IF family = "ipv4" THEN 4 ELSE 16
  IN [family |-> family, first |-> Fill(first, n, 0), last |-> Fill(last, n, 255)]

Ends4 ==
  {<<<<0>>, <<0>>>>, <<<<10>>, <<10>>>>, <<<<100, 64>>, <<100, 127>>>>, <<<<127>>, <<127>>>>,
   <<<<169, 254>>, <<169, 254>>>>, <<<<172, 16>>, <<172, 31>>>>,
   <<<<192, 0, 0>>, <<192, 0, 0>>>>, <<<<192, 0, 2>>, <<192, 0, 2>>>>,
   <<<<192, 88, 99>>, <<192, 88, 99>>>>, <<<<192, 168>>, <<192, 168>>>>,
   <<<<198, 18>>, <<198, 19>>>>, <<<<198, 51, 100>>, <<198, 51, 100>>>>,
   <<<<203, 0, 113>>, <<203, 0, 113>>>>, <<<<224>>, <<255>>>>}

Ends6 ==
  {<<<<0>>, <<31>>>>, <<<<64>>, <<255>>>>, <<<<32, 1, 0>>, <<32, 1, 1>>>>,
   <<<<32, 1, 13, 184>>, <<32, 1, 13, 184>>>>, <<<<32, 2>>, <<32, 2>>>>,
   <<<<63, 255, 0>>, <<63, 255, 15>>>>}

Reserved ==
  {Block("ipv4", ends[1], ends[2]) : ends \in Ends4}
    \cup {Block("ipv6", ends[1], ends[2]) : ends \in Ends6}

(* The order of addresses, byte by byte.                                   *)
AtMost(a, b) ==
  a = b \/ \E i \in DOMAIN a : a[i] < b[i] /\ \A j \in 1..(i - 1) : a[j] = b[j]

InReserved(a) ==
  \E block \in Reserved :
    a.family = block.family /\ AtMost(block.first, a.bytes) /\ AtMost(a.bytes, block.last)

(* Whatever URLs a download is given or sent on to, it talks to addresses  *)
(* outside the reserved blocks, that the current URL's host was resolved to*)
(* or spells; and a URL with an address for a host is refused only because *)
(* of its other parts, or because that address is reserved.                *)
PeersAreRoutable ==
  /\ server.address # NoPeer =>
       /\ ~InReserved(server.address)
       /\ \E answer \in CandidateSets : server.address \in answer
  /\ outcome = "access_denied" =>
       (UrlError(UrlText) = "forbidden_address" <=>
          /\ UrlError([UrlText EXCEPT !.host.quad = {}]) = "none"
          /\ \E a \in Literal(UrlText.host) : InReserved(a))

(* The DNS wire form: Wire(labels)[i] is the root label at the end with the*)
(* first i labels, each behind a length byte.                              *)
Wire(labels) ==
  LET sum[i \in 0..Len(labels)] == IF i = 0 THEN 1 ELSE sum[i - 1] + (1 + labels[i].size)
  IN sum

FitsLabel(label) ==
  label.size > 0 /\ label.size < 64 /\ label.ascii /\ label.hyphens \notin {"edge", "third"}

FitsTheWire(host) ==
  /\ host.size > 0 /\ host.size <= 4096 /\ host.converts /\ ~host.colon
  /\ Wire(host.labels)[Len(host.labels)] <= 255
  /\ \A i \in DOMAIN host.labels : FitsLabel(host.labels[i])
  /\ host.dot \/ Len(host.labels) # 1

(* A hostname is refused exactly if it is empty or longer than 4096 bytes, *)
(* does not convert or has no DNS wire form of at most 255 bytes, or has a *)
(* label that is no label, or is one label without a dot.                  *)
HostnamesFitTheWire ==
  pc \in {"fetch", "done"} /\ request.url # <<>> =>
    /\ trail # <<>> => FitsTheWire(UrlText.host)
    /\ outcome = "access_denied" /\ UrlError(UrlText) = "invalid_hostname" =>
         ~FitsTheWire(UrlText.host) \/ ~UrlText.authority

(* SPECIFICATION.md section 3.1 on the dot: "This rejects single-label     *)
(* names".                                                                 *)
NoSingleLabels == trail # <<>> => Len(UrlText.host.labels) > 1

(* Every way an event can end has its own response: the status tells the   *)
(* stage, only a converted body is cached and has an image type, and that  *)
(* type differs from the body's format only for an animation, which is     *)
(* always WebP, under a selector that prefers AVIF.  The quality is the    *)
(* higher one exactly if the query had nothing but a URL.                  *)
AnswersTheTable ==
  pc = "done" =>
    /\ response.status = CASE outcome \in {"status", "media_success"} -> 200
                            [] outcome \in {"bad_request", "media_failure"} -> 400
                            [] outcome = "access_denied" -> 403
                            [] outcome = "origin_failure" -> 500
    /\ outcome \in {"status", "bad_request", "access_denied"} <=> trail = <<>>
    /\ outcome \in {"media_success", "media_failure"} <=> fetch = "delivered"
    /\ response.cached <=> outcome = "media_success"
    /\ outcome = "media_success" =>
         LET preferred == request.options.preset.preferred_output
             formats == [avif |-> "image/avif", webp |-> "image/webp"]
         IN /\ response.content_type = formats[preferred]
            /\ response.body.output # preferred =>
                 /\ response.body.output = "webp"
                 /\ body.apng \/ ~request.options.force_static
                 /\ body.apng \/ body.anim \/ body.jxl_animation \/ body.signature = "gif"
                      \/ "avis" \in {body.brands[i] : i \in DOMAIN body.brands}
            /\ response.body.quality = IF request.options.url_only THEN 70 ELSE 65

(* An AVIF image is known as one although its first bytes are the size of a*)
(* box, which can look like another signature: a sequence always, a still  *)
(* unless its "ftyp" box is 256, 65536 or 6386541 bytes long, has a brand  *)
(* that ends in "LP" at 34 or says that it is larger than any body.  And an*)
(* SVG is known exactly if nothing but a BOM, spaces and complete comments *)
(* and instructions come before its root tag, and that tag is complete in  *)
(* the first 512 bytes.                                                    *)
SniffsAsSpecified ==
  pc = "convert" =>
    LET sequence == /\ body.ftyp /\ body.box >= 16 /\ body.length >= body.box
                    /\ \E k \in DOMAIN body.brands :
                         body.brands[k] = "avis" /\ (k = 1 \/ 8 + 4 * k <= body.box - 4)
        still == /\ body.ftyp /\ body.length >= 12 /\ body.brands[1] = "avif"
                 /\ body.box \notin {256, 65536, 6386541} /\ ~body.eot
        svg == \E i \in DOMAIN body.text :
                 /\ body.text[i].kind = "svg"
                 /\ \A j \in 1..(i - 1) :
                      body.text[j].kind \in {"space", "comment", "instruction", "xml"}
                        \/ (j = 1 /\ body.text[j].kind = "bom")
                 /\ EndOf(body.text, i) <= 512
    IN /\ sequence => SniffMime(body) = "image/avif"
       /\ ~body.ftyp \/ body.box < LargeBox => (SniffMime(body) = "image/avif" <=> sequence \/ still)
       /\ SniffMime(body) = "image/svg+xml" <=> svg
=============================================================================
