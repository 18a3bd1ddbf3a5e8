# media-proxy-lambda in TLA+

A TLA+ model of the media proxy, its model-checking configurations and machine-checked proofs.
The program is a custom AWS Lambda runtime in C++: it polls the Runtime API for an invocation,
downloads the image its query names over a guarded HTTPS client, converts the image with libvips
and codec libraries, and streams the result back. Every definition is translated from the source
(paths below are relative to the repository, `src/src/...` being its `src/` directory); the
libraries and services around it (libcurl, libvips, the resolver, origins, the Lambda Runtime API)
are modelled by what the code relies on and are marked external.

## 1. The system

| Part | State it keeps | Operations | Talks to |
|---|---|---|---|
| Runtime loop: `bootstrap.cpp`, `runtime/invocation.cpp`, `runtime/client.cpp` | the current invocation, `_X_AMZN_TRACE_ID` | poll, set the trace, handle, submit a response or an error, exit | Runtime API; request handler |
| Response streaming: `runtime/streaming.cpp`, `runtime/socket_transport.cpp` | a socket, the offset in the body | write head, metadata, chunks, last chunk; half close; read the acknowledgement | Runtime API |
| `/next` parser: `runtime/next_response.cpp` | a header buffer, the event, a status | feed a fragment | the socket |
| Request handler: `handler.cpp`, `http/event.cpp`, `query.cpp`, `percent_decode.hpp`, `request_plan.cpp`, `response.cpp` | none between requests; owns the downloaded body during one | parse, plan, download, convert, respond | download; conversion |
| URL policy: `http/url_policy.cpp`, `idna.cpp`, `address_policy.cpp` | none | accept or refuse a URL, a hostname, an address | libcurl's URL parser, ada's IDNA |
| Origin download: `http/origin_download.cpp`, `origin_curl.cpp`, `curl_resolve_pin.cpp`, `runtime/deadline.cpp` | per hop a handle, a pin and an accumulator; the result | one hop; follow or finish | DNS, libcurl (which calls back) |
| DNS policy: `http/dns_resolver.cpp`, `dns_policy.cpp` | none | resolve, validate a whole answer | getaddrinfo |
| Redirect tracker: `http/redirect_policy.cpp` | the visited URLs, the count | follow a Location | URL policy |
| Response accumulator: `http/origin_response.cpp` | first error, last Location, body | header line, body bytes, finish | libcurl's callbacks |
| Sniffing: `media/mime.cpp`, `classification.cpp` | none | type, animated or not | libjxl |
| Conversion: `media/conversion.cpp`, `static_conversion.cpp` | libvips's cache and error buffer, process wide; the owner of decoded pixels | load with fallbacks, resize, encode, reset | libvips, libheif, libjxl, resvg |
| SVG shim: `rust/resvg-shim/src/lib.rs` | two counters for one document | validate, resolve a data URL, render | usvg, resvg |
| APNG: `media/apng.cpp`, `apng_decoder.cpp`, `apng_compositor.cpp`, `apng_conversion.cpp` | parser counters and flags; canvas and timestamp | parse, collect, decode, compose, add | libpng, libwebp |
| Animated AVIF and JXL: `media/animated_conversion.cpp`, `avif_alpha.cpp` | frame count, timestamp, two decoders | a frame, an alpha frame, the end | libheif, libjxl, libwebp |
| Geometry: `media/resize.cpp` | none | validate, choose a target | the conversions |
| Start-up checks, CA bundle, logging | none that later steps read | straight-line code | |

One process runs one invocation at a time; there are no threads of its own. What makes it hard is
everything around it. Origins and resolvers answer whatever they like, in any order and at any
speed, through callbacks whose return values steer libcurl. Sockets take and give any number of
bytes and break at any point, with no timeout, and the one message that matters must not be sent
twice. The process lives on between requests while libvips remembers buffers by address. And
several parsers walk the same untrusted bytes twice with separate state. For each part, what makes
it correct:

* the loop: one submission for each invocation, an end for each, and no environment carried over;
* the stream: the API never mistakes a part for the whole, and success is only what it accepted;
* the parser: fragmentation is invisible, and nothing incomplete is returned;
* the download: public peers only, a bounded trail, time left for the answer, whole bodies, and
  hops that do not see one another;
* the handler: the query means what its text says, every way to end has its own response, and the
  label fits the body up to the one exception the documents make;
* the URL policy: no address of a reserved block, whatever names or spells it, and no hostname DNS
  cannot carry;
* sniffing: the type does not depend on accidents of the first bytes;
* the conversion: no image of another request, however addresses recur; no pixels read after they
  are released, none leaked; a search or a budget that one bad member does not upset;
* the APNG passes: exactly the grammar, each frame with its own data, the canvas by the rules;
* the animation loops: exact caps, alpha in step, an honest timeline;
* the geometry: nothing grows, nothing is distorted, a limit that can be met is met.

## 2. Modules

**Origin download.** `OriginUrl` declares URLs and the classes of a Location; `DnsResolver`,
`OriginResponse` and `RedirectTracker` are the three helpers as operators on values;
`OriginDownload` EXTENDS them and is the state machine. `pc` is the place in
`perform_origin_request` or its caller: `BeginHop` is the first deadline check with its fresh
result, `Resolve` getaddrinfo and the policy, `Setup` the pin, the handle, the second deadline check
and the options, `Connect`/`HeaderLine`/`BodyBytes`/`TransferEnds` libcurl and its two callbacks,
and `TransferFailed`, `ResponseInfoFails`, `Finish`, `RedirectRefused`, `Follow` what the code
makes of the end. `visited`, `redirects`, `pin`, `resp` and `result` are the program's; `peer`,
`origin`, `offered`, `announced` and `now` are the world's. `OriginFetch` is the abstract promise:
a trail of distinct URLs, a public server for each, one outcome.

**Runtime.** `RuntimeLoop` is `main`'s loop with `execute_invocation` and the client's requests,
against an API that records each invocation; `Killed` and `Restart` end and replace the process
anywhere. `InvocationService` is what the loop promises. `ResponseStream` opens up one submission,
symbol by symbol: `calls` is the list of buffers still to go through `send`, `Send(k)` takes any
part of the first one, `peer` is a decoder of chunked framing at the API, and the connection may
break (`usable`). `Submission` is the three-state request that `RuntimeLoop` uses, and
`ResponseStream` implements it, so the two fit together. `NextResponse` is the parser: `FeedHeader`,
`HeaderLine`, `HeadersEnd` and `FeedEvent` are `feed` with `parse_headers` and `append_event`.

**Request.** `Handler` is `handle_function_url_event` from payload to response. `Query` (`parse_query` over
`percent_decode`, `select_media_options`), `UrlPolicy` with `AddressPolicy` (`validate_origin_url`,
`normalize_hostname`, the address tables) and `Mime` (`sniff_mime`, `classify_media`) are operators it
EXTENDS; `plan`, `url`, `fetch`, `convert` and `respond` are its places between them, each early return an action
of its own (`BadRequest`, `AccessDenied`, `OriginFailure`, `MediaFailure`), and `Throw` an exception anywhere.
The download is `OriginFetch`, the module that `OriginDownload` is proved to implement, with the
accepted URLs and the public addresses of `UrlPolicy` and `AddressPolicy` in place of its constants;
so the promise "public peers only" is composed of the refinement below and the tables above it.

**Media.** `MediaConversion` runs conversions one after another in a heap whose addresses are reused,
with libvips's cache; `LoadOpens`/`LoadFails` are the attempts of `load_image`, `Throw` is
`std::bad_alloc` anywhere, `Leave` the destructor `RequestStateReset`, `Release` the handler dropping
the body. `RasterConversion` is one image in full: `Open` to `OpensNothing` are `load_image`, `ReadDirectory`,
`TryEntry` and `EntriesEnd` the loop of `load_ico_fallback`, `DecodeFrame` to `FrameFails` the AVIF frame whose
owner changes twice (`owners`, `releases`), `BeginJxl` to `JxlFails` the event loop of libjxl,
`ParseDocument`, `ResolveData` and `Render` the SVG shim, and `ReadPages` to `Encode` what all loads share,
with `Resize`, the geometry in exact fractions, as an instance. `ApngStream` has the parser (`Parse...`,
`Reject`) and the collector of the decoder (`Collect...`) over the same list of chunks;
`ApngCanvas` the composition, a pixel being the sequence of frames that show in it, and the start
times; `ApngConversion` runs the one and then the other, as `convert_apng_to_webp` does. `AnimatedFrames` is the frame loops of AVIF (with its alpha track) and of JXL.

Each `MC*` module extends one of these with the values of its run. Definitions that no action uses
and that a comment calls wrong (`LoopsToCurrent`, `AnyReplyIsSuccess`, ...) are plausible bugs of
the definition they stand next to; each property is known to fail when one of them takes its place.

## 3. Runs

| Run | Checks | What it shows |
|---|---|---|
| `origin_download` | PublicPeersOnly, TransferWithinBudget, DeliveredBody, HopIsolation, ImplementsFetch, Termination | downloads over four URLs on three hosts keep to public peers, the limit, the budget and one hop at a time, and end |
| `runtime_loop` | OneSubmission, SettledBeforePoll, TraceIsCurrent, EventuallySettled, ImplementsService | three invocations with breaks, kills and restarts |
| `response_stream` | CompleteIsWhole, NeverMalformed, AcknowledgedIsAccepted, Decided, ImplementsSubmission | partial sends and breaks never make a part look whole; writer and reader do not deadlock |
| `response_stream_trailers` | FailureDeclared (violated) | a failure after the head is not declared in trailers, see section 6 |
| `next_response` | EventIsPrefix, InvocationIsWhole, GoodAnswerAccepted | every fragmentation of every small answer |
| `handler` | QueryReadsFields, PeersAreRoutable, HostnamesFitTheWire, AnswersTheTable, SniffsAsSpecified | an event from payload to response |
| `single_label` | NoSingleLabels (violated) | one label and a root dot pass for a hostname, see section 6 |
| `raster_conversion` | NeverUpscales, OneLimitMet, AspectKept, WholePageShown, FirstOpeningEntry, EmbeddedWithinBudget, PixelsBehindTheImage | one image through every load, every failure and the geometry |
| `resize_width` | WidthLimitMet (violated) | a flat animation stays too wide, see section 6 |
| `apng_conversion` | ParsesTheGrammar, FramesGetTheirData, DisplayedLayers, Timeline | every chunk sequence of up to eight, cut at the first bad chunk, and every one to three frames |
| `animated_frames` | CapsAreExact, AlphaInStep, StartTimes | the frame loops of both formats at their caps |
| `media_conversion` | CacheIsAlive, OwnImage | conversions at reused addresses, exceptions included |

Many properties compare the implementation with a definition made another way:
`ParsesTheGrammar` with counts over the whole file, `DisplayedLayers` with a formula over frames and
pixels, `StartTimes` with the exact time of each frame, `QueryReadsFields` with positions in the raw text (a field is a stretch
between two plain "&", with no parser at work), `PeersAreRoutable` with intervals of addresses where the
code has prefixes under masks, `HostnamesFitTheWire` with the size of the DNS wire form where the code
counts characters, `SniffsAsSpecified` with what the bytes are where the code has an order of
precedence, `WholePageShown` with a product of pages and rows where it divides, `EmbeddedWithinBudget` with sums over a prefix of the URLs where the code has counters.
The type invariants are not run: those of `OriginDownload`, `RuntimeLoop`, `MediaConversion`, `ResponseStream`,
`NextResponse`, `RasterConversion`, `AnimatedFrames`, `ApngConversion` and `Handler` are proved instead, as conjuncts of the inductive
invariants of section 4.

### Bounds

* `origin_download`: two redirects over four URLs, so a chain can loop to its start or to its middle, hit the limit,
  and share a host with an earlier hop; answers are empty, public, mixed with a private address,
  malformed, and too long; `BodyLimit` 1 and `MaxSize` 2, so bodies end below, at and above the
  limit; the deadline is three ticks and the reserve one, so every check can pass or fail on its own.
* `runtime_loop`: three invocations, so one can be open, one settled and one queued. A counter of
  submissions needs no bound, since the property holds it at 1.
* `response_stream`: a chunk of two bytes and bodies of up to five (no, full, partial last chunk),
  a kernel buffer (`WireCap`) smaller than most writes, replies on both sides of the cap.
* `next_response`: header cap 3 and event cap 2 with answers one larger than each, reads larger
  than both; six lines, one more than a status line and the four required fields.
* `handler`: queries of up to three of 23 fields (selectors, values that are not "1", encoded separators,
  bad escapes, ";", empty fields, a key without a value); every first and last address of a reserved
  block and the addresses next to them, as literals and as answers; hostnames of 253 and 254 bytes
  with and without the root dot, labels of 63 and 64, 4096 and 4097 bytes before conversion, empty
  labels in the middle and at the end; URLs with every mixture of the other features; bodies for every
  signature, for every two pieces of markup and for pieces that end one byte before, at and behind the
  512th, and boxes whose size is another signature, or 0. One redirect: longer chains are the subject of
  `origin_download`. Literal addresses appear in decimal with four numbers, other notations are libcurl's.
* `raster_conversion`: caps 14 by 12, lengths from -1 to 15, one to three pages and 0, metadata that agrees,
  disagrees or is absent, limits with 0 (none), a limit of 1, and pairs that disagree about which excess
  is larger: all branches and both roundings occur. Directories with room for up to three entries of six kinds that
  count fewer, all and more of them; frames with a stride too short, packed, padded, crooked and 0,
  and frames with a side of 0; an SVG of up to four data
  URLs under a cap of three URLs and three bytes, so each cap is met by one, passed by one, and passed by
  a sum.
* `resize_width`: one strip of 7 by 1.
* `apng_conversion`: eight chunks hold a fallback image and two frames, or three frames, with one chunk
  too many of any kind. The parser stops at the first error, so longer rejected files add nothing. Three
  frames and two pixels are enough for a disposal under a later blend inside and outside a
  rectangle; pixels are symmetric. Delays are fractions that truncate, and three of them pass the
  largest timestamp. A frame's content does not depend on its file here: any decoded frame may come of
  any data.
* `animated_frames`: three frames allowed, or two by their pixels; clocks that divide a millisecond
  and that do not; durations of 0, of under a millisecond, and too long for the timeline.
* `media_conversion`: two addresses (symmetric) and eleven bodies, one for every path; the process
  runs for ever, so there is no bound on the number of requests, and deadlock is checked.

Deadlock is not checked where the modelled operation ends (a download, a stream, a file); it is
checked in `runtime_loop`'s terms by `EventuallySettled`, and directly in `media_conversion`.

### Fairness

`OriginDownload!FairSpec`: the client is sequential code that runs on, getaddrinfo returns, the clock
moves, and libcurl returns once its own timeout has passed or a callback stopped it. Nothing is
assumed of the origin, so it may send headers for ever. `RuntimeLoop!FairSpec`: the process takes its
own steps, the handler comes back (`Termination` is why the download does), the API answers a
request it has received whole, and the service restarts a dead process. It is not assumed that
`/next` delivers anything. `ResponseStream!FairSpec`: the client calls `send` and `recv` in a loop and
the API reads and answers. The sockets have no timeout, so without a fair API there is no such
property, and `Decided` is stated under it.

## 4. Proofs

TLAPS checks the proofs for every value of the constants, under the `ASSUME`s the modules declare (each
evaluated by TLC on the runs).

* `OriginDownloadProofs`: `TypeCorrect`; `Safety`, the inductive invariant `IInv`; from it
  `PeersArePublic`, `TrailIsBounded`, `ReserveIsKept`, `BodyIsComplete`, `HopsAreIsolated`; and
  `Refinement`, that `OriginDownload` implements `OriginFetch`. None of the properties is inductive.
  `PublicPeersOnly` needs that the pin always holds public addresses and is for the current URL
  while a transfer runs; `DeliveredBody` needs how `resp.body` follows `offered` in each of the two
  ways a transfer ends, and that an error-free accumulator whose short count stopped libcurl is
  exactly full. `StageInv` states this stage by stage. The refinement uses `IInv` to see that
  `Follow` only leaves redirects and that a delivered body has the length the abstract step gives
  it. Assumed: URLs, hosts and answers are well typed, literal addresses are public (the URL policy
  rejects the rest), the classes of a Location are not URLs.
* `RuntimeLoopProofs`: `LoopSafety` (`IInv`), `AtMostOneSubmission`, `PollsWhenSettled`,
  `HandlerTrace`, and `LoopRefinement` (implements `InvocationService`). `CurrentInv` says that only the
  current invocation can be in flight and what the reply tells about it; `SubmissionInv` that the
  counter is 0 until the first byte of the only submission. Assumed: each invocation has a trace id.
* `ConversionProofs`: of `MediaConversion`, `CachedLoadsAreAlive` and `RequestsShowTheirOwnImage`, for any addresses
  and bodies. `CacheIsAlive` is not inductive on its own: `CachedFromBody` (whatever is cached was
  decoded from the current request's body) and `EmptyBetweenRequests` are, and they are what the destructor
  on every path establishes. Assumed: bodies are told apart by their number.

  Of `ApngConversion`, `ApngTypeCorrect`, `TheGrammarIsParsed`, `FramesHaveTheirData`, `LayersAreShown`
  and `StartsAreSums`, for files and animations of any length on any canvas, from one
  invariant for each stage.
  - `CanvasInv`. `DisplayedLayers` speaks of what is shown, the next frame is drawn on what is left after
    disposal. `GroundInv` says of each pixel of the canvas that it holds, in order, the frames that have colour
    there, were kept, and were not buried by a later one; a blend puts one frame on top or begins anew, a disposal
    takes back or empties, and each is one lemma about `Stacked`. The start times compare the accumulated
    `timestamp` with `Due`, a recursive function; that such a sum exists (`SumsExist`) is the one induction,
    made as the descent from a least counterexample (`Least`).
  - `StreamInv`. `Sound` is a property of a whole file. `SoundMore` brings it down to a chunk: a sound file and one
    more chunk are sound exactly if the chunk `Fits`; `AcceptedFits` says the parser's checks amount to
    that, given `ParsedInv`, which reads every counter and flag of the parser off the file; and `CompleteIsWhole` that the
    checks at the end are those of a whole file. For the second pass, `Counted` and `Collected` say which
    chunks lie before the offset and where their data went. That it stays within the frames counted is the number of
    frame controls behind the offset, which the first pass knows.
  - `HandedOver`: nothing goes from one stage to the next but frames, so the two invariants compose.
  Assumed: chunks and frames are well typed, and the bounds are natural numbers (`ApngAssumption`).

* `ResponseStreamProofs`: `TypeCorrect`, `WholeMessages`, `StreamsWellFormed`, `SuccessIsAcceptance`, and
  `Refinement` (implements `Submission`), for every body, chunk size, socket buffer and reply. The three safety
  properties speak of the API's decoder, which lags behind the writer by whatever is in flight. `StreamInv`
  closes that gap: the bytes still to come, in the connection and in `calls`, would lead the
  decoder from where it is to where the writer believes the stream to be at this stage. A send moves bytes from one
  part of that string to the other and a take moves the decoder along it, so neither changes the end.
* `NextResponseProofs`: `TypeCorrect`, `FragmentsDoNotMatter`, `InvocationsAreWhole`, `GoodAnswersPass`, for every
  answer, both caps and every fragmentation. Whatever the parser holds, in the header buffer and in the event,
  is one run of consecutive positions that ends at what was received; and a field counts as present exactly when
  one of the lines accepted so far carries it.
* `RasterConversionProofs`: `TypeCorrect`, with the two counters of the data URLs within their caps;
  `NothingIsEnlarged`, `ALimitIsMet`, `AspectIsKept`; `OneWholePage` for any page metadata; `FirstEntryShown` for directories of any length;
  `EmbeddingIsFair` for any data URLs; and `PixelsAreOwned`. The geometry rests on `RoundedIsNear`, that a rounded quotient is within half a divisor
  of the exact one, and on what `Validate` leaves standing. `OwnerInv` names the owners and the bytes behind the frame
  stage by stage; `PageInv` says that the dimensions which are validated
  come of an image in whole pages (`Divides` ties the code's remainder and quotient to the product of pages and rows), and
  `EntryInv` that every entry passed over was of no use. `SvgInv` holds the budget between two sums over
  the URLs read so far, of what was embedded and of what could have been charged, so that a URL that fits together
  with the latter is always affordable. Assumed: files are well typed and
  limits are pairs of natural numbers.
* `AnimatedFramesProofs`: `TypeCorrect`, `CapsHold`, `AlphaStaysInStep`, `TimelineIsExact`, for all caps, clocks
  and durations. The two formats compute durations differently, AVIF by one division and JXL by whole seconds first
  and then the rest; both are reduced to one quotient with its rest (`QuotientIs`, `DurationIsExact`), and `TooLongIsReal` shows that the early refusal of a
  long JXL frame is always of one that leaves the timeline.

* `HandlerProofs`: `PublicIsUnreserved`, that the address tables and the reserved intervals are the same set of
  addresses, for all 2^32 and all 2^128 of them; `TypeCorrectness`; `PeersRoutable` and `TableAnswered`, for all
  events, URL texts, answers and bodies. The first goes through a third form, conditions on the first four
  bytes (`Special4`, `Special6`): `PrefixesOf4` and `PrefixesOf6` reduce every mask to it, and `InBlock` every interval,
  since two ends that share all but their last given byte bound exactly that byte. That the byte-wise
  order needs no witness (`AtMostIs`) is a least counterexample (`Least`). `PeerInv` is the part of the inductive invariant that
  a step could break: the server belongs to the current URL, which a redirect replaces together with it.
  `HostnamesFit`, for hostnames of any number of labels: the wire form has one byte more for every label
  and one for the root (`WireIs`), so that the limits of 253 and 254 characters are both its 255 bytes (`WireLimit`); `UrlInv` says
  that a download runs only for an accepted URL. `SniffedRight`, for bodies with any box, brands and markup:
  `SvgIsFound` compares the scanner's first piece that it does not skip with a description of the text, `SniffedAvif`
  takes the order of precedence apart. The sums behind both, of labels and of pieces, are recursive functions;
  that such a function exists (`SumsExist`, `SumIs`) and that there is only one (`SumsAgree`)
  is a least counterexample each. `FieldsAreRead`, for queries of any number of fields: `ParseReads` says that after every turn of the
  loop the parameters are those of the good stretches before the next field, in order (`ReadsOn` is the step, `StretchFields` says
  that the fields are the stretches), `ParameterIs` that a parameter has a key exactly if its stretch names it, and `FirstIs`,
  `PresetIs` and `UrlOnlyIs` take the first match in a list to the decisive stretch of the text. `PlanInv` ties the request to the payload it
  was planned from. Assumed: at least
  one text, all of them well typed, answers of addresses, and bodies whose fields come from the same bytes
  (`Coherent`: what begins with the signature of an image, or with the zero byte of a box below 2^24, does not begin with markup; none is larger
  than `maximum_origin_body_bytes`).

Only model-checked: the liveness properties (`Termination`, `EventuallySettled`, `Decided`), which are
beyond this prover. Every safety invariant and action property of the passing runs is a theorem.

## 5. Abstractions

* Bytes are counted, or are positions, or symbols of the framing; text is the class of what the code
  does with it (a header line, a Location, a chunk). Pixels are the frames they come from.
* Time is a small clock. The two readings of the remaining time are separate steps, which is what
  matters; the resolution is not.
* Memory runs out where the code handles it: in the accumulator, as a handler's exception, and in
  `MediaConversion!Throw`. `RuntimeLoop` treats a submission that throws as one that fails, since
  `main` has no handler there and the process ends either way.
* `Rounded` in `Resize` returns both neighbours at a tie, which doubles may decide either way.
* A query is a sequence of tokens, each written plainly or percent-encoded; a URL, a hostname and a body
  are records of the answers the code gets when it looks at them (does libcurl parse it, how long
  is a label, which signature begins it, how large does its box claim to be).
* What a library makes of a file is part of the file in `RasterConversion`; that a library operation may fail
  although the file is good is an action (`FrameFails`, `JxlFails`, `SvgFails`, `EncodeFails`). Of an ICO
  directory the code takes the first entry that libvips *opens*: opening is lazy, so a later failure
  to decode is a failed conversion, not a further entry.
* `ApngStream` follows which chunks a frame is made of, not what is in them: the frames that `ApngConversion` draws
  are any frames, as many as the parsed file has. That covers every file, and more than every file.
* A load that fails leaves nothing in the cache of `MediaConversion`, since libvips remembers operations that
  were built.
* Between the second reading of the remaining time and the start of curl `OriginDownload` lets no time pass: a
  transfer can exceed the budget by what these lines take to run, but none of them waits.
* Images inside an embedded SVG are not resolved by usvg, so data URLs do not nest.
* TLC evaluates the replacement of a constant at each use, which is why the values in `MCHandler` have
  names of their own (`UrlTexts`, `Payloads`, ...): those are evaluated once.

### Not modelled

The start-up checks of `bootstrap.cpp` (lines 90-206) and the CA bundle compare versions or load a file and
exit 1 before the loop: a straight line without state. `logging.cpp` formats records nothing reads back.
`download_origin_once` and `write_streaming_error` have no caller in the program. Colour arithmetic, the plane
layout of the AVIF alpha and the import of a scaled frame into its WebP picture are computations on pixels
whose result no control depends on. The renderer, the fonts and the status codes of the SVG shim are
external or collapse to one failure.

## 6. Where code and documents differ

* `SPECIFICATION.md` section 9 (lines 690-691) says a failure after streaming begins uses the declared trailers.
  `send_response_on` (`runtime/client.cpp:106-113`) never calls `write_streaming_error`: on a failure in the
  middle it stops, and the API sees the end of the stream. `FailureDeclared` is violated.
  (`NeverMalformed` and `CompleteIsWhole` hold: the cut is always visible.)
* `SPECIFICATION.md` lines 130-132 want a hostname with at least one dot and add that this rejects
  single-label names; `tests/vectors/url-policy.json` line 10 has `https://localhost/` for it. The dot that
  `validate_origin_url` (`http/url_policy.cpp:107`) finds may be the root's: `https://localhost./` passes, and
  `NoSingleLabels` is violated. What the name resolves to is judged as ever (`PeersAreRoutable` holds).
* `SPECIFICATION.md` section 7.3, step 4, gives every animation wider than the width limit the width of
  the limit. `animated_resize_target` (`media/resize.cpp:80-83`) gives the resize up when the rounded height
  is 0, so an animation of 700 by 1 is not narrowed to 200. `WidthLimitMet` is violated.

## 7. Plan

Done: the modules above, in the order download, runtime, media, request, and the proofs of section 4.
