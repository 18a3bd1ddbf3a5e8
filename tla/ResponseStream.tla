---------------------------- MODULE ResponseStream ----------------------------
(***************************************************************************)
(* One submission on its connection: send_response_on and                  *)
(* send_invocation_error_on (src/src/runtime/client.cpp),                  *)
(* write_streaming_response (src/src/runtime/streaming.cpp) and            *)
(* SocketTransport (src/src/runtime/socket_transport.cpp), down to each    *)
(* send() and recv().                                                      *)
(*                                                                         *)
(* The other end is external: it takes bytes off the wire at its own pace, *)
(* decodes chunked framing (RFC 9112) and replies to a complete request.   *)
(* Bytes are symbols <<kind, number>>; a symbol stands for one or more     *)
(* bytes that are never told apart.                                        *)
(***************************************************************************)
EXTENDS Naturals, Sequences

CONSTANTS
  MaxBody,      \* bound: body length of the response, in symbols
  ChunkBytes,   \* response_chunk_bytes (64 KiB)
  WireCap,      \* bytes the kernel buffers between the two ends
  MaxReply,     \* bound: length of the reply's header section
  AckCap,       \* maximum_runtime_header_bytes (64 KiB) in read_response_ack
  ReadSize      \* the 1024 bytes read_response_ack asks for

ASSUME StreamAssumption ==
  /\ {ChunkBytes, WireCap, MaxReply, ReadSize} \subseteq Nat \ {0}
  /\ {MaxBody, AckCap} \subseteq Nat

VARIABLES
  request,  \* "response" or "error"
  body,     \* length of HttpResponse::body
  stage,    \* what is being written; then "shutdown" and "ack"
  offset,   \* where write_streaming_response stands in the body
  calls,    \* the buffers write() is still to be called with, the first begun
  wire,     \* bytes sent and not yet taken by the API
  usable,   \* the connection can still carry bytes
  peer,     \* the API's decoder: mode, bytes left in the chunk, entity so far
  started,  \* the API has taken a byte
  reply,    \* the reply's status and the length of its header section
  acked,    \* reply bytes read_response_ack has read
  outcome   \* the result of the call

writerVars == <<request, body, stage, offset, calls>>
apiVars == <<peer, started, reply>>
vars == <<writerVars, apiVars, wire, usable, acked, outcome>>

(* A head announces chunked framing; the one of an /error request announces*)
(* the length of the body that follows it in the same buffer.              *)
RequestHead == <<<<"head", 1>>, <<"head", 2>>>>
ErrorHead == <<<<"head", 1>>, <<"head", 3>>>>
ErrorBody == <<<<"json", 2>>>>

(* integration_metadata and the eight NUL bytes after it.                  *)
Metadata == <<<<"json", 1>>, <<"nul", 8>>>>

BodyBytes(from, count) == [k \in 1..count |-> <<"byte", from + k>>]

(* write_chunk: three calls of write(), and none for an empty span.        *)
Chunk(payload) ==
  IF payload = <<>> THEN <<>>
  ELSE <<<<<<"size", Len(payload)>>, <<"eol", 0>>>>, payload, <<<<"eol", 0>>>>>>

LastChunk == <<<<<<"size", 0>>, <<"eol", 0>>, <<"eol", 0>>>>>>

Init ==
  /\ request \in {"response", "error"}
  /\ body \in IF request = "response" THEN 0..MaxBody ELSE {0}
  /\ stage = "head"
  /\ offset = 0
  /\ calls = <<IF request = "response" THEN RequestHead ELSE ErrorHead \o ErrorBody>>
  /\ wire = <<>>
  /\ usable = TRUE
  /\ peer = [mode |-> "head", left |-> 0, entity |-> <<>>]
  /\ started = FALSE
  /\ reply = [status |-> "none", size |-> 0]
  /\ acked = 0
  /\ outcome = "pending"
-----------------------------------------------------------------------------
Pending == outcome = "pending"

(* What a call still has to send once send() took k bytes of its buffer; a *)
(* wrong write() would believe that send() takes the whole buffer.         *)
NothingLeft(k) == <<>>
Remainder(k) == SubSeq(Head(calls), k + 1, Len(Head(calls)))

(* send() takes any positive number of bytes the kernel has room for.      *)
Send(k) ==
  /\ Pending
  /\ usable
  /\ calls # <<>>
  /\ k <= Len(Head(calls))
  /\ Len(wire) + k <= WireCap
  /\ wire' = wire \o SubSeq(Head(calls), 1, k)
  /\ calls' = IF Remainder(k) = <<>> THEN Tail(calls) ELSE <<Remainder(k)>> \o Tail(calls)
  /\ UNCHANGED <<request, body, stage, offset, apiVars, usable, acked, outcome>>

(* The head is out: an /error request is complete with it, and a streaming *)
(* one goes on to the metadata.                                            *)
HeadWritten ==
  /\ Pending
  /\ stage = "head"
  /\ calls = <<>>
  /\ IF request = "error"
       THEN stage' = "shutdown" /\ UNCHANGED calls
       ELSE stage' = "metadata" /\ calls' = Chunk(Metadata)
  /\ UNCHANGED <<request, body, offset, apiVars, wire, usable, acked, outcome>>

(* Building the metadata, the one allocation after the head, throws; the   *)
(* transport's destructor closes the connection.                           *)
MetadataThrows ==
  /\ Pending
  /\ stage = "head"
  /\ request = "response"
  /\ calls = <<>>
  /\ stage' = "metadata"
  /\ outcome' = "failed"
  /\ UNCHANGED <<request, body, offset, calls, apiVars, wire, usable, acked>>

(* The body loop's condition; a wrong one drops what is less than a chunk. *)
FullChunksOnly == offset + ChunkBytes <= body
MoreBody == offset < body

(* min(response_chunk_bytes, what is left).                                *)
ChunkSize == IF body - offset < ChunkBytes THEN body - offset ELSE ChunkBytes

(* The loop over the body: a chunk is out and the next one begins.         *)
NextChunk ==
  /\ Pending
  /\ stage \in {"metadata", "body"}
  /\ calls = <<>>
  /\ MoreBody
  /\ stage' = "body"
  /\ calls' = Chunk(BodyBytes(offset, ChunkSize))
  /\ offset' = offset + ChunkSize
  /\ UNCHANGED <<request, body, apiVars, wire, usable, acked, outcome>>

(* The loop ends and the terminal chunk follows.                           *)
BodyWritten ==
  /\ Pending
  /\ stage \in {"metadata", "body"}
  /\ calls = <<>>
  /\ ~MoreBody
  /\ stage' = "last"
  /\ calls' = LastChunk
  /\ UNCHANGED <<request, body, offset, apiVars, wire, usable, acked, outcome>>

LastWritten ==
  /\ Pending
  /\ stage = "last"
  /\ calls = <<>>
  /\ stage' = "shutdown"
  /\ UNCHANGED <<request, body, offset, calls, apiVars, wire, usable, acked, outcome>>

ShutdownWrite ==
  /\ Pending
  /\ usable
  /\ stage = "shutdown"
  /\ stage' = "ack"
  /\ UNCHANGED <<request, body, offset, calls, apiVars, wire, usable, acked, outcome>>

(* A call on a broken connection returns an error other than EINTR; wrong  *)
(* loops would call again after any error, for ever.                       *)
AlwaysRetried == FALSE
ReportsError == ~usable

(* send() or shutdown() fails.                                             *)
WriteFails ==
  /\ Pending
  /\ ReportsError
  /\ stage # "ack"
  /\ outcome' = "failed"
  /\ UNCHANGED <<writerVars, apiVars, wire, usable, acked>>
-----------------------------------------------------------------------------
(* The answer to a whole header section; a wrong one believes any status.  *)
AnyAnswer == "acknowledged"
Answer == IF reply.status = "202" THEN "acknowledged" ELSE "failed"

(* The terminator is looked for after every read; a wrong one trusts the   *)
(* first bytes it gets.                                                    *)
AnythingRead(read) == read > 0
HeaderEnds(read) == read = reply.size

(* One turn of read_response_ack's loop, recv returning k bytes.           *)
ReadAck(k) ==
  /\ Pending
  /\ stage = "ack"
  /\ reply.status # "none"
  /\ acked <= AckCap
  /\ k <= reply.size - acked
  /\ acked' = acked + k
  /\ outcome' = IF HeaderEnds(acked + k) THEN Answer
                ELSE IF acked + k > AckCap THEN "failed" ELSE "pending"
  /\ UNCHANGED <<writerVars, apiVars, wire, usable>>

(* recv returns 0 or an error, before or in the middle of the reply.       *)
ReadFails ==
  /\ Pending
  /\ stage = "ack"
  /\ ReportsError
  /\ outcome' = "failed"
  /\ UNCHANGED <<writerVars, apiVars, wire, usable, acked>>
-----------------------------------------------------------------------------
(* The API's side, external.  Decode is its decoder taking one more symbol:*)
(* it knows nothing but the bytes.                                         *)
Decode(state, symbol) ==
  LET To(mode) == [state EXCEPT !.mode = mode]
      Keep(mode, left) ==
        [mode |-> mode, left |-> left, entity |-> Append(state.entity, symbol)]
      kind == symbol[1]
  IN CASE state.mode = "head" /\ symbol = <<"head", 1>> -> state
       [] state.mode = "head" /\ symbol = <<"head", 2>> -> To("size")
       [] state.mode = "head" /\ symbol = <<"head", 3>> -> To("content")
       [] state.mode = "content" /\ kind = "json" -> Keep("complete", state.left)
       [] state.mode = "size" /\ kind = "size" ->
            [state EXCEPT !.mode = "size_eol", !.left = symbol[2]]
       [] state.mode = "size_eol" /\ kind = "eol" ->
            To(IF state.left = 0 THEN "trailer" ELSE "data")
       [] state.mode = "data" /\ kind \in {"json", "nul", "byte"} ->
            Keep(IF state.left = 1 THEN "data_eol" ELSE "data", state.left - 1)
       [] state.mode = "data_eol" /\ kind = "eol" -> To("size")
       [] state.mode = "trailer" /\ kind = "eol" -> To("complete")
       [] OTHER -> To("malformed")

Ended == {"complete", "truncated", "malformed"}

Take ==
  /\ wire # <<>>
  /\ peer.mode \notin Ended
  /\ peer' = Decode(peer, Head(wire))
  /\ wire' = Tail(wire)
  /\ started' = TRUE
  /\ UNCHANGED <<writerVars, reply, usable, acked, outcome>>

(* The client has closed its half and nothing more is on the wire.         *)
TakeEnd ==
  /\ wire = <<>>
  /\ peer.mode \notin Ended
  /\ stage = "ack" \/ outcome = "failed"
  /\ peer' = [peer EXCEPT !.mode = "truncated"]
  /\ UNCHANGED <<writerVars, started, reply, wire, usable, acked, outcome>>

Reply ==
  /\ usable
  /\ peer.mode = "complete"
  /\ reply.status = "none"
  /\ reply' \in [status : {"202", "other"}, size : 1..MaxReply]
  /\ UNCHANGED <<writerVars, peer, started, wire, usable, acked, outcome>>

(* The connection breaks, and what was on the wire is lost.                *)
Breaks ==
  /\ usable
  /\ usable' = FALSE
  /\ wire' = <<>>
  /\ UNCHANGED <<writerVars, apiVars, acked, outcome>>

Writer ==
  \/ \E k \in 1..WireCap : Send(k)
  \/ HeadWritten
  \/ MetadataThrows
  \/ NextChunk
  \/ BodyWritten
  \/ LastWritten
  \/ ShutdownWrite
  \/ WriteFails

Reader == (\E k \in 1..ReadSize : ReadAck(k)) \/ ReadFails

Api == Take \/ TakeEnd \/ Reply

Next == Writer \/ Reader \/ Api \/ Breaks

Spec == Init /\ [][Next]_vars

(* The client runs while it can and the API reads and answers; nothing     *)
(* makes a connection break.                                               *)
FairSpec == Spec /\ WF_vars(Writer) /\ WF_vars(Reader) /\ WF_vars(Api)
-----------------------------------------------------------------------------
Symbols ==
  {"head", "json", "nul", "byte", "size", "eol"} \X (0..(MaxBody + ChunkBytes + 8))

(* The variables' types; the writer never passes the end of the body.      *)
TypeOK ==
  /\ request \in {"response", "error"}
  /\ body \in 0..MaxBody
  /\ stage \in {"head", "metadata", "body", "last", "shutdown", "ack"}
  /\ offset \in 0..body
  /\ calls \in Seq(Seq(Symbols) \ {<<>>})
  /\ wire \in Seq(Symbols)
  /\ Len(wire) <= WireCap
  /\ usable \in BOOLEAN
  /\ peer.mode \in {"head", "content", "size", "size_eol", "data", "data_eol", "trailer"} \cup Ended
  /\ peer.left \in Nat
  /\ peer.entity \in Seq(Symbols)
  /\ started \in BOOLEAN
  /\ reply.status \in {"none", "202", "other"}
  /\ reply.size \in 0..MaxReply
  /\ acked \in 0..reply.size
  /\ outcome \in {"pending", "acknowledged", "failed"}

Entity == IF request = "error" THEN ErrorBody ELSE Metadata \o BodyBytes(0, body)

(* A message the API takes as complete carries the whole entity, byte for  *)
(* byte and in order, and was not given up on half way: however send() cut *)
(* the buffers, and wherever the call failed.                              *)
CompleteIsWhole ==
  peer.mode = "complete" =>
    peer.entity = Entity /\ calls = <<>> /\ stage \in {"head", "last", "shutdown", "ack"}

(* What reaches the API is at every point a prefix of a well-formed        *)
(* chunked message, also when the call fails: a failure can cut the        *)
(* message short but never corrupts it.                                    *)
NeverMalformed ==
  /\ peer.mode # "malformed"
  /\ peer.entity = SubSeq(Entity, 1, Len(peer.entity))

(* The call reports success only for a message the API has whole and has   *)
(* answered with 202, and only after it read the reply's header section    *)
(* to its end.                                                             *)
AcknowledgedIsAccepted ==
  outcome = "acknowledged" =>
    peer.entity = Entity /\ reply.status = "202" /\ acked = reply.size

(* While the connection holds and the API reads and answers, the call      *)
(* comes to a result: writer and reader never wait for each other, though  *)
(* no send or recv has a timeout.                                          *)
Decided == <>(outcome # "pending")

(* SPECIFICATION.md section 9: a failure after streaming begins uses the   *)
(* declared trailers, so on a working connection the API never sees a      *)
(* stream that stops without an end.                                       *)
FailureDeclared == ~(usable /\ peer.mode = "truncated" /\ stage \in {"metadata", "body", "last"})

(* The request RuntimeLoop deals with.                                     *)
Request == INSTANCE Submission WITH
  sent <- IF ~started THEN "nothing" ELSE IF peer.mode = "complete" THEN "all" ELSE "some",
  reply <- reply.status

(* The byte-level call is the three-state request RuntimeLoop composes     *)
(* into its loop.                                                          *)
ImplementsSubmission == Request!Spec
=============================================================================
