----------------------------- MODULE NextResponse -----------------------------
(***************************************************************************)
(* poll_next_on (src/src/runtime/client.cpp) and NextResponseParser        *)
(* (src/src/runtime/next_response.cpp): the answer to /next arrives in     *)
(* fragments of any size, and the parser cuts the header section off,      *)
(* reads its lines and collects the event.                                 *)
(*                                                                         *)
(* The bytes of the answer are their positions in it.  The header section, *)
(* delimiter included, is the first `header` of them; `content` more       *)
(* follow before the API closes the connection.                            *)
(***************************************************************************)
EXTENDS Naturals, Sequences

CONSTANTS
  HeaderCap,   \* maximum_runtime_header_bytes (64 KiB)
  EventCap,    \* maximum_runtime_event_bytes (8 MiB)
  ReadSize,    \* the 16 KiB poll_next_on asks for
  MaxHeader,   \* bound: length of the header section
  MaxContent,  \* bound: bytes after it, and the Content-Length they come with
  MaxLines     \* bound: header lines, the status line included

ASSUME NextAssumption ==
  /\ {HeaderCap, EventCap, MaxContent, MaxLines} \subseteq Nat
  /\ {ReadSize, MaxHeader} \subseteq Nat \ {0}

VARIABLES
  header, content,   \* the answer's two lengths
  received,          \* how much of it recv has returned
  pc,                \* "read", "headers" while feed is in parse_headers, "done"
  buffer, rest,      \* the parser's buffer; the fragment's bytes beyond it
  lines,             \* the header lines parse_headers has read
  headers_complete, content_length, event, status,  \* the parser's state
  result             \* what poll_next_on returned: "none" or "invocation"

answerVars == <<header, content>>
parserVars == <<headers_complete, content_length, event, status>>
vars == <<answerVars, received, pc, buffer, rest, lines, parserVars, result>>

Required == {"length", "request_id", "deadline", "trace"}

(* The status line comes first: HTTP/1.1 200 OK, or anything else.         *)
StatusLines == [name : {"200 OK", "other status"}, value : {0}]

(* A line and, for Content-Length, its value.  "broken" has no name, or a  *)
(* value that is no number, or is Transfer-Encoding.                       *)
FieldLines ==
  [name : {"length"}, value : 0..MaxContent]
    \cup [name : (Required \ {"length"}) \cup {"other", "broken"}, value : {0}]

Init ==
  /\ header \in 1..MaxHeader
  /\ content \in 0..MaxContent
  /\ received = 0
  /\ pc = "read"
  /\ buffer = <<>>
  /\ rest = <<>>
  /\ lines = <<>>
  /\ headers_complete = FALSE
  /\ content_length = 0
  /\ event = <<>>
  /\ status = "incomplete"
  /\ result = "pending"
-----------------------------------------------------------------------------
Fragment(k) == [i \in 1..k |-> received + i]

(* append_event: the event and the status it leaves.                       *)
EventFits(bytes, at) == Len(bytes) <= content_length - Len(at)
AppendEvent(bytes, at) ==
  IF ~EventFits(bytes, at)
    THEN [event |-> at, status |-> "error"]
    ELSE [event |-> at \o bytes,
          status |-> IF Len(at \o bytes) = content_length THEN "complete" ELSE "incomplete"]

(* poll_next_on looks at the status after every feed.                      *)
After(newStatus) ==
  /\ status' = newStatus
  /\ pc' = IF newStatus = "incomplete" THEN "read" ELSE "done"
  /\ result' = CASE newStatus = "error" -> "none"
                 [] newStatus = "complete" -> "invocation"
                 [] OTHER -> "pending"

(* recv returns k bytes of the event.                                      *)
FeedEvent(k) ==
  /\ pc = "read"
  /\ headers_complete
  /\ received + k <= header + content
  /\ received' = received + k
  /\ event' = AppendEvent(Fragment(k), event).event
  /\ After(AppendEvent(Fragment(k), event).status)
  /\ UNCHANGED <<answerVars, buffer, rest, lines, headers_complete, content_length>>

(* How much of a fragment the buffer takes; a wrong parser takes it all.   *)
WholeFragment(k) == k
Buffered(k) == IF k < HeaderCap - Len(buffer) THEN k ELSE HeaderCap - Len(buffer)

(* A header section that has filled the buffer and not ended is given up,  *)
(* as is one that has more to come than the buffer can take; a wrong parser*)
(* gives up before it has looked for the end.                              *)
FullBeforeSearch(k) == Len(buffer) + k >= HeaderCap
HeaderOverflows(k) ==
  Len(buffer) + Buffered(k) < header
    /\ (Buffered(k) # k \/ Len(buffer) + Buffered(k) = HeaderCap)

(* recv returns k bytes while the header section is still being collected. *)
FeedHeader(k) ==
  /\ pc = "read"
  /\ ~headers_complete
  /\ received + k <= header + content
  /\ received' = received + k
  /\ buffer' = buffer \o SubSeq(Fragment(k), 1, Buffered(k))
  /\ rest' = SubSeq(Fragment(k), Buffered(k) + 1, k)
  /\ IF HeaderOverflows(k) THEN After("error")
     ELSE IF Len(buffer') >= header THEN pc' = "headers" /\ UNCHANGED <<status, result>>
     ELSE After("incomplete")
  /\ UNCHANGED <<answerVars, lines, headers_complete, content_length, event>>

(* Whether the loop of parse_headers goes on after a line: no field twice, *)
(* no length above the cap.  A wrong one lets a later line win.            *)
LastOneWins(line) == line.name \notin {"broken", "other status"} /\ line.value <= EventCap
LineAccepted(line) ==
  /\ line.name \notin {"broken", "other status"}
  /\ line.name \in Required => \A i \in 1..Len(lines) : lines[i].name # line.name
  /\ line.value <= EventCap

(* The status line, or one turn of the loop of parse_headers.              *)
HeaderLine(line) ==
  /\ pc = "headers"
  /\ line \in IF lines = <<>> THEN StatusLines ELSE FieldLines
  /\ Len(lines) < MaxLines
  /\ lines' = Append(lines, line)
  /\ content_length' = IF line.name = "length" THEN line.value ELSE content_length
  /\ IF LineAccepted(line) THEN UNCHANGED <<pc, status, result>> ELSE After("error")
  /\ UNCHANGED <<answerVars, received, buffer, rest, headers_complete, event>>

(* have_length, have_request_id, have_deadline and have_trace.             *)
HaveAll == Required \subseteq {lines[i].name : i \in 1..Len(lines)}

(* The lines are over: the rest of feed.  What the buffer holds of the     *)
(* event is appended first, then the part of the fragment that the buffer  *)
(* did not take; a wrong feed forgets that part.                           *)
Held == AppendEvent(SubSeq(buffer, header + 1, Len(buffer)), event)
HeldAlone == Held
HeldAndRest == IF Held.status = "error" THEN Held ELSE AppendEvent(rest, Held.event)

HeadersEnd ==
  /\ pc = "headers"
  /\ lines # <<>>
  /\ headers_complete' = HaveAll
  /\ event' = IF HaveAll THEN HeldAndRest.event ELSE event
  /\ After(IF HaveAll THEN HeldAndRest.status ELSE "error")
  /\ buffer' = IF HaveAll /\ Held.status # "error" THEN <<>> ELSE buffer
  /\ rest' = <<>>
  /\ UNCHANGED <<answerVars, received, lines, content_length>>

(* recv returns 0 or an error, at any point.                               *)
Closed ==
  /\ pc = "read"
  /\ pc' = "done"
  /\ result' = "none"
  /\ UNCHANGED <<answerVars, received, buffer, rest, lines, parserVars>>

Next ==
  \/ \E k \in 1..ReadSize : FeedEvent(k) \/ FeedHeader(k)
  \/ \E line \in StatusLines \cup FieldLines : HeaderLine(line)
  \/ HeadersEnd
  \/ Closed

Spec == Init /\ [][Next]_vars
-----------------------------------------------------------------------------
(* The variables' types.                                                   *)
TypeOK ==
  /\ header \in 1..MaxHeader
  /\ content \in 0..MaxContent
  /\ received \in 0..(header + content)
  /\ pc \in {"read", "headers", "done"}
  /\ buffer \in Seq(Nat)
  /\ rest \in Seq(Nat)
  /\ lines \in Seq(StatusLines \cup FieldLines)
  /\ headers_complete \in BOOLEAN
  /\ content_length \in 0..MaxContent
  /\ event \in Seq(Nat)
  /\ status \in {"incomplete", "complete", "error"}
  /\ result \in {"pending", "none", "invocation"}

Body(count) == [i \in 1..count |-> header + i]

(* However the answer is cut into reads, the event is the bytes after the  *)
(* header section, each once and in order, and none that was received is   *)
(* missing while the parser is waiting for more; and neither the buffer nor*)
(* the event ever outgrows its cap.                                        *)
EventIsPrefix ==
  /\ event = Body(Len(event))
  /\ pc = "read" /\ headers_complete => received = header + Len(event)
  /\ Len(buffer) <= HeaderCap /\ Len(event) <= EventCap

Names(name) == {i \in 1..Len(lines) : lines[i].name = name}

(* An invocation is returned only for an answer that carries every         *)
(* required field exactly once and the whole event its Content-Length      *)
(* announces.                                                              *)
InvocationIsWhole ==
  result = "invocation" =>
    /\ \A name \in Required : \E i \in Names(name) : Names(name) = {i}
    /\ \E i \in Names("length") : event = Body(lines[i].value)

GoodLines ==
  /\ \A i \in 1..Len(lines) :
       lines[i].name \notin {"broken", "other status"} /\ lines[i].value <= EventCap
  /\ \A name \in Required : \A i, j \in Names(name) : i = j

(* A good answer is never rejected: while its header section fits the cap, *)
(* its lines are sound and it sends no more than it announced, the parser  *)
(* reports no error, in whatever fragments the answer comes.               *)
GoodAnswerAccepted ==
  status = "error" =>
    \/ header > HeaderCap
    \/ ~GoodLines
    \/ lines # <<>> /\ \E name \in Required : Names(name) = {}
    \/ \E i \in Names("length") : lines[i].value < content
=============================================================================
