-------------------------- MODULE NextResponseProofs --------------------------
(***************************************************************************)
(* Theorems about NextResponse for caps, reads and answers of any size:    *)
(* whatever fragments the answer to /next comes in, the event is the bytes *)
(* after the header section, an invocation is whole, and a good answer is  *)
(* never rejected.                                                         *)
(*                                                                         *)
(* The argument: everything the parser holds is a run of consecutive       *)
(* positions of the answer, so that what feed cuts and joins is decided by *)
(* lengths alone.                                                          *)
(***************************************************************************)
EXTENDS NextResponse, SequenceTheorems, TLAPS

(* count consecutive positions after the first `from`.                     *)
Bytes(from, count) == [i \in 1..count |-> from + i]

LengthLine == \A i \in Names("length") : lines[i].value = content_length

(* While the header section is being collected, the buffer holds all of    *)
(* what was received and the section has not ended in it.                  *)
CollectInv ==
  pc = "read" /\ ~headers_complete =>
    /\ buffer = Bytes(0, received) /\ received < header /\ received <= HeaderCap
    /\ lines = <<>> /\ event = <<>>

(* In parse_headers, the buffer and the rest of the fragment are all of    *)
(* what was received, and the section ends in the buffer.                  *)
HeadersInv ==
  pc = "headers" =>
    /\ ~headers_complete /\ event = <<>>
    /\ header <= Len(buffer) /\ Len(buffer) <= received /\ Len(buffer) <= HeaderCap
    /\ buffer = Bytes(0, Len(buffer))
    /\ rest = Bytes(Len(buffer), received - Len(buffer))

(* Lines that were accepted are sound, and the length is the one announced.*)
LinesInv ==
  /\ pc = "headers" \/ headers_complete => GoodLines /\ LengthLine
  /\ headers_complete => HaveAll

(* The event is what follows the header section, within what was announced.*)
EventInv ==
  /\ event = Body(Len(event))
  /\ headers_complete => Len(event) <= content_length
  /\ ~headers_complete => event = <<>>
  /\ pc = "read" /\ headers_complete => received = header + Len(event)
  /\ Len(buffer) <= HeaderCap

(* The parser's status and what poll_next_on made of it.                   *)
OutcomeInv ==
  /\ pc # "done" => status = "incomplete" /\ result = "pending"
  /\ result = "invocation" => status = "complete"
  /\ status = "complete" => headers_complete /\ Len(event) = content_length
  /\ GoodAnswerAccepted

IInv == TypeOK /\ CollectInv /\ HeadersInv /\ LinesInv /\ EventInv /\ OutcomeInv
-----------------------------------------------------------------------------
(* Runs of consecutive positions: their type, their parts, their joins.    *)
LEMMA BytesTyped ==
  ASSUME NEW from \in Nat, NEW count \in Nat
  PROVE  /\ Bytes(from, count) \in Seq(Nat) /\ Len(Bytes(from, count)) = count
         /\ \A i \in 1..count : Bytes(from, count)[i] = from + i
<1> DEFINE b == Bytes(from, count)
<1>1. b \in [1..count -> Nat] /\ \A i \in 1..count : b[i] = from + i
  BY DEF Bytes
<1> HIDE DEF b
<1>2. b \in Seq(Nat) /\ Len(b) = count
  BY <1>1, SeqDef, LenProperties
<1>3. QED BY <1>1, <1>2 DEF b

LEMMA NoBytes ==
  ASSUME NEW from \in Nat
  PROVE  Bytes(from, 0) = <<>>
<1>1. Bytes(from, 0) \in Seq(Nat) /\ Len(Bytes(from, 0)) = 0
  BY BytesTyped
<1>2. QED BY <1>1, EmptySeq

LEMMA BytesJoined ==
  ASSUME NEW from \in Nat, NEW m \in Nat, NEW n \in Nat
  PROVE  Bytes(from, m) \o Bytes(from + m, n) = Bytes(from, m + n)
<1> DEFINE a == Bytes(from, m)
           b == Bytes(from + m, n)
           c == Bytes(from, m + n)
<1>1. /\ a \in Seq(Nat) /\ Len(a) = m /\ \A i \in 1..m : a[i] = from + i
      /\ b \in Seq(Nat) /\ Len(b) = n /\ \A i \in 1..n : b[i] = (from + m) + i
      /\ c \in Seq(Nat) /\ Len(c) = m + n /\ \A i \in 1..(m + n) : c[i] = from + i
  <2>1. from + m \in Nat /\ m + n \in Nat
    OBVIOUS
  <2>2. a \in Seq(Nat) /\ Len(a) = m /\ \A i \in 1..m : a[i] = from + i
    BY BytesTyped
  <2>3. b \in Seq(Nat) /\ Len(b) = n /\ \A i \in 1..n : b[i] = (from + m) + i
    BY <2>1, BytesTyped
  <2>4. c \in Seq(Nat) /\ Len(c) = m + n /\ \A i \in 1..(m + n) : c[i] = from + i
    BY <2>1, BytesTyped
  <2>5. QED BY <2>2, <2>3, <2>4
<1> HIDE DEF a, b, c
<1>2. /\ a \o b \in Seq(Nat) /\ Len(a \o b) = Len(a) + Len(b)
      /\ \A i \in 1..(Len(a) + Len(b)) :
           (a \o b)[i] = IF i <= Len(a) THEN a[i] ELSE b[i - Len(a)]
  BY <1>1, ConcatProperties
<1>3. ASSUME NEW i \in 1..(m + n) PROVE (a \o b)[i] = c[i]
  <2>1. CASE i <= m
    <3>1. i \in 1..(Len(a) + Len(b)) /\ i <= Len(a) /\ i \in 1..m
      BY <1>1, <2>1
    <3>2. (a \o b)[i] = a[i]
      BY <1>2, <3>1
    <3>3. QED BY <1>1, <3>1, <3>2
  <2>2. CASE i > m
    <3>1. i - m \in 1..n /\ (from + m) + (i - m) = from + i
      BY <2>2
    <3>2. (a \o b)[i] = b[i - m]
      BY <1>1, <1>2, <2>2
    <3>3. QED BY <1>1, <3>1, <3>2
  <2>3. i <= m \/ i > m
    OBVIOUS
  <2>4. QED BY <2>1, <2>2, <2>3
<1>4. Len(a \o b) = Len(c)
  BY <1>1, <1>2
<1>5. \A i \in 1..Len(c) : (a \o b)[i] = c[i]
  BY <1>1, <1>3
<1>6. a \o b = c
  BY <1>1, <1>2, <1>4, <1>5, SeqEqual
<1>7. QED BY <1>6 DEF a, b, c

LEMMA BytesCut ==
  ASSUME NEW from \in Nat, NEW count \in Nat, NEW m \in 0..count, NEW n \in m..count
  PROVE  SubSeq(Bytes(from, count), m + 1, n) = Bytes(from + m, n - m)
<1> DEFINE a == Bytes(from, count)
           s == SubSeq(a, m + 1, n)
           c == Bytes(from + m, n - m)
<1>1. m \in Nat /\ n \in Nat /\ n - m \in Nat /\ m <= n /\ n <= count
  OBVIOUS
<1>2. /\ a \in Seq(Nat) /\ Len(a) = count /\ \A i \in 1..count : a[i] = from + i
      /\ c \in Seq(Nat) /\ Len(c) = n - m /\ \A i \in 1..(n - m) : c[i] = (from + m) + i
  <2>1. from + m \in Nat
    BY <1>1
  <2>2. a \in Seq(Nat) /\ Len(a) = count /\ \A i \in 1..count : a[i] = from + i
    BY BytesTyped
  <2>3. c \in Seq(Nat) /\ Len(c) = n - m /\ \A i \in 1..(n - m) : c[i] = (from + m) + i
    BY <1>1, <2>1, BytesTyped
  <2>4. QED BY <2>2, <2>3
<1> HIDE DEF a, c
<1>3. \A i \in (m + 1)..n : a[i] \in Nat
  BY <1>1, <1>2
<1>4. s \in Seq(Nat) /\ Len(s) = n - m /\ \A i \in 1..(n - m) : s[i] = a[m + i]
  <2>1. m + 1 \in Int /\ n \in Int /\ m + 1 <= n + 1
    BY <1>1
  <2>2. /\ s \in Seq(Nat)
        /\ Len(s) = IF m + 1 <= n THEN n - (m + 1) + 1 ELSE 0
        /\ \A i \in 1..(n - (m + 1) + 1) : s[i] = a[(m + 1) + i - 1]
    BY <1>2, <1>3, <2>1, SubSeqProperties, SMTT(40)
  <2> HIDE DEF s
  <2>3. Len(s) = n - m
    BY <1>1, <2>2
  <2>4. ASSUME NEW i \in 1..(n - m) PROVE s[i] = a[m + i]
    <3>1. i \in 1..(n - (m + 1) + 1) /\ (m + 1) + i - 1 = m + i
      BY <1>1
    <3>2. QED BY <2>2, <3>1
  <2>5. QED BY <2>2, <2>3, <2>4
<1> HIDE DEF s
<1>5. ASSUME NEW i \in 1..(n - m) PROVE s[i] = c[i]
  <2>1. m + i \in 1..count /\ from + (m + i) = (from + m) + i
    BY <1>1
  <2>2. QED BY <1>2, <1>4, <2>1
<1>6. s = c
  BY <1>2, <1>4, <1>5, SeqEqual
<1>7. QED BY <1>6 DEF a, c, s

(* append_event, on what follows the header section.                       *)
LEMMA Appended ==
  ASSUME header \in Nat, content_length \in Nat, NEW m \in Nat, NEW n \in Nat, m <= content_length
  PROVE  AppendEvent(Bytes(header + m, n), Bytes(header, m))
           = IF n <= content_length - m
               THEN [event |-> Bytes(header, m + n),
                     status |-> IF m + n = content_length THEN "complete" ELSE "incomplete"]
               ELSE [event |-> Bytes(header, m), status |-> "error"]
<1>1. header + m \in Nat /\ m + n \in Nat
  OBVIOUS
<1>2. /\ Len(Bytes(header + m, n)) = n /\ Len(Bytes(header, m)) = m
      /\ Len(Bytes(header, m + n)) = m + n
  BY <1>1, BytesTyped
<1>3. Bytes(header, m) \o Bytes(header + m, n) = Bytes(header, m + n)
  BY BytesJoined
<1>4. EventFits(Bytes(header + m, n), Bytes(header, m)) <=> n <= content_length - m
  BY <1>2 DEF EventFits
<1>5. QED BY <1>2, <1>3, <1>4 DEF AppendEvent

(* A line more.                                                            *)
LEMMA LineAdded ==
  ASSUME TypeOK, NEW line \in StatusLines \cup FieldLines, lines' = Append(lines, line)
  PROVE  /\ lines' \in Seq(StatusLines \cup FieldLines)
         /\ Len(lines') = Len(lines) + 1 /\ Len(lines) \in Nat
         /\ lines'[Len(lines) + 1] = line
         /\ \A i \in 1..Len(lines) : lines'[i] = lines[i]
BY AppendProperties DEF TypeOK

LEMMA SafetyInit == Init => IInv
<1> SUFFICES ASSUME Init PROVE IInv
  OBVIOUS
<1> USE NextAssumption DEF Init
<1>1. header \in Nat /\ MaxHeader \in Nat /\ MaxContent \in Nat
  OBVIOUS
<1>2. Len(buffer) = 0 /\ Len(event) = 0 /\ Len(lines) = 0
  OBVIOUS
<1>3. buffer = Bytes(0, received) /\ event = Body(Len(event))
  BY <1>1, <1>2, NoBytes DEF Body, Bytes
<1>4. TypeOK
  <2>1. buffer \in Seq(Nat) /\ rest \in Seq(Nat) /\ event \in Seq(Nat)
        /\ lines \in Seq(StatusLines \cup FieldLines)
    OBVIOUS
  <2>2. header \in 1..MaxHeader /\ content \in 0..MaxContent /\ 0 \in 0..(header + content)
        /\ 0 \in 0..MaxContent
    OBVIOUS
  <2>3. QED BY <2>1, <2>2 DEF TypeOK
<1>5. CollectInv /\ HeadersInv /\ LinesInv
  BY <1>1, <1>3 DEF CollectInv, HeadersInv, LinesInv
<1>6. EventInv /\ OutcomeInv
  BY <1>2, <1>3 DEF EventInv, OutcomeInv, GoodAnswerAccepted
<1>7. QED BY <1>4, <1>5, <1>6 DEF IInv

(* What feed leaves once poll_next_on has looked at its status.            *)
LEMMA Looked ==
  ASSUME NEW new \in {"incomplete", "complete", "error"}, After(new)
  PROVE  /\ status' = new
         /\ pc' \in {"read", "done"} /\ (pc' = "read" <=> new = "incomplete")
         /\ result' \in {"pending", "none", "invocation"}
         /\ result' = "invocation" <=> new = "complete"
         /\ result' = "pending" <=> new = "incomplete"
BY DEF After

(* recv returns bytes of the event.                                        *)
LEMMA FeedEventKeeps ==
  ASSUME IInv, NEW k \in 1..ReadSize, FeedEvent(k)
  PROVE  IInv'
<1> DEFINE m == Len(event)
           r == AppendEvent(Fragment(k), event)
<1>1. /\ UNCHANGED <<header, content, buffer, rest, lines, headers_complete, content_length>>
      /\ headers_complete /\ received + k <= header + content /\ received' = received + k
      /\ event' = r.event /\ After(r.status)
  BY DEF FeedEvent, answerVars
<1>2. /\ header \in Nat /\ content \in Nat /\ content_length \in Nat /\ k \in Nat /\ m \in Nat
      /\ content_length \in 0..MaxContent /\ received \in Nat /\ k >= 1
  BY NextAssumption DEF IInv, TypeOK
<1>3. /\ event = Bytes(header, m) /\ m <= content_length /\ received = header + m
      /\ pc = "read"
  BY <1>1 DEF IInv, EventInv, Body, Bytes, FeedEvent
<1>4. Fragment(k) = Bytes(header + m, k)
  BY <1>3 DEF Fragment, Bytes
<1> HIDE DEF m
<1>5. r = IF k <= content_length - m
            THEN [event |-> Bytes(header, m + k),
                  status |-> IF m + k = content_length THEN "complete" ELSE "incomplete"]
            ELSE [event |-> Bytes(header, m), status |-> "error"]
  BY <1>2, <1>3, <1>4, Appended
<1> HIDE DEF r
<1>6. r.status \in {"incomplete", "complete", "error"}
  BY <1>5
<1>7. /\ status' = r.status /\ pc' \in {"read", "done"} /\ (pc' = "read" <=> r.status = "incomplete")
      /\ result' \in {"pending", "none", "invocation"}
      /\ (result' = "invocation" <=> r.status = "complete")
      /\ (result' = "pending" <=> r.status = "incomplete")
  BY <1>1, <1>6, Looked
<1>8. /\ event' \in Seq(Nat) /\ event' = Bytes(header, Len(event')) /\ Len(event') <= content_length
      /\ r.status = "incomplete" => received' = header + Len(event')
      /\ r.status = "complete" => Len(event') = content_length
  <2>1. CASE k <= content_length - m
    <3>1. event' = Bytes(header, m + k) /\ m + k \in Nat /\ m + k <= content_length
      BY <1>1, <1>2, <1>5, <2>1
    <3>2. event' \in Seq(Nat) /\ Len(event') = m + k
      BY <1>2, <3>1, BytesTyped
    <3>3. received' = header + (m + k) /\ (r.status = "complete" => m + k = content_length)
      BY <1>1, <1>2, <1>3, <1>5, <2>1
    <3>4. QED BY <3>1, <3>2, <3>3
  <2>2. CASE ~(k <= content_length - m)
    <3>1. event' = event /\ r.status = "error"
      BY <1>1, <1>3, <1>5, <2>2
    <3>2. QED BY <1>3, <3>1 DEF m, IInv, TypeOK
  <2>3. QED BY <2>1, <2>2
<1>9. TypeOK'
  BY <1>1, <1>2, <1>6, <1>7, <1>8 DEF IInv, TypeOK
<1>10. CollectInv' /\ HeadersInv'
  BY <1>1, <1>7 DEF CollectInv, HeadersInv
<1>11. /\ GoodLines' <=> GoodLines
       /\ LengthLine' <=> LengthLine
       /\ HaveAll' <=> HaveAll
  BY <1>1 DEF GoodLines, LengthLine, HaveAll, Names
<1>12. LinesInv'
  BY <1>1, <1>11 DEF IInv, LinesInv
<1>13. EventInv'
  <2>1. event' = Body(Len(event))'
    BY <1>1, <1>8 DEF Body, Bytes
  <2>2. QED BY <1>1, <1>7, <1>8, <2>1 DEF IInv, EventInv
<1>14. GoodAnswerAccepted'
  <2>1. SUFFICES ASSUME r.status = "error" PROVE \E i \in Names("length") : lines[i].value < content
    BY <1>1, <1>7 DEF GoodAnswerAccepted, Names
  <2>2. content_length < content
    BY <1>1, <1>2, <1>3, <1>5, <2>1
  <2>3. PICK i \in 1..Len(lines) : lines[i].name = "length"
    BY <1>1 DEF IInv, LinesInv, HaveAll, Required
  <2>4. i \in Names("length") /\ lines[i].value = content_length
    BY <1>1, <2>3 DEF IInv, LinesInv, LengthLine, Names
  <2>5. QED BY <2>2, <2>4
<1>15. OutcomeInv'
  BY <1>1, <1>7, <1>8, <1>14 DEF OutcomeInv
<1>16. QED BY <1>9, <1>10, <1>12, <1>13, <1>15 DEF IInv

(* recv returns bytes while the header section is being collected.         *)
LEMMA FeedHeaderKeeps ==
  ASSUME IInv, NEW k \in 1..ReadSize, FeedHeader(k)
  PROVE  IInv'
<1> DEFINE b == Buffered(k)
           n == received + b
<1>1. /\ UNCHANGED <<header, content, lines, headers_complete, content_length, event>>
      /\ ~headers_complete /\ received + k <= header + content /\ received' = received + k
      /\ buffer' = buffer \o SubSeq(Fragment(k), 1, b)
      /\ rest' = SubSeq(Fragment(k), b + 1, k)
      /\ pc = "read"
  BY DEF FeedHeader, answerVars
<1>2. /\ header \in Nat /\ content \in Nat /\ k \in Nat /\ k >= 1 /\ received \in Nat
      /\ HeaderCap \in Nat
  BY NextAssumption DEF IInv, TypeOK
<1>3. /\ buffer = Bytes(0, received) /\ received < header /\ received <= HeaderCap
      /\ lines = <<>> /\ event = <<>> /\ status = "incomplete" /\ result = "pending"
  BY <1>1 DEF IInv, CollectInv, OutcomeInv
<1>4. Len(buffer) = received
  BY <1>2, <1>3, BytesTyped
<1>5. /\ b \in 0..k /\ b \in Nat /\ n \in Nat /\ n <= HeaderCap
      /\ b # k => n = HeaderCap
  BY <1>2, <1>3, <1>4 DEF Buffered
<1>6. HeaderOverflows(k) <=> n < header /\ (b # k \/ n = HeaderCap)
  BY <1>4 DEF HeaderOverflows
<1> HIDE DEF b
<1>7. Fragment(k) = Bytes(received, k)
  BY DEF Fragment, Bytes
<1>8. buffer' = Bytes(0, n)
  <2>1. 0 \in 0..k /\ 0 \in Nat /\ b \in 0..k /\ 0 + 1 = 1 /\ received + 0 = received /\ b - 0 = b
        /\ 0 + received = received
    BY <1>2, <1>5
  <2>2. SubSeq(Bytes(received, k), 0 + 1, b) = Bytes(received + 0, b - 0)
    BY <1>2, <2>1, BytesCut, ZenonT(60)
  <2>3. Bytes(0, received) \o Bytes(0 + received, b) = Bytes(0, received + b)
    BY <1>2, <1>5, BytesJoined, ZenonT(60)
  <2>4. QED BY <1>1, <1>3, <1>7, <2>1, <2>2, <2>3
<1>9. rest' = Bytes(n, received' - n)
  <2>1. k \in b..k /\ k - b = received' - n
    BY <1>1, <1>2, <1>5
  <2>2. SubSeq(Bytes(received, k), b + 1, k) = Bytes(received + b, k - b)
    BY <1>2, <1>5, <2>1, BytesCut
  <2>3. QED BY <1>1, <1>7, <2>1, <2>2
<1> HIDE DEF n
<1>10. buffer' \in Seq(Nat) /\ Len(buffer') = n /\ rest' \in Seq(Nat)
  <2>1. received' - n \in Nat
    BY <1>1, <1>2, <1>5 DEF n
  <2>2. QED BY <1>5, <1>8, <1>9, <2>1, BytesTyped
<1>11. lines' = <<>> /\ Len(lines') = 0 /\ Names("length")' = {} /\ GoodLines' /\ LengthLine'
  <2>1. lines' = <<>> /\ Len(lines') = 0
    BY <1>1, <1>3
  <2>2. \A name : Names(name)' = {}
    BY <2>1 DEF Names
  <2>3. QED BY <2>1, <2>2 DEF GoodLines, LengthLine
<1>12. LinesInv'
  BY <1>1, <1>11 DEF LinesInv
<1>13. EventInv'
  <2>1. event' = Body(Len(event))'
    BY <1>1 DEF IInv, EventInv, Body
  <2>2. QED BY <1>1, <1>3, <1>5, <1>10, <2>1 DEF EventInv
<1>14. ASSUME pc' \in {"read", "headers", "done"}, status' \in {"incomplete", "complete", "error"},
              result' \in {"pending", "none", "invocation"}
       PROVE  TypeOK'
  <2>1. received' \in 0..(header + content)
    BY <1>1, <1>2
  <2>2. QED BY <1>1, <1>10, <1>14, <2>1 DEF IInv, TypeOK
<1>15. CASE HeaderOverflows(k)
  <2>1. After("error")
    BY <1>15 DEF FeedHeader
  <2>2. pc' = "done" /\ status' = "error" /\ result' = "none"
    BY <2>1, Looked
  <2>3. TypeOK'
    BY <1>14, <2>2
  <2>4. header > HeaderCap
    BY <1>2, <1>5, <1>6, <1>15
  <2>5. CollectInv' /\ HeadersInv' /\ OutcomeInv'
    BY <1>1, <2>2, <2>4 DEF CollectInv, HeadersInv, OutcomeInv, GoodAnswerAccepted
  <2>6. QED BY <1>12, <1>13, <2>3, <2>5 DEF IInv
<1>16. CASE ~HeaderOverflows(k) /\ n >= header
  <2>1. pc' = "headers" /\ UNCHANGED <<status, result>>
    BY <1>10, <1>16 DEF FeedHeader
  <2>2. TypeOK'
    BY <1>3, <1>14, <2>1
  <2>3. HeadersInv'
    <3>1. n <= received'
      BY <1>1, <1>2, <1>5 DEF n
    <3>2. QED BY <1>1, <1>3, <1>5, <1>8, <1>9, <1>10, <1>16, <3>1 DEF HeadersInv
  <2>4. CollectInv' /\ OutcomeInv'
    BY <1>3, <2>1 DEF CollectInv, OutcomeInv, GoodAnswerAccepted
  <2>5. QED BY <1>12, <1>13, <2>2, <2>3, <2>4 DEF IInv
<1>17. CASE ~HeaderOverflows(k) /\ n < header
  <2>1. After("incomplete")
    BY <1>2, <1>5, <1>10, <1>17 DEF FeedHeader
  <2>2. pc' = "read" /\ status' = "incomplete" /\ result' = "pending"
    BY <2>1, Looked
  <2>3. TypeOK'
    BY <1>14, <2>2
  <2>4. n = received'
    BY <1>1, <1>5, <1>6, <1>17 DEF n
  <2>5. CollectInv'
    BY <1>1, <1>3, <1>5, <1>8, <1>11, <1>17, <2>4 DEF CollectInv
  <2>6. HeadersInv' /\ OutcomeInv'
    BY <2>2 DEF HeadersInv, OutcomeInv, GoodAnswerAccepted
  <2>7. QED BY <1>12, <1>13, <2>3, <2>5, <2>6 DEF IInv
<1>18. QED BY <1>2, <1>5, <1>15, <1>16, <1>17

(* The status line or a header line.                                       *)
LEMMA HeaderLineKeeps ==
  ASSUME IInv, NEW line \in StatusLines \cup FieldLines, HeaderLine(line)
  PROVE  IInv'
<1> DEFINE n == Len(lines) + 1
<1>1. /\ UNCHANGED <<header, content, received, buffer, rest, headers_complete, event>>
      /\ pc = "headers" /\ lines' = Append(lines, line)
      /\ content_length' = IF line.name = "length" THEN line.value ELSE content_length
  BY DEF HeaderLine, answerVars
<1>2. /\ ~headers_complete /\ status = "incomplete" /\ result = "pending" /\ GoodLines /\ LengthLine
  BY <1>1 DEF IInv, HeadersInv, LinesInv, OutcomeInv
<1>3. /\ lines' \in Seq(StatusLines \cup FieldLines) /\ Len(lines') = n /\ Len(lines) \in Nat
      /\ n \in 1..n /\ lines'[n] = line /\ \A i \in 1..Len(lines) : lines'[i] = lines[i]
      /\ \A i \in 1..n : i \in 1..Len(lines) \/ i = n
      /\ \A i \in 1..Len(lines) : i \in 1..n
  <2>1. lines' \in Seq(StatusLines \cup FieldLines) /\ Len(lines') = n /\ Len(lines) \in Nat
        /\ lines'[n] = line /\ \A i \in 1..Len(lines) : lines'[i] = lines[i]
    BY <1>1, LineAdded DEF IInv
  <2>2. QED BY <2>1
<1> HIDE DEF n
<1>4. line.value \in 0..MaxContent
  <2>1. 0 \in 0..MaxContent
    BY NextAssumption
  <2>2. line.value \in 0..MaxContent \/ line.value \in {0}
    BY DEF StatusLines, FieldLines
  <2>3. QED BY <2>1, <2>2
<1>5. content_length' \in 0..MaxContent
  BY <1>1, <1>4 DEF IInv, TypeOK
<1>6. ASSUME pc' \in {"read", "headers", "done"}, status' \in {"incomplete", "complete", "error"},
             result' \in {"pending", "none", "invocation"}
      PROVE  TypeOK'
  BY <1>1, <1>3, <1>5, <1>6 DEF IInv, TypeOK
<1>7. EventInv'
  <2>1. event' = Body(Len(event))'
    BY <1>1 DEF IInv, EventInv, Body
  <2>2. pc = "headers" /\ ~headers_complete'
    BY <1>1, <1>2
  <2>3. QED BY <1>1, <2>1, <2>2 DEF IInv, EventInv
<1>8. CASE LineAccepted(line)
  <2>1. UNCHANGED <<pc, status, result>>
    BY <1>8 DEF HeaderLine
  <2>2. /\ line.name \notin {"broken", "other status"} /\ line.value <= EventCap
        /\ line.name \in Required => \A i \in 1..Len(lines) : lines[i].name # line.name
    BY <1>8 DEF LineAccepted
  <2>3. GoodLines'
    <3>1. ASSUME NEW i \in 1..n
          PROVE  lines'[i].name \notin {"broken", "other status"} /\ lines'[i].value <= EventCap
      BY <1>2, <1>3, <2>2 DEF GoodLines
    <3>2. ASSUME NEW name \in Required, NEW i \in Names(name)', NEW j \in Names(name)'
          PROVE  i = j
      <4>1. i \in 1..n /\ j \in 1..n /\ lines'[i].name = name /\ lines'[j].name = name
        BY <1>3 DEF Names
      <4>2. CASE i \in 1..Len(lines) /\ j \in 1..Len(lines)
        <5>1. i \in Names(name) /\ j \in Names(name)
          BY <1>3, <4>1, <4>2 DEF Names
        <5>2. QED BY <1>2, <5>1 DEF GoodLines
      <4>3. CASE i = n /\ j \in 1..Len(lines)
        BY <1>3, <2>2, <4>1, <4>3
      <4>4. CASE i \in 1..Len(lines) /\ j = n
        BY <1>3, <2>2, <4>1, <4>4
      <4>5. QED BY <1>3, <4>1, <4>2, <4>3, <4>4
    <3>3. QED BY <1>3, <3>1, <3>2 DEF GoodLines
  <2>4. LengthLine'
    <3>1. SUFFICES ASSUME NEW i \in 1..n, lines'[i].name = "length"
                   PROVE  lines'[i].value = content_length'
      BY <1>3 DEF LengthLine, Names
    <3>2. CASE i = n
      BY <1>1, <1>3, <3>1, <3>2
    <3>3. CASE i \in 1..Len(lines)
      <4>1. lines[i].name = "length" /\ lines'[i] = lines[i]
        BY <1>3, <3>1, <3>3
      <4>2. line.name # "length"
        BY <2>2, <3>3, <4>1 DEF Required
      <4>3. lines[i].value = content_length
        BY <1>2, <3>3, <4>1 DEF LengthLine, Names
      <4>4. QED BY <1>1, <4>1, <4>2, <4>3
    <3>4. QED BY <1>3, <3>2, <3>3
  <2>5. TypeOK'
    BY <1>6, <2>1 DEF IInv, TypeOK
  <2>6. CollectInv' /\ HeadersInv'
    BY <1>1, <2>1 DEF IInv, CollectInv, HeadersInv
  <2>7. LinesInv' /\ OutcomeInv'
    BY <1>1, <1>2, <2>1, <2>3, <2>4 DEF LinesInv, OutcomeInv, GoodAnswerAccepted
  <2>8. QED BY <1>7, <2>5, <2>6, <2>7 DEF IInv
<1>9. CASE ~LineAccepted(line)
  <2>1. After("error")
    BY <1>9 DEF HeaderLine
  <2>2. pc' = "done" /\ status' = "error" /\ result' = "none"
    BY <2>1, Looked
  <2>3. ~GoodLines'
    <3>1. SUFFICES ASSUME GoodLines' PROVE FALSE
      OBVIOUS
    <3>2. line.name \notin {"broken", "other status"} /\ line.value <= EventCap
      BY <1>3, <3>1 DEF GoodLines
    <3>3. PICK i \in 1..Len(lines) : lines[i].name = line.name /\ line.name \in Required
      BY <1>9, <3>2 DEF LineAccepted
    <3>4. i \in Names(line.name)' /\ n \in Names(line.name)'
      BY <1>3, <3>3 DEF Names
    <3>5. i = n
      BY <3>1, <3>3, <3>4 DEF GoodLines
    <3>6. QED BY <1>3, <3>5 DEF n
  <2>4. TypeOK'
    BY <1>6, <2>2
  <2>5. CollectInv' /\ HeadersInv' /\ LinesInv' /\ OutcomeInv'
    BY <1>1, <1>2, <2>2, <2>3 DEF CollectInv, HeadersInv, LinesInv, OutcomeInv, GoodAnswerAccepted
  <2>6. QED BY <1>7, <2>4, <2>5 DEF IInv
<1>10. QED BY <1>8, <1>9

(* The lines are over.                                                     *)
LEMMA HeadersEndKeeps ==
  ASSUME IInv, HeadersEnd
  PROVE  IInv'
<1> DEFINE t == Len(buffer)
           m == t - header
           n == received - t
           new == IF HaveAll THEN HeldAndRest.status ELSE "error"
<1>1. /\ UNCHANGED <<header, content, received, lines, content_length>>
      /\ pc = "headers" /\ lines # <<>> /\ headers_complete' = HaveAll
      /\ event' = IF HaveAll THEN HeldAndRest.event ELSE event
      /\ After(new)
      /\ buffer' = IF HaveAll /\ Held.status # "error" THEN <<>> ELSE buffer
      /\ rest' = <<>>
  BY DEF HeadersEnd, answerVars
<1>2. /\ header \in Nat /\ content \in Nat /\ content_length \in Nat /\ received \in Nat
      /\ t \in Nat /\ received <= header + content /\ content_length \in 0..MaxContent
  BY NextAssumption DEF IInv, TypeOK
<1>3. /\ event = <<>> /\ header <= t /\ t <= received /\ t <= HeaderCap
      /\ buffer = Bytes(0, t) /\ rest = Bytes(t, received - t)
      /\ GoodLines /\ LengthLine
  BY <1>1 DEF IInv, HeadersInv, LinesInv
<1> HIDE DEF t
<1>4. /\ m \in Nat /\ n \in Nat /\ header + m = t /\ t - header = m /\ header + (m + n) = received
      /\ 0 + header = header
  BY <1>2, <1>3
<1>5. SubSeq(buffer, header + 1, t) = Bytes(header + 0, m)
  <2>1. header \in 0..t /\ t \in header..t /\ 0 \in Nat /\ header + 0 = header
    BY <1>2, <1>3
  <2>2. SubSeq(Bytes(0, t), header + 1, t) = Bytes(0 + header, t - header)
    BY <1>2, <2>1, BytesCut
  <2>3. QED BY <1>3, <1>4, <2>1, <2>2
<1>6. event = Bytes(header, 0)
  BY <1>2, <1>3, NoBytes
<1>7. rest = Bytes(header + m, n)
  BY <1>3, <1>4
<1> HIDE DEF m, n
<1>8. Held = IF m <= content_length
               THEN [event |-> Bytes(header, m),
                     status |-> IF m = content_length THEN "complete" ELSE "incomplete"]
               ELSE [event |-> event, status |-> "error"]
  <2>1. 0 \in Nat /\ 0 <= content_length /\ content_length - 0 = content_length /\ 0 + m = m
    BY <1>2, <1>4
  <2>2. AppendEvent(Bytes(header + 0, m), Bytes(header, 0))
          = IF m <= content_length - 0
              THEN [event |-> Bytes(header, 0 + m),
                    status |-> IF 0 + m = content_length THEN "complete" ELSE "incomplete"]
              ELSE [event |-> Bytes(header, 0), status |-> "error"]
    BY <1>2, <1>4, <2>1, Appended
  <2>3. Held = AppendEvent(Bytes(header + 0, m), Bytes(header, 0))
    BY <1>5, <1>6 DEF Held, t
  <2>4. QED BY <1>6, <2>1, <2>2, <2>3
<1>9. m <= content_length =>
        HeldAndRest = IF n <= content_length - m
                        THEN [event |-> Bytes(header, m + n),
                              status |-> IF m + n = content_length THEN "complete" ELSE "incomplete"]
                        ELSE [event |-> Bytes(header, m), status |-> "error"]
  <2>1. SUFFICES ASSUME m <= content_length
                 PROVE  HeldAndRest = IF n <= content_length - m
                        THEN [event |-> Bytes(header, m + n),
                              status |-> IF m + n = content_length THEN "complete" ELSE "incomplete"]
                        ELSE [event |-> Bytes(header, m), status |-> "error"]
    OBVIOUS
  <2>2. Held.status # "error" /\ Held.event = Bytes(header, m)
    BY <1>8, <2>1
  <2>3. HeldAndRest = AppendEvent(Bytes(header + m, n), Bytes(header, m))
    BY <1>7, <2>2 DEF HeldAndRest
  <2>4. QED BY <1>2, <1>4, <2>1, <2>3, Appended
<1>10. ~(m <= content_length) => HeldAndRest = [event |-> event, status |-> "error"]
  BY <1>8 DEF HeldAndRest
<1>11. /\ new \in {"incomplete", "complete", "error"}
       /\ event' \in Seq(Nat) /\ event' = Bytes(header, Len(event'))
       /\ HaveAll => Len(event') <= content_length
       /\ ~HaveAll => event' = <<>>
       /\ new = "incomplete" => HaveAll /\ received = header + Len(event')
       /\ new = "complete" => HaveAll /\ Len(event') = content_length
       /\ new = "error" => ~HaveAll \/ content_length < content
  <2>1. CASE ~HaveAll
    <3>1. event' = Bytes(header, 0) /\ event' = <<>> /\ new = "error"
      BY <1>1, <1>3, <1>6, <2>1
    <3>2. event' \in Seq(Nat) /\ Len(event') = 0
      BY <1>2, <3>1, BytesTyped
    <3>3. QED BY <2>1, <3>1, <3>2
  <2>2. CASE HaveAll /\ m <= content_length /\ n <= content_length - m
    <3>1. /\ event' = Bytes(header, m + n) /\ m + n \in Nat
          /\ new = IF m + n = content_length THEN "complete" ELSE "incomplete"
      BY <1>1, <1>4, <1>9, <2>2
    <3>2. event' \in Seq(Nat) /\ Len(event') = m + n
      BY <1>2, <3>1, BytesTyped
    <3>3. m + n <= content_length
      BY <1>2, <1>4, <2>2
    <3> HIDE DEF new
    <3>4. QED BY <1>4, <2>2, <3>1, <3>2, <3>3
  <2>3. CASE HaveAll /\ m <= content_length /\ ~(n <= content_length - m)
    <3>1. event' = Bytes(header, m) /\ new = "error"
      BY <1>1, <1>9, <2>3
    <3>2. event' \in Seq(Nat) /\ Len(event') = m
      BY <1>2, <1>4, <3>1, BytesTyped
    <3>3. content_length < content
      BY <1>2, <1>4, <2>3
    <3> HIDE DEF new
    <3>4. QED BY <2>3, <3>1, <3>2, <3>3
  <2>4. CASE HaveAll /\ ~(m <= content_length)
    <3>1. event' = Bytes(header, 0) /\ event' = <<>> /\ new = "error"
      BY <1>1, <1>3, <1>6, <1>10, <2>4
    <3>2. event' \in Seq(Nat) /\ Len(event') = 0
      BY <1>2, <3>1, BytesTyped
    <3>3. content_length < content
      BY <1>2, <1>4, <2>4
    <3> HIDE DEF new
    <3>4. QED BY <1>2, <2>4, <3>1, <3>2, <3>3
  <2>5. QED BY <2>1, <2>2, <2>3, <2>4
<1> HIDE DEF new
<1>12. /\ status' = new /\ pc' \in {"read", "done"} /\ (pc' = "read" <=> new = "incomplete")
       /\ result' \in {"pending", "none", "invocation"}
       /\ (result' = "invocation" <=> new = "complete")
       /\ (result' = "pending" <=> new = "incomplete")
  BY <1>1, <1>11, Looked
<1>13. buffer' \in Seq(Nat) /\ Len(buffer') <= HeaderCap
  <2>1. CASE buffer' = buffer
    BY <1>3, <2>1 DEF IInv, TypeOK, t
  <2>2. CASE buffer' = <<>>
    <3>1. Len(buffer') = 0 /\ buffer' \in Seq(Nat)
      BY <2>2
    <3>2. QED BY <3>1, NextAssumption
  <2>3. QED BY <1>1, <2>1, <2>2
<1>14. TypeOK'
  <2>1. rest' \in Seq(Nat) /\ headers_complete' \in BOOLEAN
    BY <1>1 DEF HaveAll
  <2>2. QED BY <1>1, <1>11, <1>12, <1>13, <2>1 DEF IInv, TypeOK
<1>15. /\ GoodLines' <=> GoodLines
       /\ LengthLine' <=> LengthLine
       /\ HaveAll' <=> HaveAll
  BY <1>1 DEF GoodLines, LengthLine, HaveAll, Names
<1>16. CollectInv' /\ HeadersInv' /\ LinesInv'
  BY <1>1, <1>3, <1>11, <1>12, <1>15 DEF CollectInv, HeadersInv, LinesInv
<1>17. EventInv'
  <2>1. event' = Body(Len(event))'
    BY <1>1, <1>11 DEF Body, Bytes
  <2>2. QED BY <1>1, <1>11, <1>12, <1>13, <2>1 DEF EventInv
<1>18. GoodAnswerAccepted'
  <2>1. SUFFICES ASSUME new = "error"
                 PROVE  \/ \E name \in Required : Names(name) = {}
                        \/ \E i \in Names("length") : lines[i].value < content
    BY <1>1, <1>12 DEF GoodAnswerAccepted, Names
  <2>2. CASE ~HaveAll
    <3>1. PICK name \in Required : name \notin {lines[i].name : i \in 1..Len(lines)}
      BY <2>2 DEF HaveAll
    <3>2. Names(name) = {}
      BY <3>1 DEF Names
    <3>3. QED BY <3>2
  <2>3. CASE HaveAll
    <3>1. content_length < content
      BY <1>11, <2>1, <2>3
    <3>2. PICK i \in 1..Len(lines) : lines[i].name = "length"
      BY <2>3 DEF HaveAll, Required
    <3>3. i \in Names("length") /\ lines[i].value = content_length
      BY <1>3, <3>2 DEF LengthLine, Names
    <3>4. QED BY <3>1, <3>3
  <2>4. QED BY <2>2, <2>3
<1>19. OutcomeInv'
  BY <1>1, <1>11, <1>12, <1>18 DEF OutcomeInv
<1>20. QED BY <1>14, <1>16, <1>17, <1>19 DEF IInv

(* Every step keeps the invariant.                                         *)
LEMMA SafetyStep == IInv /\ [Next]_vars => IInv'
<1> SUFFICES ASSUME IInv, [Next]_vars PROVE IInv'
  OBVIOUS
<1>1. ASSUME NEW k \in 1..ReadSize, FeedEvent(k) PROVE IInv'
  BY <1>1, FeedEventKeeps
<1>2. ASSUME NEW k \in 1..ReadSize, FeedHeader(k) PROVE IInv'
  BY <1>2, FeedHeaderKeeps
<1>3. ASSUME NEW line \in StatusLines \cup FieldLines, HeaderLine(line) PROVE IInv'
  BY <1>3, HeaderLineKeeps
<1>4. CASE HeadersEnd
  BY <1>4, HeadersEndKeeps
<1>5. CASE Closed
  <2>1. /\ UNCHANGED <<header, content, received, buffer, rest, lines, headers_complete,
                       content_length, event, status>>
        /\ pc = "read" /\ pc' = "done" /\ result' = "none"
    BY <1>5 DEF Closed, answerVars, parserVars
  <2>2. TypeOK' /\ CollectInv' /\ HeadersInv'
    BY <2>1 DEF IInv, TypeOK, CollectInv, HeadersInv
  <2>3. LinesInv'
    <3>1. /\ GoodLines' <=> GoodLines
          /\ LengthLine' <=> LengthLine
          /\ HaveAll' <=> HaveAll
      BY <2>1 DEF GoodLines, LengthLine, HaveAll, Names
    <3>2. QED BY <2>1, <3>1 DEF IInv, LinesInv
  <2>4. EventInv'
    BY <2>1 DEF IInv, EventInv, Body
  <2>5. OutcomeInv'
    BY <2>1 DEF IInv, OutcomeInv, GoodAnswerAccepted
  <2>6. QED BY <2>2, <2>3, <2>4, <2>5 DEF IInv
<1>6. CASE UNCHANGED vars
  <2>1. UNCHANGED <<header, content, received, pc, buffer, rest, lines, headers_complete,
                    content_length, event, status, result>>
    BY <1>6 DEF vars, answerVars, parserVars
  <2>2. TypeOK' /\ CollectInv' /\ HeadersInv'
    BY <2>1 DEF IInv, TypeOK, CollectInv, HeadersInv
  <2>3. LinesInv'
    <3>1. /\ GoodLines' <=> GoodLines
          /\ LengthLine' <=> LengthLine
          /\ HaveAll' <=> HaveAll
      BY <2>1 DEF GoodLines, LengthLine, HaveAll, Names
    <3>2. QED BY <2>1, <3>1 DEF IInv, LinesInv
  <2>4. EventInv'
    BY <2>1 DEF IInv, EventInv, Body
  <2>5. OutcomeInv'
    <3>1. GoodAnswerAccepted' <=> GoodAnswerAccepted
      BY <2>1 DEF GoodAnswerAccepted, GoodLines, Names
    <3>2. QED BY <2>1, <3>1 DEF IInv, OutcomeInv
  <2>6. QED BY <2>2, <2>3, <2>4, <2>5 DEF IInv
<1>7. QED BY <1>1, <1>2, <1>3, <1>4, <1>5, <1>6 DEF Next
-----------------------------------------------------------------------------
(* The invariant holds throughout.                                         *)
THEOREM Safety == Spec => []IInv
<1>1. IInv /\ [Next]_vars => IInv'
  BY SafetyStep
<1>2. QED BY SafetyInit, <1>1, PTL DEF Spec

(* The variables keep their types, and no more is read than was sent.      *)
THEOREM TypeCorrect == Spec => []TypeOK
BY Safety, PTL DEF IInv

LEMMA InvIsPrefix == IInv => EventIsPrefix
<1> SUFFICES ASSUME IInv PROVE EventIsPrefix
  OBVIOUS
<1>1. Len(event) <= EventCap
  <2>1. CASE headers_complete
    <3>1. PICK i \in 1..Len(lines) : lines[i].name = "length"
      BY <2>1 DEF IInv, LinesInv, HaveAll, Required
    <3>2. lines[i].value = content_length /\ lines[i].value <= EventCap
      BY <2>1, <3>1 DEF IInv, LinesInv, LengthLine, GoodLines, Names
    <3>3. Len(event) <= content_length
      BY <2>1 DEF IInv, EventInv
    <3>4. content_length \in Nat /\ Len(event) \in Nat /\ EventCap \in Nat
      BY NextAssumption DEF IInv, TypeOK
    <3>5. QED BY <3>2, <3>3, <3>4
  <2>2. CASE ~headers_complete
    <3>1. Len(event) = 0
      BY <2>2 DEF IInv, EventInv
    <3>2. QED BY <3>1, NextAssumption
  <2>3. QED BY <2>1, <2>2
<1>2. QED BY <1>1 DEF IInv, EventInv, EventIsPrefix

(* Whatever fragments recv returns, what append_event has collected is the *)
(* bytes after the header section, each once and in order, none is lost    *)
(* between buffer and rest, and neither cap is passed.                     *)
THEOREM FragmentsDoNotMatter == Spec => []EventIsPrefix
BY Safety, InvIsPrefix, PTL

LEMMA InvIsInvocation == IInv => InvocationIsWhole
<1> SUFFICES ASSUME IInv, result = "invocation"
             PROVE  /\ \A name \in Required : \E i \in Names(name) : Names(name) = {i}
                    /\ \E i \in Names("length") : event = Body(lines[i].value)
  BY DEF InvocationIsWhole
<1>1. /\ headers_complete /\ Len(event) = content_length /\ event = Body(Len(event))
      /\ HaveAll /\ GoodLines /\ LengthLine
  BY DEF IInv, OutcomeInv, LinesInv, EventInv
<1>2. ASSUME NEW name \in Required PROVE \E i \in Names(name) : Names(name) = {i}
  <2>1. PICK i \in 1..Len(lines) : lines[i].name = name
    BY <1>1 DEF HaveAll
  <2>2. i \in Names(name)
    BY <2>1 DEF Names
  <2>3. \A j \in Names(name) : j = i
    BY <1>1, <2>2 DEF GoodLines
  <2>4. QED BY <2>2, <2>3
<1>3. PICK i \in Names("length") : Names("length") = {i}
  BY <1>2 DEF Required
<1>4. event = Body(lines[i].value)
  BY <1>1, <1>3 DEF LengthLine
<1>5. QED BY <1>2, <1>3, <1>4

(* poll_next_on returns an invocation only for an answer with every        *)
(* required field exactly once and the whole event it announces.           *)
THEOREM InvocationsAreWhole == Spec => []InvocationIsWhole
BY Safety, InvIsInvocation, PTL

(* feed reports an error only for an answer that is at fault: a header     *)
(* section beyond the cap, an unsound or missing line, or more bytes than  *)
(* it announces.                                                           *)
THEOREM GoodAnswersPass == Spec => []GoodAnswerAccepted
BY Safety, PTL DEF IInv, OutcomeInv
=============================================================================
