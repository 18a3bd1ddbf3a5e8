------------------------- MODULE ResponseStreamProofs -------------------------
(***************************************************************************)
(* Theorems about ResponseStream for bodies, chunks and kernel buffers of  *)
(* any size: what the API can take for a message, and that the byte-level  *)
(* call implements Submission.                                             *)
(*                                                                         *)
(* The argument: the bytes that are still to come, on the wire and in the  *)
(* calls of write() that are left, always lead the API's decoder from where*)
(* it stands to where the writer believes it to be.  send() only moves     *)
(* bytes from the one place to the other, the API takes the first of them, *)
(* and each call of write_chunk adds bytes that lead on.                   *)
(***************************************************************************)
EXTENDS ResponseStream, SequenceTheorems, TLAPS

(* A decoder that has met nothing wrong in a message with the entity e.    *)
GoodModes == {"head", "content", "size", "size_eol", "data", "data_eol", "trailer", "complete"}

Good(e) ==
  {p \in [mode : GoodModes, left : Nat, entity : Seq(Symbols)] :
     /\ Len(p.entity) <= Len(e)
     /\ p.entity = SubSeq(e, 1, Len(p.entity))
     /\ p.mode = "complete" => p.entity = e}

At(e, mode, left, count) == [mode |-> mode, left |-> left, entity |-> SubSeq(e, 1, count)]

(* The decoder goes from one state to another over a sequence of symbols.  *)
Path(e, from, stream, f) ==
  /\ f \in [0..Len(stream) -> Good(e)]
  /\ f[0] = from
  /\ \A i \in 1..Len(stream) : f[i] = Decode(f[i - 1], stream[i])

Leads(e, from, stream, to) == \E f : Path(e, from, stream, f) /\ f[Len(stream)] = to

(* Nothing leads nowhere.                                                  *)
LEMMA LeadsNowhere ==
  ASSUME NEW e, NEW p
  PROVE  /\ p \in Good(e) => Leads(e, p, <<>>, p)
         /\ \A q : Leads(e, p, <<>>, q) => q = p /\ p \in Good(e)
<1>1. ASSUME p \in Good(e) PROVE Leads(e, p, <<>>, p)
  <2> DEFINE f == [i \in 0..0 |-> p]
  <2>1. Path(e, p, <<>>, f)
    BY <1>1 DEF Path
  <2>2. QED BY <2>1 DEF Leads
<1>2. QED BY <1>1 DEF Leads, Path

(* One symbol.                                                             *)
LEMMA LeadsOneStep ==
  ASSUME NEW e, NEW p, NEW q, NEW symbol,
         p \in Good(e) /\ q \in Good(e), Decode(p, symbol) = q
  PROVE  Leads(e, p, <<symbol>>, q)
<1> DEFINE f == [i \in 0..1 |-> IF i = 0 THEN p ELSE q]
<1>1. Path(e, p, <<symbol>>, f)
  BY DEF Path
<1>2. f[1] = q
  OBVIOUS
<1>3. Len(<<symbol>>) = 1
  OBVIOUS
<1>4. QED BY <1>1, <1>2, <1>3 DEF Leads

(* Two sequences, one after the other.                                     *)
LEMMA LeadsOn ==
  ASSUME NEW e, NEW p, NEW q, NEW r, NEW s \in Seq(Symbols), NEW t \in Seq(Symbols),
         Leads(e, p, s, q), Leads(e, q, t, r)
  PROVE  Leads(e, p, s \o t, r)
<1>1. PICK f : Path(e, p, s, f) /\ f[Len(s)] = q
  BY DEF Leads
<1>2. PICK g : Path(e, q, t, g) /\ g[Len(t)] = r
  BY DEF Leads
<1> DEFINE n == Len(s)
           m == Len(t)
           h == [i \in 0..(n + m) |-> IF i <= n THEN f[i] ELSE g[i - n]]
<1>3. /\ n \in Nat /\ m \in Nat /\ s \o t \in Seq(Symbols) /\ Len(s \o t) = n + m
      /\ \A i \in 1..(n + m) : (s \o t)[i] = IF i <= n THEN s[i] ELSE t[i - n]
  BY ConcatProperties, LenProperties
<1>4. h \in [0..(n + m) -> Good(e)] /\ h[0] = p /\ h[n + m] = r
  BY <1>1, <1>2, <1>3 DEF Path
<1>5. ASSUME NEW i \in 1..(n + m) PROVE h[i] = Decode(h[i - 1], (s \o t)[i])
  <2>1. CASE i <= n
    BY <1>1, <1>3, <2>1 DEF Path
  <2>2. CASE i = n + 1
    <3>1. h[i] = g[1] /\ h[i - 1] = g[0] /\ (s \o t)[i] = t[1] /\ 1 \in 1..m
      BY <1>1, <1>2, <1>3, <2>2 DEF Path
    <3>2. QED BY <1>2, <3>1 DEF Path
  <2>3. CASE i > n + 1
    <3>1. h[i] = g[i - n] /\ h[i - 1] = g[(i - n) - 1] /\ (s \o t)[i] = t[i - n] /\ i - n \in 1..m
      BY <1>3, <2>3
    <3>2. QED BY <1>2, <3>1 DEF Path
  <2>4. QED BY <2>1, <2>2, <2>3, <1>3
<1>6. Path(e, p, s \o t, h)
  BY <1>3, <1>4, <1>5 DEF Path
<1>7. QED BY <1>3, <1>4, <1>6 DEF Leads

(* The first symbol of a sequence.                                         *)
LEMMA LeadsThroughHead ==
  ASSUME NEW e, NEW p, NEW q, NEW s \in Seq(Symbols), s # <<>>, Leads(e, p, s, q)
  PROVE  /\ p \in Good(e) /\ Decode(p, Head(s)) \in Good(e)
         /\ Leads(e, Decode(p, Head(s)), Tail(s), q)
<1>1. PICK f : Path(e, p, s, f) /\ f[Len(s)] = q
  BY DEF Leads
<1> DEFINE n == Len(s)
           h == [i \in 0..(n - 1) |-> f[i + 1]]
<1>2. /\ n \in Nat /\ n > 0 /\ Head(s) = s[1] /\ Len(Tail(s)) = n - 1
      /\ \A i \in 1..(n - 1) : Tail(s)[i] = s[i + 1]
  BY HeadTailProperties, EmptySeq, LenProperties
<1>3. f[0] = p /\ f[1] = Decode(p, Head(s)) /\ f[0] \in Good(e) /\ f[1] \in Good(e)
  BY <1>1, <1>2 DEF Path
<1>4. h \in [0..(n - 1) -> Good(e)] /\ h[0] = f[1] /\ h[n - 1] = q
  BY <1>1, <1>2 DEF Path
<1>5. ASSUME NEW i \in 1..(n - 1) PROVE h[i] = Decode(h[i - 1], Tail(s)[i])
  <2>1. h[i] = f[i + 1] /\ h[i - 1] = f[(i + 1) - 1] /\ i + 1 \in 1..n
    BY <1>2
  <2>2. QED BY <1>1, <1>2, <2>1 DEF Path
<1>6. Path(e, f[1], Tail(s), h)
  BY <1>2, <1>4, <1>5 DEF Path
<1>7. QED BY <1>2, <1>3, <1>4, <1>6 DEF Leads
-----------------------------------------------------------------------------
(* States on the way through an entity.                                    *)
LEMMA AtIsGood ==
  ASSUME NEW e \in Seq(Symbols), NEW mode \in GoodModes, NEW left \in Nat,
         NEW count \in 0..Len(e), mode = "complete" => count = Len(e)
  PROVE  At(e, mode, left, count) \in Good(e) /\ Len(At(e, mode, left, count).entity) = count
<1> DEFINE sub == SubSeq(e, 1, count)
<1>1. Len(e) \in Nat /\ \A i \in 1..count : e[i] \in Symbols
  BY LenProperties, ElementOfSeq
<1>2. sub \in Seq(Symbols) /\ Len(sub) = count
  BY <1>1, SubSeqProperties
<1>3. count = Len(e) => sub = e
  BY SubSeqFull
<1>4. QED BY <1>1, <1>2, <1>3 DEF At, Good

(* One more symbol of the entity.                                          *)
LEMMA OneMore ==
  ASSUME NEW e \in Seq(Symbols), NEW count \in 0..(Len(e) - 1)
  PROVE  Append(SubSeq(e, 1, count), e[count + 1]) = SubSeq(e, 1, count + 1)
<1>1. Len(e) \in Nat /\ \A i \in 1..Len(e) : e[i] \in Symbols
  BY LenProperties, ElementOfSeq
<1>2. SubSeq(e, 1, count + 1) = SubSeq(e, 1, count) \o <<e[count + 1]>>
  <2>1. count + 1 \in 1..Len(e) /\ 1 \in 1..Len(e) /\ (count + 1) - 1 = count
    BY <1>1
  <2>2. SubSeq(e, 1, count + 1) = SubSeq(e, 1, (count + 1) - 1) \o <<e[count + 1]>>
    BY <2>1, SubSeqRecursiveSecond
  <2>3. QED BY <2>1, <2>2
<1>3. SubSeq(e, 1, count) \in Seq(Symbols)
  BY <1>1, SubSeqProperties
<1>4. QED BY <1>1, <1>2, <1>3, AppendIsConcat

(* A symbol of a payload.                                                  *)
LEMMA DecodeData ==
  ASSUME NEW e, NEW left \in Nat, NEW count \in Nat, NEW symbol,
         symbol[1] \in {"json", "nul", "byte"},
         Append(SubSeq(e, 1, count), symbol) = SubSeq(e, 1, count + 1)
  PROVE  Decode(At(e, "data", left, count), symbol)
           = At(e, IF left = 1 THEN "data_eol" ELSE "data", left - 1, count + 1)
BY DEF Decode, At

(* A payload that is the next part of the entity, of the announced size.   *)
LEMMA PayloadLeads ==
  ASSUME NEW e \in Seq(Symbols), NEW from \in Nat, NEW n \in Nat \ {0}, from + n <= Len(e),
         NEW payload \in Seq(Symbols), Len(payload) = n,
         \A i \in 1..n : payload[i] = e[from + i] /\ payload[i][1] \in {"json", "nul", "byte"}
  PROVE  Leads(e, At(e, "data", n, from), payload, At(e, "data_eol", 0, from + n))
<1> DEFINE Mode(i) == IF i = n THEN "data_eol" ELSE "data"
           f == [i \in 0..n |-> At(e, Mode(i), n - i, from + i)]
<1>1. Len(e) \in Nat
  BY LenProperties
<1>2. \A i \in 0..n : f[i] \in Good(e)
  <2> TAKE i \in 0..n
  <2>1. Mode(i) \in GoodModes /\ Mode(i) # "complete" /\ n - i \in Nat /\ from + i \in 0..Len(e)
    BY <1>1 DEF GoodModes
  <2>2. QED BY <2>1, AtIsGood
<1>3. ASSUME NEW i \in 1..n PROVE f[i] = Decode(f[i - 1], payload[i])
  <2>1. f[i - 1] = At(e, "data", n - (i - 1), from + (i - 1))
    BY DEF At
  <2>2. Append(SubSeq(e, 1, from + (i - 1)), e[(from + (i - 1)) + 1])
          = SubSeq(e, 1, (from + (i - 1)) + 1)
    <3>1. from + (i - 1) \in 0..(Len(e) - 1)
      BY <1>1
    <3>2. QED BY <3>1, OneMore
  <2>3. /\ (from + (i - 1)) + 1 = from + i
        /\ (n - (i - 1)) - 1 = n - i
        /\ n - (i - 1) = 1 <=> i = n
    OBVIOUS
  <2>4. Append(SubSeq(e, 1, from + (i - 1)), payload[i]) = SubSeq(e, 1, from + i)
    BY <2>2, <2>3
  <2>5. Decode(At(e, "data", n - (i - 1), from + (i - 1)), payload[i])
          = At(e, IF n - (i - 1) = 1 THEN "data_eol" ELSE "data", (n - (i - 1)) - 1, from + i)
    <3>1. /\ payload[i][1] \in {"json", "nul", "byte"}
          /\ n - (i - 1) \in Nat /\ from + (i - 1) \in Nat
      OBVIOUS
    <3>2. Append(SubSeq(e, 1, from + (i - 1)), payload[i]) = SubSeq(e, 1, (from + (i - 1)) + 1)
      BY <2>3, <2>4
    <3> HIDE DEF f
    <3>3. QED BY <2>3, <3>1, <3>2, DecodeData, SMTT(40)
  <2>6. f[i] = At(e, Mode(i), n - i, from + i)
    OBVIOUS
  <2>7. QED BY <2>1, <2>3, <2>5, <2>6
<1>4. Path(e, At(e, "data", n, from), payload, f)
  <2>1. f[0] = At(e, "data", n, from)
    BY DEF At
  <2>2. QED BY <1>2, <1>3, <2>1 DEF Path
<1>5. f[n] = At(e, "data_eol", 0, from + n)
  BY DEF At
<1>6. QED BY <1>4, <1>5 DEF Leads

(* Two and three symbols written out.                                      *)
LEMMA WrittenOut ==
  ASSUME NEW a \in Symbols, NEW b \in Symbols, NEW c \in Symbols
  PROVE  <<a>> \o <<b>> = <<a, b>> /\ (<<a>> \o <<b>>) \o <<c>> = <<a, b, c>>
<1>1. /\ <<a>> \in Seq(Symbols) /\ <<b>> \in Seq(Symbols) /\ <<c>> \in Seq(Symbols)
      /\ <<a, b>> \in Seq(Symbols) /\ <<a, b, c>> \in Seq(Symbols)
      /\ Len(<<a>>) = 1 /\ Len(<<b>>) = 1 /\ Len(<<c>>) = 1
      /\ Len(<<a, b>>) = 2 /\ Len(<<a, b, c>>) = 3
  OBVIOUS
<1>2. <<a>> \o <<b>> = <<a, b>>
  <2>1. /\ <<a>> \o <<b>> \in Seq(Symbols) /\ Len(<<a>> \o <<b>>) = 2
        /\ \A i \in 1..2 : (<<a>> \o <<b>>)[i] = IF i <= 1 THEN <<a>>[i] ELSE <<b>>[i - 1]
    BY <1>1, ConcatProperties
  <2>2. \A i \in 1..2 : (<<a>> \o <<b>>)[i] = <<a, b>>[i]
    BY <2>1
  <2>3. QED BY <1>1, <2>1, <2>2, SeqEqual
<1>3. <<a, b>> \o <<c>> = <<a, b, c>>
  <2>1. /\ <<a, b>> \o <<c>> \in Seq(Symbols) /\ Len(<<a, b>> \o <<c>>) = 3
        /\ \A i \in 1..3 : (<<a, b>> \o <<c>>)[i] = IF i <= 2 THEN <<a, b>>[i] ELSE <<c>>[i - 2]
    BY <1>1, ConcatProperties
  <2>2. \A i \in 1..3 : (<<a, b>> \o <<c>>)[i] = <<a, b, c>>[i]
    BY <2>1
  <2>3. QED BY <1>1, <2>1, <2>2, SeqEqual
<1>4. QED BY <1>2, <1>3

(* What write_chunk sends for a part of the entity.                        *)
LEMMA ChunkLeads ==
  ASSUME NEW e \in Seq(Symbols), NEW from \in Nat, NEW n \in Nat \ {0}, from + n <= Len(e),
         NEW payload \in Seq(Symbols), Len(payload) = n,
         \A i \in 1..n : payload[i] = e[from + i] /\ payload[i][1] \in {"json", "nul", "byte"},
         <<"size", n>> \in Symbols, <<"eol", 0>> \in Symbols
  PROVE  Leads(e, At(e, "size", 0, from),
               <<<<"size", n>>, <<"eol", 0>>>> \o (payload \o <<<<"eol", 0>>>>),
               At(e, "size", 0, from + n))
<1> DEFINE size == <<<<"size", n>>>>
           eol == <<<<"eol", 0>>>>
<1>1. Len(e) \in Nat /\ from \in 0..Len(e) /\ from + n \in 0..Len(e)
  BY LenProperties
<1>2. Leads(e, At(e, "size", 0, from), size, At(e, "size_eol", n, from))
  <2>1. At(e, "size", 0, from) \in Good(e) /\ At(e, "size_eol", n, from) \in Good(e)
    BY <1>1, AtIsGood DEF GoodModes
  <2>2. Decode(At(e, "size", 0, from), <<"size", n>>) = At(e, "size_eol", n, from)
    BY DEF Decode, At
  <2>3. QED BY <2>1, <2>2, LeadsOneStep
<1>3. Leads(e, At(e, "size_eol", n, from), eol, At(e, "data", n, from))
  <2>1. At(e, "size_eol", n, from) \in Good(e) /\ At(e, "data", n, from) \in Good(e)
    BY <1>1, AtIsGood DEF GoodModes
  <2>2. Decode(At(e, "size_eol", n, from), <<"eol", 0>>) = At(e, "data", n, from)
    BY DEF Decode, At
  <2>3. QED BY <2>1, <2>2, LeadsOneStep
<1>4. Leads(e, At(e, "data_eol", 0, from + n), eol, At(e, "size", 0, from + n))
  <2>1. At(e, "data_eol", 0, from + n) \in Good(e) /\ At(e, "size", 0, from + n) \in Good(e)
    BY <1>1, AtIsGood DEF GoodModes
  <2>2. Decode(At(e, "data_eol", 0, from + n), <<"eol", 0>>) = At(e, "size", 0, from + n)
    BY DEF Decode, At
  <2>3. QED BY <2>1, <2>2, LeadsOneStep
<1>5. size \in Seq(Symbols) /\ eol \in Seq(Symbols)
  OBVIOUS
<1>6. Leads(e, At(e, "size", 0, from), size \o eol, At(e, "data", n, from))
  BY <1>2, <1>3, <1>5, LeadsOn
<1>7. Leads(e, At(e, "data", n, from), payload \o eol, At(e, "size", 0, from + n))
  BY <1>4, <1>5, PayloadLeads, LeadsOn
<1>8. /\ size \o eol = <<<<"size", n>>, <<"eol", 0>>>>
      /\ size \o eol \in Seq(Symbols) /\ payload \o eol \in Seq(Symbols)
  BY <1>5, WrittenOut, ConcatProperties
<1>9. QED BY <1>6, <1>7, <1>8, LeadsOn

(* The terminal chunk, and the two heads.                                  *)
LEMMA LastChunkLeads ==
  ASSUME NEW e \in Seq(Symbols), <<"size", 0>> \in Symbols, <<"eol", 0>> \in Symbols
  PROVE  Leads(e, At(e, "size", 0, Len(e)), LastChunk[1], At(e, "complete", 0, Len(e)))
<1> DEFINE size == <<<<"size", 0>>>>
           eol == <<<<"eol", 0>>>>
           P(mode) == At(e, mode, 0, Len(e))
<1>1. \A mode \in GoodModes : P(mode) \in Good(e)
  <2>1. Len(e) \in Nat
    BY LenProperties
  <2>2. QED BY <2>1, AtIsGood
<1>2. Leads(e, P("size"), size, P("size_eol"))
  <2>1. Decode(P("size"), <<"size", 0>>) = P("size_eol")
    BY DEF Decode, At
  <2>2. QED BY <1>1, <2>1, LeadsOneStep DEF GoodModes
<1>3. Leads(e, P("size_eol"), eol, P("trailer"))
  <2>1. Decode(P("size_eol"), <<"eol", 0>>) = P("trailer")
    BY DEF Decode, At
  <2>2. QED BY <1>1, <2>1, LeadsOneStep DEF GoodModes
<1>4. Leads(e, P("trailer"), eol, P("complete"))
  <2>1. Decode(P("trailer"), <<"eol", 0>>) = P("complete")
    BY DEF Decode, At
  <2>2. QED BY <1>1, <2>1, LeadsOneStep DEF GoodModes
<1>5. size \in Seq(Symbols) /\ eol \in Seq(Symbols)
  OBVIOUS
<1>6. Leads(e, P("size"), size \o eol, P("trailer"))
  BY <1>2, <1>3, <1>5, LeadsOn
<1>7. size \o eol \in Seq(Symbols) /\ (size \o eol) \o eol = LastChunk[1]
  BY <1>5, WrittenOut, ConcatProperties DEF LastChunk
<1>8. Leads(e, P("size"), (size \o eol) \o eol, P("complete"))
  BY <1>4, <1>5, <1>6, <1>7, LeadsOn
<1>9. QED BY <1>7, <1>8
-----------------------------------------------------------------------------
(* Facts about sequences.                                                  *)
LEMMA PushedFront ==
  ASSUME NEW C, NEW x \in C, NEW t \in Seq(C)
  PROVE  /\ <<x>> \o t \in Seq(C) /\ Len(<<x>> \o t) = Len(t) + 1
         /\ <<x>> \o t # <<>> /\ Head(<<x>> \o t) = x /\ Tail(<<x>> \o t) = t
<1> DEFINE d == <<x>> \o t
<1>1. <<x>> \in Seq(C) /\ Len(<<x>>) = 1 /\ <<x>>[1] = x
  OBVIOUS
<1>2. /\ d \in Seq(C) /\ Len(d) = 1 + Len(t) /\ Len(t) \in Nat
      /\ \A i \in 1..(1 + Len(t)) : d[i] = IF i <= 1 THEN <<x>>[i] ELSE t[i - 1]
  BY <1>1, ConcatProperties
<1> HIDE DEF d
<1>3. d # <<>> /\ d[1] = x
  BY <1>1, <1>2
<1>4. \A i \in 1..Len(t) : d[i + 1] = t[i]
  BY <1>2
<1>5. /\ Tail(d) \in Seq(C) /\ Len(Tail(d)) = Len(t)
      /\ \A i \in 1..Len(Tail(d)) : Tail(d)[i] = d[i + 1]
  BY <1>2, <1>3, HeadTailProperties
<1>6. Tail(d) = t
  BY <1>4, <1>5, SeqEqual
<1>7. Head(d) = d[1]
  BY <1>2, <1>3
<1>8. QED BY <1>2, <1>3, <1>6, <1>7 DEF d

LEMMA Associative ==
  ASSUME NEW C, NEW s \in Seq(C), NEW t \in Seq(C), NEW u \in Seq(C)
  PROVE  (s \o t) \o u = s \o (t \o u)
BY ConcatAssociative

LEMMA Joined ==
  ASSUME NEW C, NEW s \in Seq(C), NEW t \in Seq(C)
  PROVE  /\ s \o t \in Seq(C) /\ Len(s \o t) = Len(s) + Len(t)
         /\ s \o <<>> = s /\ <<>> \o s = s
         /\ s # <<>> => s \o t # <<>> /\ Head(s \o t) = Head(s) /\ Tail(s \o t) = Tail(s) \o t
<1>1. s \o t \in Seq(C) /\ Len(s \o t) = Len(s) + Len(t)
  BY ConcatProperties
<1>2. s \o <<>> = s /\ <<>> \o s = s
  BY ConcatEmptySeq
<1>3. ASSUME s # <<>>
      PROVE  s \o t # <<>> /\ Head(s \o t) = Head(s) /\ Tail(s \o t) = Tail(s) \o t
  <2>1. Head(s) \in C /\ Tail(s) \in Seq(C) /\ <<Head(s)>> \in Seq(C)
    BY <1>3
  <2>2. s = <<Head(s)>> \o Tail(s)
    <3>1. /\ <<Head(s)>> \o Tail(s) \in Seq(C) /\ Len(<<Head(s)>> \o Tail(s)) = Len(Tail(s)) + 1
          /\ \A i \in 1..(1 + Len(Tail(s))) :
               (<<Head(s)>> \o Tail(s))[i] = IF i <= 1 THEN <<Head(s)>>[i] ELSE Tail(s)[i - 1]
      BY <2>1, ConcatProperties
    <3>2. /\ Len(Tail(s)) = Len(s) - 1 /\ Head(s) = s[1] /\ Len(s) \in Nat /\ Len(s) >= 1
          /\ \A i \in 1..Len(Tail(s)) : Tail(s)[i] = s[i + 1]
      BY <1>3, HeadTailProperties
    <3>3. \A i \in 1..Len(s) : (<<Head(s)>> \o Tail(s))[i] = s[i]
      BY <3>1, <3>2
    <3>4. QED BY <3>1, <3>2, <3>3, SeqEqual
  <2>3. s \o t = <<Head(s)>> \o (Tail(s) \o t)
    BY <2>1, <2>2, Associative
  <2>4. Tail(s) \o t \in Seq(C)
    BY <2>1, ConcatProperties
  <2>5. QED BY <2>1, <2>3, <2>4, PushedFront
<1>4. QED BY <1>1, <1>2, <1>3

(* The calls of write() that are left, as one sequence of symbols: there   *)
(* are never more than three.                                              *)
Call == Seq(Symbols) \ {<<>>}
First(c) == IF c = <<>> THEN <<>> ELSE Head(c)
Others(c) == IF c = <<>> THEN <<>> ELSE Tail(c)
Flat(c) == First(c) \o (First(Others(c)) \o First(Others(Others(c))))

LEMMA FlatCalls ==
  ASSUME NEW c \in Seq(Call), Len(c) <= 3
  PROVE  /\ Flat(c) \in Seq(Symbols)
         /\ c = <<>> => Flat(c) = <<>>
         /\ c # <<>> => /\ Head(c) \in Call /\ Tail(c) \in Seq(Call) /\ Len(Tail(c)) <= 2
                        /\ Flat(c) = Head(c) \o Flat(Tail(c))
                        /\ Flat(c) # <<>>
<1>1. ASSUME NEW x \in Seq(Call)
      PROVE  First(x) \in Seq(Symbols) /\ Others(x) \in Seq(Call)
  <2>1. CASE x = <<>>
    BY <2>1 DEF First, Others
  <2>2. CASE x # <<>>
    <3>1. Head(x) \in Call /\ Tail(x) \in Seq(Call)
      BY <2>2
    <3>2. QED BY <2>2, <3>1 DEF First, Others, Call
  <2>3. QED BY <2>1, <2>2
<1> DEFINE c1 == Others(c)
           c2 == Others(c1)
           c3 == Others(c2)
<1>2. /\ c1 \in Seq(Call) /\ c2 \in Seq(Call) /\ c3 \in Seq(Call)
      /\ First(c) \in Seq(Symbols) /\ First(c1) \in Seq(Symbols) /\ First(c2) \in Seq(Symbols)
      /\ First(c3) \in Seq(Symbols)
  BY <1>1
<1>3. \A x \in Seq(Call) : x # <<>> => Len(Others(x)) = Len(x) - 1
  BY DEF Others
<1>4. c3 = <<>>
  <2>1. CASE c = <<>> \/ c1 = <<>> \/ c2 = <<>>
    BY <2>1 DEF Others
  <2>2. CASE c # <<>> /\ c1 # <<>> /\ c2 # <<>>
    <3>1. Len(c1) = Len(c) - 1 /\ Len(c2) = Len(c1) - 1 /\ Len(c3) = Len(c2) - 1
      BY <1>2, <1>3, <2>2
    <3>2. Len(c) \in Nat /\ Len(c3) \in Nat
      BY <1>2
    <3>3. Len(c3) = 0
      BY <3>1, <3>2
    <3> HIDE DEF c3
    <3>4. QED BY <1>2, <3>3, EmptySeq
  <2>3. QED BY <2>1, <2>2
<1> HIDE DEF c1, c2, c3
<1>5. First(c1) \o First(c2) \in Seq(Symbols) /\ First(c2) \o First(c3) \in Seq(Symbols)
  BY <1>2, Joined
<1>6. Flat(c) = First(c) \o (First(c1) \o First(c2)) /\ Flat(c) \in Seq(Symbols)
  BY <1>2, <1>5, Joined DEF Flat, c1, c2
<1>7. CASE c = <<>>
  BY <1>6, <1>7, ConcatEmptySeq DEF Flat, First, Others
<1>8. CASE c # <<>>
  <2>1. First(c) = Head(c) /\ c1 = Tail(c) /\ Head(c) \in Call
    BY <1>8 DEF First, Others, c1
  <2>2. Len(c1) = Len(c) - 1 /\ Len(c1) <= 2
    BY <1>3, <1>8 DEF c1
  <2>3. First(c3) = <<>>
    BY <1>4 DEF First
  <2>4. Flat(c1) = First(c1) \o First(c2)
    <3>1. First(c2) \o First(c3) = First(c2)
      BY <1>2, <2>3, ConcatEmptySeq
    <3>2. QED BY <3>1 DEF Flat, c2, c3
  <2>5. Flat(c) # <<>>
    BY <1>2, <1>5, <1>6, <2>1, Joined DEF Call
  <2>6. Flat(c) = Head(c) \o Flat(Tail(c))
    BY <1>6, <2>1, <2>4
  <2>7. Tail(c) \in Seq(Call) /\ Len(Tail(c)) <= 2
    BY <1>2, <2>1, <2>2
  <2>8. QED BY <1>6, <1>8, <2>1, <2>5, <2>6, <2>7
<1>9. QED BY <1>7, <1>8

LEMMA Regrouped ==
  ASSUME NEW w \in Seq(Symbols), NEW f \in Seq(Symbols), NEW r \in Seq(Symbols),
         NEW g \in Seq(Symbols)
  PROVE  (w \o f) \o (r \o g) = w \o ((f \o r) \o g)
<1>1. r \o g \in Seq(Symbols)
  BY Joined
<1>2. (w \o f) \o (r \o g) = w \o (f \o (r \o g))
  BY <1>1, Associative, SMTT(40)
<1>3. (f \o r) \o g = f \o (r \o g)
  BY Associative
<1>4. QED BY <1>2, <1>3

(* What is left of the calls after k bytes of the first.                   *)
CallsLeft(c, k) ==
  LET rest == SubSeq(Head(c), k + 1, Len(Head(c)))
  IN IF rest = <<>> THEN Tail(c) ELSE <<rest>> \o Tail(c)

(* send() moves the first bytes of the first call to the end of the wire:  *)
(* what is still to come is the same.                                      *)
LEMMA SendMoves ==
  ASSUME NEW c \in Seq(Call), Len(c) <= 3, c # <<>>, NEW w \in Seq(Symbols),
         NEW k \in Nat, 1 <= k, k <= Len(Head(c))
  PROVE  /\ CallsLeft(c, k) \in Seq(Call) /\ Len(CallsLeft(c, k)) <= 3
         /\ w \o SubSeq(Head(c), 1, k) \in Seq(Symbols)
         /\ Len(w \o SubSeq(Head(c), 1, k)) = Len(w) + k
         /\ (w \o SubSeq(Head(c), 1, k)) \o Flat(CallsLeft(c, k)) = w \o Flat(c)
<1> DEFINE h == Head(c)
           t == Tail(c)
           first == SubSeq(h, 1, k)
           rest == SubSeq(h, k + 1, Len(h))
           d == CallsLeft(c, k)
<1>0. d = IF rest = <<>> THEN t ELSE <<rest>> \o t
  BY DEF CallsLeft
<1> HIDE DEF d
<1>1. /\ h \in Call /\ t \in Seq(Call) /\ Len(t) <= 2 /\ Flat(c) = h \o Flat(t)
  BY FlatCalls
<1>2. h \in Seq(Symbols) /\ Len(h) \in Nat
  BY <1>1, LenProperties DEF Call
<1> HIDE DEF h, t
<1>3. \A i \in 1..Len(h) : h[i] \in Symbols
  BY <1>2, ElementOfSeq
<1>4. first \in Seq(Symbols) /\ Len(first) = k
  BY <1>2, <1>3, SubSeqProperties DEF h
<1>5. rest \in Seq(Symbols)
  BY <1>2, <1>3, SubSeqProperties DEF h
<1> HIDE DEF rest
<1>6. first \o rest = h
  <2>1. k \in 1..Len(h) /\ 1 \in 1..(k + 1)
    BY <1>2 DEF h
  <2>2. SubSeq(h, 1, k) \o SubSeq(h, k + 1, Len(h)) = SubSeq(h, 1, Len(h))
    BY <1>2, <2>1, ConcatAdjacentSubSeq
  <2>3. SubSeq(h, 1, Len(h)) = h
    BY <1>2, SubSeqFull
  <2>4. QED BY <2>2, <2>3 DEF h, rest
<1> HIDE DEF first
<1>7. Flat(t) \in Seq(Symbols)
  <2>1. Len(t) <= 3
    BY <1>1
  <2>2. QED BY <1>1, <2>1, FlatCalls
<1>8. d \in Seq(Call) /\ Len(d) <= 3 /\ Flat(d) = rest \o Flat(t)
  <2>1. CASE rest = <<>>
    <3>1. d = t
      BY <1>0, <2>1
    <3>2. <<>> \o Flat(t) = Flat(t)
      BY <1>7, ConcatEmptySeq
    <3>3. Len(t) <= 3
      BY <1>1
    <3>4. QED BY <1>1, <2>1, <3>1, <3>2, <3>3
  <2>2. CASE rest # <<>>
    <3>1. d = <<rest>> \o t /\ rest \in Call
      BY <1>0, <1>5, <2>2 DEF Call
    <3>2. d \in Seq(Call) /\ Len(d) = Len(t) + 1 /\ d # <<>> /\ Head(d) = rest /\ Tail(d) = t
      <4>1. /\ <<rest>> \o t \in Seq(Call) /\ Len(<<rest>> \o t) = Len(t) + 1
            /\ <<rest>> \o t # <<>> /\ Head(<<rest>> \o t) = rest /\ Tail(<<rest>> \o t) = t
        BY <1>1, <3>1, PushedFront
      <4>2. d = <<rest>> \o t
        BY <3>1
      <4>3. QED BY <4>1, <4>2
    <3>3. Len(d) <= 3
      <4>1. Len(t) \in Nat
        BY <1>1
      <4>2. QED BY <1>1, <3>2, <4>1
    <3>4. QED BY <3>2, <3>3, FlatCalls
  <2>3. QED BY <2>1, <2>2
<1>9. w \o first \in Seq(Symbols) /\ Len(w \o first) = Len(w) + k
  BY <1>4, Joined
<1>10. (w \o first) \o Flat(d) = w \o Flat(c)
  <2>1. (w \o first) \o (rest \o Flat(t)) = w \o ((first \o rest) \o Flat(t))
    <3> DEFINE g == Flat(t)
    <3>1. w \in Seq(Symbols) /\ first \in Seq(Symbols) /\ rest \in Seq(Symbols) /\ g \in Seq(Symbols)
      BY <1>4, <1>5, <1>7
    <3> HIDE DEF g
    <3>2. (w \o first) \o (rest \o g) = w \o ((first \o rest) \o g)
      BY ONLY <3>1, Regrouped, SMTT(40)
    <3>3. QED BY <3>2 DEF g
  <2>2. QED BY <1>1, <1>6, <1>8, <2>1
<1>11. QED BY <1>8, <1>9, <1>10 DEF first, h, d
-----------------------------------------------------------------------------
(* The entity and the chunks, symbol by symbol.                            *)
LEMMA EntityTyped ==
  ASSUME request \in {"response", "error"}, body \in 0..MaxBody
  PROVE  /\ Entity \in Seq(Symbols)
         /\ request = "error" => Len(Entity) = 1 /\ Entity[1] = <<"json", 2>>
         /\ request = "response" =>
              /\ Len(Entity) = 2 + body
              /\ Entity[1] = <<"json", 1>> /\ Entity[2] = <<"nul", 8>>
              /\ \A i \in 1..body : Entity[2 + i] = <<"byte", i>>
<1> USE StreamAssumption
<1>1. CASE request = "error"
  <2>1. Entity = <<<<"json", 2>>>> /\ <<"json", 2>> \in Symbols
    BY <1>1 DEF Entity, ErrorBody, Symbols
  <2>2. QED BY <1>1, <2>1
<1>2. CASE request = "response"
  <2> DEFINE bytes == BodyBytes(0, body)
  <2>1. body \in Nat
    OBVIOUS
  <2>2. /\ <<"json", 1>> \in Symbols /\ <<"nul", 8>> \in Symbols
        /\ \A i \in 1..body : <<"byte", i>> \in Symbols
    BY DEF Symbols
  <2>3. Metadata \in Seq(Symbols) /\ Len(Metadata) = 2
    BY <2>2 DEF Metadata
  <2>4. \A i \in 1..body : bytes[i] = <<"byte", i>>
    BY DEF BodyBytes
  <2>5. bytes \in [1..body -> Symbols]
    BY <2>2 DEF BodyBytes
  <2>6. bytes \in Seq(Symbols) /\ Len(bytes) = body
    <3> HIDE DEF bytes
    <3>1. QED BY <2>1, <2>5, SeqDef, LenProperties
  <2> HIDE DEF bytes
  <2>7. /\ Metadata \o bytes \in Seq(Symbols) /\ Len(Metadata \o bytes) = 2 + body
        /\ \A i \in 1..(2 + body) :
             (Metadata \o bytes)[i] = IF i <= 2 THEN Metadata[i] ELSE bytes[i - 2]
    <3> DEFINE meta == Metadata
    <3>1. meta \in Seq(Symbols) /\ Len(meta) = 2
      BY <2>3
    <3> HIDE DEF meta
    <3>2. /\ meta \o bytes \in Seq(Symbols) /\ Len(meta \o bytes) = Len(meta) + Len(bytes)
          /\ \A i \in 1..(Len(meta) + Len(bytes)) :
               (meta \o bytes)[i] = IF i <= Len(meta) THEN meta[i] ELSE bytes[i - Len(meta)]
      BY <2>6, <3>1, ConcatProperties
    <3>3. QED BY <2>6, <3>1, <3>2 DEF meta
  <2>8. Entity = Metadata \o bytes
    BY <1>2 DEF Entity, bytes
  <2>9. Metadata[1] = <<"json", 1>> /\ Metadata[2] = <<"nul", 8>>
    BY DEF Metadata
  <2>10. Entity[1] = <<"json", 1>> /\ Entity[2] = <<"nul", 8>>
    <3>1. 1 \in 1..(2 + body) /\ 2 \in 1..(2 + body) /\ 1 <= 2 /\ 2 <= 2
      BY <2>1
    <3>2. (Metadata \o bytes)[1] = Metadata[1] /\ (Metadata \o bytes)[2] = Metadata[2]
      BY <2>7, <3>1
    <3>3. QED BY <2>8, <2>9, <3>2
  <2>11. ASSUME NEW i \in 1..body PROVE Entity[2 + i] = <<"byte", i>>
    <3>1. 2 + i \in 1..(2 + body) /\ ~(2 + i <= 2) /\ (2 + i) - 2 = i
      BY <2>1
    <3>2. QED BY <2>4, <2>7, <2>8, <3>1
  <2>12. QED BY <1>2, <2>7, <2>8, <2>10, <2>11
<1>3. QED BY <1>1, <1>2

(* The three calls of write_chunk.                                         *)
LEMMA ChunkTyped ==
  ASSUME NEW payload \in Seq(Symbols), payload # <<>>,
         <<"size", Len(payload)>> \in Symbols, <<"eol", 0>> \in Symbols
  PROVE  /\ Chunk(payload) \in Seq(Call) /\ Len(Chunk(payload)) <= 3
         /\ Flat(Chunk(payload))
              = <<<<"size", Len(payload)>>, <<"eol", 0>>>> \o (payload \o <<<<"eol", 0>>>>)
<1> DEFINE a == <<<<"size", Len(payload)>>, <<"eol", 0>>>>
           b == <<<<"eol", 0>>>>
<1>1. a \in Call /\ b \in Call /\ payload \in Call
  BY DEF Call
<1>2. Chunk(payload) = <<a, payload, b>>
  BY DEF Chunk
<1> HIDE DEF a, b
<1>3. <<a, payload, b>> \in Seq(Call) /\ Len(<<a, payload, b>>) <= 3
  BY <1>1
<1>4. /\ <<a, payload, b>> # <<>> /\ Head(<<a, payload, b>>) = a
      /\ Tail(<<a, payload, b>>) = <<payload, b>>
      /\ <<payload, b>> # <<>> /\ Head(<<payload, b>>) = payload /\ Tail(<<payload, b>>) = <<b>>
      /\ <<b>> # <<>> /\ Head(<<b>>) = b
  BY <1>1
<1>5. Flat(<<a, payload, b>>) = a \o (payload \o b)
  BY <1>4 DEF Flat, First, Others
<1>6. QED BY <1>2, <1>3, <1>5 DEF a, b

LEMMA SingleCall ==
  ASSUME NEW h \in Call
  PROVE  <<h>> \in Seq(Call) /\ Len(<<h>>) <= 3 /\ Flat(<<h>>) = h
<1>1. <<h>> \in Seq(Call) /\ Len(<<h>>) = 1 /\ Head(<<h>>) = h /\ Tail(<<h>>) = <<>> /\ <<h>> # <<>>
  OBVIOUS
<1>2. Flat(<<h>>) = h \o (<<>> \o <<>>)
  BY <1>1 DEF Flat, First, Others
<1>3. <<>> \o <<>> = <<>> /\ h \o <<>> = h
  <2>1. h \in Seq(Symbols) /\ <<>> \in Seq(Symbols)
    BY DEF Call
  <2>2. QED BY <2>1, ConcatEmptySeq
<1>4. QED BY <1>1, <1>2, <1>3

(* After the end of the message the decoder takes nothing more.            *)
LEMMA NothingAfterComplete ==
  ASSUME NEW e, NEW p, NEW s \in Seq(Symbols), NEW q, Leads(e, p, s, q), p.mode = "complete"
  PROVE  s = <<>> /\ q = p
<1>1. CASE s = <<>>
  BY <1>1, LeadsNowhere
<1>2. CASE s # <<>>
  <2>1. p \in Good(e) /\ Decode(p, Head(s)) \in Good(e)
    BY <1>2, LeadsThroughHead
  <2>2. Decode(p, Head(s)) = [p EXCEPT !.mode = "malformed"]
    BY DEF Decode
  <2>3. Decode(p, Head(s)).mode = "malformed"
    BY <2>1, <2>2 DEF Good
  <2>4. FALSE
    BY <2>1, <2>3 DEF Good, GoodModes
  <2>5. QED BY <2>4
<1>3. QED BY <1>1, <1>2
-----------------------------------------------------------------------------
(* Where the writer believes the decoder to be once everything that is     *)
(* still to come has been taken.                                           *)
Written ==
  CASE stage = "head" ->
         IF request = "error" THEN At(Entity, "complete", 0, 1) ELSE At(Entity, "size", 0, 0)
    [] stage = "metadata" -> At(Entity, "size", 0, 2)
    [] stage = "body" -> At(Entity, "size", 0, 2 + offset)
    [] OTHER -> At(Entity, "complete", 0, Len(Entity))

(* The stages in which the end of the message may be under way.            *)
FinishedStage == stage \in {"head", "last", "shutdown", "ack"} /\ (stage = "head" => request = "error")

Truncated(e) == {[p EXCEPT !.mode = "truncated"] : p \in Good(e)}

(* How far the writer is.                                                  *)
StageInv ==
  /\ Len(calls) <= 3
  /\ stage \in {"head", "metadata"} => offset = 0
  /\ stage = "last" => offset = body
  /\ request = "error" => stage \in {"head", "shutdown", "ack"} /\ body = 0
  /\ stage \in {"shutdown", "ack"} => calls = <<>>

(* The decoder is always in a good state, or was when the end came.        *)
PeerInv ==
  /\ peer \in Good(Entity) \cup Truncated(Entity)
  /\ peer.mode = "complete" => calls = <<>> /\ FinishedStage
  /\ peer.mode = "truncated" => wire = <<>> /\ (stage = "ack" \/ outcome = "failed")
  /\ ~started => peer.mode \in {"head", "truncated"}

(* What is still to come leads it to where the writer believes it to be.   *)
StreamInv ==
  /\ ~usable => wire = <<>>
  /\ usable /\ peer.mode # "truncated" =>
       \E to : /\ Leads(Entity, peer, wire \o Flat(calls), to)
               /\ Pending => to = Written
               /\ to.mode = "complete" => FinishedStage

(* The API answers only what it has whole, and the client believes only a  *)
(* 202 it has read to the end.                                             *)
AnswerInv ==
  /\ reply.status = "none" => acked = 0
  /\ reply.status # "none" => peer.mode = "complete"
  /\ outcome = "acknowledged" => reply.status = "202" /\ acked = reply.size

IInv == TypeOK /\ StageInv /\ PeerInv /\ StreamInv /\ AnswerInv

(* A cut off decoder, by its fields.                                       *)
LEMMA TruncatedPeer ==
  ASSUME NEW e, NEW p \in Good(e)
  PROVE  /\ p.mode \in GoodModes /\ p.left \in Nat /\ p.entity \in Seq(Symbols)
         /\ Len(p.entity) <= Len(e) /\ p.entity = SubSeq(e, 1, Len(p.entity))
         /\ p.mode = "complete" => p.entity = e
         /\ [p EXCEPT !.mode = "truncated"] \in Truncated(e)
         /\ [p EXCEPT !.mode = "truncated"].mode = "truncated"
         /\ [p EXCEPT !.mode = "truncated"].left = p.left
         /\ [p EXCEPT !.mode = "truncated"].entity = p.entity
BY DEF Good, Truncated

LEMMA PeerFields ==
  ASSUME NEW e, NEW p \in Good(e) \cup Truncated(e)
  PROVE  /\ p.mode \in GoodModes \cup {"truncated"} /\ p.left \in Nat
         /\ p.entity \in Seq(Symbols) /\ p.entity = SubSeq(e, 1, Len(p.entity))
         /\ p.mode = "complete" => p.entity = e
         /\ p.mode # "truncated" => p \in Good(e)
<1>1. CASE p \in Good(e)
  BY <1>1, TruncatedPeer
<1>2. CASE p \in Truncated(e)
  <2>1. PICK r \in Good(e) : p = [r EXCEPT !.mode = "truncated"]
    BY <1>2 DEF Truncated
  <2>2. /\ r.mode \in GoodModes /\ r.left \in Nat /\ r.entity \in Seq(Symbols)
        /\ r.entity = SubSeq(e, 1, Len(r.entity))
        /\ p.mode = "truncated" /\ p.left = r.left /\ p.entity = r.entity
    BY <2>1, TruncatedPeer
  <2>3. p.mode \in GoodModes \cup {"truncated"} /\ p.mode # "complete"
    BY <2>2
  <2>4. p.left \in Nat /\ p.entity \in Seq(Symbols) /\ p.entity = SubSeq(e, 1, Len(p.entity))
    BY <2>2
  <2>5. QED BY <2>2, <2>3, <2>4
<1>3. QED BY <1>1, <1>2

(* At the beginning the head is all there is to come.                      *)
LEMMA HeadLeads ==
  ASSUME NEW e \in Seq(Symbols), <<"head", 1>> \in Symbols, <<"head", 2>> \in Symbols,
         <<"head", 3>> \in Symbols, <<"json", 2>> \in Symbols
  PROVE  /\ RequestHead \in Call /\ ErrorHead \o ErrorBody \in Call
         /\ Leads(e, At(e, "head", 0, 0), RequestHead, At(e, "size", 0, 0))
         /\ e = ErrorBody =>
              Leads(e, At(e, "head", 0, 0), ErrorHead \o ErrorBody, At(e, "complete", 0, 1))
<1> DEFINE H(n) == <<<<"head", n>>>>
           P(mode) == At(e, mode, 0, 0)
<1>1. H(1) \in Seq(Symbols) /\ H(2) \in Seq(Symbols) /\ H(3) \in Seq(Symbols)
      /\ ErrorBody \in Seq(Symbols)
  BY DEF ErrorBody
<1>2. P("head") \in Good(e) /\ P("size") \in Good(e) /\ P("content") \in Good(e)
  <2>1. 0 \in 0..Len(e)
    BY LenProperties
  <2>2. QED BY <2>1, AtIsGood DEF GoodModes
<1>3. Leads(e, P("head"), H(1), P("head"))
  <2>1. Decode(P("head"), <<"head", 1>>) = P("head")
    BY DEF Decode, At
  <2>2. QED BY <1>2, <2>1, LeadsOneStep
<1>4. Leads(e, P("head"), H(2), P("size"))
  <2>1. Decode(P("head"), <<"head", 2>>) = P("size")
    BY DEF Decode, At
  <2>2. QED BY <1>2, <2>1, LeadsOneStep
<1>5. Leads(e, P("head"), H(3), P("content"))
  <2>1. Decode(P("head"), <<"head", 3>>) = P("content")
    BY DEF Decode, At
  <2>2. QED BY <1>2, <2>1, LeadsOneStep
<1>6. RequestHead = H(1) \o H(2) /\ ErrorHead = H(1) \o H(3)
  BY WrittenOut DEF RequestHead, ErrorHead
<1>7. Leads(e, P("head"), RequestHead, P("size")) /\ Leads(e, P("head"), ErrorHead, P("content"))
  BY <1>1, <1>3, <1>4, <1>5, <1>6, LeadsOn
<1>8. ErrorHead \in Seq(Symbols) /\ RequestHead \in Call /\ ErrorHead # <<>>
  BY DEF ErrorHead, RequestHead, Call
<1>9. ErrorHead \o ErrorBody \in Call
  BY <1>1, <1>8, Joined DEF Call
<1>10. ASSUME e = ErrorBody
       PROVE  Leads(e, P("head"), ErrorHead \o ErrorBody, At(e, "complete", 0, 1))
  <2>1. e[1] = <<"json", 2>> /\ Len(e) = 1
    BY <1>10 DEF ErrorBody
  <2>2. At(e, "complete", 0, 1) \in Good(e)
    <3>1. 1 \in 0..Len(e) /\ "complete" \in GoodModes
      BY <2>1 DEF GoodModes
    <3>2. QED BY <2>1, <3>1, AtIsGood
  <2>3. Append(SubSeq(e, 1, 0), <<"json", 2>>) = SubSeq(e, 1, 1)
    <3>1. 0 \in 0..(Len(e) - 1)
      BY <2>1
    <3>2. QED BY <2>1, <3>1, OneMore
  <2>4. Decode(P("content"), <<"json", 2>>) = At(e, "complete", 0, 1)
    BY <2>3 DEF Decode, At
  <2>5. Leads(e, P("content"), <<<<"json", 2>>>>, At(e, "complete", 0, 1))
    BY <1>2, <2>2, <2>4, LeadsOneStep
  <2>6. Leads(e, P("content"), ErrorBody, At(e, "complete", 0, 1))
    BY <2>5 DEF ErrorBody
  <2>7. QED BY <1>1, <1>7, <1>8, <2>6, LeadsOn
<1>11. QED BY <1>7, <1>8, <1>9, <1>10

LEMMA SafetyInit == Init => IInv
<1> SUFFICES ASSUME Init PROVE IInv
  OBVIOUS
<1> USE StreamAssumption DEF Init
<1>1. request \in {"response", "error"} /\ body \in 0..MaxBody /\ 0 \in 0..body
  OBVIOUS
<1>2. /\ <<"head", 1>> \in Symbols /\ <<"head", 2>> \in Symbols /\ <<"head", 3>> \in Symbols
      /\ <<"json", 2>> \in Symbols
  BY DEF Symbols
<1>3. Entity \in Seq(Symbols)
  BY <1>1, EntityTyped
<1> DEFINE h == IF request = "response" THEN RequestHead ELSE ErrorHead \o ErrorBody
           to == IF request = "response" THEN At(Entity, "size", 0, 0)
                 ELSE At(Entity, "complete", 0, 1)
<1>4. peer = At(Entity, "head", 0, 0)
  <2>1. SubSeq(Entity, 1, 0) = <<>>
    BY <1>3, SubSeqEmpty
  <2>2. QED BY <2>1 DEF At
<1>5. h \in Call /\ Leads(Entity, peer, h, to)
  <2>1. /\ RequestHead \in Call /\ ErrorHead \o ErrorBody \in Call
        /\ Leads(Entity, At(Entity, "head", 0, 0), RequestHead, At(Entity, "size", 0, 0))
        /\ Entity = ErrorBody =>
             Leads(Entity, At(Entity, "head", 0, 0), ErrorHead \o ErrorBody,
                   At(Entity, "complete", 0, 1))
    BY <1>2, <1>3, HeadLeads
  <2>2. CASE request = "response"
    BY <1>4, <2>1, <2>2
  <2>3. CASE request = "error"
    <3>1. Entity = ErrorBody
      BY <2>3 DEF Entity
    <3>2. QED BY <1>4, <2>1, <2>3, <3>1
  <2>4. QED BY <1>1, <2>2, <2>3
<1>6. calls = <<h>> /\ wire = <<>>
  OBVIOUS
<1> HIDE DEF h
<1>7. calls \in Seq(Call) /\ Len(calls) <= 3 /\ Flat(calls) = h
  BY <1>5, <1>6, SingleCall
<1>8. wire \o Flat(calls) = h
  <2>1. h \in Seq(Symbols)
    BY <1>5 DEF Call
  <2>2. QED BY <1>6, <1>7, <2>1, Joined
<1>9. to = Written
  BY <1>1 DEF Written
<1>10. to.mode = "complete" => FinishedStage
  BY <1>1 DEF At, FinishedStage
<1> HIDE DEF to
<1>11. StreamInv
  BY <1>5, <1>8, <1>9, <1>10 DEF StreamInv
<1>12. TypeOK
  <2>1. /\ calls \in Seq(Seq(Symbols) \ {<<>>})
    BY <1>7 DEF Call
  <2>2. /\ stage = "head" /\ offset = 0 /\ wire = <<>> /\ usable = TRUE /\ started = FALSE
        /\ acked = 0 /\ outcome = "pending"
        /\ peer.mode = "head" /\ peer.left = 0 /\ peer.entity = <<>>
        /\ reply.status = "none" /\ reply.size = 0
    OBVIOUS
  <2>3. wire \in Seq(Symbols) /\ Len(wire) <= WireCap /\ peer.entity \in Seq(Symbols)
    BY <2>2
  <2>4. reply.size \in 0..MaxReply /\ acked \in 0..reply.size
    BY <2>2
  <2>5. QED BY <1>1, <2>1, <2>2, <2>3, <2>4 DEF TypeOK, Ended
<1>13. peer \in Good(Entity)
  <2>1. 0 \in 0..Len(Entity)
    BY <1>3, LenProperties
  <2>2. QED BY <1>3, <1>4, <2>1, AtIsGood DEF GoodModes
<1>14. PeerInv
  BY <1>13 DEF PeerInv
<1>15. StageInv /\ AnswerInv
  BY <1>1, <1>7 DEF StageInv, AnswerInv
<1>16. QED BY <1>11, <1>12, <1>14, <1>15 DEF IInv

(* Nothing changes what is submitted.                                      *)
LEMMA EntityKept ==
  ASSUME UNCHANGED <<request, body>>
  PROVE  Entity' = Entity
BY DEF Entity

(* Once all is written, more bytes lead on from there.                     *)
LEMMA WriteOn ==
  ASSUME IInv, Pending, usable, peer.mode # "truncated", calls = <<>>,
         NEW c \in Seq(Call), Len(c) <= 3, NEW q, Leads(Entity, Written, Flat(c), q)
  PROVE  Leads(Entity, peer, wire \o Flat(c), q)
<1>1. PICK to : Leads(Entity, peer, wire \o Flat(calls), to) /\ to = Written
  BY DEF IInv, StreamInv
<1>2. Flat(calls) = <<>> /\ wire \in Seq(Symbols) /\ Flat(c) \in Seq(Symbols)
  <2>1. calls \in Seq(Call) /\ Len(calls) <= 3
    BY DEF IInv, TypeOK, StageInv, Call
  <2>2. QED BY <2>1, FlatCalls DEF IInv, TypeOK
<1>3. wire \o Flat(calls) = wire
  BY <1>2, ConcatEmptySeq
<1>4. QED BY <1>1, <1>2, <1>3, LeadsOn

(* The chunk NextChunk begins is the next part of the body.                *)
LEMMA NextChunkLeads ==
  ASSUME IInv, MoreBody, stage \in {"metadata", "body"}
  PROVE  /\ ChunkSize \in Nat \ {0} /\ offset + ChunkSize \in 0..body
         /\ Chunk(BodyBytes(offset, ChunkSize)) \in Seq(Call)
         /\ Len(Chunk(BodyBytes(offset, ChunkSize))) <= 3
         /\ Leads(Entity, At(Entity, "size", 0, 2 + offset), Flat(Chunk(BodyBytes(offset, ChunkSize))),
                  At(Entity, "size", 0, 2 + (offset + ChunkSize)))
<1> DEFINE n == ChunkSize
           payload == BodyBytes(offset, n)
<1>1. /\ request = "response" /\ body \in 0..MaxBody /\ offset \in 0..body
      /\ body \in Nat /\ offset \in Nat
  BY StreamAssumption DEF IInv, TypeOK, StageInv
<1>2. n \in Nat \ {0} /\ n <= ChunkBytes /\ offset + n \in 0..body
  BY <1>1, StreamAssumption DEF ChunkSize, MoreBody
<1> HIDE DEF n
<1>3. /\ Entity \in Seq(Symbols) /\ Len(Entity) = 2 + body
      /\ \A i \in 1..body : Entity[2 + i] = <<"byte", i>>
  BY <1>1, EntityTyped
<1>4. /\ <<"size", n>> \in Symbols /\ <<"eol", 0>> \in Symbols
      /\ \A i \in 1..body : <<"byte", i>> \in Symbols
  BY <1>1, <1>2, StreamAssumption DEF Symbols
<1>5. payload \in [1..n -> Symbols] /\ \A i \in 1..n : payload[i] = <<"byte", offset + i>>
  BY <1>1, <1>2, <1>4 DEF BodyBytes
<1> HIDE DEF payload
<1>6. payload \in Seq(Symbols) /\ Len(payload) = n /\ payload # <<>>
  <2>1. payload \in Seq(Symbols) /\ Len(payload) = n
    BY <1>2, <1>5, SeqDef, LenProperties
  <2>2. QED BY <1>2, <2>1, EmptySeq
<1>7. ASSUME NEW i \in 1..n
      PROVE  payload[i] = Entity[(2 + offset) + i] /\ payload[i][1] \in {"json", "nul", "byte"}
  <2>1. offset + i \in 1..body /\ (2 + offset) + i = 2 + (offset + i)
    BY <1>1, <1>2
  <2>2. payload[i] = <<"byte", offset + i>>
    BY <1>5
  <2>3. Entity[2 + (offset + i)] = <<"byte", offset + i>>
    BY <1>3, <2>1
  <2>4. QED BY <2>1, <2>2, <2>3
<1>8. 2 + offset \in Nat /\ (2 + offset) + n <= Len(Entity) /\ (2 + offset) + n = 2 + (offset + n)
  BY <1>1, <1>2, <1>3
<1>9. Leads(Entity, At(Entity, "size", 0, 2 + offset),
            <<<<"size", n>>, <<"eol", 0>>>> \o (payload \o <<<<"eol", 0>>>>),
            At(Entity, "size", 0, (2 + offset) + n))
  BY <1>2, <1>3, <1>4, <1>6, <1>7, <1>8, ChunkLeads
<1>10. /\ Chunk(payload) \in Seq(Call) /\ Len(Chunk(payload)) <= 3
       /\ Flat(Chunk(payload)) = <<<<"size", n>>, <<"eol", 0>>>> \o (payload \o <<<<"eol", 0>>>>)
  BY <1>4, <1>6, ChunkTyped
<1>11. QED BY <1>2, <1>8, <1>9, <1>10 DEF n, payload

LEMMA MetadataLeads ==
  ASSUME IInv, request = "response"
  PROVE  /\ Chunk(Metadata) \in Seq(Call) /\ Len(Chunk(Metadata)) <= 3
         /\ Leads(Entity, At(Entity, "size", 0, 0), Flat(Chunk(Metadata)), At(Entity, "size", 0, 2))
<1>1. body \in 0..MaxBody /\ body \in Nat
  BY StreamAssumption DEF IInv, TypeOK
<1>2. /\ Entity \in Seq(Symbols) /\ Len(Entity) = 2 + body
      /\ Entity[1] = <<"json", 1>> /\ Entity[2] = <<"nul", 8>>
  BY <1>1, EntityTyped
<1>3. /\ <<"size", 2>> \in Symbols /\ <<"eol", 0>> \in Symbols
      /\ <<"json", 1>> \in Symbols /\ <<"nul", 8>> \in Symbols
  BY StreamAssumption DEF Symbols
<1>4. Metadata \in Seq(Symbols) /\ Len(Metadata) = 2 /\ Metadata # <<>>
  BY <1>3 DEF Metadata
<1>5. ASSUME NEW i \in 1..2
      PROVE  Metadata[i] = Entity[0 + i] /\ Metadata[i][1] \in {"json", "nul", "byte"}
  <2>1. i = 1 \/ i = 2
    OBVIOUS
  <2>2. QED BY <1>2, <2>1, SMTT(40) DEF Metadata
<1>6. 0 + 2 <= Len(Entity) /\ 0 + 2 = 2 /\ 0 \in Nat /\ 2 \in Nat \ {0}
  BY <1>1, <1>2
<1>7. Leads(Entity, At(Entity, "size", 0, 0),
            <<<<"size", 2>>, <<"eol", 0>>>> \o (Metadata \o <<<<"eol", 0>>>>),
            At(Entity, "size", 0, 0 + 2))
  BY <1>2, <1>3, <1>4, <1>5, <1>6, ChunkLeads
<1>8. /\ Chunk(Metadata) \in Seq(Call) /\ Len(Chunk(Metadata)) <= 3
      /\ Flat(Chunk(Metadata)) = <<<<"size", 2>>, <<"eol", 0>>>> \o (Metadata \o <<<<"eol", 0>>>>)
  BY <1>3, <1>4, ChunkTyped
<1>9. QED BY <1>6, <1>7, <1>8

(* Every step keeps the invariant.                                         *)
LEMMA SafetyStep == IInv /\ [Next]_vars => IInv'
<1> SUFFICES ASSUME IInv, [Next]_vars PROVE IInv'
  OBVIOUS
<1> USE DEF writerVars, apiVars
<1>1. ASSUME NEW k \in 1..WireCap, Send(k) PROVE IInv'
  <2> DEFINE first == SubSeq(Head(calls), 1, k)
  <2>1. /\ calls \in Seq(Call) /\ Len(calls) <= 3 /\ calls # <<>> /\ wire \in Seq(Symbols)
        /\ k \in Nat /\ 1 <= k /\ k <= Len(Head(calls))
    BY <1>1, StreamAssumption DEF Send, IInv, TypeOK, StageInv, Call
  <2>2. calls' = IF Remainder(k) = <<>> THEN Tail(calls) ELSE <<Remainder(k)>> \o Tail(calls)
    BY <1>1 DEF Send
  <2>3. /\ calls' \in Seq(Call) /\ Len(calls') <= 3
        /\ wire \o first \in Seq(Symbols) /\ Len(wire \o first) = Len(wire) + k
        /\ (wire \o first) \o Flat(calls') = wire \o Flat(calls)
    <3>1. calls' = CallsLeft(calls, k)
      BY <2>2 DEF Remainder, CallsLeft
    <3>2. QED BY <2>1, <3>1, SendMoves
  <2>4. wire' = wire \o first /\ Len(wire) + k <= WireCap
    BY <1>1 DEF Send
  <2> HIDE DEF first
  <2>5. /\ UNCHANGED <<request, body, stage, offset, peer, started, reply, usable, acked, outcome>>
        /\ Pending /\ usable
    BY <1>1 DEF Send
  <2>6. Entity' = Entity /\ Written' = Written /\ (FinishedStage' <=> FinishedStage)
    BY <2>5, EntityKept DEF Written, FinishedStage
  <2>7. peer.mode # "complete" /\ peer.mode # "truncated"
    BY <2>1, <2>5 DEF IInv, PeerInv, StageInv, Pending
  <2>8. TypeOK'
    BY <2>3, <2>4, <2>5 DEF IInv, TypeOK, Call
  <2>9. StageInv'
    BY <2>1, <2>3, <2>5 DEF IInv, StageInv
  <2>10. PeerInv'
    BY <2>5, <2>6, <2>7 DEF IInv, PeerInv
  <2>11. StreamInv'
    BY <2>3, <2>4, <2>5, <2>6 DEF IInv, StreamInv, Pending
  <2>12. AnswerInv'
    BY <2>5 DEF IInv, AnswerInv
  <2>13. QED BY <2>8, <2>9, <2>10, <2>11, <2>12 DEF IInv
<1>2. CASE HeadWritten
  <2>1. /\ UNCHANGED <<request, body, offset, peer, started, reply, wire, usable, acked, outcome>>
        /\ Pending /\ stage = "head" /\ calls = <<>>
    BY <1>2 DEF HeadWritten
  <2>2. Entity' = Entity
    BY <2>1, EntityKept
  <2>3. CASE request = "error"
    <3>1. stage' = "shutdown" /\ calls' = calls
      BY <1>2, <2>3 DEF HeadWritten
    <3>2. Len(Entity) = 1
      BY <2>3, EntityTyped DEF IInv, TypeOK
    <3>3. Written' = Written /\ FinishedStage'
      BY <2>1, <2>2, <2>3, <3>1, <3>2 DEF Written, FinishedStage
    <3>4. TypeOK' /\ StageInv'
      BY <2>1, <2>3, <3>1 DEF IInv, TypeOK, StageInv
    <3>5. PeerInv'
      BY <2>1, <2>2, <3>1, <3>3 DEF IInv, PeerInv, Pending
    <3>6. StreamInv'
      BY <2>1, <2>2, <3>1, <3>3 DEF IInv, StreamInv, Pending
    <3>7. AnswerInv'
      BY <2>1 DEF IInv, AnswerInv
    <3>8. QED BY <3>4, <3>5, <3>6, <3>7 DEF IInv
  <2>4. CASE request = "response"
    <3>1. stage' = "metadata" /\ calls' = Chunk(Metadata)
      BY <1>2, <2>4 DEF HeadWritten
    <3>2. /\ calls' \in Seq(Call) /\ Len(calls') <= 3
          /\ Leads(Entity, At(Entity, "size", 0, 0), Flat(calls'), At(Entity, "size", 0, 2))
      BY <2>4, <3>1, MetadataLeads
    <3>3. Written = At(Entity, "size", 0, 0) /\ Written' = At(Entity, "size", 0, 2)
      BY <2>1, <2>2, <2>4, <3>1 DEF Written
    <3>4. peer.mode # "complete" /\ peer.mode # "truncated"
      BY <2>1, <2>4 DEF IInv, PeerInv, FinishedStage, Pending
    <3>5. TypeOK'
      BY <2>1, <3>1, <3>2 DEF IInv, TypeOK, Call
    <3>6. StageInv'
      BY <2>1, <2>4, <3>1, <3>2 DEF IInv, StageInv
    <3>7. PeerInv'
      BY <2>1, <2>2, <3>4 DEF IInv, PeerInv
    <3>8. StreamInv'
      <4>1. usable => Leads(Entity, peer, wire \o Flat(calls'), Written')
        BY <2>1, <3>2, <3>3, <3>4, WriteOn
      <4>2. Written'.mode # "complete"
        BY <3>3 DEF At
      <4>3. QED BY <2>1, <2>2, <4>1, <4>2 DEF IInv, StreamInv, Pending
    <3>9. AnswerInv'
      BY <2>1 DEF IInv, AnswerInv
    <3>10. QED BY <3>5, <3>6, <3>7, <3>8, <3>9 DEF IInv
  <2>5. QED BY <2>3, <2>4 DEF IInv, TypeOK
<1>3. CASE MetadataThrows
  <2>1. /\ UNCHANGED <<request, body, offset, calls, peer, started, reply, wire, usable, acked>>
        /\ Pending /\ stage = "head" /\ calls = <<>> /\ request = "response"
        /\ stage' = "metadata" /\ outcome' = "failed"
    BY <1>3 DEF MetadataThrows
  <2>2. Entity' = Entity /\ ~Pending'
    BY <2>1, EntityKept DEF Pending
  <2>3. peer.mode # "complete" /\ peer.mode # "truncated"
    BY <2>1 DEF IInv, PeerInv, FinishedStage, Pending
  <2>4. TypeOK' /\ StageInv' /\ AnswerInv'
    BY <2>1 DEF IInv, TypeOK, StageInv, AnswerInv
  <2>5. PeerInv'
    BY <2>1, <2>2, <2>3 DEF IInv, PeerInv
  <2>6. StreamInv'
    <3>1. Written = At(Entity, "size", 0, 0)
      BY <2>1 DEF Written
    <3>2. Written.mode # "complete"
      BY <3>1 DEF At
    <3>3. QED BY <2>1, <2>2, <3>2 DEF IInv, StreamInv, Pending
  <2>7. QED BY <2>4, <2>5, <2>6 DEF IInv
<1>4. CASE NextChunk
  <2>1. /\ UNCHANGED <<request, body, peer, started, reply, wire, usable, acked, outcome>>
        /\ Pending /\ stage \in {"metadata", "body"} /\ calls = <<>> /\ MoreBody
        /\ stage' = "body" /\ calls' = Chunk(BodyBytes(offset, ChunkSize))
        /\ offset' = offset + ChunkSize
    BY <1>4 DEF NextChunk
  <2>2. /\ offset' \in 0..body /\ calls' \in Seq(Call) /\ Len(calls') <= 3
        /\ Leads(Entity, At(Entity, "size", 0, 2 + offset), Flat(calls'),
                 At(Entity, "size", 0, 2 + offset'))
    BY <2>1, NextChunkLeads
  <2>3. Entity' = Entity
    BY <2>1, EntityKept
  <2>4. Written = At(Entity, "size", 0, 2 + offset)
    BY <2>1 DEF IInv, StageInv, Written
  <2>5. Written' = At(Entity, "size", 0, 2 + offset')
    BY <2>1, <2>3 DEF Written
  <2>6. peer.mode # "complete" /\ peer.mode # "truncated"
    BY <2>1 DEF IInv, PeerInv, FinishedStage, Pending
  <2>7. TypeOK'
    BY <2>1, <2>2 DEF IInv, TypeOK, Call
  <2>8. StageInv'
    BY <2>1, <2>2 DEF IInv, StageInv
  <2>9. PeerInv'
    BY <2>1, <2>3, <2>6 DEF IInv, PeerInv
  <2>10. StreamInv'
    <3>1. usable => Leads(Entity, peer, wire \o Flat(calls'), Written')
      BY <2>1, <2>2, <2>4, <2>5, <2>6, WriteOn
    <3>2. Written'.mode # "complete"
      BY <2>5 DEF At
    <3>3. QED BY <2>1, <2>3, <3>1, <3>2 DEF IInv, StreamInv, Pending
  <2>11. AnswerInv'
    BY <2>1 DEF IInv, AnswerInv
  <2>12. QED BY <2>7, <2>8, <2>9, <2>10, <2>11 DEF IInv
<1>5. CASE BodyWritten
  <2>1. /\ UNCHANGED <<request, body, offset, peer, started, reply, wire, usable, acked, outcome>>
        /\ Pending /\ stage \in {"metadata", "body"} /\ calls = <<>> /\ ~MoreBody
        /\ stage' = "last" /\ calls' = LastChunk
    BY <1>5 DEF BodyWritten
  <2>2. /\ request = "response" /\ body \in 0..MaxBody /\ offset = body /\ body \in Nat
        /\ Entity \in Seq(Symbols) /\ Len(Entity) = 2 + body
    <3>1. /\ request = "response" /\ body \in 0..MaxBody /\ offset \in 0..body
      BY <2>1 DEF IInv, TypeOK, StageInv
    <3>2. offset = body /\ body \in Nat
      BY <2>1, <3>1, StreamAssumption DEF MoreBody
    <3>3. QED BY <3>1, <3>2, EntityTyped
  <2>3. <<"size", 0>> \in Symbols /\ <<"eol", 0>> \in Symbols
    BY StreamAssumption DEF Symbols
  <2>4. /\ LastChunk \in Seq(Call) /\ Len(LastChunk) <= 3 /\ Flat(LastChunk) = LastChunk[1]
    <3>1. LastChunk[1] \in Call /\ LastChunk = <<LastChunk[1]>>
      BY <2>3 DEF LastChunk, Call
    <3>2. QED BY <3>1, SingleCall
  <2>5. Leads(Entity, At(Entity, "size", 0, Len(Entity)), Flat(calls'),
              At(Entity, "complete", 0, Len(Entity)))
    BY <2>1, <2>2, <2>3, <2>4, LastChunkLeads
  <2>6. Entity' = Entity
    BY <2>1, EntityKept
  <2>7. Written = At(Entity, "size", 0, Len(Entity))
    <3>1. Written = At(Entity, "size", 0, 2 + offset)
      BY <2>1 DEF IInv, StageInv, Written
    <3>2. QED BY <2>2, <3>1
  <2>8. Written' = At(Entity, "complete", 0, Len(Entity)) /\ FinishedStage'
    BY <2>1, <2>6 DEF Written, FinishedStage
  <2>9. peer.mode # "complete" /\ peer.mode # "truncated"
    BY <2>1 DEF IInv, PeerInv, FinishedStage, Pending
  <2>10. TypeOK'
    BY <2>1, <2>4 DEF IInv, TypeOK, Call
  <2>11. StageInv'
    BY <2>1, <2>2, <2>4 DEF IInv, StageInv
  <2>12. PeerInv'
    BY <2>1, <2>6, <2>9 DEF IInv, PeerInv
  <2>13. StreamInv'
    <3>1. usable => Leads(Entity, peer, wire \o Flat(calls'), Written')
      BY <2>1, <2>4, <2>5, <2>7, <2>8, <2>9, WriteOn
    <3>2. QED BY <2>1, <2>6, <2>8, <3>1 DEF IInv, StreamInv, Pending
  <2>14. AnswerInv'
    BY <2>1 DEF IInv, AnswerInv
  <2>15. QED BY <2>10, <2>11, <2>12, <2>13, <2>14 DEF IInv
<1>6. CASE LastWritten \/ ShutdownWrite
  <2>1. /\ UNCHANGED <<request, body, offset, calls, peer, started, reply, wire, usable, acked,
                       outcome>>
        /\ Pending /\ stage \in {"last", "shutdown"} /\ stage' \in {"shutdown", "ack"}
        /\ calls = <<>>
    BY <1>6 DEF LastWritten, ShutdownWrite, IInv, StageInv
  <2>2. Entity' = Entity /\ (Pending' <=> Pending)
    BY <2>1, EntityKept DEF Pending
  <2>3. Written' = Written /\ FinishedStage'
    BY <2>1, <2>2 DEF Written, FinishedStage
  <2>4. TypeOK' /\ StageInv' /\ AnswerInv'
    BY <2>1 DEF IInv, TypeOK, StageInv, AnswerInv
  <2>5. PeerInv'
    BY <2>1, <2>2, <2>3 DEF IInv, PeerInv, Pending
  <2>6. StreamInv'
    BY <2>1, <2>2, <2>3 DEF IInv, StreamInv
  <2>7. QED BY <2>4, <2>5, <2>6 DEF IInv
<1>7. CASE WriteFails \/ ReadFails
  <2>1. /\ UNCHANGED <<request, body, stage, offset, calls, peer, started, reply, wire, usable,
                       acked>>
        /\ Pending /\ ~usable /\ outcome' = "failed"
    BY <1>7 DEF WriteFails, ReadFails, ReportsError
  <2>2. Entity' = Entity /\ (FinishedStage' <=> FinishedStage)
    BY <2>1, EntityKept DEF FinishedStage
  <2>3. TypeOK' /\ StageInv' /\ AnswerInv'
    BY <2>1 DEF IInv, TypeOK, StageInv, AnswerInv
  <2>4. PeerInv'
    BY <2>1, <2>2 DEF IInv, PeerInv
  <2>5. StreamInv'
    BY <2>1 DEF IInv, StreamInv
  <2>6. QED BY <2>3, <2>4, <2>5 DEF IInv
<1>8. ASSUME NEW k \in 1..ReadSize, ReadAck(k) PROVE IInv'
  <2>1. /\ UNCHANGED <<request, body, stage, offset, calls, peer, started, reply, wire, usable>>
        /\ Pending /\ stage = "ack" /\ reply.status # "none"
        /\ k <= reply.size - acked /\ acked' = acked + k
        /\ outcome' = IF HeaderEnds(acked + k) THEN Answer
                      ELSE IF acked + k > AckCap THEN "failed" ELSE "pending"
    BY <1>8 DEF ReadAck
  <2>2. Entity' = Entity /\ Written' = Written /\ (FinishedStage' <=> FinishedStage)
    BY <2>1, EntityKept DEF Written, FinishedStage
  <2>3. outcome' \in {"pending", "acknowledged", "failed"}
        /\ (outcome' = "acknowledged" => reply.status = "202" /\ acked' = reply.size)
    BY <2>1 DEF Answer, HeaderEnds
  <2>4. acked' \in 0..reply.size
    BY <2>1, StreamAssumption DEF IInv, TypeOK
  <2>5. TypeOK'
    BY <2>1, <2>3, <2>4 DEF IInv, TypeOK
  <2>6. StageInv'
    BY <2>1 DEF IInv, StageInv
  <2>7. AnswerInv'
    BY <2>1, <2>3 DEF IInv, AnswerInv
  <2>8. PeerInv'
    BY <2>1, <2>2 DEF IInv, PeerInv
  <2>9. StreamInv'
    BY <2>1, <2>2 DEF IInv, StreamInv, Pending
  <2>10. QED BY <2>5, <2>6, <2>7, <2>8, <2>9 DEF IInv
<1>9. CASE Take
  <2>1. /\ UNCHANGED <<request, body, stage, offset, calls, reply, usable, acked, outcome>>
        /\ wire # <<>> /\ wire' = Tail(wire) /\ started' = TRUE
        /\ peer.mode \notin Ended /\ peer' = Decode(peer, Head(wire))
    BY <1>9 DEF Take
  <2>2. /\ Entity' = Entity /\ Written' = Written /\ (FinishedStage' <=> FinishedStage)
        /\ (Pending' <=> Pending)
    BY <2>1, EntityKept DEF Written, FinishedStage, Pending
  <2>3. usable /\ peer.mode # "truncated" /\ reply.status = "none"
    BY <2>1 DEF IInv, StreamInv, AnswerInv, Ended
  <2>4. PICK to : /\ Leads(Entity, peer, wire \o Flat(calls), to)
                  /\ Pending => to = Written
                  /\ to.mode = "complete" => FinishedStage
    BY <2>3 DEF IInv, StreamInv
  <2>5. wire \in Seq(Symbols) /\ Flat(calls) \in Seq(Symbols) /\ Tail(wire) \in Seq(Symbols)
        /\ Len(Tail(wire)) <= WireCap
    <3>1. wire \in Seq(Symbols) /\ Len(wire) <= WireCap /\ calls \in Seq(Call) /\ Len(calls) <= 3
      BY DEF IInv, TypeOK, StageInv, Call
    <3>2. Tail(wire) \in Seq(Symbols) /\ Len(Tail(wire)) = Len(wire) - 1 /\ Len(wire) \in Nat
      BY <2>1, <3>1
    <3>3. Flat(calls) \in Seq(Symbols)
      BY <3>1, FlatCalls
    <3>4. Len(Tail(wire)) <= WireCap
      BY <3>1, <3>2, StreamAssumption
    <3>5. QED BY <3>1, <3>2, <3>3, <3>4
  <2>6. /\ wire \o Flat(calls) \in Seq(Symbols) /\ wire \o Flat(calls) # <<>>
        /\ Head(wire \o Flat(calls)) = Head(wire)
        /\ Tail(wire \o Flat(calls)) = Tail(wire) \o Flat(calls)
    BY <2>1, <2>5, Joined
  <2>7. peer' \in Good(Entity) /\ Leads(Entity, peer', Tail(wire) \o Flat(calls), to)
    BY <2>1, <2>4, <2>6, LeadsThroughHead
  <2>8. ASSUME peer'.mode = "complete" PROVE calls = <<>> /\ FinishedStage
    <3>1. Tail(wire) \o Flat(calls) \in Seq(Symbols)
      BY <2>5, Joined
    <3>2. Tail(wire) \o Flat(calls) = <<>> /\ to = peer'
      BY <2>7, <2>8, <3>1, NothingAfterComplete
    <3>3. Flat(calls) = <<>>
      <4>1. Len(Tail(wire)) + Len(Flat(calls)) = 0
        <5>1. Len(Tail(wire) \o Flat(calls)) = Len(Tail(wire)) + Len(Flat(calls))
          BY <2>5, Joined
        <5>2. Len(Tail(wire) \o Flat(calls)) = 0
          BY <3>1, <3>2, EmptySeq
        <5>3. QED BY <5>1, <5>2
      <4>2. Len(Tail(wire)) \in Nat /\ Len(Flat(calls)) \in Nat
        BY <2>5, LenProperties
      <4>3. Len(Flat(calls)) = 0
        BY <4>1, <4>2
      <4>4. QED BY <2>5, <4>3, EmptySeq
    <3>4. calls = <<>>
      BY <3>3, FlatCalls DEF IInv, TypeOK, StageInv, Call
    <3>5. QED BY <2>4, <2>8, <3>2, <3>4
  <2>9. peer'.mode \in GoodModes /\ peer'.left \in Nat /\ peer'.entity \in Seq(Symbols)
    BY <2>7, TruncatedPeer
  <2>10. TypeOK'
    BY <2>1, <2>5, <2>9 DEF IInv, TypeOK, GoodModes, Ended
  <2>11. StageInv'
    BY <2>1 DEF IInv, StageInv
  <2>12. PeerInv'
    BY <2>1, <2>2, <2>7, <2>8, <2>9 DEF PeerInv, GoodModes
  <2>13. StreamInv'
    BY <2>1, <2>2, <2>3, <2>4, <2>7 DEF StreamInv
  <2>14. AnswerInv'
    BY <2>1, <2>3 DEF IInv, AnswerInv
  <2>15. QED BY <2>10, <2>11, <2>12, <2>13, <2>14 DEF IInv
<1>10. CASE TakeEnd
  <2>1. /\ UNCHANGED <<request, body, stage, offset, calls, started, reply, wire, usable, acked,
                       outcome>>
        /\ wire = <<>> /\ peer.mode \notin Ended /\ (stage = "ack" \/ outcome = "failed")
        /\ peer' = [peer EXCEPT !.mode = "truncated"]
    BY <1>10 DEF TakeEnd
  <2>2. Entity' = Entity
    BY <2>1, EntityKept
  <2>3. peer \in Good(Entity)
    BY <2>1, PeerFields DEF IInv, PeerInv, Ended
  <2>4. /\ peer' \in Truncated(Entity) /\ peer'.mode = "truncated"
        /\ peer'.left \in Nat /\ peer'.entity \in Seq(Symbols)
    BY <2>1, <2>3, TruncatedPeer
  <2>5. TypeOK'
    BY <2>1, <2>4 DEF IInv, TypeOK, Ended
  <2>6. StageInv'
    BY <2>1 DEF IInv, StageInv
  <2>7. AnswerInv'
    BY <2>1 DEF IInv, AnswerInv, Ended
  <2>8. PeerInv'
    BY <2>1, <2>2, <2>4 DEF PeerInv
  <2>9. StreamInv'
    BY <2>1, <2>4 DEF IInv, StreamInv
  <2>10. QED BY <2>5, <2>6, <2>7, <2>8, <2>9 DEF IInv
<1>11. CASE Reply
  <2>1. /\ UNCHANGED <<request, body, stage, offset, calls, peer, started, wire, usable, acked,
                       outcome>>
        /\ peer.mode = "complete" /\ reply.status = "none"
        /\ reply' \in [status : {"202", "other"}, size : 1..MaxReply]
    BY <1>11 DEF Reply
  <2>2. /\ Entity' = Entity /\ Written' = Written /\ (FinishedStage' <=> FinishedStage)
        /\ (Pending' <=> Pending)
    BY <2>1, EntityKept DEF Written, FinishedStage, Pending
  <2>3. outcome # "acknowledged" /\ acked = 0
    BY <2>1 DEF IInv, AnswerInv
  <2>4. /\ reply'.status \in {"none", "202", "other"} /\ reply'.size \in 0..MaxReply
        /\ acked' \in 0..reply'.size
    BY <2>1, <2>3, StreamAssumption
  <2>5. TypeOK'
    BY <2>1, <2>4 DEF IInv, TypeOK
  <2>6. StageInv'
    BY <2>1 DEF IInv, StageInv
  <2>7. AnswerInv'
    BY <2>1, <2>3 DEF AnswerInv
  <2>8. PeerInv'
    BY <2>1, <2>2 DEF IInv, PeerInv
  <2>9. StreamInv'
    BY <2>1, <2>2 DEF IInv, StreamInv
  <2>10. QED BY <2>5, <2>6, <2>7, <2>8, <2>9 DEF IInv
<1>12. CASE Breaks
  <2>1. /\ UNCHANGED <<request, body, stage, offset, calls, peer, started, reply, acked, outcome>>
        /\ usable' = FALSE /\ wire' = <<>>
    BY <1>12 DEF Breaks
  <2>2. Entity' = Entity /\ (FinishedStage' <=> FinishedStage)
    BY <2>1, EntityKept DEF FinishedStage
  <2>3. TypeOK' /\ StageInv' /\ AnswerInv' /\ StreamInv'
    <3>1. wire' \in Seq(Symbols) /\ Len(wire') <= WireCap /\ usable' \in BOOLEAN
      <4>1. wire' \in Seq(Symbols) /\ usable' \in BOOLEAN
        <5>1. wire' = <<>> /\ usable' = FALSE
          BY <2>1
        <5>2. <<>> \in Seq(Symbols)
          OBVIOUS
        <5>3. QED BY <5>1, <5>2
      <4>2. Len(wire') = 0
        BY <2>1, <4>1, EmptySeq
      <4>3. QED BY <4>1, <4>2, StreamAssumption
    <3>2. TypeOK'
      BY <2>1, <3>1 DEF IInv, TypeOK
    <3>3. QED BY <2>1, <3>2 DEF IInv, StageInv, AnswerInv, StreamInv
  <2>4. PeerInv'
    BY <2>1, <2>2 DEF IInv, PeerInv
  <2>5. QED BY <2>3, <2>4 DEF IInv
<1>13. CASE UNCHANGED vars
  <2>1. UNCHANGED <<request, body, stage, offset, calls, peer, started, reply, wire, usable, acked,
                    outcome>>
    BY <1>13 DEF vars
  <2>2. /\ Entity' = Entity /\ Written' = Written /\ (FinishedStage' <=> FinishedStage)
        /\ (Pending' <=> Pending)
    BY <2>1, EntityKept DEF Written, FinishedStage, Pending
  <2>3. TypeOK' /\ StageInv' /\ AnswerInv'
    BY <2>1 DEF IInv, TypeOK, StageInv, AnswerInv
  <2>4. PeerInv' /\ StreamInv'
    BY <2>1, <2>2 DEF IInv, PeerInv, StreamInv
  <2>5. QED BY <2>3, <2>4 DEF IInv
<1>14. QED
  BY <1>1, <1>2, <1>3, <1>4, <1>5, <1>6, <1>7, <1>8, <1>9, <1>10, <1>11, <1>12, <1>13
  DEF Next, Writer, Reader, Api

(* The invariant holds throughout: the variables keep their types, and what*)
(* is still to come always leads the API's decoder to where the writer     *)
(* believes it to be, for bodies, chunks and kernel buffers of any size.   *)
THEOREM Safety == Spec => []IInv
<1>1. IInv /\ [Next]_vars => IInv'
  BY SafetyStep
<1>2. QED BY SafetyInit, <1>1, PTL DEF Spec

(* The variables keep their types, and the writer never passes the end of  *)
(* the body.                                                               *)
THEOREM TypeCorrect == Spec => []TypeOK
BY Safety, PTL DEF IInv

LEMMA InvIsWhole == IInv => CompleteIsWhole
<1> SUFFICES ASSUME IInv, peer.mode = "complete"
             PROVE  /\ peer.entity = Entity /\ calls = <<>>
                    /\ stage \in {"head", "last", "shutdown", "ack"}
  BY DEF CompleteIsWhole
<1>1. peer.entity = Entity
  BY PeerFields DEF IInv, PeerInv
<1>2. QED BY <1>1 DEF IInv, PeerInv, FinishedStage

(* A message the API takes as complete carries the whole entity, whatever  *)
(* the sizes: however send() cuts the buffers write_chunk builds, and      *)
(* wherever the call fails.                                                *)
THEOREM WholeMessages == Spec => []CompleteIsWhole
BY Safety, InvIsWhole, PTL

LEMMA InvIsWellFormed == IInv => NeverMalformed
<1> SUFFICES ASSUME IInv PROVE NeverMalformed
  OBVIOUS
<1>1. peer.mode \in GoodModes \cup {"truncated"} /\ peer.entity = SubSeq(Entity, 1, Len(peer.entity))
  BY PeerFields DEF IInv, PeerInv
<1>2. peer.mode # "malformed"
  BY <1>1 DEF GoodModes
<1>3. QED BY <1>1, <1>2 DEF NeverMalformed

(* What reaches the API is always a prefix of a well-formed message: a     *)
(* failure of the call cuts the stream short and never corrupts it.        *)
THEOREM StreamsWellFormed == Spec => []NeverMalformed
BY Safety, InvIsWellFormed, PTL

LEMMA InvIsAccepted == IInv => AcknowledgedIsAccepted
<1> SUFFICES ASSUME IInv, outcome = "acknowledged"
             PROVE  peer.entity = Entity /\ reply.status = "202" /\ acked = reply.size
  BY DEF AcknowledgedIsAccepted
<1>1. reply.status = "202" /\ acked = reply.size
  BY DEF IInv, AnswerInv
<1>2. peer.mode = "complete"
  BY <1>1 DEF IInv, AnswerInv
<1>3. peer.entity = Entity
  BY <1>2, PeerFields DEF IInv, PeerInv
<1>4. QED BY <1>1, <1>3

(* send_response_on and send_invocation_error_on report success only for   *)
(* an entity the API has whole and has answered with 202, to the end of the*)
(* reply's header section.                                                 *)
THEOREM SuccessIsAcceptance == Spec => []AcknowledgedIsAccepted
BY Safety, InvIsAccepted, PTL
-----------------------------------------------------------------------------
(* No first symbol is a whole message.                                     *)
LEMMA HeadIsNotTheEnd ==
  ASSUME NEW e, NEW p \in Good(e), p.mode = "head", NEW symbol
  PROVE  Decode(p, symbol).mode # "complete"
<1> DEFINE To(mode) == [p EXCEPT !.mode = mode]
<1>1. \A mode : To(mode).mode = mode
  BY DEF Good
<1>2. Decode(p, symbol) \in {p, To("size"), To("content"), To("malformed")}
  BY DEF Decode
<1>3. QED BY <1>1, <1>2

(* Every step of the call is one of the submission, or none.               *)
LEMMA SubmissionStep == IInv /\ IInv' /\ [Next]_vars => [Request!Next]_(Request!vars)
<1> SUFFICES ASSUME IInv, IInv', [Next]_vars PROVE [Request!Next]_(Request!vars)
  OBVIOUS
<1> USE DEF writerVars, apiVars, Request!vars
<1>1. ASSUME UNCHANGED <<started, peer, reply>>,
             \/ outcome' = outcome
             \/ outcome = "pending" /\ outcome' = "failed"
             \/ outcome = "pending" /\ outcome' = "acknowledged" /\ reply.status = "202"
      PROVE  [Request!Next]_(Request!vars)
  BY <1>1 DEF Request!Next, Request!Fail, Request!Acknowledge
<1>2. ASSUME NEW k \in 1..WireCap, Send(k) PROVE [Request!Next]_(Request!vars)
  BY <1>1, <1>2 DEF Send
<1>3. CASE HeadWritten \/ NextChunk \/ BodyWritten \/ LastWritten \/ ShutdownWrite \/ Breaks
  BY <1>1, <1>3 DEF HeadWritten, NextChunk, BodyWritten, LastWritten, ShutdownWrite, Breaks
<1>4. CASE MetadataThrows \/ WriteFails \/ ReadFails
  BY <1>1, <1>4 DEF MetadataThrows, WriteFails, ReadFails, Pending
<1>5. ASSUME NEW k \in 1..ReadSize, ReadAck(k) PROVE [Request!Next]_(Request!vars)
  <2>1. UNCHANGED <<started, peer, reply>> /\ outcome = "pending"
        /\ outcome' \in {"pending", "failed", Answer}
    BY <1>5 DEF ReadAck, Pending
  <2>2. Answer = "failed" \/ (Answer = "acknowledged" /\ reply.status = "202")
    BY DEF Answer
  <2>3. QED BY <1>1, <2>1, <2>2
<1>6. CASE Take
  <2>1. UNCHANGED <<reply, outcome>> /\ started' /\ peer.mode # "complete" /\ peer.mode # "truncated"
    BY <1>6 DEF Take, Ended
  <2>2. CASE started
    BY <2>1, <2>2 DEF Request!Next, Request!Rest
  <2>3. CASE ~started
    <3>1. peer.mode = "head" /\ peer'.mode # "complete"
      <4>1. peer.mode = "head"
        BY <2>1, <2>3 DEF IInv, PeerInv
      <4>2. peer \in Good(Entity) /\ peer' = Decode(peer, Head(wire))
        BY <1>6, <4>1, PeerFields DEF Take, IInv, PeerInv
      <4>3. QED BY <4>1, <4>2, HeadIsNotTheEnd
    <3>2. QED BY <2>1, <2>3, <3>1 DEF Request!Next, Request!First, IInv, TypeOK
  <2>4. QED BY <2>2, <2>3
<1>7. CASE TakeEnd
  <2>1. UNCHANGED <<started, reply, outcome>> /\ peer.mode # "complete"
        /\ peer' = [peer EXCEPT !.mode = "truncated"]
    BY <1>7 DEF TakeEnd, Ended
  <2>2. peer'.mode # "complete"
    <3>1. peer \in Good(Entity)
      BY <1>7, PeerFields DEF TakeEnd, Ended, IInv, PeerInv
    <3>2. QED BY <2>1, <3>1, TruncatedPeer
  <2>3. QED BY <2>1, <2>2
<1>8. CASE Reply
  <2>1. /\ UNCHANGED <<started, peer, outcome>> /\ peer.mode = "complete"
        /\ reply.status = "none" /\ reply'.status \in {"202", "other"}
    BY <1>8 DEF Reply
  <2>2. started
    BY <2>1 DEF IInv, PeerInv
  <2>3. QED BY <2>1, <2>2 DEF Request!Next, Request!Reply
<1>9. CASE UNCHANGED vars
  BY <1>1, <1>9 DEF vars
<1>10. QED
  BY <1>2, <1>3, <1>4, <1>5, <1>6, <1>7, <1>8, <1>9 DEF Next, Writer, Reader, Api

(* The byte-level call implements the three-state request RuntimeLoop      *)
(* composes into its loop.                                                 *)
THEOREM Refinement == Spec => ImplementsSubmission
<1>1. Init => Request!Init
  BY DEF Init, Request!Init
<1>2. IInv /\ IInv' /\ [Next]_vars => [Request!Next]_(Request!vars)
  BY SubmissionStep
<1>3. QED BY Safety, <1>1, <1>2, PTL DEF Spec, ImplementsSubmission, Request!Spec
=============================================================================
