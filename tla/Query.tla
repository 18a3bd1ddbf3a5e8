--------------------------------- MODULE Query ---------------------------------
(***************************************************************************)
(* The query of a Function URL event: parse_query and select_media_options *)
(* (src/src/http/query.cpp) over percent_decode (percent_decode.hpp).      *)
(*                                                                         *)
(* Raw text is a sequence of tokens.  A token is a word or one of the      *)
(* separators the code looks for, written as itself or percent-encoded; a  *)
(* plain "%" is an escape that does not decode.  Decoded text is the       *)
(* sequence of the tokens' texts, in which a separator is data.            *)
(***************************************************************************)
EXTENDS Integers, Sequences, SequencesExt, FiniteSetsExt

Token(texts) == [text : texts, encoded : BOOLEAN]

Plain(text) == [text |-> text, encoded |-> FALSE]

Positions(raw, text) == {i \in DOMAIN raw : raw[i] = Plain(text)}

(* percent_decode fails as a whole on one bad escape.                      *)
Decodes(raw) == Positions(raw, "%") = {}

PercentDecode(raw, plus_as_space) ==
  [i \in DOMAIN raw |->
     IF plus_as_space /\ raw[i] = Plain("+") THEN " " ELSE raw[i].text]

(* A field ends before the next "&", which is looked for before anything is*)
(* decoded; a wrong parser decodes first and stops at encoded ones too.    *)
SeparatesWhenDecoded(token) == token.text = "&"
Separates(token) == token = Plain("&")

FieldEnd(raw, start) ==
  Min({i \in start..Len(raw) : Separates(raw[i])} \cup {Len(raw) + 1})

(* A field that is discarded takes no other with it.                       *)
Kept(field) == field # <<>> /\ Positions(field, ";") = {} /\ Decodes(field)

(* The first "=" ends the key; without one the value is empty.             *)
KeyEnd(field) == Min(Positions(field, "=") \cup {Len(field) + 1})

Parameter(field) ==
  [key |-> PercentDecode(SubSeq(field, 1, KeyEnd(field) - 1), TRUE),
   value |-> PercentDecode(SubSeq(field, KeyEnd(field) + 1, Len(field)), TRUE)]

(* One turn of the loop over the fields, which ends behind the last one.   *)
ReadField(raw, loop) ==
  LET end == FieldEnd(raw, loop.field_start)
      field == SubSeq(raw, loop.field_start, end - 1)
  IN IF loop.field_start > Len(raw) + 1 THEN loop
     ELSE [field_start |-> end + 1,
           parameters |-> IF Kept(field) THEN Append(loop.parameters, Parameter(field))
                          ELSE loop.parameters]

Loop(raw) ==
  LET loop[k \in 0..(Len(raw) + 1)] ==
        IF k = 0 THEN [field_start |-> 1, parameters |-> <<>>] ELSE ReadField(raw, loop[k - 1])
  IN loop

ParseQuery(raw) == Loop(raw)[Len(raw) + 1].parameters

(* QueryParameters::first: the empty text when there is no such key.       *)
First(parameters, key) ==
  LET at == {i \in DOMAIN parameters : parameters[i].key = <<key>>}
  IN IF at = {} THEN <<>> ELSE parameters[Min(at)].value

Boolean(parameters, key) == First(parameters, key) = <<"1">>

Preset(width, height, output) ==
  [width_limit |-> width, height_limit |-> height, preferred_output |-> output]

DefaultMedia == Preset(3200, 3200, "webp")

Presets ==
  [avatar |-> Preset(320, 320, "avif"), emoji |-> Preset(700, 128, "avif"),
   preview |-> Preset(200, 200, "webp"), badge |-> Preset(96, 96, "avif"),
   thumbnail |-> Preset(500, 400, "webp"), ticker |-> Preset(64, 64, "avif")]

Precedence == <<"avatar", "emoji", "preview", "badge", "thumbnail", "ticker">>

Selected(parameters) ==
  LET on == {i \in DOMAIN Precedence : Boolean(parameters, Precedence[i])}
  IN IF on = {} THEN DefaultMedia ELSE Presets[Precedence[Min(on)]]

SelectMediaOptions(parameters) ==
  [preset |-> Selected(parameters),
   force_static |-> Boolean(parameters, "static"),
   url_only |-> Len(parameters) = 1 /\ parameters[1].key = <<"url">>]
=============================================================================
