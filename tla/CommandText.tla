---------------------------- MODULE CommandText ----------------------------
(***************************************************************************)
(* The texts of ota-mqtt.cpp: the parser of a command, which reads UTF-8   *)
(* and \u escapes, and the builder of a status. A string is a sequence of  *)
(* characters, and a character the sequence of its bytes; the object is    *)
(* read token by token, each token in a step.                              *)
(***************************************************************************)
EXTENDS Integers, Sequences, FiniteSets, SequencesExt

VARIABLES
  read,    \* the tokens read so far
  parser   \* parseCommandObject: what it expects, the key it has read, the fields it has

-----------------------------------------------------------------------------
(* UTF-8 *)

isUtf8Continuation(b) == b \in 128..191

isValidUtf8ThreeByte(t) ==
  /\ t[2] # 0 /\ isUtf8Continuation(t[3])
  /\ \/ t[1] = 224 /\ t[2] \in 160..191
     \/ t[1] = 237 /\ t[2] \in 128..159
     \/ t[1] \in (225..236) \cup {238, 239} /\ isUtf8Continuation(t[2])

isValidUtf8FourByte(t) ==
  /\ \/ t[1] = 240 /\ t[2] \in 144..191
     \/ t[1] = 244 /\ t[2] \in 128..143
     \/ t[1] \in 241..243 /\ isUtf8Continuation(t[2])
  /\ isUtf8Continuation(t[3]) /\ isUtf8Continuation(t[4])

\* Faulty variant: what follows E0 and ED is not looked at closely.
LaxSequenceLength(t) ==
  CASE t[1] <= 127 -> 1
    [] t[1] \in 194..223 /\ isUtf8Continuation(t[2]) -> 2
    [] t[1] \in 224..239 /\ isUtf8Continuation(t[2]) /\ isUtf8Continuation(t[3]) -> 3
    [] t[1] \in 240..244 /\ isValidUtf8FourByte(t) -> 4
    [] OTHER -> 0

\* 0: not the beginning of a character. A text is followed by its NUL.
utf8SequenceLength(t) ==
  CASE t[1] <= 127 -> 1
    [] t[1] \in 194..223 /\ isUtf8Continuation(t[2]) -> 2
    [] t[1] \in 224..239 /\ isValidUtf8ThreeByte(t) -> 3
    [] t[1] \in 240..244 /\ isValidUtf8FourByte(t) -> 4
    [] OTHER -> 0

encodeUtf8(s) ==
  CASE s <= 127   -> <<s>>
    [] s > 127 /\ s <= 2047    -> <<192 + (s \div 64), 128 + (s % 64)>>
    [] s > 2047 /\ s <= 65535  -> <<224 + (s \div 4096), 128 + ((s \div 64) % 64), 128 + (s % 64)>>
    [] s > 65535  -> <<240 + (s \div 262144), 128 + ((s \div 4096) % 64),
                       128 + ((s \div 64) % 64), 128 + (s % 64)>>

-----------------------------------------------------------------------------
(* Strings *)

\* The code units that stand for one character in pairs.
isHigh(unit) == 55296 <= unit /\ unit <= 56319
isLow(unit)  == 56320 <= unit /\ unit <= 57343

Nothing == [ok |-> FALSE, out |-> <<>>, high |-> 0]

\* What a builder has written after each of its pieces.
Lengths(pieces) ==
  LET length[k \in 0..Len(pieces)] == IF k = 0 THEN 0 ELSE length[k - 1] + pieces[k] IN length

SumOf(pieces) == Lengths(pieces)[Len(pieces)]

ByteLength(chars) == SumOf([k \in 1..Len(chars) |-> Len(chars[k])])

\* appendUtf8, appendRawUtf8: a character is appended whole or not at all.
Add(acc, char, size) ==
  IF ByteLength(acc.out) + Len(char) >= size THEN Nothing
  ELSE [acc EXCEPT !.out = Append(@, char), !.high = 0]

\* Faulty variant: a NUL may be written as \u0000.
EscapeWithNul(acc, unit, size) ==
  CASE acc.high # 0 /\ isLow(unit) ->
         Add(acc, encodeUtf8(65536 + (acc.high - 55296) * 1024 + (unit - 56320)), size)
    [] acc.high = 0 /\ isHigh(unit) -> [acc EXCEPT !.high = unit]
    [] acc.high = 0 /\ ~isHigh(unit) /\ ~isLow(unit) -> Add(acc, encodeUtf8(unit), size)
    [] OTHER -> Nothing

\* parseJsonEscape, parseUnicodeScalar: a surrogate must be the high one of a pair.
Escape(acc, unit, size) ==
  CASE acc.high # 0 /\ isLow(unit) ->
         Add(acc, encodeUtf8(65536 + (acc.high - 55296) * 1024 + (unit - 56320)), size)
    [] acc.high = 0 /\ isHigh(unit) -> [acc EXCEPT !.high = unit]
    [] acc.high = 0 /\ ~isHigh(unit) /\ ~isLow(unit) /\ unit # 0 -> Add(acc, encodeUtf8(unit), size)
    [] OTHER -> Nothing

\* What a string is made of: a raw character, \uXXXX, or one of \" \\ \/ \b \f \n \r \t.
Item(acc, item, size) ==
  CASE ~acc.ok -> Nothing
    [] acc.ok /\ item.kind = "u" -> Escape(acc, item.unit, size)
    [] acc.ok /\ item.kind = "short" /\ acc.high = 0 -> Add(acc, <<item.unit>>, size)
    [] acc.ok /\ item.kind = "raw" /\ acc.high = 0 /\ item.char[1] >= 32
         /\ utf8SequenceLength(item.char \o <<0, 0, 0>>) = Len(item.char) -> Add(acc, item.char, size)
    [] OTHER -> Nothing

\* What is in the output after each item.
Parsed(items, size) ==
  LET acc[k \in 0..Len(items)] ==
        IF k = 0 THEN [Nothing EXCEPT !.ok = TRUE] ELSE Item(acc[k - 1], items[k], size)
  IN acc

\* parseJsonString, into a buffer of that size
parseJsonString(items, size) ==
  LET acc == Parsed(items, size)[Len(items)]
  IN IF acc.high # 0 \/ acc.out = <<>> THEN Nothing ELSE acc

\* appendEscaped, appendControlCharacter
appendEscaped(char) ==
  CASE char \in {<<34>>, <<92>>, <<10>>, <<13>>, <<9>>} -> [kind |-> "short", unit |-> char[1]]
    [] char[1] < 32 /\ char \notin {<<10>>, <<13>>, <<9>>} -> [kind |-> "u", unit |-> char[1]]
    [] OTHER -> [kind |-> "raw", char |-> char]

EscapedLength(char) == CASE appendEscaped(char).kind = "short" -> 2
                         [] appendEscaped(char).kind = "u" -> 6
                         [] OTHER -> Len(char)

\* validateUtf8Text
validateUtf8Text(chars) ==
  \A k \in DOMAIN chars : utf8SequenceLength(chars[k] \o <<0, 0, 0>>) = Len(chars[k])

\* The length of {"requestId":"","phase":"","result":"","detail":""}
Frame == 51

\* Faulty variant: half the size.
HalfStatus == 256

\* emitMqttStatus: the size of payload.
StatusSize == 512

\* OtaState: the size of requestId.
RequestIdSize == 64

\* otaMqttBuildStatusPayload: nothing is said of a status that does not fit.
PayloadLength(id, others) ==
  Frame + SumOf([k \in 1..Len(id) |-> EscapedLength(id[k])]) + SumOf(others)

otaMqttBuildStatusPayload(id, others, size) ==
  validateUtf8Text(id) /\ PayloadLength(id, others) < size

-----------------------------------------------------------------------------
(* The command object *)

Fields == {"requestId", "version", "url", "sha256", "autoReboot"}

\* "text" is a string that is no key, or, as a value, any string that parses; "badText"
\* does not, and "wrongText" is one validateCommand refuses as a url or a sha256.
Tokens == Fields \cup {"{", "}", ",", ":", "end", "text", "badText", "wrongText", "boolean", "junk"}

Start == [pc |-> "open", key |-> "none", fields |-> {}, valid |-> TRUE]
Init  == read = <<>> /\ parser = Start

Done == parser.pc \in {"ok", "error"}

To(pc) == [parser EXCEPT !.pc = pc]

\* Faulty variant: the table of keys is searched without its last one.
MissesLastKey(t) == IF t = ":" /\ parser.key \in Fields \ (parser.fields \cup {"autoReboot"})
                 THEN [To("value") EXCEPT !.fields = @ \cup {parser.key}] ELSE To("error")

\* parseCommandMember: the key is judged after its colon.
Colon(t) == IF t = ":" /\ parser.key \in Fields \ parser.fields
            THEN [To("value") EXCEPT !.fields = @ \cup {parser.key}] ELSE To("error")

\* parseCommandStringField, parseJsonBoolean. (A wrong url or sha256 is found out when the
\* object has ended.)
Value(t) ==
  CASE parser.key = "autoReboot" /\ t = "boolean" -> To("next")
    [] parser.key # "autoReboot" /\ t = "text"    -> To("next")
    [] parser.key \in {"url", "sha256"} /\ t = "wrongText" -> [To("next") EXCEPT !.valid = FALSE]
    [] OTHER -> To("error")

\* The strings that can stand where the parser is, each under one name.
Readable(t) == CASE parser.pc = "value" -> t \notin Fields /\ (t = "wrongText" => parser.key \in {"url", "sha256"})
                 [] parser.pc # "value" -> t # "wrongText"

\* parseCommandObject, validateCommand: one token more.
Read(t) ==
  /\ ~Done /\ Readable(t)
  /\ read' = Append(read, t)
  /\ parser' =
       CASE parser.pc = "open"  -> To(IF t = "{" THEN "key" ELSE "error")
         [] parser.pc = "key"   -> IF t \in Fields \cup {"text"}
                                   THEN [To("colon") EXCEPT !.key = t] ELSE To("error")
         [] parser.pc = "colon" -> Colon(t)
         [] parser.pc = "value" -> Value(t)
         [] parser.pc = "next"  -> To(CASE t = "," -> "key" [] t = "}" -> "closed" [] OTHER -> "error")
         [] parser.pc = "closed" -> To(IF t = "end" /\ parser.fields = Fields /\ parser.valid
                                       THEN "ok" ELSE "error")

Next == \E t \in Tokens : Read(t)
=============================================================================
