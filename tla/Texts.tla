------------------------------- MODULE Texts -------------------------------
(***************************************************************************)
(* The algorithms of CommandText and FirmwareChoice against reference      *)
(* definitions: each behaviour takes one input.                            *)
(***************************************************************************)
EXTENDS CommandText, FirmwareChoice

CONSTANTS
  ByteTexts,  \* texts of four bytes
  Strings,    \* JSON strings, by their items
  Sizes,      \* sizes of the buffers they are read into
  Pages,      \* directory listings
  Versions,   \* versions: sequences of numbers, each written in digits
  Endings     \* what may follow a version

Byte == 0..255
ByteText == [1..4 -> Byte]

\* The items of a string. A raw character is the bytes utf8SequenceLength looks at: one
\* character or none. What begins with a quote or a backslash is no raw character.
LooksAt(first) == CASE first \in 194..223 -> 2
                    [] first \in 224..239 -> 3
                    [] first \in 240..244 -> 4
                    [] OTHER -> 1
RawCharacters ==
  {c \in Seq(Byte) : /\ Len(c) \in 1..4 /\ LooksAt(c[1]) <= Len(c) /\ c[1] \notin {34, 92}
                       /\ utf8SequenceLength(c \o <<0, 0, 0>>) \in {0, Len(c)}}
CodeUnits == {u \in Nat : u <= 65535}
JsonItem == [kind : {"u"}, unit : CodeUnits]
            \cup [kind : {"short"}, unit : {34, 92, 47, 8, 12, 10, 13, 9}]
            \cup [kind : {"raw"}, char : RawCharacters]

FileName == [package : BOOLEAN, stamp : Nat \cup {-1}, link : BOOLEAN]
Href == [kind : {"unquoted", "unclosed", "long", "directory", "name"}, file : FileName]

Number == {d \in Seq(Digits) : d # <<>>}

ASSUME TextsAssumption ==
  /\ ByteTexts \subseteq ByteText
  /\ Strings \subseteq Seq(JsonItem)
  /\ Sizes \subseteq Nat \ {0}
  /\ Pages \subseteq Seq(Href)
  /\ Versions \subseteq Seq(Number)
  /\ Endings \subseteq Seq(Digits \cup {Dot, Other})

VARIABLE input  \* the input of the algorithms that take one step

vars == <<read, parser, cmp, input>>

NoInput == [kind |-> "none"]
NoCmp   == [pc |-> "none", left |-> <<>>, right |-> <<>>, result |-> 0,
            l |-> <<>>, r |-> <<>>, numeric |-> TRUE]

\* The text of a version: its numbers, a dot between any two; and those of its last n.
VersionTexts(c) ==
  LET from[n \in 0..Len(c)] ==
        CASE n = 0 -> <<>>
          [] n = 1 -> c[Len(c)]
          [] OTHER -> c[Len(c) - n + 1] \o <<Dot>> \o from[n - 1]
  IN from

VersionText(c) == VersionTexts(c)[Len(c)]

Inputs == [kind : {"bytes"}, bytes : ByteTexts]
          \cup [kind : {"string"}, items : Strings, size : Sizes]
          \cup [kind : {"page"}, page : Pages]

Comparisons ==
  {[pc |-> "compare", left |-> VersionText(l) \o a, right |-> VersionText(r) \o b, result |-> 0,
    l |-> l, r |-> r, numeric |-> a = <<>> /\ b = <<>>] :
      l \in Versions, r \in Versions, a \in Endings, b \in Endings}

TextsInit ==
  /\ read = <<>>
  /\ \/ parser = Start /\ input = NoInput /\ cmp = NoCmp
     \/ parser = [Start EXCEPT !.pc = "error"] /\ input \in Inputs /\ cmp = NoCmp
     \/ parser = [Start EXCEPT !.pc = "error"] /\ input = NoInput /\ cmp \in Comparisons

ReadToken == Next /\ UNCHANGED <<cmp, input>>
Compare   == CompareVersions /\ UNCHANGED <<read, parser, input>>

TextsNext == ReadToken \/ Compare
TextsSpec == TextsInit /\ [][TextsNext]_vars /\ WF_vars(Compare)

-----------------------------------------------------------------------------
(* Reference definitions *)

\* Every command: the five members in any order, each with a value of its type.
MemberOf(f) == <<f, ":", IF f = "autoReboot" THEN "boolean" ELSE "text">>
OrderedFields == {s \in [1..5 -> Fields] : \A i, j \in 1..5 : s[i] = s[j] => i = j}
CommandTexts ==
  {<<"{">> \o MemberOf(s[1]) \o <<",">> \o MemberOf(s[2]) \o <<",">> \o MemberOf(s[3]) \o <<",">>
     \o MemberOf(s[4]) \o <<",">> \o MemberOf(s[5]) \o <<"}", "end">> : s \in OrderedFields}

IsCommandPrefix(tokens) ==
  \E c \in CommandTexts : Len(tokens) <= Len(c) /\ SubSeq(c, 1, Len(tokens)) = tokens

Utf16(s) == IF s < 65536 THEN <<s>>
            ELSE <<55296 + (s - 65536) \div 1024, 56320 + ((s - 65536) % 1024)>>

\* The scalar that the n bytes would encode.
ScalarOf(t, n) ==
  CASE n = 1 -> t[1]
    [] n = 2 -> (t[1] % 32) * 64 + (t[2] % 64)
    [] n = 3 -> (t[1] % 16) * 4096 + (t[2] % 64) * 64 + (t[3] % 64)
    [] n = 4 -> (t[1] % 8) * 262144 + (t[2] % 64) * 4096 + (t[3] % 64) * 64 + (t[4] % 64)

Encodes(t, n) == LET s == ScalarOf(t, n) IN
  ~isHigh(s) /\ ~isLow(s) /\ s <= 1114111 /\ encodeUtf8(s) = SubSeq(t, 1, n)

\* What an item stands for, in UTF-16.
UnitsOf(item) == IF item.kind = "raw" THEN Utf16(ScalarOf(item.char, Len(item.char))) ELSE <<item.unit>>
UnitsOfItems(items) == FlattenSeq([k \in 1..Len(items) |-> UnitsOf(items[k])])
UnitsOfText(chars) == FlattenSeq([k \in 1..Len(chars) |-> Utf16(ScalarOf(chars[k], Len(chars[k])))])

\* Surrogates come in pairs of escapes; no NUL, no raw control character, no raw
\* surrogate or overlong form.
WellFormed(items) ==
  LET IsHigh(k) == k \in DOMAIN items /\ items[k].kind = "u" /\ isHigh(items[k].unit)
      IsLow(k)  == k \in DOMAIN items /\ items[k].kind = "u" /\ isLow(items[k].unit)
  IN \A k \in DOMAIN items :
       /\ (IsHigh(k) => IsLow(k + 1)) /\ (IsLow(k) => IsHigh(k - 1))
       /\ items[k].kind = "u" => items[k].unit # 0
       /\ items[k].kind = "raw" => items[k].char[1] >= 32 /\ Encodes(items[k].char, Len(items[k].char))

\* The packages of a page, up to an attribute that swallows the rest.
Listed(page) ==
  {page[k].file : k \in {j \in DOMAIN page : page[j].kind = "name" /\ page[j].file.package
                                             /\ \A i \in 1..j : page[i].kind # "unclosed"}}

\* The number that some digits are the decimal of, and those of the digits before.
Numbers(digits) ==
  LET number[k \in 0..Len(digits)] == IF k = 0 THEN 0 ELSE number[k - 1] * 10 + digits[k]
  IN number

NumberOf(digits) == Numbers(digits)[Len(digits)]

\* Numbers one by one, those that are missing as 0.
NumberAt(c, k) == IF k <= Len(c) THEN NumberOf(c[k]) ELSE 0
Less(l, r) == \E k \in 1..(Len(l) + Len(r)) :
                /\ NumberAt(l, k) < NumberAt(r, k)
                /\ \A j \in 1..(k - 1) : NumberAt(l, j) = NumberAt(r, j)
Order(l, r) == CASE Less(l, r) -> -1 [] Less(r, l) -> 1 [] OTHER -> 0

Fits(c) == \A k \in DOMAIN c : NumberOf(c[k]) <= MaxInt

\* A buffer that every string of so many items fits into.
Ample(items) == 4 * Len(items) + 1

Escaped(chars) == [k \in 1..Len(chars) |-> appendEscaped(chars[k])]

-----------------------------------------------------------------------------
(* Properties *)

\* parseCommandObject accepts the texts of commands and no others: each of the five
\* members once, in any order; nothing is refused that a command could begin with.
ParsesExactlyCommands ==
  /\ parser.pc = "ok" => read \in CommandTexts
  /\ parser.pc = "error" => ~(read # <<>> /\ IsCommandPrefix(read))

\* What utf8SequenceLength takes for a character is what encodeUtf8 makes of a scalar
\* value that is no surrogate, and every such encoding is taken.
Utf8AsEncoded ==
  input.kind = "bytes" =>
    \A n \in 1..4 : utf8SequenceLength(input.bytes) = n
                    <=> Encodes(input.bytes, n) /\ \A k \in 1..(n - 1) : ~Encodes(input.bytes, k)

\* parseJsonString accepts the well-formed strings that fit and are not empty, and yields
\* the characters they spell, pairs of escapes included. What it has accepted can be put
\* in a status (appendEscaped), and who reads that reads the same.
StringsReadBack ==
  input.kind = "string" =>
    LET p == parseJsonString(input.items, input.size)
        q == parseJsonString(input.items, Ample(input.items)) IN
    /\ q.ok <=> WellFormed(input.items) /\ input.items # <<>>
    /\ p.ok <=> q.ok /\ ByteLength(q.out) < input.size
    /\ p.ok => /\ UnitsOfText(p.out) = UnitsOfItems(input.items) /\ validateUtf8Text(p.out)
               /\ parseJsonString(Escaped(p.out), Ample(p.out)).out = p.out

\* Every status that precheck prints of a command fits into its 512 bytes, whatever the
\* requestId is that parseJsonString has taken from it; else the command would be refused,
\* or run, without a word. Phase, result and detail: accepted; a requestId seen before; a
\* version that is not higher (the longest one).
EveryStatusFits ==
  input.kind = "string" =>
    LET id == parseJsonString(input.items, RequestIdSize) IN
    id.ok => \A others \in {<<8, 7, 15>>, <<6, 5, 31>>, <<6, 5, 48>>} :
               otaMqttBuildStatusPayload(id.out, others, StatusSize)

\* The package that --pull-latest takes is one of the page, and none that is listed is
\* newer, however the page orders, repeats and breaks its links; up to kMaxSwuNames.
PicksNewest ==
  input.kind = "page" /\ Cardinality(Listed(input.page)) <= MaxNames =>
    /\ (otaResolveLatestSwuUrl(input.page) = {}) <=> (Listed(input.page) = {})
    /\ \A p \in otaResolveLatestSwuUrl(input.page) :
         /\ p \in Listed(input.page)
         /\ \A n \in Listed(input.page) : n.stamp <= p.stamp
         /\ p.stamp = -1 /\ ~p.link => \A n \in Listed(input.page) : ~n.link

\* Versions of numbers compare component by component, if they fit into an int.
ComparesAsNumbers ==
  cmp.pc = "done" /\ cmp.numeric /\ Fits(cmp.l) /\ Fits(cmp.r) => cmp.result = Order(cmp.l, cmp.r)

\* The comparison of versions of numbers and dots ends. (Of others it may not: with a
\* character that is neither, after components that are equal, it goes round for ever.)
ComparisonEnds == cmp.pc = "compare" /\ cmp.numeric ~> cmp.pc = "done"
=============================================================================
