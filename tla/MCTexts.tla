------------------------------ MODULE MCTexts ------------------------------
(***************************************************************************)
(* Inputs for Texts.                                                       *)
(***************************************************************************)
EXTENDS Texts

CONSTANTS
  MaxItems,  \* bound: items of a string
  MaxHrefs   \* bound: attributes of a listing

\* The bytes on both sides of every boundary of UTF-8.
FirstBytes == {0, 65, 127, 128, 191, 192, 193, 194, 223, 224, 225, 236, 237, 238, 239, 240, 241, 243,
               244, 245, 255}
NextBytes  == {0, 65, 127, 128, 143, 144, 159, 160, 191, 192, 255}
MCByteTexts == {<<a>> \o t : a \in FirstBytes, t \in [1..3 -> NextBytes]}

\* The UTF-16 units on both sides of every boundary; raw characters, well formed or not.
Units == {0, 31, 127, 128, 2047, 2048, 55295, 55296, 56319, 56320, 57343, 57344, 65535}
Items == [kind : {"u"}, unit : Units] \cup [kind : {"short"}, unit : {34, 10}]
         \cup [kind : {"raw"}, char : {<<65>>, <<31>>, <<195, 169>>, <<192, 128>>, <<237, 160, 128>>,
                                       <<240, 159, 146, 161>>}]

\* A requestId around its 63 bytes: how many characters are escaped in what way.
Repeat(item, n) == [k \in 1..n |-> item]
LongStrings ==
  {Repeat([kind |-> "raw", char |-> <<65>>], plain) \o Repeat([kind |-> "short", unit |-> 34], short)
     \o Repeat([kind |-> "u", unit |-> 1], control) :
       plain \in {0, 1, 63}, short \in {0, 1, 62, 63}, control \in {0, 1, 62, 63}}

MCStrings == SeqOf(Items, MaxItems) \cup {s \in LongStrings : Len(s) \in 62..64}
MCSizes == {4, 5, 9}

\* The packages of a server: stamped, the link, without either, something else.
Files == [package : {TRUE}, stamp : {1, 2, 3}, link : {FALSE}]
         \cup [package : {TRUE}, stamp : {-1}, link : BOOLEAN]
         \cup {[package |-> FALSE, stamp |-> 3, link |-> FALSE]}
NoFile == [package |-> FALSE, stamp |-> -1, link |-> FALSE]
Hrefs == [kind : {"unquoted", "unclosed"}, file : {NoFile}] \cup [kind : {"name"}, file : Files]
MCPages == SeqOf(Hrefs, MaxHrefs)

\* Versions of up to two numbers, and perhaps another character after them.
MCVersions == SeqOf({<<0>>, <<1>>, <<9>>, <<1, 0>>, <<1, 9>>, <<0, 1>>}, 2)
MCEndings == {<<>>, <<Other>>}
=============================================================================
