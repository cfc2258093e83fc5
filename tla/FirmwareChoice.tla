--------------------------- MODULE FirmwareChoice ---------------------------
(***************************************************************************)
(* How ota-agent chooses: the newest package of the directory listing of a *)
(* server (ota-discover.cpp), and whether the version of a command is      *)
(* higher than the running one (compareVersions, one component a step).    *)
(***************************************************************************)
EXTENDS Integers, Sequences, FiniteSets, SequencesExt

CONSTANTS
  MaxNames,  \* kMaxSwuNames
  MaxInt     \* INT_MAX

ASSUME LimitsAssumption == MaxNames \in Nat \ {0} /\ MaxInt \in Nat

VARIABLE cmp  \* compareVersions: the texts, the two cursors, its result

-----------------------------------------------------------------------------
(* The listing: a sequence of href attributes, each [kind, file]. One that has no quotes, *)
(* one whose quote is not closed, one too long, one of a directory; or a file name.       *)

\* The name of a package holds alientek-image-update and ends in .swu; after rootfs- it
\* may have a stamp of 14 digits, or it is the link ...rootfs.swu.
isUpdateSwu(n) == n.package
extractBuildStamp(n) == n.stamp
isUnversionedUpdateSwu(n) == n.package /\ n.link

Empty == [names |-> <<>>, ended |-> FALSE]

\* Faulty variant: a name is counted as often as it is listed.
appendName(acc, n) ==
  IF ~isUpdateSwu(n) \/ Len(acc.names) >= MaxNames THEN acc
  ELSE [acc EXCEPT !.names = Append(@, n)]

appendUniqueName(acc, n) ==
  IF ~isUpdateSwu(n) \/ Len(acc.names) >= MaxNames \/ n \in Range(acc.names) THEN acc
  ELSE [acc EXCEPT !.names = Append(@, n)]

\* extractHrefName
extractHrefName(acc, href) ==
  CASE acc.ended \/ href.kind \in {"unquoted", "long", "directory"} -> acc
    [] ~acc.ended /\ href.kind = "unclosed" -> [acc EXCEPT !.ended = TRUE]
    [] ~acc.ended /\ href.kind = "name" -> appendUniqueName(acc, href.file)

\* The names after each attribute of the page.
Found(page) ==
  LET found[k \in 0..Len(page)] ==
        IF k = 0 THEN Empty ELSE extractHrefName(found[k - 1], page[k])
  IN found

parseListingHtml(page) == Found(page)[Len(page)].names

\* The first of some positions.
First(positions) == CHOOSE k \in positions : \A j \in positions : k <= j

\* pickBestSwuName: the newest stamp, else the link, else whatever comes first.
pickBestSwuName(names) ==
  LET Stamp(k) == extractBuildStamp(names[k])
      stamped == {k \in DOMAIN names : Stamp(k) # -1}
      newest  == {k \in stamped : \A j \in stamped : Stamp(k) >= Stamp(j)}
      links   == {k \in DOMAIN names : isUnversionedUpdateSwu(names[k])}
  IN CASE stamped # {} -> names[First(newest)]
       [] stamped = {} /\ links # {} -> names[First(links)]
       [] OTHER -> names[1]

\* otaResolveLatestSwuUrl, for a page that was downloaded.
otaResolveLatestSwuUrl(page) ==
  LET names == parseListingHtml(page) IN IF names = <<>> THEN {} ELSE {pickBestSwuName(names)}

-----------------------------------------------------------------------------
(* compareVersions. A text is a sequence of digits, "." and other characters ("x"). *)

Dot   == 10
Other == 11
Digits == 0..9

\* What 32-bit arithmetic makes of a component: it wraps.
WrapInt(v) == ((v + MaxInt + 1) % (2 * MaxInt + 2)) - MaxInt - 1

DigitsOf(text) ==
  LET ends == {k \in 0..Len(text) : \A j \in 1..k : text[j] \in Digits}
  IN CHOOSE k \in ends : \A o \in ends : k >= o

\* compareVersionToken: the value of the digits, and the text after them and one dot.
TokenValues(text) ==
  LET value[k \in 0..DigitsOf(text)] == IF k = 0 THEN 0 ELSE WrapInt(value[k - 1] * 10 + text[k])
  IN value

TokenValue(text) == TokenValues(text)[DigitsOf(text)]

\* Faulty variant: the dot is left where it is.
KeepsDot(text) == SubSeq(text, DigitsOf(text) + 1, Len(text))

AfterToken(text) ==
  LET rest == SubSeq(text, DigitsOf(text) + 1, Len(text))
  IN IF rest # <<>> /\ rest[1] = Dot THEN Tail(rest) ELSE rest

\* Faulty variant: the comparison ends with the shorter text.
CompareShorter ==
  /\ cmp.pc = "compare"
  /\ LET l == TokenValue(cmp.left)
         r == TokenValue(cmp.right)
     IN cmp' = CASE cmp.left = <<>> \/ cmp.right = <<>> -> [cmp EXCEPT !.pc = "done"]
                 [] ~(cmp.left = <<>> \/ cmp.right = <<>>) /\ l # r ->
                      [cmp EXCEPT !.pc = "done", !.result = IF l < r THEN -1 ELSE 1]
                 [] OTHER -> [cmp EXCEPT !.left = AfterToken(@), !.right = AfterToken(@)]

\* One turn of the loop of compareVersions; where neither text advances, it never ends.
CompareVersions ==
  /\ cmp.pc = "compare"
  /\ LET l == TokenValue(cmp.left)
         r == TokenValue(cmp.right)
     IN cmp' = CASE cmp.left = <<>> /\ cmp.right = <<>> -> [cmp EXCEPT !.pc = "done"]
                 [] ~(cmp.left = <<>> /\ cmp.right = <<>>) /\ l # r ->
                      [cmp EXCEPT !.pc = "done", !.result = IF l < r THEN -1 ELSE 1]
                 [] OTHER -> [cmp EXCEPT !.left = AfterToken(@), !.right = AfterToken(@)]

=============================================================================
