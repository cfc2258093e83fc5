---------------------------- MODULE TextsProofs ----------------------------
(***************************************************************************)
(* The algorithms of ota-mqtt.cpp, ota-discover.cpp and compareVersions    *)
(* compute what the reference definitions say, for texts of any length.    *)
(* The functions are recursive over a text; induction is by the least      *)
(* position where a claim fails.                                           *)
(***************************************************************************)
EXTENDS Texts, SequenceTheorems, FiniteSetTheorems, WellFoundedInduction, TLAPS

-----------------------------------------------------------------------------
(* Recursion and induction *)

\* A set of natural numbers that is not empty has a least element.
LEMMA Least ==
  ASSUME NEW T, T \subseteq Nat, T # {}
  PROVE  \E x \in T : \A y \in T : x <= y
<1> DEFINE R == OpToRel(<, Nat)
<1>1. IsWellFoundedOn(R, Nat)
  BY NatLessThanWellFounded
<1>2. R = {ss \in Nat \X Nat : ss[1] < ss[2]}
  BY DEF OpToRel
<1> HIDE DEF R
<1>3. \E x \in T : \A y \in T : ~(<<y, x>> \in R)
  BY <1>1, WFMin
<1>4. \A x, y \in T : x \in Nat /\ y \in Nat
  OBVIOUS
<1>5. \A x, y \in T : ~(<<y, x>> \in R) => x <= y
  BY <1>2, <1>4
<1>6. QED
  BY <1>3, <1>5

\* Induction: a set that holds 0 and with every number below n the next one holds 0..n.
LEMMA UpTo ==
  ASSUME NEW n \in Nat, NEW G, 0 \in G, \A k \in 0..(n - 1) : k \in G => k + 1 \in G
  PROVE  0..n \subseteq G
<1> DEFINE T == {k \in 0..n : k \notin G}
<1>1. SUFFICES ASSUME T # {} PROVE FALSE
  OBVIOUS
<1>2. T \subseteq Nat /\ \A x \in T : x \in 0..n /\ x \notin G
  OBVIOUS
<1>3. \A x \in 0..n : x \notin G => x \in T
  OBVIOUS
<1> HIDE DEF T
<1>4. PICK x \in T : \A y \in T : x <= y
  BY <1>1, <1>2, Least
<1>5. x \in 1..n /\ x - 1 \in 0..(n - 1) /\ x - 1 \in 0..n
  BY <1>2
<1>6. x - 1 \in G
  BY <1>3, <1>4, <1>5
<1>7. x \in G
  BY <1>5, <1>6
<1>8. QED
  BY <1>2, <1>7

\* The values of a recursive function, each from the one before.
Follows(g, n, a, F) == g[0] = a /\ \A k \in 1..n : g[k] = F[k][g[k - 1]]

\* A step that stays in a set can be repeated any number of times.
LEMMA Recursion ==
  ASSUME NEW n \in Nat, NEW A, NEW a \in A, NEW F, F \in [1..n -> [A -> A]]
  PROVE  \E g \in [0..n -> A] : Follows(g, n, a, F)
<1> DEFINE Good(m) == \E g \in [0..m -> A] : Follows(g, m, a, F)
           G == {m \in 0..n : Good(m)}
<1>1. Good(0)
  <2> DEFINE g == [k \in 0..0 |-> a]
  <2>1. g \in [0..0 -> A] /\ Follows(g, 0, a, F)
    BY DEF Follows
  <2>2. QED
    BY <2>1
<1>2. ASSUME NEW m \in 0..(n - 1), Good(m) PROVE Good(m + 1)
  <2>1. PICK g \in [0..m -> A] : Follows(g, m, a, F)
    BY <1>2
  <2> DEFINE h == [k \in 0..(m + 1) |-> IF k = m + 1 THEN F[m + 1][g[m]] ELSE g[k]]
  <2>2. F[m + 1] \in [A -> A] /\ g[m] \in A /\ m \in 0..m
    OBVIOUS
  <2>3. F[m + 1][g[m]] \in A
    BY <2>2
  <2>4. h \in [0..(m + 1) -> A]
    BY <2>3
  <2>5. h[0] = a
    BY <2>1 DEF Follows
  <2>6. ASSUME NEW k \in 1..(m + 1) PROVE h[k] = F[k][h[k - 1]]
    <3>1. CASE k = m + 1
      BY <3>1
    <3>2. CASE k # m + 1
      <4>1. k \in 1..m /\ k \in 0..(m + 1) /\ k - 1 \in 0..(m + 1) /\ k - 1 # m + 1
        BY <3>2
      <4>2. h[k] = g[k] /\ h[k - 1] = g[k - 1]
        BY <3>2, <4>1
      <4>3. QED
        BY <2>1, <4>1, <4>2 DEF Follows
    <3>3. QED
      BY <3>1, <3>2
  <2>7. QED
    BY <2>4, <2>5, <2>6 DEF Follows
<1> HIDE DEF Good
<1>3. 0 \in G /\ \A k \in 0..(n - 1) : k \in G => k + 1 \in G
  BY <1>1, <1>2
<1> HIDE DEF G
<1>4. n \in G
  <2>1. 0..n \subseteq G
    BY <1>3, UpTo
  <2>2. QED
    BY <2>1
<1>5. QED
  BY <1>4 DEF G, Good

-----------------------------------------------------------------------------
(* Sums *)

\* What a builder has written is its first pieces' and the last one's.
LEMMA LengthsSteps ==
  ASSUME NEW s \in Seq(Nat)
  PROVE  /\ Lengths(s)[0] = 0
         /\ \A k \in 1..Len(s) : Lengths(s)[k] = Lengths(s)[k - 1] + s[k]
<1> DEFINE n == Len(s)
           F == [k \in 1..n |-> [x \in Nat |-> x + s[k]]]
           Fix(g) == g = [k \in 0..n |-> IF k = 0 THEN 0 ELSE g[k - 1] + s[k]]
<1>1. n \in Nat /\ F \in [1..n -> [Nat -> Nat]]
  OBVIOUS
<1>2. PICK g \in [0..n -> Nat] : Follows(g, n, 0, F)
  <2> HIDE DEF n, F
  <2>1. QED
    BY <1>1, Recursion
<1>3. Fix(g)
  <2> DEFINE h == [k \in 0..n |-> IF k = 0 THEN 0 ELSE g[k - 1] + s[k]]
  <2>1. ASSUME NEW k \in 0..n PROVE h[k] = g[k]
    <3>1. CASE k = 0
      BY <1>2, <3>1 DEF Follows
    <3>2. CASE k # 0
      <4>1. k \in 1..n /\ g[k - 1] \in Nat
        BY <3>2
      <4>2. g[k] = F[k][g[k - 1]]
        BY <1>2, <4>1 DEF Follows
      <4>3. QED
        BY <3>2, <4>1, <4>2
    <3>3. QED
      BY <3>1, <3>2
  <2>2. h = g
    BY <2>1
  <2>3. QED
    BY <2>2
<1>4. Lengths(s) = CHOOSE f : Fix(f)
  BY DEF Lengths
<1> HIDE DEF Fix
<1>5. Fix(Lengths(s))
  BY <1>3, <1>4
<1>6. QED
  BY <1>5 DEF Fix

-----------------------------------------------------------------------------
(* UTF-8 *)

\* What SubSeq takes of a text.
LEMMA Beginnings ==
  ASSUME NEW t \in ByteText
  PROVE  /\ SubSeq(t, 1, 1) = <<t[1]>> /\ SubSeq(t, 1, 2) = <<t[1], t[2]>>
         /\ SubSeq(t, 1, 3) = <<t[1], t[2], t[3]>>
         /\ SubSeq(t, 1, 4) = <<t[1], t[2], t[3], t[4]>>
         /\ \A k \in 1..4 : t[k] \in Int /\ 0 <= t[k] /\ t[k] <= 255
<1>1. \A k \in 1..4 : t[k] \in Byte
  BY DEF ByteText
<1>2. \A n \in 1..4 : /\ Len(SubSeq(t, 1, n)) = n /\ SubSeq(t, 1, n) \in Seq(Byte)
                      /\ \A i \in 1..n : SubSeq(t, 1, n)[i] = t[i]
  <2>1. TAKE n \in 1..4
  <2>2. \A i \in 1..n : t[i] \in Byte
    BY <1>1
  <2>3. /\ SubSeq(t, 1, n) \in Seq(Byte) /\ Len(SubSeq(t, 1, n)) = IF 1 <= n THEN n - 1 + 1 ELSE 0
        /\ \A i \in 1..(n - 1 + 1) : SubSeq(t, 1, n)[i] = t[1 + i - 1]
    BY <2>2, SubSeqProperties
  <2>4. QED
    BY <2>3
<1>3. SubSeq(t, 1, 1) = <<t[1]>>
  <2> DEFINE u == SubSeq(t, 1, 1)
  <2>1. u \in Seq(Byte) /\ Len(u) = 1 /\ \A i \in 1..1 : u[i] = t[i]
    BY <1>2
  <2> HIDE DEF u
  <2>2. u = <<u[1]>>
    BY <2>1
  <2>3. QED
    BY <2>1, <2>2 DEF u
<1>4. SubSeq(t, 1, 2) = <<t[1], t[2]>>
  <2> DEFINE u == SubSeq(t, 1, 2)
  <2>1. u \in Seq(Byte) /\ Len(u) = 2 /\ \A i \in 1..2 : u[i] = t[i]
    BY <1>2
  <2> HIDE DEF u
  <2>2. u = <<u[1], u[2]>>
    BY <2>1
  <2>3. QED
    BY <2>1, <2>2 DEF u
<1>5. SubSeq(t, 1, 3) = <<t[1], t[2], t[3]>>
  <2> DEFINE u == SubSeq(t, 1, 3)
  <2>1. u \in Seq(Byte) /\ Len(u) = 3 /\ \A i \in 1..3 : u[i] = t[i]
    BY <1>2
  <2> HIDE DEF u
  <2>2. u = <<u[1], u[2], u[3]>>
    BY <2>1
  <2>3. QED
    BY <2>1, <2>2 DEF u
<1>6. SubSeq(t, 1, 4) = <<t[1], t[2], t[3], t[4]>>
  <2> DEFINE u == SubSeq(t, 1, 4)
  <2>1. u \in Seq(Byte) /\ Len(u) = 4 /\ \A i \in 1..4 : u[i] = t[i]
    BY <1>2
  <2> HIDE DEF u
  <2>2. u = <<u[1], u[2], u[3], u[4]>>
    BY <2>1
  <2>3. QED
    BY <2>1, <2>2 DEF u
<1>7. \A k \in 1..4 : t[k] \in Int /\ 0 <= t[k] /\ t[k] <= 255
  BY <1>1 DEF Byte
<1>8. QED
  BY <1>3, <1>4, <1>5, <1>6, <1>7

\* A text begins with the encoding of a scalar, in so many bytes.
LEMMA EncodesAs ==
  ASSUME NEW t \in ByteText
  PROVE  /\ Encodes(t, 1) <=> t[1] <= 127
         /\ Encodes(t, 2) <=> t[1] \in 194..223 /\ isUtf8Continuation(t[2])
         /\ Encodes(t, 3) <=> t[1] \in 224..239 /\ isValidUtf8ThreeByte(t)
         /\ Encodes(t, 4) <=> t[1] \in 240..244 /\ isValidUtf8FourByte(t)
<1> DEFINE a == t[1]
           b == t[2]
           c == t[3]
           d == t[4]
<1>1. /\ a \in Int /\ b \in Int /\ c \in Int /\ d \in Int
      /\ 0 <= a /\ a <= 255 /\ 0 <= b /\ b <= 255 /\ 0 <= c /\ c <= 255 /\ 0 <= d /\ d <= 255
  BY Beginnings
<1>2. Encodes(t, 1) <=> t[1] <= 127
  <2>1. ScalarOf(t, 1) = a
    BY DEF ScalarOf
  <2>2. Encodes(t, 1) <=> ~isHigh(a) /\ ~isLow(a) /\ a <= 1114111 /\ encodeUtf8(a) = <<a>>
    BY <2>1, Beginnings, SMT DEF Encodes
  <2>3. encodeUtf8(a) = <<a>> <=> a <= 127
    <3> HIDE DEF a
    <3>1. QED
      BY <1>1, SMT DEF encodeUtf8
  <2>4. QED
    BY <1>1, <2>2, <2>3, SMT DEF isHigh, isLow
<1>3. Encodes(t, 2) <=> t[1] \in 194..223 /\ isUtf8Continuation(t[2])
  <2> DEFINE s == (a % 32) * 64 + (b % 64)
  <2>1. ScalarOf(t, 2) = s
    BY DEF ScalarOf
  <2>2. Encodes(t, 2) <=> ~isHigh(s) /\ ~isLow(s) /\ s <= 1114111 /\ encodeUtf8(s) = <<a, b>>
    BY <2>1, Beginnings, SMT DEF Encodes
  <2>3. s \in Int
    BY <1>1
  <2>4. encodeUtf8(s) = <<a, b>> <=> 127 < s /\ s <= 2047 /\ 192 + (s \div 64) = a /\ 128 + (s % 64) = b
    <3> HIDE DEF s, a, b
    <3>1. QED
      BY <1>1, <2>3, SMT DEF encodeUtf8
  <2>5. Encodes(t, 2) <=> 194 <= a /\ a <= 223 /\ 128 <= b /\ b <= 191
    <3>1. (127 < s /\ s <= 2047 /\ 192 + (s \div 64) = a /\ 128 + (s % 64) = b)
          <=> (194 <= a /\ a <= 223 /\ 128 <= b /\ b <= 191)
      <4> HIDE DEF a, b
      <4>1. QED
        BY <1>1, SMT
    <3> HIDE DEF s, a, b
    <3>2. QED
      BY <2>2, <2>3, <2>4, <3>1, SMT DEF isHigh, isLow
  <2>6. QED
    BY <1>1, <2>5, SMT DEF isUtf8Continuation
<1>4. Encodes(t, 3) <=> t[1] \in 224..239 /\ isValidUtf8ThreeByte(t)
  <2> DEFINE s == (a % 16) * 4096 + (b % 64) * 64 + (c % 64)
  <2>1. ScalarOf(t, 3) = s
    BY DEF ScalarOf
  <2>2. Encodes(t, 3) <=> ~isHigh(s) /\ ~isLow(s) /\ s <= 1114111 /\ encodeUtf8(s) = <<a, b, c>>
    BY <2>1, Beginnings, SMT DEF Encodes
  <2>3. s \in Int
    BY <1>1
  <2>4. encodeUtf8(s) = <<a, b, c>>
        <=> /\ 2047 < s /\ s <= 65535
            /\ 224 + (s \div 4096) = a /\ 128 + ((s \div 64) % 64) = b /\ 128 + (s % 64) = c
    <3> HIDE DEF s, a, b, c
    <3>1. QED
      BY <1>1, <2>3, SMT DEF encodeUtf8
  <2>5. Encodes(t, 3) <=> /\ 224 <= a /\ a <= 239 /\ 128 <= c /\ c <= 191
                          /\ \/ a = 224 /\ 160 <= b /\ b <= 191
                             \/ a = 237 /\ 128 <= b /\ b <= 159
                             \/ a # 224 /\ a # 237 /\ 128 <= b /\ b <= 191
    <3>1. (/\ 2047 < s /\ s <= 65535
           /\ 224 + (s \div 4096) = a /\ 128 + ((s \div 64) % 64) = b /\ 128 + (s % 64) = c
           /\ ~(55296 <= s /\ s <= 56319) /\ ~(56320 <= s /\ s <= 57343))
          <=> (/\ 224 <= a /\ a <= 239 /\ 128 <= c /\ c <= 191
               /\ \/ a = 224 /\ 160 <= b /\ b <= 191
                  \/ a = 237 /\ 128 <= b /\ b <= 159
                  \/ a # 224 /\ a # 237 /\ 128 <= b /\ b <= 191)
      <4> HIDE DEF a, b, c
      <4>1. QED
        BY <1>1, SMT
    <3> HIDE DEF s, a, b, c
    <3>2. QED
      BY <2>2, <2>3, <2>4, <3>1, SMT DEF isHigh, isLow
  <2>6. QED
    BY <1>1, <2>5, SMT DEF isValidUtf8ThreeByte, isUtf8Continuation
<1>5. Encodes(t, 4) <=> t[1] \in 240..244 /\ isValidUtf8FourByte(t)
  <2> DEFINE s == (a % 8) * 262144 + (b % 64) * 4096 + (c % 64) * 64 + (d % 64)
  <2>1. ScalarOf(t, 4) = s
    BY SMT DEF ScalarOf
  <2>2. Encodes(t, 4) <=> ~isHigh(s) /\ ~isLow(s) /\ s <= 1114111 /\ encodeUtf8(s) = <<a, b, c, d>>
    BY <2>1, Beginnings, SMT DEF Encodes
  <2>3. s \in Int
    BY <1>1, SMT
  <2>4. encodeUtf8(s) = <<a, b, c, d>>
        <=> /\ 65535 < s /\ 240 + (s \div 262144) = a
            /\ 128 + ((s \div 4096) % 64) = b /\ 128 + ((s \div 64) % 64) = c /\ 128 + (s % 64) = d
    <3> HIDE DEF s, a, b, c, d
    <3>1. QED
      BY <1>1, <2>3, SMT DEF encodeUtf8
  <2>5. Encodes(t, 4) <=> /\ 240 <= a /\ a <= 244 /\ 128 <= c /\ c <= 191 /\ 128 <= d /\ d <= 191
                          /\ \/ a = 240 /\ 144 <= b /\ b <= 191
                             \/ a = 244 /\ 128 <= b /\ b <= 143
                             \/ a # 240 /\ a # 244 /\ 128 <= b /\ b <= 191
    <3>1. (/\ 65535 < s /\ s <= 1114111 /\ 240 + (s \div 262144) = a
           /\ 128 + ((s \div 4096) % 64) = b /\ 128 + ((s \div 64) % 64) = c /\ 128 + (s % 64) = d)
          <=> (/\ 240 <= a /\ a <= 244 /\ 128 <= c /\ c <= 191 /\ 128 <= d /\ d <= 191
               /\ \/ a = 240 /\ 144 <= b /\ b <= 191
                  \/ a = 244 /\ 128 <= b /\ b <= 143
                  \/ a # 240 /\ a # 244 /\ 128 <= b /\ b <= 191)
      <4> HIDE DEF a, b, c, d
      <4>1. QED
        BY <1>1, SMT
    <3> HIDE DEF s, a, b, c, d
    <3>2. QED
      BY <2>2, <2>3, <2>4, <3>1, SMT DEF isHigh, isLow
  <2>6. QED
    BY <1>1, <2>5, SMT DEF isValidUtf8FourByte, isUtf8Continuation
<1>6. QED
  BY <1>2, <1>3, <1>4, <1>5

\* utf8SequenceLength takes what begins with the encoding of a scalar that is no
\* surrogate, in as many bytes as the encoding has.
LEMMA TakesEncodings ==
  ASSUME NEW t \in ByteText
  PROVE  /\ utf8SequenceLength(t) \in 0..4
         /\ \A n \in 1..4 : utf8SequenceLength(t) = n <=> Encodes(t, n)
<1>1. t[1] \in Int /\ 0 <= t[1]
  BY Beginnings
<1>2. QED
  BY <1>1, EncodesAs, SMT DEF utf8SequenceLength

-----------------------------------------------------------------------------
(* Characters *)

Char == {c \in Seq(Byte) : Len(c) \in 1..4}
Taken(c) == utf8SequenceLength(c \o <<0, 0, 0>>) = Len(c)

\* A character by itself, and with what follows it.
LEMMA TakenIsEncoding ==
  ASSUME NEW c \in Char
  PROVE  Taken(c) <=> Encodes(c, Len(c))
<1> DEFINE n == Len(c)
           t == [k \in 1..4 |-> IF k <= n THEN c[k] ELSE 0]
           u == c \o <<0, 0, 0>>
<1>1. n \in 1..4 /\ c \in Seq(Byte) /\ \A k \in 1..n : c[k] \in Byte
  <2>1. n \in 1..4 /\ c \in Seq(Byte)
    BY DEF Char
  <2> HIDE DEF t, u
  <2>2. QED
    BY <2>1, ElementOfSeq
<1>2. t \in ByteText /\ \A k \in 1..4 : t[k] = IF k <= n THEN c[k] ELSE 0
  <2> HIDE DEF n
  <2>1. 0 \in Byte
    BY DEF Byte
  <2>2. QED
    BY <1>1, <2>1 DEF ByteText
<1>3. \A k \in 1..4 : u[k] = t[k]
  <2>1. <<0, 0, 0>> \in Seq(Byte) /\ Len(<<0, 0, 0>>) = 3
    BY DEF Byte
  <2>4. \A j \in 1..3 : <<0, 0, 0>>[j] = 0
    OBVIOUS
  <2>2. \A k \in 1..(n + 3) : u[k] = IF k <= n THEN c[k] ELSE <<0, 0, 0>>[k - n]
    BY <1>1, <2>1, ConcatProperties
  <2> HIDE DEF u, n
  <2>3. QED
    BY <1>1, <1>2, <2>2, <2>4
<1> HIDE DEF t, u
<1>4. utf8SequenceLength(u) = utf8SequenceLength(t)
  BY <1>3, SMT DEF utf8SequenceLength, isValidUtf8ThreeByte, isValidUtf8FourByte
<1>5. ScalarOf(t, n) = ScalarOf(c, n)
  BY <1>1, <1>2, SMT DEF ScalarOf
<1>6. SubSeq(t, 1, n) = c /\ SubSeq(c, 1, n) = c
  <2>1. /\ SubSeq(t, 1, n) \in Seq(Byte) /\ Len(SubSeq(t, 1, n)) = n
        /\ \A i \in 1..n : SubSeq(t, 1, n)[i] = c[i]
    <3>1. \A i \in 1..n : t[i] \in Byte
      BY <1>1, <1>2
    <3>2. /\ SubSeq(t, 1, n) \in Seq(Byte) /\ Len(SubSeq(t, 1, n)) = IF 1 <= n THEN n - 1 + 1 ELSE 0
          /\ \A i \in 1..(n - 1 + 1) : SubSeq(t, 1, n)[i] = t[1 + i - 1]
      BY <1>1, <3>1, SubSeqProperties
    <3>3. QED
      BY <1>1, <1>2, <3>2
  <2>2. SubSeq(t, 1, n) = c
    BY <1>1, <2>1, SeqEqual
  <2>3. QED
    BY <1>1, <2>2, SubSeqFull
<1>7. utf8SequenceLength(t) = n <=> Encodes(t, n)
  BY <1>1, <1>2, TakesEncodings
<1>8. Encodes(t, n) <=> Encodes(c, n)
  BY <1>5, <1>6, SMT DEF Encodes
<1>9. QED
  BY <1>4, <1>7, <1>8, Zenon DEF Taken, u

\* What encodeUtf8 makes of a scalar is a character, and its bits are the scalar's.
LEMMA EncodingIsChar ==
  ASSUME NEW s \in Int, 0 <= s, s <= 1114111
  PROVE  encodeUtf8(s) \in Char /\ ScalarOf(encodeUtf8(s), Len(encodeUtf8(s))) = s
<1>1. CASE s <= 127
  <2>1. encodeUtf8(s) = <<s>>
    BY <1>1, SMT DEF encodeUtf8
  <2>2. <<s>> \in Char /\ ScalarOf(<<s>>, 1) = s /\ Len(<<s>>) = 1
    BY <1>1, SMT DEF Char, Byte, ScalarOf
  <2>3. QED
    BY <2>1, <2>2, SMT
<1>2. CASE 127 < s /\ s <= 2047
  <2> DEFINE a == s \div 64
             b == s % 64
  <2>1. encodeUtf8(s) = <<192 + a, 128 + b>>
    BY <1>2, SMT DEF encodeUtf8
  <2>2. a \in 0..31 /\ b \in 0..63 /\ a * 64 + b = s
    BY <1>2, SMT
  <2> HIDE DEF a, b
  <2>3. (192 + a) % 32 = a /\ (128 + b) % 64 = b
    BY <2>2, SMT
  <2>4. <<192 + a, 128 + b>> \in Char /\ Len(<<192 + a, 128 + b>>) = 2
    BY <2>2, SMT DEF Char, Byte
  <2>5. ScalarOf(<<192 + a, 128 + b>>, 2) = s
    BY <2>2, <2>3, SMT DEF ScalarOf
  <2>6. QED
    BY <2>1, <2>4, <2>5, SMT
<1>3. CASE 2047 < s /\ s <= 65535
  <2> DEFINE a == s \div 4096
             b == (s \div 64) % 64
             c == s % 64
  <2>1. encodeUtf8(s) = <<224 + a, 128 + b, 128 + c>>
    BY <1>3, SMT DEF encodeUtf8
  <2>2. a \in 0..15 /\ b \in 0..63 /\ c \in 0..63 /\ a * 4096 + b * 64 + c = s
    BY <1>3, SMT
  <2> HIDE DEF a, b, c
  <2>3. (224 + a) % 16 = a /\ (128 + b) % 64 = b /\ (128 + c) % 64 = c
    BY <2>2, SMT
  <2>4. <<224 + a, 128 + b, 128 + c>> \in Char /\ Len(<<224 + a, 128 + b, 128 + c>>) = 3
    BY <2>2, SMT DEF Char, Byte
  <2>5. ScalarOf(<<224 + a, 128 + b, 128 + c>>, 3) = s
    BY <2>2, <2>3, SMT DEF ScalarOf
  <2>6. QED
    BY <2>1, <2>4, <2>5, SMT
<1>4. CASE 65535 < s
  <2> DEFINE a == s \div 262144
             b == (s \div 4096) % 64
             c == (s \div 64) % 64
             d == s % 64
  <2>1. encodeUtf8(s) = <<240 + a, 128 + b, 128 + c, 128 + d>>
    BY <1>4, SMT DEF encodeUtf8
  <2>2. a \in 0..4 /\ b \in 0..63 /\ c \in 0..63 /\ d \in 0..63 /\ a * 262144 + b * 4096 + c * 64 + d = s
    BY <1>4, SMT
  <2> HIDE DEF a, b, c, d
  <2>3. (240 + a) % 8 = a /\ (128 + b) % 64 = b /\ (128 + c) % 64 = c /\ (128 + d) % 64 = d
    BY <2>2, SMT
  <2>4. /\ <<240 + a, 128 + b, 128 + c, 128 + d>> \in Char
        /\ Len(<<240 + a, 128 + b, 128 + c, 128 + d>>) = 4
    BY <2>2, SMT DEF Char, Byte
  <2>5. ScalarOf(<<240 + a, 128 + b, 128 + c, 128 + d>>, 4) = s
    BY <2>2, <2>3, SMT DEF ScalarOf
  <2>6. QED
    BY <2>1, <2>4, <2>5, SMT
<1>5. QED
  BY <1>1, <1>2, <1>3, <1>4, SMT

\* Of a scalar that is no surrogate it is one that utf8SequenceLength takes.
LEMMA EncodingIsTaken ==
  ASSUME NEW s \in Int, 0 <= s, s <= 1114111, ~isHigh(s), ~isLow(s)
  PROVE  Taken(encodeUtf8(s))
<1> DEFINE c == encodeUtf8(s)
<1>1. c \in Char /\ ScalarOf(c, Len(c)) = s
  BY EncodingIsChar, SMT
<1>2. SubSeq(c, 1, Len(c)) = c
  BY <1>1, SubSeqFull, SMT DEF Char
<1>3. Encodes(c, Len(c))
  BY <1>1, <1>2, SMT DEF Encodes
<1>4. QED
  BY <1>1, <1>3, TakenIsEncoding, SMT

-----------------------------------------------------------------------------
(* Lengths *)

LEMMA LengthsNat ==
  ASSUME NEW s \in Seq(Nat)
  PROVE  \A k \in 0..Len(s) : Lengths(s)[k] \in Nat
<1> DEFINE n == Len(s)
           G == {k \in 0..n : Lengths(s)[k] \in Nat}
<1>1. n \in Nat
  OBVIOUS
<1>2. 0 \in G
  BY <1>1, LengthsSteps
<1>3. ASSUME NEW k \in 0..(n - 1), k \in G PROVE k + 1 \in G
  <2>1. k + 1 \in 1..n /\ k + 1 \in 0..n /\ k + 1 - 1 = k /\ s[k + 1] \in Nat
    BY <1>1, ElementOfSeq
  <2>2. Lengths(s)[k + 1] = Lengths(s)[k] + s[k + 1]
    BY <2>1, LengthsSteps
  <2>3. QED
    BY <1>3, <2>1, <2>2
<1>4. 0..n \subseteq G
  <2> HIDE DEF G, n
  <2>1. QED
    BY <1>1, <1>2, <1>3, UpTo
<1>5. QED
  BY <1>4

\* Texts that begin with the same pieces are as long so far.
LEMMA LengthsSame ==
  ASSUME NEW s \in Seq(Nat), NEW t \in Seq(Nat), NEW n \in Nat, n <= Len(s), n <= Len(t),
         \A k \in 1..n : s[k] = t[k]
  PROVE  Lengths(s)[n] = Lengths(t)[n]
<1> DEFINE G == {k \in 0..n : Lengths(s)[k] = Lengths(t)[k]}
<1>1. 0 \in G
  BY LengthsSteps
<1>2. ASSUME NEW k \in 0..(n - 1), k \in G PROVE k + 1 \in G
  <2>1. /\ k + 1 \in 1..n /\ k + 1 \in 1..Len(s) /\ k + 1 \in 1..Len(t) /\ k + 1 \in 0..n
        /\ k + 1 - 1 = k
    OBVIOUS
  <2>2. Lengths(s)[k + 1] = Lengths(s)[k] + s[k + 1] /\ Lengths(t)[k + 1] = Lengths(t)[k] + t[k + 1]
    BY <2>1, LengthsSteps
  <2>3. QED
    BY <1>2, <2>1, <2>2
<1>3. 0..n \subseteq G
  <2> HIDE DEF G
  <2>1. QED
    BY <1>1, <1>2, UpTo
<1>4. QED
  BY <1>3

\* A piece more.
LEMMA SumAppend ==
  ASSUME NEW s \in Seq(Nat), NEW x \in Nat
  PROVE  SumOf(Append(s, x)) = SumOf(s) + x /\ SumOf(s) \in Nat
<1> DEFINE t == Append(s, x)
           n == Len(s)
<1>1. t \in Seq(Nat) /\ Len(t) = n + 1 /\ (\A k \in 1..n : t[k] = s[k]) /\ t[n + 1] = x /\ n \in Nat
  BY AppendProperties
<1> HIDE DEF t, n
<1>2. Lengths(t)[n] = Lengths(s)[n]
  <2>1. n <= Len(s) /\ n <= Len(t)
    BY <1>1 DEF n
  <2>2. QED
    BY <1>1, <2>1, LengthsSame
<1>3. Lengths(t)[n + 1] = Lengths(t)[n] + x
  <2>1. n + 1 \in 1..Len(t) /\ n + 1 - 1 = n
    BY <1>1
  <2>2. QED
    BY <1>1, <2>1, LengthsSteps
<1>4. Lengths(s)[n] \in Nat
  BY <1>1, LengthsNat DEF n
<1>5. QED
  BY <1>1, <1>2, <1>3, <1>4 DEF SumOf, n, t

\* Pieces that are each so many times as long at most.
LEMMA SumBound ==
  ASSUME NEW s \in Seq(Nat), NEW t \in Seq(Nat), Len(s) = Len(t),
         \A k \in 1..Len(s) : s[k] <= 6 * t[k]
  PROVE  SumOf(s) <= 6 * SumOf(t)
<1> DEFINE n == Len(s)
           G == {k \in 0..n : Lengths(s)[k] <= 6 * Lengths(t)[k]}
<1>1. n \in Nat /\ n = Len(t)
  OBVIOUS
<1>2. 0 \in G
  BY <1>1, LengthsSteps
<1>3. ASSUME NEW k \in 0..(n - 1), k \in G PROVE k + 1 \in G
  <2>1. /\ k + 1 \in 1..n /\ k + 1 \in 0..n /\ k \in 0..n /\ k + 1 - 1 = k
        /\ s[k + 1] \in Nat /\ t[k + 1] \in Nat
    BY <1>1, ElementOfSeq
  <2>2. Lengths(s)[k + 1] = Lengths(s)[k] + s[k + 1] /\ Lengths(t)[k + 1] = Lengths(t)[k] + t[k + 1]
    BY <1>1, <2>1, LengthsSteps
  <2>3. Lengths(s)[k] \in Nat /\ Lengths(t)[k] \in Nat
    BY <1>1, <2>1, LengthsNat
  <2>4. s[k + 1] <= 6 * t[k + 1] /\ Lengths(s)[k] <= 6 * Lengths(t)[k]
    BY <1>3, <2>1
  <2>5. Lengths(s)[k + 1] <= 6 * Lengths(t)[k + 1]
    <3>1. \A a, b, x, y \in Nat : a <= 6 * b /\ x <= 6 * y => a + x <= 6 * (b + y)
      OBVIOUS
    <3> HIDE DEF G, n
    <3>2. Lengths(s)[k] + s[k + 1] <= 6 * (Lengths(t)[k] + t[k + 1])
      BY <2>1, <2>3, <2>4, <3>1
    <3>3. QED
      BY <2>2, <3>2
  <2>6. QED
    BY <2>1, <2>5
<1>4. 0..n \subseteq G
  <2> HIDE DEF G, n
  <2>1. QED
    BY <1>1, <1>2, <1>3, UpTo
<1>5. QED
  BY <1>1, <1>4 DEF SumOf

\* The length of a text of characters.
LEMMA ByteLengths ==
  ASSUME NEW s \in Seq(Char)
  PROVE  /\ ByteLength(s) \in Nat
         /\ ByteLength(<<>>) = 0
         /\ \A c \in Char : ByteLength(Append(s, c)) = ByteLength(s) + Len(c)
<1> DEFINE L(x) == [k \in 1..Len(x) |-> Len(x[k])]
<1>1. \A x \in Seq(Char) : L(x) \in Seq(Nat) /\ Len(L(x)) = Len(x)
  <2>1. TAKE x \in Seq(Char)
  <2>2. \A k \in 1..Len(x) : Len(x[k]) \in Nat
    BY ElementOfSeq DEF Char
  <2>3. QED
    BY <2>2
<1>2. ByteLength(s) \in Nat
  <2>1. SumOf(L(s)) \in Nat
    <3> HIDE DEF L
    <3>1. QED
      BY <1>1, SumAppend
  <2>2. QED
    BY <2>1 DEF ByteLength
<1>3. ByteLength(<<>>) = 0
  <2>1. L(<<>>) = <<>>
    OBVIOUS
  <2>2. <<>> \in Seq(Nat) /\ Len(<<>>) = 0
    OBVIOUS
  <2>3. SumOf(<<>>) = 0
    BY <2>2, LengthsSteps DEF SumOf
  <2>4. QED
    BY <2>1, <2>3 DEF ByteLength
<1>4. ASSUME NEW c \in Char PROVE ByteLength(Append(s, c)) = ByteLength(s) + Len(c)
  <2> DEFINE t == Append(s, c)
  <2>1. /\ t \in Seq(Char) /\ Len(t) = Len(s) + 1 /\ Len(s) \in Nat
        /\ (\A k \in 1..Len(s) : t[k] = s[k]) /\ t[Len(s) + 1] = c
    BY AppendProperties
  <2>2. Len(c) \in Nat
    BY DEF Char
  <2> HIDE DEF t
  <2>3. L(t) = Append(L(s), Len(c))
    <3> DEFINE u == Append(L(s), Len(c))
    <3>1. /\ u \in Seq(Nat) /\ Len(u) = Len(s) + 1
          /\ (\A k \in 1..Len(s) : u[k] = Len(s[k])) /\ u[Len(s) + 1] = Len(c)
      <4>1. L(s) \in Seq(Nat) /\ Len(L(s)) = Len(s) /\ \A k \in 1..Len(s) : L(s)[k] = Len(s[k])
        BY <1>1
      <4> HIDE DEF L
      <4>2. QED
        BY <2>2, <4>1, AppendProperties
    <3>2. L(t) \in Seq(Nat) /\ Len(L(t)) = Len(s) + 1 /\ \A k \in 1..(Len(s) + 1) : L(t)[k] = Len(t[k])
      BY <1>1, <2>1
    <3>3. \A k \in 1..(Len(s) + 1) : L(t)[k] = u[k]
      <4> HIDE DEF u, L
      <4>1. TAKE k \in 1..(Len(s) + 1)
      <4>2. CASE k = Len(s) + 1
        BY <2>1, <3>1, <3>2, <4>2
      <4>3. CASE k # Len(s) + 1
        <5>1. k \in 1..Len(s)
          BY <2>1, <4>3
        <5>2. L(t)[k] = Len(t[k]) /\ u[k] = Len(s[k]) /\ t[k] = s[k]
          BY <2>1, <3>1, <3>2, <5>1
        <5>3. QED
          BY <5>2
      <4>4. QED
        BY <4>2, <4>3
    <3> HIDE DEF u, L
    <3>4. QED
      BY <3>1, <3>2, <3>3, SeqEqual DEF u
  <2>4. SumOf(Append(L(s), Len(c))) = SumOf(L(s)) + Len(c)
    <3> HIDE DEF L
    <3>1. QED
      BY <1>1, <2>2, SumAppend
  <2>5. QED
    BY <2>3, <2>4 DEF ByteLength, t
<1>5. QED
  BY <1>2, <1>3, <1>4

-----------------------------------------------------------------------------
(* The parser of strings *)

Output == [ok : BOOLEAN, out : Seq(Char), high : {h \in Nat : h = 0 \/ isHigh(h)}]

\* The items of a JsonItem and those that appendEscaped writes.
AnyItem == [kind : {"u"}, unit : CodeUnits]
           \cup [kind : {"short"}, unit : {u \in Nat : 1 <= u /\ u <= 127}]
           \cup [kind : {"raw"}, char : Char]

\* After a high surrogate or none: the first one of a pair, and what stands for a character.
Pends(high, i) == i.kind = "u" /\ high = 0 /\ isHigh(i.unit)
Spells(high, i) ==
  \/ i.kind = "u" /\ high # 0 /\ isLow(i.unit)
  \/ i.kind = "u" /\ high = 0 /\ ~isHigh(i.unit) /\ ~isLow(i.unit) /\ i.unit # 0
  \/ i.kind = "short" /\ high = 0
  \/ i.kind = "raw" /\ high = 0 /\ i.char[1] >= 32 /\ Taken(i.char)
Paired(high, unit) == 65536 + (high - 55296) * 1024 + (unit - 56320)
Spelled(high, i) == CASE i.kind = "u" /\ high # 0 -> encodeUtf8(Paired(high, i.unit))
                      [] i.kind = "u" /\ high = 0 -> encodeUtf8(i.unit)
                      [] i.kind = "short" -> <<i.unit>>
                      [] OTHER -> i.char

\* The strings of the runs are made of such items.
LEMMA JsonItems ==
  JsonItem \subseteq AnyItem
<1>1. RawCharacters \subseteq Char
  BY DEF RawCharacters, Char
<1>2. {34, 92, 47, 8, 12, 10, 13, 9} \subseteq {u \in Nat : 1 <= u /\ u <= 127}
  OBVIOUS
<1>3. QED
  BY <1>1, <1>2 DEF JsonItem, AnyItem

\* What an item does: it spells a character, it waits for the other one of its pair, or
\* the string is refused.
LEMMA ItemCases ==
  ASSUME NEW acc \in Output, NEW i \in AnyItem, NEW size
  PROVE  /\ acc.ok /\ Spells(acc.high, i) => Item(acc, i, size) = Add(acc, Spelled(acc.high, i), size)
         /\ acc.ok /\ Pends(acc.high, i) => Item(acc, i, size) = [acc EXCEPT !.high = i.unit]
         /\ ~(acc.ok /\ (Spells(acc.high, i) \/ Pends(acc.high, i))) => Item(acc, i, size) = Nothing
<1>1. acc.ok \in BOOLEAN /\ acc.high \in Nat
  BY DEF Output
<1>2. CASE i.kind = "u"
  <2>1. Item(acc, i, size) = IF acc.ok THEN Escape(acc, i.unit, size) ELSE Nothing
    BY <1>1, <1>2 DEF Item
  <2>2. \A u : ~(isHigh(u) /\ isLow(u)) \/ u \notin Int
    BY SMT DEF isHigh, isLow
  <2>3. i.unit \in Int
    BY <1>2 DEF AnyItem, CodeUnits
  <2>4. acc.high # 0 /\ isLow(i.unit) => Escape(acc, i.unit, size) = Add(acc, encodeUtf8(Paired(acc.high, i.unit)), size)
    BY <2>2, <2>3, SMT DEF Escape, Paired
  <2>5. acc.high = 0 /\ isHigh(i.unit) => Escape(acc, i.unit, size) = [acc EXCEPT !.high = i.unit]
    BY <1>1, <2>2, <2>3, SMT DEF Escape
  <2>6. acc.high = 0 /\ ~isHigh(i.unit) /\ ~isLow(i.unit) /\ i.unit # 0
        => Escape(acc, i.unit, size) = Add(acc, encodeUtf8(i.unit), size)
    BY <2>2, <2>3, SMT DEF Escape
  <2>7. ~(Spells(acc.high, i) \/ Pends(acc.high, i)) => Escape(acc, i.unit, size) = Nothing
    BY <1>1, <1>2, <2>2, <2>3, SMT DEF Escape, Spells, Pends
  <2>8. QED
    BY <1>1, <1>2, <2>1, <2>4, <2>5, <2>6, <2>7, SMT DEF Spells, Pends, Spelled
<1>3. CASE i.kind = "short"
  BY <1>1, <1>3, SMT DEF Item, Spells, Pends, Spelled
<1>4. CASE i.kind = "raw"
  BY <1>1, <1>4, SMT DEF Item, Spells, Pends, Spelled, Taken
<1>5. QED
  BY <1>2, <1>3, <1>4 DEF AnyItem

\* What is spelled is a character, no NUL, and in UTF-16 what the items stand for.
LEMMA SpelledIsTaken ==
  ASSUME NEW high \in Nat, high = 0 \/ isHigh(high), NEW i \in AnyItem, Spells(high, i)
  PROVE  /\ Spelled(high, i) \in Char /\ Taken(Spelled(high, i)) /\ Spelled(high, i) # <<0>>
         /\ Utf16(ScalarOf(Spelled(high, i), Len(Spelled(high, i))))
            = (IF high = 0 THEN <<>> ELSE <<high>>) \o UnitsOf(i)
<1>1. CASE i.kind = "u"
  <2> DEFINE s == IF high = 0 THEN i.unit ELSE Paired(high, i.unit)
  <2>1. i.unit \in Nat /\ i.unit <= 65535
    BY <1>1 DEF AnyItem, CodeUnits
  <2>2. /\ s \in Int /\ 1 <= s /\ s <= 1114111 /\ ~isHigh(s) /\ ~isLow(s)
        /\ high # 0 => 65536 <= s /\ s - 65536 = (high - 55296) * 1024 + (i.unit - 56320)
    BY <1>1, <2>1, SMT DEF Spells, isHigh, isLow, Paired
  <2>3. Spelled(high, i) = encodeUtf8(s)
    BY <1>1, SMT DEF Spelled
  <2>4. encodeUtf8(s) \in Char /\ Taken(encodeUtf8(s)) /\ ScalarOf(encodeUtf8(s), Len(encodeUtf8(s))) = s
    <3> HIDE DEF s
    <3>1. QED
      BY <2>2, EncodingIsChar, EncodingIsTaken, SMT
  <2>5. encodeUtf8(s) # <<0>>
    <3> DEFINE e == encodeUtf8(s)
               z == <<0>>
    <3>1. ScalarOf(z, Len(z)) = 0
      BY SMT DEF ScalarOf
    <3>2. ScalarOf(e, Len(e)) = s /\ s # 0
      BY <2>2, <2>4, SMT
    <3> HIDE DEF s, e, z
    <3>3. e # z
      BY <3>1, <3>2
    <3>4. QED
      BY <3>3 DEF e, z
  <2>6. Utf16(s) = (IF high = 0 THEN <<>> ELSE <<high>>) \o UnitsOf(i)
    <3>1. UnitsOf(i) = <<i.unit>>
      BY <1>1, SMT DEF UnitsOf
    <3>2. CASE high = 0
      BY <2>1, <3>1, <3>2, SMT DEF Utf16
    <3>3. CASE high # 0
      <4>1. /\ 55296 <= high /\ high <= 56319 /\ 56320 <= i.unit /\ i.unit <= 57343
        BY <1>1, <3>3, SMT DEF Spells, isHigh, isLow
      <4> DEFINE a == high - 55296
                 b == i.unit - 56320
      <4>2. a \in Nat /\ b \in Nat /\ b <= 1023
        BY <2>1, <4>1, SMT
      <4>3. (s - 65536) \div 1024 = a /\ (s - 65536) % 1024 = b
        <5>1. s - 65536 = a * 1024 + b
          BY <2>2, <3>3, SMT
        <5> HIDE DEF a, b
        <5>2. (a * 1024 + b) \div 1024 = a /\ (a * 1024 + b) % 1024 = b
          BY <4>2, SMT
        <5> HIDE DEF s
        <5>3. QED
          BY <5>1, <5>2, SMT
      <4>4. ~(s < 65536)
        BY <2>2, <3>3, SMT
      <4>5. 55296 + a = high /\ 56320 + b = i.unit
        BY <2>1, SMT
      <4>6. Utf16(s) = <<high, i.unit>>
        <5> HIDE DEF s, a, b
        <5>1. QED
          BY <4>3, <4>4, <4>5, SMT DEF Utf16
      <4>7. QED
        BY <3>1, <3>3, <4>6, SMT
    <3>4. QED
      BY <3>2, <3>3
  <2>7. QED
    BY <2>3, <2>4, <2>5, <2>6
<1>2. CASE i.kind = "short"
  <2>1. i.unit \in Nat /\ 1 <= i.unit /\ i.unit <= 127
    BY <1>2 DEF AnyItem
  <2>2. Spelled(high, i) = <<i.unit>> /\ high = 0 /\ UnitsOf(i) = <<i.unit>>
    BY <1>2, SMT DEF Spelled, Spells, UnitsOf
  <2>3. encodeUtf8(i.unit) = <<i.unit>>
    BY <2>1, SMT DEF encodeUtf8
  <2>4. /\ <<i.unit>> \in Char /\ Taken(<<i.unit>>)
        /\ ScalarOf(<<i.unit>>, Len(<<i.unit>>)) = i.unit
    <3>1. ~isHigh(i.unit) /\ ~isLow(i.unit) /\ i.unit \in Int /\ 0 <= i.unit /\ i.unit <= 1114111
      BY <2>1, SMT DEF isHigh, isLow
    <3> DEFINE e == encodeUtf8(i.unit)
    <3>2. e \in Char /\ Taken(e) /\ ScalarOf(e, Len(e)) = i.unit
      <4> DEFINE s == i.unit
      <4> HIDE DEF s
      <4>1. s \in Int /\ 0 <= s /\ s <= 1114111 /\ ~isHigh(s) /\ ~isLow(s)
        BY <3>1 DEF s
      <4>2. encodeUtf8(s) \in Char /\ Taken(encodeUtf8(s)) /\ ScalarOf(encodeUtf8(s), Len(encodeUtf8(s))) = s
        BY <4>1, EncodingIsChar, EncodingIsTaken, SMT
      <4>3. QED
        BY <4>2 DEF s
    <3>3. e = <<i.unit>>
      BY <2>3
    <3> HIDE DEF e
    <3>4. QED
      BY <3>2, <3>3
  <2>5. <<i.unit>> # <<0>>
    BY <2>1
  <2>6. Utf16(i.unit) = <<i.unit>>
    BY <2>1, SMT DEF Utf16
  <2>7. QED
    BY <2>2, <2>4, <2>5, <2>6
<1>3. CASE i.kind = "raw"
  <2>1. i.char \in Char
    BY <1>3 DEF AnyItem
  <2>2. Spelled(high, i) = i.char /\ high = 0 /\ UnitsOf(i) = Utf16(ScalarOf(i.char, Len(i.char)))
    BY <1>3, SMT DEF Spelled, Spells, UnitsOf
  <2>3. Taken(i.char) /\ i.char # <<0>>
    BY <1>3, SMT DEF Spells
  <2>4. Utf16(ScalarOf(i.char, Len(i.char))) \in Seq(Int)
    <3>1. ScalarOf(i.char, Len(i.char)) \in Int
      <4>1. Len(i.char) \in 1..4 /\ \A k \in 1..Len(i.char) : i.char[k] \in Int
        <5>1. i.char \in Seq(Byte) /\ Len(i.char) \in 1..4
          BY <2>1 DEF Char
        <5>2. \A b \in Byte : b \in Int
          BY DEF Byte
        <5>3. QED
          BY <5>1, <5>2, ElementOfSeq
      <4> DEFINE c == i.char
                 n == Len(c)
      <4>2. n \in 1..4 /\ \A k \in 1..n : c[k] \in Int
        BY <4>1
      <4> HIDE DEF c, n
      <4>3. n = 1 \/ n = 2 \/ n = 3 \/ n = 4
        BY <4>2
      <4>4. ScalarOf(c, n) \in Int
        BY <4>2, <4>3, SMT DEF ScalarOf
      <4>5. QED
        BY <4>4 DEF c, n
    <3>2. QED
      BY <3>1, SMT DEF Utf16
  <2>5. QED
    BY <2>1, <2>2, <2>3, <2>4, ConcatEmptySeq
<1>4. QED
  BY <1>1, <1>2, <1>3 DEF AnyItem

LEMMA NothingIsOutput ==
  Nothing \in Output /\ [Nothing EXCEPT !.ok = TRUE] \in Output
<1> DEFINE H == {h \in Nat : h = 0 \/ isHigh(h)}
<1>1. 0 \in H /\ <<>> \in Seq(Char)
  OBVIOUS
<1>2. Output = [ok : BOOLEAN, out : Seq(Char), high : H]
  BY DEF Output
<1> HIDE DEF H
<1>3. QED
  BY <1>1, <1>2 DEF Nothing

\* A character is appended whole, if it fits.
LEMMA AddedWhole ==
  ASSUME NEW acc \in Output, acc.ok, NEW c \in Char, NEW size \in Nat
  PROVE  /\ Add(acc, c, size) \in Output
         /\ Add(acc, c, size).ok <=> ByteLength(acc.out) + Len(c) < size
         /\ Add(acc, c, size).ok => /\ Add(acc, c, size).out = Append(acc.out, c)
                                    /\ Add(acc, c, size).high = 0
         /\ ~Add(acc, c, size).ok => Add(acc, c, size) = Nothing
<1>1. acc.out \in Seq(Char) /\ ByteLength(acc.out) \in Nat /\ Len(c) \in Nat
  BY ByteLengths DEF Output, Char
<1>2. Append(acc.out, c) \in Seq(Char)
  BY <1>1
<1>3. CASE ByteLength(acc.out) + Len(c) >= size
  <2>1. Add(acc, c, size) = Nothing
    BY <1>3 DEF Add
  <2>2. QED
    BY <1>1, <1>3, <2>1, NothingIsOutput DEF Nothing
<1>4. CASE ~(ByteLength(acc.out) + Len(c) >= size)
  <2>1. Add(acc, c, size) = [acc EXCEPT !.out = Append(@, c), !.high = 0]
    BY <1>4 DEF Add
  <2> DEFINE H == {h \in Nat : h = 0 \/ isHigh(h)}
             x == Append(acc.out, c)
             new == [acc EXCEPT !.out = x, !.high = 0]
  <2>2. Output = [ok : BOOLEAN, out : Seq(Char), high : H] /\ 0 \in H
    BY DEF Output
  <2>6. Add(acc, c, size) = new
    BY <2>1
  <2> HIDE DEF H, x
  <2>3. x \in Seq(Char)
    BY <1>2 DEF x
  <2>4. new \in Output /\ new.ok /\ new.out = x /\ new.high = 0
    BY <2>2, <2>3
  <2>5. new \in Output /\ new.ok /\ new.out = Append(acc.out, c) /\ new.high = 0
    BY <2>4 DEF x
  <2> HIDE DEF new
  <2>7. QED
    BY <1>1, <1>4, <2>3, <2>5, <2>6
<1>5. QED
  BY <1>3, <1>4

LEMMA ItemTyped ==
  ASSUME NEW acc \in Output, NEW i \in AnyItem, NEW size \in Nat
  PROVE  Item(acc, i, size) \in Output
<1>1. CASE acc.ok /\ Spells(acc.high, i)
  <2>1. Spelled(acc.high, i) \in Char
    <3>1. acc.high \in Nat /\ (acc.high = 0 \/ isHigh(acc.high))
      BY DEF Output
    <3>2. QED
      BY <1>1, <3>1, SpelledIsTaken
  <2>2. QED
    BY <1>1, <2>1, ItemCases, AddedWhole
<1>2. CASE acc.ok /\ Pends(acc.high, i)
  <2>1. i.unit \in Nat /\ isHigh(i.unit)
    BY <1>2 DEF Pends, AnyItem, CodeUnits
  <2>2. Item(acc, i, size) = [acc EXCEPT !.high = i.unit]
    BY <1>2, ItemCases
  <2>3. QED
    BY <2>1, <2>2 DEF Output
<1>3. CASE ~(acc.ok /\ (Spells(acc.high, i) \/ Pends(acc.high, i)))
  BY <1>3, ItemCases, NothingIsOutput
<1>4. QED
  BY <1>1, <1>2, <1>3

\* What the parser has after each item.
LEMMA ParsedSteps ==
  ASSUME NEW items \in Seq(AnyItem), NEW size \in Nat
  PROVE  /\ Parsed(items, size)[0] = [Nothing EXCEPT !.ok = TRUE]
         /\ \A k \in 1..Len(items) :
              Parsed(items, size)[k] = Item(Parsed(items, size)[k - 1], items[k], size)
         /\ \A k \in 0..Len(items) : Parsed(items, size)[k] \in Output
<1> DEFINE n == Len(items)
           a == [Nothing EXCEPT !.ok = TRUE]
           F == [k \in 1..n |-> [x \in Output |-> Item(x, items[k], size)]]
           Fix(g) == g = [k \in 0..n |-> IF k = 0 THEN a ELSE Item(g[k - 1], items[k], size)]
<1>1. n \in Nat /\ \A k \in 1..n : items[k] \in AnyItem
  BY ElementOfSeq
<1>2. F \in [1..n -> [Output -> Output]]
  <2> HIDE DEF n
  <2>1. \A k \in 1..n : \A x \in Output : Item(x, items[k], size) \in Output
    BY <1>1, ItemTyped
  <2>2. QED
    BY <2>1
<1>3. PICK g \in [0..n -> Output] : Follows(g, n, a, F)
  <2>1. a \in Output
    BY NothingIsOutput
  <2> HIDE DEF n, F, a
  <2>2. QED
    BY <1>1, <1>2, <2>1, Recursion
<1>4. \A k \in 1..n : g[k] = Item(g[k - 1], items[k], size)
  <2> HIDE DEF a, n
  <2>1. TAKE k \in 1..n
  <2>2. k - 1 \in 0..n /\ g[k - 1] \in Output
    BY <1>1
  <2>3. g[k] = F[k][g[k - 1]]
    BY <1>3 DEF Follows
  <2>4. QED
    BY <2>2, <2>3
<1>5. Fix(g)
  <2> DEFINE h == [k \in 0..n |-> IF k = 0 THEN a ELSE Item(g[k - 1], items[k], size)]
  <2>1. ASSUME NEW k \in 0..n PROVE h[k] = g[k]
    <3> HIDE DEF a, n
    <3>1. CASE k = 0
      BY <1>3, <3>1 DEF Follows
    <3>2. CASE k # 0
      BY <1>1, <1>4, <3>2
    <3>3. QED
      BY <3>1, <3>2
  <2> HIDE DEF a, n
  <2>2. h = g
    BY <2>1
  <2>3. QED
    BY <2>2
<1>6. Parsed(items, size) = CHOOSE f : Fix(f)
  BY DEF Parsed
<1> HIDE DEF Fix
<1>7. Fix(Parsed(items, size))
  BY <1>5, <1>6
<1> DEFINE p == Parsed(items, size)
<1>8. p = [k \in 0..n |-> IF k = 0 THEN a ELSE Item(p[k - 1], items[k], size)]
  BY <1>7 DEF Fix
<1> HIDE DEF p, n, a, F
<1>9. p[0] = a /\ \A k \in 1..n : p[k] = Item(p[k - 1], items[k], size)
  BY <1>1, <1>8
<1> DEFINE G == {k \in 0..n : p[k] \in Output}
<1>10. 0 \in G
  BY <1>1, <1>9, NothingIsOutput DEF a
<1>11. ASSUME NEW k \in 0..(n - 1), k \in G PROVE k + 1 \in G
  <2>1. k + 1 \in 1..n /\ k + 1 \in 0..n /\ k + 1 - 1 = k /\ items[k + 1] \in AnyItem
    BY <1>1
  <2>2. p[k + 1] = Item(p[k], items[k + 1], size)
    BY <1>9, <2>1
  <2>3. QED
    BY <1>11, <2>1, <2>2, ItemTyped
<1>12. 0..n \subseteq G
  <2> HIDE DEF G
  <2>1. QED
    BY <1>1, <1>10, <1>11, UpTo
<1>13. QED
  BY <1>9, <1>12 DEF p, n, a

\* The output holds characters, none of them a NUL, and fits into its buffer with the NUL
\* at its end.
Sound(acc, size) ==
  /\ \A k \in 1..Len(acc.out) : Taken(acc.out[k]) /\ acc.out[k] # <<0>>
  /\ acc.ok => ByteLength(acc.out) < size
  /\ ~acc.ok => acc = Nothing

LEMMA ItemIsSound ==
  ASSUME NEW acc \in Output, NEW i \in AnyItem, NEW size \in Nat, Sound(acc, size)
  PROVE  Sound(Item(acc, i, size), size)
<1>1. acc.out \in Seq(Char) /\ acc.high \in Nat /\ (acc.high = 0 \/ isHigh(acc.high)) /\ acc.ok \in BOOLEAN
  BY DEF Output
<1>2. Sound(Nothing, size)
  BY DEF Sound, Nothing
<1>3. CASE acc.ok /\ Spells(acc.high, i)
  <2> DEFINE c == Spelled(acc.high, i)
             new == Item(acc, i, size)
  <2>1. c \in Char /\ Taken(c) /\ c # <<0>>
    BY <1>1, <1>3, SpelledIsTaken
  <2>2. new = Add(acc, c, size)
    BY <1>3, ItemCases
  <2> HIDE DEF c, new
  <2>3. CASE ~new.ok
    BY <1>2, <1>3, <2>1, <2>2, <2>3, AddedWhole DEF new
  <2>4. CASE new.ok
    <3>1. new.out = Append(acc.out, c) /\ ByteLength(acc.out) + Len(c) < size
      BY <1>3, <2>1, <2>2, <2>4, AddedWhole
    <3>2. ByteLength(new.out) < size
      BY <1>1, <2>1, <3>1, ByteLengths
    <3>3. ASSUME NEW k \in 1..Len(new.out) PROVE Taken(new.out[k]) /\ new.out[k] # <<0>>
      <4>1. /\ Len(new.out) = Len(acc.out) + 1 /\ Len(acc.out) \in Nat
            /\ (\A j \in 1..Len(acc.out) : new.out[j] = acc.out[j]) /\ new.out[Len(acc.out) + 1] = c
        BY <1>1, <2>1, <3>1, AppendProperties
      <4>2. CASE k = Len(acc.out) + 1
        BY <2>1, <4>1, <4>2
      <4>3. CASE k # Len(acc.out) + 1
        <5>1. k \in 1..Len(acc.out)
          BY <4>1, <4>3
        <5>2. new.out[k] = acc.out[k]
          BY <4>1, <5>1
        <5>3. QED
          BY <5>1, <5>2 DEF Sound
      <4>4. QED
        BY <4>2, <4>3
    <3>4. QED
      BY <2>4, <3>2, <3>3 DEF Sound, new
  <2>5. QED
    BY <2>3, <2>4 DEF new
<1>4. CASE acc.ok /\ Pends(acc.high, i)
  <2>1. Item(acc, i, size) = [acc EXCEPT !.high = i.unit]
    BY <1>4, ItemCases
  <2>2. Item(acc, i, size).out = acc.out /\ Item(acc, i, size).ok
    BY <1>4, <2>1 DEF Output
  <2>3. QED
    BY <1>4, <2>2 DEF Sound
<1>5. CASE ~(acc.ok /\ (Spells(acc.high, i) \/ Pends(acc.high, i)))
  BY <1>2, <1>5, ItemCases
<1>6. QED
  BY <1>3, <1>4, <1>5

LEMMA ParsedIsSound ==
  ASSUME NEW items \in Seq(AnyItem), NEW size \in Nat \ {0}
  PROVE  \A k \in 0..Len(items) : Sound(Parsed(items, size)[k], size)
<1> DEFINE n == Len(items)
           p == Parsed(items, size)
           G == {k \in 0..n : Sound(p[k], size)}
<1>1. n \in Nat /\ \A k \in 1..n : items[k] \in AnyItem
  BY ElementOfSeq
<1>2. /\ p[0] = [Nothing EXCEPT !.ok = TRUE]
      /\ \A k \in 1..n : p[k] = Item(p[k - 1], items[k], size)
      /\ \A k \in 0..n : p[k] \in Output
  BY ParsedSteps
<1> HIDE DEF n, p
<1>3. 0 \in G
  <2>1. p[0].out = <<>> /\ p[0].ok
    BY <1>2 DEF Nothing
  <2>2. ByteLength(<<>>) = 0
    <3>1. <<>> \in Seq(Char)
      OBVIOUS
    <3>2. QED
      BY <3>1, ByteLengths
  <2>3. Sound(p[0], size)
    BY <2>1, <2>2 DEF Sound
  <2>4. QED
    BY <1>1, <2>3
<1>4. ASSUME NEW k \in 0..(n - 1), k \in G PROVE k + 1 \in G
  <2>1. k + 1 \in 1..n /\ k + 1 \in 0..n /\ k \in 0..n /\ k + 1 - 1 = k
    BY <1>1
  <2>2. p[k + 1] = Item(p[k], items[k + 1], size) /\ p[k] \in Output /\ items[k + 1] \in AnyItem
    BY <1>1, <1>2, <2>1
  <2>3. Sound(p[k], size)
    BY <1>4
  <2>4. QED
    BY <2>1, <2>2, <2>3, ItemIsSound
<1>5. 0..n \subseteq G
  <2> HIDE DEF G
  <2>1. QED
    BY <1>1, <1>3, <1>4, UpTo
<1>6. QED
  BY <1>5 DEF n, p

-----------------------------------------------------------------------------
(* The inputs of a behaviour stay what they are. *)

InputOK == input = NoInput \/ input \in Inputs

LEMMA InputStays ==
  TextsSpec => []InputOK
<1>1. TextsInit => InputOK
  BY DEF TextsInit, InputOK
<1>2. InputOK /\ [TextsNext]_vars => InputOK'
  BY DEF InputOK, TextsNext, ReadToken, Compare, vars
<1>3. QED
  BY <1>1, <1>2, PTL DEF TextsSpec

LEMMA InputKinds ==
  ASSUME InputOK
  PROVE  /\ input.kind = "bytes" => input.bytes \in ByteText
         /\ input.kind = "string" => input.items \in Seq(JsonItem) /\ input.items \in Seq(AnyItem)
                                     /\ input.size \in Nat \ {0}
         /\ input.kind = "page" => input.page \in Seq(Href)
<1>1. input.kind = "bytes" => input.bytes \in ByteTexts
  BY DEF InputOK, Inputs, NoInput
<1>2. input.kind = "string" => input.items \in Strings /\ input.size \in Sizes
  BY DEF InputOK, Inputs, NoInput
<1>3. input.kind = "page" => input.page \in Pages
  BY DEF InputOK, Inputs, NoInput
<1>4. Seq(JsonItem) \subseteq Seq(AnyItem)
  BY JsonItems
<1>5. QED
  BY <1>1, <1>2, <1>3, <1>4, TextsAssumption

\* utf8SequenceLength takes what encodeUtf8 makes of a scalar value that is no surrogate,
\* and nothing else, whatever the four bytes are.
THEOREM EncodingsAreTaken ==
  TextsSpec => []Utf8AsEncoded
<1>1. InputOK => Utf8AsEncoded
  <2>1. SUFFICES ASSUME InputOK, input.kind = "bytes", NEW n \in 1..4
                 PROVE  utf8SequenceLength(input.bytes) = n
                        <=> Encodes(input.bytes, n) /\ \A k \in 1..(n - 1) : ~Encodes(input.bytes, k)
    BY DEF Utf8AsEncoded
  <2> DEFINE t == input.bytes
  <2>2. t \in ByteText
    BY <2>1, InputKinds
  <2> HIDE DEF t
  <2>3. \A m \in 1..4 : utf8SequenceLength(t) = m <=> Encodes(t, m)
    BY <2>2, TakesEncodings
  <2>4. \A k \in 1..(n - 1) : k \in 1..4 /\ k # n
    OBVIOUS
  <2>5. utf8SequenceLength(t) = n <=> Encodes(t, n) /\ \A k \in 1..(n - 1) : ~Encodes(t, k)
    BY <2>3, <2>4
  <2>6. QED
    BY <2>5 DEF t
<1>2. QED
  BY <1>1, InputStays, PTL

-----------------------------------------------------------------------------
(* The status *)

\* A character takes at most six bytes for each of its own.
LEMMA EscapedLengths ==
  ASSUME NEW c \in Char
  PROVE  EscapedLength(c) \in Nat /\ EscapedLength(c) <= 6 * Len(c)
<1>1. Len(c) \in Nat /\ 1 <= Len(c)
  <2>1. Len(c) \in 1..4
    BY DEF Char
  <2>2. QED
    BY <2>1
<1>2. EscapedLength(c) \in {2, 6, Len(c)}
  BY DEF EscapedLength
<1>3. QED
  BY <1>1, <1>2

\* The two statuses of precheck.
LEMMA OtherLengths ==
  \A others \in {<<8, 7, 15>>, <<6, 5, 31>>, <<6, 5, 48>>} : SumOf(others) \in Nat /\ SumOf(others) <= 59
<1>1. ASSUME NEW a \in Nat, NEW b \in Nat, NEW c \in Nat PROVE SumOf(<<a, b, c>>) = a + b + c
  <2> DEFINE s == <<a, b, c>>
  <2>1. s \in Seq(Nat) /\ Len(s) = 3 /\ s[1] = a /\ s[2] = b /\ s[3] = c
    OBVIOUS
  <2> HIDE DEF s
  <2>2. 1 \in 1..Len(s) /\ 2 \in 1..Len(s) /\ 3 \in 1..Len(s)
    BY <2>1
  <2>3. /\ Lengths(s)[0] = 0 /\ Lengths(s)[1] = Lengths(s)[1 - 1] + s[1]
        /\ Lengths(s)[2] = Lengths(s)[2 - 1] + s[2] /\ Lengths(s)[3] = Lengths(s)[3 - 1] + s[3]
    BY <2>1, <2>2, LengthsSteps
  <2>4. Lengths(s)[3] = a + b + c
    BY <2>1, <2>3
  <2>5. QED
    BY <2>1, <2>4 DEF SumOf, s
<1>2. SumOf(<<8, 7, 15>>) = 8 + 7 + 15
  BY <1>1
<1>3. SumOf(<<6, 5, 31>>) = 6 + 5 + 31
  BY <1>1
<1>4. SumOf(<<6, 5, 48>>) = 6 + 5 + 48
  BY <1>1
<1>5. QED
  BY <1>2, <1>3, <1>4

\* What parseJsonString yields is what the parser has after the last item.
LEMMA ParsedString ==
  ASSUME NEW items \in Seq(AnyItem), NEW size \in Nat \ {0}
  PROVE  /\ parseJsonString(items, size) \in Output /\ Sound(parseJsonString(items, size), size)
         /\ parseJsonString(items, size).ok
            => parseJsonString(items, size) = Parsed(items, size)[Len(items)]
<1> DEFINE acc == Parsed(items, size)[Len(items)]
<1>1. acc \in Output /\ Sound(acc, size)
  <2>1. Len(items) \in 0..Len(items)
    OBVIOUS
  <2>2. QED
    BY <2>1, ParsedSteps, ParsedIsSound
<1>2. Sound(Nothing, size) /\ ~Nothing.ok
  BY DEF Sound, Nothing
<1>3. parseJsonString(items, size) = acc \/ parseJsonString(items, size) = Nothing
  BY DEF parseJsonString
<1> HIDE DEF acc
<1>4. QED
  BY <1>1, <1>2, <1>3, NothingIsOutput DEF acc

\* No requestId that parseJsonString has taken, whatever it is made of, makes a status of
\* precheck longer than its 512 bytes.
THEOREM StatusesFit ==
  TextsSpec => []EveryStatusFits
<1>1. InputOK => EveryStatusFits
  <2>1. SUFFICES ASSUME InputOK, input.kind = "string", parseJsonString(input.items, RequestIdSize).ok,
                        NEW others \in {<<8, 7, 15>>, <<6, 5, 31>>, <<6, 5, 48>>}
                 PROVE  otaMqttBuildStatusPayload(parseJsonString(input.items, RequestIdSize).out,
                                                  others, StatusSize)
    BY DEF EveryStatusFits
  <2> DEFINE id == parseJsonString(input.items, RequestIdSize)
             chars == id.out
             lengths == [k \in 1..Len(chars) |-> Len(chars[k])]
             escaped == [k \in 1..Len(chars) |-> EscapedLength(chars[k])]
  <2>2. id \in Output /\ Sound(id, RequestIdSize) /\ id.ok
    <3>1. input.items \in Seq(AnyItem)
      BY <2>1, InputKinds
    <3>2. RequestIdSize \in Nat \ {0}
      BY DEF RequestIdSize
    <3>3. QED
      BY <2>1, <3>1, <3>2, ParsedString
  <2> HIDE DEF id
  <2>3. chars \in Seq(Char) /\ ByteLength(chars) < 64 /\ \A k \in 1..Len(chars) : Taken(chars[k])
    BY <2>2 DEF Output, Sound, RequestIdSize
  <2> HIDE DEF chars
  <2>4. \A k \in 1..Len(chars) : chars[k] \in Char
    BY <2>3, ElementOfSeq
  <2>5. /\ lengths \in Seq(Nat) /\ escaped \in Seq(Nat)
        /\ Len(lengths) = Len(chars) /\ Len(escaped) = Len(chars)
        /\ \A k \in 1..Len(chars) : lengths[k] = Len(chars[k]) /\ escaped[k] = EscapedLength(chars[k])
    <3>1. \A k \in 1..Len(chars) : Len(chars[k]) \in Nat /\ EscapedLength(chars[k]) \in Nat
      BY <2>4, EscapedLengths DEF Char
    <3>2. Len(chars) \in Nat
      BY <2>3
    <3>3. QED
      BY <3>1, <3>2
  <2>6. ByteLength(chars) = SumOf(lengths)
    BY DEF ByteLength
  <2>7. PayloadLength(chars, others) = Frame + SumOf(escaped) + SumOf(others)
    BY DEF PayloadLength
  <2> HIDE DEF lengths, escaped
  <2>8. SumOf(escaped) <= 6 * SumOf(lengths) /\ SumOf(escaped) \in Nat /\ SumOf(lengths) \in Nat
    <3>1. \A k \in 1..Len(escaped) : escaped[k] <= 6 * lengths[k]
      BY <2>4, <2>5, EscapedLengths
    <3>2. QED
      BY <2>5, <3>1, SumBound, SumAppend
  <2>9. SumOf(others) \in Nat /\ SumOf(others) <= 59
    BY OtherLengths
  <2>10. PayloadLength(chars, others) < StatusSize
    <3> DEFINE a == SumOf(escaped)
               b == SumOf(lengths)
               o == SumOf(others)
    <3>1. a \in Nat /\ b \in Nat /\ o \in Nat /\ a <= 6 * b /\ b < 64 /\ o <= 59
      BY <2>3, <2>6, <2>8, <2>9
    <3> HIDE DEF a, b, o
    <3>2. 51 + a + o < 512
      BY <3>1
    <3>3. QED
      BY <2>7, <3>2 DEF a, o, Frame, StatusSize
  <2>11. validateUtf8Text(chars)
    <3>1. DOMAIN chars = 1..Len(chars)
      BY <2>3
    <3>2. QED
      BY <2>3, <3>1 DEF validateUtf8Text, Taken
  <2>12. QED
    BY <2>10, <2>11 DEF otaMqttBuildStatusPayload, chars, id
<1>2. QED
  BY <1>1, InputStays, PTL

-----------------------------------------------------------------------------
(* The listing *)

Listing == [names : Seq(FileName), ended : BOOLEAN]

\* The positions of the packages that can be found before k, and the packages.
Positions(page, k) == {j \in 1..k : page[j].kind = "name" /\ page[j].file.package
                                    /\ \A i \in 1..j : page[i].kind # "unclosed"}
ListedTo(page, k) == {page[j].file : j \in Positions(page, k)}

LEMMA HrefTyped ==
  ASSUME NEW acc \in Listing, NEW href \in Href
  PROVE  extractHrefName(acc, href) \in Listing
<1>1. appendUniqueName(acc, href.file) \in Listing
  <2>1. href.file \in FileName /\ acc.names \in Seq(FileName)
    BY DEF Href, Listing
  <2>2. Append(acc.names, href.file) \in Seq(FileName)
    BY <2>1
  <2> DEFINE x == Append(acc.names, href.file)
  <2>3. [acc EXCEPT !.names = Append(@, href.file)] = [acc EXCEPT !.names = x]
    OBVIOUS
  <2> HIDE DEF x
  <2>4. [acc EXCEPT !.names = x] \in Listing
    BY <2>2 DEF Listing, x
  <2>5. QED
    BY <2>3, <2>4 DEF appendUniqueName
<1>2. [acc EXCEPT !.ended = TRUE] \in Listing
  BY DEF Listing
<1>3. acc.ended \in BOOLEAN /\ href.kind \in {"unquoted", "unclosed", "long", "directory", "name"}
  BY DEF Listing, Href
<1>4. CASE acc.ended \/ href.kind \in {"unquoted", "long", "directory"}
  BY <1>4 DEF extractHrefName
<1>5. CASE ~acc.ended /\ href.kind = "unclosed"
  BY <1>2, <1>5 DEF extractHrefName
<1>6. CASE ~acc.ended /\ href.kind = "name"
  BY <1>1, <1>6 DEF extractHrefName
<1>7. QED
  BY <1>3, <1>4, <1>5, <1>6

LEMMA FoundSteps ==
  ASSUME NEW page \in Seq(Href)
  PROVE  /\ Found(page)[0] = Empty
         /\ \A k \in 1..Len(page) : Found(page)[k] = extractHrefName(Found(page)[k - 1], page[k])
         /\ \A k \in 0..Len(page) : Found(page)[k] \in Listing
<1> DEFINE n == Len(page)
           F == [k \in 1..n |-> [x \in Listing |-> extractHrefName(x, page[k])]]
           Fix(g) == g = [k \in 0..n |-> IF k = 0 THEN Empty ELSE extractHrefName(g[k - 1], page[k])]
<1>1. n \in Nat /\ \A k \in 1..n : page[k] \in Href
  BY ElementOfSeq
<1>2. F \in [1..n -> [Listing -> Listing]]
  <2> HIDE DEF n
  <2>1. \A k \in 1..n : \A x \in Listing : extractHrefName(x, page[k]) \in Listing
    BY <1>1, HrefTyped
  <2>2. QED
    BY <2>1
<1>3. Empty \in Listing
  BY DEF Empty, Listing
<1>4. PICK g \in [0..n -> Listing] : Follows(g, n, Empty, F)
  <2> HIDE DEF n, F
  <2>1. QED
    BY <1>1, <1>2, <1>3, Recursion
<1>5. \A k \in 1..n : g[k] = extractHrefName(g[k - 1], page[k])
  <2> HIDE DEF n
  <2>1. TAKE k \in 1..n
  <2>2. k - 1 \in 0..n /\ g[k - 1] \in Listing
    BY <1>1
  <2>3. g[k] = F[k][g[k - 1]]
    BY <1>4 DEF Follows
  <2>4. QED
    BY <2>2, <2>3
<1>6. Fix(g)
  <2> DEFINE h == [k \in 0..n |-> IF k = 0 THEN Empty ELSE extractHrefName(g[k - 1], page[k])]
  <2>1. ASSUME NEW k \in 0..n PROVE h[k] = g[k]
    <3> HIDE DEF n
    <3>1. CASE k = 0
      BY <1>4, <3>1 DEF Follows
    <3>2. CASE k # 0
      BY <1>1, <1>5, <3>2
    <3>3. QED
      BY <3>1, <3>2
  <2> HIDE DEF n
  <2>2. h = g
    BY <2>1
  <2>3. QED
    BY <2>2
<1>7. Found(page) = CHOOSE f : Fix(f)
  BY DEF Found
<1> HIDE DEF Fix
<1>8. Fix(Found(page))
  BY <1>6, <1>7
<1> DEFINE p == Found(page)
<1>9. p = [k \in 0..n |-> IF k = 0 THEN Empty ELSE extractHrefName(p[k - 1], page[k])]
  BY <1>8 DEF Fix
<1> HIDE DEF p, n, F
<1>10. p[0] = Empty /\ \A k \in 1..n : p[k] = extractHrefName(p[k - 1], page[k])
  BY <1>1, <1>9
<1> DEFINE G == {k \in 0..n : p[k] \in Listing}
<1>11. 0 \in G
  BY <1>1, <1>3, <1>10
<1>12. ASSUME NEW k \in 0..(n - 1), k \in G PROVE k + 1 \in G
  <2>1. k + 1 \in 1..n /\ k + 1 \in 0..n /\ k + 1 - 1 = k /\ page[k + 1] \in Href
    BY <1>1
  <2>2. p[k + 1] = extractHrefName(p[k], page[k + 1])
    BY <1>10, <2>1
  <2>3. QED
    BY <1>12, <2>1, <2>2, HrefTyped
<1>13. 0..n \subseteq G
  <2> HIDE DEF G
  <2>1. QED
    BY <1>1, <1>11, <1>12, UpTo
<1>14. QED
  BY <1>10, <1>13 DEF p, n

LEMMA ListedFinite ==
  ASSUME NEW page \in Seq(Href)
  PROVE  IsFiniteSet(Listed(page)) /\ Listed(page) = ListedTo(page, Len(page))
<1> DEFINE n == Len(page)
           P == Positions(page, n)
           T == ListedTo(page, n)
           f == [j \in P |-> page[j].file]
<1>1. IsFiniteSet(P)
  <2>1. IsFiniteSet(1..n)
    BY FS_Interval
  <2>2. P \in SUBSET (1..n)
    BY DEF Positions
  <2> HIDE DEF P, n
  <2>3. QED
    BY <2>1, <2>2, FS_Subset
<1>2. f \in Surjection(P, T)
  <2> HIDE DEF P
  <2>1. T = {page[j].file : j \in P}
    BY DEF ListedTo, P
  <2> HIDE DEF T
  <2>2. QED
    BY <2>1 DEF Surjection
<1>3. IsFiniteSet(T)
  <2> HIDE DEF P, T, f
  <2>1. QED
    BY <1>1, <1>2, FS_Surjection
<1>4. Listed(page) = T
  <2>1. DOMAIN page = 1..n
    OBVIOUS
  <2>2. QED
    BY <2>1 DEF Listed, ListedTo, Positions
<1>5. QED
  BY <1>3, <1>4

\* The names are the packages found, each once, up to kMaxSwuNames of them.
LEMMA NamesAreListed ==
  ASSUME NEW page \in Seq(Href), Cardinality(Listed(page)) <= MaxNames
  PROVE  /\ parseListingHtml(page) \in Seq(FileName)
         /\ Range(parseListingHtml(page)) = Listed(page)
<1> DEFINE n == Len(page)
           p == Found(page)
           L(k) == ListedTo(page, k)
           Good(k) == /\ p[k].ended <=> \E i \in 1..k : page[i].kind = "unclosed"
                      /\ IsFiniteSet(Range(p[k].names))
                      /\ Cardinality(Range(p[k].names)) = Len(p[k].names)
                      /\ Range(p[k].names) = L(k)
           G == {k \in 0..n : Good(k)}
<1>1. /\ p[0] = Empty /\ (\A k \in 0..n : p[k] \in Listing)
      /\ \A k \in 1..n : p[k] = extractHrefName(p[k - 1], page[k])
  BY FoundSteps
<1>2. n \in Nat /\ \A k \in 1..n : page[k] \in Href
  BY ElementOfSeq
<1>3. IsFiniteSet(Listed(page)) /\ Listed(page) = L(n) /\ \A k \in 0..n : L(k) \subseteq L(n)
  <2>1. \A k \in 0..n : Positions(page, k) \subseteq Positions(page, n)
    BY <1>2 DEF Positions
  <2>2. QED
    BY <2>1, ListedFinite DEF ListedTo
<1> HIDE DEF n, p
<1>4. 0 \in G
  <2>1. p[0].names = <<>> /\ p[0].ended = FALSE
    BY <1>1 DEF Empty
  <2>2. Range(<<>>) = {} /\ Len(<<>>) = 0
    BY DEF Range
  <2>3. L(0) = {}
    BY DEF ListedTo, Positions
  <2>6. ~\E i \in 1..0 : page[i].kind = "unclosed"
    OBVIOUS
  <2>7. IsFiniteSet({}) /\ Cardinality({}) = 0
    BY FS_EmptySet
  <2> HIDE DEF L
  <2>4. Good(0)
    BY <2>1, <2>2, <2>3, <2>6, <2>7
  <2> HIDE DEF Good
  <2>5. QED
    BY <1>2, <2>4
<1>5. ASSUME NEW k \in 0..(n - 1), k \in G PROVE k + 1 \in G
  <2> DEFINE a == p[k]
             h == page[k + 1]
             b == p[k + 1]
  <2>1. k + 1 \in 1..n /\ k + 1 \in 0..n /\ k \in 0..n /\ k + 1 - 1 = k
    BY <1>2
  <2>2. b = extractHrefName(a, h) /\ a \in Listing /\ h \in Href
    BY <1>1, <1>2, <2>1
  <2>3. /\ a.ended <=> \E i \in 1..k : page[i].kind = "unclosed"
        /\ IsFiniteSet(Range(a.names)) /\ Cardinality(Range(a.names)) = Len(a.names)
        /\ Range(a.names) = L(k)
    BY <1>5
  <2>4. /\ a.ended \in BOOLEAN /\ a.names \in Seq(FileName) /\ h.file \in FileName
        /\ h.kind \in {"unquoted", "unclosed", "long", "directory", "name"}
    BY <2>2 DEF Listing, Href
  <2>5. L(k + 1) = IF ~a.ended /\ h.kind = "name" /\ h.file.package THEN L(k) \cup {h.file} ELSE L(k)
    <3> DEFINE Q(j) == Positions(page, j)
    <3>1. Q(k + 1) = IF ~a.ended /\ h.kind = "name" /\ h.file.package THEN Q(k) \cup {k + 1} ELSE Q(k)
      <4>1. \A j \in 1..(k + 1) : j \in 1..k \/ j = k + 1
        BY <2>1
      <4>2. \A j \in 1..k : j \in 1..(k + 1)
        BY <2>1
      <4>3. k + 1 \in 1..(k + 1) /\ k + 1 \notin 1..k
        BY <2>1
      <4>4. (\A i \in 1..(k + 1) : page[i].kind # "unclosed") <=> ~a.ended /\ h.kind # "unclosed"
        <5> HIDE DEF a
        <5>1. QED
          BY <2>3, <4>1, <4>2, <4>3
      <4> HIDE DEF a
      <4>5. QED
        BY <4>1, <4>2, <4>3, <4>4 DEF Positions
    <3> HIDE DEF Q, a
    <3>2. L(k + 1) = {page[j].file : j \in Q(k + 1)} /\ L(k) = {page[j].file : j \in Q(k)}
      BY DEF ListedTo, Q
    <3>3. QED
      BY <3>1, <3>2
  <2>6. (\E i \in 1..(k + 1) : page[i].kind = "unclosed") <=> a.ended \/ h.kind = "unclosed"
    <3>1. \A j \in 1..(k + 1) : j \in 1..k \/ j = k + 1
      BY <2>1
    <3>2. \A j \in 1..k : j \in 1..(k + 1)
      BY <2>1
    <3>3. k + 1 \in 1..(k + 1)
      BY <2>1
    <3> HIDE DEF a
    <3>4. QED
      BY <2>3, <3>1, <3>2, <3>3
  <2> HIDE DEF a, b, h, L
  <2>7. /\ b.ended <=> a.ended \/ h.kind = "unclosed"
        /\ IsFiniteSet(Range(b.names)) /\ Cardinality(Range(b.names)) = Len(b.names)
        /\ Range(b.names) = L(k + 1)
    <3>1. CASE a.ended \/ h.kind \in {"unquoted", "long", "directory"}
      <4>1. b = a
        BY <2>2, <3>1 DEF extractHrefName
      <4>2. QED
        BY <2>3, <2>5, <3>1, <4>1
    <3>2. CASE ~a.ended /\ h.kind = "unclosed"
      <4>1. b = [a EXCEPT !.ended = TRUE]
        BY <2>2, <3>2 DEF extractHrefName
      <4>2. b.ended /\ b.names = a.names
        BY <2>2, <4>1 DEF Listing
      <4>3. QED
        BY <2>3, <2>5, <3>2, <4>2
    <3>3. CASE ~a.ended /\ h.kind = "name"
      <4>1. b = appendUniqueName(a, h.file)
        BY <2>2, <3>3 DEF extractHrefName
      <4>2. CASE ~h.file.package \/ h.file \in Range(a.names)
        <5>1. b = a
          BY <4>1, <4>2 DEF appendUniqueName, isUpdateSwu
        <5>2. L(k + 1) = L(k)
          BY <2>3, <2>5, <4>2
        <5>3. QED
          BY <2>3, <3>3, <5>1, <5>2
      <4>3. CASE h.file.package /\ h.file \notin Range(a.names)
        <5> DEFINE R == Range(a.names)
                   S == Listed(page)
        <5>1. S = L(n) /\ IsFiniteSet(S) /\ L(k) \subseteq L(n) /\ L(k + 1) \subseteq L(n)
          BY <1>3, <2>1 DEF L
        <5>2. L(k + 1) = R \cup {h.file}
          BY <2>3, <2>5, <3>3, <4>3
        <5>3. Len(a.names) \in Nat
          BY <2>4
        <5>4. Len(a.names) < MaxNames
          <6> HIDE DEF R, S
          <6>1. R \in SUBSET S /\ R # S
            BY <4>3, <5>1, <5>2 DEF R
          <6>2. Cardinality(R) <= Cardinality(S) /\ Cardinality(R) # Cardinality(S)
            BY <5>1, <6>1, FS_Subset
          <6>3. Cardinality(R) \in Nat /\ Cardinality(S) \in Nat /\ Cardinality(S) <= MaxNames
            BY <2>3, <5>1, FS_CardinalityType DEF R, S
          <6>4. Cardinality(R) = Len(a.names)
            BY <2>3 DEF R
          <6>5. QED
            BY <6>2, <6>3, <6>4, LimitsAssumption
        <5>5. b = [a EXCEPT !.names = Append(@, h.file)]
          BY <4>1, <4>3, <5>3, <5>4, LimitsAssumption DEF appendUniqueName, isUpdateSwu
        <5> DEFINE x == Append(a.names, h.file)
        <5>6. b = [a EXCEPT !.names = x]
          BY <5>5
        <5>7. /\ Len(x) = Len(a.names) + 1 /\ x \in Seq(FileName)
              /\ (\A j \in 1..Len(a.names) : x[j] = a.names[j]) /\ x[Len(a.names) + 1] = h.file
          BY <2>4, AppendProperties
        <5>8. Range(x) = R \cup {h.file}
          <6>1. DOMAIN x = 1..(Len(a.names) + 1) /\ DOMAIN a.names = 1..Len(a.names)
            BY <2>4, <5>7
          <6>2. \A j \in 1..(Len(a.names) + 1) : j \in 1..Len(a.names) \/ j = Len(a.names) + 1
            BY <5>3
          <6>3. Len(a.names) + 1 \in 1..(Len(a.names) + 1)
                /\ \A j \in 1..Len(a.names) : j \in 1..(Len(a.names) + 1)
            BY <5>3
          <6> HIDE DEF x
          <6>4. QED
            BY <5>7, <6>1, <6>2, <6>3 DEF Range
        <5> HIDE DEF x, R
        <5>9. b.names = x /\ b.ended = a.ended
          BY <2>2, <5>6 DEF Listing
        <5>10. IsFiniteSet(R \cup {h.file}) /\ Cardinality(R \cup {h.file}) = Cardinality(R) + 1
          BY <2>3, <4>3, FS_AddElement DEF R
        <5>11. Cardinality(R) = Len(a.names)
          BY <2>3 DEF R
        <5>12. QED
          BY <3>3, <5>2, <5>7, <5>8, <5>9, <5>10, <5>11
      <4>4. QED
        BY <4>2, <4>3
    <3>4. QED
      BY <2>4, <3>1, <3>2, <3>3
  <2>8. Good(k + 1)
    BY <2>6, <2>7 DEF b, L
  <2> HIDE DEF Good
  <2>9. QED
    BY <2>1, <2>8
<1>6. 0..n \subseteq G
  <2> HIDE DEF G
  <2>1. QED
    BY <1>2, <1>4, <1>5, UpTo
<1>7. n \in 0..n
  BY <1>2
<1>8. Good(n)
  <2> HIDE DEF Good
  <2>1. QED
    BY <1>6, <1>7
<1>9. parseListingHtml(page) = p[n].names /\ p[n].names \in Seq(FileName)
  BY <1>1, <1>7 DEF parseListingHtml, p, n, Listing
<1>10. QED
  BY <1>3, <1>8, <1>9

LEMMA FirstOf ==
  ASSUME NEW T, T \subseteq Nat, T # {}
  PROVE  First(T) \in T
<1>1. \E k \in T : \A j \in T : k <= j
  BY Least
<1>2. QED
  BY <1>1 DEF First

\* Of some stamps one is the highest.
LEMMA NewestExists ==
  ASSUME NEW n \in Nat, NEW S, S \subseteq 1..n, S # {}, NEW v, \A k \in S : v[k] \in Nat
  PROVE  \E m \in S : \A j \in S : v[m] >= v[j]
<1> DEFINE Good(k) == (\A j \in S : ~(j <= k)) \/ \E m \in S : \A j \in S : j <= k => v[m] >= v[j]
           G == {k \in 0..n : Good(k)}
<1>1. \A j \in S : j \in 1..n /\ v[j] \in Nat
  OBVIOUS
<1>2. Good(0)
  BY <1>1
<1>3. ASSUME NEW k \in 0..(n - 1), Good(k) PROVE Good(k + 1)
  <2>1. \A j \in S : j <= k + 1 => j <= k \/ j = k + 1
    BY <1>1
  <2>2. CASE k + 1 \notin S
    BY <1>3, <2>1, <2>2
  <2>3. CASE k + 1 \in S /\ \A j \in S : ~(j <= k)
    <3>1. \A j \in S : j <= k + 1 => v[k + 1] >= v[j]
      BY <1>1, <2>1, <2>3
    <3>2. QED
      BY <2>3, <3>1
  <2>4. CASE k + 1 \in S /\ \E m \in S : \A j \in S : j <= k => v[m] >= v[j]
    <3>1. PICK m \in S : \A j \in S : j <= k => v[m] >= v[j]
      BY <2>4
    <3>2. CASE v[m] >= v[k + 1]
      BY <2>1, <3>1, <3>2
    <3>3. CASE ~(v[m] >= v[k + 1])
      <4>1. \A j \in S : j <= k + 1 => v[k + 1] >= v[j]
        BY <1>1, <2>1, <2>4, <3>1, <3>3
      <4>2. QED
        BY <2>4, <4>1
    <3>4. QED
      BY <3>2, <3>3
  <2>5. QED
    BY <1>3, <2>2, <2>3, <2>4
<1> HIDE DEF Good
<1>4. 0 \in G /\ \A k \in 0..(n - 1) : k \in G => k + 1 \in G
  BY <1>2, <1>3
<1>5. 0..n \subseteq G
  <2> HIDE DEF G
  <2>1. QED
    BY <1>4, UpTo
<1>6. Good(n)
  BY <1>5
<1>7. \A j \in S : j <= n
  BY <1>1
<1>8. PICK m \in S : \A j \in S : j <= n => v[m] >= v[j]
  BY <1>6, <1>7 DEF Good
<1>9. QED
  BY <1>7, <1>8

\* The best name is one of them, none has a later stamp, and if it has no stamp the link
\* goes before the others.
LEMMA BestName ==
  ASSUME NEW names \in Seq(FileName), names # <<>>
  PROVE  /\ pickBestSwuName(names) \in Range(names)
         /\ \A m \in Range(names) : m.stamp <= pickBestSwuName(names).stamp
         /\ pickBestSwuName(names).stamp = -1 /\ ~pickBestSwuName(names).link
            => \A m \in Range(names) : ~(m.package /\ m.link)
<1> DEFINE n == Len(names)
           v == [k \in 1..n |-> names[k].stamp]
           stamped == {k \in 1..n : names[k].stamp # -1}
           newest == {k \in stamped : \A j \in stamped : names[k].stamp >= names[j].stamp}
           links == {k \in 1..n : names[k].package /\ names[k].link}
           best == pickBestSwuName(names)
<1>1. n \in Nat /\ 1 \in 1..n /\ DOMAIN names = 1..n /\ \A k \in 1..n : names[k] \in FileName
  BY EmptySeq, ElementOfSeq
<1>2. best = CASE stamped # {} -> names[First(newest)]
               [] stamped = {} /\ links # {} -> names[First(links)]
               [] OTHER -> names[1]
  BY <1>1 DEF pickBestSwuName, extractBuildStamp, isUnversionedUpdateSwu
<1> HIDE DEF n, best
<1>3. Range(names) = {names[k] : k \in 1..n}
  BY <1>1 DEF Range
<1>4. \A k \in 1..n : names[k].stamp \in Nat \cup {-1} /\ names[k].link \in BOOLEAN /\ names[k].package \in BOOLEAN
  BY <1>1 DEF FileName
<1>5. ASSUME stamped # {}
      PROVE  /\ best \in Range(names) /\ best.stamp # -1
             /\ \A k \in 1..n : names[k].stamp <= best.stamp
  <2>1. stamped \subseteq 1..n /\ \A k \in stamped : names[k].stamp \in Nat /\ v[k] = names[k].stamp
    BY <1>4
  <2>2. \E m \in stamped : \A j \in stamped : v[m] >= v[j]
    <3> HIDE DEF stamped, v
    <3>1. QED
      BY <1>1, <1>5, <2>1, NewestExists
  <2>3. newest # {}
    BY <2>1, <2>2
  <2>4. newest \subseteq Nat
    BY <1>1
  <2>5. First(newest) \in newest
    <3> HIDE DEF newest
    <3>1. QED
      BY <1>1, <2>3, <2>4, FirstOf
  <2> DEFINE f == First(newest)
  <2>6. f \in stamped /\ f \in 1..n /\ \A j \in stamped : names[f].stamp >= names[j].stamp
    BY <2>5
  <2>7. best = names[f]
    BY <1>2, <1>5
  <2> HIDE DEF f, newest
  <2>8. names[f].stamp \in Nat
    BY <2>1, <2>6
  <2>9. ASSUME NEW k \in 1..n PROVE names[k].stamp <= names[f].stamp
    <3>1. CASE k \in stamped
      <4> HIDE DEF stamped
      <4>1. names[f].stamp >= names[k].stamp /\ names[k].stamp \in Nat
        BY <2>1, <2>6, <3>1
      <4>2. QED
        BY <2>8, <4>1
    <3>2. CASE k \notin stamped
      <4>1. names[k].stamp = -1
        BY <3>2
      <4>2. QED
        BY <2>8, <4>1
    <3>3. QED
      BY <3>1, <3>2
  <2>10. QED
    BY <1>3, <2>6, <2>7, <2>8, <2>9
<1>6. ASSUME stamped = {}, links # {}
      PROVE  best \in Range(names) /\ best.link /\ best.stamp = -1
  <2>1. links \subseteq Nat
    BY <1>1
  <2>2. First(links) \in links
    <3> HIDE DEF links
    <3>1. QED
      BY <1>6, <2>1, FirstOf
  <2>3. best = names[First(links)]
    BY <1>2, <1>6
  <2> DEFINE f == First(links)
  <2> HIDE DEF f
  <2>4. f \in 1..n /\ names[f].link /\ best = names[f]
    BY <2>2, <2>3 DEF f
  <2>5. names[f].stamp = -1
    BY <1>6, <2>4
  <2>6. QED
    BY <1>3, <2>4, <2>5
<1>7. ASSUME stamped = {}, links = {}
      PROVE  best \in Range(names) /\ best.stamp = -1
  <2>1. best = names[1]
    BY <1>2, <1>7
  <2>2. QED
    BY <1>1, <1>3, <1>7, <2>1
<1>8. stamped = {} => \A m \in Range(names) : m.stamp = -1
  BY <1>3
<1>9. links = {} => \A m \in Range(names) : ~(m.package /\ m.link)
  BY <1>3
<1> HIDE DEF stamped, links, newest, v
<1>10. CASE stamped # {}
  BY <1>3, <1>5, <1>10 DEF best
<1>11. CASE stamped = {} /\ links # {}
  <2>1. -1 <= -1
    OBVIOUS
  <2>2. QED
    BY <1>6, <1>8, <1>11, <2>1 DEF best
<1>12. CASE stamped = {} /\ links = {}
  <2>1. -1 <= -1
    OBVIOUS
  <2>2. QED
    BY <1>7, <1>8, <1>9, <1>12, <2>1 DEF best
<1>13. QED
  BY <1>10, <1>11, <1>12

\* Whatever the page lists, in any order, repeated and broken: --pull-latest takes one of
\* its packages, and none of them is newer, as long as there are at most kMaxSwuNames.
THEOREM NewestIsPicked ==
  TextsSpec => []PicksNewest
<1>1. InputOK => PicksNewest
  <2> DEFINE page == input.page
             names == parseListingHtml(page)
             best == pickBestSwuName(names)
  <2>1. SUFFICES ASSUME InputOK, input.kind = "page", Cardinality(Listed(page)) <= MaxNames
                 PROVE  /\ (otaResolveLatestSwuUrl(page) = {}) <=> (Listed(page) = {})
                        /\ \A p \in otaResolveLatestSwuUrl(page) :
                             /\ p \in Listed(page)
                             /\ \A n \in Listed(page) : n.stamp <= p.stamp
                             /\ p.stamp = -1 /\ ~p.link => \A n \in Listed(page) : ~n.link
    BY DEF PicksNewest
  <2>2. page \in Seq(Href)
    BY <2>1, InputKinds
  <2> HIDE DEF page
  <2>3. names \in Seq(FileName) /\ Range(names) = Listed(page)
    BY <2>1, <2>2, NamesAreListed
  <2>4. otaResolveLatestSwuUrl(page) = IF names = <<>> THEN {} ELSE {best}
    BY DEF otaResolveLatestSwuUrl
  <2>5. \A n \in Listed(page) : n.package
    BY DEF Listed
  <2> HIDE DEF names, best
  <2>6. CASE names = <<>>
    <3>1. Range(names) = {}
      BY <2>6 DEF Range
    <3>2. QED
      BY <2>3, <2>4, <2>6, <3>1
  <2>7. CASE names # <<>>
    <3>1. /\ best \in Range(names) /\ \A m \in Range(names) : m.stamp <= best.stamp
          /\ best.stamp = -1 /\ ~best.link => \A m \in Range(names) : ~(m.package /\ m.link)
      BY <2>3, <2>7, BestName DEF best
    <3>2. QED
      BY <2>3, <2>4, <2>5, <2>7, <3>1
  <2>8. QED
    BY <2>6, <2>7
<1>2. QED
  BY <1>1, InputStays, PTL

-----------------------------------------------------------------------------
(* Versions *)

LEMMA NumberDigits ==
  ASSUME NEW d \in Number
  PROVE  d \in Seq(Digits) /\ d \in Seq(Nat) /\ Len(d) \in Nat \ {0} /\ \A k \in 1..Len(d) : d[k] \in Digits
<1>1. d \in Seq(Digits) /\ d # <<>>
  BY DEF Number
<1>2. Digits \subseteq Nat
  BY DEF Digits
<1>4. \A k \in 1..Len(d) : d[k] \in Digits
  BY <1>1, ElementOfSeq
<1>3. d \in Seq(Nat)
  <2>1. \A k \in 1..Len(d) : d[k] \in Nat
    BY <1>2, <1>4
  <2>2. d = [k \in 1..Len(d) |-> d[k]] /\ Len(d) \in Nat
    BY <1>1
  <2> DEFINE n == Len(d)
             e == [k \in 1..n |-> d[k]]
  <2>3. n \in Nat /\ \A k \in 1..n : d[k] \in Nat
    BY <2>1, <2>2
  <2> HIDE DEF n
  <2>4. e \in Seq(Nat)
    BY <2>3
  <2>5. QED
    BY <2>2, <2>4 DEF n
<1>5. Len(d) \in Nat \ {0}
  BY <1>1, EmptySeq
<1>6. QED
  BY <1>1, <1>3, <1>4, <1>5

\* The numbers that a text of digits spells so far.
LEMMA NumbersSteps ==
  ASSUME NEW d \in Seq(Nat)
  PROVE  /\ Numbers(d)[0] = 0
         /\ \A k \in 1..Len(d) : Numbers(d)[k] = Numbers(d)[k - 1] * 10 + d[k]
         /\ \A k \in 0..Len(d) : Numbers(d)[k] \in Nat
<1> DEFINE n == Len(d)
           F == [k \in 1..n |-> [x \in Nat |-> x * 10 + d[k]]]
           Fix(g) == g = [k \in 0..n |-> IF k = 0 THEN 0 ELSE g[k - 1] * 10 + d[k]]
<1>1. n \in Nat /\ \A k \in 1..n : d[k] \in Nat
  BY ElementOfSeq
<1>2. F \in [1..n -> [Nat -> Nat]]
  <2> HIDE DEF n
  <2>1. \A k \in 1..n : \A x \in Nat : x * 10 + d[k] \in Nat
    BY <1>1
  <2>2. QED
    BY <2>1
<1>3. PICK g \in [0..n -> Nat] : Follows(g, n, 0, F)
  <2> HIDE DEF n, F
  <2>1. QED
    BY <1>1, <1>2, Recursion
<1>4. \A k \in 1..n : g[k] = g[k - 1] * 10 + d[k]
  <2> HIDE DEF n
  <2>1. TAKE k \in 1..n
  <2>2. k - 1 \in 0..n /\ g[k - 1] \in Nat
    BY <1>1
  <2>3. g[k] = F[k][g[k - 1]]
    BY <1>3 DEF Follows
  <2>4. QED
    BY <2>2, <2>3
<1>5. Fix(g)
  <2> DEFINE h == [k \in 0..n |-> IF k = 0 THEN 0 ELSE g[k - 1] * 10 + d[k]]
  <2>1. ASSUME NEW k \in 0..n PROVE h[k] = g[k]
    <3> HIDE DEF n
    <3>1. CASE k = 0
      BY <1>3, <3>1 DEF Follows
    <3>2. CASE k # 0
      BY <1>1, <1>4, <3>2
    <3>3. QED
      BY <3>1, <3>2
  <2> HIDE DEF n
  <2>2. h = g
    BY <2>1
  <2>3. QED
    BY <2>2
<1>6. Numbers(d) = CHOOSE f : Fix(f)
  BY DEF Numbers
<1> HIDE DEF Fix
<1>7. Fix(Numbers(d))
  BY <1>5, <1>6
<1> DEFINE p == Numbers(d)
<1>8. p = [k \in 0..n |-> IF k = 0 THEN 0 ELSE p[k - 1] * 10 + d[k]]
  BY <1>7 DEF Fix
<1> HIDE DEF p, n, F
<1>9. p[0] = 0 /\ \A k \in 1..n : p[k] = p[k - 1] * 10 + d[k]
  BY <1>1, <1>8
<1> DEFINE G == {k \in 0..n : p[k] \in Nat}
<1>10. 0 \in G
  BY <1>1, <1>9
<1>11. ASSUME NEW k \in 0..(n - 1), k \in G PROVE k + 1 \in G
  <2>1. k + 1 \in 1..n /\ k + 1 \in 0..n /\ k + 1 - 1 = k /\ d[k + 1] \in Nat
    BY <1>1
  <2>2. p[k + 1] = p[k] * 10 + d[k + 1]
    BY <1>9, <2>1
  <2>3. p[k + 1] \in Nat
    BY <1>11, <2>1, <2>2
  <2>4. QED
    BY <2>1, <2>3
<1>12. 0..n \subseteq G
  <2> HIDE DEF G
  <2>1. QED
    BY <1>1, <1>10, <1>11, UpTo
<1>13. QED
  BY <1>9, <1>12 DEF p, n

\* The numbers on the way to a number are not greater.
LEMMA NumbersGrow ==
  ASSUME NEW d \in Seq(Nat)
  PROVE  \A k \in 0..Len(d) : Numbers(d)[k] <= NumberOf(d)
<1> DEFINE n == Len(d)
           p == Numbers(d)
           G == {k \in 0..n : p[n - k] <= p[n]}
<1>1. /\ n \in Nat /\ \A k \in 1..n : d[k] \in Nat
  BY ElementOfSeq
<1>2. (\A k \in 1..n : p[k] = p[k - 1] * 10 + d[k]) /\ \A k \in 0..n : p[k] \in Nat
  BY NumbersSteps
<1> HIDE DEF n, p
<1>3. 0 \in G
  <2>1. n - 0 = n /\ p[n] \in Nat /\ 0 \in 0..n
    BY <1>1, <1>2
  <2>2. QED
    BY <2>1
<1>4. ASSUME NEW k \in 0..(n - 1), k \in G PROVE k + 1 \in G
  <2> DEFINE i == n - k
  <2>1. i \in 1..n /\ i - 1 \in 0..n /\ i \in 0..n /\ n \in 0..n /\ n - (k + 1) = i - 1 /\ k + 1 \in 0..n
    BY <1>1
  <2>2. p[i] <= p[n]
    BY <1>4
  <2> HIDE DEF i
  <2>3. p[i] = p[i - 1] * 10 + d[i] /\ p[i - 1] \in Nat /\ d[i] \in Nat /\ p[n] \in Nat /\ p[i] \in Nat
    BY <1>1, <1>2, <2>1
  <2>4. p[i - 1] <= p[n]
    BY <2>2, <2>3
  <2>5. QED
    BY <2>1, <2>4
<1>5. 0..n \subseteq G
  <2> HIDE DEF G
  <2>1. QED
    BY <1>1, <1>3, <1>4, UpTo
<1>6. ASSUME NEW k \in 0..n PROVE p[k] <= p[n]
  <2>1. n - k \in 0..n /\ n - (n - k) = k
    BY <1>1
  <2>2. n - k \in G
    BY <1>5, <2>1
  <2>3. p[n - (n - k)] <= p[n]
    BY <2>2
  <2>4. QED
    BY <2>1, <2>3
<1>7. QED
  BY <1>6 DEF p, n, NumberOf

\* The digits a text begins with.
LEMMA DigitsAre ==
  ASSUME NEW text \in Seq(Nat), NEW m \in 0..Len(text), \A j \in 1..m : text[j] \in Digits,
         m = Len(text) \/ text[m + 1] \notin Digits
  PROVE  DigitsOf(text) = m
<1> DEFINE ends == {k \in 0..Len(text) : \A j \in 1..k : text[j] \in Digits}
<1>1. m \in ends /\ Len(text) \in Nat
  OBVIOUS
<1>2. ASSUME NEW k \in ends PROVE k <= m
  <2>1. CASE m = Len(text)
    BY <1>1, <2>1
  <2>2. CASE text[m + 1] \notin Digits
    <3>1. m + 1 \notin 1..k
      BY <2>2
    <3>2. QED
      BY <1>1, <3>1
  <2>3. QED
    BY <2>1, <2>2
<1>3. DigitsOf(text) = CHOOSE k \in ends : \A o \in ends : k >= o
  BY DEF DigitsOf
<1>4. \A k \in ends : k \in Nat
  OBVIOUS
<1> HIDE DEF ends
<1>5. \A o \in ends : m >= o
  BY <1>1, <1>2, <1>4
<1>6. DigitsOf(text) \in ends /\ \A o \in ends : DigitsOf(text) >= o
  BY <1>1, <1>3, <1>5
<1>7. m \in Nat /\ DigitsOf(text) \in Nat
  BY <1>4, <1>6
<1>8. DigitsOf(text) <= m /\ m <= DigitsOf(text)
  BY <1>1, <1>2, <1>6
<1>9. QED
  BY <1>7, <1>8

\* The values of compareVersionToken.
LEMMA TokenSteps ==
  ASSUME NEW text \in Seq(Nat), DigitsOf(text) \in 0..Len(text)
  PROVE  /\ TokenValues(text)[0] = 0
         /\ \A k \in 1..DigitsOf(text) :
              TokenValues(text)[k] = WrapInt(TokenValues(text)[k - 1] * 10 + text[k])
<1> DEFINE n == DigitsOf(text)
           F == [k \in 1..n |-> [x \in Int |-> WrapInt(x * 10 + text[k])]]
           Fix(g) == g = [k \in 0..n |-> IF k = 0 THEN 0 ELSE WrapInt(g[k - 1] * 10 + text[k])]
<1>1. n \in Nat /\ \A k \in 1..n : text[k] \in Nat
  <2>1. n \in Nat /\ n <= Len(text)
    OBVIOUS
  <2> HIDE DEF n
  <2>2. \A k \in 1..n : k \in 1..Len(text)
    BY <2>1
  <2>3. QED
    BY <2>1, <2>2, ElementOfSeq
<1>2. \A v \in Int : WrapInt(v) \in Int
  BY LimitsAssumption DEF WrapInt
<1>3. F \in [1..n -> [Int -> Int]]
  <2> HIDE DEF n
  <2>1. ASSUME NEW k \in 1..n, NEW x \in Int PROVE WrapInt(x * 10 + text[k]) \in Int
    <3> DEFINE v == x * 10 + text[k]
    <3>1. v \in Int
      BY <1>1
    <3> HIDE DEF v
    <3>2. WrapInt(v) \in Int
      BY <1>2, <3>1
    <3>3. QED
      BY <3>2 DEF v
  <2>2. QED
    BY <2>1
<1>4. PICK g \in [0..n -> Int] : Follows(g, n, 0, F)
  <2> DEFINE A == Int
  <2>1. 0 \in A /\ F \in [1..n -> [A -> A]]
    BY <1>3
  <2> HIDE DEF n, F, A
  <2>2. \E g \in [0..n -> A] : Follows(g, n, 0, F)
    BY <1>1, <2>1, Recursion
  <2>3. QED
    BY <2>2 DEF A
<1>5. \A k \in 1..n : g[k] = WrapInt(g[k - 1] * 10 + text[k])
  <2> HIDE DEF n
  <2>1. TAKE k \in 1..n
  <2>2. k - 1 \in 0..n /\ g[k - 1] \in Int
    BY <1>1
  <2>3. g[k] = F[k][g[k - 1]]
    BY <1>4 DEF Follows
  <2>4. QED
    BY <2>2, <2>3
<1>6. Fix(g)
  <2> DEFINE h == [k \in 0..n |-> IF k = 0 THEN 0 ELSE WrapInt(g[k - 1] * 10 + text[k])]
  <2>1. ASSUME NEW k \in 0..n PROVE h[k] = g[k]
    <3> HIDE DEF n
    <3>1. CASE k = 0
      BY <1>4, <3>1 DEF Follows
    <3>2. CASE k # 0
      BY <1>1, <1>5, <3>2
    <3>3. QED
      BY <3>1, <3>2
  <2> HIDE DEF n
  <2>2. h = g
    BY <2>1
  <2>3. QED
    BY <2>2
<1>7. TokenValues(text) = CHOOSE f : Fix(f)
  BY DEF TokenValues
<1> HIDE DEF Fix
<1>8. Fix(TokenValues(text))
  BY <1>6, <1>7
<1> DEFINE p == TokenValues(text)
<1>9. p = [k \in 0..n |-> IF k = 0 THEN 0 ELSE WrapInt(p[k - 1] * 10 + text[k])]
  BY <1>8 DEF Fix
<1> HIDE DEF p, n, F
<1>10. p[0] = 0 /\ \A k \in 1..n : p[k] = WrapInt(p[k - 1] * 10 + text[k])
  BY <1>1, <1>9
<1>11. QED
  BY <1>10 DEF p, n

\* Of a number that fits into an int, with a dot after it or nothing, the value is right.
LEMMA TokenIsNumber ==
  ASSUME NEW d \in Number, NumberOf(d) <= MaxInt, NEW text \in Seq(Nat), Len(text) >= Len(d),
         \A j \in 1..Len(d) : text[j] = d[j],
         Len(text) = Len(d) \/ text[Len(d) + 1] = Dot
  PROVE  DigitsOf(text) = Len(d) /\ TokenValue(text) = NumberOf(d)
<1> DEFINE n == Len(d)
           p == Numbers(d)
           q == TokenValues(text)
           G == {k \in 0..n : q[k] = p[k]}
<1>1. n \in Nat /\ d \in Seq(Nat) /\ \A k \in 1..n : d[k] \in Digits /\ d[k] \in Nat
  BY NumberDigits, ElementOfSeq
<1>2. DigitsOf(text) = n
  <2>1. Dot \notin Digits
    BY DEF Dot, Digits
  <2>2. n \in 0..Len(text)
    BY <1>1
  <2>3. \A j \in 1..n : text[j] \in Digits
    BY <1>1
  <2>4. n = Len(text) \/ text[n + 1] \notin Digits
    BY <2>1
  <2> HIDE DEF n
  <2>5. QED
    BY <2>2, <2>3, <2>4, DigitsAre
<1>3. q[0] = 0 /\ \A k \in 1..n : q[k] = WrapInt(q[k - 1] * 10 + text[k])
  BY <1>1, <1>2, TokenSteps
<1>4. /\ p[0] = 0 /\ (\A k \in 1..n : p[k] = p[k - 1] * 10 + d[k])
      /\ \A k \in 0..n : p[k] \in Nat /\ p[k] <= NumberOf(d)
  BY <1>1, NumbersSteps, NumbersGrow
<1>5. \A v \in Nat : v <= MaxInt => WrapInt(v) = v
  <2>1. TAKE v \in Nat
  <2>2. HAVE v <= MaxInt
  <2>3. \A m \in Nat : v <= m => ((v + m + 1) % (2 * m + 2)) - m - 1 = v
    OBVIOUS
  <2>4. QED
    BY <2>2, <2>3, LimitsAssumption DEF WrapInt
<1>6. NumberOf(d) = p[n]
  BY DEF NumberOf
<1> HIDE DEF n, p, q
<1>7. 0 \in G
  BY <1>1, <1>3, <1>4
<1>8. ASSUME NEW k \in 0..(n - 1), k \in G PROVE k + 1 \in G
  <2>1. k + 1 \in 1..n /\ k + 1 \in 0..n /\ k \in 0..n /\ k + 1 - 1 = k
    BY <1>1
  <2>2. q[k + 1] = WrapInt(p[k] * 10 + d[k + 1])
    <3>1. text[k + 1] = d[k + 1]
      BY <2>1 DEF n
    <3>2. QED
      BY <1>3, <1>8, <2>1, <3>1
  <2>3. p[k + 1] = p[k] * 10 + d[k + 1] /\ p[k + 1] \in Nat /\ p[k + 1] <= NumberOf(d)
    BY <1>4, <2>1
  <2>4. p[k + 1] <= MaxInt
    <3>1. NumberOf(d) \in Nat
      BY <1>1, <1>4, <1>6
    <3>2. QED
      BY <2>3, <3>1, LimitsAssumption
  <2>5. q[k + 1] = p[k + 1]
    BY <1>5, <2>2, <2>3, <2>4
  <2>6. QED
    BY <2>1, <2>5
<1>9. 0..n \subseteq G
  <2> HIDE DEF G
  <2>1. QED
    BY <1>1, <1>7, <1>8, UpTo
<1>10. q[n] = p[n]
  BY <1>1, <1>9
<1>11. QED
  BY <1>2, <1>6, <1>10 DEF TokenValue, q, n

\* The text of the last numbers of a version, each from the one before.
LEMMA VersionTextSteps ==
  ASSUME NEW c \in Seq(Number)
  PROVE  /\ VersionTexts(c)[0] = <<>>
         /\ \A k \in 1..Len(c) :
              VersionTexts(c)[k] = IF k = 1 THEN c[Len(c)]
                                   ELSE c[Len(c) - k + 1] \o <<Dot>> \o VersionTexts(c)[k - 1]
         /\ \A k \in 0..Len(c) : VersionTexts(c)[k] \in Seq(Nat)
<1> DEFINE n == Len(c)
           A == Seq(Nat)
           S(k, x) == IF k = 1 THEN c[n] ELSE c[n - k + 1] \o <<Dot>> \o x
           F == [k \in 1..n |-> [x \in A |-> S(k, x)]]
           V(k, x) == CASE k = 0 -> <<>> [] k = 1 -> c[n] [] OTHER -> c[n - k + 1] \o <<Dot>> \o x
           Fix(g) == g = [k \in 0..n |-> V(k, g[k - 1])]
<1>1. n \in Nat /\ \A k \in 1..n : c[k] \in Seq(Nat)
  BY ElementOfSeq, NumberDigits
<1>2. \A k \in 1..n : \A x \in A : S(k, x) \in A
  <2>1. TAKE k \in 1..n
  <2>2. TAKE x \in A
  <2>3. n \in 1..n /\ n - k + 1 \in 1..n
    BY <1>1
  <2>4. <<Dot>> \in Seq(Nat)
    BY DEF Dot
  <2>5. c[n] \in Seq(Nat) /\ c[n - k + 1] \in Seq(Nat)
    BY <1>1, <2>3
  <2> HIDE DEF n
  <2>6. c[n - k + 1] \o <<Dot>> \in Seq(Nat)
    BY <2>4, <2>5, ConcatProperties
  <2>7. c[n - k + 1] \o <<Dot>> \o x \in Seq(Nat)
    BY <2>6, ConcatProperties
  <2>8. QED
    BY <2>5, <2>7
<1>3. <<>> \in A
  OBVIOUS
<1>4. F \in [1..n -> [A -> A]]
  <2> HIDE DEF n, S, A
  <2>1. QED
    BY <1>2
<1>5. PICK g \in [0..n -> A] : Follows(g, n, <<>>, F)
  <2> HIDE DEF n, F, A
  <2>1. QED
    BY <1>1, <1>3, <1>4, Recursion
<1>6. \A k \in 1..n : g[k] = S(k, g[k - 1])
  <2> HIDE DEF n, A, S
  <2>1. TAKE k \in 1..n
  <2>2. k - 1 \in 0..n /\ g[k - 1] \in A
    BY <1>1
  <2>3. g[k] = F[k][g[k - 1]]
    BY <1>5 DEF Follows
  <2>4. QED
    BY <2>2, <2>3
<1>7. \A k, x : k # 0 => V(k, x) = S(k, x)
  OBVIOUS
<1>8. \A x : V(0, x) = <<>>
  OBVIOUS
<1>9. Fix(g)
  <2> HIDE DEF V, S, n, A
  <2> DEFINE h == [k \in 0..n |-> V(k, g[k - 1])]
  <2>1. ASSUME NEW k \in 0..n PROVE h[k] = g[k]
    <3>1. CASE k = 0
      BY <1>5, <1>8, <3>1 DEF Follows
    <3>2. CASE k # 0
      BY <1>1, <1>6, <1>7, <3>2
    <3>3. QED
      BY <3>1, <3>2
  <2>2. h = g
    BY <2>1
  <2>3. QED
    BY <2>2
<1>10. VersionTexts(c) = CHOOSE f : Fix(f)
  BY DEF VersionTexts
<1> HIDE DEF Fix
<1>11. Fix(VersionTexts(c))
  BY <1>9, <1>10
<1> DEFINE p == VersionTexts(c)
<1>12. p = [k \in 0..n |-> V(k, p[k - 1])]
  BY <1>11 DEF Fix
<1> HIDE DEF p, n, F, V, S
<1>13. p[0] = <<>> /\ \A k \in 1..n : p[k] = S(k, p[k - 1])
  BY <1>1, <1>7, <1>8, <1>12
<1> DEFINE G == {k \in 0..n : p[k] \in A}
<1> HIDE DEF A
<1>14. 0 \in G
  BY <1>1, <1>3, <1>13
<1>15. ASSUME NEW k \in 0..(n - 1), k \in G PROVE k + 1 \in G
  <2>1. k + 1 \in 1..n /\ k + 1 \in 0..n /\ k + 1 - 1 = k
    BY <1>1
  <2>2. p[k + 1] = S(k + 1, p[k])
    BY <1>13, <2>1
  <2>3. QED
    BY <1>2, <1>15, <2>1, <2>2
<1>16. 0..n \subseteq G
  <2> HIDE DEF G
  <2>1. QED
    BY <1>1, <1>14, <1>15, UpTo
<1>17. \A k \in 0..n : p[k] \in A
  BY <1>16
<1>18. QED
  BY <1>13, <1>17 DEF p, n, S, A

LEMMA Slice ==
  ASSUME NEW t \in Seq(Nat), NEW a \in Nat \ {0}, NEW b \in Nat, a <= b, b <= Len(t)
  PROVE  /\ SubSeq(t, a, b) \in Seq(Nat) /\ Len(SubSeq(t, a, b)) = b - a + 1
         /\ \A i \in 1..(b - a + 1) : SubSeq(t, a, b)[i] = t[a + i - 1]
<1>1. \A i \in a..b : t[i] \in Nat
  <2>1. \A i \in a..b : i \in 1..Len(t)
    OBVIOUS
  <2>2. QED
    BY <2>1, ElementOfSeq
<1>2. a \in Int /\ b \in Int
  OBVIOUS
<1>3. QED
  BY <1>1, <1>2, SubSeqProperties

\* After a number and a dot comes the rest.
LEMMA AfterNumber ==
  ASSUME NEW d \in Seq(Nat), NEW s \in Seq(Nat), NEW text, text = d \o <<Dot>> \o s, DigitsOf(text) = Len(d)
  PROVE  AfterToken(text) = s
<1> DEFINE n == Len(d)
           m == Len(s)
           rest == SubSeq(text, n + 1, n + 1 + m)
<1>1. n \in Nat /\ m \in Nat
  OBVIOUS
<1>2. <<Dot>> \in Seq(Nat) /\ Len(<<Dot>>) = 1 /\ <<Dot>>[1] = Dot
  BY DEF Dot
<1>3. /\ d \o <<Dot>> \in Seq(Nat) /\ Len(d \o <<Dot>>) = n + 1
      /\ \A i \in 1..(n + 1) : (d \o <<Dot>>)[i] = IF i <= n THEN d[i] ELSE <<Dot>>[i - n]
  BY <1>2, ConcatProperties
<1>4. /\ text \in Seq(Nat) /\ Len(text) = n + 1 + m
      /\ \A i \in 1..(n + 1 + m) : text[i] = IF i <= n + 1 THEN (d \o <<Dot>>)[i] ELSE s[i - (n + 1)]
  BY <1>3, ConcatProperties
<1> HIDE DEF n, m
<1>5. text[n + 1] = Dot /\ \A i \in 1..m : text[n + 1 + i] = s[i]
  <2>1. n + 1 \in 1..(n + 1) /\ n + 1 \in 1..(n + 1 + m) /\ n + 1 - n = 1 /\ ~(n + 1 <= n)
    BY <1>1
  <2>2. (d \o <<Dot>>)[n + 1] = Dot
    BY <1>2, <1>3, <2>1
  <2>3. ASSUME NEW i \in 1..m PROVE text[n + 1 + i] = s[i]
    <3> DEFINE j == n + 1 + i
    <3>1. j \in 1..(n + 1 + m) /\ ~(j <= n + 1) /\ j - (n + 1) = i
      BY <1>1
    <3> HIDE DEF j
    <3>2. text[j] = s[j - (n + 1)]
      BY <1>4, <3>1
    <3>3. QED
      BY <3>1, <3>2 DEF j
  <2>4. text[n + 1] = Dot
    <3> DEFINE j == n + 1
               e == d \o <<Dot>>
    <3>1. j \in 1..(n + 1 + m) /\ j <= n + 1
      BY <1>1, <2>1
    <3>2. e[j] = Dot
      BY <2>2
    <3>3. \A i \in 1..(n + 1 + m) : text[i] = IF i <= n + 1 THEN e[i] ELSE s[i - (n + 1)]
      BY <1>4
    <3> HIDE DEF j, e
    <3>4. text[j] = e[j]
      BY <3>1, <3>3
    <3>5. QED
      BY <3>2, <3>4 DEF j
  <2>5. QED
    BY <2>3, <2>4
<1>6. /\ rest \in Seq(Nat) /\ Len(rest) = m + 1 /\ \A i \in 1..(m + 1) : rest[i] = text[n + i]
  <2> DEFINE a == n + 1
             b == n + 1 + m
  <2>1. a \in Nat \ {0} /\ b \in Nat /\ a <= b /\ b <= Len(text)
    BY <1>1, <1>4
  <2> HIDE DEF a, b
  <2>3. /\ SubSeq(text, a, b) \in Seq(Nat) /\ Len(SubSeq(text, a, b)) = b - a + 1
        /\ \A i \in 1..(b - a + 1) : SubSeq(text, a, b)[i] = text[a + i - 1]
    BY <1>4, <2>1, Slice
  <2>4. b - a + 1 = m + 1 /\ a <= b /\ \A i \in 1..(m + 1) : a + i - 1 = n + i
    BY <1>1 DEF a, b
  <2>5. QED
    BY <2>3, <2>4 DEF a, b
<1>7. AfterToken(text) = IF rest # <<>> /\ rest[1] = Dot THEN Tail(rest) ELSE rest
  BY <1>4 DEF AfterToken, n
<1> HIDE DEF rest
<1>8. rest # <<>> /\ rest[1] = Dot
  <2>1. 1 \in 1..(m + 1)
    BY <1>1
  <2>2. rest # <<>>
    BY <1>1, <1>6, EmptySeq
  <2>3. rest[1] = text[n + 1]
    BY <1>6, <2>1
  <2>4. QED
    BY <1>5, <2>2, <2>3
<1>9. Tail(rest) = s
  <2>1. /\ Tail(rest) \in Seq(Nat) /\ Len(Tail(rest)) = m /\ \A i \in 1..m : Tail(rest)[i] = rest[i + 1]
    BY <1>1, <1>6, <1>8
  <2>2. ASSUME NEW i \in 1..m PROVE Tail(rest)[i] = s[i]
    <3>1. i + 1 \in 1..(m + 1) /\ n + (i + 1) = n + 1 + i
      BY <1>1
    <3>2. QED
      BY <1>5, <1>6, <2>1, <3>1
  <2>3. QED
    BY <2>1, <2>2, SeqEqual DEF m
<1>10. QED
  BY <1>7, <1>8, <1>9

LEMMA Glue ==
  ASSUME NEW S, NEW s \in Seq(S), NEW t \in Seq(S)
  PROVE  /\ s \o t \in Seq(S) /\ Len(s \o t) = Len(s) + Len(t)
         /\ (\A i \in 1..Len(s) : (s \o t)[i] = s[i]) /\ \A i \in 1..Len(t) : (s \o t)[Len(s) + i] = t[i]
<1>1. Len(s) \in Nat /\ Len(t) \in Nat
  OBVIOUS
<1> DEFINE u == s \o t
           m == Len(s)
           n == Len(t)
<1>2. u \in Seq(S) /\ Len(u) = m + n /\ \A i \in 1..(m + n) : u[i] = IF i <= m THEN s[i] ELSE t[i - m]
  BY ConcatProperties
<1> HIDE DEF u, m, n
<1>3. ASSUME NEW i \in 1..m PROVE u[i] = s[i]
  BY <1>1, <1>2 DEF m, n
<1>4. ASSUME NEW i \in 1..n PROVE u[m + i] = t[i]
  <2> DEFINE j == m + i
  <2>1. j \in 1..(m + n) /\ ~(j <= m) /\ j - m = i
    BY <1>1 DEF m, n
  <2> HIDE DEF j
  <2>2. u[j] = t[j - m]
    BY <1>2, <2>1
  <2>3. QED
    BY <2>1, <2>2 DEF j
<1>5. QED
  BY <1>2, <1>3, <1>4 DEF u, m, n

\* What is left of a version after its first k numbers.
Suffix(c, k) == IF k < Len(c) THEN VersionTexts(c)[Len(c) - k] ELSE <<>>

\* compareVersionToken takes the next number of a version, 0 if there is none.
LEMMA SuffixSteps ==
  ASSUME NEW c \in Seq(Number), Fits(c), NEW k \in Nat
  PROVE  /\ TokenValue(Suffix(c, k)) = NumberAt(c, k + 1)
         /\ AfterToken(Suffix(c, k)) = Suffix(c, k + 1)
         /\ Suffix(c, k) = <<>> <=> k >= Len(c)
<1> DEFINE n == Len(c)
           T == VersionTexts(c)
<1>1. n \in Nat /\ DOMAIN c = 1..n /\ \A i \in 1..n : c[i] \in Number
  BY ElementOfSeq
<1>2. \A i \in 1..n : NumberOf(c[i]) <= MaxInt
  BY <1>1 DEF Fits
<1>3. /\ (\A i \in 1..n : T[i] = IF i = 1 THEN c[n] ELSE c[n - i + 1] \o <<Dot>> \o T[i - 1])
      /\ \A i \in 0..n : T[i] \in Seq(Nat)
  BY VersionTextSteps
<1>4. Suffix(c, k) = (IF k < n THEN T[n - k] ELSE <<>>) /\ Suffix(c, k + 1) = (IF k + 1 < n THEN T[n - (k + 1)] ELSE <<>>)
  BY DEF Suffix
<1> HIDE DEF n, T
<1>5. NumberAt(c, k + 1) = IF k + 1 <= n THEN NumberOf(c[k + 1]) ELSE 0
  BY DEF NumberAt, n
<1>6. CASE k >= n
  <2>1. Suffix(c, k) = <<>> /\ Suffix(c, k + 1) = <<>> /\ NumberAt(c, k + 1) = 0
    BY <1>1, <1>4, <1>5, <1>6
  <2> DEFINE e == <<>>
  <2>2. e \in Seq(Nat) /\ Len(e) = 0 /\ SubSeq(e, 1, 0) = e
    BY SubSeqEmpty
  <2> HIDE DEF e
  <2>3. DigitsOf(e) = 0
    <3>1. 0 \in 0..Len(e) /\ \A j \in 1..0 : e[j] \in Digits
      BY <2>2
    <3>2. QED
      BY <2>2, <3>1, DigitsAre
  <2>4. TokenValue(e) = 0
    <3>1. 0 \in 0..Len(e)
      BY <2>2
    <3>2. QED
      BY <2>2, <2>3, <3>1, TokenSteps DEF TokenValue
  <2>5. AfterToken(e) = e
    <3>1. SubSeq(e, DigitsOf(e) + 1, Len(e)) = e
      BY <2>2, <2>3
    <3>2. QED
      BY <3>1 DEF AfterToken, e
  <2>6. QED
    BY <1>6, <2>1, <2>4, <2>5 DEF e, n
<1>7. CASE k = n - 1
  <2> DEFINE d == c[n]
             m == Len(d)
  <2>1. n \in 1..n /\ 1 \in 1..n /\ n - k = 1 /\ k < n /\ ~(k + 1 < n) /\ k + 1 <= n /\ k + 1 = n
    BY <1>1, <1>7
  <2>2. d \in Number /\ NumberOf(d) <= MaxInt
    BY <1>1, <1>2, <2>1
  <2>3. Suffix(c, k) = d /\ Suffix(c, k + 1) = <<>> /\ NumberAt(c, k + 1) = NumberOf(d)
    <3>1. T[1] = d
      BY <1>3, <2>1
    <3>2. QED
      BY <1>4, <1>5, <2>1, <3>1
  <2> HIDE DEF d
  <2>4. d \in Seq(Nat) /\ m \in Nat \ {0}
    BY <2>2, NumberDigits
  <2>5. DigitsOf(d) = m /\ TokenValue(d) = NumberOf(d)
    BY <2>2, <2>4, TokenIsNumber
  <2>6. AfterToken(d) = <<>>
    <3>1. SubSeq(d, m + 1, m) = <<>>
      BY <2>4, SubSeqEmpty
    <3>2. QED
      BY <2>5, <3>1 DEF AfterToken
  <2>7. d # <<>>
    BY <2>4
  <2>8. ~(k >= n)
    BY <1>1, <1>7
  <2>9. QED
    BY <2>3, <2>5, <2>6, <2>7, <2>8 DEF n
<1>8. CASE k < n - 1
  <2> DEFINE d == c[k + 1]
             s == T[n - (k + 1)]
             text == T[n - k]
  <2>1. /\ n - k \in 1..n /\ n - k # 1 /\ n - (n - k) + 1 = k + 1 /\ n - k - 1 = n - (k + 1)
        /\ k < n /\ k + 1 < n /\ k + 1 <= n /\ k + 1 \in 1..n /\ n - (k + 1) \in 0..n /\ ~(k >= n)
        /\ n - k \in 0..n
    BY <1>1, <1>8
  <2>2. d \in Number /\ NumberOf(d) <= MaxInt /\ s \in Seq(Nat) /\ text \in Seq(Nat)
    BY <1>1, <1>2, <1>3, <2>1
  <2>3. text = d \o <<Dot>> \o s
    <3> DEFINE i == n - k
    <3>1. i \in 1..n /\ i # 1 /\ n - i + 1 = k + 1 /\ i - 1 = n - (k + 1)
      BY <2>1
    <3> HIDE DEF i
    <3>2. T[i] = c[n - i + 1] \o <<Dot>> \o T[i - 1]
      BY <1>3, <3>1
    <3>3. T[i] = d \o <<Dot>> \o s
      BY <3>1, <3>2
    <3>4. QED
      BY <3>3 DEF i
  <2>4. Suffix(c, k) = text /\ Suffix(c, k + 1) = s /\ NumberAt(c, k + 1) = NumberOf(d)
    BY <1>4, <1>5, <2>1
  <2> HIDE DEF d, s, text
  <2>5. d \in Seq(Nat) /\ Len(d) \in Nat \ {0}
    BY <2>2, NumberDigits
  <2>6. /\ Len(text) >= Len(d) /\ text # <<>>
        /\ (\A j \in 1..Len(d) : text[j] = d[j]) /\ text[Len(d) + 1] = Dot
    <3> DEFINE m == Len(d)
               z == <<Dot>>
               e == d \o z
    <3>1. z \in Seq(Nat) /\ Len(z) = 1 /\ z[1] = Dot
      BY DEF Dot
    <3>2. text = e \o s
      BY <2>3
    <3>3. m \in Nat \ {0} /\ Len(s) \in Nat
      BY <2>2, <2>5
    <3> HIDE DEF z
    <3>4. e \in Seq(Nat) /\ Len(e) = m + 1 /\ (\A i \in 1..m : e[i] = d[i]) /\ e[m + 1] = Dot
      <4>1. 1 \in 1..Len(z)
        BY <3>1
      <4>2. /\ e \in Seq(Nat) /\ Len(e) = Len(d) + Len(z) /\ (\A i \in 1..Len(d) : e[i] = d[i])
            /\ \A i \in 1..Len(z) : e[Len(d) + i] = z[i]
        <5>1. d \in Seq(Nat) /\ z \in Seq(Nat)
          BY <2>5, <3>1
        <5> HIDE DEF d
        <5>2. e \in Seq(Nat) /\ Len(e) = Len(d) + Len(z)
          BY <5>1, Glue
        <5>3. \A i \in 1..Len(d) : e[i] = d[i]
          BY <5>1, Glue
        <5>4. \A i \in 1..Len(z) : e[Len(d) + i] = z[i]
          BY <5>1, Glue
        <5>5. QED
          BY <5>2, <5>3, <5>4
      <4> HIDE DEF e
      <4>3. QED
        BY <3>1, <4>1, <4>2
    <3> HIDE DEF e
    <3>5. Len(text) = Len(e) + Len(s) /\ \A i \in 1..Len(e) : text[i] = e[i]
      <4>1. Len(e \o s) = Len(e) + Len(s) /\ \A i \in 1..Len(e) : (e \o s)[i] = e[i]
        BY <2>2, <3>4, Glue
      <4>2. QED
        BY <3>2, <4>1
    <3>6. \A i \in 1..m : i \in 1..Len(e)
      BY <3>3, <3>4
    <3>7. m + 1 \in 1..Len(e) /\ Len(text) >= m /\ Len(text) # 0
      BY <3>3, <3>4, <3>5
    <3>8. text # <<>>
      BY <2>2, <3>7, EmptySeq
    <3>10. QED
      BY <3>4, <3>5, <3>6, <3>7, <3>8 DEF m
  <2>7. DigitsOf(text) = Len(d) /\ TokenValue(text) = NumberOf(d)
    BY <2>2, <2>6, TokenIsNumber
  <2>8. AfterToken(text) = s
    BY <2>2, <2>3, <2>5, <2>7, AfterNumber
  <2>9. QED
    BY <2>1, <2>4, <2>6, <2>7, <2>8 DEF n
<1>9. QED
  BY <1>1, <1>6, <1>7, <1>8

\* Any text begins with some digits, and what comes after them and a dot is a text again.
LEMMA TokenTyped ==
  ASSUME NEW text \in Seq(Nat)
  PROVE  AfterToken(text) \in Seq(Nat)
<1> DEFINE n == Len(text)
           T == {x \in Nat : x >= 1 /\ (x \in 1..n => text[x] \notin Digits)}
<1>1. n \in Nat
  OBVIOUS
<1>2. n + 1 \in T
  BY <1>1
<1>3. PICK x \in T : \A y \in T : x <= y
  <2> HIDE DEF n
  <2>1. T \subseteq Nat /\ T # {}
    BY <1>2
  <2> HIDE DEF T
  <2>2. QED
    BY <2>1, Least
<1> DEFINE m == x - 1
<1>4. x \in Nat /\ x >= 1 /\ x <= n + 1 /\ (x \in 1..n => text[x] \notin Digits)
  BY <1>2, <1>3
<1>5. \A j \in 1..m : text[j] \in Digits
  <2> HIDE DEF n
  <2>1. TAKE j \in 1..m
  <2>2. j \in 1..n /\ j \in Nat /\ j >= 1 /\ ~(x <= j)
    BY <1>1, <1>4
  <2>3. j \notin T
    BY <1>3, <2>2
  <2>4. QED
    BY <2>2, <2>3
<1>6. m \in 0..n /\ (m = n \/ text[m + 1] \notin Digits)
  <2>1. m + 1 = x
    BY <1>4
  <2>2. QED
    BY <1>1, <1>4, <2>1
<1>7. DigitsOf(text) = m
  <2> HIDE DEF m
  <2>1. QED
    BY <1>5, <1>6, DigitsAre
<1> HIDE DEF m, T
<1> DEFINE rest == SubSeq(text, m + 1, n)
<1>8. rest \in Seq(Nat)
  <2> DEFINE a == m + 1
  <2>1. a \in Nat \ {0} /\ n <= Len(text)
    BY <1>1, <1>6
  <2>2. CASE a <= n
    <3> HIDE DEF a
    <3>1. SubSeq(text, a, n) \in Seq(Nat)
      BY <1>1, <2>1, <2>2, Slice
    <3>2. QED
      BY <3>1 DEF a
  <2>3. CASE ~(a <= n)
    <3>1. a \in Int /\ n \in Int /\ n < a
      BY <1>1, <2>1, <2>3
    <3> HIDE DEF a
    <3>2. SubSeq(text, a, n) = <<>>
      BY <3>1, SubSeqEmpty
    <3>3. rest = <<>>
      BY <3>2 DEF a
    <3>4. <<>> \in Seq(Nat)
      OBVIOUS
    <3> HIDE DEF rest
    <3>5. QED
      BY <3>3, <3>4
  <2>4. QED
    BY <2>2, <2>3
<1>9. AfterToken(text) = IF rest # <<>> /\ rest[1] = Dot THEN Tail(rest) ELSE rest
  BY <1>7 DEF AfterToken
<1> HIDE DEF rest
<1>10. QED
  BY <1>8, <1>9

Cmp == [pc : {"none", "compare", "done"}, left : Seq(Nat), right : Seq(Nat), result : {-1, 0, 1},
        l : Seq(Number), r : Seq(Number), numeric : BOOLEAN]

\* The numbers that were passed are equal.
Passed(k) ==
  /\ cmp.left = Suffix(cmp.l, k) /\ cmp.right = Suffix(cmp.r, k)
  /\ \A j \in 1..k : NumberAt(cmp.l, j) = NumberAt(cmp.r, j)

CmpInv ==
  /\ cmp \in Cmp
  /\ cmp.numeric /\ Fits(cmp.l) /\ Fits(cmp.r) =>
       /\ cmp.pc = "compare" => cmp.result = 0 /\ \E k \in Nat : Passed(k)
       /\ cmp.pc = "done" => cmp.result = Order(cmp.l, cmp.r)

\* The first numbers that differ decide.
LEMMA Decided ==
  ASSUME NEW l \in Seq(Number), NEW r \in Seq(Number), NEW k \in Nat,
         \A j \in 1..k : NumberAt(l, j) = NumberAt(r, j)
  PROVE  /\ k + 1 <= Len(l) + Len(r) /\ NumberAt(l, k + 1) # NumberAt(r, k + 1)
            => Order(l, r) = IF NumberAt(l, k + 1) < NumberAt(r, k + 1) THEN -1 ELSE 1
         /\ k >= Len(l) /\ k >= Len(r) => Order(l, r) = 0
<1> DEFINE n == Len(l) + Len(r)
           a(j) == NumberAt(l, j)
           b(j) == NumberAt(r, j)
<1>1. n \in Nat /\ Len(l) \in Nat /\ Len(r) \in Nat
  OBVIOUS
<1>2. \A j \in 1..n : a(j) \in Nat /\ b(j) \in Nat
  <2>1. ASSUME NEW c \in Seq(Number), NEW j \in Nat \ {0} PROVE NumberAt(c, j) \in Nat
    <3>1. CASE j <= Len(c)
      <4>1. j \in 1..Len(c)
        BY <3>1
      <4> DEFINE d == c[j]
      <4>2. d \in Number
        BY <4>1, ElementOfSeq
      <4> HIDE DEF d
      <4>3. d \in Seq(Nat) /\ Len(d) \in 0..Len(d)
        BY <4>2, NumberDigits
      <4>4. NumberOf(d) \in Nat
        BY <4>3, NumbersSteps DEF NumberOf
      <4>5. QED
        BY <3>1, <4>4 DEF NumberAt, d
    <3>2. CASE ~(j <= Len(c))
      BY <3>2 DEF NumberAt
    <3>3. QED
      BY <3>1, <3>2
  <2> HIDE DEF n
  <2>2. \A j \in 1..n : j \in Nat \ {0}
    BY <1>1
  <2>3. QED
    BY <2>1, <2>2
<1>3. Less(l, r) <=> \E j \in 1..n : a(j) < b(j) /\ \A i \in 1..(j - 1) : a(i) = b(i)
  BY DEF Less
<1>4. Less(r, l) <=> \E j \in 1..n : b(j) < a(j) /\ \A i \in 1..(j - 1) : b(i) = a(i)
  <2>1. Len(r) + Len(l) = n
    BY <1>1
  <2>2. Less(r, l) <=> \E j \in 1..(Len(r) + Len(l)) : b(j) < a(j) /\ \A i \in 1..(j - 1) : b(i) = a(i)
    BY DEF Less
  <2> HIDE DEF n
  <2>3. QED
    BY <2>1, <2>2
<1>5. \A j \in 1..k : a(j) = b(j)
  OBVIOUS
<1>6. \A j : j > Len(l) /\ j > Len(r) /\ j \in Nat => a(j) = 0 /\ b(j) = 0
  BY <1>1 DEF NumberAt
<1> HIDE DEF n, a, b
<1>7. ASSUME k + 1 <= n, a(k + 1) # b(k + 1)
      PROVE  Order(l, r) = IF a(k + 1) < b(k + 1) THEN -1 ELSE 1
  <2>1. k + 1 \in 1..n /\ k + 1 - 1 = k
    BY <1>1, <1>7
  <2>2. a(k + 1) \in Nat /\ b(k + 1) \in Nat
    BY <1>2, <2>1
  <2>3. ASSUME NEW j \in 1..n, a(j) # b(j), \A i \in 1..(j - 1) : a(i) = b(i) PROVE j = k + 1
    <3>1. j \notin 1..k
      BY <1>5, <2>3
    <3>2. k + 1 \notin 1..(j - 1)
      BY <1>7, <2>3
    <3>3. QED
      BY <1>1, <2>1, <3>1, <3>2
  <2>4. CASE a(k + 1) < b(k + 1)
    <3>1. Less(l, r)
      BY <1>3, <1>5, <2>1, <2>4
    <3>2. ~Less(r, l)
      <4>1. SUFFICES ASSUME NEW j \in 1..n, b(j) < a(j), \A i \in 1..(j - 1) : b(i) = a(i) PROVE FALSE
        BY <1>4
      <4>2. a(j) # b(j) /\ \A i \in 1..(j - 1) : a(i) = b(i)
        BY <1>2, <4>1
      <4>3. j = k + 1
        BY <2>3, <4>2
      <4>4. QED
        BY <2>2, <2>4, <4>1, <4>3
    <3>3. QED
      BY <2>4, <3>1, <3>2 DEF Order
  <2>5. CASE ~(a(k + 1) < b(k + 1))
    <3>1. b(k + 1) < a(k + 1)
      BY <1>7, <2>2, <2>5
    <3>2. Less(r, l)
      BY <1>4, <1>5, <2>1, <3>1
    <3>3. ~Less(l, r)
      <4>1. SUFFICES ASSUME NEW j \in 1..n, a(j) < b(j), \A i \in 1..(j - 1) : a(i) = b(i) PROVE FALSE
        BY <1>3
      <4>2. a(j) # b(j)
        BY <1>2, <4>1
      <4>3. j = k + 1
        BY <2>3, <4>1, <4>2
      <4>4. QED
        BY <2>5, <4>1, <4>3
    <3>4. QED
      BY <2>5, <3>2, <3>3 DEF Order
  <2>6. QED
    BY <2>4, <2>5
<1>8. ASSUME k >= Len(l), k >= Len(r) PROVE Order(l, r) = 0
  <2>1. \A j \in 1..n : a(j) = b(j)
    <3>1. TAKE j \in 1..n
    <3>2. CASE j <= k
      <4>1. j \in 1..k
        BY <1>1, <3>2
      <4>2. QED
        BY <1>5, <4>1
    <3>3. CASE ~(j <= k)
      <4>1. j > Len(l) /\ j > Len(r) /\ j \in Nat
        BY <1>1, <1>8, <3>3
      <4>2. QED
        BY <1>6, <4>1
    <3>4. QED
      BY <3>2, <3>3
  <2>2. ~Less(l, r) /\ ~Less(r, l)
    BY <1>2, <1>3, <1>4, <2>1
  <2>3. QED
    BY <2>2 DEF Order
<1>9. QED
  BY <1>7, <1>8 DEF n, a, b

LEMMA CmpInvInit ==
  TextsInit => CmpInv
<1>1. CASE cmp = NoCmp
  <2>1. cmp \in Cmp
    <3>1. <<>> \in Seq(Nat) /\ <<>> \in Seq(Number)
      OBVIOUS
    <3>2. QED
      BY <1>1, <3>1 DEF Cmp, NoCmp
  <2>2. cmp.pc = "none"
    BY <1>1 DEF NoCmp
  <2>3. QED
    BY <2>1, <2>2 DEF CmpInv
<1>2. CASE cmp \in Comparisons
  <2>1. PICK l \in Versions, r \in Versions, a \in Endings, b \in Endings :
          cmp = [pc |-> "compare", left |-> VersionText(l) \o a, right |-> VersionText(r) \o b,
                 result |-> 0, l |-> l, r |-> r, numeric |-> a = <<>> /\ b = <<>>]
    BY <1>2 DEF Comparisons
  <2>2. l \in Seq(Number) /\ r \in Seq(Number)
    BY TextsAssumption
  <2>3. a \in Seq(Nat) /\ b \in Seq(Nat)
    <3> DEFINE S == Digits \cup {Dot, Other}
    <3>1. a \in Seq(S) /\ b \in Seq(S)
      BY TextsAssumption
    <3>2. \A x \in S : x \in Nat
      BY DEF Digits, Dot, Other
    <3> HIDE DEF S
    <3>3. \A t \in Seq(S) : t \in Seq(Nat)
      <4>1. TAKE t \in Seq(S)
      <4> DEFINE n == Len(t)
                 e == [k \in 1..n |-> t[k]]
      <4>2. n \in Nat /\ (\A k \in 1..n : t[k] \in Nat) /\ t = e
        BY <3>2, ElementOfSeq
      <4> HIDE DEF n
      <4>3. e \in Seq(Nat)
        BY <4>2
      <4>4. QED
        BY <4>2, <4>3
    <3>4. QED
      BY <3>1, <3>3
  <2>4. \A c \in Seq(Number) : VersionText(c) \in Seq(Nat) /\ VersionText(c) = Suffix(c, 0)
    <3>1. TAKE c \in Seq(Number)
    <3>2. Len(c) \in Nat /\ Len(c) \in 0..Len(c) /\ Len(c) - 0 = Len(c)
      OBVIOUS
    <3>3. VersionText(c) \in Seq(Nat)
      BY <3>2, VersionTextSteps DEF VersionText
    <3>4. CASE 0 < Len(c)
      BY <3>2, <3>3, <3>4 DEF VersionText, Suffix
    <3>5. CASE Len(c) = 0
      <4>1. VersionTexts(c)[0] = <<>>
        BY VersionTextSteps
      <4>2. VersionText(c) = <<>>
        BY <3>5, <4>1 DEF VersionText
      <4>3. Suffix(c, 0) = <<>>
        BY <3>5 DEF Suffix
      <4>4. QED
        BY <3>3, <4>2, <4>3
    <3>6. QED
      BY <3>2, <3>4, <3>5
  <2> DEFINE x == VersionText(l)
             y == VersionText(r)
  <2>5. x \in Seq(Nat) /\ y \in Seq(Nat) /\ x = Suffix(l, 0) /\ y = Suffix(r, 0)
    BY <2>2, <2>4
  <2> HIDE DEF x, y
  <2> DEFINE xa == x \o a
             yb == y \o b
  <2>6. xa \in Seq(Nat) /\ yb \in Seq(Nat)
    BY <2>3, <2>5, ConcatProperties
  <2>7. (a = <<>> => xa = x) /\ (b = <<>> => yb = y)
    BY <2>3, <2>5, ConcatEmptySeq
  <2>8. cmp = [pc |-> "compare", left |-> xa, right |-> yb, result |-> 0, l |-> l, r |-> r,
               numeric |-> a = <<>> /\ b = <<>>]
    BY <2>1 DEF x, y
  <2> HIDE DEF xa, yb
  <2>9. cmp \in Cmp
    <3> DEFINE m == (a = <<>> /\ b = <<>>)
    <3>1. m \in BOOLEAN
      OBVIOUS
    <3>2. cmp = [pc |-> "compare", left |-> xa, right |-> yb, result |-> 0, l |-> l, r |-> r, numeric |-> m]
      BY <2>8
    <3> HIDE DEF m
    <3>3. QED
      BY <2>2, <2>6, <3>1, <3>2 DEF Cmp
  <2>10. cmp.pc = "compare" /\ cmp.result = 0 /\ cmp.l = l /\ cmp.r = r /\ cmp.left = xa /\ cmp.right = yb
    BY <2>8
  <2>11. cmp.numeric => a = <<>> /\ b = <<>>
    BY <2>8
  <2>12. cmp.numeric => Passed(0)
    BY <2>5, <2>7, <2>10, <2>11 DEF Passed
  <2>13. QED
    BY <2>9, <2>10, <2>12 DEF CmpInv
<1>3. QED
  BY <1>1, <1>2 DEF TextsInit

LEMMA CmpInvStep ==
  CmpInv /\ [TextsNext]_vars => CmpInv'
<1>1. SUFFICES ASSUME CmpInv, [TextsNext]_vars PROVE CmpInv'
  OBVIOUS
<1>2. CASE UNCHANGED cmp
  BY <1>1, <1>2 DEF CmpInv, Passed
<1>3. CASE CompareVersions
  <2> DEFINE lv == TokenValue(cmp.left)
             rv == TokenValue(cmp.right)
             la == AfterToken(cmp.left)
             ra == AfterToken(cmp.right)
             result == IF lv < rv THEN -1 ELSE 1
             ended == cmp.left = <<>> /\ cmp.right = <<>>
  <2>1. cmp \in Cmp /\ cmp.pc = "compare"
    BY <1>1, <1>3 DEF CmpInv, CompareVersions
  <2>2. /\ cmp.left \in Seq(Nat) /\ cmp.right \in Seq(Nat)
        /\ cmp.l \in Seq(Number) /\ cmp.r \in Seq(Number) /\ cmp.numeric \in BOOLEAN
    BY <2>1 DEF Cmp
  <2>3. la \in Seq(Nat) /\ ra \in Seq(Nat)
    BY <2>2, TokenTyped
  <2>4. result \in {-1, 1}
    OBVIOUS
  <2> HIDE DEF la, ra, lv, rv, result
  <2>5. /\ ended => cmp' = [cmp EXCEPT !.pc = "done"]
        /\ ~ended /\ lv # rv => cmp' = [cmp EXCEPT !.pc = "done", !.result = result]
        /\ ~ended /\ lv = rv => cmp' = [cmp EXCEPT !.left = la, !.right = ra]
    <3>1. cmp' = CASE ended -> [cmp EXCEPT !.pc = "done"]
                   [] ~ended /\ lv # rv -> [cmp EXCEPT !.pc = "done", !.result = result]
                   [] OTHER -> [cmp EXCEPT !.left = la, !.right = ra]
      BY <1>3 DEF CompareVersions, la, ra, lv, rv, result
    <3> HIDE DEF ended
    <3>2. QED
      BY <3>1
  <2> DEFINE fine == cmp.numeric /\ Fits(cmp.l) /\ Fits(cmp.r)
  <2>6. ASSUME fine
        PROVE  \E k \in Nat :
                 /\ lv = NumberAt(cmp.l, k + 1) /\ rv = NumberAt(cmp.r, k + 1)
                 /\ la = Suffix(cmp.l, k + 1) /\ ra = Suffix(cmp.r, k + 1)
                 /\ ended <=> k >= Len(cmp.l) /\ k >= Len(cmp.r)
                 /\ \A j \in 1..k : NumberAt(cmp.l, j) = NumberAt(cmp.r, j)
    <3>1. PICK k \in Nat : Passed(k)
      BY <1>1, <2>1, <2>6 DEF CmpInv
    <3>2. cmp.left = Suffix(cmp.l, k) /\ cmp.right = Suffix(cmp.r, k)
          /\ \A j \in 1..k : NumberAt(cmp.l, j) = NumberAt(cmp.r, j)
      BY <3>1 DEF Passed
    <3>3. /\ TokenValue(Suffix(cmp.l, k)) = NumberAt(cmp.l, k + 1)
          /\ AfterToken(Suffix(cmp.l, k)) = Suffix(cmp.l, k + 1)
          /\ Suffix(cmp.l, k) = <<>> <=> k >= Len(cmp.l)
      BY <2>2, <2>6, SuffixSteps
    <3>4. /\ TokenValue(Suffix(cmp.r, k)) = NumberAt(cmp.r, k + 1)
          /\ AfterToken(Suffix(cmp.r, k)) = Suffix(cmp.r, k + 1)
          /\ Suffix(cmp.r, k) = <<>> <=> k >= Len(cmp.r)
      BY <2>2, <2>6, SuffixSteps
    <3>5. QED
      BY <3>2, <3>3, <3>4 DEF la, ra, lv, rv
  <2>7. CASE ended
    <3>1. cmp' = [cmp EXCEPT !.pc = "done"]
      BY <2>5, <2>7
    <3>2. /\ cmp' \in Cmp /\ cmp'.pc = "done" /\ cmp'.result = cmp.result
          /\ cmp'.l = cmp.l /\ cmp'.r = cmp.r /\ cmp'.numeric = cmp.numeric
      BY <2>1, <3>1 DEF Cmp
    <3>3. fine => cmp.result = Order(cmp.l, cmp.r)
      <4>1. SUFFICES ASSUME fine PROVE cmp.result = Order(cmp.l, cmp.r)
        OBVIOUS
      <4>2. PICK k \in Nat : /\ k >= Len(cmp.l) /\ k >= Len(cmp.r)
                             /\ \A j \in 1..k : NumberAt(cmp.l, j) = NumberAt(cmp.r, j)
        BY <2>6, <2>7, <4>1
      <4>3. Order(cmp.l, cmp.r) = 0
        BY <2>2, <4>2, Decided
      <4>4. cmp.result = 0
        BY <1>1, <2>1, <4>1 DEF CmpInv
      <4>5. QED
        BY <4>3, <4>4
    <3>4. QED
      BY <3>2, <3>3 DEF CmpInv
  <2>8. CASE ~ended /\ lv # rv
    <3>1. cmp' = [cmp EXCEPT !.pc = "done", !.result = result]
      BY <2>5, <2>8
    <3>2. /\ cmp' \in Cmp /\ cmp'.pc = "done" /\ cmp'.result = result
          /\ cmp'.l = cmp.l /\ cmp'.r = cmp.r /\ cmp'.numeric = cmp.numeric
      BY <2>1, <2>4, <3>1 DEF Cmp
    <3>3. fine => result = Order(cmp.l, cmp.r)
      <4>1. SUFFICES ASSUME fine PROVE result = Order(cmp.l, cmp.r)
        OBVIOUS
      <4>2. PICK k \in Nat : /\ lv = NumberAt(cmp.l, k + 1) /\ rv = NumberAt(cmp.r, k + 1)
                             /\ ~(k >= Len(cmp.l) /\ k >= Len(cmp.r))
                             /\ \A j \in 1..k : NumberAt(cmp.l, j) = NumberAt(cmp.r, j)
        BY <2>6, <2>8, <4>1
      <4>3. k + 1 <= Len(cmp.l) + Len(cmp.r)
        <5>1. Len(cmp.l) \in Nat /\ Len(cmp.r) \in Nat
          BY <2>2
        <5> DEFINE a == Len(cmp.l)
                   b == Len(cmp.r)
        <5>2. a \in Nat /\ b \in Nat /\ ~(k >= a /\ k >= b)
          BY <4>2, <5>1
        <5> HIDE DEF a, b
        <5>3. k + 1 <= a + b
          BY <5>2
        <5>4. QED
          BY <5>3 DEF a, b
      <4>4. NumberAt(cmp.l, k + 1) # NumberAt(cmp.r, k + 1)
        BY <2>8, <4>2
      <4>5. Order(cmp.l, cmp.r) = IF NumberAt(cmp.l, k + 1) < NumberAt(cmp.r, k + 1) THEN -1 ELSE 1
        BY <2>2, <4>2, <4>3, <4>4, Decided
      <4>6. QED
        BY <4>2, <4>5 DEF result
    <3>4. QED
      BY <3>2, <3>3 DEF CmpInv
  <2>9. CASE ~ended /\ lv = rv
    <3>1. cmp' = [cmp EXCEPT !.left = la, !.right = ra]
      BY <2>5, <2>9
    <3>2. /\ cmp' \in Cmp /\ cmp'.pc = "compare" /\ cmp'.result = cmp.result
          /\ cmp'.left = la /\ cmp'.right = ra
          /\ cmp'.l = cmp.l /\ cmp'.r = cmp.r /\ cmp'.numeric = cmp.numeric
      BY <2>1, <2>3, <3>1 DEF Cmp
    <3>3. ASSUME fine PROVE cmp.result = 0 /\ \E k \in Nat : Passed(k)'
      <4>1. cmp.result = 0
        BY <1>1, <2>1, <3>3 DEF CmpInv
      <4>2. PICK k \in Nat : /\ lv = NumberAt(cmp.l, k + 1) /\ rv = NumberAt(cmp.r, k + 1)
                             /\ la = Suffix(cmp.l, k + 1) /\ ra = Suffix(cmp.r, k + 1)
                             /\ \A j \in 1..k : NumberAt(cmp.l, j) = NumberAt(cmp.r, j)
        BY <2>6, <3>3
      <4>3. \A j \in 1..(k + 1) : NumberAt(cmp.l, j) = NumberAt(cmp.r, j)
        <5>1. \A j \in 1..(k + 1) : j \in 1..k \/ j = k + 1
          OBVIOUS
        <5>2. NumberAt(cmp.l, k + 1) = NumberAt(cmp.r, k + 1)
          BY <2>9, <4>2
        <5>3. QED
          BY <4>2, <5>1, <5>2
      <4>4. Passed(k + 1)'
        BY <3>2, <4>2, <4>3 DEF Passed
      <4>5. k + 1 \in Nat
        OBVIOUS
      <4>6. QED
        BY <4>1, <4>4, <4>5
    <3>4. QED
      BY <3>2, <3>3 DEF CmpInv
  <2>10. QED
    BY <2>7, <2>8, <2>9
<1>4. QED
  BY <1>1, <1>2, <1>3 DEF TextsNext, ReadToken, Compare, vars

\* Versions of any number of components, each of any number of digits, with leading zeros
\* or not, compare as their numbers do, as long as each of these fits into an int.
THEOREM VersionsCompare ==
  TextsSpec => []ComparesAsNumbers
<1>1. CmpInv => ComparesAsNumbers
  BY DEF CmpInv, ComparesAsNumbers
<1>2. QED
  BY <1>1, CmpInvInit, CmpInvStep, PTL DEF TextsSpec

-----------------------------------------------------------------------------
(* What a string stands for, in UTF-16 *)

\* A text of texts, joined from the left.
LEMMA FlattenSteps ==
  ASSUME NEW s \in Seq(Seq(Nat))
  PROVE  \E g \in [0..Len(s) -> Seq(Nat)] :
           /\ g[0] = <<>> /\ \A k \in 1..Len(s) : g[k] = g[k - 1] \o s[k]
           /\ FlattenSeq(s) = g[Len(s)]
<1> DEFINE n == Len(s)
           F == [k \in 1..n |-> [x \in Seq(Nat) |-> x \o s[k]]]
           Fix(f) == f = [i \in 1..n |-> IF i = 1 THEN s[i] ELSE f[i - 1] \o s[i]]
<1>1. n \in Nat /\ \A k \in 1..n : s[k] \in Seq(Nat)
  BY ElementOfSeq
<1>2. <<>> \in Seq(Nat)
  OBVIOUS
<1>3. PICK g \in [0..n -> Seq(Nat)] : Follows(g, n, <<>>, F)
  <2>1. F \in [1..n -> [Seq(Nat) -> Seq(Nat)]]
    <3>1. \A k \in 1..n : \A x \in Seq(Nat) : x \o s[k] \in Seq(Nat)
      BY <1>1, ConcatProperties
    <3> HIDE DEF n
    <3>2. QED
      BY <3>1
  <2> HIDE DEF n, F
  <2>2. QED
    BY <1>1, <1>2, <2>1, Recursion
<1>4. g[0] = <<>> /\ \A k \in 1..n : g[k] = g[k - 1] \o s[k]
  <2> HIDE DEF n
  <2>1. g[0] = <<>>
    BY <1>3 DEF Follows
  <2>2. ASSUME NEW k \in 1..n PROVE g[k] = g[k - 1] \o s[k]
    <3>1. k - 1 \in 0..n /\ g[k - 1] \in Seq(Nat)
      BY <1>1
    <3>2. g[k] = F[k][g[k - 1]]
      BY <1>3 DEF Follows
    <3>3. QED
      BY <3>1, <3>2
  <2>3. QED
    BY <2>1, <2>2
<1>5. CASE n = 0
  <2>1. FlattenSeq(s) = <<>>
    BY <1>5 DEF FlattenSeq
  <2>2. QED
    BY <1>4, <1>5, <2>1
<1>6. CASE n # 0
  <2> DEFINE h == [i \in 1..n |-> g[i]]
             f == CHOOSE x : Fix(x)
  <2>1. Fix(h)
    <3> DEFINE e == [i \in 1..n |-> IF i = 1 THEN s[i] ELSE h[i - 1] \o s[i]]
    <3>1. ASSUME NEW i \in 1..n PROVE e[i] = h[i]
      <4> HIDE DEF n
      <4>1. CASE i = 1
        <5>1. 1 \in 1..n /\ 1 - 1 = 0
          BY <4>1
        <5>2. g[1] = g[1 - 1] \o s[1] /\ s[1] \in Seq(Nat)
          BY <1>1, <1>4, <5>1, Zenon
        <5>4. g[1] = s[1]
          BY <1>4, <5>1, <5>2, ConcatEmptySeq, Zenon
        <5>3. QED
          BY <4>1, <5>4
      <4>2. CASE i # 1
        <5>1. i - 1 \in 1..n
          BY <1>1, <4>2
        <5>2. QED
          BY <1>4, <4>2, <5>1
      <4>3. QED
        BY <4>1, <4>2
    <3> HIDE DEF n
    <3>2. e = h
      BY <3>1
    <3>3. QED
      BY <3>2
  <2>2. FlattenSeq(s) = f[n]
    BY <1>6 DEF FlattenSeq
  <2> HIDE DEF Fix
  <2>3. Fix(f)
    BY <2>1
  <2> DEFINE G == {k \in 0..n : k = 0 \/ f[k] = g[k]}
  <2> HIDE DEF f, n
  <2>4. \A i \in 1..n : f[i] = IF i = 1 THEN s[i] ELSE f[i - 1] \o s[i]
    BY <2>3 DEF Fix
  <2>5. 0 \in G
    BY <1>1
  <2>6. ASSUME NEW k \in 0..(n - 1), k \in G PROVE k + 1 \in G
    <3>1. k + 1 \in 1..n /\ k + 1 \in 0..n /\ k + 1 - 1 = k
      BY <1>1
    <3>2. g[k + 1] = g[k] \o s[k + 1] /\ s[k + 1] \in Seq(Nat)
      <4> DEFINE j == k + 1
      <4>1. j \in 1..n /\ j - 1 = k
        BY <3>1
      <4> HIDE DEF j
      <4>2. g[j] = g[j - 1] \o s[j] /\ s[j] \in Seq(Nat)
        BY <1>1, <1>4, <4>1, Zenon
      <4>3. QED
        BY <4>1, <4>2, Zenon DEF j
    <3>3. CASE k = 0
      <4>1. f[k + 1] = s[k + 1]
        BY <2>4, <3>1, <3>3
      <4>2. g[k + 1] = s[k + 1]
        <5>1. g[k] = <<>>
          BY <1>4, <3>3
        <5>2. QED
          BY <3>2, <5>1, ConcatEmptySeq
      <4>3. QED
        BY <3>1, <4>1, <4>2
    <3>4. CASE k # 0
      <4>1. f[k + 1] = f[k] \o s[k + 1]
        <5>1. k + 1 # 1
          BY <1>1, <3>4
        <5> DEFINE j == k + 1
        <5>2. j \in 1..n /\ j - 1 = k /\ j # 1
          BY <3>1, <5>1
        <5> HIDE DEF j
        <5>3. f[j] = f[j - 1] \o s[j]
          BY <2>4, <5>2, Zenon
        <5>4. QED
          BY <5>2, <5>3, Zenon DEF j
      <4>2. f[k] = g[k]
        BY <2>6, <3>4
      <4>3. QED
        BY <3>1, <3>2, <4>1, <4>2
    <3>5. QED
      BY <3>3, <3>4
  <2>7. 0..n \subseteq G
    <3> HIDE DEF G
    <3>1. QED
      BY <1>1, <2>5, <2>6, UpTo
  <2>8. f[n] = g[n]
    BY <1>1, <1>6, <2>7
  <2>9. QED
    BY <1>4, <2>2, <2>8 DEF n
<1>7. QED
  BY <1>5, <1>6

\* One text more.
LEMMA FlattenAppend ==
  ASSUME NEW s \in Seq(Seq(Nat)), NEW x \in Seq(Nat)
  PROVE  FlattenSeq(s) \in Seq(Nat) /\ FlattenSeq(Append(s, x)) = FlattenSeq(s) \o x
<1> DEFINE t == Append(s, x)
           n == Len(s)
<1>1. t \in Seq(Seq(Nat)) /\ Len(t) = n + 1 /\ n \in Nat /\ (\A k \in 1..n : t[k] = s[k]) /\ t[n + 1] = x
  BY AppendProperties
<1>2. PICK g \in [0..n -> Seq(Nat)] :
        g[0] = <<>> /\ (\A k \in 1..n : g[k] = g[k - 1] \o s[k]) /\ FlattenSeq(s) = g[n]
  BY FlattenSteps
<1> HIDE DEF t
<1>3. PICK h \in [0..Len(t) -> Seq(Nat)] :
        h[0] = <<>> /\ (\A k \in 1..Len(t) : h[k] = h[k - 1] \o t[k]) /\ FlattenSeq(t) = h[Len(t)]
  BY <1>1, FlattenSteps
<1> DEFINE G == {k \in 0..n : h[k] = g[k]}
<1> HIDE DEF n
<1>4. 0 \in G
  BY <1>1, <1>2, <1>3
<1>5. ASSUME NEW k \in 0..(n - 1), k \in G PROVE k + 1 \in G
  <2>1. k + 1 \in 1..n /\ k + 1 \in 1..Len(t) /\ k + 1 \in 0..n /\ k + 1 - 1 = k
    BY <1>1
  <2>2. g[k + 1] = g[k] \o s[k + 1] /\ h[k + 1] = h[k] \o t[k + 1] /\ t[k + 1] = s[k + 1]
    <3> DEFINE j == k + 1
    <3>1. j \in 1..n /\ j \in 1..Len(t) /\ j - 1 = k
      BY <2>1
    <3> HIDE DEF j
    <3>2. g[j] = g[j - 1] \o s[j] /\ h[j] = h[j - 1] \o t[j] /\ t[j] = s[j]
      BY <1>1, <1>2, <1>3, <3>1, Zenon
    <3>3. QED
      BY <3>1, <3>2, Zenon DEF j
  <2>3. QED
    BY <1>5, <2>1, <2>2
<1>6. 0..n \subseteq G
  <2> HIDE DEF G
  <2>1. QED
    BY <1>1, <1>4, <1>5, UpTo
<1>7. h[n] = g[n] /\ g[n] \in Seq(Nat)
  BY <1>1, <1>6
<1>8. h[n + 1] = h[n] \o t[n + 1]
  <2> DEFINE j == n + 1
  <2>1. Len(t) = j
    BY <1>1
  <2>2. j \in 1..j /\ j - 1 = n
    BY <1>1
  <2> HIDE DEF j
  <2>3. h[j] = h[j - 1] \o t[j]
    BY <1>3, <2>1, <2>2, Zenon
  <2>4. QED
    BY <2>2, <2>3, Zenon DEF j
<1>9. QED
  BY <1>1, <1>2, <1>3, <1>7, <1>8 DEF t

\* What a character stands for.
LEMMA Utf16Typed ==
  ASSUME NEW c \in Char
  PROVE  Utf16(ScalarOf(c, Len(c))) \in Seq(Nat)
<1>1. Len(c) \in 1..4 /\ \A k \in 1..Len(c) : c[k] \in Nat
  <2>1. Len(c) \in 1..4 /\ c \in Seq(Byte) /\ Byte \subseteq Nat
    BY DEF Char, Byte
  <2>2. \A k \in 1..Len(c) : c[k] \in Byte
    BY <2>1, ElementOfSeq
  <2>3. QED
    BY <2>1, <2>2
<1>2. ScalarOf(c, Len(c)) \in Nat
  <2>1. \A x, m \in Nat : m # 0 => x % m \in Nat
    OBVIOUS
  <2>2. CASE Len(c) = 1
    BY <1>1, <2>2, SMT DEF ScalarOf
  <2>3. CASE Len(c) = 2
    BY <1>1, <2>1, <2>3, SMT DEF ScalarOf
  <2>4. CASE Len(c) = 3
    BY <1>1, <2>1, <2>4, SMT DEF ScalarOf
  <2>5. CASE Len(c) = 4
    BY <1>1, <2>1, <2>5, SMT DEF ScalarOf
  <2>6. QED
    BY <1>1, <2>2, <2>3, <2>4, <2>5
<1> DEFINE s == ScalarOf(c, Len(c))
<1> HIDE DEF s
<1>3. s \in Nat
  BY <1>2 DEF s
<1>4. Utf16(s) \in Seq(Nat)
  <2>1. CASE s < 65536
    <3>1. Utf16(s) = <<s>>
      BY <2>1 DEF Utf16
    <3>2. QED
      BY <1>3, <3>1
  <2>2. CASE ~(s < 65536)
    <3> DEFINE x == 55296 + (s - 65536) \div 1024
               y == 56320 + ((s - 65536) % 1024)
    <3>1. x \in Nat /\ y \in Nat
      BY <1>3, <2>2, SMT
    <3>2. Utf16(s) = <<x, y>>
      BY <2>2 DEF Utf16
    <3> HIDE DEF x, y
    <3>3. QED
      BY <3>1, <3>2
  <2>3. QED
    BY <2>1, <2>2
<1>5. QED
  BY <1>4 DEF s

LEMMA UnitsTyped ==
  ASSUME NEW i \in AnyItem
  PROVE  UnitsOf(i) \in Seq(Nat)
<1>1. CASE i.kind = "raw"
  <2>1. i.char \in Char
    BY <1>1 DEF AnyItem
  <2>2. QED
    BY <1>1, <2>1, Utf16Typed DEF UnitsOf
<1>2. CASE i.kind # "raw"
  <2>1. i.unit \in Nat
    BY <1>2 DEF AnyItem, CodeUnits
  <2>2. UnitsOf(i) = <<i.unit>>
    BY <1>2 DEF UnitsOf
  <2>3. QED
    BY <2>1, <2>2
<1>3. QED
  BY <1>1, <1>2

\* The UTF-16 of a text and of one more character.
LEMMA UnitsAppend ==
  ASSUME NEW s \in Seq(Char), NEW c \in Char
  PROVE  /\ UnitsOfText(s) \in Seq(Nat)
         /\ UnitsOfText(Append(s, c)) = UnitsOfText(s) \o Utf16(ScalarOf(c, Len(c)))
<1> DEFINE U(x) == Utf16(ScalarOf(x, Len(x)))
           T(x) == [k \in 1..Len(x) |-> U(x[k])]
           t == Append(s, c)
<1>1. /\ t \in Seq(Char) /\ Len(t) = Len(s) + 1 /\ Len(s) \in Nat
      /\ (\A k \in 1..Len(s) : t[k] = s[k]) /\ t[Len(s) + 1] = c
  BY AppendProperties
<1>2. \A x \in Char : U(x) \in Seq(Nat)
  BY Utf16Typed
<1>3. UnitsOfText(s) = FlattenSeq(T(s)) /\ UnitsOfText(t) = FlattenSeq(T(t))
  BY DEF UnitsOfText
<1> HIDE DEF U, t
<1>4. ASSUME NEW x \in Seq(Char)
      PROVE  T(x) \in Seq(Seq(Nat)) /\ Len(T(x)) = Len(x) /\ \A k \in 1..Len(x) : T(x)[k] = U(x[k])
  <2>1. \A k \in 1..Len(x) : U(x[k]) \in Seq(Nat)
    BY <1>2, ElementOfSeq
  <2>2. QED
    BY <2>1
<1>5. T(t) = Append(T(s), U(c))
  <2> DEFINE u == Append(T(s), U(c))
  <2>1. /\ T(s) \in Seq(Seq(Nat)) /\ Len(T(s)) = Len(s) /\ (\A k \in 1..Len(s) : T(s)[k] = U(s[k]))
        /\ T(t) \in Seq(Seq(Nat)) /\ Len(T(t)) = Len(t) /\ (\A k \in 1..Len(t) : T(t)[k] = U(t[k]))
    BY <1>1, <1>4
  <2> HIDE DEF T
  <2>2. /\ u \in Seq(Seq(Nat)) /\ Len(u) = Len(T(s)) + 1
        /\ (\A k \in 1..Len(T(s)) : u[k] = T(s)[k]) /\ u[Len(T(s)) + 1] = U(c)
    <3>1. U(c) \in Seq(Nat)
      BY <1>2
    <3> DEFINE a == T(s)
               b == U(c)
    <3>2. a \in Seq(Seq(Nat)) /\ b \in Seq(Nat)
      BY <2>1, <3>1
    <3> HIDE DEF a, b
    <3>3. /\ Append(a, b) \in Seq(Seq(Nat)) /\ Len(Append(a, b)) = Len(a) + 1
          /\ (\A k \in 1..Len(a) : Append(a, b)[k] = a[k]) /\ Append(a, b)[Len(a) + 1] = b
      BY <3>2, AppendProperties
    <3>4. QED
      BY <3>3 DEF a, b
  <2> HIDE DEF u
  <2>3. ASSUME NEW k \in 1..Len(T(t)) PROVE T(t)[k] = u[k]
    <3>1. CASE k = Len(s) + 1
      BY <1>1, <2>1, <2>2, <3>1
    <3>2. CASE k # Len(s) + 1
      <4>1. k \in 1..Len(s) /\ k \in 1..Len(t)
        BY <1>1, <2>1, <3>2
      <4>2. T(t)[k] = U(t[k]) /\ t[k] = s[k] /\ u[k] = T(s)[k] /\ T(s)[k] = U(s[k])
        BY <1>1, <2>1, <2>2, <4>1
      <4>3. QED
        BY <4>2
    <3>3. QED
      BY <3>1, <3>2
  <2>4. Len(T(t)) = Len(u)
    BY <1>1, <2>1, <2>2
  <2>5. T(t) = u
    BY <2>1, <2>2, <2>3, <2>4, SeqEqual
  <2>6. QED
    BY <2>5 DEF u
<1>6. T(s) \in Seq(Seq(Nat)) /\ U(c) \in Seq(Nat)
  BY <1>2, <1>4
<1>7. FlattenSeq(T(s)) \in Seq(Nat) /\ FlattenSeq(Append(T(s), U(c))) = FlattenSeq(T(s)) \o U(c)
  <2> HIDE DEF T
  <2>1. QED
    BY <1>6, FlattenAppend
<1>8. QED
  BY <1>3, <1>5, <1>7 DEF U, t

LEMMA Regrouped ==
  ASSUME NEW r \in Seq(Nat), NEW s \in Seq(Nat), NEW t \in Seq(Nat)
  PROVE  (r \o s) \o t = r \o (s \o t)
BY ConcatAssociative

\* The characters a string has yielded, and the high surrogate that waits for its other
\* half, are in UTF-16 what its items stand for.
LEMMA UnitsAreSpelled ==
  ASSUME NEW items \in Seq(AnyItem), NEW size \in Nat \ {0},
         Parsed(items, size)[Len(items)].ok, Parsed(items, size)[Len(items)].high = 0
  PROVE  UnitsOfText(Parsed(items, size)[Len(items)].out) = UnitsOfItems(items)
<1> DEFINE n == Len(items)
           p == Parsed(items, size)
           U == [k \in 1..n |-> UnitsOf(items[k])]
<1>1. n \in Nat /\ \A k \in 1..n : items[k] \in AnyItem
  BY ElementOfSeq
<1>2. /\ p[0] = [Nothing EXCEPT !.ok = TRUE]
      /\ \A k \in 1..n : p[k] = Item(p[k - 1], items[k], size)
      /\ \A k \in 0..n : p[k] \in Output
  BY ParsedSteps
<1>3. U \in Seq(Seq(Nat)) /\ Len(U) = n /\ \A k \in 1..n : U[k] = UnitsOf(items[k])
  <2>1. \A k \in 1..n : UnitsOf(items[k]) \in Seq(Nat)
    BY <1>1, UnitsTyped
  <2> HIDE DEF n
  <2>2. QED
    BY <1>1, <2>1
<1>4. UnitsOfItems(items) = FlattenSeq(U)
  BY DEF UnitsOfItems
<1>5. p[n].ok /\ p[n].high = 0
  OBVIOUS
<1>6. PICK g \in [0..n -> Seq(Nat)] :
        g[0] = <<>> /\ (\A k \in 1..n : g[k] = g[k - 1] \o U[k]) /\ FlattenSeq(U) = g[n]
  <2> HIDE DEF U, n
  <2>1. \E g \in [0..Len(U) -> Seq(Nat)] :
          g[0] = <<>> /\ (\A k \in 1..Len(U) : g[k] = g[k - 1] \o U[k]) /\ FlattenSeq(U) = g[Len(U)]
    BY <1>3, FlattenSteps
  <2>2. QED
    BY <1>3, <2>1
<1> DEFINE Rest(high) == IF high = 0 THEN <<>> ELSE <<high>>
           G == {k \in 0..n : p[k].ok => UnitsOfText(p[k].out) \o Rest(p[k].high) = g[k]}
<1> HIDE DEF n, p, U
<1>7. 0 \in G
  <2>1. p[0].out = <<>> /\ p[0].high = 0
    BY <1>2 DEF Nothing
  <2>2. UnitsOfText(<<>>) = <<>>
    BY DEF UnitsOfText, FlattenSeq
  <2>3. UnitsOfText(p[0].out) \o Rest(p[0].high) = <<>>
    BY <2>1, <2>2
  <2>4. QED
    BY <1>1, <1>6, <2>3
<1>8. ASSUME NEW k \in 0..(n - 1), k \in G PROVE k + 1 \in G
  <2> DEFINE j == k + 1
  <2>1. j \in 1..n /\ j \in 0..n /\ k \in 0..n /\ j - 1 = k
    BY <1>1
  <2> HIDE DEF j
  <2> DEFINE a == p[k]
             i == items[j]
             b == p[j]
  <2>2. b = Item(a, i, size) /\ a \in Output /\ b \in Output /\ i \in AnyItem /\ g[j] = g[k] \o UnitsOf(i)
        /\ g[k] \in Seq(Nat) /\ UnitsOf(i) \in Seq(Nat)
    <3>1. b = Item(p[j - 1], i, size) /\ g[j] = g[j - 1] \o U[j] /\ U[j] = UnitsOf(i)
      BY <1>2, <1>3, <1>6, <2>1, Zenon
    <3>2. i \in AnyItem /\ a \in Output /\ b \in Output /\ g[k] \in Seq(Nat)
      BY <1>1, <1>2, <2>1
    <3>3. QED
      BY <2>1, <3>1, <3>2, UnitsTyped, Zenon
  <2>3. a.ok => UnitsOfText(a.out) \o Rest(a.high) = g[k]
    BY <1>8
  <2>4. a.out \in Seq(Char) /\ a.high \in Nat /\ (a.high = 0 \/ isHigh(a.high)) /\ a.ok \in BOOLEAN
    BY <2>2 DEF Output
  <2> HIDE DEF a, i, b
  <2>5. UnitsOfText(a.out) \in Seq(Nat) /\ Rest(a.high) \in Seq(Nat)
    <3>1. UnitsOfText(a.out) \in Seq(Nat)
      <4>1. <<65>> \in Char
        BY DEF Char, Byte
      <4>2. QED
        BY <2>4, <4>1, UnitsAppend
    <3>2. Rest(a.high) \in Seq(Nat)
      BY <2>4
    <3>3. QED
      BY <3>1, <3>2
  <2>6. b.ok => UnitsOfText(b.out) \o Rest(b.high) = g[j]
    <3>1. CASE a.ok /\ Spells(a.high, i)
      <4> DEFINE c == Spelled(a.high, i)
      <4>1. c \in Char /\ Utf16(ScalarOf(c, Len(c))) = Rest(a.high) \o UnitsOf(i)
        BY <2>2, <2>4, <3>1, SpelledIsTaken
      <4>2. b = Add(a, c, size)
        BY <2>2, <3>1, ItemCases
      <4> HIDE DEF c
      <4>3. ASSUME b.ok PROVE UnitsOfText(b.out) \o Rest(b.high) = g[j]
        <5>1. b.out = Append(a.out, c) /\ b.high = 0
          BY <2>2, <3>1, <4>1, <4>2, <4>3, AddedWhole
        <5>2. UnitsOfText(b.out) = UnitsOfText(a.out) \o Utf16(ScalarOf(c, Len(c)))
          BY <2>4, <4>1, <5>1, UnitsAppend
        <5> DEFINE x == UnitsOfText(a.out)
                   y == Rest(a.high)
                   z == UnitsOf(i)
        <5>3. x \in Seq(Nat) /\ y \in Seq(Nat) /\ z \in Seq(Nat)
          BY <2>2, <2>5
        <5>4. UnitsOfText(b.out) = x \o (y \o z) /\ x \o y = g[k] /\ g[j] = g[k] \o z
          BY <2>2, <2>3, <3>1, <4>1, <5>2
        <5>5. UnitsOfText(b.out) \o <<>> = UnitsOfText(b.out)
          <6>1. UnitsOfText(b.out) \in Seq(Nat)
            <7>1. b.out \in Seq(Char)
              BY <2>2 DEF Output
            <7>2. QED
              BY <4>1, <7>1, UnitsAppend
          <6>2. QED
            BY <6>1, ConcatEmptySeq
        <5> HIDE DEF x, y, z
        <5>6. (x \o y) \o z = x \o (y \o z)
          BY <5>3, Regrouped, Zenon
        <5>7. UnitsOfText(b.out) = g[j]
          BY <5>4, <5>6, Zenon
        <5>8. QED
          BY <5>1, <5>5, <5>7
      <4>4. QED
        BY <4>3
    <3>2. CASE a.ok /\ Pends(a.high, i)
      <4>1. b = [a EXCEPT !.high = i.unit]
        BY <2>2, <3>2, ItemCases
      <4>2. b.out = a.out /\ b.high = i.unit
        BY <2>2, <4>1 DEF Output
      <4>3. a.high = 0 /\ UnitsOf(i) = <<i.unit>> /\ i.unit # 0
        BY <3>2 DEF Pends, UnitsOf, isHigh
      <4>4. UnitsOfText(a.out) = g[k]
        BY <2>3, <2>5, <3>2, <4>3, ConcatEmptySeq
      <4>5. QED
        BY <2>2, <4>2, <4>3, <4>4
    <3>3. CASE ~(a.ok /\ (Spells(a.high, i) \/ Pends(a.high, i)))
      <4>1. b = Nothing
        BY <2>2, <3>3, ItemCases
      <4>2. QED
        BY <4>1 DEF Nothing
    <3>4. QED
      BY <3>1, <3>2, <3>3
  <2>7. p[j].ok => UnitsOfText(p[j].out) \o Rest(p[j].high) = g[j]
    BY <2>6 DEF b
  <2>8. QED
    BY <2>1, <2>7 DEF j
<1>9. 0..n \subseteq G
  <2> HIDE DEF G
  <2>1. QED
    BY <1>1, <1>7, <1>8, UpTo
<1>10. UnitsOfText(p[n].out) \o <<>> = g[n]
  <2>1. n \in G
    BY <1>1, <1>9
  <2>2. QED
    BY <1>5, <2>1
<1>11. UnitsOfText(p[n].out) = UnitsOfText(p[n].out) \o <<>>
  <2>1. p[n].out \in Seq(Char) /\ <<65>> \in Char
    <3>1. p[n] \in Output
      BY <1>1, <1>2
    <3>2. QED
      BY <3>1 DEF Output, Char, Byte
  <2>2. UnitsOfText(p[n].out) \in Seq(Nat)
    BY <2>1, UnitsAppend
  <2>3. QED
    BY <2>2, ConcatEmptySeq
<1>12. QED
  BY <1>4, <1>6, <1>10, <1>11 DEF p, n

-----------------------------------------------------------------------------
(* Which strings are read, into which buffers *)

HighAt(items, k) == k \in 1..Len(items) /\ items[k].kind = "u" /\ isHigh(items[k].unit)
LowAt(items, k)  == k \in 1..Len(items) /\ items[k].kind = "u" /\ isLow(items[k].unit)

\* What WellFormed says of one item and the one before it.
Legal(items, k) ==
  /\ HighAt(items, k - 1) <=> LowAt(items, k)
  /\ items[k].kind = "u" => items[k].unit # 0
  /\ items[k].kind = "raw" => items[k].char[1] >= 32 /\ Encodes(items[k].char, Len(items[k].char))

\* The high surrogate that waits after an item.
Waiting(items, k) == IF HighAt(items, k) THEN items[k].unit ELSE 0

LEMMA WellFormedItems ==
  ASSUME NEW items \in Seq(AnyItem)
  PROVE  WellFormed(items) <=> (\A k \in 1..Len(items) : Legal(items, k)) /\ ~HighAt(items, Len(items))
<1> DEFINE n == Len(items)
           IsHigh(k) == k \in DOMAIN items /\ items[k].kind = "u" /\ isHigh(items[k].unit)
           IsLow(k)  == k \in DOMAIN items /\ items[k].kind = "u" /\ isLow(items[k].unit)
           Proper(k) == /\ items[k].kind = "u" => items[k].unit # 0
                        /\ items[k].kind = "raw" => /\ items[k].char[1] >= 32
                                                    /\ Encodes(items[k].char, Len(items[k].char))
<1>1. n \in Nat /\ DOMAIN items = 1..n
  OBVIOUS
<1>2. WellFormed(items)
      <=> \A k \in 1..n : (IsHigh(k) => IsLow(k + 1)) /\ (IsLow(k) => IsHigh(k - 1)) /\ Proper(k)
  BY <1>1 DEF WellFormed
<1>3. \A k : (HighAt(items, k) <=> IsHigh(k)) /\ (LowAt(items, k) <=> IsLow(k))
  BY <1>1 DEF HighAt, LowAt
<1>4. \A k : Legal(items, k) <=> (IsHigh(k - 1) <=> IsLow(k)) /\ Proper(k)
  BY <1>3 DEF Legal
<1>5. ~IsHigh(0) /\ ~IsLow(n + 1)
  BY <1>1
<1> HIDE DEF n, Proper
<1> DEFINE Linked  == \A k \in 1..n : (IsHigh(k) => IsLow(k + 1)) /\ (IsLow(k) => IsHigh(k - 1)) /\ Proper(k)
           InOrder == (\A k \in 1..n : (IsHigh(k - 1) <=> IsLow(k)) /\ Proper(k)) /\ ~IsHigh(n)
<1>6. ASSUME Linked PROVE InOrder
  <2>1. ASSUME NEW k \in 1..n PROVE (IsHigh(k - 1) <=> IsLow(k)) /\ Proper(k)
    <3>1. CASE k = 1
      BY <1>5, <1>6, <3>1
    <3>2. CASE k # 1
      <4> DEFINE j == k - 1
      <4>1. j \in 1..n /\ j + 1 = k
        BY <1>1, <3>2
      <4> HIDE DEF j, IsHigh, IsLow
      <4>2. IsHigh(j) => IsLow(j + 1)
        BY <1>6, <4>1
      <4>3. QED
        BY <1>6, <4>1, <4>2 DEF j
    <3>3. QED
      BY <3>1, <3>2
  <2>2. ~IsHigh(n)
    BY <1>1, <1>5, <1>6
  <2>3. QED
    BY <2>1, <2>2
<1>7. ASSUME InOrder PROVE Linked
  <2>1. TAKE k \in 1..n
  <2>2. (IsLow(k) => IsHigh(k - 1)) /\ Proper(k)
    BY <1>7
  <2>3. IsHigh(k) => IsLow(k + 1)
    <3>1. CASE k = n
      BY <1>7, <3>1
    <3>2. CASE k # n
      <4> DEFINE j == k + 1
      <4>1. j \in 1..n /\ j - 1 = k
        BY <1>1, <3>2
      <4> HIDE DEF j, IsHigh, IsLow
      <4>2. IsHigh(j - 1) <=> IsLow(j)
        BY <1>7, <4>1
      <4>3. QED
        BY <4>1, <4>2 DEF j
    <3>3. QED
      BY <3>1, <3>2
  <2>4. QED
    BY <2>2, <2>3
<1> HIDE DEF IsHigh, IsLow
<1>8. QED
  BY <1>2, <1>3, <1>4, <1>6, <1>7 DEF n

\* The items that the parser takes are the legal ones.
LEMMA LegalIsTaken ==
  ASSUME NEW items \in Seq(AnyItem), NEW k \in 1..Len(items)
  PROVE  /\ Legal(items, k) <=> \/ Spells(Waiting(items, k - 1), items[k])
                                \/ Pends(Waiting(items, k - 1), items[k])
         /\ Spells(Waiting(items, k - 1), items[k]) => Waiting(items, k) = 0
         /\ Pends(Waiting(items, k - 1), items[k]) => Waiting(items, k) = items[k].unit
<1> DEFINE high == Waiting(items, k - 1)
           i == items[k]
<1>1. i \in AnyItem
  BY ElementOfSeq
<1>2. (high # 0 <=> HighAt(items, k - 1)) /\ (high # 0 => isHigh(high))
  BY SMT DEF Waiting, HighAt, isHigh
<1>3. (HighAt(items, k) <=> i.kind = "u" /\ isHigh(i.unit)) /\ (LowAt(items, k) <=> i.kind = "u" /\ isLow(i.unit))
  BY DEF HighAt, LowAt
<1>4. Waiting(items, k) = IF i.kind = "u" /\ isHigh(i.unit) THEN i.unit ELSE 0
  BY <1>3 DEF Waiting
<1>5. Legal(items, k) <=> /\ high # 0 <=> i.kind = "u" /\ isLow(i.unit)
                          /\ i.kind = "u" => i.unit # 0
                          /\ i.kind = "raw" => i.char[1] >= 32 /\ Encodes(i.char, Len(i.char))
  BY <1>2, <1>3 DEF Legal
<1> HIDE DEF high, i
<1>6. CASE i.kind = "u"
  <2>1. i.unit \in Nat
    BY <1>1, <1>6 DEF AnyItem, CodeUnits
  <2>2. ~(isHigh(i.unit) /\ isLow(i.unit)) /\ (isLow(i.unit) => i.unit # 0) /\ (isHigh(i.unit) => i.unit # 0)
    BY <2>1, SMT DEF isHigh, isLow
  <2>3. QED
    BY <1>4, <1>5, <1>6, <2>2 DEF Spells, Pends, high, i
<1>7. CASE i.kind = "short"
  BY <1>4, <1>5, <1>7 DEF Spells, Pends, high, i
<1>8. CASE i.kind = "raw"
  <2>1. i.char \in Char
    BY <1>1, <1>8 DEF AnyItem
  <2>2. Taken(i.char) <=> Encodes(i.char, Len(i.char))
    BY <2>1, TakenIsEncoding
  <2>3. QED
    BY <1>4, <1>5, <1>8, <2>2 DEF Spells, Pends, high, i
<1>9. QED
  BY <1>1, <1>6, <1>7, <1>8 DEF AnyItem

\* A buffer of four bytes for each item, and one, holds every well-formed string.
Reads(acc, items, k) ==
  /\ acc.ok <=> \A j \in 1..k : Legal(items, j)
  /\ acc.ok => /\ acc.high = Waiting(items, k)
               /\ ByteLength(acc.out) <= 4 * k
               /\ k # 0 /\ acc.high = 0 => acc.out # <<>>

LEMMA AmpleReads ==
  ASSUME NEW items \in Seq(AnyItem)
  PROVE  \A k \in 0..Len(items) : Reads(Parsed(items, Ample(items))[k], items, k)
<1> DEFINE n == Len(items)
           size == Ample(items)
           p == Parsed(items, size)
           G == {k \in 0..n : Reads(p[k], items, k)}
<1>1. n \in Nat /\ (\A k \in 1..n : items[k] \in AnyItem) /\ size = 4 * n + 1 /\ size \in Nat
  BY ElementOfSeq DEF Ample
<1>2. /\ p[0] = [Nothing EXCEPT !.ok = TRUE]
      /\ \A k \in 1..n : p[k] = Item(p[k - 1], items[k], size)
      /\ \A k \in 0..n : p[k] \in Output
  <2> HIDE DEF size
  <2>1. QED
    BY <1>1, ParsedSteps
<1> HIDE DEF n, p, size
<1>3. 0 \in G
  <2>1. p[0].ok /\ p[0].out = <<>> /\ p[0].high = 0
    BY <1>2 DEF Nothing
  <2>2. ByteLength(<<>>) = 0
    <3>1. <<>> \in Seq(Char)
      OBVIOUS
    <3>2. QED
      BY <3>1, ByteLengths
  <2>3. Waiting(items, 0) = 0
    BY DEF Waiting, HighAt
  <2>4. Reads(p[0], items, 0)
    BY <2>1, <2>2, <2>3 DEF Reads
  <2>5. QED
    BY <1>1, <2>4
<1>4. ASSUME NEW k \in 0..(n - 1), k \in G PROVE k + 1 \in G
  <2> DEFINE j == k + 1
  <2>1. j \in 1..n /\ j \in 0..n /\ k \in 0..n /\ j - 1 = k /\ j \in Nat /\ k \in Nat /\ j = k + 1 /\ j <= n
    BY <1>1
  <2> HIDE DEF j
  <2> DEFINE a == p[k]
             i == items[j]
             b == p[j]
  <2>2. b = Item(a, i, size) /\ a \in Output /\ b \in Output /\ i \in AnyItem
    <3>1. b = Item(p[j - 1], i, size)
      BY <1>2, <2>1, Zenon
    <3>2. i \in AnyItem /\ a \in Output /\ b \in Output
      BY <1>1, <1>2, <2>1
    <3>3. QED
      BY <2>1, <3>1, <3>2, Zenon
  <2>3. Reads(a, items, k)
    BY <1>4
  <2>4. /\ Legal(items, j) <=> Spells(Waiting(items, k), i) \/ Pends(Waiting(items, k), i)
        /\ Spells(Waiting(items, k), i) => Waiting(items, j) = 0
        /\ Pends(Waiting(items, k), i) => Waiting(items, j) = i.unit
    <3>1. j \in 1..Len(items)
      BY <2>1 DEF n
    <3>2. /\ Legal(items, j) <=> Spells(Waiting(items, j - 1), i) \/ Pends(Waiting(items, j - 1), i)
          /\ Spells(Waiting(items, j - 1), i) => Waiting(items, j) = 0
          /\ Pends(Waiting(items, j - 1), i) => Waiting(items, j) = i.unit
      BY <3>1, LegalIsTaken
    <3>3. QED
      BY <2>1, <3>2, Zenon
  <2>5. (\A m \in 1..j : Legal(items, m)) <=> (\A m \in 1..k : Legal(items, m)) /\ Legal(items, j)
    <3>1. 1..j = (1..k) \cup {j}
      BY <2>1
    <3>2. QED
      BY <3>1
  <2>6. a.out \in Seq(Char) /\ a.high \in Nat /\ (a.high = 0 \/ isHigh(a.high)) /\ a.ok \in BOOLEAN
    BY <2>2 DEF Output
  <2> HIDE DEF a, i, b
  <2>7. Reads(b, items, j)
    <3>1. CASE a.ok /\ Spells(a.high, i)
      <4> DEFINE c == Spelled(a.high, i)
      <4>1. c \in Char
        BY <2>2, <2>6, <3>1, SpelledIsTaken
      <4>2. b = Add(a, c, size)
        BY <2>2, <3>1, ItemCases
      <4> HIDE DEF c
      <4>3. Len(c) \in Nat /\ Len(c) <= 4 /\ ByteLength(a.out) \in Nat
        <5>1. Len(c) \in 1..4
          BY <4>1 DEF Char
        <5>2. ByteLength(a.out) \in Nat
          BY <2>6, ByteLengths
        <5>3. \A x \in 1..4 : x \in Nat /\ x <= 4
          OBVIOUS
        <5>4. QED
          BY <5>1, <5>2, <5>3, Zenon
      <4>4. ByteLength(a.out) <= 4 * k /\ a.high = Waiting(items, k) /\ \A m \in 1..k : Legal(items, m)
        BY <2>3, <3>1 DEF Reads
      <4>5. ByteLength(a.out) + Len(c) <= 4 * j /\ ByteLength(a.out) + Len(c) < size
        BY <1>1, <2>1, <4>3, <4>4, SMT
      <4>6. b.ok /\ b.out = Append(a.out, c) /\ b.high = 0
        BY <1>1, <2>2, <3>1, <4>1, <4>2, <4>5, AddedWhole
      <4>7. ByteLength(b.out) <= 4 * j /\ b.out # <<>>
        <5>1. ByteLength(Append(a.out, c)) = ByteLength(a.out) + Len(c)
          BY <2>6, <4>1, ByteLengths
        <5>2. Append(a.out, c) # <<>>
          BY <2>6, <4>1, AppendProperties
        <5>3. QED
          BY <4>5, <4>6, <5>1, <5>2
      <4>8. Legal(items, j) /\ Waiting(items, j) = 0
        BY <2>4, <3>1, <4>4
      <4>9. QED
        BY <2>5, <4>4, <4>6, <4>7, <4>8 DEF Reads
    <3>2. CASE a.ok /\ Pends(a.high, i)
      <4>1. b = [a EXCEPT !.high = i.unit]
        BY <2>2, <3>2, ItemCases
      <4>2. b.out = a.out /\ b.high = i.unit /\ b.ok
        BY <2>2, <3>2, <4>1 DEF Output
      <4>3. i.unit # 0
        BY <3>2 DEF Pends, isHigh
      <4>4. ByteLength(a.out) <= 4 * k /\ a.high = Waiting(items, k) /\ \A m \in 1..k : Legal(items, m)
        BY <2>3, <3>2 DEF Reads
      <4>5. ByteLength(b.out) <= 4 * j
        <5>1. ByteLength(a.out) \in Nat
          BY <2>6, ByteLengths
        <5>2. QED
          BY <2>1, <4>2, <4>4, <5>1, SMT
      <4>6. Legal(items, j) /\ Waiting(items, j) = i.unit
        BY <2>4, <3>2, <4>4
      <4>7. QED
        BY <2>5, <4>2, <4>3, <4>4, <4>5, <4>6 DEF Reads
    <3>3. CASE ~(a.ok /\ (Spells(a.high, i) \/ Pends(a.high, i)))
      <4>1. b = Nothing /\ ~b.ok
        BY <2>2, <3>3, ItemCases DEF Nothing
      <4>2. a.ok => a.high = Waiting(items, k)
        BY <2>3 DEF Reads
      <4>3. ~\A m \in 1..j : Legal(items, m)
        BY <2>3, <2>4, <2>5, <3>3, <4>2 DEF Reads
      <4>4. QED
        BY <4>1, <4>3 DEF Reads
    <3>4. QED
      BY <3>1, <3>2, <3>3
  <2>8. Reads(p[j], items, j)
    BY <2>7 DEF b
  <2>9. QED
    BY <2>1, <2>8 DEF j
<1>5. 0..n \subseteq G
  <2> HIDE DEF G
  <2>1. QED
    BY <1>1, <1>3, <1>4, UpTo
<1>6. QED
  BY <1>5 DEF p, n, size

\* A smaller buffer yields the same, or nothing when that does not fit.
LEMMA SmallReads ==
  ASSUME NEW items \in Seq(AnyItem), NEW size \in Nat \ {0}
  PROVE  \A k \in 0..Len(items) :
           Parsed(items, size)[k] = IF /\ Parsed(items, Ample(items))[k].ok
                                       /\ ByteLength(Parsed(items, Ample(items))[k].out) < size
                                    THEN Parsed(items, Ample(items))[k] ELSE Nothing
<1> DEFINE n == Len(items)
           big == Ample(items)
           p == Parsed(items, size)
           q == Parsed(items, big)
           Same(x, y) == x = IF y.ok /\ ByteLength(y.out) < size THEN y ELSE Nothing
           G == {k \in 0..n : Same(p[k], q[k])}
<1>1. n \in Nat /\ (\A k \in 1..n : items[k] \in AnyItem) /\ big = 4 * n + 1 /\ big \in Nat /\ size \in Nat
  BY ElementOfSeq DEF Ample
<1>2. /\ p[0] = [Nothing EXCEPT !.ok = TRUE]
      /\ \A k \in 1..n : p[k] = Item(p[k - 1], items[k], size)
  BY ParsedSteps
<1>3. /\ q[0] = [Nothing EXCEPT !.ok = TRUE]
      /\ \A k \in 1..n : q[k] = Item(q[k - 1], items[k], big)
      /\ \A k \in 0..n : q[k] \in Output
  <2> HIDE DEF big
  <2>1. QED
    BY <1>1, ParsedSteps
<1>4. \A k \in 0..n : Reads(q[k], items, k)
  BY AmpleReads
<1> HIDE DEF n, p, q, big
<1>5. 0 \in G
  <2>1. q[0].ok /\ q[0].out = <<>> /\ p[0] = q[0]
    BY <1>2, <1>3 DEF Nothing
  <2>2. ByteLength(<<>>) = 0
    <3>1. <<>> \in Seq(Char)
      OBVIOUS
    <3>2. QED
      BY <3>1, ByteLengths
  <2>3. Same(p[0], q[0])
    BY <1>1, <2>1, <2>2
  <2>4. QED
    BY <1>1, <2>3
<1>6. ASSUME NEW k \in 0..(n - 1), k \in G PROVE k + 1 \in G
  <2> DEFINE j == k + 1
  <2>1. j \in 1..n /\ j \in 0..n /\ k \in 0..n /\ j - 1 = k /\ j \in Nat /\ k \in Nat /\ j = k + 1 /\ j <= n
    BY <1>1
  <2> HIDE DEF j
  <2> DEFINE a == q[k]
             i == items[j]
             b == q[j]
             c == Spelled(a.high, i)
  <2>2. b = Item(a, i, big) /\ p[j] = Item(p[k], i, size) /\ a \in Output /\ i \in AnyItem
    <3>1. b = Item(q[j - 1], i, big) /\ p[j] = Item(p[j - 1], i, size)
      BY <1>2, <1>3, <2>1, Zenon
    <3>2. i \in AnyItem /\ a \in Output
      BY <1>1, <1>3, <2>1
    <3>3. QED
      BY <2>1, <3>1, <3>2, Zenon
  <2>3. Same(p[k], a) /\ Reads(a, items, k)
    BY <1>4, <1>6, <2>1
  <2>4. a.out \in Seq(Char) /\ a.high \in Nat /\ (a.high = 0 \/ isHigh(a.high)) /\ a.ok \in BOOLEAN
    BY <2>2 DEF Output
  <2> HIDE DEF a, i, b, c
  <2>5. ASSUME a.ok, Spells(a.high, i)
        PROVE  /\ b = [a EXCEPT !.out = Append(@, c), !.high = 0]
               /\ b.ok /\ ByteLength(b.out) = ByteLength(a.out) + Len(c)
               /\ Item(a, i, size) = IF ByteLength(b.out) < size THEN b ELSE Nothing
               /\ ByteLength(a.out) \in Nat /\ Len(c) \in Nat
    <3>1. c \in Char
      BY <2>2, <2>4, <2>5, SpelledIsTaken DEF c
    <3>2. b = Add(a, c, big) /\ Item(a, i, size) = Add(a, c, size)
      BY <2>2, <2>5, ItemCases DEF c
    <3>3. ByteLength(a.out) \in Nat /\ Len(c) \in Nat /\ Len(c) <= 4
      <4>1. Len(c) \in 1..4
        BY <3>1 DEF Char
      <4>2. ByteLength(a.out) \in Nat
        BY <2>4, ByteLengths
      <4>3. \A x \in 1..4 : x \in Nat /\ x <= 4
        OBVIOUS
      <4>4. QED
        BY <4>1, <4>2, <4>3, Zenon
    <3>4. ByteLength(a.out) <= 4 * k
      BY <2>3, <2>5 DEF Reads
    <3>5. ByteLength(a.out) + Len(c) < big
      BY <1>1, <2>1, <3>3, <3>4, SMT
    <3>6. b.ok /\ b.out = Append(a.out, c)
      BY <1>1, <2>2, <2>5, <3>1, <3>2, <3>5, AddedWhole
    <3>7. ByteLength(b.out) = ByteLength(a.out) + Len(c)
      BY <2>4, <3>1, <3>6, ByteLengths
    <3>8. b = [a EXCEPT !.out = Append(@, c), !.high = 0]
      BY <1>1, <3>2, <3>3, <3>5, SMT DEF Add
    <3>9. Add(a, c, size) = IF ByteLength(b.out) < size THEN b ELSE Nothing
      BY <1>1, <3>3, <3>7, <3>8, SMT DEF Add
    <3>10. QED
      BY <3>2, <3>3, <3>6, <3>7, <3>8, <3>9
  <2>6. Same(p[j], b)
    <3>1. CASE a.ok /\ ByteLength(a.out) < size
      <4>1. p[j] = Item(a, i, size)
        BY <2>2, <2>3, <3>1
      <4>2. CASE Spells(a.high, i)
        BY <2>5, <3>1, <4>1, <4>2
      <4>3. CASE Pends(a.high, i)
        <5>1. b = [a EXCEPT !.high = i.unit] /\ p[j] = [a EXCEPT !.high = i.unit]
          BY <2>2, <3>1, <4>1, <4>3, ItemCases
        <5>2. b.ok /\ b.out = a.out
          BY <2>2, <3>1, <5>1 DEF Output
        <5>3. QED
          BY <3>1, <5>1, <5>2
      <4>4. CASE ~(Spells(a.high, i) \/ Pends(a.high, i))
        <5>1. b = Nothing /\ p[j] = Nothing
          BY <2>2, <4>1, <4>4, ItemCases
        <5>2. QED
          BY <5>1
      <4>5. QED
        BY <4>2, <4>3, <4>4
    <3>2. CASE ~(a.ok /\ ByteLength(a.out) < size)
      <4>1. p[j] = Nothing
        <5>1. p[k] = Nothing /\ ~Nothing.ok
          BY <2>3, <3>2 DEF Nothing
        <5>2. QED
          BY <2>2, <5>1, ItemCases, NothingIsOutput
      <4>2. ~(b.ok /\ ByteLength(b.out) < size)
        <5>1. CASE a.ok /\ Spells(a.high, i)
          <6>1. \A x, y, z \in Nat : ~(x < z) => ~(x + y < z)
            OBVIOUS
          <6>2. ByteLength(a.out) \in Nat /\ Len(c) \in Nat /\ ByteLength(b.out) = ByteLength(a.out) + Len(c)
            BY <2>5, <5>1
          <6>3. ~(ByteLength(a.out) < size)
            BY <3>2, <5>1
          <6>4. QED
            BY <1>1, <6>1, <6>2, <6>3, Zenon
        <5>2. CASE a.ok /\ Pends(a.high, i)
          <6>1. b = [a EXCEPT !.high = i.unit]
            BY <2>2, <5>2, ItemCases
          <6>2. b.out = a.out
            BY <2>2, <6>1 DEF Output
          <6>3. QED
            BY <3>2, <5>2, <6>2
        <5>3. CASE ~(a.ok /\ (Spells(a.high, i) \/ Pends(a.high, i)))
          <6>1. b = Nothing
            BY <2>2, <5>3, ItemCases
          <6>2. QED
            BY <6>1 DEF Nothing
        <5>4. QED
          BY <5>1, <5>2, <5>3
      <4>3. QED
        BY <4>1, <4>2
    <3>3. QED
      BY <3>1, <3>2
  <2>7. Same(p[j], q[j])
    BY <2>6 DEF b
  <2>8. QED
    BY <2>1, <2>7 DEF j
<1>7. 0..n \subseteq G
  <2> HIDE DEF G
  <2>1. QED
    BY <1>1, <1>5, <1>6, UpTo
<1>8. QED
  BY <1>7 DEF p, q, n, big

\* What parseJsonString accepts: the well-formed strings that fit and are not empty.
LEMMA AcceptsWellFormed ==
  ASSUME NEW items \in Seq(AnyItem), NEW size \in Nat \ {0}
  PROVE  LET p == parseJsonString(items, size)
             q == parseJsonString(items, Ample(items)) IN
         /\ q.ok <=> WellFormed(items) /\ items # <<>>
         /\ p.ok <=> q.ok /\ ByteLength(q.out) < size
<1> DEFINE n == Len(items)
           a == Parsed(items, Ample(items))[n]
           b == Parsed(items, size)[n]
           p == parseJsonString(items, size)
           q == parseJsonString(items, Ample(items))
<1>1. n \in Nat /\ n \in 0..n /\ (items # <<>> <=> n # 0)
  <2>1. n \in Nat
    OBVIOUS
  <2>2. QED
    BY <2>1, EmptySeq
<1>2. Reads(a, items, n)
  BY <1>1, AmpleReads
<1>3. b = IF a.ok /\ ByteLength(a.out) < size THEN a ELSE Nothing
  BY <1>1, SmallReads
<1>4. /\ q = IF a.high # 0 \/ a.out = <<>> THEN Nothing ELSE a
      /\ p = IF b.high # 0 \/ b.out = <<>> THEN Nothing ELSE b
  BY DEF parseJsonString
<1>5. n = 0 => a.out = <<>>
  <2>1. Ample(items) \in Nat
    BY <1>1 DEF Ample
  <2>2. Parsed(items, Ample(items))[0] = [Nothing EXCEPT !.ok = TRUE]
    BY <2>1, ParsedSteps
  <2>3. QED
    BY <2>2 DEF Nothing
<1>6. WellFormed(items) <=> (\A k \in 1..n : Legal(items, k)) /\ Waiting(items, n) = 0
  <2>1. HighAt(items, n) => items[n].unit # 0
    BY SMT DEF HighAt, isHigh
  <2>2. QED
    BY <2>1, WellFormedItems DEF Waiting
<1>7. ~Nothing.ok /\ Nothing.out = <<>>
  BY DEF Nothing
<1> HIDE DEF a, b, p, q, n
<1>8. q.ok <=> WellFormed(items) /\ items # <<>>
  BY <1>1, <1>2, <1>4, <1>5, <1>6, <1>7 DEF Reads
<1>9. p.ok <=> q.ok /\ ByteLength(q.out) < size
  BY <1>3, <1>4, <1>7
<1>10. QED
  BY <1>8, <1>9 DEF p, q

LEMMA OneByte ==
  ASSUME NEW s \in Nat, s <= 127
  PROVE  encodeUtf8(s) = <<s>>
BY SMT DEF encodeUtf8

\* What appendEscaped writes of a character is read as that character.
LEMMA EscapedIsSpelled ==
  ASSUME NEW c \in Char, Taken(c), c # << 0 >>
  PROVE  /\ appendEscaped(c) \in AnyItem
         /\ Spells(0, appendEscaped(c)) /\ Spelled(0, appendEscaped(c)) = c
<1> DEFINE b == c[1]
           e == appendEscaped(c)
<1>1. c \in Seq(Byte) /\ Len(c) \in 1..4 /\ b \in Nat /\ b <= 255
  <2>1. c \in Seq(Byte) /\ Len(c) \in 1..4
    BY DEF Char
  <2>2. b \in Byte
    BY <2>1, ElementOfSeq
  <2>3. \A x \in Byte : x \in Nat /\ x <= 255
    BY SMT DEF Byte
  <2> HIDE DEF b
  <2>4. QED
    BY <2>1, <2>2, <2>3, Zenon
<1>2. b <= 127 => c = <<b>>
  <2>1. HAVE b <= 127
  <2> DEFINE z == <<0, 0, 0>>
             t == c \o z
  <2>2. z \in Seq(Byte) /\ Len(c) >= 1
    BY <1>1 DEF Byte
  <2> HIDE DEF z
  <2>3. t[1] = b
    BY <1>1, <2>2, ConcatProperties
  <2>4. utf8SequenceLength(t) = 1
    <3> HIDE DEF t
    <3>1. QED
      BY <2>1, <2>3, SMT DEF utf8SequenceLength
  <2>5. Len(c) = 1
    BY <2>4 DEF Taken, z, t
  <2>6. QED
    BY <1>1, <2>5
<1>3. CASE c \in {<<34>>, <<92>>, <<10>>, <<13>>, <<9>>}
  <2>1. e = [kind |-> "short", unit |-> b]
    BY <1>3 DEF appendEscaped
  <2>2. c = <<b>> /\ b \in Nat /\ 1 <= b /\ b <= 127
    BY <1>3
  <2> HIDE DEF e, b
  <2>3. e \in AnyItem
    BY <2>1, <2>2 DEF AnyItem
  <2>4. e.kind = "short" /\ e.unit = b
    BY <2>1
  <2>5. Spells(0, e) /\ Spelled(0, e) = <<b>>
    BY <2>4, SMT DEF Spells, Spelled
  <2>6. QED
    BY <2>2, <2>3, <2>5 DEF e
<1>4. CASE b < 32 /\ c \notin {<<34>>, <<92>>, <<10>>, <<13>>, <<9>>}
  <2>1. e = [kind |-> "u", unit |-> b]
    BY <1>4 DEF appendEscaped
  <2>2. c = <<b>> /\ b # 0
    BY <1>1, <1>2, <1>4
  <2> HIDE DEF e, b
  <2>3. e \in AnyItem
    BY <1>1, <2>1, SMT DEF AnyItem, CodeUnits
  <2>4. e.kind = "u" /\ e.unit = b
    BY <2>1
  <2>5. ~isHigh(b) /\ ~isLow(b)
    BY <1>1, SMT DEF isHigh, isLow
  <2>6. encodeUtf8(b) = <<b>>
    <3>1. b <= 127
      BY <1>1, <1>4, SMT DEF b
    <3>2. QED
      BY <1>1, <3>1, OneByte
  <2>7. Spells(0, e) /\ Spelled(0, e) = <<b>>
    BY <2>2, <2>4, <2>5, <2>6, SMT DEF Spells, Spelled
  <2>8. QED
    BY <2>2, <2>3, <2>7 DEF e
<1>5. CASE ~(b < 32) /\ c \notin {<<34>>, <<92>>, <<10>>, <<13>>, <<9>>}
  <2>1. e = [kind |-> "raw", char |-> c]
    BY <1>5 DEF appendEscaped
  <2>2. b >= 32
    BY <1>1, <1>5
  <2> HIDE DEF e
  <2>3. e \in AnyItem
    BY <2>1 DEF AnyItem
  <2>4. e.kind = "raw" /\ e.char = c
    BY <2>1
  <2>5. Spells(0, e) /\ Spelled(0, e) = c
    BY <2>2, <2>4, SMT DEF Spells, Spelled
  <2>6. QED
    BY <2>3, <2>5 DEF e
<1>6. QED
  BY <1>3, <1>4, <1>5

\* What a status says of a text is read as that text.
LEMMA ReadsBack ==
  ASSUME NEW out \in Seq(Char), out # <<>>, \A k \in 1..Len(out) : Taken(out[k]) /\ out[k] # << 0 >>
  PROVE  parseJsonString(Escaped(out), Ample(out)).out = out
<1> DEFINE n == Len(out)
           e == Escaped(out)
           size == Ample(out)
           p == Parsed(e, size)
           Copied(x, k) == /\ x.ok /\ x.high = 0 /\ ByteLength(x.out) <= 4 * k
                           /\ Len(x.out) = k /\ \A j \in 1..k : x.out[j] = out[j]
           G == {k \in 0..n : Copied(p[k], k)}
<1>1. n \in Nat /\ n # 0 /\ size = 4 * n + 1 /\ size \in Nat /\ \A k \in 1..n : out[k] \in Char
  <2>1. n \in Nat /\ n # 0
    BY EmptySeq
  <2>2. \A k \in 1..n : out[k] \in Char
    BY ElementOfSeq
  <2>3. QED
    BY <2>1, <2>2 DEF Ample
<1>2. \A k \in 1..n : /\ appendEscaped(out[k]) \in AnyItem
                      /\ Spells(0, appendEscaped(out[k])) /\ Spelled(0, appendEscaped(out[k])) = out[k]
  <2>1. TAKE k \in 1..n
  <2>2. out[k] \in Char /\ Taken(out[k]) /\ out[k] # <<0>>
    BY <1>1
  <2>3. QED
    BY <2>2, EscapedIsSpelled
<1>3. e \in Seq(AnyItem) /\ Len(e) = n /\ \A k \in 1..n : e[k] = appendEscaped(out[k])
  <2>1. e = [k \in 1..n |-> appendEscaped(out[k])]
    BY DEF Escaped
  <2> HIDE DEF e, n
  <2>2. QED
    BY <1>1, <1>2, <2>1
<1> HIDE DEF e, size
<1>4. /\ p[0] = [Nothing EXCEPT !.ok = TRUE]
      /\ \A k \in 1..n : p[k] = Item(p[k - 1], e[k], size)
      /\ \A k \in 0..n : p[k] \in Output
  <2>1. /\ p[0] = [Nothing EXCEPT !.ok = TRUE]
        /\ \A k \in 1..Len(e) : p[k] = Item(p[k - 1], e[k], size)
        /\ \A k \in 0..Len(e) : p[k] \in Output
    BY <1>1, <1>3, ParsedSteps
  <2> HIDE DEF p
  <2>2. QED
    BY <1>3, <2>1
<1> HIDE DEF n, p
<1>5. 0 \in G
  <2>1. p[0].ok /\ p[0].out = <<>> /\ p[0].high = 0
    BY <1>4 DEF Nothing
  <2>2. ByteLength(<<>>) = 0
    <3>1. <<>> \in Seq(Char)
      OBVIOUS
    <3>2. QED
      BY <3>1, ByteLengths
  <2>3. Copied(p[0], 0)
    BY <2>1, <2>2
  <2>4. QED
    BY <1>1, <2>3
<1>6. ASSUME NEW k \in 0..(n - 1), k \in G PROVE k + 1 \in G
  <2> DEFINE j == k + 1
  <2>1. j \in 1..n /\ j \in 0..n /\ k \in 0..n /\ j - 1 = k /\ j \in Nat /\ k \in Nat /\ j = k + 1 /\ j <= n
    BY <1>1
  <2> HIDE DEF j
  <2> DEFINE a == p[k]
             b == p[j]
             c == out[j]
             i == e[j]
  <2>2. b = Item(a, i, size) /\ a \in Output /\ i \in AnyItem /\ c \in Char
    <3>1. b = Item(p[j - 1], i, size) /\ i = appendEscaped(c) /\ i \in AnyItem
      BY <1>2, <1>3, <1>4, <2>1, Zenon
    <3>2. a \in Output /\ c \in Char
      BY <1>1, <1>4, <2>1
    <3>3. QED
      BY <2>1, <3>1, <3>2, Zenon
  <2>3. Spells(0, i) /\ Spelled(0, i) = c
    BY <1>2, <1>3, <2>1
  <2>4. Copied(a, k)
    BY <1>6
  <2>5. a.out \in Seq(Char)
    BY <2>2 DEF Output
  <2> HIDE DEF a, b, c, i
  <2>6. b = Add(a, c, size)
    BY <2>2, <2>3, <2>4, ItemCases
  <2>7. ByteLength(a.out) \in Nat /\ Len(c) \in Nat /\ Len(c) <= 4
    <3>1. Len(c) \in 1..4
      BY <2>2 DEF Char
    <3>2. ByteLength(a.out) \in Nat
      BY <2>5, ByteLengths
    <3>3. \A x \in 1..4 : x \in Nat /\ x <= 4
      OBVIOUS
    <3>4. QED
      BY <3>1, <3>2, <3>3, Zenon
  <2>8. ByteLength(a.out) + Len(c) <= 4 * j /\ ByteLength(a.out) + Len(c) < size
    <3>1. ByteLength(a.out) <= 4 * k
      BY <2>4
    <3>2. QED
      BY <1>1, <2>1, <2>7, <3>1, SMT
  <2>9. b.ok /\ b.out = Append(a.out, c) /\ b.high = 0
    BY <1>1, <2>2, <2>4, <2>6, <2>8, AddedWhole
  <2>10. ByteLength(b.out) <= 4 * j
    <3>1. ByteLength(Append(a.out, c)) = ByteLength(a.out) + Len(c)
      BY <2>2, <2>5, ByteLengths
    <3>2. QED
      BY <2>8, <2>9, <3>1
  <2>11. Len(b.out) = j /\ \A m \in 1..j : b.out[m] = out[m]
    <3>1. /\ Len(b.out) = Len(a.out) + 1 /\ b.out[Len(a.out) + 1] = c
          /\ \A m \in 1..Len(a.out) : b.out[m] = a.out[m]
      BY <2>2, <2>5, <2>9, AppendProperties
    <3>2. Len(a.out) = k /\ \A m \in 1..k : a.out[m] = out[m]
      BY <2>4
    <3>3. Len(b.out) = j /\ b.out[j] = out[j] /\ \A m \in 1..k : b.out[m] = out[m]
      BY <2>1, <3>1, <3>2 DEF c
    <3>4. \A m \in 1..j : m = j \/ m \in 1..k
      BY <2>1
    <3>5. QED
      BY <3>3, <3>4
  <2>12. Copied(p[j], j)
    BY <2>9, <2>10, <2>11 DEF b
  <2>13. QED
    BY <2>1, <2>12 DEF j
<1>7. 0..n \subseteq G
  <2> HIDE DEF G
  <2>1. QED
    BY <1>1, <1>5, <1>6, UpTo
<1>8. Copied(p[n], n) /\ p[n].out \in Seq(Char)
  <2>1. n \in G /\ p[n] \in Output
    BY <1>1, <1>4, <1>7
  <2>2. QED
    BY <2>1 DEF Output
<1>9. p[n].out = out
  BY <1>8, SeqEqual DEF n
<1>10. parseJsonString(e, size) = p[n]
  <2>1. p[n].high = 0 /\ p[n].out # <<>>
    BY <1>8, <1>9
  <2>2. p[n] = Parsed(e, size)[Len(e)]
    BY <1>3 DEF p
  <2>3. QED
    BY <2>1, <2>2 DEF parseJsonString
<1>11. QED
  BY <1>9, <1>10 DEF e, size

\* parseJsonString accepts the well-formed strings that fit, whatever their length, and
\* yields the characters they spell; a status that says them is read as the same text.
THEOREM StringsAreReadBack ==
  TextsSpec => []StringsReadBack
<1>1. InputOK => StringsReadBack
  <2> DEFINE items == input.items
             size == input.size
             p == parseJsonString(items, size)
             q == parseJsonString(items, Ample(items))
  <2>1. SUFFICES ASSUME InputOK, input.kind = "string"
                 PROVE  /\ q.ok <=> WellFormed(items) /\ items # <<>>
                        /\ p.ok <=> q.ok /\ ByteLength(q.out) < size
                        /\ p.ok => /\ UnitsOfText(p.out) = UnitsOfItems(items) /\ validateUtf8Text(p.out)
                                   /\ parseJsonString(Escaped(p.out), Ample(p.out)).out = p.out
    BY DEF StringsReadBack
  <2>2. items \in Seq(AnyItem) /\ size \in Nat \ {0}
    BY <2>1, InputKinds
  <2> HIDE DEF items, size
  <2>3. (q.ok <=> WellFormed(items) /\ items # <<>>) /\ (p.ok <=> q.ok /\ ByteLength(q.out) < size)
    BY <2>2, AcceptsWellFormed
  <2>4. ASSUME p.ok
        PROVE  /\ UnitsOfText(p.out) = UnitsOfItems(items) /\ validateUtf8Text(p.out)
               /\ parseJsonString(Escaped(p.out), Ample(p.out)).out = p.out
    <3>1. p \in Output /\ Sound(p, size) /\ p = Parsed(items, size)[Len(items)]
      BY <2>2, <2>4, ParsedString
    <3>2. p.high = 0 /\ p.out # <<>>
      <4>1. p # Nothing
        BY <2>4 DEF Nothing
      <4> DEFINE r == Parsed(items, size)[Len(items)]
      <4>2. p = IF r.high # 0 \/ r.out = <<>> THEN Nothing ELSE r
        BY DEF parseJsonString
      <4> HIDE DEF p, r
      <4>3. QED
        BY <4>1, <4>2
    <3>3. UnitsOfText(p.out) = UnitsOfItems(items)
      <4> DEFINE r == Parsed(items, size)[Len(items)]
      <4>1. r.ok /\ r.high = 0 /\ p.out = r.out
        BY <2>4, <3>1, <3>2
      <4>2. r.ok /\ r.high = 0 => UnitsOfText(r.out) = UnitsOfItems(items)
        BY <2>2, UnitsAreSpelled
      <4> HIDE DEF p, r
      <4>3. QED
        BY <4>1, <4>2
    <3> HIDE DEF p
    <3>4. p.out \in Seq(Char) /\ \A k \in 1..Len(p.out) : Taken(p.out[k]) /\ p.out[k] # <<0>>
      BY <3>1 DEF Output, Sound
    <3>5. validateUtf8Text(p.out)
      <4>1. DOMAIN p.out = 1..Len(p.out)
        BY <3>4
      <4>2. QED
        BY <3>4, <4>1 DEF validateUtf8Text, Taken
    <3>6. QED
      BY <3>2, <3>3, <3>4, <3>5, ReadsBack
  <2>5. QED
    BY <2>3, <2>4
<1>2. QED
  BY <1>1, InputStays, PTL

-----------------------------------------------------------------------------
(* The command object *)

ValueOf(f) == IF f = "autoReboot" THEN "boolean" ELSE "text"

\* The first m members that have been read, up to the value of the last: each key once, a
\* colon behind it, and a comma between two members.
Members(r, m) ==
  /\ \A j \in 1..m : r[4 * j - 2] \in Fields /\ r[4 * j - 1] = ":"
  /\ \A i, j \in 1..m : r[4 * i - 2] = r[4 * j - 2] => i = j
  /\ \A j \in 1..m : j < m => r[4 * j + 1] = ","

Keys(r, m) == {r[4 * j - 2] : j \in 1..m}

\* The values read so far are those that a command has there.
Judged(r, m) == \A j \in 1..m : 4 * j <= Len(r) => r[4 * j] = ValueOf(r[4 * j - 2])

\* How far the parser is that has read r, with m keys and their colons.
ReadLength(pc, m) ==
  CASE pc = "open"   -> 0
    [] pc = "key"    -> 4 * m + 1
    [] pc = "colon"  -> 4 * m + 2
    [] pc = "value"  -> 4 * m - 1
    [] pc = "next"   -> 4 * m
    [] pc = "closed" -> 4 * m + 1

Place(p, r, m) ==
  /\ Len(r) = ReadLength(p.pc, m)
  /\ (p.pc = "open" => m = 0) /\ (p.pc \in {"value", "next", "closed"} => m > 0)
  /\ p.pc # "open" => r[1] = "{"
  /\ p.pc \in {"key", "colon"} /\ m > 0 => r[4 * m + 1] = ","
  /\ p.pc = "colon" => p.key = r[4 * m + 2]
  /\ p.pc = "value" => p.key = r[4 * m - 2]
  /\ p.pc = "closed" => r[4 * m + 1] = "}"
  /\ Members(r, m) /\ p.fields = Keys(r, m) /\ (p.valid <=> Judged(r, m))

Reading == {"open", "key", "colon", "value", "next", "closed"}
Parsers == [pc : Reading \cup {"ok", "error"}, key : Fields \cup {"text", "none"},
            fields : SUBSET Fields, valid : BOOLEAN]

CommandInv ==
  /\ read \in Seq(Tokens) /\ parser \in Parsers
  /\ parser.pc \in Reading => \E m \in Nat : Place(parser, read, m)
  /\ ParsesExactlyCommands

\* The text of a command by its order of members.
CommandOf(s) == <<"{">> \o MemberOf(s[1]) \o <<",">> \o MemberOf(s[2]) \o <<",">> \o MemberOf(s[3])
                  \o <<",">> \o MemberOf(s[4]) \o <<",">> \o MemberOf(s[5]) \o <<"}", "end">>

LEMMA TokenKinds ==
  /\ Fields \subseteq Tokens /\ {"{", "}", ",", ":", "end"} \subseteq Tokens
  /\ \A f \in Fields : ValueOf(f) \in Tokens /\ ValueOf(f) \notin Fields /\ ValueOf(f) # "wrongText"
  /\ \A t \in {"{", "}", ",", ":", "end", "text", "badText", "wrongText", "boolean", "junk"} : t \notin Fields
BY DEF Fields, Tokens, ValueOf

\* One member more, and one token more.
LEMMA GlueTokens ==
  ASSUME NEW p \in Seq(Tokens), NEW q \in Seq(Tokens)
  PROVE  /\ p \o q \in Seq(Tokens) /\ Len(p \o q) = Len(p) + Len(q)
         /\ (\A i \in 1..Len(p) : (p \o q)[i] = p[i]) /\ \A i \in 1..Len(q) : (p \o q)[Len(p) + i] = q[i]
<1> DEFINE T == Tokens
<1>1. p \in Seq(T) /\ q \in Seq(T)
  OBVIOUS
<1> HIDE DEF T
<1>2. /\ p \o q \in Seq(T) /\ Len(p \o q) = Len(p) + Len(q)
      /\ (\A i \in 1..Len(p) : (p \o q)[i] = p[i]) /\ \A i \in 1..Len(q) : (p \o q)[Len(p) + i] = q[i]
  BY <1>1, Glue
<1>3. QED
  BY <1>2 DEF T

LEMMA MemberAdded ==
  ASSUME NEW p \in Seq(Tokens), NEW f \in Fields
  PROVE  /\ p \o MemberOf(f) \in Seq(Tokens) /\ Len(p \o MemberOf(f)) = Len(p) + 3
         /\ \A i \in 1..Len(p) : (p \o MemberOf(f))[i] = p[i]
         /\ (p \o MemberOf(f))[Len(p) + 1] = f /\ (p \o MemberOf(f))[Len(p) + 2] = ":"
         /\ (p \o MemberOf(f))[Len(p) + 3] = ValueOf(f)
<1> DEFINE q == MemberOf(f)
<1>1. q = <<f, ":", ValueOf(f)>>
  BY DEF MemberOf, ValueOf
<1>2. f \in Tokens /\ ":" \in Tokens /\ ValueOf(f) \in Tokens
  BY TokenKinds
<1>3. q \in Seq(Tokens) /\ Len(q) = 3 /\ q[1] = f /\ q[2] = ":" /\ q[3] = ValueOf(f)
  <2> DEFINE v == ValueOf(f)
             c == ":"
  <2>1. q = <<f, c, v>> /\ f \in Tokens /\ c \in Tokens /\ v \in Tokens
    BY <1>1, <1>2
  <2> HIDE DEF q, v, c
  <2>2. QED
    BY <2>1 DEF v, c
<1> HIDE DEF q
<1>4. /\ p \o q \in Seq(Tokens) /\ Len(p \o q) = Len(p) + Len(q)
      /\ (\A i \in 1..Len(p) : (p \o q)[i] = p[i]) /\ \A i \in 1..Len(q) : (p \o q)[Len(p) + i] = q[i]
  BY <1>3, GlueTokens
<1>5. (p \o q)[Len(p) + 1] = q[1] /\ (p \o q)[Len(p) + 2] = q[2] /\ (p \o q)[Len(p) + 3] = q[3]
  <2>1. 1 \in 1..Len(q) /\ 2 \in 1..Len(q) /\ 3 \in 1..Len(q)
    BY <1>3
  <2>2. QED
    BY <1>4, <2>1, Zenon
<1>6. QED
  BY <1>3, <1>4, <1>5 DEF q

LEMMA TokenAdded ==
  ASSUME NEW p \in Seq(Tokens), NEW t \in Tokens
  PROVE  /\ p \o <<t>> \in Seq(Tokens) /\ Len(p \o <<t>>) = Len(p) + 1
         /\ \A i \in 1..Len(p) : (p \o <<t>>)[i] = p[i]
         /\ (p \o <<t>>)[Len(p) + 1] = t
<1> DEFINE q == <<t>>
<1>1. q \in Seq(Tokens) /\ Len(q) = 1 /\ q[1] = t
  OBVIOUS
<1> HIDE DEF q
<1>2. /\ p \o q \in Seq(Tokens) /\ Len(p \o q) = Len(p) + Len(q)
      /\ (\A i \in 1..Len(p) : (p \o q)[i] = p[i]) /\ \A i \in 1..Len(q) : (p \o q)[Len(p) + i] = q[i]
  BY <1>1, GlueTokens
<1>3. (p \o q)[Len(p) + 1] = q[1]
  <2>1. 1 \in 1..Len(q)
    BY <1>1
  <2>2. QED
    BY <1>2, <2>1, Zenon
<1>4. QED
  BY <1>1, <1>2, <1>3 DEF q

\* The beginning of a command: its first m members, each but the first after a comma.
Begun(c, s, m) ==
  /\ c \in Seq(Tokens) /\ Len(c) = 4 * m /\ c[1] = "{"
  /\ \A j \in 1..m : c[4 * j - 2] = s[j] /\ c[4 * j - 1] = ":" /\ c[4 * j] = ValueOf(s[j])
  /\ \A j \in 1..m : j < m => c[4 * j + 1] = ","

LEMMA TokensTyped ==
  {"{", "}", ",", ":", "end"} \subseteq Tokens /\ Fields \subseteq Tokens
BY TokenKinds

LEMMA OrderedTyped ==
  \A s \in OrderedFields, m \in 1..5 : s[m] \in Fields
BY DEF OrderedFields

LEMMA FirstMember ==
  ASSUME NEW s \in OrderedFields
  PROVE  Begun(<<"{">> \o MemberOf(s[1]), s, 1)
<1> DEFINE b == "{"
           a == <<b>>
           c == a \o MemberOf(s[1])
<1>1. b \in Tokens /\ s[1] \in Fields
  <2>1. 1 \in 1..5
    OBVIOUS
  <2>2. QED
    BY <2>1, TokensTyped, OrderedTyped
<1>2. a \in Seq(Tokens) /\ Len(a) = 1 /\ a[1] = b
  <2> HIDE DEF b
  <2>1. QED
    BY <1>1
<1> HIDE DEF a
<1>3. /\ c \in Seq(Tokens) /\ Len(c) = 4 /\ (\A i \in 1..1 : c[i] = a[i])
      /\ c[2] = s[1] /\ c[3] = ":" /\ c[4] = ValueOf(s[1])
  <2> DEFINE f == s[1]
  <2>1. f \in Fields
    BY <1>1
  <2> HIDE DEF f
  <2>2. /\ a \o MemberOf(f) \in Seq(Tokens) /\ Len(a \o MemberOf(f)) = Len(a) + 3
        /\ \A i \in 1..Len(a) : (a \o MemberOf(f))[i] = a[i]
        /\ (a \o MemberOf(f))[Len(a) + 1] = f /\ (a \o MemberOf(f))[Len(a) + 2] = ":"
        /\ (a \o MemberOf(f))[Len(a) + 3] = ValueOf(f)
    BY <1>2, <2>1, MemberAdded
  <2>3. c = a \o MemberOf(f)
    BY DEF f
  <2> HIDE DEF c
  <2>4. 1 + 1 = 2 /\ 1 + 2 = 3 /\ 1 + 3 = 4
    OBVIOUS
  <2>5. QED
    BY <1>2, <2>2, <2>3, <2>4, Zenon DEF f
<1> HIDE DEF c
<1>4. /\ \A j \in 1..1 : c[4 * j - 2] = s[j] /\ c[4 * j - 1] = ":" /\ c[4 * j] = ValueOf(s[j])
      /\ \A j \in 1..1 : ~(j < 1)
  <2>1. \A j \in 1..1 : j = 1 /\ 4 * j - 2 = 2 /\ 4 * j - 1 = 3 /\ 4 * j = 4
    OBVIOUS
  <2>2. QED
    BY <1>3, <2>1
<1>5. c[1] = b
  <2>1. 1 \in 1..1
    OBVIOUS
  <2>2. QED
    BY <1>2, <1>3, <2>1, Zenon
<1>6. Begun(c, s, 1)
  <2>1. 4 * 1 = 4
    OBVIOUS
  <2>2. QED
    BY <1>3, <1>4, <1>5, <2>1, Zenon DEF Begun
<1>7. QED
  BY <1>6 DEF c, a, b

LEMMA NextMember ==
  ASSUME NEW s \in OrderedFields, NEW m \in 1..4, NEW c, Begun(c, s, m)
  PROVE  Begun(c \o <<",">> \o MemberOf(s[m + 1]), s, m + 1)
<1> DEFINE comma == ","
           a == c \o <<comma>>
           f == s[m + 1]
           d == a \o MemberOf(f)
<1>1. comma \in Tokens /\ f \in Fields /\ c \in Seq(Tokens) /\ Len(c) = 4 * m
  <2>1. m + 1 \in 1..5
    OBVIOUS
  <2>2. f \in Fields
    BY <2>1, OrderedTyped, Zenon
  <2>3. QED
    BY <2>2, TokensTyped DEF Begun
<1>2. c[1] = "{" /\ \A j \in 1..m : c[4 * j - 2] = s[j] /\ c[4 * j - 1] = ":" /\ c[4 * j] = ValueOf(s[j])
                                    /\ (j < m => c[4 * j + 1] = comma)
  BY DEF Begun
<1> HIDE DEF comma
<1>3. a \in Seq(Tokens) /\ Len(a) = 4 * m + 1 /\ (\A i \in 1..(4 * m) : a[i] = c[i]) /\ a[4 * m + 1] = comma
  <2>1. /\ a \in Seq(Tokens) /\ Len(a) = Len(c) + 1 /\ (\A i \in 1..Len(c) : a[i] = c[i])
        /\ a[Len(c) + 1] = comma
    BY <1>1, TokenAdded
  <2> HIDE DEF a
  <2>2. QED
    BY <1>1, <2>1
<1> HIDE DEF a, f
<1>4. /\ d \in Seq(Tokens) /\ Len(d) = 4 * m + 4 /\ (\A i \in 1..(4 * m + 1) : d[i] = a[i])
      /\ d[4 * m + 2] = f /\ d[4 * m + 3] = ":" /\ d[4 * m + 4] = ValueOf(f)
  <2>1. /\ d \in Seq(Tokens) /\ Len(d) = Len(a) + 3 /\ (\A i \in 1..Len(a) : d[i] = a[i])
        /\ d[Len(a) + 1] = f /\ d[Len(a) + 2] = ":" /\ d[Len(a) + 3] = ValueOf(f)
    BY <1>1, <1>3, MemberAdded
  <2> HIDE DEF d
  <2>2. Len(a) + 1 = 4 * m + 2 /\ Len(a) + 2 = 4 * m + 3 /\ Len(a) + 3 = 4 * m + 4
    BY <1>3
  <2>3. QED
    BY <1>3, <2>1, <2>2
<1> HIDE DEF d
<1>5. \A i \in 1..(4 * m) : d[i] = c[i]
  BY <1>3, <1>4
<1>6. ASSUME NEW j \in 1..m
      PROVE  /\ d[4 * j - 2] = s[j] /\ d[4 * j - 1] = ":" /\ d[4 * j] = ValueOf(s[j])
             /\ d[4 * j + 1] = comma
  <2>1. 4 * j - 2 \in 1..(4 * m) /\ 4 * j - 1 \in 1..(4 * m) /\ 4 * j \in 1..(4 * m)
    OBVIOUS
  <2>2. d[4 * j - 2] = s[j] /\ d[4 * j - 1] = ":" /\ d[4 * j] = ValueOf(s[j])
    BY <1>2, <1>5, <2>1, Zenon
  <2>3. CASE j < m
    <3>1. 4 * j + 1 \in 1..(4 * m)
      BY <2>3
    <3>2. d[4 * j + 1] = comma
      BY <1>2, <1>5, <2>3, <3>1, Zenon
    <3>3. QED
      BY <2>2, <3>2
  <2>4. CASE ~(j < m)
    <3>1. j = m /\ 4 * m + 1 \in 1..(4 * m + 1)
      BY <2>4
    <3>2. d[4 * m + 1] = a[4 * m + 1]
      BY <1>4, <3>1, Zenon
    <3>3. QED
      BY <1>3, <2>2, <3>1, <3>2, Zenon
  <2>5. QED
    BY <2>3, <2>4
<1>7. d[1] = "{"
  <2>1. 1 \in 1..(4 * m)
    OBVIOUS
  <2>2. QED
    BY <1>2, <1>5, <2>1, Zenon
<1>8. Begun(d, s, m + 1)
  <2> DEFINE n == m + 1
  <2>1. Len(d) = 4 * n /\ 4 * m + 2 = 4 * n - 2 /\ 4 * m + 3 = 4 * n - 1 /\ 4 * m + 4 = 4 * n
    BY <1>4
  <2>2. d[4 * n - 2] = s[n] /\ d[4 * n - 1] = ":" /\ d[4 * n] = ValueOf(s[n])
    BY <1>4, <2>1 DEF f
  <2>3. \A j \in 1..n : (j \in 1..m /\ j < n) \/ (j = n /\ ~(j < n))
    OBVIOUS
  <2> HIDE DEF n
  <2>4. \A j \in 1..n : /\ d[4 * j - 2] = s[j] /\ d[4 * j - 1] = ":" /\ d[4 * j] = ValueOf(s[j])
                        /\ (j < n => d[4 * j + 1] = comma)
    BY <1>6, <2>2, <2>3, Zenon
  <2>5. Begun(d, s, n)
    BY <1>4, <1>7, <2>1, <2>4 DEF Begun, comma
  <2>6. QED
    BY <2>5 DEF n
<1>9. QED
  BY <1>8 DEF d, a, f, comma

\* Where the tokens of a command are.
LEMMA CommandAt ==
  ASSUME NEW s \in OrderedFields
  PROVE  LET c == CommandOf(s) IN
         /\ c \in Seq(Tokens) /\ Len(c) = 22 /\ c[1] = "{" /\ c[21] = "}" /\ c[22] = "end"
         /\ \A j \in 1..5 : c[4 * j - 2] = s[j] /\ c[4 * j - 1] = ":" /\ c[4 * j] = ValueOf(s[j])
         /\ \A j \in 1..4 : c[4 * j + 1] = ","
<1>1. PICK b1 : b1 = <<"{">> \o MemberOf(s[1])
  OBVIOUS
<1>2. PICK b2 : b2 = b1 \o <<",">> \o MemberOf(s[2])
  OBVIOUS
<1>3. PICK b3 : b3 = b2 \o <<",">> \o MemberOf(s[3])
  OBVIOUS
<1>4. PICK b4 : b4 = b3 \o <<",">> \o MemberOf(s[4])
  OBVIOUS
<1>5. PICK b5 : b5 = b4 \o <<",">> \o MemberOf(s[5])
  OBVIOUS
<1>6. Begun(b1, s, 1)
  BY <1>1, FirstMember, Zenon
<1>7. Begun(b2, s, 2)
  <2>1. 1 \in 1..4 /\ 1 + 1 = 2
    OBVIOUS
  <2>2. Begun(b1 \o <<",">> \o MemberOf(s[1 + 1]), s, 1 + 1)
    BY <1>6, <2>1, NextMember, Zenon
  <2>3. QED
    BY <1>2, <2>1, <2>2, Zenon
<1>8. Begun(b3, s, 3)
  <2>1. 2 \in 1..4 /\ 2 + 1 = 3
    OBVIOUS
  <2>2. Begun(b2 \o <<",">> \o MemberOf(s[2 + 1]), s, 2 + 1)
    BY <1>7, <2>1, NextMember, Zenon
  <2>3. QED
    BY <1>3, <2>1, <2>2, Zenon
<1>9. Begun(b4, s, 4)
  <2>1. 3 \in 1..4 /\ 3 + 1 = 4
    OBVIOUS
  <2>2. Begun(b3 \o <<",">> \o MemberOf(s[3 + 1]), s, 3 + 1)
    BY <1>8, <2>1, NextMember, Zenon
  <2>3. QED
    BY <1>4, <2>1, <2>2, Zenon
<1>10. Begun(b5, s, 5)
  <2>1. 4 \in 1..4 /\ 4 + 1 = 5
    OBVIOUS
  <2>2. Begun(b4 \o <<",">> \o MemberOf(s[4 + 1]), s, 4 + 1)
    BY <1>9, <2>1, NextMember, Zenon
  <2>3. QED
    BY <1>5, <2>1, <2>2, Zenon
<1> DEFINE close == "}"
           end == "end"
           e == <<close, end>>
           c == b5 \o e
<1>11. close \in Tokens /\ end \in Tokens
  BY TokenKinds
<1>12. c = CommandOf(s)
  BY <1>1, <1>2, <1>3, <1>4, <1>5, Zenon DEF CommandOf
<1> HIDE DEF close, end
<1>13. e \in Seq(Tokens) /\ Len(e) = 2 /\ e[1] = close /\ e[2] = end
  BY <1>11
<1> HIDE DEF e
<1>14. b5 \in Seq(Tokens) /\ Len(b5) = 20 /\ b5[1] = "{"
       /\ (\A j \in 1..5 : b5[4 * j - 2] = s[j] /\ b5[4 * j - 1] = ":" /\ b5[4 * j] = ValueOf(s[j]))
       /\ \A j \in 1..5 : j < 5 => b5[4 * j + 1] = ","
  <2>1. 4 * 5 = 20
    OBVIOUS
  <2>2. QED
    BY <1>10, <2>1, Zenon DEF Begun
<1>15. /\ c \in Seq(Tokens) /\ Len(c) = Len(b5) + Len(e)
       /\ (\A i \in 1..Len(b5) : c[i] = b5[i]) /\ \A i \in 1..Len(e) : c[Len(b5) + i] = e[i]
  BY <1>13, <1>14, GlueTokens
<1> HIDE DEF c
<1>16. /\ Len(c) = 22 /\ (\A i \in 1..20 : c[i] = b5[i]) /\ c[21] = close /\ c[22] = end
  <2>0. Len(b5) = 20 /\ Len(e) = 2
    BY <1>13, <1>14, Zenon
  <2>1. Len(b5) + 1 = 21 /\ Len(b5) + 2 = 22 /\ Len(b5) + Len(e) = 22 /\ 1 \in 1..Len(e) /\ 2 \in 1..Len(e)
    BY <2>0
  <2>2. c[21] = e[1] /\ c[22] = e[2]
    BY <1>15, <2>1, Zenon
  <2>3. QED
    BY <1>13, <1>15, <2>0, <2>1, <2>2, Zenon
<1>17. ASSUME NEW j \in 1..5
       PROVE c[4 * j - 2] = s[j] /\ c[4 * j - 1] = ":" /\ c[4 * j] = ValueOf(s[j])
  <2>1. 4 * j - 2 \in 1..20 /\ 4 * j - 1 \in 1..20 /\ 4 * j \in 1..20
    OBVIOUS
  <2>2. QED
    BY <1>14, <1>16, <2>1, Zenon
<1>18. ASSUME NEW j \in 1..4 PROVE c[4 * j + 1] = ","
  <2>1. 4 * j + 1 \in 1..20 /\ j \in 1..5 /\ j < 5
    OBVIOUS
  <2>2. QED
    BY <1>14, <1>16, <2>1, Zenon
<1>19. c[1] = "{"
  <2>1. 1 \in 1..20
    OBVIOUS
  <2>2. QED
    BY <1>14, <1>16, <2>1, Zenon
<1>20. QED
  BY <1>12, <1>15, <1>16, <1>17, <1>18, <1>19, Zenon DEF close, end

\* What one token more leaves as it was.
LEMMA Kept ==
  ASSUME NEW r \in Seq(Tokens), NEW t \in Tokens, NEW m \in Nat, 4 * m - 1 <= Len(r), Len(r) > 0
  PROVE  /\ Append(r, t) \in Seq(Tokens) /\ Len(Append(r, t)) = Len(r) + 1
         /\ Append(r, t)[Len(r) + 1] = t
         /\ \A k \in 1..Len(r) : Append(r, t)[k] = r[k]
         /\ Members(r, m) => Members(Append(r, t), m)
         /\ Keys(Append(r, t), m) = Keys(r, m)
         /\ Len(r) >= 4 * m => (Judged(Append(r, t), m) <=> Judged(r, m))
<1> DEFINE q == Append(r, t)
           n == Len(r)
<1>1. /\ q \in Seq(Tokens) /\ Len(q) = n + 1 /\ q[n + 1] = t /\ n \in Nat /\ 4 * m - 1 <= n
      /\ \A k \in 1..n : q[k] = r[k]
  <2> DEFINE T == Tokens
  <2> HIDE DEF T
  <2>1. r \in Seq(T) /\ t \in T
    BY DEF T
  <2>2. Append(r, t) \in Seq(T) /\ Len(Append(r, t)) = Len(r) + 1 /\ Append(r, t)[Len(r) + 1] = t
        /\ Len(r) \in Nat /\ \A k \in 1..Len(r) : Append(r, t)[k] = r[k]
    BY <2>1, AppendProperties
  <2>3. QED
    BY <2>2 DEF T
<1> HIDE DEF q, n
<1>2. \A j \in 1..m : 4 * j - 2 \in 1..n /\ 4 * j - 1 \in 1..n /\ (j < m => 4 * j + 1 \in 1..n)
                      /\ (n >= 4 * m => 4 * j \in 1..n /\ 4 * j <= n + 1)
  BY <1>1
<1>3. \A j \in 1..m : q[4 * j - 2] = r[4 * j - 2] /\ q[4 * j - 1] = r[4 * j - 1]
                      /\ (j < m => q[4 * j + 1] = r[4 * j + 1])
                      /\ (n >= 4 * m => q[4 * j] = r[4 * j])
  BY <1>1, <1>2, Zenon
<1>4. Members(r, m) => Members(q, m)
  <2>1. \A i, j \in 1..m : q[4 * i - 2] = q[4 * j - 2] <=> r[4 * i - 2] = r[4 * j - 2]
    BY <1>3, Zenon
  <2>2. QED
    BY <1>3, <2>1, Zenon DEF Members
<1>5. Keys(q, m) = Keys(r, m)
  BY <1>3, Zenon DEF Keys
<1>6. n >= 4 * m => (Judged(q, m) <=> Judged(r, m))
  <2>1. n >= 4 * m => \A j \in 1..m : 4 * j <= n /\ 4 * j <= n + 1
    BY <1>1
  <2>2. Len(q) = n + 1 /\ Len(r) = n
    BY <1>1 DEF n
  <2>3. QED
    BY <1>3, <2>1, <2>2, Zenon DEF Judged
<1>7. QED
  BY <1>1, <1>4, <1>5, <1>6 DEF q, n

\* The keys of a whole object are all there are, each once.
LEMMA FiveKeys ==
  ASSUME NEW r, NEW m \in Nat, Members(r, m)
  PROVE  Keys(r, m) = Fields <=> m = 5
<1> DEFINE k(j) == r[4 * j - 2]
<1>1. /\ \A j \in 1..m : k(j) \in Fields
      /\ \A i, j \in 1..m : k(i) = k(j) => i = j
      /\ Keys(r, m) = {k(j) : j \in 1..m}
  BY DEF Members, Keys
<1> HIDE DEF k
<1>2. CASE m < 5
  <2>1. Keys(r, m) \subseteq {k(1), k(2), k(3), k(4)}
    <3>1. \A j \in 1..m : j = 1 \/ j = 2 \/ j = 3 \/ j = 4
      BY <1>2
    <3>2. QED
      BY <1>1, <3>1
  <2>2. Fields \subseteq {k(1), k(2), k(3), k(4)} => FALSE
    BY DEF Fields
  <2>3. QED
    BY <1>2, <2>1, <2>2
<1>3. CASE m = 5
  <2>1. 1 \in 1..m /\ 2 \in 1..m /\ 3 \in 1..m /\ 4 \in 1..m /\ 5 \in 1..m
    BY <1>3
  <2>2. /\ k(1) # k(2) /\ k(1) # k(3) /\ k(1) # k(4) /\ k(1) # k(5) /\ k(2) # k(3)
        /\ k(2) # k(4) /\ k(2) # k(5) /\ k(3) # k(4) /\ k(3) # k(5) /\ k(4) # k(5)
    <3>1. /\ 1 # 2 /\ 1 # 3 /\ 1 # 4 /\ 1 # 5 /\ 2 # 3 /\ 2 # 4 /\ 2 # 5 /\ 3 # 4 /\ 3 # 5 /\ 4 # 5
      OBVIOUS
    <3>2. QED
      BY <1>1, <2>1, <3>1, Zenon
  <2>3. k(1) \in Fields /\ k(2) \in Fields /\ k(3) \in Fields /\ k(4) \in Fields /\ k(5) \in Fields
    BY <1>1, <2>1
  <2>4. Fields \subseteq {k(1), k(2), k(3), k(4), k(5)}
    BY <2>2, <2>3 DEF Fields
  <2>5. {k(1), k(2), k(3), k(4), k(5)} \subseteq Keys(r, m) /\ Keys(r, m) \subseteq Fields
    BY <1>1, <2>1
  <2>6. QED
    BY <1>3, <2>4, <2>5
<1>4. CASE m > 5
  <2>1. 1 \in 1..m /\ 2 \in 1..m /\ 3 \in 1..m /\ 4 \in 1..m /\ 5 \in 1..m /\ 6 \in 1..m
    BY <1>4
  <2>2. /\ k(1) # k(2) /\ k(1) # k(3) /\ k(1) # k(4) /\ k(1) # k(5) /\ k(1) # k(6) /\ k(2) # k(3)
        /\ k(2) # k(4) /\ k(2) # k(5) /\ k(2) # k(6) /\ k(3) # k(4) /\ k(3) # k(5) /\ k(3) # k(6)
        /\ k(4) # k(5) /\ k(4) # k(6) /\ k(5) # k(6)
    <3>1. /\ 1 # 2 /\ 1 # 3 /\ 1 # 4 /\ 1 # 5 /\ 1 # 6 /\ 2 # 3 /\ 2 # 4 /\ 2 # 5 /\ 2 # 6
          /\ 3 # 4 /\ 3 # 5 /\ 3 # 6 /\ 4 # 5 /\ 4 # 6 /\ 5 # 6
      OBVIOUS
    <3>2. QED
      BY <1>1, <2>1, <3>1, Zenon
  <2>3. k(1) \in Fields /\ k(2) \in Fields /\ k(3) \in Fields
        /\ k(4) \in Fields /\ k(5) \in Fields /\ k(6) \in Fields
    BY <1>1, <2>1
  <2>4. FALSE
    BY <2>2, <2>3 DEF Fields
  <2>5. QED
    BY <2>4
<1>5. QED
  BY <1>2, <1>3, <1>4

\* Which texts a sequence of tokens begins.
LEMMA PrefixOf ==
  ASSUME NEW r \in Seq(Tokens), IsCommandPrefix(r)
  PROVE  \E s \in OrderedFields :
           /\ Len(r) <= 22 /\ \A k \in 1..Len(r) : r[k] = CommandOf(s)[k]
<1>1. PICK s \in OrderedFields : LET c == CommandOf(s) IN Len(r) <= Len(c) /\ SubSeq(c, 1, Len(r)) = r
  BY DEF IsCommandPrefix, CommandTexts, CommandOf
<1> DEFINE c == CommandOf(s)
           T == Tokens
           n == Len(r)
<1>2. c \in Seq(T) /\ Len(c) = 22
  BY CommandAt
<1>3. n <= Len(c) /\ SubSeq(c, 1, n) = r /\ n \in Nat
  BY <1>1
<1> HIDE DEF c, T, n
<1>4. \A k \in 1..n : SubSeq(c, 1, n)[k] = c[k]
  BY <1>2, <1>3
<1>5. n <= 22 /\ \A k \in 1..n : r[k] = c[k]
  BY <1>2, <1>3, <1>4
<1>6. QED
  BY <1>5 DEF c, n

\* A position of a command belongs to a member, or to the braces and the end.
LEMMA TokenPlaces ==
  /\ \A j \in 1..5 : 4 * j <= 22 /\ (j < 5 => j \in 1..4)
  /\ \A k \in 1..22 : k \in {1, 21, 22} \/ \E j \in 1..5 : k = 4 * j - 2 \/ k = 4 * j - 1 \/ k = 4 * j
                                                       \/ (j < 5 /\ k = 4 * j + 1)
<1>1. \A j \in 1..5 : 4 * j <= 22 /\ (j < 5 => j \in 1..4)
  OBVIOUS
<1>2. ASSUME NEW k \in 2..20
      PROVE  \E j \in 1..5 : k = 4 * j - 2 \/ k = 4 * j - 1 \/ k = 4 * j \/ (j < 5 /\ k = 4 * j + 1)
  <2> DEFINE j == (k + 2) \div 4
  <2>1. j \in 1..5 /\ (k = 4 * j - 2 \/ k = 4 * j - 1 \/ k = 4 * j \/ (j < 5 /\ k = 4 * j + 1))
    BY SMT
  <2> HIDE DEF j
  <2>2. QED
    BY <2>1
<1>3. QED
  BY <1>1, <1>2

\* A text whose tokens are those of a command is one.
LEMMA WholeCommand ==
  ASSUME NEW r \in Seq(Tokens), Len(r) = 22, r[1] = "{", r[21] = "}", r[22] = "end",
         Members(r, 5), Judged(r, 5)
  PROVE  r \in CommandTexts
<1> DEFINE s == [j \in 1..5 |-> r[4 * j - 2]]
           c == CommandOf(s)
           T == Tokens
<1>1. s \in OrderedFields
  BY DEF Members, OrderedFields
<1>2. \A j \in 1..5 : s[j] = r[4 * j - 2]
  OBVIOUS
<1> HIDE DEF s
<1>3. /\ c \in Seq(T) /\ Len(c) = 22 /\ c[1] = "{" /\ c[21] = "}" /\ c[22] = "end"
      /\ (\A j \in 1..5 : c[4 * j - 2] = s[j] /\ c[4 * j - 1] = ":" /\ c[4 * j] = ValueOf(s[j]))
      /\ \A j \in 1..4 : c[4 * j + 1] = ","
  BY <1>1, CommandAt
<1>4. c \in CommandTexts
  BY <1>1 DEF CommandTexts, CommandOf
<1> HIDE DEF c, T
<1>5. \A j \in 1..5 : c[4 * j - 2] = r[4 * j - 2] /\ c[4 * j - 1] = r[4 * j - 1] /\ c[4 * j] = r[4 * j]
                      /\ (j < 5 => c[4 * j + 1] = r[4 * j + 1])
  <2>1. TAKE j \in 1..5
  <2>2. 4 * j <= Len(r) /\ (j < 5 => j \in 1..4)
    <3>1. 4 * j <= 22 /\ (j < 5 => j \in 1..4)
      BY TokenPlaces
    <3>2. QED
      BY <3>1
  <2>3. r[4 * j - 1] = ":" /\ (j < 5 => r[4 * j + 1] = ",") /\ r[4 * j] = ValueOf(r[4 * j - 2])
    BY <2>2, Zenon DEF Members, Judged
  <2>4. QED
    BY <1>2, <1>3, <2>2, <2>3, Zenon
<1>6. ASSUME NEW k \in 1..22 PROVE r[k] = c[k]
  <2>1. CASE k \in {1, 21, 22}
    <3>1. k = 1 \/ k = 21 \/ k = 22
      BY <2>1
    <3>2. QED
      BY <1>3, <3>1, Zenon
  <2>2. CASE \E j \in 1..5 : k = 4 * j - 2 \/ k = 4 * j - 1 \/ k = 4 * j \/ (j < 5 /\ k = 4 * j + 1)
    BY <1>5, <2>2, Zenon
  <2>3. QED
    BY <2>1, <2>2, TokenPlaces, Zenon
<1>7. r = c
  <2>1. r \in Seq(T)
    BY DEF T
  <2>2. QED
    BY <1>3, <1>6, <2>1, SeqEqual
<1>8. QED
  BY <1>4, <1>7

\* What is to be shown, and what is known, of a parser at each place.
Shape(p, r, m) ==
  Members(r, m) /\ p.fields = Keys(r, m) /\ (p.valid <=> Judged(r, m))

LEMMA Places ==
  ASSUME NEW p, NEW r, NEW m \in Nat
  PROVE  /\ p.pc = "open" => (Place(p, r, m) <=> Len(r) = 0 /\ m = 0 /\ Shape(p, r, m))
         /\ p.pc = "key" => (Place(p, r, m) <=> /\ Len(r) = 4 * m + 1 /\ r[1] = "{"
                                                /\ (m > 0 => r[4 * m + 1] = ",") /\ Shape(p, r, m))
         /\ p.pc = "colon" => (Place(p, r, m) <=> /\ Len(r) = 4 * m + 2 /\ r[1] = "{"
                                                  /\ (m > 0 => r[4 * m + 1] = ",")
                                                  /\ p.key = r[4 * m + 2] /\ Shape(p, r, m))
         /\ p.pc = "value" => (Place(p, r, m) <=> /\ Len(r) = 4 * m - 1 /\ m > 0 /\ r[1] = "{"
                                                  /\ p.key = r[4 * m - 2] /\ Shape(p, r, m))
         /\ p.pc = "next" => (Place(p, r, m) <=> Len(r) = 4 * m /\ m > 0 /\ r[1] = "{" /\ Shape(p, r, m))
         /\ p.pc = "closed" => (Place(p, r, m) <=> /\ Len(r) = 4 * m + 1 /\ m > 0 /\ r[1] = "{"
                                                   /\ r[4 * m + 1] = "}" /\ Shape(p, r, m))
<1> DEFINE S == Members(r, m) /\ p.fields = Keys(r, m) /\ (p.valid <=> Judged(r, m))
<1>1. Place(p, r, m) <=>
        /\ Len(r) = ReadLength(p.pc, m)
        /\ (p.pc = "open" => m = 0) /\ (p.pc \in {"value", "next", "closed"} => m > 0)
        /\ (p.pc # "open" => r[1] = "{")
        /\ (p.pc \in {"key", "colon"} /\ m > 0 => r[4 * m + 1] = ",")
        /\ (p.pc = "colon" => p.key = r[4 * m + 2])
        /\ (p.pc = "value" => p.key = r[4 * m - 2])
        /\ (p.pc = "closed" => r[4 * m + 1] = "}")
        /\ S
  BY DEF Place
<1>2. Shape(p, r, m) <=> S
  BY DEF Shape
<1> HIDE DEF S
<1>3. /\ ReadLength("open", m) = 0 /\ ReadLength("key", m) = 4 * m + 1 /\ ReadLength("colon", m) = 4 * m + 2
      /\ ReadLength("value", m) = 4 * m - 1 /\ ReadLength("next", m) = 4 * m
      /\ ReadLength("closed", m) = 4 * m + 1
  BY DEF ReadLength
<1> DEFINE pc == p.pc
<1>4. p.pc = pc
  OBVIOUS
<1> HIDE DEF pc
<1>5. CASE pc = "open"
  BY <1>1, <1>2, <1>3, <1>4, <1>5
<1>6. CASE pc = "key"
  BY <1>1, <1>2, <1>3, <1>4, <1>6
<1>7. CASE pc = "colon"
  BY <1>1, <1>2, <1>3, <1>4, <1>7
<1>8. CASE pc = "value"
  BY <1>1, <1>2, <1>3, <1>4, <1>8
<1>9. CASE pc = "next"
  BY <1>1, <1>2, <1>3, <1>4, <1>9
<1>10. CASE pc = "closed"
  BY <1>1, <1>2, <1>3, <1>4, <1>10
<1>11. CASE pc \notin Reading
  BY <1>4, <1>11 DEF Reading
<1>12. QED
  BY <1>5, <1>6, <1>7, <1>8, <1>9, <1>10, <1>11 DEF Reading

\* Where tokens are counted.
LEMMA Counts ==
  ASSUME NEW m \in Nat, NEW n \in Nat
  PROVE  /\ n = 4 * m + 1 => /\ 4 * m - 1 <= n /\ n > 0 /\ n >= 4 * m /\ n + 1 = 4 * m + 2
                             /\ 4 * m + 1 \in 1..n /\ 1 \in 1..n
         /\ n = 4 * m + 2 => /\ 4 * m - 1 <= n /\ n > 0 /\ n >= 4 * m /\ n + 1 = 4 * m + 3
                             /\ 4 * m + 1 \in 1..n /\ 4 * m + 2 \in 1..n /\ 1 \in 1..n
         /\ n = 4 * m - 1 => 4 * m - 1 <= n /\ n + 1 = 4 * m
         /\ n = 4 * m - 1 /\ m > 0 => n > 0 /\ 1 \in 1..n
         /\ n = 4 * m => 4 * m - 1 <= n /\ n >= 4 * m /\ n + 1 = 4 * m + 1
         /\ n = 4 * m /\ m > 0 => n > 0 /\ 1 \in 1..n
         /\ m <= 4 => m + 1 \in 1..5
         /\ 4 * (m + 1) - 2 = 4 * m + 2 /\ 4 * (m + 1) - 1 = 4 * m + 3 /\ 4 * (m + 1) = 4 * m + 4
         /\ 4 * m + 2 <= 22 => m <= 5
         /\ 4 * m + 3 <= 22 => m <= 4
         /\ 4 * m + 1 <= 22 => m <= 5
         /\ 4 * m <= 22 => m <= 5
         /\ m <= 5 /\ m # 5 => m <= 4
         /\ m <= 5 /\ m > 0 => m \in 1..5
OBVIOUS

\* What the tokens of a command's beginning are.
Like(q, s) ==
  /\ Len(q) <= 22 /\ (Len(q) >= 1 => q[1] = "{")
  /\ \A j \in 1..5 : /\ 4 * j - 2 <= Len(q) => q[4 * j - 2] = s[j]
                     /\ 4 * j <= Len(q) => q[4 * j] = ValueOf(s[j])
                     /\ 4 * j - 1 <= Len(q) => q[4 * j - 1] = ":"
                     /\ j < 5 /\ 4 * j + 1 <= Len(q) => q[4 * j + 1] = ","
  /\ (Len(q) >= 21 => q[21] = "}") /\ (Len(q) >= 22 => q[22] = "end")

LEMMA PrefixIsLike ==
  ASSUME NEW q \in Seq(Tokens), IsCommandPrefix(q)
  PROVE  \E s \in OrderedFields : Like(q, s)
<1>1. PICK s \in OrderedFields : Len(q) <= 22 /\ \A k \in 1..Len(q) : q[k] = CommandOf(s)[k]
  BY PrefixOf
<1> DEFINE c == CommandOf(s)
           n == Len(q)
<1>2. /\ c[1] = "{" /\ c[21] = "}" /\ c[22] = "end"
      /\ (\A j \in 1..5 : c[4 * j - 2] = s[j] /\ c[4 * j - 1] = ":" /\ c[4 * j] = ValueOf(s[j]))
      /\ \A j \in 1..4 : c[4 * j + 1] = ","
  BY CommandAt
<1>3. n \in Nat /\ n <= 22 /\ \A k \in 1..n : q[k] = c[k]
  BY <1>1
<1> HIDE DEF c, n
<1>4. /\ \A k \in {1, 21, 22} : k <= n => k \in 1..n
      /\ \A j \in 1..5 : /\ 4 * j - 2 <= n => 4 * j - 2 \in 1..n
                         /\ 4 * j <= n => 4 * j \in 1..n
                         /\ 4 * j - 1 <= n => 4 * j - 1 \in 1..n
                         /\ j < 5 /\ 4 * j + 1 <= n => 4 * j + 1 \in 1..n /\ j \in 1..4
  BY <1>3
<1>5. \A j \in 1..5 : /\ 4 * j - 2 <= n => q[4 * j - 2] = s[j]
                      /\ 4 * j <= n => q[4 * j] = ValueOf(s[j])
                      /\ 4 * j - 1 <= n => q[4 * j - 1] = ":"
                      /\ j < 5 /\ 4 * j + 1 <= n => q[4 * j + 1] = ","
  BY <1>2, <1>3, <1>4, Zenon
<1>6. (1 <= n => q[1] = "{") /\ (21 <= n => q[21] = "}") /\ (22 <= n => q[22] = "end")
  <2>1. (1 <= n => 1 \in 1..n) /\ (21 <= n => 21 \in 1..n) /\ (22 <= n => 22 \in 1..n)
    BY <1>4
  <2>2. QED
    BY <1>2, <1>3, <2>1, Zenon
<1>7. (n >= 1 <=> 1 <= n) /\ (n >= 21 <=> 21 <= n) /\ (n >= 22 <=> 22 <= n)
  BY <1>3
<1>8. Like(q, s)
  BY <1>3, <1>5, <1>6, <1>7, Zenon DEF Like, n
<1>9. QED
  BY <1>8

\* The parser when it has read one token more.
After(t) ==
  CASE parser.pc = "open"  -> To(IF t = "{" THEN "key" ELSE "error")
    [] parser.pc = "key"   -> IF t \in Fields \cup {"text"}
                              THEN [To("colon") EXCEPT !.key = t] ELSE To("error")
    [] parser.pc = "colon" -> Colon(t)
    [] parser.pc = "value" -> Value(t)
    [] parser.pc = "next"  -> To(CASE t = "," -> "key" [] t = "}" -> "closed" [] OTHER -> "error")
    [] parser.pc = "closed" -> To(IF t = "end" /\ parser.fields = Fields /\ parser.valid
                                  THEN "ok" ELSE "error")

Fine(p, q) ==
  /\ p.pc \in Reading => \E m \in Nat : Place(p, q, m)
  /\ p.pc = "ok" => q \in CommandTexts
  /\ p.pc = "error" => ~IsCommandPrefix(q)

LEMMA FineError ==
  ASSUME NEW p, NEW q, p.pc = "error", ~IsCommandPrefix(q)
  PROVE  Fine(p, q)
BY DEF Fine, Reading

LEMMA FineReading ==
  ASSUME NEW p, NEW q, p.pc \in Reading, NEW m \in Nat, Place(p, q, m)
  PROVE  Fine(p, q)
BY DEF Fine, Reading

LEMMA NameAdded ==
  ASSUME NEW t \in Tokens
  PROVE  /\ Append(<<>>, t) \in Seq(Tokens) /\ Len(Append(<<>>, t)) = 1 /\ Append(<<>>, t)[1] = t
<1> DEFINE T == Tokens
<1> HIDE DEF T
<1>1. t \in T
  BY DEF T
<1>2. Append(<<>>, t) \in Seq(T) /\ Len(Append(<<>>, t)) = 1 /\ Append(<<>>, t)[1] = t
  BY <1>1
<1>3. QED
  BY <1>2 DEF T

LEMMA StepOpen ==
  ASSUME parser \in Parsers, read \in Seq(Tokens), NEW t \in Tokens, NEW m \in Nat,
         Place(parser, read, m), parser.pc = "open"
  PROVE  Fine(After(t), Append(read, t))
<1>1. Len(read) = 0 /\ m = 0 /\ Shape(parser, read, 0)
  BY Places
<1>2. read = <<>>
  BY <1>1
<1> DEFINE q == Append(read, t)
           p == After(t)
<1>3. q \in Seq(Tokens) /\ Len(q) = 1 /\ q[1] = t
  BY <1>2, NameAdded
<1>4. p = To(IF t = "{" THEN "key" ELSE "error")
  BY DEF After
<1> HIDE DEF q, p
<1>5. CASE t = "{"
  <2>1. p.pc = "key" /\ p.fields = parser.fields /\ p.valid = parser.valid
    BY <1>4, <1>5 DEF To, Parsers
  <2>2. \A j \in 1..0 : FALSE
    OBVIOUS
  <2>3. Members(q, 0) /\ Judged(q, 0) /\ Judged(read, 0)
    BY <2>2, Zenon DEF Members, Judged
  <2>4. Keys(q, 0) = {} /\ Keys(read, 0) = {}
    BY <2>2 DEF Keys
  <2>5. Shape(p, q, 0)
    BY <1>1, <2>1, <2>3, <2>4, Zenon DEF Shape
  <2>6. 4 * 0 + 1 = 1 /\ ~(0 > 0) /\ 0 \in Nat
    OBVIOUS
  <2>7. Place(p, q, 0)
    BY <1>3, <1>5, <2>1, <2>5, <2>6, Places, Zenon
  <2>8. QED
    BY <2>1, <2>6, <2>7, Zenon DEF Fine, q, p
<1>6. CASE t # "{"
  <2>1. p.pc = "error"
    BY <1>4, <1>6 DEF To, Parsers
  <2>2. ~IsCommandPrefix(q)
    <3>1. SUFFICES ASSUME IsCommandPrefix(q) PROVE FALSE
      OBVIOUS
    <3>2. PICK s \in OrderedFields : Like(q, s)
      BY <1>3, <3>1, PrefixIsLike
    <3>3. 1 >= 1
      OBVIOUS
    <3>4. q[1] = "{"
      BY <1>3, <3>2, <3>3, Zenon DEF Like
    <3>5. QED
      BY <1>3, <1>6, <3>4
  <2>3. QED
    BY <2>1, <2>2, FineError DEF q, p
<1>7. QED
  BY <1>5, <1>6

LEMMA StepKey ==
  ASSUME parser \in Parsers, read \in Seq(Tokens), NEW t \in Tokens, NEW m \in Nat,
         Place(parser, read, m), parser.pc = "key"
  PROVE  Fine(After(t), Append(read, t))
<1> DEFINE q == Append(read, t)
           p == After(t)
           n == Len(read)
<1>1. Len(read) = 4 * m + 1 /\ read[1] = "{" /\ (m > 0 => read[4 * m + 1] = ",") /\ Shape(parser, read, m)
  BY Places
<1>2. p = IF t \in Fields \cup {"text"} THEN [To("colon") EXCEPT !.key = t] ELSE To("error")
  BY DEF After
<1>3. n = 4 * m + 1 /\ n \in Nat
  <2>1. n = 4 * m + 1
    BY <1>1, Zenon
  <2> HIDE DEF n
  <2>2. QED
    BY <2>1
<1> HIDE DEF q, p, n
<1>4. 4 * m - 1 <= n /\ n > 0 /\ n >= 4 * m /\ n + 1 = 4 * m + 2 /\ 4 * m + 1 \in 1..n /\ 1 \in 1..n
  BY <1>3, Counts
<1>5. /\ q \in Seq(Tokens) /\ Len(q) = n + 1 /\ q[n + 1] = t
      /\ (\A k \in 1..n : q[k] = read[k]) /\ (Members(read, m) => Members(q, m))
      /\ Keys(q, m) = Keys(read, m) /\ (Judged(q, m) <=> Judged(read, m))
  BY <1>4, Kept, Zenon DEF q, n
<1>6. Len(q) = 4 * m + 2 /\ q[4 * m + 2] = t /\ q[4 * m + 1] = read[4 * m + 1] /\ q[1] = read[1]
  BY <1>4, <1>5, Zenon
<1>7. CASE t \in Fields \cup {"text"}
  <2>1. p.pc = "colon" /\ p.key = t /\ p.fields = parser.fields /\ p.valid = parser.valid
    BY <1>2, <1>7 DEF To, Parsers
  <2>2. Shape(p, q, m)
    BY <1>1, <1>5, <2>1, Zenon DEF Shape
  <2>3. Place(p, q, m)
    BY <1>1, <1>6, <2>1, <2>2, Places, Zenon
  <2>4. QED
    <3>1. p.pc \in Reading
      BY <2>1 DEF Reading
    <3>2. QED
      BY <2>3, <3>1, FineReading, Zenon DEF q, p
<1>8. CASE t \notin Fields \cup {"text"}
  <2>1. p.pc = "error"
    BY <1>2, <1>8 DEF To, Parsers
  <2>2. ~IsCommandPrefix(q)
    <3>1. SUFFICES ASSUME IsCommandPrefix(q) PROVE FALSE
      OBVIOUS
    <3>2. PICK s \in OrderedFields : Like(q, s)
      BY <1>5, <3>1, PrefixIsLike
    <3>3. 4 * m + 2 <= 22 /\ (4 * m + 2 >= 21 => q[21] = "}")
          /\ \A j \in 1..5 : 4 * j - 2 <= 4 * m + 2 => q[4 * j - 2] = s[j]
      BY <1>6, <3>2, Zenon DEF Like
    <3>4. m <= 5
      BY <3>3, Counts
    <3>5. m # 5
      <4>1. 4 * 5 + 1 = 21 /\ 4 * 5 + 2 >= 21 /\ 5 > 0
        OBVIOUS
      <4>2. m = 5 => q[21] = "," /\ q[21] = "}"
        BY <1>1, <1>6, <3>3, <4>1, Zenon
      <4>3. QED
        BY <4>2
    <3> DEFINE j == m + 1
    <3>6. j \in 1..5 /\ 4 * j - 2 <= 4 * m + 2 /\ 4 * j - 2 = 4 * m + 2
      BY <3>4, <3>5
    <3> HIDE DEF j
    <3>7. t = s[j]
      BY <1>6, <3>3, <3>6, Zenon
    <3>8. t \in Fields
      BY <3>6, <3>7, OrderedTyped, Zenon
    <3>9. QED
      BY <1>8, <3>8
  <2>3. QED
    BY <2>1, <2>2, FineError DEF q, p
<1>9. QED
  BY <1>7, <1>8

LEMMA StepColon ==
  ASSUME parser \in Parsers, read \in Seq(Tokens), NEW t \in Tokens, NEW m \in Nat,
         Place(parser, read, m), parser.pc = "colon"
  PROVE  Fine(After(t), Append(read, t))
<1> DEFINE q == Append(read, t)
           p == After(t)
           n == Len(read)
           l == m + 1
           key == parser.key
<1>1. /\ Len(read) = 4 * m + 2 /\ read[1] = "{" /\ (m > 0 => read[4 * m + 1] = ",")
      /\ parser.key = read[4 * m + 2] /\ Shape(parser, read, m)
  BY Places
<1>2. p = IF t = ":" /\ key \in Fields \ parser.fields
          THEN [To("value") EXCEPT !.fields = @ \cup {key}] ELSE To("error")
  BY DEF After, Colon
<1>3. n = 4 * m + 2 /\ n \in Nat
  <2>1. n = 4 * m + 2
    BY <1>1, Zenon
  <2> HIDE DEF n
  <2>2. QED
    BY <2>1
<1> HIDE DEF q, p, n
<1>4. /\ 4 * m - 1 <= n /\ n > 0 /\ n >= 4 * m /\ n + 1 = 4 * m + 3 /\ 4 * m + 1 \in 1..n
      /\ 4 * m + 2 \in 1..n /\ 1 \in 1..n
  BY <1>3, Counts
<1>5. /\ q \in Seq(Tokens) /\ Len(q) = n + 1 /\ q[n + 1] = t
      /\ (\A k \in 1..n : q[k] = read[k]) /\ (Members(read, m) => Members(q, m))
      /\ Keys(q, m) = Keys(read, m) /\ (Judged(q, m) <=> Judged(read, m))
  BY <1>4, Kept, Zenon DEF q, n
<1>6. /\ Len(q) = 4 * m + 3 /\ q[4 * m + 3] = t /\ q[4 * m + 2] = key /\ q[1] = "{"
      /\ (m > 0 => q[4 * m + 1] = ",")
  BY <1>1, <1>4, <1>5, Zenon
<1>7. Members(q, m) /\ parser.fields = Keys(q, m) /\ (parser.valid <=> Judged(q, m))
  BY <1>1, <1>5, Zenon DEF Shape
<1>8. /\ 4 * l - 2 = 4 * m + 2 /\ 4 * l - 1 = 4 * m + 3 /\ 4 * l = 4 * m + 4 /\ l \in Nat /\ l > 0
      /\ (\A j \in 1..l : (j \in 1..m /\ j < l) \/ j = l) /\ (\A j \in 1..m : j \in 1..l /\ j < l /\ j # l)
      /\ (\A j \in 1..m : j < m \/ (j = m /\ m > 0)) /\ l \in 1..l /\ ~(l < l) /\ ~(4 * m + 4 <= 4 * m + 3)
  OBVIOUS
<1> HIDE DEF l, key
<1>9. CASE t = ":" /\ key \in Fields \ parser.fields
  <2>1. p.pc = "value" /\ p.key = key /\ p.fields = parser.fields \cup {key} /\ p.valid = parser.valid
    BY <1>2, <1>9 DEF To, Parsers, key
  <2>2. Members(q, l)
    <3>1. \A j \in 1..m : q[4 * j - 2] \in Fields /\ q[4 * j - 1] = ":" /\ q[4 * j - 2] # key
                          /\ (j < m => q[4 * j + 1] = ",")
      <4>1. \A j \in 1..m : q[4 * j - 2] \in Keys(q, m)
        BY DEF Keys
      <4>2. \A x : x \in parser.fields => x # key
        BY <1>9
      <4>3. QED
        BY <1>7, <4>1, <4>2, Zenon DEF Members
    <3>2. \A i, j \in 1..m : q[4 * i - 2] = q[4 * j - 2] => i = j
      BY <1>7 DEF Members
    <3>3. q[4 * l - 2] = key /\ q[4 * l - 1] = ":" /\ key \in Fields
      BY <1>6, <1>8, <1>9, Zenon
    <3>4. \A j \in 1..l : q[4 * j - 2] \in Fields /\ q[4 * j - 1] = ":"
      BY <1>8, <3>1, <3>3, Zenon
    <3>5. \A i, j \in 1..l : q[4 * i - 2] = q[4 * j - 2] => i = j
      BY <1>8, <3>1, <3>2, <3>3, Zenon
    <3>6. \A j \in 1..l : j < l => q[4 * j + 1] = ","
      BY <1>6, <1>8, <3>1, Zenon
    <3>7. QED
      BY <3>4, <3>5, <3>6, Zenon DEF Members
  <2>3. Keys(q, l) = Keys(q, m) \cup {key}
    <3>1. q[4 * l - 2] = key
      BY <1>6, <1>8, Zenon
    <3>2. Keys(q, l) \subseteq Keys(q, m) \cup {key}
      BY <1>8, <3>1, Zenon DEF Keys
    <3>3. Keys(q, m) \cup {key} \subseteq Keys(q, l)
      BY <1>8, <3>1, Zenon DEF Keys
    <3>4. QED
      BY <3>2, <3>3
  <2>4. Judged(q, l) <=> Judged(q, m)
    <3>1. ~(4 * l <= Len(q))
      BY <1>6, <1>8, Zenon
    <3>2. QED
      BY <1>8, <3>1, Zenon DEF Judged
  <2>5. Shape(p, q, l)
    BY <1>7, <2>1, <2>2, <2>3, <2>4, Zenon DEF Shape
  <2>6. Len(q) = 4 * l - 1 /\ p.key = q[4 * l - 2]
    BY <1>6, <1>8, <2>1, Zenon
  <2>7. Place(p, q, l)
    BY <1>6, <1>8, <2>1, <2>5, <2>6, Places, Zenon
  <2>8. p.pc \in Reading
    BY <2>1 DEF Reading
  <2>9. QED
    BY <1>8, <2>7, <2>8, FineReading, Zenon DEF q, p
<1>10. CASE ~(t = ":" /\ key \in Fields \ parser.fields)
  <2>1. p.pc = "error"
    <3>1. p = To("error")
      BY <1>2, <1>10, Zenon
    <3>2. QED
      BY <3>1 DEF To, Parsers
  <2>2. ~IsCommandPrefix(q)
    <3>1. SUFFICES ASSUME IsCommandPrefix(q) PROVE FALSE
      OBVIOUS
    <3>2. PICK s \in OrderedFields : Like(q, s)
      BY <1>5, <3>1, PrefixIsLike
    <3>3. /\ 4 * m + 3 <= 22
          /\ \A j \in 1..5 : (4 * j - 2 <= 4 * m + 3 => q[4 * j - 2] = s[j])
                             /\ (4 * j - 1 <= 4 * m + 3 => q[4 * j - 1] = ":")
      BY <1>6, <3>2, Zenon DEF Like
    <3>4. m <= 4
      BY <3>3, Counts
    <3>5. l \in 1..5 /\ 4 * l - 2 <= 4 * m + 3 /\ 4 * l - 1 <= 4 * m + 3
      BY <3>4 DEF l
    <3>6. t = ":" /\ key = s[l]
      BY <1>6, <1>8, <3>3, <3>5, Zenon
    <3>7. key \in Fields
      BY <3>5, <3>6, OrderedTyped, Zenon
    <3>8. key \notin Keys(q, m)
      <4>1. \A j \in 1..m : j \in 1..5 /\ 4 * j - 2 <= 4 * m + 3
        BY <3>4
      <4>2. \A j \in 1..m : q[4 * j - 2] = s[j]
        BY <3>3, <4>1, Zenon
      <4>3. \A i, j \in 1..5 : s[i] = s[j] => i = j
        BY DEF OrderedFields
      <4>4. \A j \in 1..m : s[j] # s[l]
        BY <1>8, <3>5, <4>1, <4>3, Zenon
      <4>5. QED
        BY <3>6, <4>2, <4>4, Zenon DEF Keys
    <3>9. QED
      BY <1>7, <1>10, <3>6, <3>7, <3>8
  <2>3. QED
    BY <2>1, <2>2, FineError DEF q, p
<1>11. QED
  BY <1>9, <1>10

LEMMA StepValue ==
  ASSUME parser \in Parsers, read \in Seq(Tokens), NEW t \in Tokens, NEW m \in Nat,
         Place(parser, read, m), parser.pc = "value", Readable(t)
  PROVE  Fine(After(t), Append(read, t))
<1> DEFINE q == Append(read, t)
           p == After(t)
           n == Len(read)
           key == parser.key
<1>1. /\ Len(read) = 4 * m - 1 /\ m > 0 /\ read[1] = "{" /\ parser.key = read[4 * m - 2]
      /\ Shape(parser, read, m)
  BY Places
<1>2. p = Value(t)
  BY DEF After
<1>3. n = 4 * m - 1 /\ n \in Nat
  <2>1. n = 4 * m - 1
    BY <1>1, Zenon
  <2>2. n \in Nat
    OBVIOUS
  <2>3. QED
    BY <2>1, <2>2
<1> HIDE DEF q, p, n
<1>4. /\ 4 * m - 1 <= n /\ n > 0 /\ n + 1 = 4 * m /\ 1 \in 1..n /\ 4 * m - 2 \in 1..n
      /\ (\A j \in 1..m : j # m => 4 * j \in 1..n /\ 4 * j <= n /\ 4 * j <= 4 * m)
      /\ (\A j \in 1..m : 4 * j - 2 \in 1..n) /\ ~(4 * m <= n) /\ 4 * m <= 4 * m /\ m \in 1..m
  <2>1. m > 0
    BY <1>1, Zenon
  <2>2. QED
    BY <1>3, <2>1
<1>5. /\ q \in Seq(Tokens) /\ Len(q) = n + 1 /\ q[n + 1] = t
      /\ (\A k \in 1..n : q[k] = read[k]) /\ (Members(read, m) => Members(q, m))
      /\ Keys(q, m) = Keys(read, m)
  BY <1>4, Kept, Zenon DEF q, n
<1>6. Len(q) = 4 * m /\ q[4 * m] = t /\ q[4 * m - 2] = key /\ q[1] = "{"
  BY <1>1, <1>4, <1>5, Zenon
<1>7. Members(q, m) /\ parser.fields = Keys(q, m) /\ (parser.valid <=> Judged(read, m))
  BY <1>1, <1>5, Zenon DEF Shape
<1>8. Judged(q, m) <=> Judged(read, m) /\ t = ValueOf(key)
  <2>1. \A j \in 1..m : q[4 * j - 2] = read[4 * j - 2] /\ (j # m => q[4 * j] = read[4 * j])
    BY <1>4, <1>5, Zenon
  <2>2. Len(read) = n
    BY DEF n
  <2>3. \A j \in 1..m : 4 * j <= 4 * m
    BY <1>4
  <2>4. QED
    BY <1>4, <1>6, <2>1, <2>2, <2>3, Zenon DEF Judged
<1>9. key \in Fields
  <2>1. q[4 * m - 2] \in Fields
    BY <1>4, <1>7, Zenon DEF Members
  <2>2. QED
    BY <1>6, <2>1
<1>10. \/ p = To("next") /\ t = ValueOf(key)
       \/ p = [To("next") EXCEPT !.valid = FALSE] /\ t # ValueOf(key)
       \/ p = To("error") /\ t # ValueOf(key)
  <2> HIDE DEF key
  <2>1. key = parser.key
    BY DEF key
  <2>2. Value(t) = CASE key = "autoReboot" /\ t = "boolean" -> To("next")
                     [] key # "autoReboot" /\ t = "text"    -> To("next")
                     [] key \in {"url", "sha256"} /\ t = "wrongText" -> [To("next") EXCEPT !.valid = FALSE]
                     [] OTHER -> To("error")
    BY <2>1, Zenon DEF Value
  <2> DEFINE a == To("next")
             b == [To("next") EXCEPT !.valid = FALSE]
             e == To("error")
  <2>3. Value(t) = CASE key = "autoReboot" /\ t = "boolean" -> a
                     [] key # "autoReboot" /\ t = "text"    -> a
                     [] key \in {"url", "sha256"} /\ t = "wrongText" -> b
                     [] OTHER -> e
    BY <2>2, Zenon
  <2> HIDE DEF a, b, e
  <2>4. \/ Value(t) = a /\ t = ValueOf(key)
        \/ Value(t) = b /\ t # ValueOf(key)
        \/ Value(t) = e /\ t # ValueOf(key)
    BY <2>3 DEF ValueOf
  <2>5. QED
    BY <1>2, <2>4 DEF a, b, e
<1> HIDE DEF key
<1>11. ASSUME p.pc = "next", p.fields = parser.fields, p.valid <=> parser.valid /\ t = ValueOf(key)
       PROVE  Fine(p, q)
  <2>1. Shape(p, q, m)
    BY <1>7, <1>8, <1>11, Zenon DEF Shape
  <2>2. Place(p, q, m)
    BY <1>1, <1>6, <1>11, <2>1, Places, Zenon
  <2>3. p.pc \in Reading
    BY <1>11 DEF Reading
  <2>4. QED
    BY <2>2, <2>3, FineReading, Zenon
<1>12. CASE p = To("next") /\ t = ValueOf(key)
  <2>1. p.pc = "next" /\ p.fields = parser.fields /\ p.valid = parser.valid
    BY <1>12 DEF To, Parsers
  <2>2. QED
    BY <1>11, <1>12, <2>1 DEF q, p
<1>13. CASE p = [To("next") EXCEPT !.valid = FALSE] /\ t # ValueOf(key)
  <2>1. p.pc = "next" /\ p.fields = parser.fields /\ p.valid = FALSE
    BY <1>13 DEF To, Parsers
  <2>2. QED
    BY <1>11, <1>13, <2>1 DEF q, p
<1>14. CASE p = To("error") /\ t # ValueOf(key)
  <2>1. p.pc = "error"
    BY <1>14 DEF To, Parsers
  <2>2. ~IsCommandPrefix(q)
    <3>1. SUFFICES ASSUME IsCommandPrefix(q) PROVE FALSE
      OBVIOUS
    <3>2. PICK s \in OrderedFields : Like(q, s)
      BY <1>5, <3>1, PrefixIsLike
    <3>3. /\ 4 * m <= 22
          /\ \A j \in 1..5 : (4 * j - 2 <= 4 * m => q[4 * j - 2] = s[j])
                             /\ (4 * j <= 4 * m => q[4 * j] = ValueOf(s[j]))
      BY <1>6, <3>2, Zenon DEF Like
    <3>4. m \in 1..5 /\ 4 * m - 2 <= 4 * m
      BY <1>4, <3>3
    <3>5. t = ValueOf(s[m]) /\ key = s[m]
      BY <1>4, <1>6, <3>3, <3>4, Zenon DEF key
    <3>6. QED
      BY <1>14, <3>5
  <2>3. QED
    BY <2>1, <2>2, FineError DEF q, p
<1>15. QED
  BY <1>10, <1>12, <1>13, <1>14

LEMMA StepNext ==
  ASSUME parser \in Parsers, read \in Seq(Tokens), NEW t \in Tokens, NEW m \in Nat,
         Place(parser, read, m), parser.pc = "next"
  PROVE  Fine(After(t), Append(read, t))
<1> DEFINE q == Append(read, t)
           p == After(t)
           n == Len(read)
<1>1. Len(read) = 4 * m /\ m > 0 /\ read[1] = "{" /\ Shape(parser, read, m)
  BY Places
<1>2. p = To(CASE t = "," -> "key" [] t = "}" -> "closed" [] OTHER -> "error")
  BY DEF After
<1>3. n = 4 * m /\ n \in Nat
  <2>1. n = 4 * m
    BY <1>1, Zenon
  <2>2. n \in Nat
    OBVIOUS
  <2>3. QED
    BY <2>1, <2>2
<1> HIDE DEF q, p, n
<1>4. 4 * m - 1 <= n /\ n > 0 /\ n >= 4 * m /\ n + 1 = 4 * m + 1 /\ 1 \in 1..n
  <2>1. m > 0
    BY <1>1, Zenon
  <2>2. QED
    BY <1>3, <2>1
<1>5. /\ q \in Seq(Tokens) /\ Len(q) = n + 1 /\ q[n + 1] = t
      /\ (\A k \in 1..n : q[k] = read[k]) /\ (Members(read, m) => Members(q, m))
      /\ Keys(q, m) = Keys(read, m) /\ (Judged(q, m) <=> Judged(read, m))
  BY <1>4, Kept, Zenon DEF q, n
<1>6. Len(q) = 4 * m + 1 /\ q[4 * m + 1] = t /\ q[1] = "{"
  BY <1>1, <1>4, <1>5, Zenon
<1>7. CASE t \in {",", "}"}
  <2>1. p.pc = (IF t = "," THEN "key" ELSE "closed") /\ p.fields = parser.fields /\ p.valid = parser.valid
    BY <1>2, <1>7 DEF To, Parsers
  <2>2. Shape(p, q, m)
    BY <1>1, <1>5, <2>1, Zenon DEF Shape
  <2>3. \/ p.pc = "key" /\ t = ","
        \/ p.pc = "closed" /\ t = "}"
    BY <1>7, <2>1
  <2>4. Place(p, q, m)
    BY <1>1, <1>6, <2>2, <2>3, Places, Zenon
  <2>5. p.pc \in Reading
    BY <2>3 DEF Reading
  <2>6. QED
    BY <2>4, <2>5, FineReading, Zenon DEF q, p
<1>8. CASE t \notin {",", "}"}
  <2>1. p.pc = "error"
    BY <1>2, <1>8 DEF To, Parsers
  <2>2. ~IsCommandPrefix(q)
    <3>1. SUFFICES ASSUME IsCommandPrefix(q) PROVE FALSE
      OBVIOUS
    <3>2. PICK s \in OrderedFields : Like(q, s)
      BY <1>5, <3>1, PrefixIsLike
    <3>3. /\ 4 * m + 1 <= 22 /\ (4 * m + 1 >= 21 => q[21] = "}")
          /\ \A j \in 1..5 : j < 5 /\ 4 * j + 1 <= 4 * m + 1 => q[4 * j + 1] = ","
      BY <1>6, <3>2, Zenon DEF Like
    <3>4. m \in 1..5
      <4>1. m > 0
        BY <1>1, Zenon
      <4>2. 4 * m + 1 <= 22
        BY <3>3, Zenon
      <4>3. QED
        BY <4>1, <4>2
    <3>5. CASE m = 5
      <4>1. 4 * 5 + 1 = 21 /\ 21 >= 21
        OBVIOUS
      <4>2. t = "}"
        BY <1>6, <3>3, <3>5, <4>1, Zenon
      <4>3. QED
        BY <1>8, <4>2
    <3>6. CASE m # 5
      <4>1. m < 5 /\ 4 * m + 1 <= 4 * m + 1
        BY <3>4, <3>6
      <4>2. t = ","
        BY <1>6, <3>3, <3>4, <4>1, Zenon
      <4>3. QED
        BY <1>8, <4>2
    <3>7. QED
      BY <3>5, <3>6
  <2>3. QED
    BY <2>1, <2>2, FineError DEF q, p
<1>9. QED
  BY <1>7, <1>8

LEMMA StepClosed ==
  ASSUME parser \in Parsers, read \in Seq(Tokens), NEW t \in Tokens, NEW m \in Nat,
         Place(parser, read, m), parser.pc = "closed"
  PROVE  Fine(After(t), Append(read, t))
<1> DEFINE q == Append(read, t)
           p == After(t)
           n == Len(read)
<1>1. /\ Len(read) = 4 * m + 1 /\ m > 0 /\ read[1] = "{" /\ read[4 * m + 1] = "}"
      /\ Shape(parser, read, m)
  BY Places
<1>2. p = To(IF t = "end" /\ parser.fields = Fields /\ parser.valid THEN "ok" ELSE "error")
  BY DEF After
<1>3. n = 4 * m + 1 /\ n \in Nat
  <2>1. n = 4 * m + 1
    BY <1>1, Zenon
  <2>2. n \in Nat
    OBVIOUS
  <2>3. QED
    BY <2>1, <2>2
<1> HIDE DEF q, p, n
<1>4. 4 * m - 1 <= n /\ n > 0 /\ n >= 4 * m /\ n + 1 = 4 * m + 2 /\ 1 \in 1..n /\ 4 * m + 1 \in 1..n
  BY <1>3, Counts
<1>5. /\ q \in Seq(Tokens) /\ Len(q) = n + 1 /\ q[n + 1] = t
      /\ (\A k \in 1..n : q[k] = read[k]) /\ (Members(read, m) => Members(q, m))
      /\ Keys(q, m) = Keys(read, m) /\ (Judged(q, m) <=> Judged(read, m))
  BY <1>4, Kept, Zenon DEF q, n
<1>6. Len(q) = 4 * m + 2 /\ q[4 * m + 2] = t /\ q[4 * m + 1] = "}" /\ q[1] = "{"
  BY <1>1, <1>4, <1>5, Zenon
<1>7. Members(q, m) /\ parser.fields = Keys(q, m) /\ (parser.valid <=> Judged(q, m))
  BY <1>1, <1>5, Zenon DEF Shape
<1>8. Keys(q, m) = Fields <=> m = 5
  BY <1>7, FiveKeys
<1>9. 4 * 5 + 1 = 21 /\ 4 * 5 + 2 = 22 /\ 22 >= 22 /\ 22 >= 21
  OBVIOUS
<1>10. CASE t = "end" /\ parser.fields = Fields /\ parser.valid
  <2>1. p.pc = "ok"
    BY <1>2, <1>10 DEF To, Parsers
  <2>2. m = 5 /\ Judged(q, m)
    BY <1>7, <1>8, <1>10
  <2>3. q \in CommandTexts
    BY <1>5, <1>6, <1>7, <1>9, <1>10, <2>2, WholeCommand, Zenon
  <2>4. QED
    BY <2>1, <2>3 DEF Fine, Reading, q, p
<1>11. CASE ~(t = "end" /\ parser.fields = Fields /\ parser.valid)
  <2>1. p.pc = "error"
    <3>1. p = To("error")
      BY <1>2, <1>11, Zenon
    <3>2. QED
      BY <3>1 DEF To, Parsers
  <2>2. ~IsCommandPrefix(q)
    <3>1. SUFFICES ASSUME IsCommandPrefix(q) PROVE FALSE
      OBVIOUS
    <3>2. PICK s \in OrderedFields : Like(q, s)
      BY <1>5, <3>1, PrefixIsLike
    <3>3. /\ 4 * m + 2 <= 22 /\ (4 * m + 2 >= 22 => q[22] = "end")
          /\ \A j \in 1..5 : /\ 4 * j - 2 <= 4 * m + 2 => q[4 * j - 2] = s[j]
                             /\ 4 * j <= 4 * m + 2 => q[4 * j] = ValueOf(s[j])
                             /\ j < 5 /\ 4 * j + 1 <= 4 * m + 2 => q[4 * j + 1] = ","
      BY <1>6, <3>2, Zenon DEF Like
    <3>4. m \in 1..5
      <4>1. m > 0
        BY <1>1, Zenon
      <4>2. 4 * m + 2 <= 22
        BY <3>3, Zenon
      <4>3. QED
        BY <4>1, <4>2
    <3>5. m = 5
      <4>1. m # 5 => m < 5 /\ 4 * m + 1 <= 4 * m + 2
        BY <3>4
      <4>2. m # 5 => q[4 * m + 1] = ","
        BY <3>3, <3>4, <4>1, Zenon
      <4>3. QED
        BY <1>6, <4>2
    <3>6. t = "end"
      BY <1>6, <1>9, <3>3, <3>5, Zenon
    <3>7. Judged(q, m)
      <4>1. \A j \in 1..m : j \in 1..5 /\ 4 * j <= 4 * m + 2 /\ 4 * j - 2 <= 4 * m + 2
        BY <3>4
      <4>2. QED
        BY <3>3, <4>1, Zenon DEF Judged
    <3>8. QED
      BY <1>7, <1>8, <1>11, <3>5, <3>6, <3>7
  <2>3. QED
    BY <2>1, <2>2, FineError DEF q, p
<1>12. QED
  BY <1>10, <1>11

LEMMA AfterTyped ==
  ASSUME parser \in Parsers, parser.pc \in Reading, NEW t \in Tokens
  PROVE  After(t) \in Parsers
<1>1. \A pc \in Reading \cup {"ok", "error"} : To(pc) \in Parsers
  BY DEF To, Parsers
<1>2. /\ \A k \in Fields \cup {"text"} : [To("colon") EXCEPT !.key = k] \in Parsers
      /\ \A k \in Fields : [To("value") EXCEPT !.fields = @ \cup {k}] \in Parsers
      /\ [To("next") EXCEPT !.valid = FALSE] \in Parsers
  BY DEF To, Parsers, Reading
<1>3. parser.pc \in Reading
  OBVIOUS
<1>4. To("key") \in Parsers /\ To("error") \in Parsers /\ To("next") \in Parsers
      /\ To("closed") \in Parsers /\ To("ok") \in Parsers
  BY <1>1 DEF Reading
<1>5. Colon(t) \in Parsers
  BY <1>2, <1>4 DEF Colon
<1>6. Value(t) \in Parsers
  BY <1>2, <1>4 DEF Value
<1>7. parser.pc \in Reading => After(t) \in Parsers
  <2> DEFINE k == IF t \in Fields \cup {"text"} THEN [To("colon") EXCEPT !.key = t] ELSE To("error")
             c == Colon(t)
             v == Value(t)
             o == To(IF t = "{" THEN "key" ELSE "error")
             n == To(CASE t = "," -> "key" [] t = "}" -> "closed" [] OTHER -> "error")
             e == To(IF t = "end" /\ parser.fields = Fields /\ parser.valid THEN "ok" ELSE "error")
  <2>1. k \in Parsers /\ c \in Parsers /\ v \in Parsers
    BY <1>2, <1>4, <1>5, <1>6
  <2>2. o \in Parsers /\ n \in Parsers /\ e \in Parsers
    BY <1>4
  <2>3. After(t) = CASE parser.pc = "open" -> o [] parser.pc = "key" -> k [] parser.pc = "colon" -> c
                     [] parser.pc = "value" -> v [] parser.pc = "next" -> n [] parser.pc = "closed" -> e
    BY Zenon DEF After
  <2> HIDE DEF k, c, v, o, n, e
  <2>4. QED
    BY <2>1, <2>2, <2>3 DEF Reading
<1>8. QED
  BY <1>7

LEMMA CommandInvInit ==
  TextsInit => CommandInv
<1>1. SUFFICES ASSUME TextsInit PROVE CommandInv
  OBVIOUS
<1>2. read = <<>> /\ (parser = Start \/ parser = [Start EXCEPT !.pc = "error"])
  BY <1>1 DEF TextsInit
<1>3. parser \in Parsers /\ read \in Seq(Tokens)
  <2>1. Start \in Parsers /\ [Start EXCEPT !.pc = "error"] \in Parsers
    BY DEF Start, Parsers, Reading
  <2>2. <<>> \in Seq(Tokens)
    OBVIOUS
  <2>3. QED
    BY <1>2, <2>1, <2>2, Zenon
<1>4. CASE parser = Start
  <2>1. parser.pc = "open" /\ parser.fields = {} /\ parser.valid = TRUE
    BY <1>4 DEF Start
  <2>2. \A j \in 1..0 : FALSE
    OBVIOUS
  <2>3. Members(read, 0) /\ Judged(read, 0)
    BY <2>2, Zenon DEF Members, Judged
  <2>4. Keys(read, 0) = {}
    BY <2>2 DEF Keys
  <2>5. Shape(parser, read, 0)
    BY <2>1, <2>3, <2>4, Zenon DEF Shape
  <2>6. 0 \in Nat /\ Len(read) = 0
    BY <1>2
  <2>7. Place(parser, read, 0)
    BY <2>1, <2>5, <2>6, Places, Zenon
  <2>8. ParsesExactlyCommands
    BY <2>1 DEF ParsesExactlyCommands
  <2>9. QED
    BY <1>3, <2>6, <2>7, <2>8, Zenon DEF CommandInv
<1>5. CASE parser = [Start EXCEPT !.pc = "error"]
  <2>1. parser.pc = "error" /\ parser.pc \notin Reading
    BY <1>5 DEF Start, Reading
  <2>2. ParsesExactlyCommands
    BY <1>2, <2>1 DEF ParsesExactlyCommands
  <2>3. QED
    BY <1>3, <2>1, <2>2, Zenon DEF CommandInv
<1>6. QED
  BY <1>2, <1>4, <1>5

LEMMA CommandInvStep ==
  CommandInv /\ [TextsNext]_vars => CommandInv'
<1>1. SUFFICES ASSUME CommandInv, [TextsNext]_vars PROVE CommandInv'
  OBVIOUS
<1>2. CASE UNCHANGED <<read, parser>>
  BY <1>1, <1>2 DEF CommandInv, ParsesExactlyCommands
<1>3. ASSUME NEW t \in Tokens, Read(t) PROVE CommandInv'
  <2> DEFINE q == Append(read, t)
             p == After(t)
  <2>1. read' = q /\ parser' = p /\ ~Done /\ Readable(t)
    BY <1>3 DEF Read, After
  <2>2. parser \in Parsers /\ read \in Seq(Tokens)
    BY <1>1 DEF CommandInv
  <2>3. parser.pc \in Reading
    BY <2>1, <2>2 DEF Done, Parsers
  <2>4. PICK m \in Nat : Place(parser, read, m)
    BY <1>1, <2>3 DEF CommandInv
  <2>5. Fine(p, q)
    <3> HIDE DEF p, q
    <3>1. CASE parser.pc = "open"
      BY <2>2, <2>4, <3>1, StepOpen, Zenon DEF p, q
    <3>2. CASE parser.pc = "key"
      BY <2>2, <2>4, <3>2, StepKey, Zenon DEF p, q
    <3>3. CASE parser.pc = "colon"
      BY <2>2, <2>4, <3>3, StepColon, Zenon DEF p, q
    <3>4. CASE parser.pc = "value"
      BY <2>1, <2>2, <2>4, <3>4, StepValue, Zenon DEF p, q
    <3>5. CASE parser.pc = "next"
      BY <2>2, <2>4, <3>5, StepNext, Zenon DEF p, q
    <3>6. CASE parser.pc = "closed"
      BY <2>2, <2>4, <3>6, StepClosed, Zenon DEF p, q
    <3>7. QED
      BY <2>3, <3>1, <3>2, <3>3, <3>4, <3>5, <3>6 DEF Reading
  <2>6. p \in Parsers
    BY <2>2, <2>3, AfterTyped
  <2>7. q \in Seq(Tokens)
    <3> DEFINE T == Tokens
    <3>1. read \in Seq(T) /\ t \in T
      BY <2>2
    <3> HIDE DEF T
    <3>2. Append(read, t) \in Seq(T)
      BY <3>1, AppendProperties
    <3>3. QED
      BY <3>2 DEF T
  <2> HIDE DEF p, q
  <2>8. CommandInv'
    <3>1. read' \in Seq(Tokens) /\ parser' \in Parsers
      BY <2>1, <2>6, <2>7, Zenon
    <3>2. parser'.pc \in Reading => \E l \in Nat : Place(parser', read', l)
      BY <2>1, <2>5, Zenon DEF Fine
    <3>3. ParsesExactlyCommands'
      BY <2>1, <2>5, Zenon DEF Fine, ParsesExactlyCommands
    <3>4. QED
      BY <3>1, <3>2, <3>3, Zenon DEF CommandInv
  <2>9. QED
    BY <2>8
<1>4. QED
  BY <1>1, <1>2, <1>3 DEF TextsNext, ReadToken, Compare, Next, vars

\* parseCommandObject accepts the texts of commands and no others, and refuses none that a
\* command could begin with, in whatever order and number its members come.
THEOREM CommandsAreParsed ==
  TextsSpec => []ParsesExactlyCommands
<1>1. CommandInv => ParsesExactlyCommands
  BY DEF CommandInv
<1>2. QED
  BY <1>1, CommandInvInit, CommandInvStep, PTL DEF TextsSpec
=============================================================================
