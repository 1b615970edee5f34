--------------------------- MODULE ReadBack_proofs ---------------------------
(***************************************************************************)
(* What the encoders write for a value is what the scanner reads: proofs   *)
(* about the encoders, and about the scanner on the texts they write.      *)
(***************************************************************************)
EXTENDS Scanner_proofs

-----------------------------------------------------------------------------
(* Texts one after the other, and recursions that go up in a text.         *)

LEMMA Climb ==
  ASSUME NEW n \in Nat, NEW T, 0 \in T, \A j \in 1..n : j - 1 \in T => j \in T
  PROVE  \A j \in 0..n : j \in T
<1> DEFINE S == {k \in Nat : k <= n => k \in T}
<1>1. 0 \in S
  OBVIOUS
<1>2. ASSUME NEW k \in Nat, k \in S PROVE k + 1 \in S
  <2>1. k + 1 <= n => k + 1 \in 1..n /\ (k + 1) - 1 = k /\ k <= n
    OBVIOUS
  <2> QED
    BY <1>2, <2>1
<1>3. \A j \in 0..n : j \in Nat /\ j <= n
  OBVIOUS
<1> HIDE DEF S
<1>4. \A k \in Nat : k \in S
  BY <1>1, <1>2, Induction
<1> QED
  BY <1>3, <1>4 DEF S

(* A recursion that goes on at most to l, with a step w of each place: it   *)
(* has a solution.                                                         *)
Ahead(l, R, w, e, G, f) ==
    f = [i \in 1..l |-> IF w[i] = 0 THEN e[i] ELSE G[i][f[i + w[i]]]]

LEMMA AheadExists ==
  ASSUME NEW l \in Nat \ {0}, NEW R, NEW w \in [1..l -> Nat], \A i \in 1..l : i + w[i] <= l,
         NEW e \in [1..l -> R], NEW G \in [1..l -> [R -> R]]
  PROVE  \E f \in [1..l -> R] : Ahead(l, R, w, e, G, f)
<1> DEFINE Body(f, i) == IF w[i] = 0 THEN e[i] ELSE G[i][f[i + w[i]]]
           From(k, f) == f \in [(l - k)..l -> R] /\ \A i \in (l - k)..l : f[i] = Body(f, i)
           T == {k \in 0..(l - 1) : \E f : From(k, f)}
<1>1. ASSUME NEW m \in 1..l, NEW k \in Nat, k = l - m,
             NEW h, m < l => h \in [(m + 1)..l -> R] /\ \A i \in (m + 1)..l : h[i] = Body(h, i)
      PROVE  k \in T
  <2> DEFINE v == IF w[m] = 0 THEN e[m] ELSE G[m][h[m + w[m]]]
             g == [i \in m..l |-> IF i = m THEN v ELSE h[i]]
  <2>1. ASSUME NEW i \in m..l
        PROVE  /\ w[i] \in Nat /\ i + w[i] <= l /\ i \in 1..l
               /\ w[i] # 0 => i + w[i] \in (m + 1)..l
               /\ i # m => i \in (m + 1)..l /\ m < l
    <3>1. i \in 1..l /\ i \in Nat /\ m \in Nat
      OBVIOUS
    <3>2. w[i] \in Nat /\ i + w[i] <= l
      BY <3>1
    <3>3. \A x \in Nat : i + x <= l /\ x # 0 => i + x \in (m + 1)..l
      BY <3>1
    <3>4. i # m => i \in (m + 1)..l /\ m < l
      BY <3>1
    <3> QED
      BY <3>1, <3>2, <3>3, <3>4, Zenon
  <2>2. m \in m..l /\ l - k = m /\ k \in 0..(l - 1)
    BY <1>1
  <2>3. v \in R
    <3>1. CASE w[m] = 0
      BY <3>1
    <3>2. CASE w[m] # 0
      <4>1. m + w[m] \in (m + 1)..l /\ m < l
        BY <2>1, <2>2, <3>2
      <4>2. h[m + w[m]] \in R
        BY <1>1, <4>1
      <4>3. G[m] \in [R -> R]
        OBVIOUS
      <4> QED
        BY <3>2, <4>2, <4>3
    <3> QED
      BY <3>1, <3>2
  <2> HIDE DEF v
  <2>4. g \in [m..l -> R]
    <3>1. ASSUME NEW i \in m..l PROVE (IF i = m THEN v ELSE h[i]) \in R
      BY <1>1, <2>1, <2>3
    <3> QED
      BY <3>1
  <2>5. g[m] = v /\ \A i \in (m + 1)..l : g[i] = h[i]
    <3>1. \A i \in (m + 1)..l : i \in m..l /\ i # m
      OBVIOUS
    <3> QED
      BY <2>2, <3>1
  <2> HIDE DEF g
  <2>6. ASSUME NEW i \in m..l PROVE g[i] = Body(g, i)
    <3>1. w[i] # 0 => g[i + w[i]] = h[i + w[i]]
      BY <2>1, <2>5
    <3>2. CASE i = m
      BY <2>5, <3>1, <3>2 DEF v
    <3>3. CASE i # m
      BY <1>1, <2>1, <2>5, <3>1, <3>3
    <3> QED
      BY <3>2, <3>3
  <2> HIDE DEF Body
  <2>7. From(k, g)
    BY <2>2, <2>4, <2>6
  <2> QED
    BY <2>2, <2>7
<1>2. 0 \in T
  <2>1. l \in 1..l /\ 0 = l - l /\ ~(l < l)
    OBVIOUS
  <2> HIDE DEF Body, T
  <2> QED
    BY <1>1, <2>1
<1>3. ASSUME NEW j \in 1..(l - 1), j - 1 \in T PROVE j \in T
  <2>1. PICK h : From(j - 1, h)
    BY <1>3
  <2>2. l - (j - 1) = (l - j) + 1 /\ l - j \in 1..l /\ j = l - (l - j) /\ j \in Nat
    BY <1>3
  <2>3. h \in [((l - j) + 1)..l -> R] /\ \A i \in ((l - j) + 1)..l : h[i] = Body(h, i)
    BY <2>1, <2>2
  <2> HIDE DEF Body, T
  <2> QED
    BY <1>1, <2>2, <2>3
<1>4. l - 1 \in Nat /\ l - 1 \in 0..(l - 1)
  OBVIOUS
<1> HIDE DEF T
<1>5. l - 1 \in T
  BY <1>2, <1>3, <1>4, Climb
<1>6. PICK f : From(l - 1, f)
  BY <1>5 DEF T
<1>7. l - (l - 1) = 1
  OBVIOUS
<1>8. f \in [1..l -> R] /\ \A i \in 1..l : f[i] = Body(f, i)
  BY <1>6, <1>7
<1>9. f = [i \in 1..l |-> Body(f, i)]
  <2> HIDE DEF Body
  <2> QED
    BY <1>8
<1> QED
  BY <1>8, <1>9 DEF Ahead

-----------------------------------------------------------------------------
(* FlattenSeq of texts.                                                    *)

LEMMA TextsAssociate == \A r, s, t \in Text : (r \o s) \o t = r \o (s \o t)
BY ConcatAssociative DEF Text

LEMMA TextWhole == \A t \in Text : <<>> \o t = t /\ t \o <<>> = t
BY ConcatEmptySeq DEF Text

(* f is what the texts up to each place make. *)
JoinedBy(s, f) ==
    /\ f \in [0..Len(s) -> Text]
    /\ f[0] = <<>>
    /\ \A j \in 1..Len(s) : f[j] = f[j - 1] \o s[j]

LEMMA JoinedExists ==
  ASSUME NEW s \in Seq(Text)
  PROVE  \E f : JoinedBy(s, f)
<1> DEFINE To(j, f) == /\ f \in [0..j -> Text] /\ f[0] = <<>>
                       /\ \A k \in 1..j : f[k] = f[k - 1] \o s[k]
           T == {j \in 0..Len(s) : \E f : To(j, f)}
<1>1. 0 \in T
  <2>1. To(0, [j \in 0..0 |-> <<>>])
    BY ByteSeqs
  <2>2. 0 \in 0..Len(s)
    OBVIOUS
  <2> QED
    BY <2>1, <2>2
<1>2. ASSUME NEW j \in 1..Len(s), j - 1 \in T PROVE j \in T
  <2>1. PICK f : To(j - 1, f)
    BY <1>2
  <2> DEFINE g == [k \in 0..j |-> IF k = j THEN f[j - 1] \o s[j] ELSE f[k]]
  <2>2. j - 1 \in 0..(j - 1) /\ s[j] \in Text
    OBVIOUS
  <2>3. f[j - 1] \o s[j] \in Text
    BY <2>1, <2>2, ByteSeqs
  <2>4. \A k \in 0..j : k = j \/ k \in 0..(j - 1)
    OBVIOUS
  <2>5. g \in [0..j -> Text]
    BY <2>1, <2>3, <2>4
  <2>6. g[j] = f[j - 1] \o s[j] /\ \A k \in 0..(j - 1) : g[k] = f[k]
    OBVIOUS
  <2> HIDE DEF g
  <2>7. ASSUME NEW k \in 1..j PROVE g[k] = g[k - 1] \o s[k]
    <3>1. k - 1 \in 0..(j - 1) /\ (k # j => k \in 1..(j - 1) /\ k \in 0..(j - 1))
      OBVIOUS
    <3> QED
      BY <2>1, <2>6, <3>1
  <2>8. g[0] = <<>>
    BY <2>1, <2>6
  <2>9. To(j, g)
    BY <2>5, <2>7, <2>8, Zenon
  <2>10. j \in 0..Len(s)
    OBVIOUS
  <2> HIDE DEF To
  <2> QED
    BY <2>9, <2>10
<1>3. Len(s) \in Nat /\ Len(s) \in 0..Len(s)
  OBVIOUS
<1> HIDE DEF T
<1>4. Len(s) \in T
  BY <1>1, <1>2, <1>3, Climb
<1> QED
  BY <1>4 DEF T, JoinedBy

LEMMA JoinedOnce ==
  ASSUME NEW s \in Seq(Text), NEW f, NEW g, JoinedBy(s, f),
         \A j \in 1..Len(s) : g[j] = IF j = 1 THEN s[1] ELSE g[j - 1] \o s[j]
  PROVE  \A j \in 1..Len(s) : f[j] = g[j]
<1> DEFINE T == {j \in 0..Len(s) : j > 0 => f[j] = g[j]}
<1>1. 0 \in T
  OBVIOUS
<1>2. ASSUME NEW j \in 1..Len(s), j - 1 \in T PROVE j \in T
  <2>1. f[j] = f[j - 1] \o s[j] /\ f[0] = <<>>
    BY Zenon DEF JoinedBy
  <2>4. s[j] \in Text
    OBVIOUS
  <2>5. g[j] = IF j = 1 THEN s[1] ELSE g[j - 1] \o s[j]
    BY Zenon
  <2>6. j \in 0..Len(s) /\ j > 0 /\ j # 0
    OBVIOUS
  <2>2. CASE j = 1
    <3>1. j - 1 = 0
      BY <2>2
    <3>2. f[j] = s[j]
      BY <2>1, <2>4, <3>1, TextWhole
    <3> QED
      BY <2>2, <2>5, <2>6, <3>2
  <2>3. CASE j # 1
    <3>1. j - 1 > 0
      BY <2>3
    <3>2. f[j - 1] = g[j - 1]
      BY <1>2, <3>1
    <3>3. f[j] = g[j]
      BY <2>1, <2>3, <2>5, <3>2, Zenon
    <3> QED
      BY <2>6, <3>3
  <2> QED
    BY <2>2, <2>3
<1> HIDE DEF T
<1>3. \A j \in 0..Len(s) : j \in T
  <2>1. Len(s) \in Nat
    OBVIOUS
  <2> QED
    BY <1>1, <1>2, <2>1, Climb
<1>4. \A j \in 1..Len(s) : j \in 0..Len(s) /\ j > 0
  OBVIOUS
<1> QED
  BY <1>3, <1>4 DEF T

LEMMA FlattenIs ==
  ASSUME NEW s \in Seq(Text)
  PROVE  \E f : JoinedBy(s, f) /\ FlattenSeq(s) = f[Len(s)]
<1>1. PICK f : JoinedBy(s, f)
  BY JoinedExists
<1> DEFINE n == Len(s)
           Body(g) == g = [i \in 1..Len(s) |-> IF i = 1 THEN s[i] ELSE g[i - 1] \o s[i]]
           fl == CHOOSE g : Body(g)
<1>2. CASE n = 0
  <2>1. s = <<>>
    BY <1>2, EmptySeq
  <2>2. FlattenSeq(s) = <<>>
    BY <1>2, <2>1 DEF FlattenSeq
  <2> QED
    BY <1>1, <1>2, <2>2 DEF JoinedBy
<1>3. CASE n # 0
  <2>1. n \in Nat /\ n \in 1..n
    BY <1>3
  <2>2. FlattenSeq(s) = fl[n]
    BY <1>3, Zenon DEF FlattenSeq
  <2> DEFINE h == [i \in 1..Len(s) |-> f[i]]
  <2>3. Body(h)
    <3>1. ASSUME NEW i \in 1..Len(s) PROVE f[i] = IF i = 1 THEN s[i] ELSE h[i - 1] \o s[i]
      <4>1. f[i] = f[i - 1] \o s[i] /\ f[0] = <<>> /\ s[i] \in Text
        BY <1>1 DEF JoinedBy
      <4>2. i = 1 => f[i] = s[i]
        <5>1. i = 1 => i - 1 = 0
          OBVIOUS
        <5> QED
          BY <4>1, <5>1, TextWhole
      <4>3. i # 1 => h[i - 1] = f[i - 1]
        OBVIOUS
      <4> HIDE DEF h
      <4> QED
        BY <4>1, <4>2, <4>3
    <3> QED
      BY <3>1
  <2> HIDE DEF Body
  <2>4. Body(fl)
    BY <2>3
  <2> HIDE DEF fl
  <2>5. \A i \in 1..Len(s) : fl[i] = IF i = 1 THEN s[1] ELSE fl[i - 1] \o s[i]
    <3>1. fl = [i \in 1..Len(s) |-> IF i = 1 THEN s[i] ELSE fl[i - 1] \o s[i]]
      BY <2>4 DEF Body
    <3> QED
      BY <3>1
  <2>6. f[n] = fl[n]
    BY <1>1, <2>1, <2>5, JoinedOnce
  <2> QED
    BY <1>1, <2>2, <2>6
<1> QED
  BY <1>2, <1>3

LEMMA ConcatItems ==
  ASSUME NEW s \in Text, NEW t \in Text
  PROVE  /\ s \o t \in Text /\ Len(s \o t) = Len(s) + Len(t)
         /\ \A i \in 1..Len(s) : (s \o t)[i] = s[i]
         /\ \A i \in 1..Len(t) : (s \o t)[Len(s) + i] = t[i]
BY DEF Text

LEMMA ConcatIs ==
  ASSUME NEW s \in Text, NEW t \in Text, NEW u \in Text, Len(u) = Len(s) + Len(t),
         \A i \in 1..Len(s) : u[i] = s[i], \A i \in 1..Len(t) : u[Len(s) + i] = t[i]
  PROVE  s \o t = u
<1> DEFINE j == s \o t
<1>1. /\ j \in Text /\ Len(j) = Len(s) + Len(t)
      /\ \A i \in 1..Len(s) : j[i] = s[i]
      /\ \A i \in 1..Len(t) : j[Len(s) + i] = t[i]
  BY ConcatItems, Zenon
<1>2. Len(s) \in Nat /\ Len(t) \in Nat
  BY DEF Text
<1> HIDE DEF j
<1>3. ASSUME NEW i \in 1..Len(j) PROVE j[i] = u[i]
  <2>1. CASE i \in 1..Len(s)
    BY <1>1, <2>1
  <2>2. CASE i \notin 1..Len(s)
    <3>1. i - Len(s) \in 1..Len(t) /\ i = Len(s) + (i - Len(s))
      BY <1>1, <1>2, <2>2
    <3>2. u[Len(s) + (i - Len(s))] = t[i - Len(s)] /\ j[Len(s) + (i - Len(s))] = t[i - Len(s)]
      BY <1>1, <3>1
    <3> QED
      BY <3>1, <3>2
  <2> QED
    BY <2>1, <2>2
<1>4. j = u
  BY <1>1, <1>3, TextEqual
<1> QED
  BY <1>4 DEF j

-----------------------------------------------------------------------------
(* What is written between quotes, and what it stands for.                 *)

HexPlace(v, n) == UpperHexDigit((v \div n) % 16)
ShortRune(v) == <<Backslash, 117, HexPlace(v, 4096), HexPlace(v, 256), HexPlace(v, 16), HexPlace(v, 1)>>
LongRune(v) ==
    <<Backslash, 85, 48, 48, HexPlace(v, 1048576), HexPlace(v, 65536),
      HexPlace(v, 4096), HexPlace(v, 256), HexPlace(v, 16), HexPlace(v, 1)>>

(* Between quotes q the scanner reads u, in one turn of its loop, as d. *)
IsUnit(q, escapes, u, d) ==
    \/ \E b \in Byte : b # q /\ (escapes => b # Backslash) /\ u = <<b>> /\ d = <<b>>
    \/ u = <<q, q>> /\ d = <<q>>
    \/ /\ escapes
       /\ \/ u = <<Backslash, q>> /\ d = <<q>>
          \/ \E ch \in DOMAIN EscapeLetter : u = <<Backslash, EscapeLetter[ch]>> /\ d = <<ch>>
          \/ \E ch \in Byte : u = HexEscape(ch) /\ d = <<ch>>
          \/ \E v \in Nat : /\ v <= MaxRune /\ v \notin Surrogates /\ d = EncodeRune(v)
                            /\ (u = ShortRune(v) /\ v < 2048) \/ u = LongRune(v)

Prepending(q, escapes, S) ==
    /\ <<<<>>, <<>>>> \in S
    /\ \A u, d : IsUnit(q, escapes, u, d) =>
          \A p \in S : <<u \o p[1], d \o p[2]>> \in S

(* The texts that are read one unit after the other, with their values. *)
Spelled(q, escapes) ==
    {p \in Text \X Text :
        \A S \in SUBSET (Text \X Text) : Prepending(q, escapes, S) => p \in S}

Quotes == {Quote, DoubleQuote}

LEMMA QuoteBytes == Quotes \subseteq Byte /\ Backslash \in Byte /\ Quote # DoubleQuote
                    /\ Backslash \notin Quotes
BY ByteIs, SMT DEF Between, Quotes, Quote, DoubleQuote, Backslash

LEMMA EscapeLetters6 ==
  /\ DOMAIN EscapeLetter = {8, 12, 10, 13, 9, 92}
  /\ EscapeLetter[8] = 98 /\ EscapeLetter[12] = 102 /\ EscapeLetter[10] = 110
  /\ EscapeLetter[13] = 114 /\ EscapeLetter[9] = 116 /\ EscapeLetter[92] = 92
BY DEF EscapeLetter

LEMMA HexDigits ==
  /\ \A v \in 0..15 : /\ LowerHexDigit(v) \in HexDigit /\ HexValue(LowerHexDigit(v)) = v
                      /\ UpperHexDigit(v) \in HexDigit /\ HexValue(UpperHexDigit(v)) = v
<1> SUFFICES ASSUME NEW v \in 0..15
             PROVE  /\ LowerHexDigit(v) \in HexDigit /\ HexValue(LowerHexDigit(v)) = v
                    /\ UpperHexDigit(v) \in HexDigit /\ HexValue(UpperHexDigit(v)) = v
  OBVIOUS
<1>1. /\ \A b : b \in Digit <=> Between(b, 48, 57)
      /\ \A b : b \in Lower <=> Between(b, 97, 122)
      /\ \A b : b \in HexDigit <=> b \in Digit \/ Between(b, 97, 102) \/ Between(b, 65, 70)
  BY SMT DEF Digit, Lower, HexDigit, Between
<1>2. CASE v < 10
  BY <1>1, <1>2, SMT DEF LowerHexDigit, UpperHexDigit, HexValue, Between
<1>3. CASE ~(v < 10)
  <2>1. LowerHexDigit(v) = 87 + v /\ UpperHexDigit(v) = 55 + v
    BY <1>3 DEF LowerHexDigit, UpperHexDigit
  <2> QED
    BY <1>1, <1>3, <2>1, SMT DEF HexValue, Between
<1> QED
  BY <1>2, <1>3

LEMMA HexPlaces ==
  ASSUME NEW v \in Nat, NEW n \in Nat \ {0}
  PROVE  /\ HexPlace(v, n) \in HexDigit /\ HexPlace(v, n) \in Byte
         /\ HexValue(HexPlace(v, n)) = (v \div n) % 16
<1>1. v \div n \in Nat
  OBVIOUS
<1>2. \A x \in Nat : x % 16 \in 0..15
  OBVIOUS
<1>3. (v \div n) % 16 \in 0..15
  BY <1>1, <1>2
<1> QED
  BY <1>3, HexDigits, Classes, Zenon DEF HexPlace

LEMMA UnitTexts ==
  ASSUME NEW q \in Quotes, NEW escapes, NEW u, NEW d, IsUnit(q, escapes, u, d)
  PROVE  u \in Text /\ d \in Text /\ u # <<>>
<1>1. q \in Byte /\ Backslash \in Byte
  BY QuoteBytes
<1>2. \A x \in {117, 85, 48, 120} : x \in Byte
  BY ByteIs, SMT DEF Between
<1>3. \A a, b, c, e \in Byte : <<a, b, c, e>> \in Text /\ <<a, b, c, e>> # <<>>
  BY DEF Text
<1>4. \A a, b \in Byte : <<a, b>> \in Text /\ <<a, b>> # <<>> /\ <<a>> \in Text /\ <<a>> # <<>>
  BY DEF Text
<1>5. CASE \E ch \in DOMAIN EscapeLetter : u = <<Backslash, EscapeLetter[ch]>> /\ d = <<ch>>
  <2>1. \A ch \in DOMAIN EscapeLetter : ch \in Byte /\ EscapeLetter[ch] \in Byte
    BY EscapeLetters6, ByteIs DEF Between
  <2> QED
    BY <1>1, <1>4, <1>5, <2>1
<1>6. CASE \E ch \in Byte : u = HexEscape(ch) /\ d = <<ch>>
  <2>1. PICK ch \in Byte : u = HexEscape(ch) /\ d = <<ch>>
    BY <1>6
  <2>2. ch \div 16 \in 0..15 /\ ch % 16 \in 0..15
    BY ByteIs, SMT DEF Between
  <2>3. LowerHexDigit(ch \div 16) \in Byte /\ LowerHexDigit(ch % 16) \in Byte
    BY <2>2, HexDigits, Classes
  <2> QED
    BY <1>1, <1>2, <1>3, <1>4, <2>1, <2>3 DEF HexEscape
<1>7. CASE \E v \in Nat : /\ v <= MaxRune /\ v \notin Surrogates /\ d = EncodeRune(v)
                          /\ (u = ShortRune(v) /\ v < 2048) \/ u = LongRune(v)
  <2>1. PICK v \in Nat : /\ v <= MaxRune /\ d = EncodeRune(v)
                         /\ u = ShortRune(v) \/ u = LongRune(v)
    BY <1>7
  <2>2. d \in Text
    BY <2>1, EncodeRuneText DEF MaxRune
  <2>3. \A n \in {1048576, 65536, 4096, 256, 16, 1} : HexPlace(v, n) \in Byte
    BY HexPlaces, SMT
  <2>4. \A a, b, c, e, f, g \in Byte : <<a, b, c, e, f, g>> \in Text /\ <<a, b, c, e, f, g>> # <<>>
    BY DEF Text
  <2>5. \A a, b, c, e, f, g, h, i, j, k \in Byte :
            <<a, b, c, e, f, g, h, i, j, k>> \in Text /\ <<a, b, c, e, f, g, h, i, j, k>> # <<>>
    BY DEF Text
  <2>6. ShortRune(v) \in Text /\ ShortRune(v) # <<>>
    <3> DEFINE a == HexPlace(v, 4096)
               b == HexPlace(v, 256)
               c == HexPlace(v, 16)
               e == HexPlace(v, 1)
    <3>1. a \in Byte /\ b \in Byte /\ c \in Byte /\ e \in Byte /\ 117 \in Byte
      BY <1>2, <2>3, SMT
    <3>2. ShortRune(v) = <<Backslash, 117, a, b, c, e>>
      BY SMT DEF ShortRune
    <3> HIDE DEF a, b, c, e
    <3>3. <<Backslash, 117, a, b, c, e>> \in Text /\ <<Backslash, 117, a, b, c, e>> # <<>>
      BY <1>1, <2>4, <3>1, Zenon
    <3> QED
      BY <3>2, <3>3
  <2>7. LongRune(v) \in Text /\ LongRune(v) # <<>>
    <3>1. 85 \in Byte /\ 48 \in Byte
      BY ByteIs DEF Between
    <3> DEFINE a == HexPlace(v, 1048576)
               b == HexPlace(v, 65536)
               c == HexPlace(v, 4096)
               e == HexPlace(v, 256)
               f == HexPlace(v, 16)
               g == HexPlace(v, 1)
    <3>2. a \in Byte /\ b \in Byte /\ c \in Byte /\ e \in Byte /\ f \in Byte /\ g \in Byte
      BY <2>3, SMT
    <3>3. LongRune(v) = <<Backslash, 85, 48, 48, a, b, c, e, f, g>>
      BY SMT DEF LongRune
    <3> HIDE DEF a, b, c, e, f, g
    <3>4. <<Backslash, 85, 48, 48, a, b, c, e, f, g>> \in Text /\ <<Backslash, 85, 48, 48, a, b, c, e, f, g>> # <<>>
      BY <1>1, <2>5, <3>1, <3>2, Zenon
    <3> QED
      BY <3>3, <3>4
  <2> QED
    BY <2>1, <2>2, <2>6, <2>7
<1>8. CASE \E b \in Byte : b # q /\ (escapes => b # Backslash) /\ u = <<b>> /\ d = <<b>>
  BY <1>4, <1>8
<1>9. CASE u = <<q, q>> /\ d = <<q>>
  BY <1>1, <1>4, <1>9
<1>10. CASE u = <<Backslash, q>> /\ d = <<q>>
  BY <1>1, <1>4, <1>10
<1> QED
  BY <1>5, <1>6, <1>7, <1>8, <1>9, <1>10, Zenon DEF IsUnit

LEMMA SpelledPrepending ==
  ASSUME NEW q \in Quotes, NEW escapes
  PROVE  Prepending(q, escapes, Spelled(q, escapes))
<1>1. <<<<>>, <<>>>> \in Spelled(q, escapes)
  BY ByteSeqs DEF Spelled, Prepending
<1>2. ASSUME NEW u, NEW d, IsUnit(q, escapes, u, d), NEW p \in Spelled(q, escapes)
      PROVE  <<u \o p[1], d \o p[2]>> \in Spelled(q, escapes)
  <2>1. u \in Text /\ d \in Text /\ p[1] \in Text /\ p[2] \in Text
    BY <1>2, UnitTexts DEF Spelled
  <2>2. u \o p[1] \in Text /\ d \o p[2] \in Text
    BY <2>1, ByteSeqs
  <2>3. ASSUME NEW S \in SUBSET (Text \X Text), Prepending(q, escapes, S)
        PROVE  <<u \o p[1], d \o p[2]>> \in S
    <3>1. p \in S
      BY <2>3 DEF Spelled
    <3> QED
      BY <1>2, <2>3, <3>1 DEF Prepending
  <2> QED
    BY <2>2, <2>3 DEF Spelled
<1> QED
  BY <1>1, <1>2 DEF Prepending

LEMMA SpelledTexts ==
  ASSUME NEW q, NEW escapes, NEW w, NEW c, <<w, c>> \in Spelled(q, escapes)
  PROVE  w \in Text /\ c \in Text
BY DEF Spelled

LEMMA SpelledMore ==
  ASSUME NEW q \in Quotes, NEW escapes, NEW u, NEW d, IsUnit(q, escapes, u, d),
         NEW w, NEW c, <<w, c>> \in Spelled(q, escapes)
  PROVE  <<u \o w, d \o c>> \in Spelled(q, escapes)
<1>1. <<w, c>>[1] = w /\ <<w, c>>[2] = c
  OBVIOUS
<1> QED
  BY <1>1, SpelledPrepending DEF Prepending

LEMMA SpelledNothing ==
  ASSUME NEW q \in Quotes, NEW escapes
  PROVE  <<<<>>, <<>>>> \in Spelled(q, escapes)
BY SpelledPrepending DEF Prepending

(* t is u with r after it. *)
IsBoth(t, u, r) == t = u \o r

(* Nothing else is spelled. *)
LEMMA SpelledCases ==
  ASSUME NEW q \in Quotes, NEW escapes, NEW w, NEW c, <<w, c>> \in Spelled(q, escapes)
  PROVE  \/ w = <<>> /\ c = <<>>
         \/ \E u, d, x, y : /\ IsUnit(q, escapes, u, d) /\ <<x, y>> \in Spelled(q, escapes)
                            /\ IsBoth(w, u, x) /\ IsBoth(c, d, y)
<1> DEFINE Z == Spelled(q, escapes)
           Right(p) == \/ p = <<<<>>, <<>>>>
                       \/ \E u, d, x, y : /\ IsUnit(q, escapes, u, d) /\ <<x, y>> \in Z
                                          /\ p = <<u \o x, d \o y>>
           S == {p \in Z : Right(p)}
<1>1. Prepending(q, escapes, Z)
  BY SpelledPrepending
<1>2. Z \subseteq Text \X Text
  BY DEF Spelled
<1>3. \A p \in Z, T \in SUBSET (Text \X Text) : Prepending(q, escapes, T) => p \in T
  BY DEF Spelled
<1> HIDE DEF Z
<1>4. Prepending(q, escapes, S)
  <2>1. <<<<>>, <<>>>> \in S
    BY <1>1 DEF Prepending
  <2>2. ASSUME NEW u, NEW d, IsUnit(q, escapes, u, d), NEW p \in S
        PROVE  <<u \o p[1], d \o p[2]>> \in S
    <3>1. p \in Z /\ p = <<p[1], p[2]>>
      BY <1>2
    <3>2. <<u \o p[1], d \o p[2]>> \in Z
      BY <1>1, <2>2, <3>1 DEF Prepending
    <3>3. Right(<<u \o p[1], d \o p[2]>>)
      BY <2>2, <3>1
    <3> QED
      BY <3>2, <3>3
  <2> HIDE DEF S
  <2> QED
    BY <2>1, <2>2 DEF Prepending
<1>5. Right(<<w, c>>)
  BY <1>2, <1>3, <1>4 DEF Z
<1> QED
  <2>1. CASE <<w, c>> = <<<<>>, <<>>>>
    BY <2>1
  <2>2. CASE \E u, d, x, y : /\ IsUnit(q, escapes, u, d) /\ <<x, y>> \in Z
                             /\ <<w, c>> = <<u \o x, d \o y>>
    <3>1. PICK u, d, x, y : /\ IsUnit(q, escapes, u, d) /\ <<x, y>> \in Z
                            /\ <<w, c>> = <<u \o x, d \o y>>
      BY <2>2
    <3>2. IsBoth(w, u, x) /\ IsBoth(c, d, y)
      BY <3>1 DEF IsBoth
    <3> QED
      BY <3>1, <3>2, Zenon DEF Z
  <2> QED
    BY <1>5, <2>1, <2>2

LEMMA SpelledJoin ==
  ASSUME NEW q \in Quotes, NEW escapes, NEW w, NEW c, <<w, c>> \in Spelled(q, escapes),
         NEW x, NEW y, <<x, y>> \in Spelled(q, escapes)
  PROVE  <<w \o x, c \o y>> \in Spelled(q, escapes)
<1> DEFINE Z == Spelled(q, escapes)
           S == {p \in Z : <<p[1] \o x, p[2] \o y>> \in Z}
<1>1. Prepending(q, escapes, Z)
  BY SpelledPrepending
<1>2. Z \subseteq Text \X Text
  BY DEF Spelled
<1>3. \A p \in Z, T \in SUBSET (Text \X Text) : Prepending(q, escapes, T) => p \in T
  BY DEF Spelled
<1>4. x \in Text /\ y \in Text /\ <<x, y>> \in Z
  BY SpelledTexts
<1> HIDE DEF Z
<1>5. Prepending(q, escapes, S)
  <2>1. <<<<>>, <<>>>> \in S
    <3>1. <<>> \o x = x /\ <<>> \o y = y
      BY <1>4, TextWhole
    <3> QED
      BY <1>1, <1>4, <3>1 DEF Prepending
  <2>2. ASSUME NEW u, NEW d, IsUnit(q, escapes, u, d), NEW p \in S
        PROVE  <<u \o p[1], d \o p[2]>> \in S
    <3>1. p \in Z /\ p[1] \in Text /\ p[2] \in Text /\ u \in Text /\ d \in Text
      BY <1>2, <2>2, UnitTexts
    <3>2. <<u \o p[1], d \o p[2]>> \in Z
      BY <1>1, <2>2, <3>1 DEF Prepending
    <3>3. <<p[1] \o x, p[2] \o y>> \in Z
      OBVIOUS
    <3>4. <<u \o (p[1] \o x), d \o (p[2] \o y)>> \in Z
      <4> DEFINE r == <<p[1] \o x, p[2] \o y>>
      <4>1. r[1] = p[1] \o x /\ r[2] = p[2] \o y /\ r \in Z
        BY <3>3
      <4> HIDE DEF r
      <4> QED
        BY <1>1, <2>2, <4>1 DEF Prepending
    <3>5. u \o (p[1] \o x) = (u \o p[1]) \o x /\ d \o (p[2] \o y) = (d \o p[2]) \o y
      <4>1. u \o (p[1] \o x) = (u \o p[1]) \o x
        BY <1>4, <3>1, TextsAssociate, ZenonT(60)
      <4>2. d \o (p[2] \o y) = (d \o p[2]) \o y
        BY <1>4, <3>1, TextsAssociate, Zenon
      <4> QED
        BY <4>1, <4>2, Zenon
    <3> QED
      BY <3>2, <3>4, <3>5
  <2> HIDE DEF S
  <2> QED
    BY <2>1, <2>2 DEF Prepending
<1>6. <<w, c>> \in S
  BY <1>2, <1>3, <1>5 DEF Z
<1> QED
  BY <1>6 DEF Z

(* Texts that are spelled, one after the other. *)
LEMMA FlattenSpelled ==
  ASSUME NEW q \in Quotes, NEW escapes, NEW ws \in Seq(Text), NEW cs \in Seq(Text),
         Len(ws) = Len(cs), \A j \in 1..Len(ws) : <<ws[j], cs[j]>> \in Spelled(q, escapes)
  PROVE  <<FlattenSeq(ws), FlattenSeq(cs)>> \in Spelled(q, escapes)
<1> DEFINE n == Len(ws)
<1>1. PICK f : JoinedBy(ws, f) /\ FlattenSeq(ws) = f[n]
  BY FlattenIs
<1>2. PICK g : JoinedBy(cs, g) /\ FlattenSeq(cs) = g[n]
  BY FlattenIs
<1> DEFINE T == {j \in 0..n : <<f[j], g[j]>> \in Spelled(q, escapes)}
<1>3. n \in Nat /\ n \in 0..n
  OBVIOUS
<1>4. 0 \in T
  BY <1>1, <1>2, <1>3, SpelledNothing DEF JoinedBy
<1>5. ASSUME NEW j \in 1..n, j - 1 \in T PROVE j \in T
  <2>0. j \in 1..Len(ws) /\ j \in 1..Len(cs)
    OBVIOUS
  <2>1. f[j] = f[j - 1] \o ws[j] /\ g[j] = g[j - 1] \o cs[j]
    BY <1>1, <1>2, <2>0, Zenon DEF JoinedBy
  <2>2. <<f[j - 1], g[j - 1]>> \in Spelled(q, escapes) /\ <<ws[j], cs[j]>> \in Spelled(q, escapes)
    BY <1>5
  <2>3. <<f[j - 1] \o ws[j], g[j - 1] \o cs[j]>> \in Spelled(q, escapes)
    BY <2>2, SpelledJoin, Zenon
  <2>4. <<f[j], g[j]>> \in Spelled(q, escapes)
    BY <2>1, <2>3
  <2>5. j \in 0..n
    OBVIOUS
  <2> QED
    BY <2>4, <2>5
<1> HIDE DEF T, n
<1>6. n \in T
  BY <1>3, <1>4, <1>5, Climb
<1> QED
  BY <1>1, <1>2, <1>6 DEF T

(* A text is its bytes, one after the other. *)
LEMMA FlattenBytes ==
  ASSUME NEW s \in Text
  PROVE  FlattenSeq([k \in 1..Len(s) |-> <<s[k]>>]) = s
<1> DEFINE t == [k \in 1..Len(s) |-> <<s[k]>>]
           n == Len(s)
<1>1. n \in Nat /\ n \in 0..n /\ \A k \in 1..n : s[k] \in Byte
  BY DEF Text
<1>2. t \in Seq(Text) /\ Len(t) = n
  BY <1>1, ByteSeqs
<1>3. \A k \in 1..n : t[k] = <<s[k]>>
  OBVIOUS
<1> HIDE DEF t
<1>4. PICK f : JoinedBy(t, f) /\ FlattenSeq(t) = f[n]
  BY <1>2, FlattenIs
<1> DEFINE T == {j \in 0..n : f[j] = Part(s, 0, j)}
<1>5. 0 \in T
  BY <1>1, <1>4, PartFacts DEF JoinedBy
<1>6. ASSUME NEW j \in 1..n, j - 1 \in T PROVE j \in T
  <2>0. j \in 0..n /\ j - 1 \in 0..n /\ j \in 1..Len(t) /\ t[j] = <<s[j]>>
    BY <1>1, <1>2, <1>3
  <2>1. f[j] = f[j - 1] \o <<s[j]>> /\ j \in 0..n /\ j - 1 \in 0..n
    BY <1>4, <2>0, Zenon DEF JoinedBy
  <2>2. Part(s, 0, j - 1) \o <<s[j]>> = Part(s, 0, j)
    <3>1. /\ Part(s, 0, j - 1) \in Text /\ Len(Part(s, 0, j - 1)) = j - 1
          /\ Part(s, 0, j) \in Text /\ Len(Part(s, 0, j)) = j
          /\ \A i \in 1..(j - 1) : Part(s, 0, j - 1)[i] = ByteOf(s, 0 + i - 1)
          /\ \A i \in 1..j : Part(s, 0, j)[i] = ByteOf(s, 0 + i - 1)
      BY <1>1, <2>1, PartFacts
    <3>2. ByteOf(s, 0 + j - 1) = s[j] /\ <<s[j]>> \in Text /\ Len(<<s[j]>>) = 1 /\ <<s[j]>>[1] = s[j]
      BY <1>1, ByteSeqs DEF ByteOf
    <3> DEFINE a == Part(s, 0, j - 1)
               b == <<s[j]>>
               c == Part(s, 0, j)
    <3>3. c[Len(a) + 1] = b[1] /\ Len(c) = Len(a) + Len(b)
      BY <3>1, <3>2
    <3>4. \A i \in 1..Len(a) : c[i] = a[i]
      BY <3>1
    <3>5. a \in Text /\ b \in Text /\ c \in Text /\ Len(b) = 1
      BY <3>1, <3>2
    <3> HIDE DEF a, b, c
    <3>6. \A i \in 1..Len(b) : c[Len(a) + i] = b[i]
      BY <3>3, <3>5
    <3>7. a \o b = c
      BY <3>3, <3>4, <3>5, <3>6, ConcatIs, Zenon
    <3> QED
      BY <3>7 DEF a, b, c
  <2> QED
    BY <1>6, <2>1, <2>2
<1> HIDE DEF T
<1>7. n \in T
  BY <1>1, <1>5, <1>6, Climb
<1>8. Part(s, 0, n) = s
  <2>1. Part(s, 0, n) \in Text /\ Len(Part(s, 0, n)) = n
        /\ \A i \in 1..n : Part(s, 0, n)[i] = ByteOf(s, 0 + i - 1)
    BY <1>1, PartFacts
  <2>2. \A i \in 1..n : ByteOf(s, 0 + i - 1) = s[i]
    BY <1>1 DEF ByteOf
  <2> QED
    BY <2>1, <2>2, TextEqual
<1> QED
  BY <1>4, <1>7, <1>8 DEF T, t

-----------------------------------------------------------------------------
(* The encoders write what is spelled.                                     *)

LEMMA UnitSpelled ==
  ASSUME NEW q \in Quotes, NEW escapes, NEW u, NEW d, IsUnit(q, escapes, u, d)
  PROVE  <<u, d>> \in Spelled(q, escapes)
<1>1. u \o <<>> = u /\ d \o <<>> = d
  BY UnitTexts, TextWhole
<1> QED
  BY <1>1, SpelledMore, SpelledNothing

(* Byte by byte. *)
LEMMA BytesSpelled ==
  ASSUME NEW q \in Quotes, NEW escapes, NEW s \in Text, NEW ws, DOMAIN ws = 1..Len(s),
         ws = [k \in 1..Len(s) |-> ws[k]],
         \A k \in 1..Len(s) : IsUnit(q, escapes, ws[k], <<s[k]>>)
  PROVE  <<FlattenSeq(ws), s>> \in Spelled(q, escapes)
<1> DEFINE cs == [k \in 1..Len(s) |-> <<s[k]>>]
<1>1. \A k \in 1..Len(s) : <<ws[k], cs[k]>> \in Spelled(q, escapes)
  BY UnitSpelled
<1>2. \A k \in 1..Len(s) : ws[k] \in Text
  BY UnitTexts
<1>3. Len(s) \in Nat /\ \A k \in 1..Len(s) : s[k] \in Byte
  BY DEF Text
<1>4. cs \in Seq(Text) /\ Len(cs) = Len(s)
  BY <1>3, ByteSeqs
<1>5. ws \in Seq(Text) /\ Len(ws) = Len(s)
  <2>1. ws \in [1..Len(s) -> Text]
    BY <1>2
  <2> QED
    BY <1>3, <2>1
<1> HIDE DEF cs
<1>6. <<FlattenSeq(ws), FlattenSeq(cs)>> \in Spelled(q, escapes)
  BY <1>1, <1>4, <1>5, FlattenSpelled
<1>7. FlattenSeq(cs) = s
  BY FlattenBytes DEF cs
<1> QED
  BY <1>6, <1>7

LEMMA IdentSpelled ==
  ASSUME NEW s \in Text
  PROVE  \E w : /\ <<w, s>> \in Spelled(DoubleQuote, FALSE)
                /\ EncodeEscapedSQLIdent(s) = <<DoubleQuote>> \o w \o <<DoubleQuote>>
<1> DEFINE ws == [k \in 1..Len(s) |->
                     IF s[k] = DoubleQuote THEN <<DoubleQuote, DoubleQuote>> ELSE <<s[k]>>]
<1>1. DoubleQuote \in Quotes
  BY DEF Quotes
<1>2. \A k \in 1..Len(s) : s[k] \in Byte
  BY DEF Text
<1>3. \A k \in 1..Len(s) : IsUnit(DoubleQuote, FALSE, ws[k], <<s[k]>>)
  BY <1>2 DEF IsUnit
<1>4. DOMAIN ws = 1..Len(s) /\ ws = [k \in 1..Len(s) |-> ws[k]]
  OBVIOUS
<1>5. EncodeEscapedSQLIdent(s) = <<DoubleQuote>> \o FlattenSeq(ws) \o <<DoubleQuote>>
  BY DEF EncodeEscapedSQLIdent
<1> HIDE DEF ws
<1> QED
  BY <1>1, <1>3, <1>4, <1>5, BytesSpelled

LEMMA SQLBytesSpelled ==
  ASSUME NEW s \in Text
  PROVE  \E w : /\ <<w, s>> \in Spelled(Quote, TRUE)
                /\ EncodeSQLBytes(s) = <<98, Quote>> \o w \o <<Quote>>
<1> DEFINE Encoded(ch) ==
               IF NeedEscape(ch) THEN <<Backslash, EscapeLetter[ch]>>
               ELSE IF ch = Quote THEN <<Backslash, Quote>>
               ELSE IF IsPrintable(ch) THEN <<ch>> ELSE HexEscape(ch)
           ws == [k \in 1..Len(s) |-> Encoded(s[k])]
<1>1. Quote \in Quotes
  BY DEF Quotes
<1>2. \A k \in 1..Len(s) : s[k] \in Byte
  BY DEF Text
<1>3. \A ch \in Byte : IsUnit(Quote, TRUE, Encoded(ch), <<ch>>)
  <2> TAKE ch \in Byte
  <2>1. ~NeedEscape(ch) => ch # Backslash
    BY EscapeLetters6 DEF NeedEscape, Backslash
  <2>2. CASE NeedEscape(ch)
    BY <2>2 DEF IsUnit, NeedEscape
  <2>3. CASE ~NeedEscape(ch)
    BY <2>1, <2>3 DEF IsUnit
  <2> QED
    BY <2>2, <2>3
<1>4. EncodeSQLBytes(s) = <<98, Quote>> \o FlattenSeq(ws) \o <<Quote>>
  BY DEF EncodeSQLBytes
<1> HIDE DEF Encoded
<1>5. \A k \in 1..Len(s) : IsUnit(Quote, TRUE, ws[k], <<s[k]>>)
  BY <1>2, <1>3
<1>6. DOMAIN ws = 1..Len(s) /\ ws = [k \in 1..Len(s) |-> ws[k]]
  OBVIOUS
<1> HIDE DEF ws
<1> QED
  BY <1>1, <1>4, <1>5, <1>6, BytesSpelled

-----------------------------------------------------------------------------
(* Runes.                                                                  *)

RuneSet == {v \in Nat : v <= MaxRune /\ v \notin Surrogates}

(* The second bytes that tell the longer runes apart. *)
LEMMA RuneSeconds ==
  ASSUME NEW s \in Text, NEW i \in 1..Len(s), RuneLength(s, i) > 0
  PROVE  /\ s[i] = 224 => Between(s[i + 1], 160, 191)
         /\ s[i] = 237 => Between(s[i + 1], 128, 159)
         /\ s[i] = 240 => Between(s[i + 1], 144, 191)
<1> DEFINE Follow(n, second) ==
               IF /\ i + n - 1 <= Len(s)
                  /\ s[i+1] \in second
                  /\ \A k \in (i + 2)..(i + n - 1) : s[k] \in Continuation
               THEN n ELSE 0
<1> DEFINE C3 == 160..191
           D3 == 128..159
           C4 == 144..191
           D4 == 128..143
           B2 == 194..223
           B3 == 225..239
           B4 == 241..243
<1>1. \A n, C : Follow(n, C) > 0 => s[i + 1] \in C
  BY SMT
<1>2. /\ \A b : b \in B2 <=> Between(b, 194, 223)
      /\ \A b : b \in B3 <=> Between(b, 225, 239)
      /\ \A b : b \in B4 <=> Between(b, 241, 243)
  BY LeadBytes, Zenon
<1>3. /\ \A b : b \in C3 => Between(b, 160, 191)
      /\ \A b : b \in D3 => Between(b, 128, 159)
      /\ \A b : b \in C4 => Between(b, 144, 191)
  <2>1. 160 \in Int /\ 191 \in Int /\ 128 \in Int /\ 159 \in Int /\ 144 \in Int
    OBVIOUS
  <2> QED
    BY <2>1, IntervalIs, Zenon
<1> HIDE DEF Follow
<1>4. RuneLength(s, i) =
          IF s[i] < 128 THEN 1
          ELSE IF s[i] \in B2 THEN Follow(2, Continuation)
          ELSE IF s[i] = 224 THEN Follow(3, C3)
          ELSE IF s[i] = 237 THEN Follow(3, D3)
          ELSE IF s[i] \in B3 THEN Follow(3, Continuation)
          ELSE IF s[i] = 240 THEN Follow(4, C4)
          ELSE IF s[i] \in B4 THEN Follow(4, Continuation)
          ELSE IF s[i] = 244 THEN Follow(4, D4) ELSE 0
  BY DEF RuneLength, Follow
<1> HIDE DEF B2, B3, B4, C3, D3, C4, D4
<1>5. /\ s[i] = 224 => RuneLength(s, i) = Follow(3, C3)
      /\ s[i] = 237 => RuneLength(s, i) = Follow(3, D3)
      /\ s[i] = 240 => RuneLength(s, i) = Follow(4, C4)
  BY <1>2, <1>4, SMT DEF Between
<1> HIDE DEF Follow
<1>6. CASE s[i] = 224
  BY <1>1, <1>3, <1>5, <1>6, SMT
<1>7. CASE s[i] = 237
  BY <1>1, <1>3, <1>5, <1>7, SMT
<1>8. CASE s[i] = 240
  BY <1>1, <1>3, <1>5, <1>8, SMT
<1> QED
  BY <1>6, <1>7, <1>8, SMT

LEMMA SurrogateIs == \A x : x \in Surrogates <=> Between(x, 55296, 57343)
<1> DEFINE low  == 55296
           high == 57343
<1>1. low \in Int /\ high \in Int
  OBVIOUS
<1> HIDE DEF low, high
<1>2. \A x : x \in low..high <=> Between(x, low, high)
  BY <1>1, IntervalIs
<1> QED
  BY <1>2 DEF low, high, Surrogates

LEMMA RuneDecoded ==
  ASSUME NEW s \in Text, NEW i \in 1..Len(s), NEW n, n = RuneLength(s, i), n > 0
  PROVE  /\ n \in 1..4 /\ i + n <= Len(s) + 1
         /\ RuneAt(s, i, n) \in RuneSet
         /\ EncodeRune(RuneAt(s, i, n)) = Part(s, i - 1, i + n - 1)
<1> DEFINE a == s[i]
           b == s[i + 1]
           c == s[i + 2]
           d == s[i + 3]
           v == RuneAt(s, i, n)
<1>1. /\ n \in 1..4 /\ a \in Byte /\ i + n <= Len(s) + 1 /\ Len(s) \in Nat
      /\ n = 1 => a < 128
      /\ n = 2 => Between(a, 194, 223) /\ b \in Continuation
      /\ n = 3 => Between(a, 224, 239) /\ b \in Continuation /\ c \in Continuation
      /\ n = 4 => Between(a, 240, 244) /\ b \in Continuation /\ (a = 244 => b <= 143)
                  /\ c \in Continuation /\ d \in Continuation
  BY RuneLengthSpec DEF Text
<1>2. /\ a = 224 => Between(b, 160, 191)
      /\ a = 237 => Between(b, 128, 159)
      /\ a = 240 => Between(b, 144, 191)
  BY RuneSeconds
<1>3. /\ n = 1 => v = a
      /\ n = 2 => v = (a - 192) * 64 + b - 128
      /\ n = 3 => v = (a - 224) * 4096 + (b - 128) * 64 + c - 128
      /\ n = 4 => v = (a - 240) * 262144 + (b - 128) * 4096
                                    + (c - 128) * 64 + d - 128
  BY SMT DEF RuneAt
<1>4. v \in Nat /\ v <= MaxRune
  BY RuneAtRange DEF MaxRune
<1>5. \A x : x \in Surrogates <=> Between(x, 55296, 57343)
  BY SurrogateIs
<1>6. Part(s, i - 1, i + n - 1) = IF n = 1 THEN <<a>> ELSE IF n = 2 THEN <<a, b>>
                                  ELSE IF n = 3 THEN <<a, b, c>> ELSE <<a, b, c, d>>
  <2> DEFINE p == Part(s, i - 1, i + n - 1)
  <2>1. i - 1 \in Nat /\ i + n - 1 \in 0..Len(s) /\ i - 1 <= i + n - 1 /\ (i + n - 1) - (i - 1) = n
    BY <1>1, SMTT(40)
  <2>2. p \in Text /\ Len(p) = n /\ \A k \in 1..n : p[k] = ByteOf(s, (i - 1) + k - 1)
    <3>1. p \in Text /\ Len(p) = (i + n - 1) - (i - 1)
      BY <2>1, PartFacts
    <3>2. \A k \in 1..Len(p) : p[k] = ByteOf(s, (i - 1) + k - 1)
      BY <2>1, PartFacts
    <3> HIDE DEF p
    <3> QED
      BY <2>1, <3>1, <3>2
  <2>3. \A k \in 1..n : ByteOf(s, (i - 1) + k - 1) = s[i + (k - 1)]
    <3> TAKE k \in 1..n
    <3>1. (i - 1) + k - 1 < Len(s) /\ ((i - 1) + k - 1) + 1 = i + (k - 1)
      BY <1>1
    <3> QED
      BY <3>1 DEF ByteOf
  <2> HIDE DEF p
  <2>4. /\ p[1] = a
        /\ n > 1 => p[2] = b
        /\ n > 2 => p[3] = c
        /\ n > 3 => p[4] = d
    BY <1>1, <2>2, <2>3
  <2>5. p \in Seq(Byte)
    BY <2>2 DEF Text
  <2> HIDE DEF a, b, c, d
  <2>6. CASE n = 1
    <3>1. p = <<a>>
      BY <2>2, <2>4, <2>5, <2>6
    <3> QED
      BY <2>6, <3>1 DEF p
  <2>7. CASE n = 2
    <3>1. p = <<a, b>>
      BY <2>2, <2>4, <2>5, <2>7
    <3> QED
      BY <2>7, <3>1 DEF p
  <2>8. CASE n = 3
    <3>1. p = <<a, b, c>>
      BY <2>2, <2>4, <2>5, <2>8
    <3> QED
      BY <2>8, <3>1 DEF p
  <2>9. CASE n = 4
    <3>1. p = <<a, b, c, d>>
      BY <2>2, <2>4, <2>5, <2>9
    <3> QED
      BY <2>9, <3>1 DEF p
  <2> QED
    BY <1>1, <2>6, <2>7, <2>8, <2>9
<1> HIDE DEF a, b, c, d, v
<1>7. CASE n = 1
  <2>1. v < 128 /\ v = a
    BY <1>1, <1>3, <1>7
  <2>2. EncodeRune(v) = <<v>> /\ v \notin Surrogates
    BY <1>4, <1>5, <2>1 DEF EncodeRune, Between
  <2> QED
    BY <1>1, <1>4, <1>6, <1>7, <2>1, <2>2 DEF RuneSet, v
<1>8. CASE n = 2
  <2>1. v = (a - 192) * 64 + b - 128 /\ Between(a, 194, 223) /\ Between(b, 128, 191)
    BY <1>1, <1>3, <1>8, ContinuationIs
  <2>2. v >= 128 /\ v < 2048 /\ 192 + (v \div 64) = a /\ 128 + (v % 64) = b
    BY <2>1, SMTT(30) DEF Between
  <2>3. EncodeRune(v) = <<a, b>> /\ v \notin Surrogates
    BY <1>4, <1>5, <2>2 DEF EncodeRune, Between
  <2> QED
    BY <1>1, <1>4, <1>6, <1>8, <2>3 DEF RuneSet, v
<1>9. CASE n = 3
  <2>1. /\ v = (a - 224) * 4096 + (b - 128) * 64 + c - 128
        /\ Between(a, 224, 239) /\ Between(b, 128, 191) /\ Between(c, 128, 191)
    BY <1>1, <1>3, <1>9, ContinuationIs
  <2>2. /\ v >= 2048 /\ v < 65536 /\ ~Between(v, 55296, 57343)
        /\ 224 + (v \div 4096) = a /\ 128 + ((v \div 64) % 64) = b /\ 128 + (v % 64) = c
    BY <1>2, <2>1, SMTT(60) DEF Between
  <2>3. EncodeRune(v) = <<a, b, c>> /\ v \notin Surrogates
    BY <1>4, <1>5, <2>2 DEF EncodeRune
  <2> QED
    BY <1>1, <1>4, <1>6, <1>9, <2>3 DEF RuneSet, v
<1>10. CASE n = 4
  <2>1. /\ v = (a - 240) * 262144 + (b - 128) * 4096 + (c - 128) * 64 + d - 128
        /\ Between(a, 240, 244) /\ Between(b, 128, 191) /\ Between(c, 128, 191) /\ Between(d, 128, 191)
    BY <1>1, <1>3, <1>10, ContinuationIs
  <2>2. /\ v >= 65536
        /\ 240 + (v \div 262144) = a /\ 128 + ((v \div 4096) % 64) = b
        /\ 128 + ((v \div 64) % 64) = c /\ 128 + (v % 64) = d
    BY <1>2, <2>1, SMTT(60) DEF Between
  <2>3. EncodeRune(v) = <<a, b, c, d>> /\ v \notin Surrogates
    BY <1>4, <1>5, <2>2 DEF EncodeRune, Between
  <2> QED
    BY <1>1, <1>4, <1>6, <1>10, <2>3 DEF RuneSet, v
<1> QED
  BY <1>1, <1>7, <1>8, <1>9, <1>10

-----------------------------------------------------------------------------
(* How EncodeSQLString writes a rune. *)
WrittenRune(v) == IF CopiedRune(v) THEN <<v>> ELSE EncodeEscapedChar(v)

LEMMA HexRunSpelled ==
  ASSUME NEW b \in Text, Len(b) = 3
  PROVE  <<FlattenSeq([k \in 1..3 |-> HexEscape(b[k])]), b>> \in Spelled(Quote, TRUE)
<1> DEFINE ws == [k \in 1..3 |-> HexEscape(b[k])]
<1>1. \A k \in 1..Len(b) : b[k] \in Byte
  BY DEF Text
<1>2. DOMAIN ws = 1..Len(b) /\ ws = [k \in 1..Len(b) |-> ws[k]]
  OBVIOUS
<1>3. \A k \in 1..Len(b) : IsUnit(Quote, TRUE, ws[k], <<b[k]>>)
  BY <1>1 DEF IsUnit
<1>4. Quote \in Quotes
  BY DEF Quotes
<1> HIDE DEF ws
<1> QED
  BY <1>2, <1>3, <1>4, BytesSpelled DEF ws

LEMMA PlaceWords ==
  ASSUME NEW v \in Nat
  PROVE  /\ <<Backslash, 117>> \o [k \in 1..4 |-> UpperHexDigit((v \div Powers16[k + 2]) % 16)] = ShortRune(v)
         /\ <<Backslash, 85, 48, 48>> \o [k \in 1..6 |-> UpperHexDigit((v \div Powers16[k]) % 16)] = LongRune(v)
<1> DEFINE P(n) == UpperHexDigit((v \div n) % 16)
           five == 65536
           six == 1048576
           x == [k \in 1..4 |-> P(Powers16[k + 2])]
           y == [k \in 1..6 |-> P(Powers16[k])]
<1>1. /\ Powers16[1] = six /\ Powers16[2] = five /\ Powers16[3] = 4096
      /\ Powers16[4] = 256 /\ Powers16[5] = 16 /\ Powers16[6] = 1
  BY SMT DEF Powers16
<1> HIDE DEF P, five, six
<1>2. x = <<P(4096), P(256), P(16), P(1)>>
  <2>1. \A k \in 1..4 : k = 1 \/ k = 2 \/ k = 3 \/ k = 4
    OBVIOUS
  <2>2. x[1] = P(4096) /\ x[2] = P(256) /\ x[3] = P(16) /\ x[4] = P(1)
    BY <1>1
  <2>3. x = [k \in 1..4 |-> x[k]]
    OBVIOUS
  <2> HIDE DEF x
  <2> QED
    BY <2>1, <2>2, <2>3
<1>3. y = <<P(six), P(five), P(4096), P(256), P(16), P(1)>>
  <2>1. \A k \in 1..6 : k = 1 \/ k = 2 \/ k = 3 \/ k = 4 \/ k = 5 \/ k = 6
    OBVIOUS
  <2>2. /\ y[1] = P(six) /\ y[2] = P(five) /\ y[3] = P(4096)
        /\ y[4] = P(256) /\ y[5] = P(16) /\ y[6] = P(1)
    BY <1>1
  <2>3. y = [k \in 1..6 |-> y[k]]
    OBVIOUS
  <2> HIDE DEF y
  <2> QED
    BY <2>1, <2>2, <2>3
<1> HIDE DEF x, y
<1>p. /\ Backslash \in Byte /\ 117 \in Byte /\ 85 \in Byte /\ 48 \in Byte
      /\ \A n \in Nat \ {0} : P(n) \in Byte
  <2>1. \A n \in Nat \ {0} : HexPlace(v, n) \in Byte
    BY HexPlaces
  <2>2. 117 \in Byte /\ 85 \in Byte /\ 48 \in Byte
    BY ByteIs, SMT DEF Between
  <2> QED
    BY <2>1, <2>2, QuoteBytes DEF P, HexPlace
<1>q. five \in Nat \ {0} /\ six \in Nat \ {0}
  BY SMT DEF five, six
<1>x. /\ Len(x) = 4 /\ x \in Text
      /\ x[1] = P(4096) /\ x[2] = P(256) /\ x[3] = P(16) /\ x[4] = P(1)
  BY <1>2, <1>p DEF Text
<1>y. /\ Len(y) = 6 /\ y \in Text
      /\ y[1] = P(six) /\ y[2] = P(five) /\ y[3] = P(4096) /\ y[4] = P(256)
      /\ y[5] = P(16) /\ y[6] = P(1)
  BY <1>3, <1>p, <1>q DEF Text
<1> DEFINE short == <<Backslash, 117>>
           long == <<Backslash, 85, 48, 48>>
           u == <<Backslash, 117, P(4096), P(256), P(16), P(1)>>
           w == <<Backslash, 85, 48, 48, P(six), P(five), P(4096), P(256), P(16), P(1)>>
<1>s. /\ short \in Text /\ Len(short) = 2 /\ short[1] = Backslash /\ short[2] = 117
      /\ long \in Text /\ Len(long) = 4 /\ long[1] = Backslash /\ long[2] = 85
      /\ long[3] = 48 /\ long[4] = 48
  BY <1>p DEF Text
<1>u. /\ u \in Text /\ Len(u) = 6
      /\ u[1] = Backslash /\ u[2] = 117
      /\ u[3] = P(4096) /\ u[4] = P(256) /\ u[5] = P(16) /\ u[6] = P(1)
  BY <1>p DEF Text
<1>w. /\ w \in Text /\ Len(w) = 10
      /\ w[1] = Backslash /\ w[2] = 85 /\ w[3] = 48 /\ w[4] = 48
      /\ w[5] = P(six) /\ w[6] = P(five) /\ w[7] = P(4096) /\ w[8] = P(256)
      /\ w[9] = P(16) /\ w[10] = P(1)
  BY <1>p, <1>q DEF Text
<1> HIDE DEF short, long, u, w
<1>6. short \o x = u
  <2>1. \A i \in 1..2 : u[i] = short[i]
    BY <1>s, <1>u
  <2>2. \A i \in 1..4 : u[2 + i] = x[i]
    BY <1>x, <1>u
  <2>3. /\ Len(u) = Len(short) + Len(x)
        /\ \A i \in 1..Len(short) : u[i] = short[i]
        /\ \A i \in 1..Len(x) : u[Len(short) + i] = x[i]
    BY <1>s, <1>u, <1>x, <2>1, <2>2
  <2> QED
    <3>1. short \in Text /\ x \in Text /\ u \in Text
      BY <1>s, <1>u, <1>x
    <3> QED
      BY <2>3, <3>1, ConcatIs, Zenon
<1>7. long \o y = w
  <2>1. \A i \in 1..4 : w[i] = long[i]
    BY <1>s, <1>w
  <2>2. \A i \in 1..6 : w[4 + i] = y[i]
    BY <1>y, <1>w
  <2>3. /\ Len(w) = Len(long) + Len(y)
        /\ \A i \in 1..Len(long) : w[i] = long[i]
        /\ \A i \in 1..Len(y) : w[Len(long) + i] = y[i]
    BY <1>s, <1>w, <1>y, <2>1, <2>2
  <2> QED
    <3>1. long \in Text /\ y \in Text /\ w \in Text
      BY <1>s, <1>w, <1>y
    <3> QED
      BY <2>3, <3>1, ConcatIs, Zenon
<1>8. <<Backslash, 117>> \o x = ShortRune(v)
  BY <1>6, SMT DEF P, ShortRune, HexPlace, short, u
<1>9. <<Backslash, 85, 48, 48>> \o y = LongRune(v)
  BY <1>7, SMT DEF P, LongRune, HexPlace, five, six, long, w
<1> QED
  BY <1>8, <1>9, SMT DEF x, y, P

LEMMA RuneSpelled ==
  ASSUME NEW v \in RuneSet, NEW escapes \in BOOLEAN, escapes \/ CopiedRune(v)
  PROVE  <<WrittenRune(v), EncodeRune(v)>> \in Spelled(Quote, escapes)
<1>1. Quote \in Quotes /\ v \in Nat /\ v <= MaxRune /\ v \notin Surrogates
  BY DEF Quotes, RuneSet
<1>2. SUFFICES ASSUME ~(v = RuneError /\ ~CopiedRune(v))
               PROVE  IsUnit(Quote, escapes, WrittenRune(v), EncodeRune(v))
  <2>1. ASSUME IsUnit(Quote, escapes, WrittenRune(v), EncodeRune(v))
        PROVE  <<WrittenRune(v), EncodeRune(v)>> \in Spelled(Quote, escapes)
    BY <1>1, <2>1, UnitSpelled
  <2>2. ASSUME v = RuneError, ~CopiedRune(v)
        PROVE  <<WrittenRune(v), EncodeRune(v)>> \in Spelled(Quote, escapes)
    <3> DEFINE b == EncodeRune(v)
    <3>1. b \in Text /\ Len(b) = 3
      <4>1. b \in Text
        BY <1>1, EncodeRuneText DEF MaxRune
      <4>2. b = <<224 + (v \div 4096), 128 + ((v \div 64) % 64), 128 + (v % 64)>>
        BY <2>2 DEF EncodeRune, RuneError
      <4> HIDE DEF b
      <4> QED
        BY <4>1, <4>2
    <3>2. WrittenRune(v) = FlattenSeq([k \in 1..3 |-> HexEscape(b[k])])
      BY <2>2 DEF WrittenRune, EncodeEscapedChar
    <3> HIDE DEF b
    <3>3. escapes = TRUE
      BY <2>2
    <3> QED
      BY <3>1, <3>2, <3>3, HexRunSpelled DEF b
  <2> QED
    BY <2>1, <2>2
<1>3. CASE CopiedRune(v)
  <2>1. /\ v >= 32 /\ v < 127 /\ v # Quote /\ v # Backslash
    BY <1>3, EscapeLetters6 DEF CopiedRune, IsPrintable, NeedEscape, Backslash
  <2>2. v \in Byte /\ EncodeRune(v) = <<v>> /\ WrittenRune(v) = <<v>>
    BY <1>1, <1>3, <2>1, ByteIs DEF Between, EncodeRune, WrittenRune
  <2> QED
    BY <2>1, <2>2 DEF IsUnit
<1>4. CASE ~CopiedRune(v)
  <2>1. /\ escapes /\ v # RuneError /\ WrittenRune(v) = EncodeEscapedChar(v)
    BY <1>2, <1>4 DEF WrittenRune
  <2>2. CASE v < 128
    <3>1. v \in Byte /\ EncodeRune(v) = <<v>>
      BY <1>1, <2>2, ByteIs DEF Between, EncodeRune
    <3>2. EncodeEscapedChar(v) = IF NeedEscape(v) THEN <<Backslash, EscapeLetter[v]>>
                                 ELSE IF v = Quote THEN <<Backslash, Quote>> ELSE HexEscape(v)
      BY <2>1, <2>2 DEF EncodeEscapedChar
    <3>3. CASE NeedEscape(v)
      BY <2>1, <3>1, <3>2, <3>3 DEF IsUnit, NeedEscape
    <3>4. CASE ~NeedEscape(v) /\ v = Quote
      BY <2>1, <3>1, <3>2, <3>4 DEF IsUnit
    <3>5. CASE ~NeedEscape(v) /\ v # Quote
      BY <2>1, <3>1, <3>2, <3>5 DEF IsUnit
    <3> QED
      BY <3>3, <3>4, <3>5
  <2>3. CASE ~(v < 128) /\ v < 2048
    <3>1. EncodeEscapedChar(v) = ShortRune(v)
      <4>1. EncodeEscapedChar(v)
               = <<Backslash, 117>> \o [k \in 1..4 |-> UpperHexDigit((v \div Powers16[k + 2]) % 16)]
        BY <2>1, <2>3, SMT DEF EncodeEscapedChar
      <4> QED
        BY <1>1, <4>1, PlaceWords
    <3> QED
      BY <1>1, <2>1, <2>3, <3>1 DEF IsUnit
  <2>4. CASE ~(v < 128) /\ ~(v < 2048)
    <3>1. EncodeEscapedChar(v) = LongRune(v)
      <4>1. EncodeEscapedChar(v)
               = <<Backslash, 85, 48, 48>> \o [k \in 1..6 |-> UpperHexDigit((v \div Powers16[k]) % 16)]
        BY <2>1, <2>4, SMT DEF EncodeEscapedChar
      <4> QED
        BY <1>1, <4>1, PlaceWords
    <3> QED
      BY <1>1, <2>1, <2>4, <3>1 DEF IsUnit
  <2> QED
    BY <2>2, <2>3, <2>4
<1> QED
  BY <1>3, <1>4

-----------------------------------------------------------------------------
(* ValidUTF8 and Runes: the recursions have a solution.                    *)

RuneWidth(s) == [i \in 1..(Len(s) + 1) |-> IF i = Len(s) + 1 THEN 0 ELSE RuneLength(s, i)]

LEMMA RuneWidths ==
  ASSUME NEW s \in Text
  PROVE  /\ Len(s) \in Nat /\ Len(s) + 1 \in Nat \ {0}
         /\ RuneWidth(s) \in [1..(Len(s) + 1) -> Nat]
         /\ \A i \in 1..(Len(s) + 1) : i + RuneWidth(s)[i] <= Len(s) + 1
         /\ RuneWidth(s)[Len(s) + 1] = 0
         /\ \A i \in 1..Len(s) : RuneWidth(s)[i] = RuneLength(s, i)
<1>1. Len(s) \in Nat /\ Len(s) + 1 \in 1..(Len(s) + 1)
  BY DEF Text
<1>2. \A i \in 1..(Len(s) + 1) : i = Len(s) + 1 \/ i \in 1..Len(s)
  BY <1>1
<1>3. \A i \in 1..Len(s) : /\ RuneLength(s, i) \in Nat /\ i + RuneLength(s, i) <= Len(s) + 1
                           /\ i # Len(s) + 1 /\ i \in 1..(Len(s) + 1)
  <2> TAKE i \in 1..Len(s)
  <2>1. /\ RuneLength(s, i) \in 0..4
        /\ RuneLength(s, i) > 0 => i + RuneLength(s, i) <= Len(s) + 1
    BY RuneLengthSpec
  <2>2. RuneLength(s, i) = 0 => i + RuneLength(s, i) <= Len(s) + 1
    BY <1>1
  <2> QED
    BY <1>1, <2>1, <2>2
<1>4. /\ RuneWidth(s)[Len(s) + 1] = 0
      /\ \A i \in 1..Len(s) : RuneWidth(s)[i] = RuneLength(s, i)
  BY <1>1, <1>3 DEF RuneWidth
<1>5. /\ RuneWidth(s) \in [1..(Len(s) + 1) -> Nat]
      /\ \A i \in 1..(Len(s) + 1) : i + RuneWidth(s)[i] <= Len(s) + 1
  <2>1. ASSUME NEW i \in 1..(Len(s) + 1)
        PROVE  RuneWidth(s)[i] \in Nat /\ i + RuneWidth(s)[i] <= Len(s) + 1
    BY <1>1, <1>2, <1>3, <1>4
  <2>2. RuneWidth(s) = [i \in 1..(Len(s) + 1) |-> RuneWidth(s)[i]]
    BY DEF RuneWidth
  <2> QED
    BY <2>1, <2>2
<1> QED
  BY <1>1, <1>4, <1>5

(* From i on s is runes, one after the other. *)
ValidFrom(s, f) ==
    f = [i \in 1..(Len(s) + 1) |->
            \/ i = Len(s) + 1
            \/ RuneLength(s, i) > 0 /\ f[i + RuneLength(s, i)]]

LEMMA ValidIs ==
  ASSUME NEW s \in Text
  PROVE  \E f : ValidFrom(s, f) /\ ValidUTF8(s) = f[1]
<1> DEFINE l == Len(s) + 1
           w == RuneWidth(s)
           e == [i \in 1..l |-> i = l]
           G == [i \in 1..l |-> [x \in BOOLEAN |-> x]]
<1>1. /\ l \in Nat \ {0} /\ w \in [1..l -> Nat] /\ w[l] = 0
      /\ \A i \in 1..l : i + w[i] <= l
      /\ \A i \in 1..l : i # l => i \in 1..Len(s)
      /\ \A i \in 1..Len(s) : w[i] = RuneLength(s, i)
  BY RuneWidths
<1>2. e \in [1..l -> BOOLEAN] /\ G \in [1..l -> [BOOLEAN -> BOOLEAN]]
  OBVIOUS
<1>3. (\A i \in 1..l : e[i] = (i = l)) /\ (\A i \in 1..l : \A x \in BOOLEAN : G[i][x] = x)
  OBVIOUS
<1> HIDE DEF e, G, w, l
<1>4. PICK f \in [1..l -> BOOLEAN] : Ahead(l, BOOLEAN, w, e, G, f)
  BY <1>1, <1>2, AheadExists
<1>5. ASSUME NEW i \in 1..l
      PROVE  f[i] = (i = l \/ (RuneLength(s, i) > 0 /\ f[i + RuneLength(s, i)]))
  <2>1. f[i] = IF w[i] = 0 THEN e[i] ELSE G[i][f[i + w[i]]]
    BY <1>4 DEF Ahead
  <2>2. CASE i = l
    BY <1>1, <1>3, <2>1, <2>2
  <2>3. CASE i # l
    <3>1. i \in 1..Len(s) /\ w[i] = RuneLength(s, i) /\ w[i] \in Nat
      BY <1>1, <2>3
    <3>2. CASE w[i] = 0
      <4>1. ~(RuneLength(s, i) > 0)
        BY <3>1, <3>2
      <4> QED
        BY <1>3, <2>1, <2>3, <3>2, <4>1
    <3>3. CASE w[i] # 0
      <4>1. i + w[i] \in 1..l /\ RuneLength(s, i) > 0
        <5>1. i + w[i] <= l /\ l \in Nat
          BY <1>1
        <5>2. w[i] \in Nat /\ w[i] # 0 /\ RuneLength(s, i) = w[i]
          BY <3>1, <3>3
        <5> DEFINE a == w[i]
                   b == RuneLength(s, i)
        <5>3. i + a <= l /\ l \in Nat /\ a \in Nat /\ a # 0 /\ b = a
          BY <5>1, <5>2
        <5> HIDE DEF a, b
        <5>4. i + a \in 1..l /\ b > 0
          BY <5>3
        <5> QED
          BY <5>4 DEF a, b
      <4>2. f[i + w[i]] \in BOOLEAN
        BY <4>1
      <4>3. f[i] = f[i + w[i]]
        BY <1>3, <2>1, <3>3, <4>2
      <4> QED
        BY <2>3, <3>1, <4>1, <4>2, <4>3
    <3> QED
      BY <3>2, <3>3
  <2> QED
    BY <2>2, <2>3
<1>6. ValidFrom(s, f)
  <2>1. f = [i \in 1..l |-> f[i]]
    OBVIOUS
  <2> QED
    BY <1>5, <2>1, Zenon DEF ValidFrom, l
<1> DEFINE g == CHOOSE h : ValidFrom(s, h)
<1>7. ValidUTF8(s) = g[1]
  BY Zenon DEF ValidUTF8, ValidFrom
<1>8. ValidFrom(s, g)
  BY <1>6, Zenon
<1> QED
  BY <1>7, <1>8

-----------------------------------------------------------------------------
(* Strings, rune by rune.                                                  *)

LEMMA PartJoin ==
  ASSUME NEW t \in Text, NEW p \in Nat, NEW q \in Nat, NEW r \in 0..Len(t), p <= q, q <= r
  PROVE  Part(t, p, q) \o Part(t, q, r) = Part(t, p, r)
<1>1. t \in Seq(Byte) /\ Len(t) \in Nat
  BY DEF Text
<1>2. p + 1 \in 1..(Len(t) + 1) /\ q \in ((p + 1) - 1)..Len(t) /\ r \in q..Len(t)
  BY <1>1
<1>3. SubSeq(t, p + 1, q) \o SubSeq(t, q + 1, r) = SubSeq(t, p + 1, r)
  BY <1>1, <1>2, ConcatAdjacentSubSeq
<1> QED
  BY <1>3 DEF Part

LEMMA PartAll == \A t \in Text : Part(t, 0, Len(t)) = t
<1> TAKE t \in Text
<1>1. SubSeq(t, 1, Len(t)) = t
  BY SubSeqFull DEF Text
<1> QED
  BY <1>1 DEF Part

LEMMA FlattenFirst ==
  ASSUME NEW a \in Text, NEW r \in Seq(Text)
  PROVE  FlattenSeq(<<a>> \o r) = a \o FlattenSeq(r)
<1> DEFINE n == Len(r)
           s == <<a>> \o r
<1>1. /\ n \in Nat /\ n \in 0..n
      /\ s \in Seq(Text) /\ Len(s) = n + 1 /\ s[1] = a
      /\ \A j \in 1..n : s[j + 1] = r[j] /\ r[j] \in Text
  OBVIOUS
<1> HIDE DEF s
<1>2. PICK f : JoinedBy(s, f) /\ FlattenSeq(s) = f[n + 1]
  BY <1>1, FlattenIs
<1>3. PICK g : JoinedBy(r, g) /\ FlattenSeq(r) = g[n]
  BY FlattenIs
<1> DEFINE T == {j \in 0..n : f[j + 1] = a \o g[j]}
<1>4. 0 \in T
  <2>1. 1 \in 1..(n + 1) /\ 1 - 1 = 0 /\ 0 + 1 = 1 /\ 0 \in 0..n
    BY <1>1
  <2>2. f[1] = f[0] \o a /\ f[0] = <<>> /\ g[0] = <<>>
    BY <1>1, <1>2, <1>3, <2>1 DEF JoinedBy
  <2>3. <<>> \o a = a \o <<>>
    BY TextWhole
  <2> QED
    BY <2>1, <2>2, <2>3
<1>5. ASSUME NEW j \in 1..n, j - 1 \in T PROVE j \in T
  <2>1. j + 1 \in 1..(n + 1) /\ (j + 1) - 1 = j /\ (j - 1) + 1 = j /\ j \in 0..n /\ j - 1 \in 0..n
    BY <1>1
  <2>2. f[j + 1] = f[j] \o r[j] /\ g[j] = g[j - 1] \o r[j]
    BY <1>1, <1>2, <1>3, <2>1 DEF JoinedBy
  <2>3. f[j] = a \o g[j - 1]
    BY <1>5, <2>1
  <2>4. g[j - 1] \in Text /\ r[j] \in Text
    BY <1>1, <1>3, <2>1 DEF JoinedBy
  <2>5. (a \o g[j - 1]) \o r[j] = a \o (g[j - 1] \o r[j])
    BY <2>4, TextsAssociate, Zenon
  <2>6. f[j + 1] = a \o g[j]
    BY <2>2, <2>3, <2>5, Zenon
  <2> QED
    BY <2>1, <2>6
<1> HIDE DEF T
<1>6. n \in T
  BY <1>1, <1>4, <1>5, Climb
<1>7. f[n + 1] = a \o g[n]
  BY <1>6 DEF T
<1> QED
  BY <1>2, <1>3, <1>7, Zenon DEF s

(* The runes from i on. *)
RunesFrom(s, f) ==
    f = [i \in 1..(Len(s) + 1) |->
            IF i = Len(s) + 1 \/ RuneLength(s, i) = 0 THEN <<>>
            ELSE <<RuneAt(s, i, RuneLength(s, i))>> \o f[i + RuneLength(s, i)]]

LEMMA RunesIs ==
  ASSUME NEW s \in Text
  PROVE  \E f : RunesFrom(s, f) /\ Runes(s) = f[1]
<1> DEFINE l == Len(s) + 1
           w == RuneWidth(s)
           R == Seq(RuneSet)
           e == [i \in 1..l |-> <<>>]
           G == [i \in 1..l |-> [x \in R |-> IF w[i] = 0 THEN <<>> ELSE <<RuneAt(s, i, w[i])>> \o x]]
<1>1. /\ l \in Nat \ {0} /\ w \in [1..l -> Nat] /\ w[l] = 0
      /\ \A i \in 1..l : i + w[i] <= l
      /\ \A i \in 1..l : i # l => i \in 1..Len(s)
      /\ \A i \in 1..Len(s) : w[i] = RuneLength(s, i)
  BY RuneWidths
<1> HIDE DEF w
<1>2. e \in [1..l -> R]
  OBVIOUS
<1>3. G \in [1..l -> [R -> R]]
  <2>1. ASSUME NEW i \in 1..l, NEW x \in R
        PROVE  (IF w[i] = 0 THEN <<>> ELSE <<RuneAt(s, i, w[i])>> \o x) \in R
    <3>1. CASE w[i] = 0
      BY <3>1
    <3>2. CASE w[i] # 0
      <4>1. i \in 1..Len(s) /\ w[i] = RuneLength(s, i) /\ w[i] > 0
        BY <1>1, <3>2
      <4>2. RuneAt(s, i, w[i]) \in RuneSet
        BY <4>1, RuneDecoded
      <4>3. \A v \in RuneSet, y \in R : <<v>> \o y \in R
        OBVIOUS
      <4> QED
        BY <3>2, <4>2, <4>3
    <3> QED
      BY <3>1, <3>2
  <2> HIDE DEF R
  <2> QED
    BY <2>1
<1>4. \A i \in 1..l : /\ e[i] = <<>>
                      /\ \A x \in R : w[i] # 0 => G[i][x] = <<RuneAt(s, i, w[i])>> \o x
  OBVIOUS
<1> HIDE DEF e, G, l, R
<1>5. PICK f \in [1..l -> R] : Ahead(l, R, w, e, G, f)
  BY <1>1, <1>2, <1>3, AheadExists
<1>6. ASSUME NEW i \in 1..l
      PROVE  f[i] = IF i = l \/ RuneLength(s, i) = 0 THEN <<>>
                    ELSE <<RuneAt(s, i, RuneLength(s, i))>> \o f[i + RuneLength(s, i)]
  <2>1. f[i] = IF w[i] = 0 THEN e[i] ELSE G[i][f[i + w[i]]]
    BY <1>5 DEF Ahead
  <2>2. CASE w[i] = 0
    <3>1. i = l \/ RuneLength(s, i) = 0
      BY <1>1, <2>2
    <3> QED
      BY <1>4, <2>1, <2>2, <3>1
  <2>3. CASE w[i] # 0
    <3>1. i # l /\ i \in 1..Len(s) /\ RuneLength(s, i) = w[i] /\ i + w[i] \in 1..l
      BY <1>1, <2>3
    <3>2. f[i + w[i]] \in R
      BY <3>1
    <3>3. f[i] = <<RuneAt(s, i, w[i])>> \o f[i + w[i]]
      BY <1>4, <2>1, <2>3, <3>2
    <3> QED
      BY <2>3, <3>1, <3>3
  <2> QED
    BY <2>2, <2>3
<1>7. RunesFrom(s, f)
  <2>1. f = [i \in 1..l |-> f[i]]
    OBVIOUS
  <2> QED
    BY <1>6, <2>1, Zenon DEF RunesFrom, l
<1> DEFINE g == CHOOSE h : RunesFrom(s, h)
<1>8. Runes(s) = g[1]
  BY Zenon DEF Runes, RunesFrom
<1>9. RunesFrom(s, g)
  BY <1>7, Zenon
<1> QED
  BY <1>8, <1>9

-----------------------------------------------------------------------------
(* The runes of y, as EncodeSQLString writes them. *)
WrittenAs(y) == FlattenSeq([k \in 1..Len(y) |-> WrittenRune(y[k])])

LEMMA WrittenTexts == \A v \in RuneSet : WrittenRune(v) \in Text
<1> TAKE v \in RuneSet
<1>1. <<WrittenRune(v), EncodeRune(v)>> \in Spelled(Quote, TRUE)
  BY RuneSpelled
<1> QED
  BY <1>1, SpelledTexts

LEMMA WrittenFirst ==
  ASSUME NEW v \in RuneSet, NEW y \in Seq(RuneSet)
  PROVE  WrittenAs(<<v>> \o y) = WrittenRune(v) \o WrittenAs(y)
<1> DEFINE n == Len(y)
           z == <<v>> \o y
           p == [k \in 1..n |-> WrittenRune(y[k])]
           q == [k \in 1..Len(z) |-> WrittenRune(z[k])]
           u == WrittenRune(v)
           c == <<u>> \o p
<1>1. /\ n \in Nat /\ Len(z) = n + 1 /\ z[1] = v
      /\ \A k \in 1..n : z[k + 1] = y[k] /\ y[k] \in RuneSet
      /\ \A k \in 1..(n + 1) : z[k] \in RuneSet
  OBVIOUS
<1> HIDE DEF z
<1>2. u \in Text
  BY WrittenTexts
<1>3. p \in Seq(Text) /\ Len(p) = n /\ \A k \in 1..n : p[k] = WrittenRune(y[k])
  BY <1>1, WrittenTexts
<1>4. q \in Seq(Text) /\ Len(q) = n + 1 /\ \A k \in 1..(n + 1) : q[k] = WrittenRune(z[k])
  BY <1>1, WrittenTexts
<1> HIDE DEF p, q, u
<1>5. c \in Seq(Text) /\ Len(c) = n + 1 /\ c[1] = u /\ \A k \in 1..n : c[k + 1] = p[k]
  BY <1>1, <1>2, <1>3
<1> HIDE DEF c
<1>6. ASSUME NEW k \in 1..(n + 1) PROVE q[k] = c[k]
  <2>1. CASE k = 1
    BY <1>1, <1>4, <1>5, <2>1 DEF u
  <2>2. CASE k # 1
    <3>1. k - 1 \in 1..n /\ (k - 1) + 1 = k
      BY <1>1, <2>2
    <3>2. c[k] = p[k - 1] /\ z[k] = y[k - 1]
      BY <1>1, <1>5, <3>1
    <3> QED
      BY <1>3, <1>4, <3>1, <3>2
  <2> QED
    BY <2>1, <2>2
<1>7. q = c
  BY <1>4, <1>5, <1>6, SeqEqual
<1>8. FlattenSeq(c) = u \o FlattenSeq(p)
  BY <1>2, <1>3, FlattenFirst DEF c
<1> QED
  BY <1>7, <1>8, Zenon DEF WrittenAs, q, p, z, u

LEMMA WrittenNone == WrittenAs(<<>>) = <<>>
<1>1. [k \in 1..Len(<<>>) |-> WrittenRune(<<>>[k])] = <<>>
  OBVIOUS
<1>2. FlattenSeq(<<>>) = <<>>
  <2>1. <<>> \in Seq(Text) /\ Len(<<>>) = 0
    OBVIOUS
  <2>2. PICK f : JoinedBy(<<>>, f) /\ FlattenSeq(<<>>) = f[0]
    BY <2>1, FlattenIs
  <2> QED
    BY <2>2 DEF JoinedBy
<1> QED
  BY <1>1, <1>2 DEF WrittenAs

(* From a valid place on, what is written is spelled. *)
LEMMA RunesSpelled ==
  ASSUME NEW s \in Text, NEW h, ValidFrom(s, h), NEW g, RunesFrom(s, g), NEW escapes \in BOOLEAN
  PROVE  \A i \in 1..(Len(s) + 1) :
            h[i] => /\ g[i] \in Seq(RuneSet)
                    /\ (\A k \in 1..Len(g[i]) : escapes \/ CopiedRune(g[i][k]))
                          => <<WrittenAs(g[i]), Part(s, i - 1, Len(s))>> \in Spelled(Quote, escapes)
<1> DEFINE l == Len(s) + 1
           R == Seq(RuneSet)
           Right(i) == h[i] => /\ g[i] \in R
                               /\ (\A k \in 1..Len(g[i]) : escapes \/ CopiedRune(g[i][k]))
                                    => <<WrittenAs(g[i]), Part(s, i - 1, Len(s))>> \in Spelled(Quote, escapes)
           T == {k \in Nat : k < l /\ ~Right(l - k)}
<1>1. /\ Len(s) \in Nat /\ l \in Nat \ {0}
      /\ \A i \in 1..l : i # l => i \in 1..Len(s)
      /\ \A i \in 1..Len(s) : RuneLength(s, i) \in Nat /\ i + RuneLength(s, i) <= l
  BY RuneWidths
<1>2. \A i \in 1..l : h[i] = (i = l \/ (RuneLength(s, i) > 0 /\ h[i + RuneLength(s, i)]))
  BY DEF ValidFrom
<1>3. \A i \in 1..l : g[i] = IF i = l \/ RuneLength(s, i) = 0 THEN <<>>
                             ELSE <<RuneAt(s, i, RuneLength(s, i))>> \o g[i + RuneLength(s, i)]
  BY DEF RunesFrom
<1>q. Quote \in Quotes
  BY DEF Quotes
<1>4. ASSUME NEW i \in 1..l, h[i], \A j \in 1..l : j > i => Right(j)
      PROVE  /\ g[i] \in R
             /\ (\A k \in 1..Len(g[i]) : escapes \/ CopiedRune(g[i][k]))
                    => <<WrittenAs(g[i]), Part(s, i - 1, Len(s))>> \in Spelled(Quote, escapes)
  <2>1. CASE i = l
    <3>1. g[i] = <<>> /\ i - 1 = Len(s)
      <4>1. g[i] = <<>>
        BY <1>3, <2>1, Zenon
      <4>2. i - 1 = Len(s)
        BY <1>1, <2>1
      <4> QED
        BY <4>1, <4>2
    <3>2. Part(s, Len(s), Len(s)) = <<>>
      BY <1>1, PartFacts
    <3>3. <<<<>>, <<>>>> \in Spelled(Quote, escapes)
      BY <1>q, SpelledNothing
    <3>4. <<>> \in R
      OBVIOUS
    <3> QED
      BY <3>1, <3>2, <3>3, <3>4, WrittenNone
  <2>2. CASE i # l
    <3> DEFINE n == RuneLength(s, i)
               v == RuneAt(s, i, n)
               y == g[i + n]
    <3>1. /\ i \in 1..Len(s) /\ i \in Nat /\ n \in Nat /\ n > 0 /\ h[i + n]
          /\ i + n \in 1..l /\ i + n > i /\ g[i] = <<v>> \o y
      <4>1. /\ h[i] = (i = l \/ (n > 0 /\ h[i + n]))
            /\ g[i] = IF i = l \/ n = 0 THEN <<>> ELSE <<v>> \o y
        BY <1>2, <1>3, Zenon
      <4>2. n > 0 /\ h[i + n]
        BY <1>4, <2>2, <4>1, Zenon
      <4>3. i \in 1..Len(s) /\ n \in Nat /\ i + n <= l
        BY <1>1, <2>2
      <4> HIDE DEF n, v, y
      <4>4. i \in Nat /\ i + n \in 1..l /\ i + n > i /\ n # 0
        BY <1>1, <4>2, <4>3
      <4> QED
        BY <2>2, <4>1, <4>2, <4>3, <4>4
    <3>2. v \in RuneSet /\ EncodeRune(v) = Part(s, i - 1, i + n - 1)
      BY <3>1, RuneDecoded
    <3>3. /\ y \in R
          /\ (\A k \in 1..Len(y) : escapes \/ CopiedRune(y[k]))
                => <<WrittenAs(y), Part(s, (i + n) - 1, Len(s))>> \in Spelled(Quote, escapes)
      BY <1>4, <3>1
    <3> HIDE DEF v, y, n
    <3>4. g[i] \in R
      BY <3>1, <3>2, <3>3
    <3>5. ASSUME \A k \in 1..Len(g[i]) : escapes \/ CopiedRune(g[i][k])
          PROVE  <<WrittenAs(g[i]), Part(s, i - 1, Len(s))>> \in Spelled(Quote, escapes)
      <4>1. /\ Len(<<v>> \o y) = Len(y) + 1 /\ (<<v>> \o y)[1] = v /\ Len(y) \in Nat
            /\ \A k \in 1..Len(y) : (<<v>> \o y)[k + 1] = y[k]
        BY <3>2, <3>3
      <4>2. escapes \/ CopiedRune(v)
        <5>1. Len(g[i]) = Len(y) + 1 /\ g[i][1] = v /\ Len(y) \in Nat
          BY <3>1, <4>1, Zenon
        <5>2. 1 \in 1..Len(g[i])
          BY <5>1
        <5>3. escapes \/ CopiedRune(g[i][1])
          BY <3>5, <5>2, Zenon
        <5> QED
          BY <5>1, <5>3, Zenon
      <4>3. \A k \in 1..Len(y) : escapes \/ CopiedRune(y[k])
        <5> TAKE k \in 1..Len(y)
        <5>1. k + 1 \in 1..(Len(y) + 1)
          BY <4>1
        <5> QED
          BY <3>1, <3>5, <4>1, <5>1
      <4>4. <<WrittenRune(v), EncodeRune(v)>> \in Spelled(Quote, escapes)
        BY <3>2, <4>2, RuneSpelled
      <4>5. <<WrittenAs(y), Part(s, (i + n) - 1, Len(s))>> \in Spelled(Quote, escapes)
        BY <3>3, <4>3
      <4>6. <<WrittenRune(v) \o WrittenAs(y), EncodeRune(v) \o Part(s, (i + n) - 1, Len(s))>>
               \in Spelled(Quote, escapes)
        BY <1>q, <4>4, <4>5, SpelledJoin
      <4>7. WrittenAs(g[i]) = WrittenRune(v) \o WrittenAs(y)
        BY <3>1, <3>2, <3>3, WrittenFirst
      <4>8. EncodeRune(v) \o Part(s, (i + n) - 1, Len(s)) = Part(s, i - 1, Len(s))
        <5>1. /\ i - 1 \in Nat /\ i + n - 1 \in Nat /\ Len(s) \in 0..Len(s)
              /\ i - 1 <= i + n - 1 /\ i + n - 1 <= Len(s)
          BY <1>1, <3>1
        <5>2. Part(s, i - 1, i + n - 1) \o Part(s, i + n - 1, Len(s)) = Part(s, i - 1, Len(s))
          BY <5>1, PartJoin
        <5>3. (i + n) - 1 = i + n - 1
          BY <3>1
        <5> QED
          BY <3>2, <5>2, <5>3, Zenon
      <4> QED
        BY <4>6, <4>7, <4>8
    <3> QED
      BY <3>4, <3>5
  <2> QED
    BY <2>1, <2>2
<1>5. \A i \in 1..l : l - i \in Nat /\ l - i < l /\ l - (l - i) = i
  BY <1>1
<1> HIDE DEF Right, l, R
<1>6. SUFFICES \A i \in 1..l : Right(i)
  BY DEF Right, l, R
<1>7. SUFFICES ASSUME NEW x \in 1..l, ~Right(x) PROVE FALSE
  OBVIOUS
<1>8. T # {} /\ T \subseteq Nat
  BY <1>5, <1>7
<1>9. PICK k \in T : \A j \in T : k <= j
  BY <1>8, LeastNatural
<1>10. PICK i \in 1..l : i = l - k /\ ~Right(i)
  <2>1. k \in Nat /\ k < l /\ ~Right(l - k)
    BY <1>9
  <2>2. l - k \in 1..l
    BY <1>1, <2>1
  <2> QED
    BY <2>1, <2>2
<1>11. ASSUME NEW j \in 1..l, j > i PROVE Right(j)
  <2>1. l - j \in Nat /\ l - j < l /\ l - (l - j) = j /\ l - j < k /\ k \in Nat
    BY <1>1, <1>9, <1>10, <1>11
  <2>2. l - j \notin T
    BY <1>9, <2>1
  <2> QED
    BY <2>1, <2>2
<1> HIDE DEF T
<1>12. Right(i)
  BY <1>4, <1>11 DEF Right
<1> QED
  BY <1>10, <1>12

Prefixed(escapes) == IF escapes THEN <<101>> ELSE <<>>

LEMMA StringSpelled ==
  ASSUME NEW s \in Text, ValidUTF8(s)
  PROVE  \E escapes \in BOOLEAN : \E w :
            /\ <<w, s>> \in Spelled(Quote, escapes)
            /\ EncodeSQLString(s) = Prefixed(escapes) \o <<Quote>> \o w \o <<Quote>>
<1>1. PICK h : ValidFrom(s, h) /\ h[1]
  BY ValidIs
<1>2. PICK g : RunesFrom(s, g) /\ Runes(s) = g[1]
  BY RunesIs
<1> DEFINE y == Runes(s)
           escaped == \E k \in 1..Len(y) : ~CopiedRune(y[k])
<1>3. 1 \in 1..(Len(s) + 1) /\ 1 - 1 = 0 /\ escaped \in BOOLEAN
  BY DEF Text
<1>4. \A k \in 1..Len(y) : escaped \/ CopiedRune(y[k])
  OBVIOUS
<1> HIDE DEF escaped
<1>5. <<WrittenAs(y), Part(s, 0, Len(s))>> \in Spelled(Quote, escaped)
  BY <1>1, <1>2, <1>3, <1>4, RunesSpelled
<1>6. Part(s, 0, Len(s)) = s
  BY PartAll
<1>7. EncodeSQLString(s) = Prefixed(escaped) \o <<Quote>> \o WrittenAs(y) \o <<Quote>>
  BY Zenon DEF EncodeSQLString, Prefixed, WrittenAs, WrittenRune, escaped
<1> QED
  BY <1>3, <1>5, <1>6, <1>7

-----------------------------------------------------------------------------
(* Escapes of the encoders, as UnquoteChar reads them.                     *)

(* The bytes of t from p on are those of u. *)
BytesAt(t, p, u) == \A i \in 1..Len(u) : ByteOf(t, p + i - 1) = u[i]

(* A text that goes on, at p, with u and then r. *)
GoesOn(t, p, u, r) == Part(t, p, Len(t)) = u \o r

LEMMA PartSplit ==
  ASSUME NEW t \in Text, NEW p \in 0..Len(t), NEW u \in Text, NEW r \in Text,
         GoesOn(t, p, u, r)
  PROVE  /\ p + Len(u) \in 0..Len(t) /\ p \in Nat /\ Len(u) \in Nat
         /\ Part(t, p + Len(u), Len(t)) = r
         /\ Part(t, p, p + Len(u)) = u
         /\ BytesAt(t, p, u)
<1> DEFINE l == Len(t)
           n == Len(u)
           s == Part(t, p, l)
           j == u \o r
<1>1. /\ l \in Nat /\ p \in Nat /\ n \in Nat /\ l \in 0..l /\ p <= l /\ Len(r) \in Nat
  BY DEF Text
<1>2. s \in Text /\ Len(s) = l - p /\ \A i \in 1..Len(s) : s[i] = ByteOf(t, p + i - 1)
  BY <1>1, PartFacts
<1>3. /\ j \in Text /\ Len(j) = n + Len(r)
      /\ \A i \in 1..n : j[i] = u[i]
      /\ \A i \in 1..Len(r) : j[n + i] = r[i]
  BY ConcatItems, Zenon
<1>4. s = j
  BY DEF GoesOn
<1> HIDE DEF s, j, l, n
<1>5. l - p = n + Len(r)
  BY <1>2, <1>3, <1>4
<1>6. p + n \in 0..l /\ l - (p + n) = Len(r) /\ p + n <= l
  BY <1>1, <1>5
<1>7. \A i \in 1..n : ByteOf(t, p + i - 1) = u[i]
  <2> TAKE i \in 1..n
  <2>1. i \in 1..Len(s)
    BY <1>1, <1>2, <1>5
  <2> QED
    BY <1>2, <1>3, <1>4, <2>1
<1>8. Part(t, p + n, l) = r
  <2> DEFINE x == Part(t, p + n, l)
  <2>1. x \in Text /\ Len(x) = l - (p + n) /\ \A i \in 1..Len(x) : x[i] = ByteOf(t, (p + n) + i - 1)
    BY <1>1, <1>6, PartFacts DEF l
  <2> HIDE DEF x
  <2>2. ASSUME NEW i \in 1..Len(x) PROVE x[i] = r[i]
    <3>1. n + i \in 1..Len(s) /\ p + (n + i) - 1 = (p + n) + i - 1 /\ i \in 1..Len(r)
      BY <1>1, <1>2, <1>5, <1>6, <2>1
    <3>2. s[n + i] = ByteOf(t, p + (n + i) - 1)
      BY <1>2, <3>1
    <3> QED
      BY <1>3, <1>4, <2>1, <3>1, <3>2
  <2>3. Len(x) = Len(r)
    BY <1>6, <2>1
  <2>4. x = r
    BY <2>1, <2>2, <2>3, TextEqual
  <2> QED
    BY <2>4 DEF x
<1>9. Part(t, p, p + n) = u
  <2> DEFINE x == Part(t, p, p + n)
  <2>1. x \in Text /\ Len(x) = (p + n) - p /\ \A i \in 1..Len(x) : x[i] = ByteOf(t, p + i - 1)
    <3>1. p + n \in 0..Len(t) /\ p <= p + n
      BY <1>1, <1>6 DEF l
    <3> QED
      BY <1>1, <3>1, PartFacts
  <2> HIDE DEF x
  <2>2. Len(x) = n
    BY <1>1, <2>1
  <2>3. x = u
    BY <1>7, <2>1, <2>2, TextEqual DEF n
  <2> QED
    BY <2>3 DEF x
<1> QED
  BY <1>1, <1>6, <1>7, <1>8, <1>9 DEF l, n, BytesAt

LEMMA UnescapeLetter ==
  ASSUME NEW p, NEW ch \in DOMAIN EscapeLetter, PeekAt(p) = EscapeLetter[ch]
  PROVE  Unescape(p) = [bytes |-> <<ch>>, len |-> 1] /\ PeekAt(p) \in EscapeLetters
<1> DEFINE t == PeekAt(p)
           Letter(x) == CASE x = 97  -> 7  [] x = 98  -> 8  [] x = 102 -> 12 [] x = 110 -> 10
                          [] x = 114 -> 13 [] x = 116 -> 9  [] x = 118 -> 11 [] x = 92  -> 92
           letters == {97, 98, 102, 110, 114, 116, 118, 92}
<1>1. t \in letters => Unescape(p) = [bytes |-> <<Letter(t)>>, len |-> 1]
  BY SMT DEF Unescape
<1>2. t \in letters /\ Letter(t) = ch
  BY EscapeLetters6
<1>3. t \in EscapeLetters
  BY <1>2 DEF EscapeLetters
<1> QED
  BY <1>1, <1>2, <1>3

HexPair2(p) == 16 * HexValue(PeekAt(p)) + HexValue(PeekAt(p + 1))

LEMMA UnescapeHex ==
  ASSUME NEW p \in Nat, PeekAt(p) = 120, \A k \in 1..2 : PeekAt(p + k) \in HexDigit
  PROVE  Unescape(p) = [bytes |-> <<HexPair2(p + 1)>>, len |-> 3] /\ PeekAt(p) \in EscapeLetters
<1> DEFINE t == PeekAt(p)
<1>1. t \notin {97, 98, 102, 110, 114, 116, 118, 92} /\ t \in {120, 88} /\ t \in EscapeLetters
  BY DEF EscapeLetters
<1>2. Unescape(p) = [bytes |-> <<HexPair2(p + 1)>>, len |-> 3]
  BY <1>1, SMT DEF Unescape, HexPair2
<1> QED
  BY <1>1, <1>2

LEMMA UnescapeShort ==
  ASSUME NEW p \in Nat, PeekAt(p) = 117, \A k \in 1..4 : PeekAt(p + k) \in HexDigit,
         NEW v, v = 256 * HexPair2(p + 1) + HexPair2(p + 3), v <= MaxRune, v \notin Surrogates
  PROVE  Unescape(p) = [bytes |-> EncodeRune(v), len |-> 5] /\ PeekAt(p) \in EscapeLetters
<1> DEFINE t == PeekAt(p)
<1>1. /\ t \notin {97, 98, 102, 110, 114, 116, 118, 92} /\ t \notin {120, 88} /\ t = 117
      /\ t \in EscapeLetters
  BY DEF EscapeLetters
<1>2. Unescape(p) = [bytes |-> EncodeRune(v), len |-> 5]
  BY <1>1, SMT DEF Unescape, HexPair2
<1> QED
  BY <1>1, <1>2

LEMMA UnescapeLong ==
  ASSUME NEW p \in Nat, PeekAt(p) = 85, \A k \in 1..8 : PeekAt(p + k) \in HexDigit,
         HexPair2(p + 1) = 0,
         NEW v, v = 65536 * HexPair2(p + 3) + 256 * HexPair2(p + 5) + HexPair2(p + 7),
         v <= MaxRune, v \notin Surrogates
  PROVE  Unescape(p) = [bytes |-> EncodeRune(v), len |-> 9] /\ PeekAt(p) \in EscapeLetters
<1> DEFINE t == PeekAt(p)
<1>1. /\ t \notin {97, 98, 102, 110, 114, 116, 118, 92} /\ t \notin {120, 88} /\ t # 117 /\ t = 85
      /\ t \in EscapeLetters
  BY DEF EscapeLetters
<1>2. Unescape(p) = [bytes |-> EncodeRune(v), len |-> 9]
  BY <1>1, SMT DEF Unescape, HexPair2
<1> QED
  BY <1>1, <1>2, SMT

(* The digits of a number make the number. *)
LEMMA Digits4 ==
  ASSUME NEW v \in Nat, v < 65536
  PROVE  v = 256 * (16 * ((v \div 4096) % 16) + ((v \div 256) % 16))
             + (16 * ((v \div 16) % 16) + ((v \div 1) % 16))
BY SMT

LEMMA Digits6 ==
  ASSUME NEW v \in Nat, v < 16777216
  PROVE  v = 65536 * (16 * ((v \div 1048576) % 16) + ((v \div 65536) % 16))
             + 256 * (16 * ((v \div 4096) % 16) + ((v \div 256) % 16))
             + (16 * ((v \div 16) % 16) + ((v \div 1) % 16))
BY SMTT(120)

-----------------------------------------------------------------------------
(* What is appended follows what the buffer held. *)
LEMMA AppendMore ==
  ASSUME Buffers, NEW c \in Text, AppendBytes(c)
  PROVE  Read(buf)' = Read(buf) \o c
<1> DEFINE n == buf.len
           m == Len(c)
<1>1. /\ Lies(mem, buf) /\ buf \in SliceType /\ mem \in Seq(Text) /\ Len(mem) \in Nat
      /\ buf.array \in Nat /\ buf.from \in Nat /\ n \in Nat /\ buf.to \in Nat
      /\ buf.array <= Len(mem) /\ buf.from + n <= buf.to
      /\ buf.array = 0 => buf.to = 0
      /\ buf.array > 0 => buf.to <= Len(mem[buf.array])
      /\ m \in Nat /\ mem \in Seq(Ints)
  BY DEF Buffers, BuffersInv, Lies, SliceType, Text
<1>2. Read(buf) \in Text /\ Len(Read(buf)) = n
  <2>1. CASE buf.array = 0
    BY <1>1, <2>1, ByteSeqs DEF Read
  <2>2. CASE buf.array # 0
    <3> DEFINE a == mem[buf.array]
    <3>1. a \in Text /\ buf.to <= Len(a)
      BY <1>1, <2>2
    <3>2. Len(a) \in Nat
      BY <3>1 DEF Text
    <3>3. Read(buf) = Part(a, buf.from, buf.from + n)
      BY <2>2 DEF Read, Bytes, Part
    <3> HIDE DEF a, n
    <3>4. buf.from + n \in 0..Len(a) /\ buf.from <= buf.from + n /\ (buf.from + n) - buf.from = n
      BY <1>1, <3>1, <3>2
    <3> QED
      BY <1>1, <3>1, <3>3, <3>4, PartFacts
  <2> QED
    BY <2>1, <2>2
<1>3. CASE buf.from + n + m <= buf.to
  <2>1. /\ mem' = IF buf.array = 0 THEN mem
                  ELSE [mem EXCEPT ![buf.array] = Written(@, buf.from + n, c)]
        /\ buf' = [buf EXCEPT !.len = @ + m]
    BY <1>3 DEF AppendBytes
  <2>2. buf'.array = buf.array /\ buf'.from = buf.from /\ buf'.len = n + m
    BY <1>1, <2>1 DEF SliceType
  <2>3. CASE buf.array = 0
    <3>1. m = 0
      BY <1>1, <1>3, <2>3
    <3>2. c = <<>>
      BY <3>1, EmptySeq DEF Text
    <3> QED
      BY <2>2, <2>3, <3>2, TextWhole, ByteSeqs DEF Read
  <2>4. CASE buf.array # 0
    <3> DEFINE k == buf.array
               f == buf.from
               a == mem[k]
               w == Written(a, f + n, c)
               q == f + n
    <3>1. k \in 1..Len(mem) /\ a \in Text /\ buf.to <= Len(a)
      BY <1>1, <2>4
    <3>2. Len(a) \in Nat /\ q \in Nat /\ q + m <= Len(a) /\ f \in Nat
      <4>1. Len(a) \in Nat
        BY <3>1 DEF Text
      <4> HIDE DEF a
      <4> QED
        BY <1>1, <1>3, <3>1, <4>1
    <3>3. mem' = [mem EXCEPT ![k] = Written(@, f + n, c)] /\ mem'[k] = w
      BY <1>1, <2>1, <2>4, <3>1
    <3>4. w \in Text /\ Len(w) = Len(a)
      <4>1. w \in Text
        BY <3>1, <3>2, WrittenText
      <4>2. DOMAIN w = 1..Len(a)
        BY DEF Written
      <4> QED
        BY <3>2, <4>1, <4>2 DEF Text
    <3>5. Bytes(w, q, m) = c
      BY <3>1, <3>2, WriteReads
    <3>6. ReadIn(mem', buf) = ReadIn(mem, buf)
      <4> DEFINE m2 == [mem EXCEPT ![k] = Written(@, q, c)]
      <4>1. /\ mem \in Seq(Ints) /\ Lies(mem, buf) /\ k \in 1..Len(mem) /\ q \in Nat
            /\ c \in Ints /\ q + Len(c) <= Len(mem[k]) /\ buf.from + buf.len <= q
        BY <1>1, <3>1, <3>2, TextIsInts
      <4>2. mem' = m2
        BY <3>3
      <4> HIDE DEF q, k
      <4>3. buf.array # k \/ buf.from + buf.len <= q \/ q + Len(c) <= buf.from
            => ReadIn(m2, buf) = ReadIn(mem, buf)
        BY <4>1, WriteKeepsSlice
      <4> HIDE DEF m2
      <4> QED
        BY <4>1, <4>2, <4>3
    <3>7. Read(buf) = ReadIn(mem, buf) /\ ReadIn(mem', buf) = Bytes(w, f, n)
      BY <2>4, <3>3 DEF Read, ReadIn
    <3> HIDE DEF w, a
    <3>8. Read(buf) = Part(w, f, q)
      BY <3>6, <3>7 DEF Bytes, Part
    <3>9. Read(buf)' = Part(w, f, q + m)
      <4>1. Read(buf)' = Bytes(w, f, n + m)
        BY <2>2, <2>4, <3>3 DEF Read
      <4>2. f + (n + m) = q + m
        BY <1>1
      <4> QED
        BY <4>1, <4>2 DEF Bytes, Part
    <3>10. c = Part(w, q, q + m)
      BY <3>5 DEF Bytes, Part
    <3>11. q + m \in 0..Len(w) /\ f <= q /\ q <= q + m
      BY <1>1, <3>2, <3>4
    <3>12. Part(w, f, q) \o Part(w, q, q + m) = Part(w, f, q + m)
      BY <3>2, <3>4, <3>11, PartJoin
    <3> QED
      BY <3>8, <3>9, <3>10, <3>12, Zenon
  <2> QED
    BY <2>3, <2>4
<1>4. CASE ~(buf.from + n + m <= buf.to)
  <2>1. PICK spare \in 0..Spare :
           /\ mem' = Append(mem, Read(buf) \o c \o Zeros(spare))
           /\ buf' = [array |-> Len(mem) + 1, from |-> 0, len |-> n + m, to |-> (n + m) + spare]
    BY <1>4 DEF AppendBytes
  <2>2. Zeros(spare) \in Text
    <3>1. spare \in Nat /\ 0 \in Byte
      BY <2>1, SpareAssumption, ByteIs DEF Between
    <3> QED
      BY <3>1 DEF Zeros, Text
  <2> DEFINE u == Read(buf) \o c
             z == Zeros(spare)
             w == u \o z
  <2>3. /\ buf'.array = Len(mem) + 1 /\ buf'.array # 0 /\ buf'.from = 0 /\ buf'.len = n + m
        /\ mem' = Append(mem, w)
    BY <1>1, <2>1
  <2>4. u \in Text /\ Len(u) = n + m
    BY <1>2, ByteSeqs
  <2> HIDE DEF u, z
  <2>5. w \in Text /\ 0 \in 0..Len(w)
    BY <2>2, <2>4, ByteSeqs DEF z, Text
  <2>6. mem'[Len(mem) + 1] = w
    <3> HIDE DEF w
    <3>1. IsSeq(mem)
      BY <1>1, SeqIsSeq
    <3> QED
      BY <2>3, <3>1, AppendAny
  <2>7. Part(w, 0, 0 + Len(u)) = u
    <3>1. GoesOn(w, 0, u, z)
      BY <2>5, PartAll DEF GoesOn
    <3> HIDE DEF w
    <3> QED
      BY <2>2, <2>4, <2>5, <3>1, PartSplit DEF z
  <2> HIDE DEF w
  <2>8. Read(buf)' = Part(w, 0, 0 + (n + m))
    BY <2>3, <2>6 DEF Read, Bytes, Part
  <2> QED
    BY <2>4, <2>7, <2>8 DEF u
<1> QED
  BY <1>3, <1>4

-----------------------------------------------------------------------------
(* One that is no doubled quote and no byte stands for itself. *)
LEMMA UnescapeUnit ==
  ASSUME NEW p \in Nat, NEW q \in Quotes, NEW u, NEW d, IsUnit(q, TRUE, u, d),
         \A i \in 1..Len(u) : PeekAt(p + i - 1) = u[i],
         PeekAt(p) = Backslash, PeekAt(p + 1) # q
  PROVE  Unescape(p + 1) = [bytes |-> d, len |-> Len(u) - 1] /\ PeekAt(p + 1) \in EscapeLetters
<1> DEFINE Right == Unescape(p + 1) = [bytes |-> d, len |-> Len(u) - 1] /\ PeekAt(p + 1) \in EscapeLetters
<1>0. /\ q # Backslash /\ p + 1 \in Nat /\ p + 1 - 1 = p
      /\ \A i \in 2..10 : p + i - 1 = (p + 1) + (i - 2)
  BY QuoteBytes
<1>1. CASE \E b \in Byte : b # q /\ (TRUE => b # Backslash) /\ u = <<b>> /\ d = <<b>>
  <2>1. PICK b \in Byte : b # Backslash /\ u = <<b>>
    BY <1>1
  <2>2. 1 \in 1..Len(u) /\ u[1] = b
    BY <2>1
  <2> QED
    BY <1>0, <2>1, <2>2
<1>2. CASE u = <<q, q>>
  <2>1. 1 \in 1..Len(u) /\ u[1] = q
    BY <1>2
  <2> QED
    BY <1>0, <2>1
<1>3. CASE u = <<Backslash, q>>
  <2>1. 2 \in 1..Len(u) /\ u[2] = q /\ p + 2 - 1 = p + 1
    BY <1>3
  <2> QED
    BY <1>0, <2>1
<1>4. CASE \E ch \in DOMAIN EscapeLetter : u = <<Backslash, EscapeLetter[ch]>> /\ d = <<ch>>
  <2>1. PICK ch \in DOMAIN EscapeLetter : u = <<Backslash, EscapeLetter[ch]>> /\ d = <<ch>>
    BY <1>4
  <2>2. 2 \in 1..Len(u) /\ u[2] = EscapeLetter[ch] /\ p + 2 - 1 = p + 1 /\ Len(u) - 1 = 1
    BY <2>1
  <2>3. PeekAt(p + 1) = EscapeLetter[ch]
    BY <2>2
  <2> QED
    BY <2>1, <2>2, <2>3, UnescapeLetter
<1>5. CASE \E ch \in Byte : u = HexEscape(ch) /\ d = <<ch>>
  <2>1. PICK ch \in Byte : u = HexEscape(ch) /\ d = <<ch>>
    BY <1>5
  <2> DEFINE x == LowerHexDigit(ch \div 16)
             y == LowerHexDigit(ch % 16)
  <2>2. ch \in Nat /\ ch <= 255 /\ ch \div 16 \in 0..15 /\ ch % 16 \in 0..15
        /\ 16 * (ch \div 16) + (ch % 16) = ch
    <3>1. ch \in Nat /\ ch <= 255
      BY ByteIs, SMT DEF Between
    <3> QED
      BY <3>1, SMT
  <2>3. x \in HexDigit /\ HexValue(x) = ch \div 16 /\ y \in HexDigit /\ HexValue(y) = ch % 16
    BY <2>2, HexDigits
  <2>4. u = <<Backslash, 120, x, y>>
    BY <2>1 DEF HexEscape
  <2> HIDE DEF x, y
  <2>5. Len(u) = 4 /\ u[2] = 120 /\ u[3] = x /\ u[4] = y
    BY <2>4
  <2>6. /\ PeekAt(p + 1) = 120 /\ PeekAt((p + 1) + 1) = x /\ PeekAt((p + 1) + 2) = y
    <3>1. p + 2 - 1 = p + 1 /\ p + 3 - 1 = (p + 1) + 1 /\ p + 4 - 1 = (p + 1) + 2
      OBVIOUS
    <3>2. 2 \in 1..Len(u) /\ 3 \in 1..Len(u) /\ 4 \in 1..Len(u)
      BY <2>5
    <3>3. PeekAt(p + 2 - 1) = u[2] /\ PeekAt(p + 3 - 1) = u[3] /\ PeekAt(p + 4 - 1) = u[4]
      BY <3>2
    <3> QED
      BY <2>5, <3>1, <3>3, Zenon
  <2>7. \A k \in 1..2 : PeekAt((p + 1) + k) \in HexDigit
    <3>1. \A k \in 1..2 : k = 1 \/ k = 2
      OBVIOUS
    <3> QED
      BY <2>3, <2>6, <3>1
  <2>8. HexPair2((p + 1) + 1) = ch
    <3>1. ((p + 1) + 1) + 1 = (p + 1) + 2
      OBVIOUS
    <3>2. HexValue(PeekAt((p + 1) + 1)) = ch \div 16 /\ HexValue(PeekAt(((p + 1) + 1) + 1)) = ch % 16
      BY <2>3, <2>6, <3>1
    <3> QED
      BY <2>2, <3>2 DEF HexPair2
  <2> QED
    BY <1>0, <2>1, <2>5, <2>6, <2>7, <2>8, UnescapeHex
<1>6. CASE \E v \in Nat : /\ v <= MaxRune /\ v \notin Surrogates /\ d = EncodeRune(v)
                          /\ (u = ShortRune(v) /\ v < 2048) \/ u = LongRune(v)
  <2>1. PICK v \in Nat : /\ v <= MaxRune /\ v \notin Surrogates /\ d = EncodeRune(v)
                         /\ (u = ShortRune(v) /\ v < 2048) \/ u = LongRune(v)
    BY <1>6
  <2> DEFINE H(n) == HexPlace(v, n)
             five == 65536
             six == 1048576
  <2>n. five \in Nat \ {0} /\ six \in Nat \ {0}
    BY SMT
  <2>w. \A n \in Nat \ {0} : HexValue(HexPlace(v, n)) = (v \div n) % 16
    BY HexPlaces
  <2>h. \A n \in Nat \ {0} : H(n) \in HexDigit
    BY HexPlaces DEF H
  <2>2. CASE u = ShortRune(v) /\ v < 2048
    <3>1. u = <<Backslash, 117, H(4096), H(256), H(16), H(1)>>
      BY <2>2 DEF ShortRune
    <3> HIDE DEF H, five, six
    <3>2. Len(u) = 6 /\ u[2] = 117 /\ u[3] = H(4096) /\ u[4] = H(256) /\ u[5] = H(16) /\ u[6] = H(1)
      BY <3>1
    <3>3. /\ p + 2 - 1 = p + 1 /\ p + 3 - 1 = (p + 1) + 1 /\ p + 4 - 1 = (p + 1) + 2
          /\ p + 5 - 1 = (p + 1) + 3 /\ p + 6 - 1 = (p + 1) + 4
          /\ ((p + 1) + 1) + 1 = (p + 1) + 2 /\ ((p + 1) + 3) + 1 = (p + 1) + 4
      OBVIOUS
    <3>4. /\ PeekAt(p + 2 - 1) = u[2] /\ PeekAt(p + 3 - 1) = u[3] /\ PeekAt(p + 4 - 1) = u[4]
          /\ PeekAt(p + 5 - 1) = u[5] /\ PeekAt(p + 6 - 1) = u[6]
      <4>1. 2 \in 1..Len(u) /\ 3 \in 1..Len(u) /\ 4 \in 1..Len(u) /\ 5 \in 1..Len(u) /\ 6 \in 1..Len(u)
        BY <3>2
      <4> QED
        BY <4>1
    <3>5. /\ PeekAt(p + 1) = 117
          /\ PeekAt((p + 1) + 1) = H(4096) /\ PeekAt((p + 1) + 2) = H(256)
          /\ PeekAt((p + 1) + 3) = H(16) /\ PeekAt((p + 1) + 4) = H(1)
      BY <3>2, <3>3, <3>4
    <3>6. \A k \in 1..4 : PeekAt((p + 1) + k) \in HexDigit
      <4>1. \A k \in 1..4 : k = 1 \/ k = 2 \/ k = 3 \/ k = 4
        OBVIOUS
      <4>2. H(4096) \in HexDigit /\ H(256) \in HexDigit /\ H(16) \in HexDigit /\ H(1) \in HexDigit
        BY <2>h
      <4> QED
        BY <3>5, <4>1, <4>2
    <3>7. /\ HexPair2((p + 1) + 1) = 16 * ((v \div 4096) % 16) + ((v \div 256) % 16)
          /\ HexPair2((p + 1) + 3) = 16 * ((v \div 16) % 16) + ((v \div 1) % 16)
      <4>1. HexPair2((p + 1) + 1) = 16 * ((v \div 4096) % 16) + ((v \div 256) % 16)
        <5>1. PeekAt((p + 1) + 1) = HexPlace(v, 4096) /\ PeekAt(((p + 1) + 1) + 1) = HexPlace(v, 256)
          BY <3>3, <3>5 DEF H
        <5> QED
          BY <5>1, <2>w DEF HexPair2
      <4>2. HexPair2((p + 1) + 3) = 16 * ((v \div 16) % 16) + ((v \div 1) % 16)
        <5>1. PeekAt((p + 1) + 3) = HexPlace(v, 16) /\ PeekAt(((p + 1) + 3) + 1) = HexPlace(v, 1)
          BY <3>3, <3>5 DEF H
        <5> QED
          BY <5>1, <2>w DEF HexPair2
      <4> QED
        BY <4>1, <4>2
    <3>8. v = 256 * HexPair2((p + 1) + 1) + HexPair2((p + 1) + 3)
      <4>1. v < 65536
        BY <2>2, SMT
      <4>2. v = 256 * (16 * ((v \div 4096) % 16) + ((v \div 256) % 16))
                + (16 * ((v \div 16) % 16) + ((v \div 1) % 16))
        BY <4>1, Digits4, SMT
      <4> QED
        BY <3>7, <4>2, SMT
    <3> QED
      BY <1>0, <2>1, <3>2, <3>5, <3>6, <3>8, UnescapeShort
  <2>3. CASE u = LongRune(v)
    <3>1. u = <<Backslash, 85, 48, 48, H(six), H(five), H(4096), H(256), H(16), H(1)>>
      BY <2>3 DEF LongRune
    <3>v. v < 16777216
      BY <2>1, SMT DEF MaxRune
    <3>d. v = 65536 * (16 * ((v \div six) % 16) + ((v \div five) % 16))
             + 256 * (16 * ((v \div 4096) % 16) + ((v \div 256) % 16))
             + (16 * ((v \div 16) % 16) + ((v \div 1) % 16))
      BY <3>v, Digits6, SMT
    <3> HIDE DEF H, five, six
    <3>2. Len(u) = 10 /\ u[2] = 85 /\ u[3] = 48 /\ u[4] = 48 /\ u[5] = H(six) /\ u[6] = H(five)
          /\ u[7] = H(4096) /\ u[8] = H(256) /\ u[9] = H(16) /\ u[10] = H(1)
      BY <3>1
    <3>3. /\ p + 2 - 1 = p + 1 /\ p + 3 - 1 = (p + 1) + 1 /\ p + 4 - 1 = (p + 1) + 2
          /\ p + 5 - 1 = (p + 1) + 3 /\ p + 6 - 1 = (p + 1) + 4
          /\ p + 7 - 1 = (p + 1) + 5 /\ p + 8 - 1 = (p + 1) + 6
          /\ p + 9 - 1 = (p + 1) + 7 /\ p + 10 - 1 = (p + 1) + 8
          /\ ((p + 1) + 1) + 1 = (p + 1) + 2 /\ ((p + 1) + 3) + 1 = (p + 1) + 4
          /\ ((p + 1) + 5) + 1 = (p + 1) + 6 /\ ((p + 1) + 7) + 1 = (p + 1) + 8
      OBVIOUS
    <3>4. /\ PeekAt(p + 2 - 1) = u[2] /\ PeekAt(p + 3 - 1) = u[3] /\ PeekAt(p + 4 - 1) = u[4]
          /\ PeekAt(p + 5 - 1) = u[5] /\ PeekAt(p + 6 - 1) = u[6]
          /\ PeekAt(p + 7 - 1) = u[7] /\ PeekAt(p + 8 - 1) = u[8]
          /\ PeekAt(p + 9 - 1) = u[9] /\ PeekAt(p + 10 - 1) = u[10]
      <4>1. /\ 2 \in 1..Len(u) /\ 3 \in 1..Len(u) /\ 4 \in 1..Len(u) /\ 5 \in 1..Len(u) /\ 6 \in 1..Len(u)
            /\ 7 \in 1..Len(u) /\ 8 \in 1..Len(u) /\ 9 \in 1..Len(u) /\ 10 \in 1..Len(u)
        BY <3>2
      <4> QED
        BY <4>1
    <3>5. /\ PeekAt(p + 1) = 85
          /\ PeekAt((p + 1) + 1) = 48 /\ PeekAt((p + 1) + 2) = 48
          /\ PeekAt((p + 1) + 3) = H(six) /\ PeekAt((p + 1) + 4) = H(five)
          /\ PeekAt((p + 1) + 5) = H(4096) /\ PeekAt((p + 1) + 6) = H(256)
          /\ PeekAt((p + 1) + 7) = H(16) /\ PeekAt((p + 1) + 8) = H(1)
      BY <3>2, <3>3, <3>4
    <3>0. 48 \in HexDigit /\ HexValue(48) = 0
      <4>1. 0 \in 0..15 /\ UpperHexDigit(0) = 48
        BY DEF UpperHexDigit
      <4> QED
        BY <4>1, HexDigits
    <3>6. \A k \in 1..8 : PeekAt((p + 1) + k) \in HexDigit
      <4>1. \A k \in 1..8 : k = 1 \/ k = 2 \/ k = 3 \/ k = 4 \/ k = 5 \/ k = 6 \/ k = 7 \/ k = 8
        OBVIOUS
      <4>2. H(4096) \in HexDigit /\ H(256) \in HexDigit /\ H(16) \in HexDigit /\ H(1) \in HexDigit
            /\ H(six) \in HexDigit /\ H(five) \in HexDigit
        BY <2>n, <2>h
      <4> QED
        BY <3>0, <3>5, <4>1, <4>2
    <3>7. /\ HexPair2((p + 1) + 1) = 0
          /\ HexPair2((p + 1) + 3) = 16 * ((v \div six) % 16) + ((v \div five) % 16)
          /\ HexPair2((p + 1) + 5) = 16 * ((v \div 4096) % 16) + ((v \div 256) % 16)
          /\ HexPair2((p + 1) + 7) = 16 * ((v \div 16) % 16) + ((v \div 1) % 16)
      <4>1. HexPair2((p + 1) + 1) = 0
        BY <3>0, <3>3, <3>5 DEF HexPair2
      <4>2. HexPair2((p + 1) + 3) = 16 * ((v \div six) % 16) + ((v \div five) % 16)
        <5>1. PeekAt((p + 1) + 3) = HexPlace(v, six) /\ PeekAt(((p + 1) + 3) + 1) = HexPlace(v, five)
          BY <3>3, <3>5 DEF H
        <5> QED
          BY <5>1, <2>w, <2>n DEF HexPair2
      <4>3. HexPair2((p + 1) + 5) = 16 * ((v \div 4096) % 16) + ((v \div 256) % 16)
        <5>1. PeekAt((p + 1) + 5) = HexPlace(v, 4096) /\ PeekAt(((p + 1) + 5) + 1) = HexPlace(v, 256)
          BY <3>3, <3>5 DEF H
        <5> QED
          BY <5>1, <2>w DEF HexPair2
      <4>4. HexPair2((p + 1) + 7) = 16 * ((v \div 16) % 16) + ((v \div 1) % 16)
        <5>1. PeekAt((p + 1) + 7) = HexPlace(v, 16) /\ PeekAt(((p + 1) + 7) + 1) = HexPlace(v, 1)
          BY <3>3, <3>5 DEF H
        <5> QED
          BY <5>1, <2>w DEF HexPair2
      <4> QED
        BY <4>1, <4>2, <4>3, <4>4
    <3>8. v = 65536 * HexPair2((p + 1) + 3) + 256 * HexPair2((p + 1) + 5) + HexPair2((p + 1) + 7)
      BY <3>7, <3>d, SMT
    <3> QED
      BY <1>0, <2>1, <3>2, <3>5, <3>6, <3>7, <3>8, UnescapeLong, SMT
  <2> QED
    BY <2>1, <2>2, <2>3
<1> QED
  BY <1>1, <1>2, <1>3, <1>4, <1>5, <1>6, Zenon DEF IsUnit

-----------------------------------------------------------------------------
(* What the string scanned so far stands for. *)
Sofar == Read(buf) \o Part(in, start, pos)

(* An escape with a letter that UnquoteChar knows. *)
IsEscape(u, d) ==
    \/ \E ch \in DOMAIN EscapeLetter : u = <<Backslash, EscapeLetter[ch]>> /\ d = <<ch>>
    \/ \E ch \in Byte : u = HexEscape(ch) /\ d = <<ch>>
    \/ \E v \in Nat : /\ v <= MaxRune /\ v \notin Surrogates /\ d = EncodeRune(v)
                      /\ (u = ShortRune(v) /\ v < 2048) \/ u = LongRune(v)

LEMMA EscapeSecond ==
  ASSUME NEW q \in Quotes, NEW u, NEW d, IsEscape(u, d)
  PROVE  Len(u) \in Nat /\ Len(u) >= 2 /\ u[1] = Backslash /\ u[2] # q
<1> DEFINE Second == Len(u) \in Nat /\ Len(u) >= 2 /\ u[1] = Backslash /\ u[2] \in {98, 102, 110, 114, 116, 92, 120, 117, 85}
<1>0. q \notin {98, 102, 110, 114, 116, 92, 120, 117, 85}
  BY DEF Quotes, Quote, DoubleQuote
<1>2. ASSUME NEW ch \in DOMAIN EscapeLetter, u = <<Backslash, EscapeLetter[ch]>> PROVE Second
  <2>2. EscapeLetter[ch] \in {98, 102, 110, 114, 116, 92}
    BY EscapeLetters6
  <2>3. Len(u) = 2 /\ u[1] = Backslash /\ u[2] = EscapeLetter[ch]
    BY <1>2
  <2> QED
    BY <2>2, <2>3
<1>3. ASSUME NEW ch \in Byte, u = HexEscape(ch) PROVE Second
  <2>1. Len(u) = 4 /\ u[1] = Backslash /\ u[2] = 120
    BY <1>3 DEF HexEscape
  <2> QED
    BY <2>1
<1>4. ASSUME NEW v \in Nat, u = ShortRune(v) PROVE Second
  <2>1. Len(u) = 6 /\ u[1] = Backslash /\ u[2] = 117
    BY <1>4, SMT DEF ShortRune
  <2> QED
    BY <2>1
<1>5. ASSUME NEW v \in Nat, u = LongRune(v) PROVE Second
  <2>1. Len(u) = 10 /\ u[1] = Backslash /\ u[2] = 85
    BY <1>5, SMT DEF LongRune
  <2> QED
    BY <2>1
<1> HIDE DEF Second
<1>6. Second
  <2>1. CASE \E ch \in DOMAIN EscapeLetter : u = <<Backslash, EscapeLetter[ch]>> /\ d = <<ch>>
    BY <1>2, <2>1, Zenon
  <2>2. CASE \E ch \in Byte : u = HexEscape(ch) /\ d = <<ch>>
    BY <1>3, <2>2, Zenon
  <2>3. CASE \E v \in Nat : /\ v <= MaxRune /\ v \notin Surrogates /\ d = EncodeRune(v)
                            /\ (u = ShortRune(v) /\ v < 2048) \/ u = LongRune(v)
    BY <1>4, <1>5, <2>3
  <2> QED
    BY <2>1, <2>2, <2>3, Zenon DEF IsEscape
<1> QED
  BY <1>0, <1>6 DEF Second

(* A turn of the loop reads one unit. *)
LEMMA UnitRead ==
  ASSUME ScanInv, at = "string", QuoteInString \/ Escape \/ StringByte, start <= pos,
         NEW q \in Quotes, q = lit.quote, NEW u, NEW d, IsUnit(q, lit.escapes, u, d),
         pos + Len(u) \in 0..Len(in),
         \A i \in 1..Len(u) : ByteOf(in, pos + i - 1) = u[i]
  PROVE  /\ UNCHANGED <<in, at, lval, lit, half, tokens>>
         /\ pos' = pos + Len(u) /\ start' \in 0..Len(in) /\ start' <= pos'
         /\ Sofar' = Sofar \o d
<1>0. /\ in \in Text /\ Len(in) \in Nat /\ pos \in 0..Len(in) /\ pos \in Nat
      /\ start \in 0..Len(in) /\ start \in Nat /\ Buffers /\ Read(buf) \in Text
      /\ Part(in, start, pos) \in Text
  BY Facts, ReadText, PartFacts
<1>1. u \in Text /\ d \in Text /\ u # <<>> /\ Len(u) \in Nat /\ q # Backslash
  BY UnitTexts, QuoteBytes DEF Text
<1>2. /\ Peek = ByteOf(in, pos) /\ PeekAt(pos) = ByteOf(in, pos)
      /\ PeekAt(pos + 1) = ByteOf(in, pos + 1) /\ Slice(start, pos) = Part(in, start, pos)
  BY PeekIs
<1>3. /\ 1 \in 1..Len(u) => Peek = u[1]
      /\ 2 \in 1..Len(u) => PeekAt(pos + 1) = u[2]
  <2>1. pos + 1 - 1 = pos /\ pos + 2 - 1 = pos + 1
    BY <1>0
  <2> QED
    BY <1>2, <2>1
<1>4. ASSUME NEW b \in Byte, b # q, lit.escapes => b # Backslash, u = <<b>>, d = <<b>>
      PROVE  /\ UNCHANGED <<in, at, lval, lit, half, tokens>>
             /\ pos' = pos + Len(u) /\ start' \in 0..Len(in) /\ start' <= pos'
             /\ Sofar' = Sofar \o d
  <2>1. Peek = b /\ Len(u) = 1 /\ b # Eof /\ pos + 1 \in 0..Len(in)
    <3>1. 1 \in 1..Len(u) /\ Len(u) = 1 /\ u[1] = b
      BY <1>4
    <3> QED
      BY <1>3, <1>4, <3>1, NotEof
  <2>2. StringByte
    BY <1>4, <2>1 DEF QuoteInString, Escape
  <2>3. Continue(pos + 1, start) /\ UNCHANGED <<mem, free, buf, handed>>
    BY <2>1, <2>2 DEF StringByte
  <2>4. /\ UNCHANGED <<in, at, lval, lit, half, tokens>> /\ pos' = pos + 1 /\ start' = start
        /\ mem' = mem /\ buf' = buf
    BY <2>3 DEF Continue, literalRest
  <2>5. Part(in, pos, pos + 1) = d
    <3> DEFINE x == Part(in, pos, pos + 1)
    <3>1. x \in Text /\ Len(x) = (pos + 1) - pos /\ \A i \in 1..Len(x) : x[i] = ByteOf(in, pos + i - 1)
      <4>1. pos <= pos + 1
        BY <1>0
      <4> QED
        BY <1>0, <2>1, <4>1, PartFacts
    <3> HIDE DEF x
    <3>2. x \in Text /\ Len(x) = 1 /\ x[1] = b
      <4>1. Len(x) = 1
        BY <1>0, <3>1
      <4>2. 1 \in 1..Len(x) /\ pos + 1 - 1 = pos
        BY <1>0, <4>1
      <4> QED
        BY <1>2, <2>1, <3>1, <4>1, <4>2
    <3>3. Len(d) = 1 /\ d[1] = b
      BY <1>4
    <3>4. \A i \in 1..Len(x) : x[i] = d[i]
      BY <3>2, <3>3
    <3> QED
      BY <1>1, <3>2, <3>3, <3>4, TextEqual DEF x
  <2>6. Part(in, start, pos) \o Part(in, pos, pos + 1) = Part(in, start, pos + 1)
    <3>1. pos <= pos + 1
      BY <1>0
    <3>2. pos + 1 \in Nat
      BY <1>0
    <3> QED
      BY <1>0, <2>1, <3>1, <3>2, PartJoin
  <2>7. Sofar' = Read(buf) \o (Part(in, start, pos) \o d)
    BY <2>4, <2>5, <2>6 DEF Sofar, Read
  <2>8. Sofar' = Sofar \o d
    BY <1>0, <1>1, <2>7, TextsAssociate DEF Sofar
  <2> QED
    BY <1>0, <2>1, <2>4, <2>8
<1>5. ASSUME NEW x \in Text, NEW p, NEW first, AppendBytes(Part(in, start, pos) \o x), Continue(p, first),
             p = pos + Len(u), first \in 0..Len(in), first <= p, x \o Part(in, first, p) = d
      PROVE  /\ UNCHANGED <<in, at, lval, lit, half, tokens>>
             /\ pos' = pos + Len(u) /\ start' \in 0..Len(in) /\ start' <= pos'
             /\ Sofar' = Sofar \o d
  <2>1. /\ UNCHANGED <<in, at, lval, lit, half, tokens>> /\ pos' = p /\ start' = first
    BY <1>5 DEF Continue, literalRest
  <2>2. Part(in, start, pos) \o x \in Text
    BY <1>0, <1>5, ByteSeqs
  <2>3. Read(buf)' = Read(buf) \o (Part(in, start, pos) \o x)
    BY <1>0, <1>5, <2>2, AppendMore
  <2>4. Sofar' = (Read(buf) \o (Part(in, start, pos) \o x)) \o Part(in, first, p)
    BY <2>1, <2>3 DEF Sofar
  <2> DEFINE y == Part(in, first, p)
             r == Read(buf)
             s == Part(in, start, pos)
  <2>5. y \in Text
    <3>1. first \in Nat /\ p \in 0..Len(in)
      BY <1>0, <1>5
    <3> QED
      BY <1>0, <3>1, PartFacts
  <2>6. (r \o (s \o x)) \o y = (r \o s) \o (x \o y)
    <3> DEFINE k == r \o s
    <3>1. r \in Text /\ s \in Text /\ x \in Text
      BY <1>0, <1>5
    <3>2. k \in Text
      BY <3>1, ByteSeqs
    <3> HIDE DEF r, s, y
    <3>3. (r \o s) \o x = r \o (s \o x)
      BY ONLY <3>1, TextsAssociate, Zenon
    <3> HIDE DEF k
    <3>4. x \in Text
      BY <1>5
    <3>5. (k \o x) \o y = k \o (x \o y)
      BY ONLY <2>5, <3>2, <3>4, TextsAssociate, Zenon
    <3>6. k \o x = r \o (s \o x)
      BY ONLY <3>3, Zenon DEF k
    <3>7. (r \o (s \o x)) \o y = k \o (x \o y)
      BY ONLY <3>5, <3>6, Zenon
    <3> QED
      BY ONLY <3>7, Zenon DEF k
  <2> QED
    BY <1>5, <2>1, <2>4, <2>6 DEF Sofar
<1>6. ASSUME AppendBytes(Part(in, start, pos)), Continue(pos + 2, pos + 1), Len(u) = 2, u[2] = q, d = <<q>>
      PROVE  /\ UNCHANGED <<in, at, lval, lit, half, tokens>>
             /\ pos' = pos + Len(u) /\ start' \in 0..Len(in) /\ start' <= pos'
             /\ Sofar' = Sofar \o d
  <2>1. Part(in, start, pos) \o <<>> = Part(in, start, pos) /\ <<>> \in Text
    BY <1>0, TextWhole, ByteSeqs
  <2>2. pos + 1 \in 0..Len(in) /\ pos + 2 \in 0..Len(in) /\ pos + 1 <= pos + 2 /\ pos + 1 \in Nat
    BY <1>0, <1>6
  <2> DEFINE x == Part(in, pos + 1, pos + 2)
  <2>3. x \in Text /\ Len(x) = (pos + 2) - (pos + 1) /\ \A i \in 1..Len(x) : x[i] = ByteOf(in, (pos + 1) + i - 1)
    BY <1>0, <2>2, PartFacts
  <2> HIDE DEF x
  <2>4. x = d
    <3>1. Len(x) = 1 /\ 1 \in 1..Len(x) /\ (pos + 1) + 1 - 1 = pos + 1 /\ 2 \in 1..Len(u)
      BY <1>0, <1>6, <2>3
    <3>2. x[1] = q
      BY <1>2, <1>3, <1>6, <2>3, <3>1
    <3>3. Len(d) = 1 /\ d[1] = q
      BY <1>6
    <3>4. \A i \in 1..Len(x) : x[i] = d[i]
      BY <3>1, <3>2, <3>3
    <3> QED
      BY <1>1, <2>3, <3>1, <3>3, <3>4, TextEqual
  <2>5. <<>> \o Part(in, pos + 1, pos + 2) = d
    BY <2>3, <2>4, TextWhole DEF x
  <2> QED
    BY <1>5, <1>6, <2>1, <2>2, <2>5
<1>7. CASE u = <<q, q>> /\ d = <<q>>
  <2>1. Len(u) = 2 /\ u[1] = q /\ u[2] = q
    BY <1>7
  <2>2. Peek = q /\ PeekAt(pos + 1) = q
    BY <1>3, <2>1
  <2>3. QuoteInString
    BY <1>1, <2>2 DEF Escape, StringByte
  <2>4. AppendBytes(Slice(start, pos)) /\ Continue(pos + 2, pos + 1)
    BY <2>2, <2>3 DEF QuoteInString
  <2> QED
    BY <1>2, <1>6, <1>7, <2>1, <2>4
<1>8. CASE lit.escapes /\ u = <<Backslash, q>> /\ d = <<q>>
  <2>1. Len(u) = 2 /\ u[1] = Backslash /\ u[2] = q
    BY <1>8
  <2>2. Peek = Backslash /\ PeekAt(pos + 1) = q
    BY <1>3, <2>1
  <2>3. Escape
    BY <1>1, <1>8, <2>2 DEF QuoteInString, StringByte
  <2>4. q \notin EscapeLetters
    <3>0. \A b : b \in Octal <=> Between(b, 48, 55)
      BY IntervalIs, SMTT(40) DEF Octal
    <3>1. q \in {39, 34}
      BY DEF Quotes, Quote, DoubleQuote
    <3> QED
      BY <3>0, <3>1, SMTT(40) DEF EscapeLetters, Between
  <2>5. AppendBytes(Slice(start, pos)) /\ Continue(pos + 2, pos + 1)
    BY <2>2, <2>3, <2>4 DEF Escape
  <2> QED
    BY <1>2, <1>6, <1>8, <2>1, <2>5
<1>9. CASE lit.escapes /\ IsEscape(u, d)
  <2>0. IsUnit(q, TRUE, u, d)
    BY <1>9, Zenon DEF IsUnit, IsEscape
  <2>1. Len(u) >= 2 /\ u[1] = Backslash /\ u[2] # q
    BY <1>9, EscapeSecond
  <2>2. Peek = Backslash /\ PeekAt(pos + 1) # q
    BY <1>1, <1>3, <2>1
  <2>3. Escape
    BY <1>1, <1>9, <2>2 DEF QuoteInString, StringByte
  <2>4. Unescape(pos + 1) = [bytes |-> d, len |-> Len(u) - 1] /\ PeekAt(pos + 1) \in EscapeLetters
    <3>1. \A i \in 1..Len(u) : PeekAt(pos + i - 1) = u[i]
      BY PeekIs
    <3> QED
      BY <1>0, <1>2, <2>0, <2>2, <3>1, UnescapeUnit
  <2> DEFINE n == Len(u) - 1
             e == Unescape(pos + 1)
             p == pos + 1 + e.len
  <2>5. e.bytes = d /\ e.len = n /\ n # 0 /\ p = pos + Len(u)
    <3>1. e.bytes = d /\ e.len = n
      BY <2>4
    <3> HIDE DEF e
    <3> QED
      BY <1>0, <1>1, <2>1, <3>1
  <2>6. AppendBytes(Slice(start, pos) \o e.bytes) /\ Continue(p, p)
    BY <2>2, <2>3, <2>4, <2>5 DEF Escape
  <2> HIDE DEF e
  <2>7. p \in 0..Len(in) /\ p <= p /\ p \in Nat
    BY <1>0, <1>1, <2>5
  <2> HIDE DEF p
  <2>8. Part(in, p, p) = <<>>
    BY <1>0, <2>7, PartFacts
  <2>9. d \o Part(in, p, p) = d
    BY <1>1, <2>8, TextWhole
  <2> QED
    BY <1>1, <1>2, <1>5, <2>5, <2>6, <2>7, <2>9
<1> QED
  <2>1. IsUnit(q, lit.escapes, u, d)
    OBVIOUS
  <2> QED
    BY <1>4, <1>7, <1>8, <1>9, <2>1, Zenon DEF IsUnit, IsEscape

-----------------------------------------------------------------------------
(* What is written for a value.                                            *)

Names == {"restricted", "unrestricted"}

(* A value that reads back: a text of runes, and no name that is not       *)
(* composed or that the scanner shortens.                                  *)
Readable(v) ==
    /\ v.kind # "bytes" => ValidUTF8(v.value)
    /\ v.kind \in Names => NormalizeString(v.value) = v.value /\ Shortened(v.value) = {}

(* What follows a value does not go on with it: it neither starts with a   *)
(* byte of names or a quote, nor has a quote as its first byte on a later  *)
(* line.                                                                   *)
SetOff(after) ==
    /\ after # <<>> => after[1] \notin IdentMiddle \cup Quotes
    /\ \A n \in 1..Len(after) :
          after[n] \in Quotes /\ (\A i \in 1..(n - 1) : after[i] \in Blank)
             => \A i \in 1..(n - 1) : after[i] # Newline

(* A literal of this kind, in quotes q, opens with o. *)
OpensWith(kind, q, escapes, o) ==
    \/ kind = "string" /\ q = Quote /\ escapes = FALSE /\ o = <<Quote>>
    \/ kind = "string" /\ q = Quote /\ escapes = TRUE /\ o = <<101, Quote>>
    \/ kind = "bytes" /\ q = Quote /\ escapes = TRUE /\ o = <<98, Quote>>
    \/ kind \in Names /\ q = DoubleQuote /\ escapes = FALSE /\ o = <<DoubleQuote>>

WrittenQuoted(v, x) ==
    \E q, escapes, o, w : /\ OpensWith(v.kind, q, escapes, o)
                          /\ <<w, v.value>> \in Spelled(q, escapes)
                          /\ x = (o \o w) \o <<q>>

WrittenBare(v, x) ==
    /\ v.kind \in Names /\ x = v.value /\ IsBareIdentifier(v.value)
    /\ v.kind = "restricted" => ~isReservedKeyword(v.value)

LEMMA EncodedIs ==
  ASSUME NEW v \in Values, Readable(v)
  PROVE  WrittenQuoted(v, Encode(v.kind, v.value)) \/ WrittenBare(v, Encode(v.kind, v.value))
<1> DEFINE s == v.value
           x == Encode(v.kind, s)
<1>1. v.kind \in Kinds /\ s \in Text
  BY TextsAssumption
<1>2. CASE v.kind = "string"
  <2>1. x = EncodeSQLString(s)
    BY <1>2 DEF Encode
  <2>2. PICK escapes \in BOOLEAN : \E w :
           /\ <<w, s>> \in Spelled(Quote, escapes)
           /\ x = Prefixed(escapes) \o <<Quote>> \o w \o <<Quote>>
    BY <1>1, <1>2, <2>1, StringSpelled DEF Readable
  <2>3. PICK w : /\ <<w, s>> \in Spelled(Quote, escapes)
                 /\ x = Prefixed(escapes) \o <<Quote>> \o w \o <<Quote>>
    BY <2>2
  <2>4. /\ escapes = TRUE => Prefixed(escapes) \o <<Quote>> = <<101, Quote>>
        /\ escapes = FALSE => Prefixed(escapes) \o <<Quote>> = <<Quote>>
    <3>1. <<>> \o <<Quote>> = <<Quote>> /\ <<101>> \o <<Quote>> = <<101, Quote>>
      <4> DEFINE a == <<101>>
                 b == <<Quote>>
                 ab == <<101, Quote>>
      <4>1. 101 \in Byte /\ Quote \in Byte
        BY ByteIs, QuoteBytes DEF Between, Quotes
      <4>2. a \in Text /\ b \in Text /\ ab \in Text
        BY <4>1, ByteSeqs
      <4>3. Len(a) = 1 /\ Len(b) = 1 /\ Len(ab) = 2 /\ a[1] = 101 /\ b[1] = Quote /\ ab[1] = 101 /\ ab[2] = Quote
        OBVIOUS
      <4> HIDE DEF a, b, ab
      <4>4. a \o b = ab
        <5>1. Len(ab) = Len(a) + Len(b)
          BY <4>3
        <5>2. \A i \in 1..Len(a) : ab[i] = a[i]
          BY <4>3
        <5>3. \A i \in 1..Len(b) : ab[Len(a) + i] = b[i]
          BY <4>3
        <5> QED
          BY <4>2, <5>1, <5>2, <5>3, ConcatIs, Zenon
      <4>5. <<>> \o b = b
        BY <4>2, TextWhole
      <4> QED
        BY <4>4, <4>5 DEF a, b, ab
    <3> QED
      BY <3>1 DEF Prefixed
  <2> HIDE DEF x
  <2>5. PICK o : o = Prefixed(escapes) \o <<Quote>>
    OBVIOUS
  <2>6. OpensWith(v.kind, Quote, escapes, o)
    BY <1>2, <2>4, <2>5 DEF OpensWith
  <2>7. x = (o \o w) \o <<Quote>>
    BY <2>3, <2>5
  <2> QED
    BY <2>3, <2>6, <2>7, Zenon DEF WrittenQuoted, x
<1>3. CASE v.kind = "bytes"
  <2>1. x = EncodeSQLBytes(s)
    BY <1>3 DEF Encode
  <2>2. PICK w : /\ <<w, s>> \in Spelled(Quote, TRUE)
                 /\ x = <<98, Quote>> \o w \o <<Quote>>
    BY <1>1, <2>1, SQLBytesSpelled
  <2> HIDE DEF x
  <2>3. OpensWith(v.kind, Quote, TRUE, <<98, Quote>>)
    BY <1>3 DEF OpensWith
  <2> QED
    BY <2>2, <2>3, Zenon DEF WrittenQuoted, x
<1>4. CASE v.kind \in Names
  <2>1. x = EncodeEscapedSQLIdent(s) \/ WrittenBare(v, x)
    BY <1>4 DEF Encode, Names, EncodeRestrictedSQLIdent, EncodeUnrestrictedSQLIdent, WrittenBare
  <2>2. CASE x = EncodeEscapedSQLIdent(s)
    <3>1. PICK w : /\ <<w, s>> \in Spelled(DoubleQuote, FALSE)
                   /\ x = <<DoubleQuote>> \o w \o <<DoubleQuote>>
      BY <1>1, <2>2, IdentSpelled
    <3> HIDE DEF x
    <3>2. OpensWith(v.kind, DoubleQuote, FALSE, <<DoubleQuote>>)
      BY <1>4 DEF OpensWith
    <3> QED
      BY <3>1, <3>2, Zenon DEF WrittenQuoted, x
  <2> QED
    BY <2>1, <2>2
<1> QED
  BY <1>1, <1>2, <1>3, <1>4 DEF Kinds, Names

LEMMA EncodedText ==
  ASSUME NEW v \in Values, Readable(v)
  PROVE  Encode(v.kind, v.value) \in Text /\ Encode(v.kind, v.value) # <<>>
<1> DEFINE x == Encode(v.kind, v.value)
<1>1. v.kind \in Kinds /\ v.value \in Text
  BY TextsAssumption
<1>2. CASE WrittenBare(v, x)
  BY <1>1, <1>2 DEF WrittenBare, IsBareIdentifier
<1>3. CASE WrittenQuoted(v, x)
  <2> HIDE DEF x
  <2>1. PICK q, escapes, o, w : /\ OpensWith(v.kind, q, escapes, o)
                                /\ <<w, v.value>> \in Spelled(q, escapes)
                                /\ x = (o \o w) \o <<q>>
    BY <1>3 DEF WrittenQuoted
  <2>2. q \in Byte /\ o \in Text
    <3>1. 101 \in Byte /\ 98 \in Byte /\ Quote \in Byte /\ DoubleQuote \in Byte
      BY ByteIs, QuoteBytes DEF Between, Quotes
    <3>2. <<101, Quote>> \in Text /\ <<98, Quote>> \in Text /\ <<Quote>> \in Text /\ <<DoubleQuote>> \in Text
      BY <3>1, ByteSeqs
    <3> QED
      BY <2>1, <3>1, <3>2 DEF OpensWith
  <2>3. w \in Text
    BY <2>1, SpelledTexts
  <2>4. o \o w \in Text /\ <<q>> \in Text /\ Len(<<q>>) = 1
    BY <2>2, <2>3, ByteSeqs
  <2>5. x \in Text /\ Len(x) = Len(o \o w) + 1
    BY <2>1, <2>4, ByteSeqs
  <2>6. Len(o \o w) \in Nat
    BY <2>4 DEF Text
  <2>7. Len(x) # 0
    BY <2>5, <2>6
  <2> QED
    BY <2>5, <2>7 DEF x
<1> QED
  BY <1>2, <1>3, EncodedIs

-----------------------------------------------------------------------------
(* How the reading of a value goes.                                        *)

FormOf(v) == Encode(v.kind, v.value)

(* The token is of this kind, when it is made of a literal. *)
Becomes(v, id) ==
    /\ v.kind = "string" => id = "SCONST"
    /\ v.kind = "bytes" => id = "BCONST"
    /\ v.kind \in Names => id = "IDENT"

Unread == at \in {"out", "blanks", "token"} /\ pos = 0

(* In the literal: what is left of it stands for what is left of the value. *)
InBody(v, after) ==
    /\ at = "string" /\ lval.pos = 0 /\ half = Eof /\ start <= pos /\ lit.quote \in Quotes
    /\ Becomes(v, LiteralKind)
    /\ \E w, c : /\ <<w, c>> \in Spelled(lit.quote, lit.escapes)
                 /\ GoesOn(in, pos, w, <<lit.quote>> \o after)
                 /\ v.value = Sofar \o c

BodyRead(v) ==
    /\ at = "finish" /\ lval.pos = 0 /\ half = Eof
    /\ Becomes(v, LiteralKind)
    /\ Read(buf) = v.value
    /\ Len(FormOf(v)) <= pos
    /\ \A k \in Len(FormOf(v))..(pos - 1) : ByteOf(in, k) \in Blank

(* The first token is the value. *)
TokenRight(x, v, t) ==
    /\ t.str = v.value
    /\ v.kind = "string" => t.id = "SCONST"
    /\ v.kind = "bytes" => t.id = "BCONST"
    /\ v.kind = "restricted" => t.id = "IDENT" \/ (t.id = "KEYWORD" /\ ~isReservedKeyword(t.str))
    /\ v.kind = "unrestricted" => t.id \in {"IDENT", "KEYWORD"}
    /\ t.pos = 0
    /\ AllIn(Part(x, Len(FormOf(v)), t.end), Blank)

Reading(v, after) ==
    /\ IsBoth(in, FormOf(v), after)
    /\ tokens = <<>> => Unread \/ InBody(v, after) \/ BodyRead(v)
    /\ tokens # <<>> => TokenRight(in, v, tokens[1])

LEMMA Regrouped ==
  ASSUME NEW a \in Text, NEW b \in Text, NEW c \in Text, NEW d \in Text, NEW x,
         IsBoth(x, (a \o b) \o c, d)
  PROVE  IsBoth(x, a, b \o (c \o d))
<1>1. a \o b \in Text
  BY ByteSeqs
<1>2. ((a \o b) \o c) \o d = (a \o b) \o (c \o d)
  BY <1>1, TextsAssociate, Zenon
<1>3. c \o d \in Text
  BY ByteSeqs
<1>4. (a \o b) \o (c \o d) = a \o (b \o (c \o d))
  BY <1>3, TextsAssociate, ZenonT(60)
<1> QED
  BY <1>2, <1>4 DEF IsBoth

LEMMA Splits ==
  ASSUME NEW t \in Text, NEW u \in Text, NEW r \in Text, IsBoth(t, u, r)
  PROVE  /\ Len(u) \in 0..Len(t) /\ Len(u) \in Nat
         /\ Part(t, Len(u), Len(t)) = r /\ Part(t, 0, Len(u)) = u
         /\ BytesAt(t, 0, u)
<1>1. Len(t) \in Nat /\ Len(u) \in Nat /\ 0 \in 0..Len(t)
  BY DEF Text
<1>2. GoesOn(t, 0, u, r)
  BY PartAll DEF GoesOn, IsBoth
<1>3. /\ 0 + Len(u) \in 0..Len(t) /\ Part(t, 0 + Len(u), Len(t)) = r
      /\ BytesAt(t, 0, u)
  BY <1>1, <1>2, PartSplit, ZenonT(60)
<1>5. Part(t, 0, 0 + Len(u)) = u
  BY <1>1, <1>2, PartSplit
<1>4. 0 + Len(u) = Len(u)
  BY <1>1
<1> QED
  BY <1>1, <1>3, <1>4, <1>5

LEMMA QuotedStarts ==
  ASSUME NEW v \in Values, in \in Text, NEW after \in Text, IsBoth(in, FormOf(v), after),
         WrittenQuoted(v, FormOf(v))
  PROVE  \E q, escapes, o, w :
            /\ OpensWith(v.kind, q, escapes, o)
            /\ <<w, v.value>> \in Spelled(q, escapes)
            /\ q \in Quotes /\ Len(o) \in {1, 2} /\ Len(o) \in 0..Len(in)
            /\ BytesAt(in, 0, o)
            /\ GoesOn(in, Len(o), w, <<q>> \o after)
<1> DEFINE x == FormOf(v)
<1>1. PICK q, escapes, o, w : /\ OpensWith(v.kind, q, escapes, o)
                              /\ <<w, v.value>> \in Spelled(q, escapes)
                              /\ x = (o \o w) \o <<q>>
  BY DEF WrittenQuoted
<1>2. q \in Quotes /\ Len(o) \in {1, 2}
  BY <1>1 DEF OpensWith, Quotes
<1>3. o \in Text /\ w \in Text /\ <<q>> \in Text
  <2>1. 101 \in Byte /\ 98 \in Byte /\ Quote \in Byte /\ DoubleQuote \in Byte
    BY ByteIs, QuoteBytes DEF Between, Quotes
  <2>2. <<101, Quote>> \in Text /\ <<98, Quote>> \in Text /\ <<Quote>> \in Text /\ <<DoubleQuote>> \in Text
    BY <2>1, ByteSeqs
  <2>3. w \in Text
    BY <1>1, SpelledTexts
  <2> QED
    BY <1>1, <2>2, <2>3 DEF OpensWith
<1>4. IsBoth(in, o, w \o (<<q>> \o after))
  <2> HIDE DEF x
  <2> DEFINE b == <<q>>
  <2>1. b \in Text
    BY <1>3
  <2>2. IsBoth(in, (o \o w) \o b, after)
    BY <1>1 DEF x
  <2> HIDE DEF b
  <2>3. IsBoth(in, o, w \o (b \o after))
    BY <1>3, <2>1, <2>2, Regrouped, Zenon
  <2> QED
    BY <2>3 DEF b
<1> DEFINE r == w \o (<<q>> \o after)
<1>5. r \in Text
  BY <1>3, ByteSeqs
<1>6. /\ Len(o) \in 0..Len(in) /\ Part(in, Len(o), Len(in)) = w \o (<<q>> \o after)
      /\ BytesAt(in, 0, o)
  <2>1. IsBoth(in, o, r)
    BY <1>4
  <2> HIDE DEF r
  <2>2. /\ Len(o) \in 0..Len(in) /\ Part(in, Len(o), Len(in)) = r
        /\ BytesAt(in, 0, o)
    BY <1>3, <1>5, <2>1, Splits, Zenon
  <2> QED
    BY <2>2 DEF r
<1>7. GoesOn(in, Len(o), w, <<q>> \o after)
  BY <1>6 DEF GoesOn
<1> QED
  BY <1>1, <1>2, <1>6, <1>7

LEMMA NameStarts ==
  \A b \in IdentStart : Between(b, 65, 90) \/ Between(b, 97, 122) \/ Between(b, 128, 255) \/ b = 95
<1>1. /\ \A b : b \in Upper <=> Between(b, 65, 90)
      /\ \A b : b \in Lower <=> Between(b, 97, 122)
      /\ \A b : b \in High <=> Between(b, 128, 255)
  <2>1. /\ Upper = 65..90 /\ Lower = 97..122 /\ High = 128..255
        /\ 65 \in Int /\ 90 \in Int /\ 97 \in Int /\ 122 \in Int /\ 128 \in Int /\ 255 \in Int
    BY DEF Upper, Lower, High
  <2> QED
    BY <2>1, IntervalIs
<1> QED
  BY <1>1 DEF IdentStart, Underscore

(* The first byte of a value starts a token. *)
LEMMA FirstByte ==
  ASSUME NEW v \in Values, Readable(v), in \in Text, NEW after \in Text, IsBoth(in, FormOf(v), after)
  PROVE  /\ ByteOf(in, 0) \notin Blank /\ ByteOf(in, 0) \notin {Slash, Minus}
         /\ ByteOf(in, 0) # Eof
<1>1. ASSUME WrittenQuoted(v, FormOf(v)) PROVE ByteOf(in, 0) \in {39, 34, 98, 101}
  <2>1. PICK q, escapes, o : /\ OpensWith(v.kind, q, escapes, o)
                             /\ BytesAt(in, 0, o)
    <3>1. PICK q, escapes, o, w :
            /\ OpensWith(v.kind, q, escapes, o)
            /\ <<w, v.value>> \in Spelled(q, escapes)
            /\ q \in Quotes /\ Len(o) \in {1, 2} /\ Len(o) \in 0..Len(in)
            /\ BytesAt(in, 0, o)
            /\ GoesOn(in, Len(o), w, <<q>> \o after)
      BY <1>1, QuotedStarts
    <3> QED
      BY <3>1
  <2>2. Len(o) \in {1, 2} /\ o[1] \in {39, 34, 98, 101}
    BY <2>1 DEF OpensWith, Quote, DoubleQuote
  <2>3. 1 \in 1..Len(o)
    BY <2>2
  <2>4. ByteOf(in, 0 + 1 - 1) = o[1]
    BY <2>1, <2>3 DEF BytesAt
  <2> QED
    BY <2>2, <2>4
<1>2. ASSUME WrittenBare(v, FormOf(v)) PROVE ByteOf(in, 0) \in IdentStart
  <2> DEFINE x == FormOf(v)
  <2>1. x \in Text /\ x # <<>> /\ x[1] \in IdentStart
    BY <1>2, EncodedText DEF WrittenBare, IsBareIdentifier, FormOf
  <2>2. Len(x) \in Nat /\ Len(x) # 0
    BY <2>1, EmptySeq DEF Text
  <2>3. 1 \in 1..Len(x)
    BY <2>2
  <2>4. BytesAt(in, 0, x)
    BY <2>1, Splits, Zenon
  <2>5. ByteOf(in, 0 + 1 - 1) = x[1]
    BY <2>3, <2>4 DEF BytesAt
  <2> QED
    BY <2>1, <2>5
<1>3. \A b \in IdentStart : Between(b, 65, 90) \/ Between(b, 97, 122) \/ Between(b, 128, 255) \/ b = 95
  BY NameStarts
<1>4. \A b : b \in IdentStart \/ b \in {39, 34, 98, 101}
             => b \notin Blank /\ b \notin {Slash, Minus} /\ b # Eof
  BY <1>3 DEF Between, Blank, Slash, Minus, Eof
<1> QED
  <2>1. WrittenQuoted(v, FormOf(v)) \/ WrittenBare(v, FormOf(v))
    BY EncodedIs DEF FormOf
  <2> QED
    BY <1>1, <1>2, <1>4, <2>1

-----------------------------------------------------------------------------
LEMMA TakenReads ==
  ASSUME Buffers, TakeBuffer
  PROVE  Read(buf)' = <<>>
<1>1. Lies(mem, free) /\ mem \in Seq(Text) /\ free \in SliceType
  BY DEF Buffers, BuffersInv, Lies
<1>2. /\ buf'.len = 0 /\ buf'.array = free.array /\ buf'.from = free.from /\ mem' = mem
  BY <1>1 DEF TakeBuffer, SliceType
<1>3. CASE free.array = 0
  BY <1>2, <1>3 DEF Read
<1>4. CASE free.array # 0
  <2> DEFINE k == free.array
             f == free.from
             a == mem[k]
  <2>1. k \in 1..Len(mem) /\ f \in Nat /\ f <= free.to /\ free.to \in Nat /\ free.to <= Len(a)
    BY <1>1, <1>4 DEF Lies, SliceType
  <2>2. a \in Text
    BY <1>1, <2>1
  <2>3. Len(a) \in Nat
    BY <2>2 DEF Text
  <2>4. Read(buf)' = Part(a, f, f + 0)
    BY <1>2, <1>4 DEF Read, Bytes, Part
  <2> HIDE DEF a, f, k
  <2>5. f + 0 = f /\ f \in 0..Len(a)
    BY <2>1, <2>3
  <2>6. Part(a, f, f) = <<>>
    BY <2>1, <2>2, <2>5, PartFacts
  <2> QED
    BY <2>4, <2>5, <2>6
<1> QED
  BY <1>3, <1>4

TokenActions == End \/ Symbol \/ Ident \/ Placeholder \/ OpenNumber \/ OpenDollar \/ OpenLiteral

LEMMA AtToken ==
  ASSUME ScanNext, at = "token"
  PROVE  TokenActions
BY DEF TokenActions, ScanNext, SkipWhitespace, Comment, AnotherDigit, HexMark, DecimalPoint, Exponent,
   NumberEnd, HexPair, Bit, QuoteInString, Escape, StringByte, FinishLiteral,
   DollarMark, DollarByte, NotDollarQuoted, DollarUnterminated, DollarBody

(* The literal is opened. *)
LEMMA OpeningRead ==
  ASSUME ScanInv, ScanNext, at = "token", pos = 0, NEW v \in Values, NEW after \in Text,
         IsBoth(in, FormOf(v), after), WrittenQuoted(v, FormOf(v))
  PROVE  in' = in /\ tokens' = tokens /\ InBody(v, after)'
<1>0. in \in Text /\ Len(in) \in Nat /\ Buffers /\ v.value \in Text
  BY Facts, TextsAssumption
<1>1. PICK q, escapes, o, w :
            /\ OpensWith(v.kind, q, escapes, o)
            /\ <<w, v.value>> \in Spelled(q, escapes)
            /\ q \in Quotes /\ Len(o) \in {1, 2} /\ Len(o) \in 0..Len(in)
            /\ BytesAt(in, 0, o)
            /\ GoesOn(in, Len(o), w, <<q>> \o after)
  BY <1>0, QuotedStarts
<1> DEFINE n == Len(o)
<1>2. /\ Peek = o[1] /\ (n = 2 => PeekAt(pos + 1) = o[2])
      /\ Peek = ByteOf(in, 0)
  <2>0. n \in {1, 2}
    BY <1>1
  <2>1. 1 \in 1..n /\ (n = 2 => 2 \in 1..n)
    <3> HIDE DEF n
    <3> QED
      BY <2>0
  <2>2. ByteOf(in, 0 + 1 - 1) = o[1] /\ (n = 2 => ByteOf(in, 0 + 2 - 1) = o[2])
    BY <1>1, <2>1 DEF BytesAt
  <2>3. 0 + 1 - 1 = 0 /\ 0 + 2 - 1 = pos + 1
    OBVIOUS
  <2> QED
    BY <2>2, <2>3, PeekIs
<1>3. /\ Peek \in {39, 34, 98, 101} /\ n \in 1..2
      /\ (Peek \in {98, 101} <=> n = 2)
      /\ n = 2 => PeekAt(pos + 1) = Quote
      /\ Peek = DoubleQuote => q = DoubleQuote
      /\ Peek # DoubleQuote => q = Quote
      /\ escapes = (Peek \in {98, 101, 69})
      /\ v.kind = "string" => Peek \in {39, 101}
      /\ v.kind = "bytes" => Peek = 98
      /\ v.kind \in Names => Peek = DoubleQuote
  <2>1. \/ v.kind = "string" /\ q = 39 /\ escapes = FALSE /\ o[1] = 39 /\ n = 1
        \/ v.kind = "string" /\ q = 39 /\ escapes = TRUE /\ o[1] = 101 /\ o[2] = 39 /\ n = 2
        \/ v.kind = "bytes" /\ q = 39 /\ escapes = TRUE /\ o[1] = 98 /\ o[2] = 39 /\ n = 2
        \/ v.kind \in Names /\ q = 34 /\ escapes = FALSE /\ o[1] = 34 /\ n = 1
    BY <1>1 DEF OpensWith, Quote, DoubleQuote
  <2> HIDE DEF n
  <2>3. Peek = o[1] /\ (n = 2 => PeekAt(pos + 1) = o[2])
    BY <1>2
  <2>4. CASE v.kind = "string" /\ q = 39 /\ escapes = FALSE /\ o[1] = 39 /\ n = 1
    <3>1. Peek = 39
      BY <2>3, <2>4
    <3>2. (Peek \in {98, 101, 69}) = FALSE
      BY <3>1
    <3>3. escapes = (Peek \in {98, 101, 69})
      BY <3>2, <2>4
    <3>4. /\ Peek \in {39, 34, 98, 101} /\ n \in 1..2
          /\ (Peek \in {98, 101} <=> n = 2)
      BY <3>1, <2>4
    <3>5. v.kind \in Names => v.kind # "string" /\ v.kind # "bytes"
      BY DEF Names
    <3>6. /\ n = 2 => PeekAt(pos + 1) = Quote
          /\ Peek = DoubleQuote => q = DoubleQuote
          /\ Peek # DoubleQuote => q = Quote
          /\ v.kind = "string" => Peek \in {39, 101}
          /\ v.kind = "bytes" => Peek = 98
          /\ v.kind \in Names => Peek = DoubleQuote
      BY <3>1, <3>5, <2>4 DEF Quote, DoubleQuote
    <3> QED
      BY <3>3, <3>4, <3>6
  <2>5. CASE v.kind = "string" /\ q = 39 /\ escapes = TRUE /\ o[1] = 101 /\ o[2] = 39 /\ n = 2
    <3>1. Peek = 101 /\ PeekAt(pos + 1) = 39
      BY <2>3, <2>5
    <3>2. (Peek \in {98, 101, 69}) = TRUE
      BY <3>1
    <3>3. escapes = (Peek \in {98, 101, 69})
      BY <3>2, <2>5
    <3>4. /\ Peek \in {39, 34, 98, 101} /\ n \in 1..2
          /\ (Peek \in {98, 101} <=> n = 2)
      BY <3>1, <2>5
    <3>5. v.kind \in Names => v.kind # "string" /\ v.kind # "bytes"
      BY DEF Names
    <3>6. /\ n = 2 => PeekAt(pos + 1) = Quote
          /\ Peek = DoubleQuote => q = DoubleQuote
          /\ Peek # DoubleQuote => q = Quote
          /\ v.kind = "string" => Peek \in {39, 101}
          /\ v.kind = "bytes" => Peek = 98
          /\ v.kind \in Names => Peek = DoubleQuote
      BY <3>1, <3>5, <2>5 DEF Quote, DoubleQuote
    <3> QED
      BY <3>3, <3>4, <3>6
  <2>6. CASE v.kind = "bytes" /\ q = 39 /\ escapes = TRUE /\ o[1] = 98 /\ o[2] = 39 /\ n = 2
    <3>1. Peek = 98 /\ PeekAt(pos + 1) = 39
      BY <2>3, <2>6
    <3>2. (Peek \in {98, 101, 69}) = TRUE
      BY <3>1
    <3>3. escapes = (Peek \in {98, 101, 69})
      BY <3>2, <2>6
    <3>4. /\ Peek \in {39, 34, 98, 101} /\ n \in 1..2
          /\ (Peek \in {98, 101} <=> n = 2)
      BY <3>1, <2>6
    <3>5. v.kind \in Names => v.kind # "string" /\ v.kind # "bytes"
      BY DEF Names
    <3>6. /\ n = 2 => PeekAt(pos + 1) = Quote
          /\ Peek = DoubleQuote => q = DoubleQuote
          /\ Peek # DoubleQuote => q = Quote
          /\ v.kind = "string" => Peek \in {39, 101}
          /\ v.kind = "bytes" => Peek = 98
          /\ v.kind \in Names => Peek = DoubleQuote
      BY <3>1, <3>5, <2>6 DEF Quote, DoubleQuote
    <3> QED
      BY <3>3, <3>4, <3>6
  <2>7. CASE v.kind \in Names /\ q = 34 /\ escapes = FALSE /\ o[1] = 34 /\ n = 1
    <3>1. Peek = 34
      BY <2>3, <2>7
    <3>2. (Peek \in {98, 101, 69}) = FALSE
      BY <3>1
    <3>3. escapes = (Peek \in {98, 101, 69})
      BY <3>2, <2>7
    <3>4. /\ Peek \in {39, 34, 98, 101} /\ n \in 1..2
          /\ (Peek \in {98, 101} <=> n = 2)
      BY <3>1, <2>7
    <3>5. v.kind \in Names => v.kind # "string" /\ v.kind # "bytes"
      BY DEF Names
    <3>6. /\ n = 2 => PeekAt(pos + 1) = Quote
          /\ Peek = DoubleQuote => q = DoubleQuote
          /\ Peek # DoubleQuote => q = Quote
          /\ v.kind = "string" => Peek \in {39, 101}
          /\ v.kind = "bytes" => Peek = 98
          /\ v.kind \in Names => Peek = DoubleQuote
      BY <3>1, <3>5, <2>7 DEF Quote, DoubleQuote
    <3> QED
      BY <3>3, <3>4, <3>6
  <2> QED
    BY <2>1, <2>4, <2>5, <2>6, <2>7
<1> HIDE DEF n
<1>4. Opens(n) /\ \A m \in 1..2 : Opens(m) => m = n
  BY <1>3 DEF Opens, Quote, DoubleQuote
<1>5. OpenLiteral
  <2>1. ~End /\ ~Placeholder /\ ~OpenDollar
    BY <1>3 DEF End, Placeholder, OpenDollar, Eof, Nul, Dollar
  <2>2. ~Symbol
    BY <1>3, <1>4 DEF Symbol
  <2>3. ~Ident
    <3>1. 39 \notin IdentStart /\ 34 \notin IdentStart
      BY SMT DEF IdentStart, Upper, Lower, High, Underscore
    <3>2. n = 2 => Opens(2)
      BY <1>4
    <3> QED
      BY <1>3, <3>1, <3>2 DEF Ident
  <2>4. ~OpenNumber
    <3>1. \A b \in {39, 34, 98, 101} : b \notin Digit /\ b # Dot
      BY SMT DEF Digit, Dot
    <3> QED
      BY <1>3, <3>1 DEF OpenNumber, NumberStarts
  <2> QED
    BY <2>1, <2>2, <2>3, <2>4, AtToken DEF TokenActions
<1>6. /\ in' = in /\ tokens' = tokens /\ half' = Eof /\ TakeBuffer
      /\ lval'.pos = 0 /\ pos' = n /\ start' = n /\ at' = "string"
      /\ lit'.quote = q /\ lit'.escapes = escapes
  <2>1. PICK m \in 1..2 :
          /\ Opens(m)
          /\ Enter(IF Peek = 66 THEN "bits" ELSE IF Peek \in {120, 88} THEN "hex" ELSE "string", m)
          /\ start' = pos + m
    BY <1>5 DEF OpenLiteral
  <2>2. m = n
    BY <1>4, <2>1
  <2>3. (IF Peek = 66 THEN "bits" ELSE IF Peek \in {120, 88} THEN "hex" ELSE "string") = "string"
    BY <1>3
  <2>4. at' = "string" /\ lval'.pos = 0 /\ pos' = pos + m
    BY <2>1, <2>3 DEF Enter
  <2>5. 0 + n = n
    BY <1>3
  <2>6. lit'.quote = q /\ lit'.escapes = escapes
    <3>1. lit' = [quote   |-> IF Peek = DoubleQuote THEN DoubleQuote ELSE Quote,
                  escapes |-> Peek \in {98, 101, 69}]
      BY <1>5 DEF OpenLiteral
    <3> QED
      BY <1>3, <3>1
  <2> QED
    BY <1>5, <2>1, <2>2, <2>4, <2>5, <2>6 DEF OpenLiteral
<1>7. Becomes(v, LiteralKind)'
  <2>1. PeekAt(lval.pos)' = Peek
    BY <1>2, <1>6 DEF PeekAt, ByteOf
  <2>2. LiteralKind' = CASE lit'.quote = DoubleQuote -> "IDENT"
                         [] PeekAt(lval.pos)' = 66  -> "BITCONST"
                         [] PeekAt(lval.pos)' \in {98, 120, 88} -> "BCONST"
                         [] OTHER -> "SCONST"
    BY DEF LiteralKind
  <2>3. /\ v.kind = "string" => lit'.quote # DoubleQuote
        /\ v.kind = "bytes" => lit'.quote # DoubleQuote
        /\ v.kind \in Names => lit'.quote = DoubleQuote
    BY <1>3, <1>6 DEF DoubleQuote, Quote
  <2>4. /\ v.kind = "string" => LiteralKind' = "SCONST"
        /\ v.kind = "bytes" => LiteralKind' = "BCONST"
        /\ v.kind \in Names => LiteralKind' = "IDENT"
    <3>1. v.kind = "string" => LiteralKind' = "SCONST"
      BY <1>3, <2>1, <2>2, <2>3
    <3>2. v.kind = "bytes" => LiteralKind' = "BCONST"
      BY <1>3, <2>1, <2>2, <2>3
    <3>3. v.kind \in Names => LiteralKind' = "IDENT"
      <4>1. v.kind \in Names => lit'.quote = DoubleQuote /\ Peek = DoubleQuote
        BY <1>3, <2>3
      <4>2. ~(DoubleQuote = 66) /\ ~(DoubleQuote \in {98, 120, 88})
        BY DEF DoubleQuote
      <4>3. v.kind \in Names => /\ lit'.quote = DoubleQuote /\ ~(PeekAt(lval.pos)' = 66)
                               /\ ~(PeekAt(lval.pos)' \in {98, 120, 88})
        BY <2>1, <4>1, <4>2
      <4> QED
        BY <2>2, <4>3
    <3> QED
      BY <3>1, <3>2, <3>3
  <2> QED
    BY <2>4 DEF Becomes
<1>8. Sofar' = <<>>
  <2>1. Read(buf)' = <<>>
    BY <1>0, <1>6, TakenReads
  <2>2. Part(in, n, n) = <<>>
    <3>1. n \in Nat /\ n \in 0..Len(in)
      BY <1>1, <1>3 DEF n
    <3> QED
      BY <1>0, <3>1, PartFacts
  <2> QED
    BY <1>6, <2>1, <2>2, TextWhole, ByteSeqs DEF Sofar
<1>9. /\ v.value = Sofar' \o v.value
      /\ GoesOn(in', pos', w, <<lit'.quote>> \o after)
      /\ <<w, v.value>> \in Spelled(lit'.quote, lit'.escapes)
      /\ start' <= pos'
  <2>1. v.value = Sofar' \o v.value
    BY <1>0, <1>8, TextWhole
  <2>2. start' <= pos'
    BY <1>3, <1>6
  <2> QED
    BY <1>1, <1>6, <2>1, <2>2 DEF n
<1> QED
  BY <1>1, <1>6, <1>7, <1>9, Zenon DEF InBody

-----------------------------------------------------------------------------
(* The steps in the literal.                                               *)

LEMMA StringActions ==
  ASSUME ScanNext, at = "string"
  PROVE  QuoteInString \/ Escape \/ StringByte
BY DEF ScanNext, SkipWhitespace, Comment, End, Symbol, Ident, Placeholder, OpenNumber, OpenDollar,
   OpenLiteral, AnotherDigit, HexMark, DecimalPoint, Exponent, NumberEnd, HexPair, Bit,
   FinishLiteral, DollarMark, DollarByte, NotDollarQuoted, DollarUnterminated, DollarBody

LEMMA SofarText ==
  ASSUME ScanInv
  PROVE  Sofar \in Text
<1>1. Read(buf) \in Text /\ Part(in, start, pos) \in Text
  BY Facts, ReadText, PartFacts
<1> QED
  BY <1>1, ByteSeqs DEF Sofar

(* What is part of the literal, and part of what it says. *)
LEMMA BodyUnit ==
  ASSUME ScanInv, ScanNext, NEW v \in Values, NEW after \in Text,
         at = "string", lval.pos = 0, half = Eof, start <= pos, lit.quote \in Quotes,
         Becomes(v, LiteralKind), NEW u, NEW d, NEW x, NEW y,
         IsUnit(lit.quote, lit.escapes, u, d), <<x, y>> \in Spelled(lit.quote, lit.escapes),
         GoesOn(in, pos, u \o x, <<lit.quote>> \o after), IsBoth(v.value, Sofar, d \o y)
  PROVE  in' = in /\ tokens' = tokens /\ InBody(v, after)'
<1> DEFINE q == lit.quote
           z == <<lit.quote>> \o after
           n == Len(u)
<1>0. in \in Text /\ Len(in) \in Nat /\ pos \in 0..Len(in) /\ Sofar \in Text
  BY Facts, SofarText
<1>1. u \in Text /\ d \in Text /\ x \in Text /\ y \in Text /\ z \in Text
  <2>1. x \in Text /\ y \in Text
    BY SpelledTexts, Zenon
  <2>2. u \in Text /\ d \in Text
    BY UnitTexts, Zenon
  <2>3. <<lit.quote>> \in Text
    BY QuoteBytes, ByteSeqs
  <2> QED
    BY <2>1, <2>2, <2>3, ByteSeqs
<1>2. GoesOn(in, pos, u \o x, z)
  OBVIOUS
<1> HIDE DEF z
<1>3. x \o z \in Text
  BY <1>1, ByteSeqs
<1>4. GoesOn(in, pos, u, x \o z)
  BY <1>1, <1>2, TextsAssociate, ZenonT(60) DEF GoesOn
<1>5. /\ pos + n \in 0..Len(in) /\ Part(in, pos + n, Len(in)) = x \o z
      /\ BytesAt(in, pos, u)
  <2> DEFINE r == x \o z
  <2>1. r \in Text /\ GoesOn(in, pos, u, r)
    BY <1>3, <1>4
  <2> HIDE DEF r
  <2>2. /\ pos + n \in 0..Len(in) /\ Part(in, pos + n, Len(in)) = r
        /\ BytesAt(in, pos, u)
    BY <1>0, <1>1, <2>1, PartSplit
  <2> QED
    BY <2>2 DEF r
<1>6. GoesOn(in, pos + n, x, z)
  BY <1>5, Zenon DEF GoesOn
<1> HIDE DEF n
<1>7. /\ UNCHANGED <<in, at, lval, lit, half, tokens>>
      /\ pos' = pos + n /\ start' <= pos'
      /\ Sofar' = Sofar \o d
  <2>1. QuoteInString \/ Escape \/ StringByte
    BY StringActions
  <2>2. \A i \in 1..Len(u) : ByteOf(in, pos + i - 1) = u[i]
    BY <1>5, Zenon DEF BytesAt
  <2> QED
    BY <1>5, <2>1, <2>2, UnitRead DEF n
<1>8. IsBoth(v.value, Sofar', y)
  <2>1. Sofar \in Text /\ d \in Text /\ y \in Text
    BY <1>0, <1>1
  <2>2. (Sofar \o d) \o y = Sofar \o (d \o y)
    BY ONLY <2>1, TextsAssociate, Zenon
  <2> QED
    BY <1>7, <2>2, Zenon DEF IsBoth
<1>9. LiteralKind' = LiteralKind
  BY <1>7 DEF LiteralKind, PeekAt
<1>10. Becomes(v, LiteralKind)'
  BY <1>9 DEF Becomes
<1>11. \E w, c : /\ <<w, c>> \in Spelled(lit'.quote, lit'.escapes)
                 /\ GoesOn(in', pos', w, <<lit'.quote>> \o after)
                 /\ v.value = Sofar' \o c
  <2>1. lit' = lit /\ in' = in /\ pos' = pos + n
    BY <1>7
  <2>2. GoesOn(in', pos', x, <<lit'.quote>> \o after)
    BY <1>6, <2>1 DEF z
  <2>3. v.value = Sofar' \o y
    BY <1>8 DEF IsBoth
  <2> QED
    BY <2>1, <2>2, <2>3
<1> QED
  BY <1>7, <1>10, <1>11 DEF InBody

(* What follows does not go on with the literal. *)
LEMMA NotJoined ==
  ASSUME in \in Text, NEW p \in Nat, p + 1 \in 0..Len(in), NEW after \in Text, SetOff(after),
         Part(in, p + 1, Len(in)) = after, lit.quote \in Quotes
  PROVE  /\ PeekAt(p + 1) # lit.quote /\ ~Joins(p + 1)
         /\ Len(after) = Len(in) - (p + 1) /\ Len(after) \in Nat
<1>0. Len(in) \in Nat /\ Len(in) \in 0..Len(in) /\ p + 1 \in Nat /\ p + 1 <= Len(in) /\ Eof \notin Quotes
  BY DEF Text, Eof, Quotes, Quote, DoubleQuote
<1>1. /\ Len(after) = Len(in) - (p + 1) /\ Len(after) \in Nat
      /\ \A i \in 1..Len(after) : after[i] = ByteOf(in, (p + 1) + i - 1)
  BY <1>0, PartFacts, SMTT(40)
<1>2. \A i \in 1..Len(after) : after[i] = ByteOf(in, p + i) /\ p + i \in Nat
  <2> TAKE i \in 1..Len(after)
  <2>1. (p + 1) + i - 1 = p + i /\ p + i \in Nat
    BY <1>1
  <2> QED
    BY <1>1, <2>1
<1>3. PeekAt(p + 1) # lit.quote
  <2>1. CASE p + 1 < Len(in)
    <3>1. 1 \in 1..Len(after)
      BY <1>0, <1>1, <2>1
    <3>2. after[1] = ByteOf(in, p + 1)
      BY <1>2, <3>1
    <3>3. after # <<>>
      BY <3>1, EmptySeq
    <3> QED
      BY <3>2, <3>3, PeekIs DEF SetOff
  <2>2. CASE ~(p + 1 < Len(in))
    BY <1>0, <2>2, PeekIs DEF ByteOf
  <2> QED
    BY <2>1, <2>2
<1>4. ASSUME Joins(p + 1) PROVE FALSE
  <2> DEFINE e == SpanEnd(p + 1, Blank)
             n == e - p
  <2>1. /\ e \in (p + 1)..Len(in)
        /\ \A r \in (p + 1)..(e - 1) : ByteOf(in, r) \in Blank
    BY SpanSpec
  <2>2. ByteOf(in, e) \in Quotes
    BY <1>4, PeekIs DEF Joins
  <2>3. PICK r \in (p + 1)..(e - 1) : ByteOf(in, r) = Newline
    BY <1>4, PeekIs DEF Joins
  <2> HIDE DEF e
  <2>4. e < Len(in)
    BY <1>0, <2>1, <2>2 DEF ByteOf
  <2>5. n \in 1..Len(after) /\ p + n = e
    BY <1>0, <1>1, <2>1, <2>4
  <2>6. after[n] \in Quotes
    BY <1>2, <2>2, <2>5
  <2>7. ASSUME NEW i \in 1..(n - 1) PROVE after[i] = ByteOf(in, p + i) /\ p + i \in (p + 1)..(e - 1)
    BY <1>0, <1>1, <1>2, <2>1, <2>5
  <2>8. \A i \in 1..(n - 1) : after[i] # Newline
    BY <2>1, <2>5, <2>6, <2>7, SMTT(40) DEF SetOff
  <2>9. r - p \in 1..(n - 1) /\ p + (r - p) = r
    BY <1>0, <2>1, <2>3
  <2> QED
    BY <2>3, <2>7, <2>8, <2>9
<1> QED
  BY <1>1, <1>3, <1>4

-----------------------------------------------------------------------------
(* The end of the literal. *)
LEMMA BodyClose ==
  ASSUME ScanInv, ScanNext, NEW v \in Values, NEW after \in Text, SetOff(after),
         IsBoth(in, FormOf(v), after), FormOf(v) \in Text,
         at = "string", lval.pos = 0, half = Eof, start <= pos, lit.quote \in Quotes,
         Becomes(v, LiteralKind),
         GoesOn(in, pos, <<>>, <<lit.quote>> \o after), IsBoth(v.value, Sofar, <<>>)
  PROVE  in' = in /\ tokens' = tokens /\ BodyRead(v)'
<1> DEFINE q == lit.quote
           b == <<lit.quote>>
<1>0. /\ in \in Text /\ Len(in) \in Nat /\ pos \in 0..Len(in) /\ pos \in Nat /\ Sofar \in Text /\ Buffers
      /\ start \in Nat /\ start \in 0..Len(in)
  BY Facts, SofarText
<1>1. b \in Text /\ Len(b) = 1 /\ b[1] = q /\ b \o after \in Text
  BY QuoteBytes, ByteSeqs
<1>2. GoesOn(in, pos, b, after)
  <2>1. <<>> \o (b \o after) = b \o after
    BY <1>1, TextWhole
  <2> QED
    BY <2>1 DEF GoesOn
<1> HIDE DEF b
<1>3. pos + 1 \in 0..Len(in) /\ Part(in, pos + 1, Len(in)) = after /\ Peek = q
  <2>1. /\ pos + Len(b) \in 0..Len(in) /\ Part(in, pos + Len(b), Len(in)) = after
        /\ BytesAt(in, pos, b)
    <3>1. b \in Text /\ in \in Text /\ pos \in 0..Len(in) /\ GoesOn(in, pos, b, after)
      BY <1>0, <1>1, <1>2
    <3> QED
      BY <3>1, PartSplit
  <2>2. ByteOf(in, pos + 1 - 1) = q
    <3>1. 1 \in 1..Len(b)
      BY <1>1
    <3> QED
      BY <1>1, <2>1, <3>1 DEF BytesAt
  <2>3. pos + 1 - 1 = pos
    BY <1>0
  <2> QED
    BY <1>1, <2>1, <2>2, <2>3, PeekIs
<1>4. /\ PeekAt(pos + 1) # q /\ ~Joins(pos + 1)
      /\ Len(after) = Len(in) - (pos + 1) /\ Len(after) \in Nat
  BY <1>0, <1>3, NotJoined
<1>5. CloseQuote(Slice(start, pos))
  <2>1. QuoteInString \/ Escape \/ StringByte
    BY StringActions
  <2>2. ~StringByte
    BY <1>3 DEF StringByte
  <2>3. ~Escape
    BY <1>3 DEF Escape, Quotes, Quote, DoubleQuote, Backslash
  <2> QED
    BY <1>4, <2>1, <2>2, <2>3 DEF QuoteInString
<1> DEFINE e == SpanEnd(pos + 1, Blank)
<1>6. /\ pos' = e /\ at' = "finish" /\ AppendBytes(Slice(start, pos))
      /\ UNCHANGED <<lval, half, tokens, in, lit>>
  BY <1>4, <1>5, Zenon DEF CloseQuote, literalRest
<1>7. Read(buf)' = v.value
  <2>1. Slice(start, pos) = Part(in, start, pos) /\ Part(in, start, pos) \in Text
    BY <1>0, PeekIs, PartFacts
  <2>2. Read(buf)' = Read(buf) \o Part(in, start, pos)
    BY <1>0, <1>6, <2>1, AppendMore
  <2>3. Sofar \o <<>> = Sofar
    BY <1>0, TextWhole
  <2> QED
    BY <2>2, <2>3 DEF IsBoth, Sofar
<1>8. /\ e \in (pos + 1)..Len(in)
      /\ \A r \in (pos + 1)..(e - 1) : ByteOf(in, r) \in Blank
  BY <1>0, <1>3, SpanSpec
<1>9. Len(FormOf(v)) = pos + 1
  <2>1. /\ Len(FormOf(v)) \in 0..Len(in)
        /\ Part(in, Len(FormOf(v)), Len(in)) = after
    BY <1>0, Splits, ZenonT(60)
  <2> DEFINE n == Len(FormOf(v))
  <2> HIDE DEF n
  <2>2. n \in Nat /\ n <= Len(in) /\ Len(in) \in 0..Len(in)
    BY <1>0, <2>1 DEF n
  <2>3. Len(Part(in, n, Len(in))) = Len(in) - n
    BY <1>0, <2>2, PartFacts, SMTT(40)
  <2>4. Len(in) - n = Len(in) - (pos + 1)
    BY <1>4, <2>1, <2>3 DEF n
  <2> QED
    BY <1>0, <2>2, <2>4 DEF n
<1>10. LiteralKind' = LiteralKind
  BY <1>6 DEF LiteralKind, PeekAt
<1>11. Becomes(v, LiteralKind)'
  BY <1>10 DEF Becomes
<1> HIDE DEF e
<1>12. /\ Len(FormOf(v)) <= pos'
       /\ \A k \in Len(FormOf(v))..(pos' - 1) : ByteOf(in', k) \in Blank
  BY <1>0, <1>6, <1>8, <1>9
<1> QED
  BY <1>6, <1>7, <1>11, <1>12 DEF BodyRead

LEMMA BodyStep ==
  ASSUME ScanInv, ScanNext, NEW v \in Values, NEW after \in Text, SetOff(after),
         IsBoth(in, FormOf(v), after), FormOf(v) \in Text, InBody(v, after)
  PROVE  in' = in /\ tokens' = tokens /\ (InBody(v, after)' \/ BodyRead(v)')
<1>1. PICK w, c : /\ <<w, c>> \in Spelled(lit.quote, lit.escapes)
                  /\ GoesOn(in, pos, w, <<lit.quote>> \o after)
                  /\ IsBoth(v.value, Sofar, c)
  BY DEF InBody, IsBoth
<1>2. /\ at = "string" /\ lval.pos = 0 /\ half = Eof /\ start <= pos /\ lit.quote \in Quotes
      /\ Becomes(v, LiteralKind)
  BY DEF InBody
<1>3. \/ w = <<>> /\ c = <<>>
      \/ \E u, d, x, y : /\ IsUnit(lit.quote, lit.escapes, u, d) /\ <<x, y>> \in Spelled(lit.quote, lit.escapes)
                         /\ IsBoth(w, u, x) /\ IsBoth(c, d, y)
  <2> DEFINE q == lit.quote
             s == lit.escapes
  <2>1. q \in Quotes /\ <<w, c>> \in Spelled(q, s)
    BY <1>1, <1>2
  <2> HIDE DEF q, s
  <2>2. \/ w = <<>> /\ c = <<>>
        \/ \E u, d, x, y : /\ IsUnit(q, s, u, d) /\ <<x, y>> \in Spelled(q, s)
                           /\ IsBoth(w, u, x) /\ IsBoth(c, d, y)
    BY <2>1, SpelledCases, Zenon
  <2> QED
    BY <2>2, Zenon DEF q, s
<1>4. CASE w = <<>> /\ c = <<>>
  BY <1>1, <1>2, <1>4, BodyClose, Zenon
<1>5. ASSUME NEW u, NEW d, NEW x, NEW y,
             IsUnit(lit.quote, lit.escapes, u, d), <<x, y>> \in Spelled(lit.quote, lit.escapes),
             IsBoth(w, u, x), IsBoth(c, d, y)
      PROVE  in' = in /\ tokens' = tokens /\ InBody(v, after)'
  <2>1. GoesOn(in, pos, u \o x, <<lit.quote>> \o after) /\ IsBoth(v.value, Sofar, d \o y)
    <3>1. w = u \o x /\ c = d \o y
      BY <1>5 DEF IsBoth
    <3> QED
      BY <1>1, <3>1, Zenon
  <2> QED
    BY <1>2, <1>5, <2>1, BodyUnit, Zenon
<1> QED
  BY <1>3, <1>4, <1>5, Zenon

(* The literal becomes a token. *)
LEMMA FinishStep ==
  ASSUME ScanInv, ScanNext, NEW v \in Values, Readable(v), tokens = <<>>, BodyRead(v)
  PROVE  in' = in /\ tokens' # <<>> /\ TokenRight(in, v, tokens'[1])
<1>1. /\ at = "finish" /\ lval.pos = 0 /\ half = Eof /\ Becomes(v, LiteralKind)
      /\ Read(buf) = v.value
      /\ Len(FormOf(v)) <= pos
      /\ \A k \in Len(FormOf(v))..(pos - 1) : ByteOf(in, k) \in Blank
  BY DEF BodyRead
<1>2. FinishLiteral
  BY <1>1 DEF ScanNext, SkipWhitespace, Comment, End, Symbol, Ident, Placeholder, OpenNumber,
     OpenDollar, OpenLiteral, AnotherDigit, HexMark, DecimalPoint, Exponent, NumberEnd, HexPair,
     Bit, QuoteInString, Escape, StringByte, DollarMark, DollarByte, NotDollarQuoted,
     DollarUnterminated, DollarBody
<1>3. v.kind \in Kinds /\ v.value \in Text
  BY TextsAssumption
<1>4. LiteralKind \in {"IDENT", "SCONST"} => ValidUTF8(Read(buf))
  <2>1. v.kind = "bytes" => LiteralKind = "BCONST"
    BY <1>1 DEF Becomes
  <2>2. v.kind # "bytes" => ValidUTF8(v.value)
    BY DEF Readable
  <2> QED
    BY <1>1, <2>1, <2>2
<1>5. Emit(LiteralKind, 0, v.value, pos) /\ in' = in
  <2>1. LiteralKind = "IDENT" => v.kind \in Names
    BY <1>1, <1>3 DEF Becomes, Kinds, Names
  <2>2. LiteralValue = v.value
    BY <1>1, <2>1, Zenon DEF Readable, LiteralValue
  <2> QED
    BY <1>1, <1>2, <1>4, <2>2, Zenon DEF FinishLiteral, literalRest
<1> DEFINE t == [id |-> LiteralKind, pos |-> 0, str |-> v.value, end |-> pos]
<1>6. tokens' = Append(<<>>, t)
  BY <1>5 DEF Emit
<1>7. t.id = LiteralKind /\ t.pos = 0 /\ t.str = v.value /\ t.end = pos
  OBVIOUS
<1> HIDE DEF t
<1>8. tokens'[1] = t /\ tokens' # <<>>
  BY <1>6
<1>9. AllIn(Part(in, Len(FormOf(v)), pos), Blank)
  <2> DEFINE n == Len(FormOf(v))
             s == Part(in, n, pos)
  <2>1. in \in Text /\ pos \in 0..Len(in) /\ pos \in Nat
    BY Facts
  <2>2. n \in Nat
    <3>1. FormOf(v) \in Text
      BY EncodedText DEF FormOf
    <3> QED
      BY <3>1 DEF Text
  <2>3. n <= pos /\ \A k \in n..(pos - 1) : ByteOf(in, k) \in Blank
    BY <1>1
  <2> HIDE DEF n
  <2>4. Len(s) = pos - n /\ \A i \in 1..Len(s) : s[i] = ByteOf(in, n + i - 1)
    BY <2>1, <2>2, <2>3, PartFacts
  <2> HIDE DEF s
  <2>5. \A i \in 1..Len(s) : s[i] \in Blank
    <3> TAKE i \in 1..Len(s)
    <3>1. n + i - 1 \in n..(pos - 1)
      BY <2>1, <2>2, <2>3, <2>4
    <3> QED
      BY <2>3, <2>4, <3>1
  <2> QED
    BY <2>5 DEF AllIn, s, n
<1>10. TokenRight(in, v, t)
  <2>1. /\ v.kind = "string" => t.id = "SCONST"
        /\ v.kind = "bytes" => t.id = "BCONST"
        /\ v.kind \in Names => t.id = "IDENT"
    BY <1>1, <1>7 DEF Becomes
  <2> QED
    BY <1>7, <1>9, <2>1 DEF TokenRight, Names
<1> QED
  BY <1>5, <1>8, <1>10

-----------------------------------------------------------------------------
(* A name that is written as it is.                                        *)

LEMMA NameBytes ==
  /\ \A b \in IdentStart : b \notin Quotes \cup Digit \cup {Eof, Nul, Dollar, Dot}
  /\ \A b \in IdentMiddle : b \notin Quotes /\ b # Eof
  /\ IdentStart \subseteq IdentMiddle
<1>1. \A b \in IdentStart : Between(b, 65, 90) \/ Between(b, 97, 122) \/ Between(b, 128, 255) \/ b = 95
  BY NameStarts
<1>2. \A b : b \in Digit <=> Between(b, 48, 57)
  <2>1. Digit = 48..57 /\ 48 \in Int /\ 57 \in Int
    BY DEF Digit
  <2> QED
    BY <2>1, IntervalIs
<1>3. \A b \in IdentStart : b \notin Quotes /\ b \notin Digit /\ b \notin {Eof, Nul, Dollar, Dot}
  BY <1>1, <1>2 DEF Between, Quotes, Quote, DoubleQuote, Eof, Nul, Dollar, Dot
<1>4. \A b : b \in Digit \/ b = Dollar => b \notin Quotes /\ b # Eof
  BY <1>2 DEF Between, Quotes, Quote, DoubleQuote, Eof, Dollar
<1> QED
  BY <1>3, <1>4 DEF IdentMiddle

(* It reaches as far as it was written. *)
LEMMA BareReach ==
  ASSUME in \in Text, NEW x \in Text, NEW after \in Text, IsBoth(in, x, after), SetOff(after),
         x # <<>>, \A i \in 1..Len(x) : x[i] \in IdentMiddle
  PROVE  /\ SpanEnd(0, IdentMiddle) = Len(x) /\ Part(in, 0, Len(x)) = x
         /\ ByteOf(in, 0) = x[1] /\ ByteOf(in, 1) # Quote
         /\ Len(x) \in 0..Len(in) /\ Len(x) \in Nat
<1> DEFINE n == Len(x)
<1>1. /\ n \in 0..Len(in) /\ n \in Nat /\ n # 0 /\ Len(in) \in Nat
      /\ Part(in, n, Len(in)) = after /\ Part(in, 0, n) = x /\ BytesAt(in, 0, x)
  <2>1. Len(in) \in Nat /\ n # 0
    BY EmptySeq DEF Text
  <2> QED
    BY <2>1, Splits, Zenon
<1>2. \A k \in 0..(n - 1) : ByteOf(in, k) = x[k + 1] /\ ByteOf(in, k) \in IdentMiddle
  <2> TAKE k \in 0..(n - 1)
  <2>1. k + 1 \in 1..n /\ 0 + (k + 1) - 1 = k
    BY <1>1
  <2>2. ByteOf(in, 0 + (k + 1) - 1) = x[k + 1]
    BY <1>1, <2>1 DEF BytesAt
  <2> QED
    BY <2>1, <2>2
<1>3. ByteOf(in, n) \notin IdentMiddle /\ ByteOf(in, n) \notin Quotes
  <2>1. CASE n < Len(in)
    <3> DEFINE a == after[1]
    <3>1. Len(in) \in 0..Len(in) /\ n <= Len(in)
      BY <1>1
    <3>2. /\ Len(after) = Len(in) - n
          /\ \A i \in 1..Len(after) : after[i] = ByteOf(in, n + i - 1)
      BY <1>1, <3>1, PartFacts
    <3>3. 1 \in 1..Len(after) /\ n + 1 - 1 = n
      BY <1>1, <2>1, <3>2
    <3>4. after[1] = ByteOf(in, n) /\ after # <<>>
      BY <3>2, <3>3, EmptySeq
    <3> QED
      BY <3>4 DEF SetOff
  <2>2. CASE ~(n < Len(in))
    <3>1. ByteOf(in, n) = Eof
      BY <2>2 DEF ByteOf
    <3> QED
      BY <3>1, NameBytes DEF Quotes, Quote, DoubleQuote, Eof
  <2> QED
    BY <2>1, <2>2
<1>4. ByteOf(in, 1) # Quote
  <2>1. n = 1 \/ 1 \in 0..(n - 1)
    <3>1. n \in Nat /\ n # 0
      BY <1>1
    <3> HIDE DEF n
    <3> QED
      BY <3>1
  <2>2. Quote \in Quotes
    BY DEF Quotes
  <2> QED
    BY <1>2, <1>3, <2>1, <2>2, NameBytes
<1> DEFINE e == SpanEnd(0, IdentMiddle)
<1>5. /\ e \in 0..Len(in) /\ \A r \in 0..(e - 1) : ByteOf(in, r) \in IdentMiddle
      /\ e < Len(in) => ByteOf(in, e) \notin IdentMiddle
  BY <1>1, SpanSpec
<1> HIDE DEF e, n
<1>6. e = n
  <2>1. ~(e < n)
    <3>1. e < n => e \in 0..(n - 1) /\ e < Len(in)
      BY <1>1, <1>5
    <3> QED
      BY <1>2, <1>5, <3>1
  <2>2. ~(n < e)
    <3>1. n < e => n \in 0..(e - 1)
      BY <1>1, <1>5
    <3> QED
      BY <1>3, <1>5, <3>1
  <2> QED
    BY <1>1, <1>5, <2>1, <2>2
<1>7. ByteOf(in, 0) = x[1]
  <2>1. 0 \in 0..(n - 1) /\ 0 + 1 = 1
    BY <1>1
  <2> QED
    BY <1>2, <2>1
<1> QED
  BY <1>1, <1>4, <1>6, <1>7 DEF e, n

LEMMA BareStep ==
  ASSUME ScanInv, ScanNext, at = "token", pos = 0, tokens = <<>>, NEW v \in Values, Readable(v),
         NEW after \in Text, SetOff(after), IsBoth(in, FormOf(v), after), WrittenBare(v, FormOf(v))
  PROVE  in' = in /\ tokens' # <<>> /\ TokenRight(in, v, tokens'[1])
<1> DEFINE x == v.value
           n == Len(x)
<1>0. in \in Text /\ x \in Text /\ v.kind \in Names /\ FormOf(v) = x /\ IsBareIdentifier(x)
      /\ IsBoth(in, x, after)
  BY Facts, TextsAssumption DEF WrittenBare
<1>1. /\ x # <<>> /\ x[1] \in IdentStart
      /\ \A i \in 1..n : x[i] \in IdentMiddle /\ x[i] \notin Upper
      /\ IsASCII(x) \/ NormalizeName(x) = x
  BY <1>0 DEF IsBareIdentifier
<1>2. /\ SpanEnd(0, IdentMiddle) = n /\ Part(in, 0, n) = x
      /\ ByteOf(in, 0) = x[1] /\ ByteOf(in, 1) # Quote
      /\ n \in 0..Len(in) /\ n \in Nat
  BY <1>0, <1>1, BareReach, Zenon
<1>3. Peek \in IdentStart /\ PeekAt(pos + 1) # Quote
  BY <1>1, <1>2, PeekIs
<1> HIDE DEF x, n
<1>4. Peek \notin Quotes /\ \A m \in 1..2 : ~Opens(m)
  <2>1. Peek \notin Quotes
    BY <1>3, NameBytes
  <2>2. Peek # Quote /\ Peek # DoubleQuote
    BY <2>1 DEF Quotes
  <2> QED
    BY <1>3, <2>1, <2>2 DEF Opens
<1>5. Ident
  <2>1. Peek \notin Digit /\ Peek \notin {Eof, Nul, Dollar, Dot}
    BY <1>3, NameBytes
  <2>2. ~End /\ ~Placeholder /\ ~OpenDollar
    BY <2>1 DEF End, Placeholder, OpenDollar
  <2>3. ~Symbol /\ ~OpenLiteral
    BY <1>3, <1>4 DEF Symbol, OpenLiteral
  <2>4. ~OpenNumber
    BY <2>1 DEF OpenNumber, NumberStarts
  <2> QED
    BY <2>2, <2>3, <2>4, AtToken DEF TokenActions
<1> DEFINE q == SpanEnd(pos, IdentMiddle)
           s == Slice(pos, q)
           lowered == [i \in 1..Len(s) |-> ToLower(s[i])]
           str == IF IsASCII(s) THEN lowered ELSE NormalizeName(s)
<1>6. /\ in' = in
      /\ IF Shortened(str) # {}
         THEN Emit("KEYWORD", pos, CHOOSE kw \in Shortened(str) : TRUE, q)
         ELSE Emit(IF IsKeyword(str) THEN "KEYWORD" ELSE "IDENT", pos, str, q)
  BY <1>5 DEF Ident
<1>7. q = n /\ s = x
  BY <1>2, PeekIs
<1> HIDE DEF q, s
<1>8. str = x
  <2>1. lowered = x
    <3>1. s \in Text /\ Len(s) = n
      BY <1>0, <1>7 DEF n
    <3>2. lowered \in Text /\ Len(lowered) = Len(s)
      BY <3>1, LoweredText, SMTT(40) DEF Text
    <3>3. ASSUME NEW i \in 1..Len(s) PROVE lowered[i] = x[i]
      <4>1. s[i] \notin Upper
        BY <1>1, <1>7, <3>1
      <4> QED
        BY <1>7, <4>1 DEF ToLower
    <3> HIDE DEF lowered
    <3>4. lowered = s
      BY <1>7, <3>1, <3>2, <3>3, TextEqual
    <3> QED
      BY <1>7, <3>4
  <2> HIDE DEF lowered
  <2> QED
    BY <1>1, <1>7, <2>1
<1> HIDE DEF str
<1> DEFINE id == IF IsKeyword(x) THEN "KEYWORD" ELSE "IDENT"
<1>9. Emit(id, 0, x, n)
  <2>1. Shortened(x) = {}
    BY <1>0 DEF Readable, x
  <2>2. ~(Shortened(str) # {})
    BY <1>8, <2>1
  <2>3. Emit(IF IsKeyword(str) THEN "KEYWORD" ELSE "IDENT", pos, str, q)
    BY <1>6, <2>2, Zenon
  <2> QED
    BY <1>7, <1>8, <2>3, Zenon
<1>10. id \in {"KEYWORD", "IDENT"} /\ (v.kind = "restricted" /\ id = "KEYWORD" => ~isReservedKeyword(x))
  BY <1>0 DEF WrittenBare, x
<1> HIDE DEF id
<1> DEFINE t == [id |-> id, pos |-> 0, str |-> x, end |-> n]
<1>11. tokens' = Append(<<>>, t)
  BY <1>9, Zenon DEF Emit
<1>12. t.id = id /\ t.pos = 0 /\ t.str = x /\ t.end = n
  OBVIOUS
<1> HIDE DEF t
<1>13. tokens' # <<>> /\ tokens'[1] = t
  BY <1>11
<1>14. AllIn(Part(in, n, n), Blank)
  <2>1. Part(in, n, n) = <<>>
    BY <1>0, <1>2, PartFacts
  <2> QED
    BY <2>1 DEF AllIn
<1>15. TokenRight(in, v, t)
  <2>1. Len(FormOf(v)) = n
    BY <1>0 DEF n
  <2>2. v.kind # "string" /\ v.kind # "bytes"
    BY <1>0 DEF Names
  <2> QED
    BY <1>10, <1>12, <1>14, <2>1, <2>2 DEF TokenRight, x
<1> QED
  BY <1>6, <1>13, <1>15

-----------------------------------------------------------------------------
(* Every step.                                                             *)

LEMMA TextStays ==
  ASSUME Scan \/ ScanNext
  PROVE  in' = in
<1> DEFINE Stays == in' = in
<1>1. ASSUME NEW q, Refuse(q) PROVE Stays
  BY <1>1, Zenon DEF Refuse, literalRest
<1>2. ASSUME NEW c, CloseQuote(c) PROVE Stays
  BY <1>2, Zenon DEF CloseQuote, literalRest
<1>3. ASSUME NEW q, NEW r, Continue(q, r) PROVE Stays
  BY <1>3, Zenon DEF Continue, literalRest
<1> HIDE DEF Stays
<1>4. HexPair => Stays
  BY <1>1, <1>2 DEF HexPair, Stays, literalRest
<1>5. Bit => Stays
  BY <1>1, <1>2, <1>3 DEF Bit
<1>6. QuoteInString => Stays
  BY <1>2, <1>3 DEF QuoteInString
<1>7. Escape => Stays
  BY <1>1, <1>3 DEF Escape
<1>8. StringByte => Stays
  BY <1>1, <1>3 DEF StringByte
<1>9. FinishLiteral => Stays
  BY <1>1 DEF FinishLiteral, Stays, literalRest
<1>10. Scan \/ SkipWhitespace \/ Comment => Stays
  BY DEF Scan, SkipWhitespace, Comment, Stays
<1>11. End \/ Symbol \/ Ident \/ Placeholder \/ OpenNumber \/ OpenDollar \/ OpenLiteral => Stays
  BY DEF End, Symbol, Ident, Placeholder, OpenNumber, OpenDollar, OpenLiteral, Stays
<1>12. AnotherDigit \/ HexMark \/ DecimalPoint \/ Exponent \/ NumberEnd => Stays
  BY DEF AnotherDigit, HexMark, DecimalPoint, Exponent, NumberEnd, numberRest, Stays
<1>13. DollarMark \/ DollarByte \/ NotDollarQuoted \/ DollarUnterminated \/ DollarBody => Stays
  BY DEF DollarMark, DollarByte, NotDollarQuoted, DollarUnterminated, DollarBody, dollarRest, Stays
<1>14. Stays
  BY <1>4, <1>5, <1>6, <1>7, <1>8, <1>9, <1>10, <1>11, <1>12, <1>13 DEF ScanNext
<1> QED
  BY <1>14 DEF Stays

LEMMA BlanksStep ==
  ASSUME ScanInv, ScanNext, at = "blanks", pos = 0, NEW v \in Values, Readable(v),
         NEW after \in Text, IsBoth(in, FormOf(v), after)
  PROVE  tokens' = tokens /\ pos' = 0 /\ at' = "token"
<1>0. in \in Text /\ 0 \in 0..Len(in)
  BY Facts
<1>1. /\ ByteOf(in, 0) \notin Blank /\ ByteOf(in, 0) \notin {Slash, Minus}
  BY <1>0, FirstByte, Zenon
<1>2. SkipWhitespace
  BY DEF ScanNext, Comment, End, Symbol, Ident, Placeholder, OpenNumber, OpenDollar, OpenLiteral,
     AnotherDigit, HexMark, DecimalPoint, Exponent, NumberEnd, HexPair, Bit, QuoteInString, Escape,
     StringByte, FinishLiteral, DollarMark, DollarByte, NotDollarQuoted, DollarUnterminated,
     DollarBody
<1> DEFINE p == SpanEnd(pos, Blank)
<1>3. /\ p \in 0..Len(in)
      /\ \A r \in 0..(p - 1) : ByteOf(in, r) \in Blank
  BY <1>0, SpanSpec
<1>4. \/ PeekAt(p) = Slash
      \/ PeekAt(p) = Minus
      \/ pos' = p /\ at' = "token" /\ tokens' = tokens
  BY <1>2 DEF SkipWhitespace
<1> HIDE DEF p
<1>5. p = 0
  <2>1. p # 0 => 0 \in 0..(p - 1)
    BY <1>0, <1>3
  <2> QED
    BY <1>1, <1>3, <2>1
<1>6. PeekAt(p) \notin {Slash, Minus}
  BY <1>1, <1>5, PeekIs
<1> QED
  BY <1>4, <1>5, <1>6

(* A call of Scan goes on. *)
LEMMA ReadingInScan ==
  ASSUME ScanInv, ScanNext, NEW v \in Values, Readable(v), NEW after \in Text, SetOff(after),
         Reading(v, after)
  PROVE  Reading(v, after)'
<1>1. in' = in /\ IsBoth(in, FormOf(v), after) /\ FormOf(v) \in Text
  BY TextStays, EncodedText DEF Reading, FormOf
<1>2. CASE tokens # <<>>
  <2>1. TokenRight(in, v, tokens[1])
    BY <1>2 DEF Reading
  <2>2. tokens \in Seq(TokenType) /\ IsSeq(tokens)
    BY Facts, SeqIsSeq
  <2>3. 1 \in 1..Len(tokens)
    BY <1>2, <2>2
  <2>4. tokens' = tokens \/ \E t : tokens' = Append(tokens, t)
    BY EmitOrNot
  <2>5. tokens' # <<>> /\ tokens'[1] = tokens[1]
    <3>1. CASE tokens' = tokens
      BY <1>2, <3>1
    <3>2. CASE \E t : tokens' = Append(tokens, t)
      <4>1. PICK t : tokens' = Append(tokens, t)
        BY <3>2
      <4>2. /\ Len(tokens) \in Nat /\ Len(tokens') = Len(tokens) + 1
            /\ \A i \in 1..Len(tokens) : tokens'[i] = tokens[i]
        BY <2>2, <4>1, AppendAny
      <4>3. Len(tokens') # 0
        BY <4>2
      <4>4. tokens' # <<>>
        BY <4>3, NothingIsIn
      <4> QED
        BY <2>3, <4>2, <4>4
    <3> QED
      BY <2>4, <3>1, <3>2
  <2> QED
    BY <1>1, <2>1, <2>5 DEF Reading
<1>3. CASE tokens = <<>>
  <2> DEFINE Goes == tokens' = tokens /\ (Unread' \/ InBody(v, after)' \/ BodyRead(v)')
             Ends == tokens' # <<>> /\ TokenRight(in, v, tokens'[1])
  <2> SUFFICES Goes \/ Ends
    BY <1>1, <1>3 DEF Reading
  <2>1. Unread \/ InBody(v, after) \/ BodyRead(v)
    BY <1>3 DEF Reading
  <2>2. CASE Unread
    <3>1. at = "blanks" \/ at = "token"
      BY <2>2, EmitOrNot DEF Unread
    <3>2. pos = 0
      BY <2>2 DEF Unread
    <3>3. CASE at = "blanks"
      BY <1>1, <3>2, <3>3, BlanksStep DEF Unread
    <3>4. CASE at = "token"
      <4>1. WrittenQuoted(v, FormOf(v)) \/ WrittenBare(v, FormOf(v))
        BY EncodedIs DEF FormOf
      <4>2. CASE WrittenQuoted(v, FormOf(v))
        BY <1>1, <3>2, <3>4, <4>2, OpeningRead
      <4>3. CASE WrittenBare(v, FormOf(v))
        BY <1>1, <1>3, <3>2, <3>4, <4>3, BareStep
      <4> QED
        BY <4>1, <4>2, <4>3
    <3> QED
      BY <3>1, <3>3, <3>4
  <2>3. CASE InBody(v, after)
    BY <1>1, <2>3, BodyStep
  <2>4. CASE BodyRead(v)
    BY <1>3, <2>4, FinishStep
  <2> QED
    BY <2>1, <2>2, <2>3, <2>4
<1> QED
  BY <1>2, <1>3

LEMMA ReadingStep ==
  ASSUME ScanInv, [Next]_vars, NEW v \in Values, Readable(v), NEW after \in Text, SetOff(after),
         Reading(v, after)
  PROVE  Reading(v, after)'
<1>1. Scan \/ ScanNext \/ UNCHANGED scanVars
  BY DEF Next, LastLexicalToken, FirstToken, NextToken, InScan, CallScan, Answer, vars
<1>2. CASE ScanNext
  BY <1>2, ReadingInScan
<1>3. CASE Scan
  <2>1. at = "out" /\ at' = "blanks" /\ UNCHANGED <<in, pos, tokens>>
    BY <1>3 DEF Scan
  <2>2. ~InBody(v, after) /\ ~BodyRead(v)
    BY <2>1 DEF InBody, BodyRead
  <2>3. Unread => Unread'
    BY <2>1 DEF Unread
  <2> QED
    BY <2>1, <2>2, <2>3 DEF Reading
<1>4. CASE UNCHANGED scanVars
  <2>1. UNCHANGED <<in, pos, at, lval, start, lit, half, tokens, mem, buf>>
    BY <1>4 DEF scanVars
  <2>2. LiteralKind' = LiteralKind
    BY <2>1 DEF LiteralKind, PeekAt
  <2>3. Sofar' = Sofar /\ Read(buf)' = Read(buf)
    BY <2>1 DEF Sofar, Read, Bytes
  <2>4. Unread => Unread'
    BY <2>1 DEF Unread
  <2>5. InBody(v, after) => InBody(v, after)'
    BY <2>1, <2>2, <2>3 DEF InBody
  <2>6. BodyRead(v) => BodyRead(v)'
    BY <2>1, <2>2, <2>3 DEF BodyRead
  <2> QED
    BY <2>1, <2>4, <2>5, <2>6 DEF Reading
<1> QED
  BY <1>1, <1>2, <1>3, <1>4

-----------------------------------------------------------------------------
ReadInv ==
    wrote # Nothing => wrote \in Values /\ \E after \in Followers : Reading(wrote, after)

LEMMA ReadingBegins ==
  ASSUME Init, \A v \in Values : Readable(v)
  PROVE  ScanInv /\ ReadInv
<1>1. CASE \E text \in Texts : ScannerInit(text) /\ wrote = Nothing
  BY <1>1, TextsAssumption, TextsBegin DEF ReadInv
<1>2. CASE \E v \in Values, after \in Followers :
              ScannerInit(Encode(v.kind, v.value) \o after) /\ wrote = v
  <2>1. PICK v \in Values, after \in Followers :
              ScannerInit(Encode(v.kind, v.value) \o after) /\ wrote = v
    BY <1>2
  <2> DEFINE x == Encode(v.kind, v.value)
             text == x \o after
  <2>2. x \in Text /\ after \in Text
    BY EncodedText, TextsAssumption
  <2> HIDE DEF x
  <2>3. text \in Text
    BY <2>2, ByteSeqs
  <2>4. ScannerInit(text)
    BY <2>1 DEF x
  <2>5. IsBoth(in, x, after)
    <3>1. in = text
      BY <2>4 DEF ScannerInit
    <3> QED
      BY <3>1 DEF IsBoth
  <2> HIDE DEF text
  <2>6. ScanInv
    BY <2>3, <2>4, TextsBegin
  <2>7. tokens = <<>> /\ Unread
    BY <2>4 DEF ScannerInit, Unread
  <2>8. Reading(v, after)
    BY <2>5, <2>7 DEF Reading, FormOf, x
  <2> QED
    BY <2>1, <2>6, <2>8 DEF ReadInv
<1> QED
  BY <1>1, <1>2 DEF Init

LEMMA ReadIsRight ==
  ASSUME ReadInv
  PROVE  ReadBack
<1>1. ASSUME wrote # Nothing, tokens # <<>> PROVE TokenRight(in, wrote, tokens[1])
  BY <1>1 DEF ReadInv, Reading
<1> QED
  BY <1>1, PeekIs DEF ReadBack, TokenRight, FormOf

(* Whatever the keywords, for all values that are runes, or bytes, or names *)
(* that the scanner does not shorten, and whatever follows them that does  *)
(* not go on with them: the first token is the value that was written      *)
(* (encode.go, stringencoding and scan.go).                                *)
THEOREM WrittenIsReadBack ==
  ASSUME \A v \in Values : Readable(v), \A after \in Followers : SetOff(after)
  PROVE  Spec => []ReadBack
<1>1. Init => ScanInv /\ ReadInv
  BY ReadingBegins
<1>2. ScanInv /\ ReadInv /\ [Next]_vars => ScanInv' /\ ReadInv'
  <2> SUFFICES ASSUME ScanInv, ReadInv, [Next]_vars
               PROVE  ScanInv' /\ ReadInv'
    OBVIOUS
  <2>1. ScanInv'
    BY CallersStep
  <2>2. wrote' = wrote
    BY DEF Next, LastLexicalToken, FirstToken, NextToken, InScan, CallScan, Answer, vars, callVars
  <2>3. ASSUME wrote # Nothing PROVE wrote \in Values /\ \E after \in Followers : Reading(wrote, after)'
    <3>1. PICK after \in Followers : Reading(wrote, after)
      BY <2>3 DEF ReadInv
    <3>2. PICK v : v = wrote
      OBVIOUS
    <3>3. v \in Values /\ Readable(v) /\ SetOff(after) /\ after \in Text /\ Reading(v, after)
      BY <2>3, <3>1, <3>2, TextsAssumption DEF ReadInv
    <3>4. Reading(v, after)'
      BY <3>3, ReadingStep
    <3> QED
      BY <2>2, <3>2, <3>3, <3>4
  <2> QED
    BY <2>1, <2>2, <2>3 DEF ReadInv
<1>3. ReadInv => ReadBack
  BY ReadIsRight
<1> QED
  BY <1>1, <1>2, <1>3, PTL DEF Spec
=============================================================================
