---------------------------- MODULE Characters ----------------------------
(***************************************************************************)
(* Bytes and the classes of them that the scanner and the encoders tell    *)
(* apart (lexbase/predicates.go), keywords (lexbase), UTF-8 as Go's        *)
(* unicode/utf8 and strconv see it, and the normalisation of names         *)
(* (lexbase/normalize.go).  A text is a sequence of bytes.                 *)
(***************************************************************************)
EXTENDS Integers, Sequences

CONSTANTS
    Keywords,            \* what GetKeywordID knows
    ReservedKeywords,    \* reserved, or in need of one token of lookahead
    LowerCase,           \* what unicode.ToLower makes of runes beyond Latin-1
    Composed             \* what norm.NFC makes of the texts it changes

Byte == 0..255
Text == Seq(Byte)

ASSUME KeywordsAssumption ==
    /\ Keywords \subseteq Text
    /\ ReservedKeywords \subseteq Keywords

Nul         == 0
Newline     == 10
Space       == 32
DoubleQuote == 34
Hash        == 35
Dollar      == 36
Quote       == 39
Star        == 42
Plus        == 43
Minus       == 45
Dot         == 46
Slash       == 47
Semicolon   == 59
Backslash   == 92
Underscore  == 95

Blank    == {9, 10, 12, 13, 32}
Digit    == 48..57
Octal    == 48..55
Lower    == 97..122
Upper    == 65..90
High     == 128..255         \* from utf8.RuneSelf on
HexDigit == Digit \cup 97..102 \cup 65..70

IdentStart  == Upper \cup Lower \cup High \cup {Underscore}
IdentMiddle == IdentStart \cup Digit \cup {Dollar}

ToLower(ch)       == IF ch \in Upper THEN ch + 32 ELSE ch

HexValue(ch) ==
    IF ch \in Digit THEN ch - 48
    ELSE IF ch \in Lower THEN ch - 87 ELSE ch - 55
LowerHexDigit(v) == IF v < 10 THEN 48 + v ELSE 87 + v      \* writeHexDigit
UpperHexDigit(v) == IF v < 10 THEN 48 + v ELSE 55 + v      \* %X

-----------------------------------------------------------------------------
(* UTF-8. *)

Continuation == 128..191

(* The length of the rune that starts at i in s, 0 if there is none. *)
RuneLength(s, i) ==
    LET Follow(n, second) ==
            IF /\ i + n - 1 <= Len(s)
               /\ s[i+1] \in second
               /\ \A k \in (i + 2)..(i + n - 1) : s[k] \in Continuation
            THEN n ELSE 0
        b == s[i]
    IN  IF b < 128 THEN 1
        ELSE IF b \in 194..223 THEN Follow(2, Continuation)
        ELSE IF b = 224 THEN Follow(3, 160..191)
        ELSE IF b = 237 THEN Follow(3, 128..159)
        ELSE IF b \in 225..239 THEN Follow(3, Continuation)
        ELSE IF b = 240 THEN Follow(4, 144..191)
        ELSE IF b \in 241..243 THEN Follow(4, Continuation)
        ELSE IF b = 244 THEN Follow(4, 128..143) ELSE 0

(* utf8.Valid *)
ValidUTF8(s) ==
    LET valid[i \in 1..(Len(s) + 1)] ==
            \/ i = Len(s) + 1
            \/ RuneLength(s, i) > 0 /\ valid[i + RuneLength(s, i)]
    IN  valid[1]

(* utf8.RuneError, which stands for a byte that is no rune. *)
RuneError == 65533

MaxRune    == 1114111
Surrogates == 55296..57343

(* utf8.EncodeRune *)
EncodeRune(v) ==
    IF v < 128 THEN <<v>>
    ELSE IF v < 2048 THEN <<192 + (v \div 64), 128 + (v % 64)>>
    ELSE IF v < 65536
         THEN <<224 + (v \div 4096), 128 + ((v \div 64) % 64), 128 + (v % 64)>>
    ELSE <<240 + (v \div 262144), 128 + ((v \div 4096) % 64),
           128 + ((v \div 64) % 64), 128 + (v % 64)>>

(* The rune of n bytes that starts at i in s. *)
RuneAt(s, i, n) ==
    CASE n = 1 -> s[i]
      [] n = 2 -> (s[i] - 192) * 64 + s[i+1] - 128
      [] n = 3 -> (s[i] - 224) * 4096 + (s[i+1] - 128) * 64 + s[i+2] - 128
      [] n = 4 -> (s[i] - 240) * 262144 + (s[i+1] - 128) * 4096
                  + (s[i+2] - 128) * 64 + s[i+3] - 128

-----------------------------------------------------------------------------
(* Names. *)

ASSUME UnicodeAssumption ==
    /\ DOMAIN LowerCase \subseteq Nat
    /\ \A v \in DOMAIN LowerCase : LowerCase[v] \in 0..MaxRune /\ LowerCase[v] \notin Surrogates
    /\ DOMAIN Composed \subseteq Text
    /\ \A s \in DOMAIN Composed : Composed[s] \in Text

IsASCII(s) == \A i \in 1..Len(s) : s[i] < 128

(* One rune in lower case: ASCII and Latin-1, the two Turkish i, which     *)
(* normalize.go folds into i, and Unicode's tables.                        *)
LowerRune(v) ==
    IF v \in Upper \cup ((192..222) \ {215}) THEN v + 32
    ELSE IF v \in {304, 305} THEN 105
    ELSE IF v \in DOMAIN LowerCase THEN LowerCase[v] ELSE v

(* strings.Map of normalize.ToLower; a byte that is no rune becomes U+FFFD. *)
LowerName(s) ==
    LET from[i \in 1..(Len(s) + 1)] ==
            IF i = Len(s) + 1 THEN <<>>
            ELSE IF RuneLength(s, i) = 0 THEN EncodeRune(RuneError) \o from[i + 1]
            ELSE EncodeRune(LowerRune(RuneAt(s, i, RuneLength(s, i))))
                 \o from[i + RuneLength(s, i)]
    IN  from[1]

NormalizeString(s) ==
    IF s \in DOMAIN Composed /\ ~IsASCII(s) THEN Composed[s] ELSE s

NormalizeName(s) == NormalizeString(LowerName(s))

IsKeyword(s)         == s \in Keywords
isReservedKeyword(s) == s \in ReservedKeywords

IsBareIdentifier(s) ==
    /\ s # <<>>
    /\ s[1] \in IdentStart
    /\ \A i \in 1..Len(s) : s[i] \in IdentMiddle \ Upper
    /\ IsASCII(s) \/ NormalizeName(s) = s
===========================================================================
