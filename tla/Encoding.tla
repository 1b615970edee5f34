----------------------------- MODULE Encoding -----------------------------
(***************************************************************************)
(* How values are written so that the scanner can read them back:          *)
(* lexbase/encode.go and util/stringencoding.                              *)
(***************************************************************************)
EXTENDS Characters, SequencesExt

(* EncodeMap: the letter after the backslash. *)
EscapeLetter ==
    [ch \in {8, 9, 10, 12, 13, 92} |->
        CASE ch = 8  -> 98  [] ch = 9  -> 116 [] ch = 10 -> 110
          [] ch = 12 -> 102 [] ch = 13 -> 114 [] ch = 92 -> 92]
NeedEscape(ch) == ch \in DOMAIN EscapeLetter

(* HexMap *)
HexEscape(ch) == <<Backslash, 120, LowerHexDigit(ch \div 16), LowerHexDigit(ch % 16)>>

(* The places of a number in hexadecimal. *)
Powers16 == <<1048576, 65536, 4096, 256, 16, 1>>

IsPrintable(v) == v >= 32 /\ v < 127

(* EncodeEscapedChar, of a rune of a valid string between single quotes.   *)
(* RuneError is taken for a byte that is no rune, but then it is spelled   *)
(* byte by byte, whichever it was.                                         *)
EncodeEscapedChar(v) ==
    IF v = RuneError THEN FlattenSeq([k \in 1..3 |-> HexEscape(EncodeRune(v)[k])])
    ELSE IF v < 128
    THEN IF NeedEscape(v) THEN <<Backslash, EscapeLetter[v]>>
         ELSE IF v = Quote THEN <<Backslash, Quote>> ELSE HexEscape(v)
    ELSE IF v < 2048
    THEN <<Backslash, 117>> \o [k \in 1..4 |-> UpperHexDigit((v \div Powers16[k + 2]) % 16)]
    ELSE <<Backslash, 85, 48, 48>> \o [k \in 1..6 |-> UpperHexDigit((v \div Powers16[k]) % 16)]

(* Runes that EncodeSQLStringWithFlags copies. *)
CopiedRune(v) == IsPrintable(v) /\ ~NeedEscape(v) /\ v # Quote

(* The runes of valid UTF-8. *)
Runes(s) ==
    LET from[i \in 1..(Len(s) + 1)] ==
            IF i = Len(s) + 1 \/ RuneLength(s, i) = 0 THEN <<>>
            ELSE <<RuneAt(s, i, RuneLength(s, i))>> \o from[i + RuneLength(s, i)]
    IN  from[1]

(* EncodeSQLString of valid UTF-8, which is what the scanner's strings are. *)
EncodeSQLString(s) ==
    LET runes == Runes(s)
        escaped == \E k \in 1..Len(runes) : ~CopiedRune(runes[k])
        body == FlattenSeq([k \in 1..Len(runes) |->
                    IF CopiedRune(runes[k]) THEN <<runes[k]>> ELSE EncodeEscapedChar(runes[k])])
    IN  (IF escaped THEN <<101>> ELSE <<>>) \o <<Quote>> \o body \o <<Quote>>

(* Bug: a single quote is left alone. *)
EncodeSQLBytesBug(s) ==
    LET Encoded(ch) ==
            IF NeedEscape(ch) THEN <<Backslash, EscapeLetter[ch]>>
            ELSE IF IsPrintable(ch) THEN <<ch>> ELSE HexEscape(ch)
    IN  <<98, Quote>> \o FlattenSeq([k \in 1..Len(s) |-> Encoded(s[k])]) \o <<Quote>>

(* EncodeSQLBytes: b'...' *)
EncodeSQLBytes(s) ==
    LET Encoded(ch) ==
            IF NeedEscape(ch) THEN <<Backslash, EscapeLetter[ch]>>
            ELSE IF ch = Quote THEN <<Backslash, Quote>>
            ELSE IF IsPrintable(ch) THEN <<ch>> ELSE HexEscape(ch)
    IN  <<98, Quote>> \o FlattenSeq([k \in 1..Len(s) |-> Encoded(s[k])]) \o <<Quote>>

(* EncodeEscapedSQLIdent: "..." with the double quotes doubled. *)
EncodeEscapedSQLIdent(s) ==
    <<DoubleQuote>>
    \o FlattenSeq([k \in 1..Len(s) |->
           IF s[k] = DoubleQuote THEN <<DoubleQuote, DoubleQuote>> ELSE <<s[k]>>])
    \o <<DoubleQuote>>

(* EncodeRestrictedSQLIdent and EncodeUnrestrictedSQLIdent, without flags. *)
EncodeRestrictedSQLIdent(s) ==
    IF ~isReservedKeyword(s) /\ IsBareIdentifier(s) THEN s ELSE EncodeEscapedSQLIdent(s)

EncodeUnrestrictedSQLIdent(s) ==
    IF IsBareIdentifier(s) THEN s ELSE EncodeEscapedSQLIdent(s)

Kinds == {"string", "bytes", "restricted", "unrestricted"}

Encode(kind, s) ==
    CASE kind = "string"       -> EncodeSQLString(s)
      [] kind = "bytes"        -> EncodeSQLBytes(s)
      [] kind = "restricted"   -> EncodeRestrictedSQLIdent(s)
      [] kind = "unrestricted" -> EncodeUnrestrictedSQLIdent(s)
===========================================================================
