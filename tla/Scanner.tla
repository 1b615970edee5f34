------------------------------ MODULE Scanner ------------------------------
(***************************************************************************)
(* The SQL scanner, sql/scanner/scan.go: one call of Scan after another    *)
(* over one text.  An action is one turn of a loop of the code, or a loop  *)
(* whose body only moves the position.  Positions count from zero.         *)
(***************************************************************************)
EXTENDS TokenBuffers, FiniteSets

CONSTANTS
    AllowedExperimental,     \* keywords that may follow experimental_
    MaxPlaceholderIdx        \* tree.MaxPlaceholderIdx

ASSUME ScannerAssumption ==
    /\ AllowedExperimental \subseteq Keywords
    /\ MaxPlaceholderIdx \in Nat

Eof == -1

NoTag == <<Eof>>

VARIABLES
    in,          \* the text
    pos,         \* how much of it is consumed
    at,          \* the function and loop the scanner is in
    lval,        \* the token being made: [id, pos, str]
    start,       \* scanString's, ScanComment's, ... local of that name
    lit,         \* of a literal: [quote, escapes]
    half,        \* scanHexString: the first digit of a byte, Eof if none
    depth,       \* ScanComment: of nesting
    number,      \* scanNumber: [hex, decimal, exponent]
    tag,         \* scanDollarQuotedString: [text, matched]
    tokens       \* what Scan returned so far, with the position after it

localVars == <<start, lit, half, depth, number, tag>>
scanVars  == <<in, pos, at, lval, start, lit, half, depth, number, tag, tokens,
               mem, free, buf, handed>>

PeekAt(p) == IF p < Len(in) THEN in[p + 1] ELSE Eof
Peek == PeekAt(pos)

(* Bytes p to q - 1 of the text. *)
Slice(p, q) == SubSeq(in, p + 1, q)

(* The text goes on with s at p. *)
Has(p, s) == p + Len(s) <= Len(in) /\ Slice(p, p + Len(s)) = s

(* The first position from p on whose byte is not in class C. *)
SpanEnd(p, C) ==
    CHOOSE q \in p..Len(in) :
        /\ \A r \in p..(q - 1) : in[r + 1] \in C
        /\ q < Len(in) => in[q + 1] \notin C

Operators ==
    { <<46,46>>,                                       \* ..
      <<33,61>>, <<33,126>>, <<33,126,42>>,            \* != !~ !~*
      <<63,63>>, <<63,124>>, <<63,38>>,                \* ?? ?| ?&
      <<60,60>>, <<60,60,61>>, <<60,62>>, <<60,61>>, <<60,64>>,   \* << <<= <> <= <@
      <<62,62>>, <<62,62,61>>, <<62,61>>,              \* >> >>= >=
      <<58,58>>, <<58,58,58>>,                         \* :: :::
      <<124,124>>, <<124,124,47>>, <<124,47>>,         \* || ||/ |/
      <<47,47>>, <<126,42>>, <<64,62>>, <<38,38>>,     \* // ~* @> &&
      <<45,62>>, <<45,62,62>>,                         \* -> ->>
      <<35,62>>, <<35,62,62>>, <<35,45>> }             \* #> #>> #-

(* Token ids: the byte itself for most single bytes ("CHAR"), 0 for the    *)
(* end and for a zero byte ("END").                                        *)
Ids == {"END", "CHAR", "OP", "IDENT", "KEYWORD", "ICONST", "FCONST", "SCONST",
        "BCONST", "BITCONST", "PLACEHOLDER", "ERROR"}

(* Scan returns this token, with the scanner at position q. *)
Emit(id, p, str, q) ==
    /\ lval' = [id |-> id, pos |-> p, str |-> str]
    /\ tokens' = Append(tokens, [id |-> id, pos |-> p, str |-> str, end |-> q])
    /\ pos' = q
    /\ at' = "out"

(* An error in the token that lval describes. *)
Fail(q) == Emit("ERROR", lval.pos, <<>>, q)

ScannerInit(text) ==
    /\ in = text
    /\ pos = 0
    /\ at = "out"
    /\ lval = [id |-> "END", pos |-> 0, str |-> <<>>]
    /\ start = 0
    /\ lit = [quote |-> Quote, escapes |-> FALSE]
    /\ half = Eof
    /\ depth = 0
    /\ number = [hex |-> FALSE, decimal |-> FALSE, exponent |-> FALSE]
    /\ tag = [text |-> NoTag, matched |-> Eof]
    /\ tokens = <<>>
    /\ BuffersInit(Len(text))

-----------------------------------------------------------------------------
(* Scan: blanks and comments first. *)

Scan ==
    /\ at = "out"
    /\ lval' = [id |-> "END", pos |-> pos, str |-> <<>>]
    /\ at' = "blanks"
    /\ UNCHANGED <<in, pos, start, lit, half, depth, number, tag, tokens,
                   mem, free, buf, handed>>

(* The position after the line. *)
LineEnd(p) ==
    LET q == SpanEnd(p, Byte \ {Newline})
    IN  IF q < Len(in) THEN q + 1 ELSE q

(* skipWhitespace with comments, and the head of ScanComment. *)
SkipWhitespace ==
    /\ at = "blanks"
    /\ LET p == SpanEnd(pos, Blank)
       IN  \/ /\ PeekAt(p) = Slash /\ PeekAt(p + 1) = Star
              /\ start' = p
              /\ pos' = p + 2
              /\ depth' = 1
              /\ at' = "comment"
           \/ /\ PeekAt(p) = Minus /\ PeekAt(p + 1) = Minus
              /\ pos' = LineEnd(p + 2)
              /\ UNCHANGED <<start, depth, at>>
           \/ /\ ~(PeekAt(p) = Slash /\ PeekAt(p + 1) = Star)
              /\ ~(PeekAt(p) = Minus /\ PeekAt(p + 1) = Minus)
              /\ pos' = p
              /\ at' = "token"
              /\ UNCHANGED <<start, depth>>
    /\ UNCHANGED <<in, lval, lit, half, number, tag, tokens, mem, free, buf, handed>>

(* The loop of ScanComment in a comment that nests. *)
Comment ==
    /\ at = "comment"
    /\ \/ /\ Peek = Eof
          /\ Emit("ERROR", start, <<>>, pos)
          /\ UNCHANGED depth
       \/ /\ Peek = Star /\ PeekAt(pos + 1) = Slash
          /\ pos' = pos + 2
          /\ depth' = depth - 1
          /\ at' = IF depth = 1 THEN "blanks" ELSE "comment"
          /\ UNCHANGED <<lval, tokens>>
       \/ /\ Peek = Slash /\ PeekAt(pos + 1) = Star
          /\ pos' = pos + 2
          /\ depth' = depth + 1
          /\ UNCHANGED <<lval, at, tokens>>
       \/ /\ Peek # Eof
          /\ ~(Peek = Star /\ PeekAt(pos + 1) = Slash)
          /\ ~(Peek = Slash /\ PeekAt(pos + 1) = Star)
          /\ pos' = pos + 1
          /\ UNCHANGED <<lval, depth, at, tokens>>
    /\ UNCHANGED <<in, start, lit, half, number, tag, mem, free, buf, handed>>

-----------------------------------------------------------------------------
(* Scan: the switch on the first byte of a token. *)

(* How many bytes of the operators start at p. *)
OperatorLength(p) ==
    LET fits == {op \in Operators : Has(p, op)}
    IN  IF fits = {} THEN 0 ELSE CHOOSE n \in {Len(op) : op \in fits} :
                                     \A op \in fits : Len(op) <= n

(* A literal in quotes opens with the n bytes at pos. *)
Opens(n) ==
    CASE Peek \in {Quote, DoubleQuote}            -> n = 1
      [] Peek \in {98, 101, 69, 66, 120, 88}      -> n = 2 /\ PeekAt(pos + 1) = Quote
      [] OTHER                                    -> FALSE

NumberStarts == Peek \in Digit \/ (Peek = Dot /\ PeekAt(pos + 1) \in Digit)

(* The end of the text, or a zero byte, whose id is that of the end. *)
End ==
    /\ at = "token"
    /\ Peek \in {Eof, Nul}
    /\ IF Peek = Eof THEN Emit("END", pos, <<>>, pos) ELSE Emit("END", pos, <<Nul>>, pos + 1)
    /\ UNCHANGED <<in, start, lit, half, depth, number, tag, mem, free, buf, handed>>

(* An operator, or a byte that is a token of its own. *)
Symbol ==
    /\ at = "token"
    /\ Peek \notin {Eof, Nul, Dollar} /\ Peek \notin IdentStart /\ ~NumberStarts
    /\ \A n \in 1..2 : ~Opens(n)
    /\ LET n == OperatorLength(pos)
           q == IF n = 0 THEN pos + 1 ELSE pos + n
       IN  Emit(IF n = 0 THEN "CHAR" ELSE "OP", pos, Slice(pos, q), q)
    /\ UNCHANGED <<in, start, lit, half, depth, number, tag, mem, free, buf, handed>>

(* The name is a keyword that experimental_ or testing_ may precede. *)
KeywordPrefixes == { <<101,120,112,101,114,105,109,101,110,116,97,108,95>>,   \* experimental_
              <<116,101,115,116,105,110,103,95>> }                     \* testing_
Shortened(s) ==
    {kw \in AllowedExperimental : \E prefix \in KeywordPrefixes : s = prefix \o kw}

(* scanIdent: in lower case, the keywords told apart. *)
Ident ==
    /\ at = "token"
    /\ Peek \in IdentStart /\ ~Opens(2)
    /\ LET q == SpanEnd(pos, IdentMiddle)
           s == Slice(pos, q)
           lowered == [i \in 1..Len(s) |-> ToLower(s[i])]
           str == IF IsASCII(s) THEN lowered ELSE NormalizeName(s)
       IN  /\ IF Shortened(str) # {}
              THEN Emit("KEYWORD", pos, CHOOSE kw \in Shortened(str) : TRUE, q)
              ELSE Emit(IF IsKeyword(str) THEN "KEYWORD" ELSE "IDENT", pos, str, q)
           /\ IF IsASCII(s) /\ lowered # s THEN AllocBytes(lowered)
              ELSE UNCHANGED <<mem, free, buf, handed>>
    /\ UNCHANGED <<in, start, lit, half, depth, number, tag>>

(* $ and digits: scanPlaceholder, tree.NewPlaceholder. *)
Placeholder ==
    /\ at = "token"
    /\ Peek = Dollar /\ PeekAt(pos + 1) \in Digit
    /\ LET q == SpanEnd(pos + 1, Digit)
           s == Slice(pos + 1, q)
           value[i \in 0..Len(s)] == IF i = 0 THEN 0 ELSE 10 * value[i - 1] + s[i] - 48
           ok == value[Len(s)] \in 1..(MaxPlaceholderIdx + 1)
       IN  IF ok THEN Emit("PLACEHOLDER", pos, s, q) ELSE Emit("ERROR", pos, <<>>, q)
    /\ UNCHANGED <<in, start, lit, half, depth, number, tag, mem, free, buf, handed>>

(* The first byte is consumed and a loop entered. *)
Enter(loop, n) ==
    /\ lval' = [id |-> "CHAR", pos |-> pos, str |-> <<Peek>>]
    /\ pos' = pos + n
    /\ at' = loop

OpenNumber ==
    /\ at = "token"
    /\ NumberStarts
    /\ Enter("number", 1)
    /\ start' = pos
    /\ number' = [hex |-> FALSE, decimal |-> Peek = Dot, exponent |-> FALSE]
    /\ UNCHANGED <<in, lit, half, depth, tag, tokens, mem, free, buf, handed>>

OpenDollar ==
    /\ at = "token"
    /\ Peek = Dollar /\ PeekAt(pos + 1) \notin Digit
    /\ Enter("dollar", 1)
    /\ start' = pos + 1
    /\ tag' = [text |-> NoTag, matched |-> Eof]
    /\ TakeBuffer
    /\ UNCHANGED <<in, lit, half, depth, number, tokens>>

(* A quote, with b, e, B or x before it. *)
OpenLiteral ==
    /\ at = "token"
    /\ \E n \in 1..2 :
          /\ Opens(n)
          /\ Enter(IF Peek = 66 THEN "bits" ELSE IF Peek \in {120, 88} THEN "hex" ELSE "string", n)
          /\ start' = pos + n
    /\ lit' = [quote   |-> IF Peek = DoubleQuote THEN DoubleQuote ELSE Quote,
               escapes |-> Peek \in {98, 101, 69}]
    /\ half' = Eof
    /\ TakeBuffer
    /\ UNCHANGED <<in, depth, number, tag, tokens>>

-----------------------------------------------------------------------------
(* scanNumber: the loop. *)

IsX == Peek \in {120, 88}
IsE == Peek \in {101, 69}

numberRest == <<in, start, lit, half, depth, tag, mem, free, buf, handed>>

(* One more byte of the number. *)
Consume(n) ==
    /\ pos' = pos + n
    /\ UNCHANGED <<lval, at, tokens>>

AnotherDigit ==
    /\ at = "number"
    /\ Peek \in IF number.hex THEN HexDigit ELSE Digit
    /\ Consume(1)
    /\ UNCHANGED <<number, numberRest>>

(* x is right after a first 0 only. *)
HexMark ==
    /\ at = "number"
    /\ IsX
    /\ IF number.hex \/ PeekAt(start) # 48 \/ pos # start + 1
       THEN Fail(pos) /\ UNCHANGED number
       ELSE Consume(1) /\ number' = [number EXCEPT !.hex = TRUE]
    /\ UNCHANGED numberRest

(* A point that .. does not take. *)
PointFollows == Peek = Dot /\ ~number.decimal /\ ~number.exponent /\ PeekAt(pos + 1) # Dot

DecimalPoint ==
    /\ at = "number"
    /\ ~number.hex /\ PointFollows
    /\ Consume(1)
    /\ number' = [number EXCEPT !.decimal = TRUE]
    /\ UNCHANGED numberRest

Exponent ==
    /\ at = "number"
    /\ ~number.hex /\ IsE /\ ~number.exponent
    /\ LET n == IF PeekAt(pos + 1) \in {Minus, Plus} THEN 2 ELSE 1
       IN  IF PeekAt(pos + n) \in Digit THEN Consume(n) ELSE Fail(pos + n)
    /\ number' = [number EXCEPT !.exponent = TRUE]
    /\ UNCHANGED numberRest

(* Bug: the zeros stay, and a literal such as 010 is read as octal. *)
StripZerosBug(s) == s

(* A decimal integer loses its leading zeros. *)
StripZeros(s) ==
    LET first == CHOOSE i \in 1..Len(s) :
                    /\ \A j \in 1..(i - 1) : s[j] = 48
                    /\ i < Len(s) => s[i] # 48
    IN  SubSeq(s, first, Len(s))

(* The loop ends: no case of it takes the next byte.  Left out is the error *)
(* of a float that go/constant cannot represent (scan.go:682).             *)
NumberEnd ==
    /\ at = "number"
    /\ Peek \notin IF number.hex THEN HexDigit ELSE Digit
    /\ ~IsX
    /\ number.hex \/ (~PointFollows /\ ~(IsE /\ ~number.exponent))
    /\ LET s == Slice(start, pos)
       IN  IF number.decimal \/ number.exponent THEN Emit("FCONST", lval.pos, s, pos)
           ELSE IF number.hex /\ pos = start + 2 THEN Fail(pos)
           ELSE Emit("ICONST", lval.pos, IF number.hex THEN s ELSE StripZeros(s), pos)
    /\ UNCHANGED <<number, numberRest>>

-----------------------------------------------------------------------------
(* scanString, scanHexString, scanBitString: one turn of the loop each. *)

literalRest == <<in, lit, depth, number, tag>>

(* The literal is refused; its buffer is lost. *)
Refuse(q) ==
    /\ Fail(q)
    /\ DropBuffer
    /\ UNCHANGED <<start, half, literalRest>>

(* Bug: literals are joined across any blanks. *)
JoinsBug(q) == PeekAt(SpanEnd(q, Blank)) = lit.quote

(* Another literal follows the one that ended before q, on another line. *)
Joins(q) ==
    LET p == SpanEnd(q, Blank)
    IN  /\ PeekAt(p) = lit.quote
        /\ \E r \in q..(p - 1) : PeekAt(r) = Newline

(* The closing quote, whose content so far is c: the position is after the *)
(* blanks that follow, even when nothing follows them.                     *)
CloseQuote(c) ==
    LET p == SpanEnd(pos + 1, Blank)
    IN  /\ IF Joins(pos + 1)
           THEN pos' = p + 1 /\ start' = p + 1 /\ UNCHANGED at
           ELSE pos' = p /\ at' = "finish" /\ UNCHANGED start
        /\ AppendBytes(c)
        /\ UNCHANGED <<lval, half, tokens, literalRest>>

(* The loop goes on at q; start is set when what precedes is in the buffer. *)
Continue(q, first) ==
    /\ pos' = q
    /\ start' = first
    /\ UNCHANGED <<lval, at, half, tokens, literalRest>>

(* scanHexString *)
HexPair ==
    /\ at = "hex"
    /\ \/ Peek = Quote /\ CloseQuote(<<>>)
       \/ /\ Peek \in HexDigit
          /\ pos' = pos + 1
          /\ IF half = Eof
             THEN /\ half' = HexValue(Peek)
                  /\ UNCHANGED <<mem, free, buf, handed>>
             ELSE half' = Eof /\ AppendBytes(<<16 * half + HexValue(Peek)>>)
          /\ UNCHANGED <<lval, at, start, tokens, literalRest>>
       \/ /\ Peek \notin HexDigit \cup {Quote}
          /\ Refuse(IF Peek = Eof THEN pos ELSE pos + 1)

(* scanBitString *)
Bit ==
    /\ at = "bits"
    /\ \/ Peek = Quote /\ CloseQuote(<<>>)
       \/ Peek \in {48, 49} /\ AppendBytes(<<Peek>>) /\ Continue(pos + 1, start)
       \/ /\ Peek \notin {48, 49, Quote}
          /\ Refuse(IF Peek = Eof THEN pos ELSE pos + 1)

(* strconv.UnquoteChar (of Go 1.16, go.mod) of the backslash before p: what *)
(* it stands for and how many bytes after it belong to it, 0 if it is       *)
(* refused.  Eight digits overflow a rune from 80000000 on: it is negative, *)
(* so it is not out of range, and scanString takes it for a single byte.    *)
Unescape(p) ==
    LET t == PeekAt(p)
        Letter(ch) == CASE ch = 97  -> 7  [] ch = 98  -> 8  [] ch = 102 -> 12 [] ch = 110 -> 10
                        [] ch = 114 -> 13 [] ch = 116 -> 9  [] ch = 118 -> 11 [] ch = 92  -> 92
        Refused == [bytes |-> <<>>, len |-> 0]
        Digits(n, C) == \A k \in 1..n : PeekAt(p + k) \in C
        Hex(k) == 16 * HexValue(PeekAt(p + k)) + HexValue(PeekAt(p + k + 1))
        octal == 64 * (t - 48) + 8 * (PeekAt(p + 1) - 48) + PeekAt(p + 2) - 48
        Rune(v, n) == IF v <= MaxRune
                      THEN [bytes |-> EncodeRune(IF v \in Surrogates THEN RuneError ELSE v), len |-> n]
                      ELSE Refused
    IN  IF t \in {97, 98, 102, 110, 114, 116, 118, 92}
        THEN [bytes |-> <<Letter(t)>>, len |-> 1]
        ELSE IF t \in {120, 88} /\ Digits(2, HexDigit) THEN [bytes |-> <<Hex(1)>>, len |-> 3]
        ELSE IF t = 117 /\ Digits(4, HexDigit) THEN Rune(256 * Hex(1) + Hex(3), 5)
        ELSE IF t = 85 /\ Digits(8, HexDigit) /\ Hex(1) = 0
             THEN Rune(65536 * Hex(3) + 256 * Hex(5) + Hex(7), 9)
        ELSE IF t = 85 /\ Digits(8, HexDigit) /\ Hex(1) >= 128
             THEN [bytes |-> <<Hex(7)>>, len |-> 9]
        ELSE IF t \in Octal /\ Digits(2, Octal) /\ octal < 256
             THEN [bytes |-> <<octal>>, len |-> 3]
        ELSE Refused

(* The letters for which scanString calls UnquoteChar. *)
EscapeLetters == {97, 98, 102, 110, 114, 116, 118, 120, 88, 117, 85, 92} \cup Octal

(* scanString *)
QuoteInString ==
    /\ at = "string"
    /\ Peek = lit.quote
    /\ LET c == Slice(start, pos)
       IN  IF PeekAt(pos + 1) = lit.quote
           THEN AppendBytes(c) /\ Continue(pos + 2, pos + 1)
           ELSE CloseQuote(c)

Escape ==
    /\ at = "string"
    /\ Peek = Backslash /\ lit.escapes
    /\ LET c == Slice(start, pos)
           t == PeekAt(pos + 1)
           u == Unescape(pos + 1)
       IN  \/ t = lit.quote /\ AppendBytes(c) /\ Continue(pos + 2, pos + 1)
           \/ /\ t \in EscapeLetters
              /\ IF u.len = 0 THEN Refuse(pos + 1)
                 ELSE AppendBytes(c \o u.bytes) /\ Continue(pos + 1 + u.len, pos + 1 + u.len)
           \/ /\ t \notin EscapeLetters \cup {lit.quote}
              /\ AppendBytes(c) /\ Continue(pos + 1, pos + 1)

StringByte ==
    /\ at = "string"
    /\ Peek # lit.quote /\ ~(Peek = Backslash /\ lit.escapes)
    /\ IF Peek = Eof THEN Refuse(pos)
       ELSE Continue(pos + 1, start) /\ UNCHANGED <<mem, free, buf, handed>>

LiteralKind ==
    CASE lit.quote = DoubleQuote -> "IDENT"
      [] PeekAt(lval.pos) = 66  -> "BITCONST"
      [] PeekAt(lval.pos) \in {98, 120, 88} -> "BCONST"
      [] OTHER -> "SCONST"

(* What the token of the literal says; a quoted name is composed.          *)
LiteralValue == IF LiteralKind = "IDENT" THEN NormalizeString(Read(buf)) ELSE Read(buf)

(* The ends of the three, and what Scan makes of their results.            *)
FinishLiteral ==
    /\ at = "finish"
    /\ IF half # Eof \/ (LiteralKind \in {"IDENT", "SCONST"} /\ ~ValidUTF8(Read(buf)))
       THEN Refuse(pos)
       ELSE /\ Emit(LiteralKind, lval.pos, LiteralValue, pos)
            /\ FinishString
            /\ UNCHANGED <<start, half, literalRest>>

-----------------------------------------------------------------------------
(* scanDollarQuotedString *)

dollarRest == <<in, start, lit, half, depth, number>>

(* Bug: the mark that ends a failed match is not tried as the next start. *)
DollarMarkBug ==
    /\ at = "dollar"
    /\ Peek = Dollar
    /\ LET n == Len(tag.text)
       IN  \/ /\ tag.text = NoTag
              /\ tag' = [text |-> Slice(start, pos), matched |-> Eof]
              /\ UNCHANGED <<at, bufferVars>>
           \/ /\ tag.text # NoTag /\ tag.matched = n
              /\ AppendBytes(Slice(start + n + 1, pos - n - 1))
              /\ at' = "body"
              /\ UNCHANGED tag
           \/ /\ tag.text # NoTag /\ tag.matched # n
              /\ tag' = [tag EXCEPT !.matched = IF @ = Eof THEN 0 ELSE Eof]
              /\ UNCHANGED <<at, bufferVars>>
    /\ pos' = pos + 1
    /\ UNCHANGED <<lval, tokens, dollarRest>>

(* A $: the end of the opening tag, the end of the closing one, or a byte   *)
(* that may start it.                                                      *)
DollarMark ==
    /\ at = "dollar"
    /\ Peek = Dollar
    /\ LET n == Len(tag.text)
       IN  \/ /\ tag.text = NoTag
              /\ tag' = [text |-> Slice(start, pos), matched |-> Eof]
              /\ UNCHANGED <<at, bufferVars>>
           \/ /\ tag.text # NoTag /\ tag.matched = n
              /\ AppendBytes(Slice(start + n + 1, pos - n - 1))
              /\ at' = "body"
              /\ UNCHANGED tag
           \/ /\ tag.text # NoTag /\ tag.matched # n        \* it may start the tag
              /\ tag' = [tag EXCEPT !.matched = 0]
              /\ UNCHANGED <<at, bufferVars>>
    /\ pos' = pos + 1
    /\ UNCHANGED <<lval, tokens, dollarRest>>

DollarByte ==
    /\ at = "dollar"
    /\ Peek \notin {Dollar, Eof}
    /\ tag.text # NoTag \/ Peek \in IdentStart \cup Digit
    /\ pos' = pos + 1
    /\ tag' = [tag EXCEPT !.matched =
                   IF @ = Eof \/ @ >= Len(tag.text) THEN Eof
                   ELSE IF Peek = tag.text[@ + 1] THEN @ + 1 ELSE Eof]
    /\ UNCHANGED <<lval, at, tokens, dollarRest, mem, free, buf, handed>>

(* Bug: the $ is put back too. *)
NotDollarQuotedBug ==
    /\ at = "dollar"
    /\ tag.text = NoTag
    /\ Peek \notin IdentStart \cup Digit \cup {Dollar}
    /\ Emit("CHAR", lval.pos, <<Dollar>>, IF Peek = Eof THEN start - 1 ELSE pos)
    /\ DropBuffer
    /\ UNCHANGED <<tag, dollarRest>>

(* No opening tag: $ alone.  At the end of the text the position is put    *)
(* back, at a byte that is in no tag it stays.                             *)
NotDollarQuoted ==
    /\ at = "dollar"
    /\ tag.text = NoTag
    /\ Peek \notin IdentStart \cup Digit \cup {Dollar}
    /\ Emit("CHAR", lval.pos, <<Dollar>>, IF Peek = Eof THEN start ELSE pos)
    /\ DropBuffer
    /\ UNCHANGED <<tag, dollarRest>>

(* Bug: the end of the text is not a case of the switch. *)
DollarUnterminatedBug ==
    /\ at = "dollar"
    /\ tag.text # NoTag /\ Peek = Eof
    /\ UNCHANGED scanVars

(* An opening tag that nothing closes. *)
DollarUnterminated ==
    /\ at = "dollar"
    /\ tag.text # NoTag /\ Peek = Eof
    /\ Fail(pos)
    /\ DropBuffer
    /\ UNCHANGED <<tag, dollarRest>>

DollarBody ==
    /\ at = "body"
    /\ IF ValidUTF8(Read(buf))
       THEN Emit("SCONST", lval.pos, Read(buf), pos) /\ FinishString
       ELSE Fail(pos) /\ DropBuffer
    /\ UNCHANGED <<tag, dollarRest>>

-----------------------------------------------------------------------------
(* What happens in a call of Scan. *)
ScanNext ==
    \/ SkipWhitespace \/ Comment
    \/ End \/ Symbol \/ Ident \/ Placeholder
    \/ OpenNumber \/ OpenDollar \/ OpenLiteral
    \/ AnotherDigit \/ HexMark \/ DecimalPoint \/ Exponent \/ NumberEnd
    \/ HexPair \/ Bit \/ QuoteInString \/ Escape \/ StringByte \/ FinishLiteral
    \/ DollarMark \/ DollarByte \/ NotDollarQuoted \/ DollarUnterminated \/ DollarBody

(* One call after another, whoever makes them. *)
ScannerSpec(text) == ScannerInit(text) /\ [][Scan \/ ScanNext]_scanVars

-----------------------------------------------------------------------------
(* Properties of the tokens, whatever the text. *)

Places == {"out", "blanks", "comment", "token", "number", "dollar", "body",
           "hex", "bits", "string", "finish"}

TypeOK ==
    /\ in \in Text
    /\ pos \in 0..Len(in) /\ start \in 0..Len(in)
    /\ at \in Places
    /\ lval \in [id : Ids, pos : 0..Len(in), str : Text]
    /\ half \in {Eof} \cup 0..15
    /\ depth \in 0..Len(in)
    /\ number \in [hex : BOOLEAN, decimal : BOOLEAN, exponent : BOOLEAN]
    /\ tag.matched \in {Eof} \cup 0..Len(tag.text)
    /\ tokens \in Seq([id : Ids, pos : 0..Len(in), str : Text, end : 0..Len(in)])
    /\ mem \in Seq(Text)

(* Every token but the one that says the end has bytes of its own after    *)
(* those of the token before: a caller that scans until the end comes to   *)
(* it (Scan, scan.go:107-430; LastLexicalToken has no other exit).         *)
TokensAdvance ==
    \A i \in 1..Len(tokens) :
        LET t == tokens[i]
        IN  /\ t.pos <= t.end /\ t.end <= pos
            /\ t.id # "END" => t.pos < t.end
            /\ i > 1 => tokens[i - 1].end <= t.pos

(* ... and no slice that the scanner takes leaves the text (TypeOK).       *)
TokensInOrder == TypeOK /\ TokensAdvance

(* The two marks of a comment that nests, and the bytes that are neither. *)
Opening == <<Slash, Star>>
Closing == <<Star, Slash>>
Plain(p) == ~Has(p, Opening) /\ ~Has(p, Closing)

(* Where the inside of a comment that reaches to j may begin: it is bytes   *)
(* that are no mark, and comments, one after the other.                    *)
Inside[j \in 0..Len(in)] ==
    {i \in 0..j :
        \/ i = j
        \/ i < j /\ Plain(j - 1) /\ i \in Inside[j - 1]
        \/ \E k \in i..(j - 4) :
              Has(k, Opening) /\ Has(j - 2, Closing) /\ k + 2 \in Inside[j - 2] /\ i \in Inside[k]}

(* A comment from i to j: brackets with an inside, or -- and the line. *)
Block(i, j) == i + 4 <= j /\ Has(i, Opening) /\ Has(j - 2, Closing) /\ i + 2 \in Inside[j - 2]
Line(i, j) ==
    /\ i + 2 <= j
    /\ Has(i, <<Minus, Minus>>)
    /\ \A k \in i..(j - 2) : PeekAt(k) # Newline
    /\ j = Len(in) \/ PeekAt(j - 1) = Newline

(* From where to j there are only blanks and comments. *)
Ignorable[j \in 0..Len(in)] ==
    {i \in 0..j :
        \/ i = j
        \/ i < j /\ PeekAt(j - 1) \in Blank /\ i \in Ignorable[j - 1]
        \/ \E k \in i..(j - 2) : (Block(k, j) \/ Line(k, j)) /\ i \in Ignorable[k]}

(* Between tokens there are only blanks and comments, and a symbol stands  *)
(* for all of its bytes: nothing a user wrote is dropped, but what follows *)
(* a lone $ that might have opened a tag (scan.go:979).                    *)
NothingLost ==
    \A i \in 1..Len(tokens) :
        LET t == tokens[i]
        IN  /\ (IF i = 1 THEN 0 ELSE tokens[i - 1].end) \in Ignorable[t.pos]
            /\ t.id \in {"CHAR", "OP"} => t.str = Slice(t.pos, t.end) \/ t.str = <<Dollar>>

(* The tokens, with the blanks and comments between them, are the whole    *)
(* text.                                                                   *)
TokensTile == TokensInOrder /\ NothingLost

AllIn(s, C) == \A i \in 1..Len(s) : s[i] \in C

DecimalInteger(s) == s # <<>> /\ AllIn(s, Digit)

(* Digits with one point, or an exponent, or both. *)
IsFloat(s) ==
    \E n \in 1..Len(s) :
        LET mantissa == SubSeq(s, 1, n)
            rest == SubSeq(s, n + 1, Len(s))
            points == {i \in 1..n : mantissa[i] = Dot}
            HasExponent == /\ rest # <<>> /\ rest[1] \in {101, 69}
                           /\ \E k \in {2, 3} :
                                 /\ k = 3 => Len(rest) > 1 /\ rest[2] \in {Plus, Minus}
                                 /\ DecimalInteger(SubSeq(rest, k, Len(rest)))
        IN  /\ AllIn(mantissa, Digit \cup {Dot})
            /\ \E i \in 1..n : mantissa[i] \in Digit
            /\ \A i, j \in points : i = j
            /\ HasExponent \/ (rest = <<>> /\ points # {})

(* What is handed to go/constant as an integer is a decimal one without    *)
(* leading zeros, which it would take for octal, or a hexadecimal one, and *)
(* is the text but for those zeros; what is handed to it as a float is     *)
(* one (scanNumber, scan.go:673-704): its "could not make constant" errors *)
(* are left for exponents out of range.                                    *)
NumbersWellFormed ==
    \A i \in 1..Len(tokens) :
        LET t == tokens[i]
            s == t.str
            text == Slice(t.pos, t.end)
        IN  /\ t.id = "ICONST" =>
                 \/ /\ DecimalInteger(s) /\ (s[1] = 48 => Len(s) = 1)
                    /\ \E z \in 0..Len(text) : text = [k \in 1..z |-> 48] \o s
                 \/ /\ Len(s) > 2 /\ s[1] = 48 /\ s[2] \in {120, 88}
                    /\ AllIn(SubSeq(s, 3, Len(s)), HexDigit)
                    /\ text = s
            /\ t.id = "FCONST" => IsFloat(s) /\ text = s

(* A dollar-quoted string ends where its opening tag first appears again,  *)
(* also when part of the tag appears before it, and is unterminated only   *)
(* when it never does (scanDollarQuotedString, scan.go:939-984).           *)
DollarEndsAtFirstTag ==
    \A i \in 1..Len(tokens) :
        LET t == tokens[i]
            marks == {p \in (t.pos + 1)..(t.end - 1) : PeekAt(p) = Dollar}
            open == CHOOSE p \in marks : \A q \in marks : p <= q
            quoted == Slice(t.pos, open + 1)
            ends == {p \in (open + 1)..(Len(in) - Len(quoted)) : Has(p, quoted)}
        IN  PeekAt(t.pos) = Dollar /\ marks # {} =>
                /\ t.id = "SCONST" =>
                     \E p \in ends : /\ \A q \in ends : p <= q
                                     /\ t.end = p + Len(quoted)
                                     /\ t.str = Slice(open + 1, p)
                /\ t.id = "ERROR" =>
                     \A p \in ends : (\A q \in ends : p <= q) => ~ValidUTF8(Slice(open + 1, p))

Literals == {"SCONST", "BCONST", "BITCONST", "IDENT"}

(* Two literals are one exactly when a newline is among the blanks between *)
(* them (scan.go:712-720 and its two copies).  In a text without escapes   *)
(* the quotes open and close in turn.                                      *)
JoinedAcrossLines ==
    \A i \in 1..Len(tokens) :
        LET t == tokens[i]
            q == IF PeekAt(t.pos) = DoubleQuote THEN DoubleQuote ELSE Quote
            quotes == {p \in t.pos..(t.end - 1) : PeekAt(p) = q}
            Closes(p) == Cardinality({r \in quotes : r <= p}) % 2 = 0
            BlankBetween(p, r) == \A k \in (p + 1)..(r - 1) : PeekAt(k) \in Blank
            LineBetween(p, r) == \E k \in (p + 1)..(r - 1) : PeekAt(k) = Newline
        IN  t.id \in Literals /\ quotes # {} /\ PeekAt(t.pos) # Dollar
            /\ (\A p \in t.pos..t.end : PeekAt(p) # Backslash)
            => /\ \A p, r \in quotes :
                     Closes(p) /\ p + 1 < r /\ BlankBetween(p, r) => LineBetween(p, r)
               /\ PeekAt(t.end) = q =>
                     \A p \in quotes : BlankBetween(p, t.end) => ~LineBetween(p, t.end)

=============================================================================
