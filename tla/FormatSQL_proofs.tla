-------------------------- MODULE FormatSQL_proofs --------------------------
(***************************************************************************)
(* Theorems about FormatSQL, for every set of input texts and every        *)
(* grammar.                                                                *)
(***************************************************************************)
EXTENDS FormatSQL, WellFoundedInduction, SequenceTheorems, FiniteSetTheorems,
        TLAPS

-----------------------------------------------------------------------------
(* Facts about the text operations.                                        *)

(* A non-empty set of naturals has a least element. *)
LEMMA LeastNatural ==
  ASSUME NEW T, T \subseteq Nat, T # {}
  PROVE  \E x \in T : \A y \in T : x <= y
<1> DEFINE R == OpToRel(<, Nat)
<1>1. IsWellFoundedOn(R, Nat)
  BY NatLessThanWellFounded
<1>2. PICK x \in T : \A y \in T : ~ (<<y, x>> \in R)
  BY <1>1, WFMin
<1>3. \A y \in T : <<y, x>> \in R <=> y < x
  BY DEF OpToRel
<1> HIDE DEF R
<1>4. \A y \in T : ~(y < x)
  BY ONLY <1>2, <1>3, Zenon
<1> QED
  BY ONLY <1>4, x \in T, T \subseteq Nat, SMT

(* FirstNot finds the first position from p on that K does not cover. *)
LEMMA FirstNotSpec ==
  ASSUME NEW s \in Seq(Lexeme), NEW p \in 1..(Len(s) + 1), NEW K
  PROVE  LET q == FirstNot(s, p, K)
         IN  /\ q \in p..(Len(s) + 1)
             /\ q <= Len(s) => s[q] \notin K
             /\ \A r \in p..(q - 1) : s[r] \in K
<1> DEFINE T == {q \in p..(Len(s) + 1) : q <= Len(s) => s[q] \notin K}
<1>1. T \subseteq Nat /\ Len(s) + 1 \in T
  OBVIOUS
<1>2. PICK q \in T : \A y \in T : q <= y
  BY <1>1, LeastNatural
<1>3. \A r \in p..(q - 1) : s[r] \in K
  BY <1>2
<1> QED
  BY <1>2, <1>3 DEF FirstNot

(* LastInk finds the last position that is not blank, or 0. *)
LEMMA LastInkSpec ==
  ASSUME NEW s \in Seq(Lexeme)
  PROVE  /\ LastInk(s) \in 0..Len(s)
         /\ LastInk(s) > 0 => s[LastInk(s)] \notin Blank
         /\ \A r \in (LastInk(s) + 1)..Len(s) : s[r] \in Blank
<1> DEFINE Ink(q) == q > 0 => s[q] \notin Blank
           T == {n \in 0..Len(s) : Ink(Len(s) - n)}
<1>1. T \subseteq Nat /\ Len(s) \in T
  OBVIOUS
<1>2. PICK n \in T : \A y \in T : n <= y
  BY <1>1, LeastNatural
<1> DEFINE q == Len(s) - n
<1>3. q \in 0..Len(s) /\ Ink(q)
  BY <1>2
<1>4. \A r \in (q + 1)..Len(s) : s[r] \in Blank
  <2> SUFFICES ASSUME NEW r \in (q + 1)..Len(s) PROVE s[r] \in Blank
    OBVIOUS
  <2>1. Len(s) - r \in 0..Len(s) /\ Len(s) - (Len(s) - r) = r /\ ~(n <= Len(s) - r)
    OBVIOUS
  <2>2. Len(s) - r \notin T
    BY <1>2, <2>1
  <2> QED
    BY <2>1, <2>2
<1> QED
  BY <1>3, <1>4 DEF LastInk

LEMMA SuffixType ==
  ASSUME NEW s \in Seq(Lexeme), NEW p \in 1..(Len(s) + 1)
  PROVE  SubSeq(s, p, Len(s)) \in Seq(Lexeme)
BY SubSeqProperties

LEMMA TrimSpaceType ==
  ASSUME NEW s \in Seq(Lexeme)
  PROVE  TrimSpace(s) \in Seq(Lexeme)
<1>1. FirstNot(s, 1, Blank) \in 1..(Len(s) + 1)
  BY FirstNotSpec
<1>2. LastInk(s) \in 0..Len(s)
  BY LastInkSpec
<1> QED
  BY <1>1, <1>2, SubSeqProperties DEF TrimSpace

(* The token a lexeme makes. *)
LEMMA TokenIdSpec ==
  ASSUME NEW x \in Lexeme
  PROVE  /\ TokenId(x) \in {"EOF", "ERROR", "SEMI", "HELPTOKEN", "WORD"}
         /\ TokenId(x) = "SEMI" <=> x = "semi"
         /\ TokenId(x) = "ERROR" <=> x \in Refused
         /\ TokenId(x) = "EOF" <=> x = "nul"
<1>1. CASE x = "semi"
  BY <1>1 DEF TokenId, Refused
<1>2. CASE x = "help"
  BY <1>2 DEF TokenId, Refused
<1>3. CASE x = "nul"
  BY <1>3 DEF TokenId, Refused
<1>4. CASE x \in Refused
  BY <1>4 DEF TokenId, Refused
<1>5. CASE x \in Lexeme \ (Refused \cup {"semi", "help", "nul"})
  BY <1>5 DEF TokenId, Refused
<1> QED
  BY <1>1, <1>2, <1>3, <1>4, <1>5

(* Where one call of Scan from p goes: it skips to q and takes the token   *)
(* id there, up to n.                                                      *)
Scanned(s, p, id, q, n) ==
    /\ id \in {"EOF", "ERROR", "SEMI", "HELPTOKEN", "WORD"}
    /\ q \in p..(Len(s) + 1)
    /\ n \in p..(Len(s) + 1)
    /\ \A i \in p..(q - 1) : s[i] \in Blank \cup Comment
    /\ q > Len(s) => id = "EOF" /\ n = q
    /\ q <= Len(s) => /\ n = q + 1
                      /\ id = "SEMI" <=> s[q] = "semi"
                      /\ id = "ERROR" <=> s[q] \in Refused
                      /\ id = "EOF" <=> s[q] = "nul"

LEMMA ScanSpec ==
  ASSUME NEW s \in Seq(Lexeme), NEW p \in 1..(Len(s) + 1)
  PROVE  Scanned(s, p, Scan(s, p).id, Scan(s, p).pos, Scan(s, p).next)
<1> DEFINE q == FirstNot(s, p, Blank \cup Comment)
<1>1. /\ q \in p..(Len(s) + 1)
      /\ \A r \in p..(q - 1) : s[r] \in Blank \cup Comment
  BY FirstNotSpec
<1>2. Scan(s, p) = IF q > Len(s) THEN [id |-> "EOF", pos |-> q, next |-> q]
                   ELSE [id |-> TokenId(s[q]), pos |-> q, next |-> q + 1]
  BY DEF Scan
<1> HIDE DEF q
<1>3. CASE q > Len(s)
  <2>1. Scan(s, p).id = "EOF" /\ Scan(s, p).pos = q /\ Scan(s, p).next = q
    BY <1>2, <1>3
  <2> QED
    BY <1>1, <1>3, <2>1 DEF Scanned
<1>4. CASE q <= Len(s)
  <2>1. s[q] \in Lexeme
    BY <1>1, <1>4
  <2> DEFINE id == TokenId(s[q])
  <2>2. /\ id \in {"EOF", "ERROR", "SEMI", "HELPTOKEN", "WORD"}
        /\ id = "SEMI" <=> s[q] = "semi"
        /\ id = "ERROR" <=> s[q] \in Refused
        /\ id = "EOF" <=> s[q] = "nul"
    BY <2>1, TokenIdSpec
  <2>3. Scan(s, p).id = id /\ Scan(s, p).pos = q /\ Scan(s, p).next = q + 1
    BY <1>1, <1>2, <1>4
  <2> HIDE DEF id
  <2>4. Scanned(s, p, id, q, q + 1)
    BY <1>1, <1>4, <2>2 DEF Scanned
  <2> QED
    BY <2>3, <2>4
<1> QED
  BY <1>1, <1>3, <1>4

(* What the comment loop takes off the text, and what it keeps. *)
LEMMA AfterFoundRange ==
  ASSUME NEW s \in Seq(Lexeme), HasLeadingComment(s)
  PROVE  AfterFound(s) \in 2..(Len(s) + 1)
<1>1. Len(s) >= 1
  BY EmptySeq DEF HasLeadingComment
<1> QED
  BY <1>1, FirstNotSpec DEF AfterFound

LEMMA KeptType ==
  ASSUME NEW s
  PROVE  Kept(s) \in Seq(Lexeme)
<1>1. "lcom" \in Lexeme /\ "nl" \in Lexeme
  BY DEF Lexeme, Blank, Comment
<1>2. KeptNewlines(s) \in {<<>>, <<"nl">>, <<"nl", "nl">>}
  BY DEF KeptNewlines
<1>3. /\ <<>> \in Seq(Lexeme) /\ <<"lcom">> \in Seq(Lexeme)
      /\ <<"nl">> \in Seq(Lexeme) /\ <<"nl", "nl">> \in Seq(Lexeme)
  BY <1>1
<1>4. KeptNewlines(s) \in Seq(Lexeme)
  BY <1>2, <1>3, Zenon
<1> QED
  BY <1>3, <1>4, ConcatProperties DEF Kept

-----------------------------------------------------------------------------
(* The lexer.                                                              *)

LEMMA TokType ==
  ASSUME lex \in Lexers, NEW i \in Nat
  PROVE  Tok(i) \in Token
<1>1. CASE i = 0
  BY <1>1 DEF Tok, Token
<1>2. CASE i > Len(lex.tokens)
  BY <1>2 DEF Tok, Token, Lexers
<1>3. CASE i \in 1..Len(lex.tokens)
  BY <1>3 DEF Tok, Lexers
<1> QED
  BY <1>1, <1>2, <1>3 DEF Lexers

LEMMA DetailsType ==
  ASSUME NEW i, NEW e \in Errors
  PROVE  Details(i, e) \in Errors
BY DEF Details, Errors

LEMMA NoErrorNotError == NoError \notin Errors
BY DEF NoError, Errors

(* The state lexer.init leaves the lexer in. *)
LEMMA LexerInitSpec ==
  ASSUME NEW tokens \in Seq(Token), NEW inLen \in Nat, LexerInit(tokens, inLen)
  PROVE  /\ lex' \in Lexers
         /\ lex'.tokens = tokens /\ lex'.inLen = inLen /\ lex'.lastPos = 0
         /\ lex'.stmt = NoStmt /\ lex'.lastError = NoError
<1>1. lex' = [tokens |-> tokens, inLen |-> inLen, lastPos |-> 0,
              stmt |-> NoStmt, lastError |-> NoError]
  BY DEF LexerInit, EmptyLexer
<1>2. NoStmt \in Seq(Token)
  BY EmptySeq DEF NoStmt
<1> QED
  BY <1>1, <1>2 DEF Lexers

(* A token that can be shifted is one of the statement's. *)
LEMMA ShiftableIsToken ==
  ASSUME lex \in Lexers, Shiftable(Tok(lex.lastPos + 1))
  PROVE  lex.lastPos + 1 <= Len(lex.tokens)
BY DEF Tok, Shiftable, Lexers

-----------------------------------------------------------------------------
(* The inductive invariant.                                                *)

Ends   == Refused \cup {"nul"}      \* what ends the scan of a text
Driver == {"grammar", "recover", "parseReturn"}

(* SplitFirstStatement has passed over no semicolon, error or zero byte. *)
SplitInv ==
    pc = "split" => /\ pos <= Len(stmt) + 1
                    /\ \A i \in 1..(pos - 1) : stmt[i] \notin Ends \cup {"semi"}

(* A semicolon of the cut is its last lexeme, or is never reached. *)
CutInv ==
    pc \in {"parse", "scanFirst", "scanRest"} \cup Driver =>
        \A i \in 1..Len(next) : next[i] = "semi" =>
            i = Len(next) \/ \E j \in 1..(i - 1) : next[j] \in Ends

(* scanOneStmt has passed over no end of text and no error, but for an     *)
(* error that is its last token, and its tokens lie in the text it has     *)
(* passed over.                                                            *)
ScanInv ==
    /\ pc \in {"scanFirst", "scanRest"} => pos <= Len(next) + 1
    /\ pc = "scanFirst" => \A i \in 1..(pos - 1) : next[i] \notin Ends
    /\ pc = "scanRest" =>
          /\ startPos < pos
          /\ lex.tokens # <<>>
          /\ \A i \in 1..Len(lex.tokens) : lex.tokens[i].pos + startPos < pos
          /\ \/ lex.tokens[Len(lex.tokens)].id = "ERROR"
             \/ \A i \in 1..(pos - 1) : next[i] \notin Ends
    /\ pc \in Driver => done \/ \A i \in 1..(pos - 1) : next[i] \notin Ends

(* A statement is parsed only when the scan is at the end of the cut: what *)
(* is scanned after it is empty.                                           *)
OneInv ==
    /\ Len(allParsed) <= 1
    /\ pc = "scanFirst" => allParsed = <<>> \/ pos = Len(next) + 1
    /\ pc = "scanRest" => allParsed = <<>>
    /\ pc \in Driver => /\ done \/ pos = Len(next) + 1
                        /\ allParsed = <<>> \/ lex.tokens = <<>>
                        /\ lex.tokens = <<>> => lex.stmt = NoStmt

(* Nothing is printed before everything is parsed. *)
PrintInv == pc \in {"trim", "split", "parse"} => printed = 0

(* Of the tokens the driver reads, those of the statement come first and   *)
(* lie in its text; it has no error until it rejects a token.              *)
DriverInv ==
    /\ pc \in Driver => \A i \in 1..Len(lex.tokens) : lex.tokens[i].pos <= lex.inLen
    /\ pc = "grammar" => lex.lastPos <= Len(lex.tokens) /\ lex.lastError = NoError
    /\ pc = "recover" => lex.lastError # NoError
    /\ pc = "parseReturn" => (ret # 0 <=> lex.lastError # NoError)

Inv == /\ TypeOK /\ SplitInv /\ CutInv /\ ScanInv
       /\ OneInv /\ PrintInv /\ DriverInv

LEMMA InitInv == Init => Inv
<1> SUFFICES ASSUME Init PROVE Inv
  OBVIOUS
<1>1. stmt \in Seq(Lexeme)
  BY TrimSpaceType, InputsAssumption DEF Init
<1>2. lex \in Lexers
  BY DEF Init, EmptyLexer, Lexers, NoStmt
<1>3. /\ <<>> \in Seq(Lexeme) /\ <<>> \in Seq(Seq(Token)) /\ Len(<<>>) = 0
      /\ [text |-> <<>>, err |-> NoError] \in [text : Seq(Lexeme), err : Errors \cup {NoError}]
  OBVIOUS
<1>4. TypeOK
  <2>1. /\ prettied \in Seq(Lexeme) /\ next \in Seq(Lexeme)
        /\ allParsed \in Seq(Seq(Token)) /\ printed \in 0..Len(allParsed)
    BY <1>3 DEF Init
  <2>2. result \in [text : Seq(Lexeme), err : Errors \cup {NoError}]
    BY <1>3, Zenon DEF Init
  <2>3. pc = "trim" /\ pos = 1 /\ startPos = 1 /\ ret = 0
    BY DEF Init
  <2>4. hasContent \in BOOLEAN /\ done \in BOOLEAN /\ input \in Inputs
    BY Zenon DEF Init
  <2> QED
    BY <1>1, <1>2, <2>1, <2>2, <2>3, <2>4 DEF TypeOK
<1> QED
  BY <1>4 DEF Init, Inv, SplitInv, CutInv, ScanInv, OneInv, PrintInv, DriverInv, Driver

(* The actions before the parse. *)
LEMMA TrimInv == Inv /\ (TrimComment \/ TrimDone) => Inv'
<1> SUFFICES ASSUME Inv, TrimComment \/ TrimDone PROVE Inv'
  OBVIOUS
<1>1. CASE TrimComment
  <2>1. stmt' \in Seq(Lexeme)
    BY <1>1, AfterFoundRange, SuffixType DEF TrimComment, Inv, TypeOK
  <2>2. prettied' \in Seq(Lexeme)
    BY <1>1, KeptType, ConcatProperties DEF TrimComment, Inv, TypeOK
  <2>3. TypeOK'
    BY <1>1, <2>1, <2>2 DEF TrimComment, Inv, TypeOK, scanVars, parsVars
  <2> QED
    BY <1>1, <2>3 DEF TrimComment, Inv, SplitInv, CutInv, ScanInv, OneInv, PrintInv,
                      DriverInv, Driver, scanVars, parsVars
<1>2. CASE TrimDone
  <2>1. TypeOK'
    BY <1>2 DEF TrimDone, Inv, TypeOK, fmtVars, parsVars
  <2>2. pos' = 1 /\ stmt' \in Seq(Lexeme)
    BY <1>2, <2>1 DEF TrimDone, TypeOK
  <2> QED
    BY <1>2, <2>1, <2>2 DEF TrimDone, Inv, SplitInv, CutInv, ScanInv, OneInv, PrintInv,
                            DriverInv, Driver, fmtVars, parsVars
<1> QED
  BY <1>1, <1>2

LEMMA SplitScanInv == Inv /\ SplitScan => Inv'
<1> SUFFICES ASSUME Inv, SplitScan PROVE Inv'
  OBVIOUS
<1> DEFINE id == Scan(stmt, pos).id
           q  == Scan(stmt, pos).pos
           n  == Scan(stmt, pos).next
<1>1. /\ pc = "split"
      /\ stmt \in Seq(Lexeme) /\ pos \in 1..(Len(stmt) + 1)
      /\ \A i \in 1..(pos - 1) : stmt[i] \notin Ends \cup {"semi"}
      /\ UNCHANGED <<input, prettied, hasContent, printed, result, startPos, done,
                     lex, ret, allParsed>>
  <2>1. pc = "split"
    BY DEF SplitScan
  <2> QED
    BY <2>1 DEF Inv, TypeOK, SplitInv, SplitScan, parsVars
<1>2. Scanned(stmt, pos, id, q, n)
  BY <1>1, ScanSpec
<1>3. /\ id \in {"EOF", "ERROR"} =>
            next' = stmt /\ stmt' = <<>> /\ pc' = "parse" /\ pos' = pos
      /\ id = "SEMI" => /\ next' = SubSeq(stmt, 1, n - 1)
                       /\ stmt' = SubSeq(stmt, n, Len(stmt))
                       /\ pc' = "parse" /\ pos' = pos
      /\ id \notin {"EOF", "ERROR", "SEMI"} =>
            pos' = n /\ next' = next /\ stmt' = stmt /\ pc' = pc
  BY DEF SplitScan
<1> HIDE DEF id, q, n
\* What lies before the token of this Scan is no end of the statement.
<1>4. \A i \in 1..(q - 1) : stmt[i] \notin Ends \cup {"semi"}
  <2> SUFFICES ASSUME NEW i \in 1..(q - 1)
               PROVE  stmt[i] \notin Ends \cup {"semi"}
    OBVIOUS
  <2>1. CASE i < pos
    BY <1>1, <2>1
  <2>2. CASE i >= pos
    <3>1. stmt[i] \in Blank \cup Comment
      BY <1>1, <1>2, <2>2 DEF Scanned
    <3> QED
      BY <3>1 DEF Blank, Comment, Ends, Refused
  <2> QED
    BY <1>1, <1>2, <2>1, <2>2 DEF Scanned
<1>5. CASE id \in {"EOF", "ERROR"}
  <2>1. TypeOK'
    <3>1. next' \in Seq(Lexeme) /\ stmt' \in Seq(Lexeme) /\ pc' = "parse" /\ pos' = pos
      BY <1>1, <1>3, <1>5, EmptySeq
    <3> QED
      BY <1>1, <3>1 DEF Inv, TypeOK
  <2>2. CutInv'
    <3> SUFFICES ASSUME NEW i \in 1..Len(stmt), stmt[i] = "semi"
                 PROVE  \E j \in 1..(i - 1) : stmt[j] \in Ends
      BY <1>3, <1>5 DEF CutInv
    <3>1. i >= q
      BY <1>1, <1>2, <1>4 DEF Scanned
    <3>2. q <= Len(stmt) /\ stmt[q] \in Ends
      BY <1>1, <1>2, <1>5, <3>1 DEF Scanned, Ends
    <3>3. i # q
      BY <3>2 DEF Ends, Refused
    <3> QED
      BY <1>1, <1>2, <3>1, <3>2, <3>3 DEF Scanned
  <2> QED
    BY <1>1, <1>3, <1>5, <2>1, <2>2
    DEF Inv, SplitInv, ScanInv, OneInv, PrintInv, DriverInv, Driver
<1>6. CASE id = "SEMI"
  <2>1. q <= Len(stmt) /\ n = q + 1
    BY <1>2, <1>6 DEF Scanned
  <2>2. /\ next' \in Seq(Lexeme) /\ Len(next') = q
        /\ \A i \in 1..q : next'[i] = stmt[i]
    BY <1>1, <1>2, <1>3, <1>6, <2>1, SubSeqProperties DEF Scanned
  <2>3. stmt' \in Seq(Lexeme)
    <3>1. n \in 1..(Len(stmt) + 1)
      BY <1>1, <1>2, <2>1 DEF Scanned
    <3> QED
      BY <1>1, <1>3, <1>6, <3>1, SuffixType
  <2>4. TypeOK'
    BY <1>1, <1>3, <1>6, <2>2, <2>3 DEF Inv, TypeOK
  <2>5. CutInv'
    BY <1>1, <1>2, <1>3, <1>4, <1>6, <2>2 DEF CutInv, Scanned
  <2> QED
    BY <1>1, <1>3, <1>6, <2>4, <2>5
    DEF Inv, SplitInv, ScanInv, OneInv, PrintInv, DriverInv, Driver
<1>7. CASE id \notin {"EOF", "ERROR", "SEMI"}
  <2>1. pos' \in 1..(Len(stmt) + 1) /\ pos' = q + 1 /\ q <= Len(stmt)
    BY <1>1, <1>2, <1>3, <1>7 DEF Scanned
  <2>2. TypeOK'
    BY <1>1, <1>3, <1>7, <2>1 DEF Inv, TypeOK
  <2>3. stmt[q] \notin Ends \cup {"semi"}
    BY <1>2, <1>7, <2>1 DEF Scanned, Ends
  <2>4. SplitInv'
    <3>1. pos' = q + 1 /\ stmt' = stmt /\ pos' <= Len(stmt) + 1
      BY <1>3, <1>7, <2>1
    <3>2. \A i \in 1..q : stmt[i] \notin Ends \cup {"semi"}
      BY <1>1, <1>2, <1>4, <2>3 DEF Scanned
    <3>3. pos' - 1 = q
      BY <1>1, <1>2, <3>1 DEF Scanned
    <3> QED
      BY <3>1, <3>2, <3>3 DEF SplitInv
  <2> QED
    BY <1>1, <1>3, <1>7, <2>2, <2>4
    DEF Inv, CutInv, ScanInv, OneInv, PrintInv, DriverInv, Driver
<1> QED
  BY <1>2, <1>5, <1>6, <1>7 DEF Scanned

LEMMA ParseInitInv == Inv /\ ParseInit => Inv'
<1> SUFFICES ASSUME Inv, ParseInit PROVE Inv'
  OBVIOUS
<1>1. /\ pc = "parse" /\ pc' = "scanFirst" /\ pos' = 1 /\ allParsed' = <<>>
      /\ UNCHANGED <<input, stmt, prettied, hasContent, next, printed, result,
                     startPos, done, lex, ret>>
  BY DEF ParseInit, fmtVars
<1>2. printed = 0
  BY <1>1 DEF Inv, PrintInv
<1>3. allParsed' \in Seq(Seq(Token)) /\ Len(allParsed') = 0
  BY <1>1, EmptySeq
<1>4. TypeOK'
  BY <1>1, <1>2, <1>3 DEF Inv, TypeOK
<1>5. CutInv'
  BY <1>1 DEF Inv, CutInv, Driver
<1>6. ScanInv'
  BY <1>1, <1>4 DEF ScanInv, TypeOK
<1>7. OneInv'
  BY <1>1, <1>3 DEF OneInv, Driver
<1> QED
  BY <1>1, <1>4, <1>5, <1>6, <1>7 DEF Inv, SplitInv, PrintInv, DriverInv, Driver

\* What lies before the token a Scan takes from pos is no end of the text, if
\* nothing before pos is.
LEMMA NoEndBefore ==
  ASSUME NEW s \in Seq(Lexeme), NEW p \in 1..(Len(s) + 1), NEW id, NEW q, NEW n,
         Scanned(s, p, id, q, n), NEW K, K \cap (Blank \cup Comment) = {},
         \A i \in 1..(p - 1) : s[i] \notin K
  PROVE  \A i \in 1..(q - 1) : s[i] \notin K
<1> SUFFICES ASSUME NEW i \in 1..(q - 1) PROVE s[i] \notin K
  OBVIOUS
<1>1. CASE i < p
  BY <1>1
<1>2. CASE i >= p
  BY <1>2 DEF Scanned
<1> QED
  BY <1>1, <1>2 DEF Scanned

LEMMA ScanFirstInv == Inv /\ ScanFirst => Inv'
<1> SUFFICES ASSUME Inv, ScanFirst PROVE Inv'
  OBVIOUS
<1> DEFINE id == Scan(next, pos).id
           q  == Scan(next, pos).pos
           n  == Scan(next, pos).next
<1>1. pc = "scanFirst"
  BY DEF ScanFirst
<1>2. /\ next \in Seq(Lexeme) /\ pos \in 1..(Len(next) + 1)
      /\ \A i \in 1..(pos - 1) : next[i] \notin Ends
      /\ allParsed = <<>> \/ pos = Len(next) + 1
  BY <1>1 DEF Inv, TypeOK, ScanInv, OneInv
<1>3. Scanned(next, pos, id, q, n)
  BY <1>2, ScanSpec
<1>4. /\ UNCHANGED <<input, stmt, prettied, hasContent, next, printed, result, ret, allParsed>>
      /\ pos' = n
  BY DEF ScanFirst, fmtVars
<1>5. /\ id = "EOF" => /\ done' = TRUE /\ LexerInit(<<>>, 0)
                       /\ pc' = "grammar" /\ startPos' = startPos
      /\ id = "SEMI" => done' = done /\ lex' = lex /\ pc' = pc /\ startPos' = startPos
      /\ id \notin {"EOF", "SEMI"} =>
            /\ startPos' = q /\ pc' = "scanRest" /\ done' = done
            /\ LexerInit(<<[id |-> id, pos |-> 0]>>, 0)
  BY DEF ScanFirst
<1> HIDE DEF id, q, n
<1>6. pos' \in 1..(Len(next) + 1) /\ pos' \in Nat \ {0}
  BY <1>2, <1>3, <1>4 DEF Scanned
<1>7. \A i \in 1..(q - 1) : next[i] \notin Ends
  <2>1. Ends \cap (Blank \cup Comment) = {}
    BY DEF Ends, Refused, Blank, Comment
  <2> QED
    BY <1>2, <1>3, <2>1, NoEndBefore
<1>8. CASE id = "EOF"
  <2>1. lex' \in Lexers /\ lex'.tokens = <<>> /\ lex'.stmt = NoStmt
        /\ lex'.lastPos = 0 /\ lex'.lastError = NoError
    BY <1>5, <1>8, EmptySeq, LexerInitSpec
  <2>2. TypeOK'
    BY <1>1, <1>4, <1>5, <1>6, <1>8, <2>1 DEF Inv, TypeOK
  <2>3. CutInv'
    BY <1>1, <1>4 DEF Inv, CutInv
  <2>4. OneInv'
    BY <1>4, <1>5, <1>8, <2>1 DEF Inv, OneInv, Driver
  <2>5. DriverInv'
    BY <1>5, <1>8, <2>1, EmptySeq DEF DriverInv, Driver
  <2> QED
    BY <1>5, <1>8, <2>2, <2>3, <2>4, <2>5 DEF Inv, SplitInv, ScanInv, PrintInv
<1>9. CASE id = "SEMI"
  <2>1. TypeOK'
    BY <1>1, <1>4, <1>5, <1>6, <1>9 DEF Inv, TypeOK
  <2>2. q <= Len(next) /\ n = q + 1 /\ next[q] = "semi"
    BY <1>2, <1>3, <1>9 DEF Scanned
  <2>3. next[q] \notin Ends
    BY <2>2 DEF Ends, Refused
  <2>4. ScanInv'
    BY <1>1, <1>3, <1>4, <1>5, <1>6, <1>7, <1>9, <2>2, <2>3 DEF ScanInv, Scanned, Driver
  <2>5. allParsed = <<>>
    BY <1>2, <1>3, <2>2 DEF Scanned
  <2>6. OneInv'
    BY <1>1, <1>4, <1>5, <1>9, <2>5, EmptySeq DEF OneInv, Driver
  <2> QED
    BY <1>1, <1>4, <1>5, <1>9, <2>1, <2>4, <2>6
    DEF Inv, SplitInv, CutInv, PrintInv, DriverInv, Driver
<1>10. CASE id \notin {"EOF", "SEMI"}
  <2>1. q <= Len(next) /\ n = q + 1 /\ q \in Nat \ {0}
        /\ id \in {"ERROR", "HELPTOKEN", "WORD"} /\ (id = "ERROR" <=> next[q] \in Refused)
        /\ next[q] # "nul"
    BY <1>2, <1>3, <1>10 DEF Scanned
  <2> DEFINE tok == [id |-> id, pos |-> 0]
  <2>2. tok \in Token /\ tok.id = id /\ tok.pos = 0
    BY <2>1 DEF Token
  <2> HIDE DEF tok
  <2>3. <<tok>> \in Seq(Token) /\ Len(<<tok>>) = 1 /\ <<tok>>[1] = tok
    BY <2>2
  <2>4. lex' \in Lexers /\ lex'.tokens = <<tok>>
    BY <1>5, <1>10, <2>3, LexerInitSpec DEF tok
  <2>5. TypeOK'
    BY <1>1, <1>4, <1>5, <1>6, <1>10, <2>1, <2>4 DEF Inv, TypeOK
  <2>6. id = "ERROR" \/ \A i \in 1..(pos' - 1) : next[i] \notin Ends
    BY <1>2, <1>4, <1>7, <2>1 DEF Ends
  <2>7. ScanInv'
    BY <1>4, <1>5, <1>6, <1>10, <2>1, <2>2, <2>3, <2>4, <2>6 DEF ScanInv, Driver
  <2>8. allParsed = <<>>
    BY <1>2, <1>3, <2>1 DEF Scanned
  <2>9. OneInv'
    BY <1>4, <1>5, <1>10, <2>8, EmptySeq DEF OneInv, Driver
  <2> QED
    BY <1>1, <1>4, <1>5, <1>10, <2>5, <2>7, <2>9
    DEF Inv, SplitInv, CutInv, PrintInv, DriverInv, Driver
<1> QED
  BY <1>8, <1>9, <1>10

LEMMA ScanRestInv == Inv /\ ScanRest => Inv'
<1> SUFFICES ASSUME Inv, ScanRest PROVE Inv'
  OBVIOUS
<1> DEFINE id   == Scan(next, pos).id
           q    == Scan(next, pos).pos
           n    == Scan(next, pos).next
           toks == lex.tokens
           last == toks[Len(toks)].id
<1>1. pc = "scanRest"
  BY DEF ScanRest
<1>2. /\ next \in Seq(Lexeme) /\ pos \in 1..(Len(next) + 1)
      /\ startPos \in Nat \ {0} /\ startPos < pos
      /\ lex \in Lexers /\ toks \in Seq(Token) /\ Len(toks) > 0
      /\ \A i \in 1..Len(toks) : toks[i].pos \in Nat /\ toks[i].pos + startPos < pos
      /\ last = "ERROR" \/ \A i \in 1..(pos - 1) : next[i] \notin Ends
      /\ allParsed = <<>>
  <2>1. lex \in Lexers /\ toks \in Seq(Token) /\ toks # <<>>
    BY <1>1 DEF Inv, TypeOK, ScanInv, Lexers
  <2>2. \A i \in 1..Len(toks) : toks[i].pos \in Nat
    <3> HIDE DEF toks
    <3>1. \A i \in 1..Len(toks) : toks[i] \in Token
      BY <2>1, ElementOfSeq
    <3> QED
      BY <3>1 DEF Token
  <2>3. /\ startPos < pos /\ pos <= Len(next) + 1
        /\ \A i \in 1..Len(toks) : toks[i].pos + startPos < pos
        /\ last = "ERROR" \/ \A i \in 1..(pos - 1) : next[i] \notin Ends
    BY <1>1 DEF Inv, ScanInv
  <2>4. allParsed = <<>>
    BY <1>1 DEF Inv, OneInv
  <2> HIDE DEF toks, last
  <2> QED
    BY <2>1, <2>2, <2>3, <2>4, EmptySeq DEF Inv, TypeOK
<1>3. Scanned(next, pos, id, q, n)
  BY <1>2, ScanSpec
<1>4. UNCHANGED <<input, stmt, prettied, hasContent, next, printed, result,
                  startPos, ret, allParsed>>
  BY DEF ScanRest, fmtVars
<1>5. \/ /\ last = "ERROR" /\ LexerInit(toks, Len(next) + 1 - startPos)
         /\ done' = TRUE /\ pc' = "grammar" /\ pos' = pos
      \/ /\ last # "ERROR" /\ id \in {"EOF", "SEMI"}
         /\ LexerInit(toks, pos - startPos)
         /\ done' = (id = "EOF") /\ pc' = "grammar" /\ pos' = n
      \/ /\ last # "ERROR" /\ id \notin {"EOF", "SEMI"}
         /\ lex' = [lex EXCEPT !.tokens = Append(toks, [id |-> id, pos |-> q - startPos])]
         /\ done' = done /\ pc' = pc /\ pos' = n
  BY DEF ScanRest
<1> HIDE DEF id, q, n, toks, last
<1>6. n \in 1..(Len(next) + 1) /\ q \in pos..(Len(next) + 1)
  BY <1>2, <1>3 DEF Scanned
<1>7. last # "ERROR" => \A i \in 1..(q - 1) : next[i] \notin Ends
  <2>1. Ends \cap (Blank \cup Comment) = {}
    BY DEF Ends, Refused, Blank, Comment
  <2> QED
    BY <1>2, <1>3, <2>1, NoEndBefore
<1>8. CASE last = "ERROR"
  <2>1. /\ LexerInit(toks, Len(next) + 1 - startPos)
        /\ done' = TRUE /\ pc' = "grammar" /\ pos' = pos
    BY <1>5, <1>8
  <2> DEFINE l == Len(next) + 1 - startPos
  <2>2. l \in Nat /\ \A i \in 1..Len(toks) : toks[i].pos <= l
    BY <1>2
  <2> HIDE DEF l
  <2>3. /\ lex' \in Lexers
        /\ lex'.tokens = toks /\ lex'.inLen = l /\ lex'.lastPos = 0
        /\ lex'.stmt = NoStmt /\ lex'.lastError = NoError
    BY <1>2, <2>1, <2>2, LexerInitSpec DEF l
  <2>4. TypeOK'
    BY <1>4, <2>1, <2>3 DEF Inv, TypeOK
  <2>5. OneInv'
    BY <1>2, <1>4, <2>1, <2>3, EmptySeq DEF OneInv, Driver
  <2>6. DriverInv'
    BY <1>2, <2>1, <2>2, <2>3 DEF DriverInv, Driver
  <2> QED
    BY <1>1, <1>4, <2>1, <2>4, <2>5, <2>6 DEF Inv, SplitInv, CutInv, ScanInv, PrintInv
<1>9. CASE last # "ERROR" /\ id \in {"EOF", "SEMI"}
  <2>1. /\ LexerInit(toks, pos - startPos)
        /\ done' = (id = "EOF") /\ pc' = "grammar" /\ pos' = n
    BY <1>5, <1>9
  <2> DEFINE l == pos - startPos
  <2>2. l \in Nat /\ \A i \in 1..Len(toks) : toks[i].pos <= l
    BY <1>2
  <2> HIDE DEF l
  <2>3. /\ lex' \in Lexers
        /\ lex'.tokens = toks /\ lex'.inLen = l /\ lex'.lastPos = 0
        /\ lex'.stmt = NoStmt /\ lex'.lastError = NoError
    BY <1>2, <2>1, <2>2, LexerInitSpec DEF l
  <2>4. done' \in BOOLEAN
    BY <2>1, Zenon
  <2>5. TypeOK'
    BY <1>4, <1>6, <2>1, <2>3, <2>4 DEF Inv, TypeOK
  \* A semicolon that is reached is the end of the cut.
  <2>6. id = "SEMI" => pos' = Len(next) + 1
    <3> SUFFICES ASSUME id = "SEMI" PROVE n = Len(next) + 1
      BY <2>1
    <3>1. q \in 1..Len(next) /\ n = q + 1 /\ next[q] = "semi"
      BY <1>2, <1>3, <1>6 DEF Scanned
    <3>2. q = Len(next) \/ \E j \in 1..(q - 1) : next[j] \in Ends
      BY <1>1, <3>1 DEF Inv, CutInv
    <3> QED
      BY <1>7, <1>9, <3>1, <3>2
  <2>7. done' \/ pos' = Len(next') + 1
    BY <1>4, <1>9, <2>1, <2>6
  <2>10. id = "SEMI" => \A i \in 1..(n - 1) : next[i] \notin Ends
    <3> SUFFICES ASSUME id = "SEMI" PROVE \A i \in 1..(n - 1) : next[i] \notin Ends
      OBVIOUS
    <3>1. q \in 1..Len(next) /\ n = q + 1 /\ next[q] = "semi"
      BY <1>2, <1>3, <1>6 DEF Scanned
    <3>2. next[q] \notin Ends
      BY <3>1 DEF Ends, Refused
    <3> QED
      BY <1>7, <1>9, <3>1, <3>2
  <2>11. ScanInv'
    BY <1>4, <1>9, <2>1, <2>10 DEF ScanInv
  <2>8. OneInv'
    BY <1>2, <1>4, <2>1, <2>3, <2>7, EmptySeq DEF OneInv, Driver
  <2>9. DriverInv'
    BY <1>2, <2>1, <2>2, <2>3 DEF DriverInv, Driver
  <2> QED
    BY <1>1, <1>4, <2>1, <2>5, <2>8, <2>9, <2>11 DEF Inv, SplitInv, CutInv, PrintInv
<1>10. CASE last # "ERROR" /\ id \notin {"EOF", "SEMI"}
  <2> DEFINE tok == [id |-> id, pos |-> q - startPos]
  <2>1. /\ lex' = [lex EXCEPT !.tokens = Append(toks, tok)]
        /\ done' = done /\ pc' = "scanRest" /\ pos' = n
    BY <1>1, <1>5, <1>10
  <2>2. q <= Len(next) /\ n = q + 1 /\ q \in Nat \ {0}
        /\ id \in {"ERROR", "HELPTOKEN", "WORD"} /\ (id = "ERROR" <=> next[q] \in Refused)
        /\ next[q] # "nul"
    BY <1>2, <1>3, <1>10 DEF Scanned
  <2>3. tok \in Token /\ tok.id = id /\ tok.pos = q - startPos
    BY <1>2, <1>6, <2>2 DEF Token
  <2> HIDE DEF tok
  <2> DEFINE new == Append(toks, tok)
  <2>4. /\ new \in Seq(Token) /\ Len(new) = Len(toks) + 1
        /\ \A i \in 1..Len(toks) : new[i] = toks[i]
        /\ new[Len(new)] = tok
    BY <1>2, <2>3, AppendProperties
  <2> HIDE DEF new
  <2>5. lex' \in Lexers /\ lex'.tokens = new
    BY <1>2, <2>1, <2>4 DEF Lexers, new
  <2>6. TypeOK'
    BY <1>4, <1>6, <2>1, <2>5 DEF Inv, TypeOK
  <2>7. \A i \in 1..Len(new) : new[i].pos + startPos < n
    <3> SUFFICES ASSUME NEW i \in 1..Len(new) PROVE new[i].pos + startPos < n
      OBVIOUS
    <3>1. CASE i \in 1..Len(toks)
      BY <1>2, <1>6, <2>2, <2>4, <3>1
    <3>2. CASE i = Len(new)
      BY <1>2, <2>2, <2>3, <2>4, <3>2
    <3> QED
      BY <1>2, <2>4, <3>1, <3>2
  <2>8. id = "ERROR" \/ \A i \in 1..(n - 1) : next[i] \notin Ends
    BY <1>7, <1>10, <2>2 DEF Ends
  <2>9. new # <<>>
    BY <1>2, <2>4, EmptySeq
  <2>10. ScanInv'
    <3>1. startPos' < pos' /\ pos' <= Len(next') + 1
      BY <1>2, <1>4, <1>6, <2>1, <2>2
    <3>2. lex'.tokens # <<>> /\ new[Len(new)].id = id
      BY <2>3, <2>4, <2>5, <2>9
    <3> QED
      BY <1>4, <2>1, <2>5, <2>7, <2>8, <3>1, <3>2 DEF ScanInv, Driver
  <2>11. OneInv'
    BY <1>2, <1>4, <2>1, EmptySeq DEF OneInv, Driver
  <2> QED
    BY <1>1, <1>4, <2>1, <2>6, <2>10, <2>11
    DEF Inv, SplitInv, CutInv, PrintInv, DriverInv, Driver
<1> QED
  BY <1>8, <1>9, <1>10

(* What every step of the driver leaves alone, and what is left to show. *)
LEMMA DriverStep ==
  ASSUME Inv, pc \in Driver, pc' \in Driver \cup {"panic"}, ret' \in 0..1,
         UNCHANGED <<input, fmtVars, scanVars, allParsed>>,
         lex' \in Lexers, lex'.tokens = lex.tokens, lex'.inLen = lex.inLen,
         lex.tokens = <<>> => lex'.stmt = NoStmt,
         pc' = "grammar" => lex'.lastPos <= Len(lex.tokens) /\ lex'.lastError = NoError,
         pc' = "recover" => lex'.lastError # NoError,
         pc' = "parseReturn" => (ret' # 0 <=> lex'.lastError # NoError)
  PROVE  Inv'
<1>1. UNCHANGED <<input, stmt, prettied, hasContent, next, printed, result,
                  pos, startPos, done, allParsed>>
  BY DEF fmtVars, scanVars
<1>2. TypeOK'
  BY <1>1 DEF Inv, TypeOK, Driver
<1>3. OneInv'
  BY <1>1 DEF Inv, OneInv, Driver
<1>4. DriverInv'
  BY <1>1 DEF Inv, DriverInv, Driver
<1> QED
  BY <1>1, <1>2, <1>3, <1>4 DEF Inv, SplitInv, CutInv, ScanInv, PrintInv, Driver

(* What the actions of the driver start from. *)
LEMMA GrammarFacts ==
  ASSUME Inv, pc \in Driver
  PROVE  /\ lex \in Lexers /\ lex.lastPos \in Nat /\ lex.lastPos + 1 \in Nat
         /\ lex.tokens \in Seq(Token) /\ Len(lex.tokens) \in Nat
         /\ lex.tokens = <<>> => lex.stmt = NoStmt
         /\ pc = "grammar" => lex.lastPos <= Len(lex.tokens) /\ lex.lastError = NoError
         /\ ret \in 0..1
BY DEF Inv, TypeOK, Lexers, OneInv, DriverInv

LEMMA ShiftInv == Inv /\ Shift => Inv'
<1> SUFFICES ASSUME Inv, Shift PROVE Inv'
  OBVIOUS
<1>1. pc = "grammar" /\ lex.stmt = NoStmt /\ Shiftable(Tok(lex.lastPos + 1))
  BY DEF Shift, Parsing
<1>2. pc \in Driver
  BY <1>1 DEF Driver
<1>3. lex' = [lex EXCEPT !.lastPos = lex.lastPos + 1]
  BY DEF Shift
<1>4. lex.lastPos + 1 <= Len(lex.tokens)
  BY <1>1, <1>2, GrammarFacts, ShiftableIsToken
<1>5. /\ lex' \in Lexers /\ lex'.tokens = lex.tokens /\ lex'.inLen = lex.inLen
      /\ lex'.stmt = NoStmt /\ lex'.lastError = NoError
      /\ lex'.lastPos = lex.lastPos + 1
  BY <1>1, <1>2, <1>3, GrammarFacts DEF Lexers
<1>6. pc' = "grammar" /\ ret' \in 0..1 /\ UNCHANGED <<input, fmtVars, scanVars, allParsed>>
  BY <1>1, <1>2, GrammarFacts DEF Shift
<1> QED
  BY <1>2, <1>4, <1>5, <1>6, DriverStep DEF Driver

LEMMA SetStmtInv == Inv /\ SetStmt => Inv'
<1> SUFFICES ASSUME Inv, SetStmt PROVE Inv'
  OBVIOUS
<1>1. pc = "grammar" /\ lex.lastPos > 0
  BY DEF SetStmt, Parsing
<1>2. pc \in Driver
  BY <1>1 DEF Driver
<1>3. lex' = [lex EXCEPT !.stmt = SubSeq(lex.tokens, 1, lex.lastPos)]
  BY DEF SetStmt
<1>4. lex.lastPos \in 1..Len(lex.tokens) /\ lex.tokens # <<>>
  BY <1>1, <1>2, GrammarFacts, EmptySeq
<1>5. SubSeq(lex.tokens, 1, lex.lastPos) \in Seq(Token)
  BY <1>2, <1>4, GrammarFacts, SubSeqProperties
<1>6. /\ lex' \in Lexers /\ lex'.tokens = lex.tokens /\ lex'.inLen = lex.inLen
      /\ lex'.lastError = NoError /\ lex'.lastPos = lex.lastPos
  BY <1>1, <1>2, <1>3, <1>5, GrammarFacts DEF Lexers
<1>7. pc' = "grammar" /\ ret' \in 0..1 /\ UNCHANGED <<input, fmtVars, scanVars, allParsed>>
  BY <1>1, <1>2, GrammarFacts DEF SetStmt
<1> QED
  BY <1>2, <1>4, <1>6, <1>7, DriverStep DEF Driver

LEMMA SyntaxErrorInv == Inv /\ SyntaxError => Inv'
<1> SUFFICES ASSUME Inv, SyntaxError PROVE Inv'
  OBVIOUS
<1> DEFINE i == lex.lastPos + 1
           e == Details(i, "syntax")
<1>1. pc = "grammar" /\ pc \in Driver
  BY DEF SyntaxError, Driver
<1>2. lex' = [lex EXCEPT !.lastPos = i, !.lastError = e]
  BY DEF SyntaxError
<1>3. e \in Errors
  BY DetailsType DEF Errors
<1> HIDE DEF e
<1>4. /\ lex' \in Lexers /\ lex'.tokens = lex.tokens /\ lex'.inLen = lex.inLen
      /\ lex'.lastError = e /\ lex'.stmt = lex.stmt
  BY <1>1, <1>2, <1>3, GrammarFacts DEF Lexers
<1>5. pc' = "recover" /\ ret' \in 0..1 /\ UNCHANGED <<input, fmtVars, scanVars, allParsed>>
  BY <1>1, GrammarFacts DEF SyntaxError
<1>6. lex'.lastError # NoError
  BY <1>3, <1>4, NoErrorNotError
<1> QED
  BY <1>1, <1>4, <1>5, <1>6, GrammarFacts, DriverStep DEF Driver

LEMMA ActionErrorInv == Inv /\ ActionError => Inv'
<1> SUFFICES ASSUME Inv, ActionError PROVE Inv'
  OBVIOUS
<1>1. pc = "grammar" /\ pc \in Driver
  BY DEF ActionError, Parsing, Driver
<1>2. PICK i \in {lex.lastPos, lex.lastPos + 1} : \E e \in {Details(i, "action"), "unimplemented"} :
         lex' = [lex EXCEPT !.lastPos = i, !.lastError = e]
  BY DEF ActionError
<1>3. PICK e \in {Details(i, "action"), "unimplemented"} :
         lex' = [lex EXCEPT !.lastPos = i, !.lastError = e]
  BY <1>2
<1>4. e \in Errors /\ i \in Nat
  BY <1>1, DetailsType, GrammarFacts DEF Errors
<1>5. /\ lex' \in Lexers /\ lex'.tokens = lex.tokens /\ lex'.inLen = lex.inLen
      /\ lex'.lastError = e /\ lex'.stmt = lex.stmt
  BY <1>1, <1>3, <1>4, GrammarFacts DEF Lexers
<1>6. pc' = "parseReturn" /\ ret' = 1 /\ UNCHANGED <<input, fmtVars, scanVars, allParsed>>
  BY DEF ActionError
<1>7. lex'.lastError # NoError
  BY <1>4, <1>5, NoErrorNotError
<1> QED
  BY <1>1, <1>5, <1>6, <1>7, GrammarFacts, DriverStep DEF Driver

LEMMA UnimplementedInv == Inv /\ Unimplemented => Inv'
<1> SUFFICES ASSUME Inv, Unimplemented PROVE Inv'
  OBVIOUS
<1>1. pc = "grammar" /\ pc \in Driver
  BY DEF Unimplemented, Parsing, Driver
<1>2. PICK i \in {lex.lastPos, lex.lastPos + 1} :
         \/ lex' = [lex EXCEPT !.lastPos = i] /\ pc' = "panic" /\ ret' = ret
         \/ /\ lex' = [lex EXCEPT !.lastPos = i, !.lastError = "unimplemented"]
            /\ ret' = 1 /\ pc' = "parseReturn"
  BY DEF Unimplemented
<1>3. UNCHANGED <<input, fmtVars, scanVars, allParsed>>
  BY DEF Unimplemented
<1>4. i \in Nat
  BY <1>1, GrammarFacts
<1>5. CASE lex' = [lex EXCEPT !.lastPos = i] /\ pc' = "panic" /\ ret' = ret
  <2>1. /\ lex' \in Lexers /\ lex'.tokens = lex.tokens /\ lex'.inLen = lex.inLen
        /\ lex'.stmt = lex.stmt
    BY <1>1, <1>4, <1>5, GrammarFacts DEF Lexers
  <2> QED
    BY <1>1, <1>3, <1>5, <2>1, GrammarFacts, DriverStep DEF Driver
<1>6. CASE /\ lex' = [lex EXCEPT !.lastPos = i, !.lastError = "unimplemented"]
           /\ ret' = 1 /\ pc' = "parseReturn"
  <2>1. "unimplemented" \in Errors
    BY DEF Errors
  <2>2. /\ lex' \in Lexers /\ lex'.tokens = lex.tokens /\ lex'.inLen = lex.inLen
        /\ lex'.stmt = lex.stmt /\ lex'.lastError # NoError
    BY <1>1, <1>4, <1>6, <2>1, GrammarFacts, NoErrorNotError DEF Lexers
  <2> QED
    BY <1>1, <1>3, <1>6, <2>2, GrammarFacts, DriverStep DEF Driver
<1> QED
  BY <1>2, <1>5, <1>6

LEMMA RecoverInv == Inv /\ Recover => Inv'
<1> SUFFICES ASSUME Inv, Recover PROVE Inv'
  OBVIOUS
<1>1. pc = "recover" /\ pc \in Driver
  BY DEF Recover, Driver
<1>2. pc' = "parseReturn" /\ ret' = 1 /\ UNCHANGED <<input, fmtVars, scanVars, allParsed>>
  BY DEF Recover
<1>3. lex' = lex \/ lex' = [lex EXCEPT !.lastError = "help"]
  BY DEF Recover
<1>4. lex.lastError # NoError /\ "help" \in Errors
  BY <1>1 DEF Inv, DriverInv, Errors
<1>5. /\ lex' \in Lexers /\ lex'.tokens = lex.tokens /\ lex'.inLen = lex.inLen
      /\ lex'.stmt = lex.stmt /\ lex'.lastError # NoError
  BY <1>1, <1>3, <1>4, GrammarFacts, NoErrorNotError DEF Lexers
<1> QED
  BY <1>1, <1>2, <1>5, GrammarFacts, DriverStep DEF Driver

LEMMA AcceptInv == Inv /\ Accept => Inv'
<1> SUFFICES ASSUME Inv, Accept PROVE Inv'
  OBVIOUS
<1>1. pc = "grammar" /\ pc \in Driver
  BY DEF Accept, Driver
<1>2. lex' = [lex EXCEPT !.lastPos = lex.lastPos + 1]
  BY DEF Accept
<1>3. pc' = "parseReturn" /\ ret' = 0 /\ UNCHANGED <<input, fmtVars, scanVars, allParsed>>
  BY DEF Accept
<1>4. /\ lex' \in Lexers /\ lex'.tokens = lex.tokens /\ lex'.inLen = lex.inLen
      /\ lex'.stmt = lex.stmt /\ lex'.lastError = NoError
  BY <1>1, <1>2, GrammarFacts DEF Lexers
<1> QED
  BY <1>1, <1>3, <1>4, GrammarFacts, DriverStep DEF Driver

LEMMA ParseReturnInv == Inv /\ ParseReturn => Inv'
<1> SUFFICES ASSUME Inv, ParseReturn PROVE Inv'
  OBVIOUS
<1>1. pc = "parseReturn" /\ pc \in Driver
  BY DEF ParseReturn, Driver
<1>2. lex' = [lex EXCEPT !.tokens = <<>>, !.stmt = NoStmt, !.lastError = NoError]
  BY DEF ParseReturn
<1>3. UNCHANGED <<input, stmt, prettied, hasContent, next, printed, pos, startPos, done, ret>>
  BY DEF ParseReturn, scanVars
<1>4. lex' \in Lexers /\ lex'.tokens = <<>>
  BY <1>1, <1>2, EmptySeq, GrammarFacts DEF Lexers, NoStmt
<1>5. /\ done \/ pos = Len(next) + 1
      /\ allParsed = <<>> \/ lex.stmt = NoStmt
      /\ allParsed \in Seq(Seq(Token)) /\ Len(allParsed) <= 1
      /\ lex.stmt \in Seq(Token) /\ next \in Seq(Lexeme) /\ pos \in Nat \ {0}
      /\ printed \in 0..Len(allParsed)
      /\ done \in BOOLEAN
  BY <1>1 DEF Inv, OneInv, TypeOK, Lexers
<1>6. CASE pc' = "done"
  <2>1. /\ allParsed' = allParsed
        /\ result' = [text |-> <<>>, err |-> IF lex.lastError = NoError
                         THEN Details(lex.lastPos, "syntax") ELSE lex.lastError]
    BY <1>6 DEF ParseReturn
  <2>2. result' \in [text : Seq(Lexeme), err : Errors \cup {NoError}]
    <3>1. Details(lex.lastPos, "syntax") \in Errors
      BY DetailsType DEF Errors
    <3>2. lex.lastError \in Errors \cup {NoError}
      BY <1>1, GrammarFacts DEF Lexers
    <3> QED
      BY <2>1, <3>1, <3>2, EmptySeq
  <2>3. TypeOK'
    BY <1>3, <1>4, <1>6, <2>1, <2>2 DEF Inv, TypeOK
  <2> QED
    BY <1>3, <1>5, <1>6, <2>1, <2>3
    DEF Inv, SplitInv, CutInv, ScanInv, OneInv, PrintInv, DriverInv, Driver
<1>7. CASE pc' # "done"
  <2>1. /\ result' = result
        /\ allParsed' = IF lex.stmt = NoStmt THEN allParsed ELSE Append(allParsed, lex.stmt)
        /\ pc' = IF done THEN "print" ELSE "scanFirst"
    BY <1>7 DEF ParseReturn
  <2>2. allParsed' \in Seq(Seq(Token)) /\ Len(allParsed') <= 1 /\ printed \in 0..Len(allParsed')
    <3>1. CASE lex.stmt = NoStmt
      BY <1>5, <2>1, <3>1
    <3>2. CASE lex.stmt # NoStmt
      <4>1. allParsed = <<>> /\ allParsed' = Append(allParsed, lex.stmt)
        BY <1>5, <2>1, <3>2
      <4>2. /\ Append(allParsed, lex.stmt) \in Seq(Seq(Token))
            /\ Len(Append(allParsed, lex.stmt)) = Len(allParsed) + 1
        BY <1>5, AppendProperties
      <4> QED
        BY <1>5, <4>1, <4>2, EmptySeq
    <3> QED
      BY <3>1, <3>2
  <2>3. pc' \in {"print", "scanFirst"}
    BY <2>1
  <2>4. TypeOK'
    BY <1>3, <1>4, <2>1, <2>2, <2>3 DEF Inv, TypeOK
  <2>5. pc' = "scanFirst" => pos = Len(next) + 1
    BY <1>5, <2>1
  \* The statement that is scanned next is the empty end of a cut without errors.
  <2>6. ScanInv'
    <3>1. CASE pc' = "print"
      BY <3>1 DEF ScanInv, Driver
    <3>2. CASE pc' = "scanFirst"
      <4>1. ~done
        BY <1>5, <2>1, <3>2
      <4> QED
        BY <1>1, <1>3, <2>5, <3>2, <4>1 DEF ScanInv, Inv, Driver
    <3> QED
      BY <2>3, <3>1, <3>2
  <2>7. OneInv'
    BY <1>3, <2>2, <2>3, <2>5 DEF OneInv, Driver
  <2>8. CutInv'
    BY <1>1, <1>3, <2>3 DEF Inv, CutInv
  <2> QED
    BY <1>3, <2>3, <2>4, <2>6, <2>7, <2>8 DEF Inv, SplitInv, PrintInv, DriverInv, Driver
<1> QED
  BY <1>6, <1>7

LEMMA PrintOneInv == Inv /\ PrintOne => Inv'
<1> SUFFICES ASSUME Inv, PrintOne PROVE Inv'
  OBVIOUS
<1>1. /\ pc = "print" /\ printed < Len(allParsed) /\ printed' = printed + 1
      /\ prettied' = prettied \o [i \in 1..Len(allParsed[printed']) |-> "word"]
                              \o <<"semi", "nl">>
      /\ hasContent' = TRUE
  BY DEF PrintOne
<1>2. UNCHANGED <<input, pc, stmt, next, result, pos, startPos, done, lex, ret, allParsed>>
  BY DEF PrintOne, scanVars, parsVars
<1>3. printed' \in 1..Len(allParsed) /\ allParsed \in Seq(Seq(Token))
  BY <1>1 DEF Inv, TypeOK
<1>4. Len(allParsed[printed']) \in Nat
  <2>1. allParsed[printed'] \in Seq(Token)
    BY <1>3, ElementOfSeq
  <2> QED
    BY <2>1, LenProperties
<1> DEFINE words == [i \in 1..Len(allParsed[printed']) |-> "word"]
           tail  == <<"semi", "nl">>
<1>5. words \in Seq(Lexeme) /\ tail \in Seq(Lexeme)
  <2>1. "word" \in Lexeme /\ "semi" \in Lexeme /\ "nl" \in Lexeme
    BY DEF Lexeme, Blank, Comment
  <2>2. words \in Seq(Lexeme)
    BY <1>4, <2>1, IsASeq
  <2> QED
    BY <2>1, <2>2
<1> HIDE DEF words, tail
<1>6. prettied' \in Seq(Lexeme)
  <2>1. prettied \in Seq(Lexeme) /\ prettied' = (prettied \o words) \o tail
    BY <1>1 DEF Inv, TypeOK, words, tail
  <2>2. prettied \o words \in Seq(Lexeme)
    BY <1>5, <2>1, ConcatProperties
  <2> QED
    BY <1>5, <2>1, <2>2, ConcatProperties
<1>7. TypeOK'
  BY <1>1, <1>2, <1>3, <1>6 DEF Inv, TypeOK
<1> QED
  BY <1>1, <1>2, <1>7
  DEF Inv, SplitInv, CutInv, ScanInv, OneInv, PrintInv, DriverInv, Driver

LEMMA ReturnInv == Inv /\ Return => Inv'
<1> SUFFICES ASSUME Inv, Return PROVE Inv'
  OBVIOUS
<1>1. /\ prettied' = IF hasContent THEN Append(prettied, "nl") ELSE prettied
      /\ result' = [text |-> TrimSpace(prettied'), err |-> NoError]
      /\ pc' = "done"
  BY DEF Return
<1>2. UNCHANGED <<input, stmt, hasContent, next, printed, pos, startPos, done,
                  lex, ret, allParsed>>
  BY DEF Return, scanVars, parsVars
<1>3. prettied' \in Seq(Lexeme)
  <2>1. prettied \in Seq(Lexeme) /\ "nl" \in Lexeme
    BY DEF Inv, TypeOK, Lexeme, Blank
  <2>2. Append(prettied, "nl") \in Seq(Lexeme)
    BY <2>1, AppendProperties
  <2> QED
    BY <1>1, <2>1, <2>2
<1>4. result' \in [text : Seq(Lexeme), err : Errors \cup {NoError}]
  <2>1. TrimSpace(prettied') \in Seq(Lexeme)
    BY <1>3, TrimSpaceType
  <2> QED
    BY <1>1, <2>1
<1>5. TypeOK'
  BY <1>1, <1>2, <1>3, <1>4 DEF Inv, TypeOK
<1> QED
  BY <1>1, <1>2, <1>5
  DEF Inv, SplitInv, CutInv, ScanInv, OneInv, PrintInv, DriverInv, Driver

LEMMA StutterInv == Inv /\ UNCHANGED vars => Inv'
<1> SUFFICES ASSUME Inv, UNCHANGED vars PROVE Inv'
  OBVIOUS
<1>1. UNCHANGED <<input, pc, stmt, prettied, hasContent, next, pos, startPos, done,
                  lex, ret, allParsed, printed, result>>
  BY DEF vars
<1>2. TypeOK'
  BY <1>1 DEF Inv, TypeOK
<1> QED
  BY <1>1, <1>2 DEF Inv, SplitInv, CutInv, ScanInv, OneInv, PrintInv, DriverInv

LEMMA NextInv == Inv /\ [Next]_vars => Inv'
<1> SUFFICES ASSUME Inv, [Next]_vars PROVE Inv'
  OBVIOUS
<1>1. CASE TrimComment \/ TrimDone
  BY <1>1, TrimInv
<1>2. CASE SplitScan
  BY <1>2, SplitScanInv
<1>3. CASE ParseInit
  BY <1>3, ParseInitInv
<1>4. CASE ScanFirst
  BY <1>4, ScanFirstInv
<1>5. CASE ScanRest
  BY <1>5, ScanRestInv
<1>6. CASE Shift
  BY <1>6, ShiftInv
<1>7. CASE SetStmt
  BY <1>7, SetStmtInv
<1>8. CASE SyntaxError
  BY <1>8, SyntaxErrorInv
<1>9. CASE ActionError
  BY <1>9, ActionErrorInv
<1>10. CASE Unimplemented
  BY <1>10, UnimplementedInv
<1>11. CASE Recover
  BY <1>11, RecoverInv
<1>12. CASE Accept
  BY <1>12, AcceptInv
<1>13. CASE ParseReturn
  BY <1>13, ParseReturnInv
<1>14. CASE PrintOne
  BY <1>14, PrintOneInv
<1>15. CASE Return
  BY <1>15, ReturnInv
<1>16. CASE Stopped
  BY <1>16, StutterInv DEF Stopped
<1>17. CASE UNCHANGED vars
  BY <1>17, StutterInv
<1> QED
  BY <1>1, <1>2, <1>3, <1>4, <1>5, <1>6, <1>7, <1>8, <1>9, <1>10, <1>11, <1>12,
     <1>13, <1>14, <1>15, <1>16, <1>17 DEF Next

(* Inv is an invariant. *)
THEOREM Invariance == Spec => []Inv
<1>1. Init => Inv
  BY InitInv
<1>2. Inv /\ [Next]_vars => Inv'
  BY NextInv
<1> QED
  BY <1>1, <1>2, PTL DEF Spec

-----------------------------------------------------------------------------
(* The theorems.                                                           *)

(* Every variable keeps its type, whatever the texts and the grammar: in   *)
(* particular no text scanOneStmt cuts has a negative length and no token  *)
(* a negative position.                                                    *)
THEOREM TypeCorrect == Spec => []TypeOK
<1>1. Inv => TypeOK
  BY DEF Inv
<1> QED
  BY <1>1, Invariance, PTL

(* A call of FormatSQL parses at most one statement: what Parse is given,  *)
(* the cut of SplitFirstStatement, never holds a second one.               *)
THEOREM AtMostOneStatement == Spec => []OneStatement
<1>1. Inv => OneStatement
  BY DEF Inv, OneInv, OneStatement
<1> QED
  BY <1>1, Invariance, PTL

(* There is an error object exactly when the driver returns nonzero.       *)
THEOREM ErrorObjectExact == Spec => []ErrorObjectSet
<1>1. Inv => ErrorObjectSet
  BY DEF Inv, DriverInv, ErrorObjectSet
<1> QED
  BY <1>1, Invariance, PTL

(* The position populateErrorDetails slices the statement's text at is     *)
(* inside that text, for every error at every token.                       *)
THEOREM CaretAlwaysInText == Spec => []CaretInText
<1>1. Inv => CaretInText
  <2> SUFFICES ASSUME Inv, pc \in Driver PROVE Tok(lex.lastPos).pos \in 0..lex.inLen
    BY DEF CaretInText, Driver
  <2>1. lex \in Lexers /\ lex.lastPos \in Nat /\ lex.inLen \in Nat
    BY GrammarFacts DEF Lexers
  <2>2. Tok(lex.lastPos).pos \in Nat
    BY <2>1, TokType DEF Token
  <2>3. Tok(lex.lastPos).pos <= lex.inLen
    <3>1. \A i \in 1..Len(lex.tokens) : lex.tokens[i].pos <= lex.inLen
      BY DEF Inv, DriverInv
    <3>2. CASE lex.lastPos = 0
      BY <2>1, <3>2 DEF Tok
    <3>3. CASE lex.lastPos > Len(lex.tokens)
      BY <2>1, <3>3 DEF Tok
    <3>4. CASE lex.lastPos \in 1..Len(lex.tokens)
      BY <2>1, <3>1, <3>4 DEF Tok
    <3> QED
      BY <2>1, <3>2, <3>3, <3>4, GrammarFacts
  <2> QED
    BY <2>1, <2>2, <2>3
<1> QED
  BY <1>1, Invariance, PTL

-----------------------------------------------------------------------------
(* Counting positions.                                                     *)

(* The positions of s that hold a member of K, and their number. *)
At(s, K)    == {i \in 1..Len(s) : s[i] \in K}
Count(s, K) == Cardinality(At(s, K))

LEMMA IntervalCount ==
  ASSUME NEW n \in Nat
  PROVE  IsFiniteSet(1..n) /\ Cardinality(1..n) = n
BY FS_Interval

LEMMA FiniteRange ==
  ASSUME NEW n \in Nat, NEW S, S \subseteq 1..n
  PROVE  IsFiniteSet(S) /\ Cardinality(S) \in Nat /\ Cardinality(S) <= n
<1>1. IsFiniteSet(1..n) /\ Cardinality(1..n) = n
  BY IntervalCount
<1>2. IsFiniteSet(S) /\ Cardinality(S) <= n
  BY <1>1, FS_Subset
<1> QED
  BY <1>2, FS_CardinalityType

(* Moving a set of positions by k does not change their number. *)
LEMMA ShiftedCardinality ==
  ASSUME NEW n \in Nat, NEW S, S \subseteq 1..n, NEW k \in Nat,
         NEW T, \A i \in S : k + i \in T, \A j \in T : \E i \in S : j = k + i
  PROVE  IsFiniteSet(T) /\ Cardinality(T) = Cardinality(S)
<1> DEFINE f == [i \in S |-> k + i]
<1>1. IsFiniteSet(S)
  BY FiniteRange
<1>2. f \in [S -> T] /\ \A i \in S : f[i] = k + i
  OBVIOUS
<1>3. \A i, j \in S : f[i] = f[j] => i = j
  <2> HIDE DEF f
  <2> QED BY <1>2
<1>4. \A t \in T : \E i \in S : f[i] = t
  <2> HIDE DEF f
  <2> QED BY <1>2
<1> HIDE DEF f
<1>5. f \in Bijection(S, T)
  BY <1>2, <1>3, <1>4 DEF Bijection, Injection, IsInjective, Surjection
<1>6. ExistsBijection(S, T)
  BY <1>5 DEF ExistsBijection
<1> QED
  BY <1>1, <1>6, FS_Bijection

LEMMA CountType ==
  ASSUME NEW s \in Seq(Lexeme), NEW K
  PROVE  /\ IsFiniteSet(At(s, K)) /\ Count(s, K) \in 0..Len(s)
         /\ Count(s, K) = 0 <=> At(s, K) = {}
<1>1. At(s, K) \subseteq 1..Len(s) /\ Len(s) \in Nat
  BY DEF At
<1>2. IsFiniteSet(At(s, K)) /\ Count(s, K) \in Nat /\ Count(s, K) <= Len(s)
  BY <1>1, FiniteRange DEF Count
<1> QED
  BY <1>1, <1>2, FS_EmptySet DEF Count

LEMMA CountAll ==
  ASSUME NEW s \in Seq(Lexeme), NEW K, \A i \in 1..Len(s) : s[i] \in K
  PROVE  Count(s, K) = Len(s)
<1>1. At(s, K) = 1..Len(s) /\ Len(s) \in Nat
  BY DEF At
<1>2. Cardinality(1..Len(s)) = Len(s)
  BY <1>1, IntervalCount
<1> QED
  BY <1>1, <1>2 DEF Count

LEMMA CountNone ==
  ASSUME NEW s \in Seq(Lexeme), NEW K, \A i \in 1..Len(s) : s[i] \notin K
  PROVE  Count(s, K) = 0
<1>1. At(s, K) = {}
  BY DEF At
<1> QED
  BY <1>1, CountType

LEMMA CountConcat ==
  ASSUME NEW s \in Seq(Lexeme), NEW t \in Seq(Lexeme), NEW K
  PROVE  Count(s \o t, K) = Count(s, K) + Count(t, K)
<1> DEFINE moved == {Len(s) + i : i \in At(t, K)}
<1>1. Len(s) \in Nat /\ Len(t) \in Nat /\ At(t, K) \subseteq 1..Len(t)
  BY DEF At
<1>2. IsFiniteSet(moved) /\ Cardinality(moved) = Count(t, K)
  <2>1. /\ \A i \in At(t, K) : Len(s) + i \in moved
        /\ \A j \in moved : \E i \in At(t, K) : j = Len(s) + i
    OBVIOUS
  <2> HIDE DEF moved
  <2> QED
    BY <1>1, <2>1, ShiftedCardinality DEF Count
<1>3. /\ s \o t \in Seq(Lexeme) /\ Len(s \o t) = Len(s) + Len(t)
      /\ \A i \in 1..Len(s) : (s \o t)[i] = s[i]
      /\ \A i \in 1..Len(t) : (s \o t)[Len(s) + i] = t[i]
  BY ConcatProperties
<1> DEFINE u == s \o t
<1> HIDE DEF u
<1>4. At(u, K) = At(s, K) \cup moved
  <2>1. ASSUME NEW i \in At(u, K) PROVE i \in At(s, K) \cup moved
    <3>1. CASE i <= Len(s)
      BY <1>1, <1>3, <2>1, <3>1 DEF At, u
    <3>2. CASE i > Len(s)
      <4>1. i - Len(s) \in 1..Len(t) /\ i = Len(s) + (i - Len(s))
        BY <1>1, <1>3, <2>1, <3>2 DEF At, u
      <4>2. i - Len(s) \in At(t, K)
        BY <1>3, <2>1, <4>1 DEF At, u
      <4> QED
        BY <4>1, <4>2
    <3> QED
      BY <1>1, <2>1, <3>1, <3>2 DEF At
  <2>2. ASSUME NEW i \in At(s, K) PROVE i \in At(u, K)
    BY <1>1, <1>3, <2>2 DEF At, u
  <2>3. ASSUME NEW i \in At(t, K) PROVE Len(s) + i \in At(u, K)
    BY <1>1, <1>3, <2>3 DEF At, u
  <2> QED
    BY <2>1, <2>2, <2>3
<1>5. Cardinality(At(s, K) \cap moved) = 0
  <2>1. At(s, K) \cap moved = {}
    BY <1>1 DEF At
  <2> HIDE DEF moved
  <2> QED
    BY <2>1, FS_EmptySet
<1>6. IsFiniteSet(At(s, K)) /\ Count(s, K) \in Nat /\ Count(t, K) \in Nat
  BY CountType
<1> HIDE DEF moved
<1>8. Cardinality(At(s, K) \cup moved) = Count(s, K) + Cardinality(moved) - Cardinality(At(s, K) \cap moved)
  BY <1>2, <1>6, FS_Union DEF Count
<1>9. Count(u, K) = Cardinality(At(s, K) \cup moved)
  BY <1>4 DEF Count
<1>10. Count(u, K) = Count(s, K) + Count(t, K)
  BY <1>2, <1>5, <1>6, <1>8, <1>9
<1> QED
  BY <1>10 DEF u

(* TrimSpace takes blanks off both ends and nothing else: t is what stands *)
(* in s after its first k lexemes, up to blanks.                           *)
Trimmed(s, t, k) ==
    /\ k + Len(t) <= Len(s)
    /\ \A i \in 1..Len(t) : t[i] = s[k + i]
    /\ \A i \in 1..k : s[i] \in Blank
    /\ \A i \in (k + Len(t) + 1)..Len(s) : s[i] \in Blank
    /\ t # <<>> => t[1] \notin Blank /\ t[Len(t)] \notin Blank

LEMMA TrimSpaceSpec ==
  ASSUME NEW s \in Seq(Lexeme)
  PROVE  \E k \in 0..Len(s) : Trimmed(s, TrimSpace(s), k)
<1> DEFINE p == FirstNot(s, 1, Blank)
           q == LastInk(s)
           t == TrimSpace(s)
<1>1. /\ p \in 1..(Len(s) + 1)
      /\ p <= Len(s) => s[p] \notin Blank
      /\ \A r \in 1..(p - 1) : s[r] \in Blank
  BY FirstNotSpec
<1>2. /\ q \in 0..Len(s)
      /\ q > 0 => s[q] \notin Blank
      /\ \A r \in (q + 1)..Len(s) : s[r] \in Blank
  BY LastInkSpec
<1>3. t = SubSeq(s, p, q)
  BY DEF TrimSpace
<1>4. p - 1 \in 0..Len(s)
  BY <1>1
<1> HIDE DEF p, q
<1>5. /\ Len(t) = IF p <= q THEN q - p + 1 ELSE 0
      /\ \A i \in 1..Len(t) : t[i] = s[p + i - 1]
  BY <1>1, <1>2, <1>3, SubSeqProperties
<1>6. t \in Seq(Lexeme)
  BY TrimSpaceType
<1> HIDE DEF t
<1>7. CASE p <= q
  <2>1. Len(t) = q - p + 1 /\ Len(t) > 0
    BY <1>1, <1>2, <1>5, <1>7
  <2>2. \A i \in 1..Len(t) : t[i] = s[(p - 1) + i]
    BY <1>1, <1>5, <2>1
  <2>3. t[1] \notin Blank /\ t[Len(t)] \notin Blank
    <3>1. t[1] = s[p] /\ t[Len(t)] = s[q]
      BY <1>1, <1>2, <2>1, <2>2
    <3> QED
      BY <1>1, <1>2, <1>7, <3>1
  <2>4. (p - 1) + Len(t) = q
    BY <1>1, <1>2, <2>1
  <2>5. Trimmed(s, t, p - 1)
    BY <1>1, <1>2, <1>4, <2>2, <2>3, <2>4 DEF Trimmed
  <2> QED
    BY <1>4, <2>5 DEF t
<1>8. CASE p > q
  <2>1. Len(t) = 0 /\ t = <<>>
    BY <1>1, <1>2, <1>5, <1>6, <1>8, EmptySeq
  <2>2. \A r \in 1..Len(s) : s[r] \in Blank
    BY <1>1, <1>2, <1>8
  <2>3. Trimmed(s, t, p - 1)
    BY <1>1, <1>4, <2>1, <2>2 DEF Trimmed
  <2> QED
    BY <1>4, <2>3 DEF t
<1> QED
  BY <1>1, <1>2, <1>7, <1>8

(* Trimming keeps the number of what is not blank. *)
LEMMA CountTrim ==
  ASSUME NEW s \in Seq(Lexeme), NEW K, K \cap Blank = {}
  PROVE  Count(TrimSpace(s), K) = Count(s, K)
<1> DEFINE t == TrimSpace(s)
<1>1. t \in Seq(Lexeme) /\ Len(t) \in Nat /\ At(t, K) \subseteq 1..Len(t)
  BY TrimSpaceType DEF At
<1> HIDE DEF t
<1>2. PICK k \in 0..Len(s) :
         /\ k + Len(t) <= Len(s)
         /\ \A i \in 1..Len(t) : t[i] = s[k + i]
         /\ \A i \in 1..k : s[i] \in Blank
         /\ \A i \in (k + Len(t) + 1)..Len(s) : s[i] \in Blank
  BY TrimSpaceSpec DEF t, Trimmed
<1>3. /\ \A i \in At(t, K) : k + i \in At(s, K)
      /\ \A j \in At(s, K) : \E i \in At(t, K) : j = k + i
  <2>1. ASSUME NEW j \in At(s, K) PROVE j - k \in At(t, K) /\ j = k + (j - k)
    BY <1>1, <1>2, <2>1 DEF At
  <2>2. ASSUME NEW i \in At(t, K) PROVE k + i \in At(s, K)
    BY <1>1, <1>2, <2>2 DEF At
  <2> QED
    BY <2>1, <2>2
<1>4. k \in Nat
  BY <1>2
<1>5. Cardinality(At(s, K)) = Cardinality(At(t, K))
  BY <1>1, <1>3, <1>4, ShiftedCardinality
<1> QED
  BY <1>5 DEF Count, t

-----------------------------------------------------------------------------
(* The first statement of a text.                                          *)

Lead  == Blank \cup {"lcom"}        \* what the comment loop takes off
Words == {"word", "help"}           \* what makes a token of a statement

(* t stands in s after k lexemes of the head, and blanks follow it. *)
Placed(s, t, k) ==
    /\ k + Len(t) <= Len(s)
    /\ \A i \in 1..Len(t) : t[i] = s[k + i]
    /\ \A i \in 1..k : s[i] \in Lead
    /\ \A i \in (k + Len(t) + 1)..Len(s) : s[i] \in Blank

LEMMA LeadFacts ==
  /\ Blank \subseteq Lead /\ "lcom" \in Lead /\ "semi" \notin Lead /\ "nul" \notin Lead
  /\ Words \cap Lead = {} /\ Refused \cap Lead = {}
  /\ "semi" \notin Words /\ "semi" \notin Refused
BY DEF Lead, Blank, Words, Refused

(* A text has the words and errors of the first statement it had without   *)
(* its head and its last blanks.                                           *)
LEMMA FirstOfPlaced ==
  ASSUME NEW s \in Seq(Lexeme), NEW t \in Seq(Lexeme), NEW k \in 0..Len(s),
         Placed(s, t, k), NEW K, K \cap Lead = {}
  PROVE  /\ Cardinality(FirstOf(t, K)) = Cardinality(FirstOf(s, K))
         /\ FirstOf(t, K) = {} <=> FirstOf(s, K) = {}
<1>1. \A i \in FirstOf(t, K) : k + i \in FirstOf(s, K)
  <2> SUFFICES ASSUME NEW i \in FirstOf(t, K) PROVE k + i \in FirstOf(s, K)
    OBVIOUS
  <2>1. i \in 1..Len(t) /\ t[i] \in K /\ \A j \in 1..(i - 1) : t[j] \notin {"semi", "nul"}
    BY DEF FirstOf, InFirst
  <2>2. k + i \in 1..Len(s) /\ s[k + i] \in K
    BY <2>1 DEF Placed
  <2>3. ASSUME NEW j \in 1..(k + i - 1) PROVE s[j] \notin {"semi", "nul"}
    <3>1. CASE j <= k
      BY <2>3, <3>1, LeadFacts DEF Placed
    <3>2. CASE j > k
      <4>1. j - k \in 1..(i - 1) /\ j - k \in 1..Len(t) /\ k + (j - k) = j
        BY <2>1, <2>3, <3>2
      <4>2. t[j - k] = s[k + (j - k)]
        BY <4>1 DEF Placed
      <4>3. t[j - k] \notin {"semi", "nul"}
        BY <2>1, <4>1
      <4> QED
        BY <4>1, <4>2, <4>3
    <3> QED
      BY <2>1, <2>3, <3>1, <3>2
  <2> QED
    BY <2>2, <2>3 DEF FirstOf, InFirst
<1>2. \A j \in FirstOf(s, K) : \E i \in FirstOf(t, K) : j = k + i
  <2> SUFFICES ASSUME NEW j \in FirstOf(s, K) PROVE \E i \in FirstOf(t, K) : j = k + i
    OBVIOUS
  <2>1. j \in 1..Len(s) /\ s[j] \in K /\ \A i \in 1..(j - 1) : s[i] \notin {"semi", "nul"}
    BY DEF FirstOf, InFirst
  <2>2. s[j] \notin Lead
    BY <2>1
  <2>3. j > k /\ j <= k + Len(t)
    BY <2>1, <2>2, LeadFacts DEF Placed
  <2>4. j - k \in 1..Len(t) /\ j = k + (j - k) /\ t[j - k] = s[j]
    BY <2>1, <2>3 DEF Placed
  <2>5. ASSUME NEW i \in 1..(j - k - 1) PROVE t[i] \notin {"semi", "nul"}
    <3>1. i \in 1..Len(t) /\ k + i \in 1..(j - 1)
      BY <2>1, <2>4, <2>5
    <3> QED
      BY <2>1, <3>1 DEF Placed
  <2>6. j - k \in FirstOf(t, K)
    BY <2>1, <2>4, <2>5 DEF FirstOf, InFirst
  <2> QED
    BY <2>4, <2>6
<1>3. FirstOf(t, K) \subseteq 1..Len(t) /\ Len(t) \in Nat /\ k \in Nat
  BY DEF FirstOf
<1>4. Cardinality(FirstOf(s, K)) = Cardinality(FirstOf(t, K))
  BY <1>1, <1>2, <1>3, ShiftedCardinality
<1>5. FirstOf(t, K) = {} <=> FirstOf(s, K) = {}
  BY <1>1, <1>2
<1> QED
  BY <1>4, <1>5

(* Cutting a text after its first semicolon leaves its first statement. *)
LEMMA FirstOfCut ==
  ASSUME NEW s \in Seq(Lexeme), NEW t \in Seq(Lexeme), NEW q \in 1..Len(s),
         s[q] = "semi", Len(t) = q, \A i \in 1..q : t[i] = s[i],
         NEW K, "semi" \notin K
  PROVE  FirstOf(t, K) = FirstOf(s, K)
<1>1. ASSUME NEW i \in FirstOf(s, K) PROVE i \in FirstOf(t, K)
  <2>1. i \in 1..Len(s) /\ s[i] \in K /\ \A j \in 1..(i - 1) : s[j] \notin {"semi", "nul"}
    BY <1>1 DEF FirstOf, InFirst
  <2>2. i < q
    BY <2>1
  <2> QED
    BY <2>1, <2>2 DEF FirstOf, InFirst
<1>2. ASSUME NEW i \in FirstOf(t, K) PROVE i \in FirstOf(s, K)
  <2>1. i \in 1..Len(t) /\ t[i] \in K /\ \A j \in 1..(i - 1) : t[j] \notin {"semi", "nul"}
    BY <1>2 DEF FirstOf, InFirst
  <2> QED
    BY <2>1 DEF FirstOf, InFirst
<1> QED
  BY <1>1, <1>2

(* Where a scan has met the end of a statement at q, the first statement   *)
(* lies before q.                                                          *)
LEMMA FirstOfBefore ==
  ASSUME NEW s \in Seq(Lexeme), NEW q \in 1..(Len(s) + 1),
         \A i \in 1..(q - 1) : s[i] \notin {"semi", "nul"},
         q <= Len(s) => s[q] \in {"semi", "nul"},
         NEW K, K \cap {"semi", "nul"} = {}
  PROVE  /\ FirstOf(s, K) = {i \in 1..(q - 1) : s[i] \in K}
         /\ \A i : i \in FirstOf(s, K) <=> i \in 1..(q - 1) /\ s[i] \in K
<1>1. ASSUME NEW i \in FirstOf(s, K) PROVE i \in 1..(q - 1) /\ s[i] \in K
  <2>1. i \in 1..Len(s) /\ s[i] \in K /\ \A j \in 1..(i - 1) : s[j] \notin {"semi", "nul"}
    BY <1>1 DEF FirstOf, InFirst
  <2> QED
    BY <2>1
<1>2. ASSUME NEW i \in 1..(q - 1), s[i] \in K PROVE i \in FirstOf(s, K)
  BY <1>2 DEF FirstOf, InFirst
<1> QED
  BY <1>1, <1>2

(* Scan stops at something that is neither blank nor a comment. *)
LEMMA ScanStops ==
  ASSUME NEW s \in Seq(Lexeme), NEW p \in 1..(Len(s) + 1), Scan(s, p).pos <= Len(s)
  PROVE  s[Scan(s, p).pos] \in Lexeme \ (Blank \cup Comment)
<1> DEFINE q == FirstNot(s, p, Blank \cup Comment)
<1>1. /\ q \in p..(Len(s) + 1)
      /\ q <= Len(s) => s[q] \notin Blank \cup Comment
  BY FirstNotSpec
<1>2. Scan(s, p).pos = q
  BY DEF Scan
<1> HIDE DEF q
<1> QED
  BY <1>1, <1>2

(* The number of words before a position the scan moves from p to n, when  *)
(* it takes the lexeme at q.                                               *)
WordsBefore(s, p) == {i \in 1..(p - 1) : s[i] \in Words}

LEMMA WordsPassed ==
  ASSUME NEW s \in Seq(Lexeme), NEW p \in 1..(Len(s) + 1), NEW id, NEW q, NEW n,
         Scanned(s, p, id, q, n)
  PROVE  /\ WordsBefore(s, q) = WordsBefore(s, p)
         /\ Cardinality(WordsBefore(s, p)) \in Nat
         /\ q <= Len(s) /\ s[q] \in Words =>
               Cardinality(WordsBefore(s, n)) = Cardinality(WordsBefore(s, p)) + 1
<1>1. /\ q \in p..(Len(s) + 1) /\ \A i \in p..(q - 1) : s[i] \in Blank \cup Comment
      /\ q <= Len(s) => n = q + 1
  BY DEF Scanned
<1>2. \A i \in p..(q - 1) : s[i] \notin Words
  BY <1>1 DEF Blank, Comment, Words
<1>3. WordsBefore(s, q) = WordsBefore(s, p)
  BY <1>1, <1>2 DEF WordsBefore
<1>4. IsFiniteSet(WordsBefore(s, p)) /\ Cardinality(WordsBefore(s, p)) \in Nat
  <2>1. p - 1 \in Nat /\ WordsBefore(s, p) \subseteq 1..(p - 1)
    BY DEF WordsBefore
  <2> QED
    BY <2>1, FiniteRange
<1>5. ASSUME q <= Len(s), s[q] \in Words
      PROVE  Cardinality(WordsBefore(s, n)) = Cardinality(WordsBefore(s, p)) + 1
  <2>1. WordsBefore(s, n) = WordsBefore(s, q) \cup {q} /\ q \notin WordsBefore(s, q)
    BY <1>1, <1>5 DEF WordsBefore
  <2> QED
    BY <1>3, <1>4, <2>1, FS_AddElement, ZenonT(40)
<1> QED
  BY <1>3, <1>4, <1>5

-----------------------------------------------------------------------------
(* What the call has taken of the first statement: the inductive invariant *)
(* for FirstStatementPrinted and LexicalErrorReported, with Inv.           *)

Early == {"trim", "split", "parse", "scanFirst", "scanRest"} \cup Driver

(* What is left of the text is its end, up to blanks. *)
RestInv ==
    pc \in {"trim", "split"} => \E k \in 0..Len(input) : Placed(input, stmt, k)

(* The cut has the first statement of the text. *)
SameFirst(s) ==
    /\ Cardinality(FirstOf(s, Words)) = Cardinality(FirstOf(input, Words))
    /\ FirstOf(s, Refused) = {} <=> FirstOf(input, Refused) = {}

CutFirst ==
    pc \in {"parse", "scanFirst", "scanRest", "print"} \cup Driver => SameFirst(next)

(* The words of the statements parsed so far (there is at most one) are    *)
(* those of the cut, and the scanner refused none of its lexemes.          *)
Total == IF allParsed = <<>> THEN 0 ELSE Len(allParsed[1])

AllTaken == /\ Total = Cardinality(FirstOf(next, Words))
            /\ FirstOf(next, Refused) = {}

(* scanOneStmt has a token for every word it has passed over. *)
ScanTokens ==
    /\ pc = "scanFirst" /\ allParsed = <<>> => \A i \in 1..(pos - 1) : next[i] \notin Words
    /\ pc = "scanRest" =>
         \/ lex.tokens[Len(lex.tokens)].id = "ERROR"
         \/ /\ \A i \in 1..(pos - 1) : next[i] \notin Ends \cup {"semi"}
            /\ Len(lex.tokens) = Cardinality(WordsBefore(next, pos))
    /\ pc \in {"scanRest"} \cup Driver =>
         \A i \in 1..Len(lex.tokens) : lex.tokens[i].id # "EOF"

(* The tokens of the statement are an error's or those of the whole first  *)
(* statement; the statement after it is empty.                             *)
TokensTaken ==
    /\ pc \in Driver /\ allParsed = <<>> =>
         \/ \E i \in 1..Len(lex.tokens) : lex.tokens[i].id = "ERROR"
         \/ /\ Len(lex.tokens) = Cardinality(FirstOf(next, Words))
            /\ FirstOf(next, Refused) = {}
    /\ pc \in Driver /\ lex.tokens = <<>> => done
    /\ pc \in {"scanFirst", "scanRest"} \cup Driver /\ allParsed # <<>> => AllTaken
    /\ pc = "print" => AllTaken

(* What the driver has shifted is words, and it accepts only all tokens. *)
DriverTokens ==
    /\ pc = "grammar" =>
         /\ \A i \in 1..lex.lastPos : lex.tokens[i].id = "WORD"
         /\ lex.stmt # NoStmt => lex.stmt = SubSeq(lex.tokens, 1, lex.lastPos)
    /\ pc = "parseReturn" /\ ret = 0 =>
         /\ lex.stmt = lex.tokens
         /\ \A i \in 1..Len(lex.tokens) : lex.tokens[i].id = "WORD"

(* The output has the words of the statements printed. *)
OutputWords ==
    /\ pc \in Early => printed = 0 /\ Count(prettied, {"word"}) = 0
    /\ pc = "print" => Count(prettied, {"word"}) = IF printed = 0 THEN 0 ELSE Total

ResultInv ==
    Succeeded => /\ Count(result.text, {"word"}) = Cardinality(FirstOf(input, Words))
                 /\ FirstOf(input, Refused) = {}

FirstInv == /\ RestInv /\ CutFirst /\ ScanTokens /\ TokensTaken
            /\ DriverTokens /\ OutputWords /\ ResultInv

LEMMA InputType == Inv => input \in Seq(Lexeme)
BY InputsAssumption DEF Inv, TypeOK

LEMMA SuffixSpec ==
  ASSUME NEW s \in Seq(Lexeme), NEW p \in 1..(Len(s) + 1)
  PROVE  LET t == SubSeq(s, p, Len(s))
         IN  /\ t \in Seq(Lexeme) /\ Len(t) = Len(s) + 1 - p
             /\ \A i \in 1..Len(t) : t[i] = s[p - 1 + i]
<1>1. Len(s) \in Nat /\ p \in Nat
  OBVIOUS
<1> DEFINE t == SubSeq(s, p, Len(s))
<1>2. /\ t \in Seq(Lexeme) /\ Len(t) = (IF p <= Len(s) THEN Len(s) - p + 1 ELSE 0)
      /\ \A i \in 1..Len(t) : t[i] = s[p + i - 1]
  BY <1>1, SubSeqProperties
<1> HIDE DEF t
<1>3. t \in Seq(Lexeme) /\ Len(t) = Len(s) + 1 - p /\ \A i \in 1..Len(t) : t[i] = s[p - 1 + i]
  BY <1>1, <1>2
<1> QED
  BY <1>3 DEF t

LEMMA InitFirst == Init => FirstInv
<1> SUFFICES ASSUME Init PROVE FirstInv
  OBVIOUS
<1>1. pc = "trim" /\ stmt = TrimSpace(input) /\ input \in Seq(Lexeme)
      /\ prettied = <<>> /\ printed = 0
  BY InputsAssumption DEF Init
<1>2. PICK k \in 0..Len(input) : Trimmed(input, stmt, k)
  BY <1>1, TrimSpaceSpec
<1>3. Placed(input, stmt, k)
  BY <1>2, LeadFacts DEF Trimmed, Placed
<1>4. RestInv
  BY <1>3 DEF RestInv
<1>5. Count(prettied, {"word"}) = 0
  <2>1. prettied \in Seq(Lexeme) /\ Len(prettied) = 0
    BY <1>1, EmptySeq
  <2>2. \A i \in 1..Len(prettied) : prettied[i] \notin {"word"}
    BY <2>1
  <2> QED
    BY <2>1, <2>2, CountNone
<1> QED
  BY <1>1, <1>4, <1>5
  DEF FirstInv, CutFirst, ScanTokens, TokensTaken, DriverTokens, OutputWords,
      ResultInv, Succeeded, Driver

(* What the comment loop adds to the output. *)
LEMMA KeptForms ==
  ASSUME NEW s
  PROVE  /\ Kept(s) \in {<<"lcom">>, <<"lcom", "nl">>, <<"lcom", "nl", "nl">>}
         /\ Kept(s) \in Seq(Lexeme)
<1>1. KeptNewlines(s) \in {<<>>, <<"nl">>, <<"nl", "nl">>}
  BY DEF KeptNewlines
<1>2. \A u, v \in Seq(Lexeme) :
         /\ u \o v \in Seq(Lexeme) /\ Len(u \o v) = Len(u) + Len(v)
         /\ \A i \in 1..Len(u) : (u \o v)[i] = u[i]
         /\ \A i \in 1..Len(v) : (u \o v)[Len(u) + i] = v[i]
  BY ConcatProperties
<1>4. /\ <<>> \in Seq(Lexeme) /\ <<"lcom">> \in Seq(Lexeme)
      /\ <<"nl">> \in Seq(Lexeme) /\ <<"nl", "nl">> \in Seq(Lexeme)
      /\ <<"lcom", "nl">> \in Seq(Lexeme) /\ <<"lcom", "nl", "nl">> \in Seq(Lexeme)
  <2>1. "lcom" \in Lexeme /\ "nl" \in Lexeme
    BY DEF Lexeme, Blank, Comment
  <2> QED
    BY <2>1
<1>5. <<"lcom">> \o <<>> = <<"lcom">>
  BY <1>4, ConcatEmptySeq
<1>6. <<"lcom">> \o <<"nl">> = <<"lcom", "nl">>
  <2> DEFINE w == <<"lcom">> \o <<"nl">>
  <2>1. w \in Seq(Lexeme) /\ Len(w) = 2 /\ w[1] = "lcom" /\ w[2] = "nl"
    <3>1. /\ Len(<<"lcom">>) = 1 /\ Len(<<"nl">>) = 1
          /\ <<"lcom">>[1] = "lcom" /\ <<"nl">>[1] = "nl" /\ 1 + 1 = 2
      OBVIOUS
    <3> QED
      BY <1>2, <1>4, <3>1
  <2> HIDE DEF w
  <2>2. Len(<<"lcom", "nl">>) = 2 /\ \A i \in 1..2 : w[i] = <<"lcom", "nl">>[i]
    BY <2>1
  <2>3. w = <<"lcom", "nl">>
    BY <1>4, <2>1, <2>2, SeqEqual
  <2> QED
    BY <2>3 DEF w
<1>7. <<"lcom">> \o <<"nl", "nl">> = <<"lcom", "nl", "nl">>
  <2> DEFINE w == <<"lcom">> \o <<"nl", "nl">>
  <2>1. w \in Seq(Lexeme) /\ Len(w) = 3 /\ w[1] = "lcom" /\ w[2] = "nl" /\ w[3] = "nl"
    <3>1. /\ Len(<<"lcom">>) = 1 /\ Len(<<"nl", "nl">>) = 2 /\ <<"lcom">>[1] = "lcom"
          /\ <<"nl", "nl">>[1] = "nl" /\ <<"nl", "nl">>[2] = "nl"
          /\ 1 + 1 = 2 /\ 1 + 2 = 3
      OBVIOUS
    <3> QED
      BY <1>2, <1>4, <3>1
  <2> HIDE DEF w
  <2>2. Len(<<"lcom", "nl", "nl">>) = 3 /\ \A i \in 1..3 : w[i] = <<"lcom", "nl", "nl">>[i]
    BY <2>1
  <2>3. w = <<"lcom", "nl", "nl">>
    BY <1>4, <2>1, <2>2, SeqEqual
  <2> QED
    BY <2>3 DEF w
<1>3. Kept(s) \in {<<"lcom">>, <<"lcom", "nl">>, <<"lcom", "nl", "nl">>}
  BY <1>1, <1>5, <1>6, <1>7, Zenon DEF Kept
<1> QED
  BY <1>3, KeptType

LEMMA TrimCommentFirst == Inv /\ FirstInv /\ TrimComment => FirstInv'
<1> SUFFICES ASSUME Inv, FirstInv, TrimComment PROVE FirstInv'
  OBVIOUS
<1>1. /\ pc = "trim" /\ pc' = "trim" /\ HasLeadingComment(stmt)
      /\ prettied' = prettied \o Kept(stmt)
      /\ stmt' = SubSeq(stmt, AfterFound(stmt), Len(stmt))
      /\ UNCHANGED <<input, printed>>
  BY DEF TrimComment
<1>2. input \in Seq(Lexeme) /\ stmt \in Seq(Lexeme) /\ prettied \in Seq(Lexeme)
  BY InputType DEF Inv, TypeOK
<1> DEFINE a == AfterFound(stmt)
<1>3. a \in 2..(Len(stmt) + 1) /\ \A i \in 2..(a - 1) : stmt[i] \in Blank
  <2>1. a \in 2..(Len(stmt) + 1)
    BY <1>1, <1>2, AfterFoundRange
  <2>2. Len(stmt) \in Nat
    BY <1>2
  <2>3. 2 \in 1..(Len(stmt) + 1)
    BY <2>1, <2>2
  <2>4. \A i \in 2..(a - 1) : stmt[i] \in Blank
    BY <1>2, <2>3, FirstNotSpec DEF AfterFound
  <2> QED
    BY <2>1, <2>4
<1> HIDE DEF a
<1>4. PICK k \in 0..Len(input) : Placed(input, stmt, k)
  BY <1>1 DEF FirstInv, RestInv
<1>5. stmt' = SubSeq(stmt, a, Len(stmt))
  BY <1>1 DEF a
<1>6. /\ Len(stmt') = Len(stmt) + 1 - a
      /\ \A i \in 1..Len(stmt') : stmt'[i] = stmt[a - 1 + i]
  <2>1. a \in 1..(Len(stmt) + 1)
    BY <1>3
  <2> QED
    BY <1>2, <1>5, <2>1, SuffixSpec
<1>7. Placed(input, stmt', k + a - 1)
  <2>1. (k + a - 1) + Len(stmt') = k + Len(stmt) /\ k + Len(stmt) <= Len(input)
    BY <1>2, <1>3, <1>4, <1>6 DEF Placed
  <2>2. ASSUME NEW i \in 1..Len(stmt') PROVE stmt'[i] = input[(k + a - 1) + i]
    <3>1. a - 1 + i \in 1..Len(stmt) /\ k + (a - 1 + i) = (k + a - 1) + i
      BY <1>2, <1>3, <1>6, <2>2
    <3> QED
      BY <1>4, <1>6, <2>2, <3>1 DEF Placed
  <2>3. ASSUME NEW i \in 1..(k + a - 1) PROVE input[i] \in Lead
    <3>1. CASE i <= k
      BY <1>4, <2>3, <3>1 DEF Placed
    <3>2. CASE i > k
      <4>1. i - k \in 1..(a - 1) /\ i - k \in 1..Len(stmt) /\ k + (i - k) = i
        BY <1>2, <1>3, <2>3, <3>2
      <4>2. stmt[i - k] \in Lead
        <5>1. CASE i - k = 1
          BY <1>1, <5>1, LeadFacts DEF HasLeadingComment
        <5>2. CASE i - k # 1
          BY <1>3, <4>1, <5>2, LeadFacts
        <5> QED
          BY <5>1, <5>2
      <4>3. stmt[i - k] = input[k + (i - k)]
        BY <1>4, <4>1 DEF Placed
      <4> QED
        BY <4>1, <4>2, <4>3
    <3> QED
      BY <2>3, <3>1, <3>2
  <2>4. \A i \in ((k + a - 1) + Len(stmt') + 1)..Len(input) : input[i] \in Blank
    BY <1>4, <2>1 DEF Placed
  <2> QED
    BY <2>1, <2>2, <2>3, <2>4 DEF Placed
<1>8. RestInv'
  <2>1. k + a - 1 \in 0..Len(input)
    BY <1>2, <1>3, <1>4 DEF Placed
  <2> QED
    BY <1>1, <1>7, <2>1 DEF RestInv
<1>9. OutputWords'
  <2>1. Kept(stmt) \in Seq(Lexeme) /\ Count(Kept(stmt), {"word"}) = 0
    <3>1. Kept(stmt) \in Seq(Lexeme)
      BY KeptForms
    <3>2. \A i \in 1..Len(Kept(stmt)) : Kept(stmt)[i] \notin {"word"}
      BY KeptForms
    <3> QED
      BY <3>1, <3>2, CountNone
  <2>2. Count(prettied, {"word"}) = 0 /\ printed = 0
    BY <1>1 DEF FirstInv, OutputWords, Early
  <2>3. Count(prettied', {"word"}) = 0
    BY <1>1, <1>2, <2>1, <2>2, CountConcat
  <2> QED
    BY <1>1, <2>2, <2>3 DEF OutputWords
<1> QED
  BY <1>1, <1>8, <1>9
  DEF FirstInv, CutFirst, ScanTokens, TokensTaken, DriverTokens, ResultInv, Succeeded, Driver

LEMMA TrimDoneFirst == Inv /\ FirstInv /\ TrimDone => FirstInv'
<1> SUFFICES ASSUME Inv, FirstInv, TrimDone PROVE FirstInv'
  OBVIOUS
<1>1. /\ pc = "trim" /\ pc' = "split"
      /\ UNCHANGED <<input, stmt, prettied, printed>>
  BY DEF TrimDone, fmtVars
<1>2. RestInv'
  BY <1>1 DEF FirstInv, RestInv
<1>3. OutputWords'
  BY <1>1 DEF FirstInv, OutputWords, Early
<1> QED
  BY <1>1, <1>2, <1>3
  DEF FirstInv, CutFirst, ScanTokens, TokensTaken, DriverTokens, ResultInv, Succeeded, Driver

LEMMA SplitScanFirst == Inv /\ FirstInv /\ SplitScan => FirstInv'
<1> SUFFICES ASSUME Inv, FirstInv, SplitScan PROVE FirstInv'
  OBVIOUS
<1> DEFINE id == Scan(stmt, pos).id
           q  == Scan(stmt, pos).pos
           n  == Scan(stmt, pos).next
<1>1. /\ pc = "split"
      /\ stmt \in Seq(Lexeme) /\ pos \in 1..(Len(stmt) + 1) /\ input \in Seq(Lexeme)
      /\ UNCHANGED <<input, prettied, printed>>
  <2>1. pc = "split"
    BY DEF SplitScan
  <2> QED
    BY <2>1, InputType DEF Inv, TypeOK, SplitInv, SplitScan, parsVars
<1>2. Scanned(stmt, pos, id, q, n)
  BY <1>1, ScanSpec
<1>3. /\ id \in {"EOF", "ERROR"} => next' = stmt /\ pc' = "parse"
      /\ id = "SEMI" => next' = SubSeq(stmt, 1, n - 1) /\ pc' = "parse"
      /\ id \notin {"EOF", "ERROR", "SEMI"} => stmt' = stmt /\ pc' = "split"
  BY <1>1 DEF SplitScan
<1> HIDE DEF id, q, n
<1>4. PICK k \in 0..Len(input) : Placed(input, stmt, k)
  BY <1>1 DEF FirstInv, RestInv
<1>5. SameFirst(stmt)
  BY <1>1, <1>4, FirstOfPlaced, LeadFacts DEF SameFirst
<1>6. pc' = "parse" => SameFirst(next')
  <2>1. CASE id \in {"EOF", "ERROR"}
    BY <1>3, <1>5, <2>1
  <2>2. CASE id = "SEMI"
    <3>1. q \in 1..Len(stmt) /\ n - 1 = q /\ stmt[q] = "semi"
      BY <1>1, <1>2, <2>2 DEF Scanned
    <3>2. next' = SubSeq(stmt, 1, q)
      BY <1>3, <2>2, <3>1
    <3>3. /\ next' \in Seq(Lexeme) /\ Len(next') = q
          /\ \A i \in 1..q : next'[i] = stmt[i]
      BY <1>1, <3>1, <3>2, SubSeqProperties
    <3>4. /\ FirstOf(next', Words) = FirstOf(stmt, Words)
          /\ FirstOf(next', Refused) = FirstOf(stmt, Refused)
      BY <1>1, <3>1, <3>3, FirstOfCut, LeadFacts
    <3> QED
      BY <1>5, <3>4 DEF SameFirst
  <2>3. CASE id \notin {"EOF", "ERROR", "SEMI"}
    BY <1>3, <2>3
  <2> QED
    BY <2>1, <2>2, <2>3
<1>7. pc' \in {"parse", "split"}
  BY <1>3
<1>8. RestInv'
  BY <1>1, <1>3, <1>4, <1>7 DEF RestInv
<1>9. CutFirst'
  BY <1>1, <1>6, <1>7 DEF CutFirst, SameFirst, Driver
<1>10. OutputWords'
  BY <1>1, <1>7 DEF FirstInv, OutputWords, Early
<1> QED
  BY <1>7, <1>8, <1>9, <1>10
  DEF FirstInv, ScanTokens, TokensTaken, DriverTokens, ResultInv, Succeeded, Driver

LEMMA ParseInitFirst == Inv /\ FirstInv /\ ParseInit => FirstInv'
<1> SUFFICES ASSUME Inv, FirstInv, ParseInit PROVE FirstInv'
  OBVIOUS
<1>1. /\ pc = "parse" /\ pc' = "scanFirst" /\ pos' = 1 /\ allParsed' = <<>>
      /\ UNCHANGED <<input, prettied, next, printed>>
  BY DEF ParseInit, fmtVars
<1>2. CutFirst'
  BY <1>1 DEF FirstInv, CutFirst, SameFirst
<1>3. OutputWords'
  BY <1>1 DEF FirstInv, OutputWords, Early
<1>4. ScanTokens'
  BY <1>1 DEF ScanTokens, Driver
<1> QED
  BY <1>1, <1>2, <1>3, <1>4
  DEF FirstInv, RestInv, TokensTaken, DriverTokens, ResultInv, Succeeded, Driver

(* What ends or refuses a statement is neither blank, comment nor word. *)
LEMMA ScanKinds ==
  ASSUME NEW s \in Seq(Lexeme), NEW p \in 1..(Len(s) + 1), NEW id, NEW q, NEW n,
         Scanned(s, p, id, q, n), q = Scan(s, p).pos
  PROVE  /\ id = "EOF" <=> q > Len(s) \/ s[q] = "nul"
         /\ id \notin {"EOF", "SEMI", "ERROR"} => q <= Len(s) /\ s[q] \in Words
         /\ id = "SEMI" => q <= Len(s) /\ s[q] = "semi"
         /\ id = "ERROR" => q <= Len(s) /\ s[q] \in Refused
<1>1. /\ q \in p..(Len(s) + 1)
      /\ q > Len(s) => id = "EOF"
      /\ q <= Len(s) => /\ id = "SEMI" <=> s[q] = "semi"
                        /\ id = "ERROR" <=> s[q] \in Refused
                        /\ id = "EOF" <=> s[q] = "nul"
  BY DEF Scanned
<1>2. q <= Len(s) => s[q] \in Lexeme \ (Blank \cup Comment)
  BY ScanStops
<1>3. CASE q <= Len(s)
  BY <1>1, <1>2, <1>3 DEF Lexeme, Words, Refused
<1>4. CASE q > Len(s)
  BY <1>1, <1>4
<1> QED
  BY <1>1, <1>3, <1>4

LEMMA ScanFirstFirst == Inv /\ FirstInv /\ ScanFirst => FirstInv'
<1> SUFFICES ASSUME Inv, FirstInv, ScanFirst PROVE FirstInv'
  OBVIOUS
<1> DEFINE id == Scan(next, pos).id
           q  == Scan(next, pos).pos
           n  == Scan(next, pos).next
<1>1. pc = "scanFirst"
  BY DEF ScanFirst
<1>2. /\ next \in Seq(Lexeme) /\ pos \in 1..(Len(next) + 1)
      /\ \A i \in 1..(pos - 1) : next[i] \notin Ends
      /\ allParsed = <<>> \/ pos = Len(next) + 1
  <2>1. next \in Seq(Lexeme) /\ pos \in Nat \ {0}
    BY DEF Inv, TypeOK
  <2>2. pos <= Len(next) + 1 /\ \A i \in 1..(pos - 1) : next[i] \notin Ends
    BY <1>1 DEF Inv, ScanInv
  <2>3. allParsed = <<>> \/ pos = Len(next) + 1
    BY <1>1 DEF Inv, OneInv
  <2> QED
    BY <2>1, <2>2, <2>3
<1>3. Scanned(next, pos, id, q, n)
  BY <1>2, ScanSpec
<1>4. UNCHANGED <<input, prettied, next, printed, allParsed>> /\ pos' = n
  BY DEF ScanFirst, fmtVars
<1>5. /\ id = "EOF" => done' = TRUE /\ LexerInit(<<>>, 0) /\ pc' = "grammar"
      /\ id = "SEMI" => pc' = "scanFirst"
      /\ id \notin {"EOF", "SEMI"} =>
            pc' = "scanRest" /\ LexerInit(<<[id |-> id, pos |-> 0]>>, 0)
  BY <1>1 DEF ScanFirst
<1>6. /\ id = "EOF" <=> q > Len(next) \/ next[q] = "nul"
      /\ id \notin {"EOF", "SEMI", "ERROR"} => q <= Len(next) /\ next[q] \in Words
      /\ id = "SEMI" => q <= Len(next) /\ next[q] = "semi"
      /\ id = "ERROR" => q <= Len(next) /\ next[q] \in Refused
  BY <1>2, <1>3, ScanKinds
<1> HIDE DEF id, q, n
<1>7. pc' \in {"grammar", "scanFirst", "scanRest"}
  BY <1>5
<1>8. \A i \in 1..(q - 1) : next[i] \notin Ends
  <2>1. Ends \cap (Blank \cup Comment) = {}
    BY DEF Ends, Refused, Blank, Comment
  <2> QED
    BY <1>2, <1>3, <2>1, NoEndBefore
<1>9. q \in 1..(Len(next) + 1) /\ q >= pos
  BY <1>2, <1>3 DEF Scanned
\* Until there is a statement no word is passed over.
<1>10. allParsed = <<>> => \A i \in 1..(q - 1) : next[i] \notin Words
  <2> SUFFICES ASSUME allParsed = <<>> PROVE \A i \in 1..(q - 1) : next[i] \notin Words
    OBVIOUS
  <2>1. Words \cap (Blank \cup Comment) = {}
    BY DEF Words, Blank, Comment
  <2>2. \A i \in 1..(pos - 1) : next[i] \notin Words
    BY <1>1 DEF FirstInv, ScanTokens
  <2> QED
    BY <1>2, <1>3, <2>1, <2>2, NoEndBefore
\* A semicolon passed over is the end of the cut.
<1>11. \A i \in 1..(q - 1) : next[i] = "semi" => i = Len(next)
  <2> SUFFICES ASSUME NEW i \in 1..(q - 1), next[i] = "semi" PROVE i = Len(next)
    OBVIOUS
  <2>1. i \in 1..Len(next)
    BY <1>2, <1>9
  <2>2. i = Len(next) \/ \E j \in 1..(i - 1) : next[j] \in Ends
    BY <1>1, <2>1 DEF Inv, CutInv
  <2> QED
    BY <1>8, <1>9, <2>2
<1>12. CutFirst'
  BY <1>1, <1>4, <1>7 DEF FirstInv, CutFirst, SameFirst, Driver
<1>13. OutputWords'
  BY <1>1, <1>4, <1>7 DEF FirstInv, OutputWords, Early, Driver
<1>14. allParsed # <<>> => AllTaken'
  BY <1>1, <1>4 DEF FirstInv, TokensTaken, AllTaken, Total
<1>15. CASE id = "EOF"
  <2>1. lex'.tokens = <<>> /\ lex'.lastPos = 0 /\ lex'.stmt = NoStmt
    BY <1>5, <1>15, EmptySeq, LexerInitSpec
  <2>2. pc' = "grammar" /\ done' = TRUE
    BY <1>5, <1>15
  <2>3. ASSUME allParsed = <<>>
        PROVE  /\ Cardinality(FirstOf(next, Words)) = 0
               /\ FirstOf(next, Refused) = {}
    <3>1. FirstOf(next, Words) = {} /\ FirstOf(next, Refused) = {}
      <4> SUFFICES ASSUME NEW i \in 1..Len(next), next[i] \in Words \cup Refused, InFirst(next, i)
                   PROVE  FALSE
        BY DEF FirstOf
      <4>1. \A j \in 1..(i - 1) : next[j] # "nul"
        BY DEF InFirst
      <4>2. i <= q
        BY <1>6, <1>9, <1>15, <4>1
      <4>3. i # q
        BY <1>6, <1>15 DEF Words, Refused
      <4>4. i \in 1..(q - 1)
        BY <1>9, <4>2, <4>3
      <4> QED
        BY <1>8, <1>10, <2>3, <4>4 DEF Ends
    <3> QED
      BY <3>1, FS_EmptySet
  <2>4. TokensTaken'
    <3>1. Len(lex'.tokens) = 0
      BY <2>1, EmptySeq
    <3> QED
      BY <1>4, <1>14, <2>2, <2>3, <3>1 DEF TokensTaken, Driver
  <2>5. DriverTokens'
    BY <2>1, <2>2 DEF DriverTokens
  <2>6. ScanTokens'
    BY <2>1, <2>2, EmptySeq DEF ScanTokens
  <2> QED
    BY <1>12, <1>13, <2>2, <2>4, <2>5, <2>6 DEF FirstInv, RestInv, ResultInv, Succeeded
<1>16. CASE id = "SEMI"
  <2>1. pc' = "scanFirst" /\ pos' = q + 1 /\ next[q] = "semi"
    BY <1>2, <1>3, <1>4, <1>5, <1>6, <1>16 DEF Scanned
  <2>2. ScanTokens'
    <3>1. allParsed = <<>> => \A i \in 1..q : next[i] \notin Words
      BY <1>9, <1>10, <2>1 DEF Words
    <3>2. pos' - 1 = q
      BY <1>9, <2>1
    <3> QED
      BY <1>4, <2>1, <3>1, <3>2 DEF ScanTokens, Driver
  <2>3. TokensTaken'
    BY <1>4, <1>14, <2>1 DEF TokensTaken, Driver
  <2> QED
    BY <1>12, <1>13, <2>1, <2>2, <2>3 DEF FirstInv, RestInv, DriverTokens, ResultInv, Succeeded
<1>17. CASE id \notin {"EOF", "SEMI"}
  <2> DEFINE tok == [id |-> id, pos |-> 0]
  <2>1. tok \in Token /\ tok.id = id
    BY <1>3, <1>17 DEF Token, Scanned
  <2> HIDE DEF tok
  <2>2. <<tok>> \in Seq(Token) /\ Len(<<tok>>) = 1 /\ <<tok>>[1] = tok
    BY <2>1
  <2>3. lex'.tokens = <<tok>> /\ pc' = "scanRest"
    BY <1>5, <1>17, <2>2, LexerInitSpec DEF tok
  <2>4. q <= Len(next) /\ pos' = q + 1
    BY <1>3, <1>4, <1>6, <1>17, <1>9 DEF Scanned
  <2>5. allParsed = <<>>
    BY <1>2, <1>9, <2>4
  <2>6. id # "ERROR" => \A i \in 1..(pos' - 1) : next[i] \notin Ends \cup {"semi"}
    <3> SUFFICES ASSUME id # "ERROR", NEW i \in 1..q PROVE next[i] \notin Ends \cup {"semi"}
      BY <1>9, <2>4
    <3>1. CASE i = q
      BY <1>6, <1>17, <3>1 DEF Words, Ends, Refused
    <3>2. CASE i # q
      BY <1>8, <1>9, <1>11, <2>4, <3>2
    <3> QED
      BY <3>1, <3>2
  <2>7. id # "ERROR" => Cardinality(WordsBefore(next, pos')) = 1
    <3> SUFFICES ASSUME id # "ERROR" PROVE Cardinality(WordsBefore(next, pos')) = 1
      OBVIOUS
    <3>1. WordsBefore(next, pos') = {q}
      BY <1>6, <1>9, <1>10, <1>17, <2>4, <2>5 DEF WordsBefore
    <3> QED
      BY <3>1, FS_Singleton
  <2>8. ScanTokens'
    BY <1>4, <1>17, <2>1, <2>2, <2>3, <2>6, <2>7 DEF ScanTokens, Driver
  <2>9. TokensTaken'
    BY <1>4, <2>3, <2>5 DEF TokensTaken, Driver
  <2> QED
    BY <1>12, <1>13, <2>3, <2>8, <2>9 DEF FirstInv, RestInv, DriverTokens, ResultInv, Succeeded
<1> QED
  BY <1>15, <1>16, <1>17

LEMMA ScanRestFirst == Inv /\ FirstInv /\ ScanRest => FirstInv'
<1> SUFFICES ASSUME Inv, FirstInv, ScanRest PROVE FirstInv'
  OBVIOUS
<1> DEFINE id   == Scan(next, pos).id
           q    == Scan(next, pos).pos
           n    == Scan(next, pos).next
           toks == lex.tokens
           last == toks[Len(toks)].id
           tok  == [id |-> id, pos |-> q - startPos]
<1>1. pc = "scanRest"
  BY DEF ScanRest
<1>2. /\ next \in Seq(Lexeme) /\ pos \in 1..(Len(next) + 1)
      /\ startPos \in Nat \ {0} /\ startPos < pos
      /\ lex \in Lexers /\ toks \in Seq(Token) /\ toks # <<>>
      /\ allParsed = <<>>
  <2>1. next \in Seq(Lexeme) /\ pos \in Nat \ {0} /\ startPos \in Nat \ {0} /\ lex \in Lexers
    BY DEF Inv, TypeOK
  <2>2. pos <= Len(next) + 1 /\ startPos < pos /\ toks # <<>>
    BY <1>1 DEF Inv, ScanInv
  <2>3. allParsed = <<>>
    BY <1>1 DEF Inv, OneInv
  <2>4. toks \in Seq(Token)
    BY <2>1 DEF Lexers
  <2> QED
    BY <2>1, <2>2, <2>3, <2>4
<1>3. /\ Scanned(next, pos, id, q, n)
      /\ id = "EOF" <=> q > Len(next) \/ next[q] = "nul"
      /\ id \notin {"EOF", "SEMI", "ERROR"} => q <= Len(next) /\ next[q] \in Words
      /\ id = "SEMI" => q <= Len(next) /\ next[q] = "semi"
      /\ id = "ERROR" => q <= Len(next) /\ next[q] \in Refused
  <2>1. Scanned(next, pos, id, q, n)
    BY <1>2, ScanSpec
  <2>2. q = Scan(next, pos).pos
    OBVIOUS
  <2> HIDE DEF id, q, n, toks, last, tok
  <2> QED
    BY <1>2, <2>1, <2>2, ScanKinds
<1>4. UNCHANGED <<input, prettied, next, printed, allParsed>>
  BY DEF ScanRest, fmtVars
<1>5. \/ /\ last = "ERROR" /\ LexerInit(toks, Len(next) + 1 - startPos)
         /\ done' = TRUE /\ pc' = "grammar"
      \/ /\ last # "ERROR" /\ id \in {"EOF", "SEMI"}
         /\ LexerInit(toks, pos - startPos)
         /\ pc' = "grammar"
      \/ /\ last # "ERROR" /\ id \notin {"EOF", "SEMI"}
         /\ lex' = [lex EXCEPT !.tokens = Append(toks, tok)]
         /\ pc' = "scanRest" /\ pos' = n
  BY <1>1 DEF ScanRest
<1>6. /\ last = "ERROR" \/ /\ \A i \in 1..(pos - 1) : next[i] \notin Ends \cup {"semi"}
                           /\ Len(toks) = Cardinality(WordsBefore(next, pos))
      /\ \A i \in 1..Len(toks) : toks[i].id # "EOF"
  BY <1>1 DEF FirstInv, ScanTokens
<1> HIDE DEF id, q, n, toks, last, tok
<1>7. Len(toks) \in Nat /\ Len(toks) > 0
  BY <1>2, EmptySeq
<1>8. /\ q \in 1..(Len(next) + 1) /\ q >= pos
      /\ last # "ERROR" => \A i \in 1..(q - 1) : next[i] \notin Ends \cup {"semi"}
  <2>1. (Ends \cup {"semi"}) \cap (Blank \cup Comment) = {}
    BY DEF Ends, Refused, Blank, Comment
  <2>2. q \in 1..(Len(next) + 1) /\ q >= pos
    BY <1>2, <1>3 DEF Scanned
  <2> QED
    BY <1>2, <1>3, <1>6, <2>1, <2>2, NoEndBefore
<1>9. /\ WordsBefore(next, q) = WordsBefore(next, pos)
      /\ Cardinality(WordsBefore(next, pos)) \in Nat
      /\ q <= Len(next) /\ next[q] \in Words =>
            Cardinality(WordsBefore(next, n)) = Cardinality(WordsBefore(next, pos)) + 1
  BY <1>2, <1>3, WordsPassed
<1>10. pc' \in {"grammar", "scanRest"}
  BY <1>5
<1>11. CutFirst'
  BY <1>1, <1>4, <1>10 DEF FirstInv, CutFirst, SameFirst, Driver
<1>12. OutputWords'
  BY <1>1, <1>4, <1>10 DEF FirstInv, OutputWords, Early, Driver
<1>13. CASE pc' = "grammar"
  <2>1. /\ last = "ERROR" \/ id \in {"EOF", "SEMI"}
        /\ lex'.tokens = toks /\ lex'.lastPos = 0 /\ lex'.stmt = NoStmt
    <3>1. CASE last = "ERROR" /\ LexerInit(toks, Len(next) + 1 - startPos)
      <4>1. Len(next) + 1 - startPos \in Nat
        BY <1>2
      <4> QED
        BY <1>2, <3>1, <4>1, LexerInitSpec
    <3>2. CASE id \in {"EOF", "SEMI"} /\ LexerInit(toks, pos - startPos)
      <4>1. pos - startPos \in Nat
        BY <1>2
      <4> QED
        BY <1>2, <3>2, <4>1, LexerInitSpec
    <3> QED
      BY <1>5, <1>13, <3>1, <3>2
  <2>2. ASSUME last # "ERROR"
        PROVE  /\ Len(toks) = Cardinality(FirstOf(next, Words))
               /\ FirstOf(next, Refused) = {}
    <3>1. \A i \in 1..(q - 1) : next[i] \notin {"semi", "nul"} /\ next[i] \notin Refused
      BY <1>8, <2>2 DEF Ends
    <3>2. q <= Len(next) => next[q] \in {"semi", "nul"}
      BY <1>2, <1>3, <1>8, <2>1, <2>2
    <3>3. next \in Seq(Lexeme) /\ q \in 1..(Len(next) + 1)
      BY <1>2, <1>8
    <3>4. \A K : K \cap {"semi", "nul"} = {} =>
                 FirstOf(next, K) = {i \in 1..(q - 1) : next[i] \in K}
      BY <3>1, <3>2, <3>3, FirstOfBefore, Zenon
    <3>5. FirstOf(next, Words) = WordsBefore(next, q)
      <4>1. Words \cap {"semi", "nul"} = {}
        BY DEF Words
      <4> QED
        BY <3>4, <4>1, Zenon DEF WordsBefore
    <3>6. FirstOf(next, Refused) = {i \in 1..(q - 1) : next[i] \in Refused}
      <4>1. Refused \cap {"semi", "nul"} = {}
        BY DEF Refused
      <4> QED
        BY <3>4, <4>1, Zenon
    <3>7. FirstOf(next, Refused) = {}
      BY <3>1, <3>6
    <3> QED
      BY <1>6, <1>9, <2>2, <3>5, <3>7
  <2>3. TokensTaken'
    <3>1. \/ \E i \in 1..Len(toks) : toks[i].id = "ERROR"
          \/ /\ Len(toks) = Cardinality(FirstOf(next, Words))
             /\ FirstOf(next, Refused) = {}
      BY <1>7, <2>2 DEF last
    <3> QED
      BY <1>2, <1>4, <1>13, <2>1, <3>1 DEF TokensTaken, Driver
  <2>4. ScanTokens' /\ DriverTokens'
    BY <1>6, <1>13, <2>1 DEF ScanTokens, DriverTokens
  <2> QED
    BY <1>11, <1>12, <1>13, <2>3, <2>4 DEF FirstInv, RestInv, ResultInv, Succeeded
<1>14. CASE pc' = "scanRest"
  <2>1. /\ last # "ERROR" /\ id \notin {"EOF", "SEMI"} /\ pos' = n
        /\ lex' = [lex EXCEPT !.tokens = Append(toks, tok)]
    BY <1>5, <1>14
  <2> DEFINE new == Append(toks, tok)
  <2>2. lex'.tokens = new
    BY <1>2, <2>1 DEF Lexers
  <2>3. tok \in Token /\ tok.id = id
    <3>1. id \in {"EOF", "ERROR", "SEMI", "HELPTOKEN", "WORD"} /\ q - startPos \in Nat
      BY <1>2, <1>3, <1>8 DEF Scanned
    <3> QED
      BY <3>1 DEF Token, tok
  <2>4. /\ new \in Seq(Token) /\ Len(new) = Len(toks) + 1
        /\ \A i \in 1..Len(toks) : new[i] = toks[i]
        /\ new[Len(new)] = tok
    BY <1>2, <2>3, AppendProperties
  <2> HIDE DEF new
  <2>5. \A i \in 1..Len(new) : new[i].id # "EOF"
    BY <1>6, <1>7, <2>1, <2>3, <2>4
  <2>6. q <= Len(next) /\ n = q + 1
    BY <1>3, <2>1, <1>8 DEF Scanned
  <2>7. id # "ERROR" => /\ \A i \in 1..(n - 1) : next[i] \notin Ends \cup {"semi"}
                        /\ Len(new) = Cardinality(WordsBefore(next, n))
    <3> SUFFICES ASSUME id # "ERROR"
                 PROVE  /\ \A i \in 1..q : next[i] \notin Ends \cup {"semi"}
                        /\ Len(new) = Cardinality(WordsBefore(next, n))
      BY <1>8, <2>6
    <3>1. next[q] \in Words
      BY <1>3, <2>1
    <3>2. next[q] \notin Ends \cup {"semi"}
      BY <3>1 DEF Words, Ends, Refused
    <3>3. \A i \in 1..q : next[i] \notin Ends \cup {"semi"}
      BY <1>8, <2>1, <3>2
    <3> QED
      BY <1>6, <1>9, <2>1, <2>4, <2>6, <3>1, <3>3
  <2>8. ScanTokens'
    BY <1>4, <1>14, <2>1, <2>2, <2>3, <2>4, <2>5, <2>7 DEF ScanTokens, Driver
  <2>9. TokensTaken'
    BY <1>2, <1>4, <1>14 DEF TokensTaken, Driver
  <2> QED
    BY <1>11, <1>12, <1>14, <2>8, <2>9 DEF FirstInv, RestInv, DriverTokens, ResultInv, Succeeded
<1> QED
  BY <1>10, <1>13, <1>14

(* What every step of the driver leaves alone, and what is left to show. *)
LEMMA DriverFirst ==
  ASSUME FirstInv, pc \in Driver, pc' \in Driver \cup {"panic"},
         UNCHANGED <<input, fmtVars, scanVars, allParsed>>,
         lex'.tokens = lex.tokens,
         pc' = "grammar" =>
            /\ \A i \in 1..lex'.lastPos : lex.tokens[i].id = "WORD"
            /\ lex'.stmt # NoStmt => lex'.stmt = SubSeq(lex.tokens, 1, lex'.lastPos),
         pc' = "parseReturn" /\ ret' = 0 =>
            /\ lex'.stmt = lex.tokens
            /\ \A i \in 1..Len(lex.tokens) : lex.tokens[i].id = "WORD"
  PROVE  FirstInv'
<1>1. UNCHANGED <<input, stmt, prettied, next, printed, done, allParsed>>
  BY DEF fmtVars, scanVars
<1>2. CutFirst'
  BY <1>1 DEF FirstInv, CutFirst, SameFirst, Driver
<1>3. ScanTokens'
  BY <1>1 DEF FirstInv, ScanTokens, Driver
<1>4. TokensTaken'
  BY <1>1 DEF FirstInv, TokensTaken, AllTaken, Total, Driver
<1>5. DriverTokens'
  BY DEF DriverTokens
<1>6. OutputWords'
  BY <1>1 DEF FirstInv, OutputWords, Early, Driver
<1> QED
  BY <1>2, <1>3, <1>4, <1>5, <1>6 DEF FirstInv, RestInv, ResultInv, Succeeded, Driver

LEMMA ShiftFirst == Inv /\ FirstInv /\ Shift => FirstInv'
<1> SUFFICES ASSUME Inv, FirstInv, Shift PROVE FirstInv'
  OBVIOUS
<1> DEFINE i == lex.lastPos + 1
<1>1. /\ pc = "grammar" /\ pc' = "grammar" /\ pc \in Driver
      /\ lex.stmt = NoStmt /\ Shiftable(Tok(i))
      /\ lex' = [lex EXCEPT !.lastPos = i]
      /\ UNCHANGED <<input, fmtVars, scanVars, allParsed>>
  BY DEF Shift, Parsing, Driver
<1>2. i <= Len(lex.tokens) /\ lex \in Lexers /\ lex.lastPos \in Nat /\ Len(lex.tokens) \in Nat
  BY <1>1, GrammarFacts, ShiftableIsToken
<1>3. lex'.tokens = lex.tokens /\ lex'.lastPos = i /\ lex'.stmt = NoStmt
  BY <1>1, <1>2 DEF Lexers
<1>4. lex.tokens[i].id = "WORD"
  BY <1>1, <1>2 DEF Tok, Shiftable
<1>5. \A j \in 1..i : lex.tokens[j].id = "WORD"
  BY <1>1, <1>2, <1>4 DEF FirstInv, DriverTokens
<1> QED
  BY <1>1, <1>3, <1>5, DriverFirst DEF Driver

LEMMA SetStmtFirst == Inv /\ FirstInv /\ SetStmt => FirstInv'
<1> SUFFICES ASSUME Inv, FirstInv, SetStmt PROVE FirstInv'
  OBVIOUS
<1>1. /\ pc = "grammar" /\ pc' = "grammar" /\ pc \in Driver
      /\ lex' = [lex EXCEPT !.stmt = SubSeq(lex.tokens, 1, lex.lastPos)]
      /\ UNCHANGED <<input, fmtVars, scanVars, allParsed>>
  BY DEF SetStmt, Parsing, Driver
<1>2. lex \in Lexers
  BY <1>1, GrammarFacts
<1>3. /\ lex'.tokens = lex.tokens /\ lex'.lastPos = lex.lastPos
      /\ lex'.stmt = SubSeq(lex.tokens, 1, lex.lastPos)
  BY <1>1, <1>2 DEF Lexers
<1>4. \A j \in 1..lex.lastPos : lex.tokens[j].id = "WORD"
  BY <1>1 DEF FirstInv, DriverTokens
<1> QED
  BY <1>1, <1>3, <1>4, DriverFirst DEF Driver

(* The steps that reject a token. *)
LEMMA RejectFirst ==
  Inv /\ FirstInv /\ (SyntaxError \/ ActionError \/ Unimplemented \/ Recover) => FirstInv'
<1> SUFFICES ASSUME Inv, FirstInv, SyntaxError \/ ActionError \/ Unimplemented \/ Recover
             PROVE  FirstInv'
  OBVIOUS
<1>1. /\ pc \in Driver /\ UNCHANGED <<input, fmtVars, scanVars, allParsed>>
      /\ pc' \in {"recover", "panic"} \/ (pc' = "parseReturn" /\ ret' = 1)
  BY DEF SyntaxError, ActionError, Unimplemented, Recover, Parsing, Driver
<1>2. lex \in Lexers
  BY <1>1, GrammarFacts
<1>3. lex'.tokens = lex.tokens
  <2>1. CASE SyntaxError
    BY <1>2, <2>1 DEF SyntaxError, Lexers
  <2>2. CASE ActionError
    BY <1>2, <2>2 DEF ActionError, Lexers
  <2>3. CASE Unimplemented
    BY <1>2, <2>3 DEF Unimplemented, Lexers
  <2>4. CASE Recover
    BY <1>2, <2>4 DEF Recover, Lexers
  <2> QED
    BY <2>1, <2>2, <2>3, <2>4
<1> QED
  BY <1>1, <1>3, DriverFirst DEF Driver

LEMMA AcceptFirst == Inv /\ FirstInv /\ Accept => FirstInv'
<1> SUFFICES ASSUME Inv, FirstInv, Accept PROVE FirstInv'
  OBVIOUS
<1> DEFINE i == lex.lastPos + 1
<1>1. /\ pc = "grammar" /\ pc' = "parseReturn" /\ pc \in Driver
      /\ Tok(i).id = "EOF"
      /\ lex.stmt # NoStmt \/ lex.tokens = <<>>
      /\ lex' = [lex EXCEPT !.lastPos = i]
      /\ UNCHANGED <<input, fmtVars, scanVars, allParsed>>
  BY DEF Accept, Driver
<1>2. /\ lex \in Lexers /\ lex.lastPos \in Nat /\ lex.tokens \in Seq(Token)
      /\ Len(lex.tokens) \in Nat /\ lex.lastPos <= Len(lex.tokens)
      /\ lex.tokens = <<>> => lex.stmt = NoStmt
  BY <1>1, GrammarFacts
<1>3. lex'.tokens = lex.tokens /\ lex'.stmt = lex.stmt
  BY <1>1, <1>2 DEF Lexers
<1>4. \A j \in 1..Len(lex.tokens) : lex.tokens[j].id # "EOF"
  BY <1>1 DEF FirstInv, ScanTokens
<1>5. lex.lastPos = Len(lex.tokens)
  BY <1>1, <1>2, <1>4 DEF Tok
<1>6. lex.stmt = lex.tokens
  <2>1. CASE lex.tokens = <<>>
    BY <1>2, <2>1 DEF NoStmt
  <2>2. CASE lex.tokens # <<>>
    <3>1. lex.stmt = SubSeq(lex.tokens, 1, Len(lex.tokens))
      BY <1>1, <1>5, <2>2 DEF FirstInv, DriverTokens
    <3>2. /\ lex.stmt \in Seq(Token) /\ Len(lex.stmt) = Len(lex.tokens)
          /\ \A j \in 1..Len(lex.tokens) : lex.stmt[j] = lex.tokens[j]
      <4>1. Len(lex.tokens) > 0
        BY <1>2, <2>2, EmptySeq
      <4> QED
        BY <1>2, <3>1, <4>1, SubSeqProperties
    <3> QED
      BY <1>2, <3>2, SeqEqual
  <2> QED
    BY <2>1, <2>2
<1>7. \A j \in 1..Len(lex.tokens) : lex.tokens[j].id = "WORD"
  BY <1>1, <1>5 DEF FirstInv, DriverTokens
<1> QED
  BY <1>1, <1>3, <1>6, <1>7, DriverFirst DEF Driver

LEMMA ParseReturnFirst == Inv /\ FirstInv /\ ParseReturn => FirstInv'
<1> SUFFICES ASSUME Inv, FirstInv, ParseReturn PROVE FirstInv'
  OBVIOUS
<1>1. /\ pc = "parseReturn" /\ pc \in Driver
      /\ UNCHANGED <<input, prettied, next, printed>>
      /\ \/ /\ ret # 0 /\ pc' = "done"
            /\ result'.err = IF lex.lastError = NoError
                             THEN Details(lex.lastPos, "syntax") ELSE lex.lastError
         \/ /\ ret = 0 /\ pc' = IF done THEN "print" ELSE "scanFirst"
            /\ allParsed' = IF lex.stmt = NoStmt THEN allParsed ELSE Append(allParsed, lex.stmt)
  BY DEF ParseReturn, Driver
<1>2. CASE ret # 0
  <2>1. pc' = "done"
    BY <1>1, <1>2
  <2>2. result'.err # NoError
    <3>1. lex.lastError # NoError
      BY <1>1, <1>2 DEF Inv, DriverInv
    <3> QED
      BY <1>1, <1>2, <3>1
  <2> QED
    BY <2>1, <2>2
    DEF FirstInv, RestInv, CutFirst, ScanTokens, TokensTaken, DriverTokens, OutputWords,
        Early, ResultInv, Succeeded, Driver
<1>3. CASE ret = 0
  <2>1. /\ pc' = (IF done THEN "print" ELSE "scanFirst")
        /\ allParsed' = IF lex.stmt = NoStmt THEN allParsed ELSE Append(allParsed, lex.stmt)
    BY <1>1, <1>3
  <2>2. /\ lex.stmt = lex.tokens
        /\ \A i \in 1..Len(lex.tokens) : lex.tokens[i].id = "WORD"
    BY <1>1, <1>3 DEF FirstInv, DriverTokens
  <2>3. /\ allParsed = <<>> \/ lex.tokens = <<>>
        /\ allParsed \in Seq(Seq(Token)) /\ lex.tokens \in Seq(Token)
    BY <1>1, GrammarFacts DEF Inv, OneInv, TypeOK
  <2>4. lex.tokens = <<>> => done
    BY <1>1 DEF FirstInv, TokensTaken
  <2>5. AllTaken'
    <3>1. CASE allParsed # <<>>
      <4>1. allParsed' = allParsed
        BY <2>1, <2>2, <2>3, <3>1 DEF NoStmt
      <4> QED
        BY <1>1, <3>1, <4>1 DEF FirstInv, TokensTaken, AllTaken, Total
    <3>2. CASE allParsed = <<>>
      <4>1. /\ Len(lex.tokens) = Cardinality(FirstOf(next, Words))
            /\ FirstOf(next, Refused) = {}
        BY <1>1, <2>2, <3>2 DEF FirstInv, TokensTaken
      <4>2. CASE lex.tokens = <<>>
        <5>1. allParsed' = <<>> /\ Len(lex.tokens) = 0
          BY <2>1, <2>2, <3>2, <4>2 DEF NoStmt
        <5> QED
          BY <1>1, <4>1, <5>1 DEF AllTaken, Total
      <4>3. CASE lex.tokens # <<>>
        <5>1. allParsed' = Append(<<>>, lex.tokens)
          BY <2>1, <2>2, <3>2, <4>3 DEF NoStmt
        <5>2. allParsed' # <<>> /\ allParsed'[1] = lex.tokens
          BY <2>3, <5>1
        <5> QED
          BY <1>1, <4>1, <5>2 DEF AllTaken, Total
      <4> QED
        BY <4>2, <4>3
    <3> QED
      BY <3>1, <3>2
  <2>6. pc' = "scanFirst" => allParsed' # <<>>
    <3> SUFFICES ASSUME ~done PROVE allParsed' # <<>>
      BY <2>1
    <3>1. lex.tokens # <<>> /\ allParsed = <<>>
      BY <2>3, <2>4
    <3>2. allParsed' = Append(<<>>, lex.tokens)
      BY <2>1, <2>2, <3>1 DEF NoStmt
    <3> QED
      BY <2>3, <3>2
  <2>7. pc' \in {"print", "scanFirst"}
    BY <2>1
  <2>8. CutFirst'
    BY <1>1, <2>7 DEF FirstInv, CutFirst, SameFirst
  <2>9. OutputWords'
    BY <1>1, <2>7 DEF FirstInv, OutputWords, Early, Driver
  <2>10. ScanTokens' /\ TokensTaken' /\ DriverTokens'
    BY <2>5, <2>6, <2>7 DEF ScanTokens, TokensTaken, DriverTokens, Driver
  <2> QED
    BY <2>7, <2>8, <2>9, <2>10 DEF FirstInv, RestInv, ResultInv, Succeeded
<1> QED
  BY <1>2, <1>3

(* What the printer adds to the output for a statement of n tokens. *)
LEMMA PrintedForms ==
  ASSUME NEW n \in Nat
  PROVE  LET words == [i \in 1..n |-> "word"]
         IN  /\ words \in Seq(Lexeme) /\ Len(words) = n
             /\ \A i \in 1..n : words[i] = "word"
             /\ <<"semi", "nl">> \in Seq(Lexeme)
             /\ Count(words, {"word"}) = n
             /\ Count(<<"semi", "nl">>, {"word"}) = 0
<1> DEFINE words == [i \in 1..n |-> "word"]
           tail  == <<"semi", "nl">>
<1>1. "word" \in Lexeme /\ "semi" \in Lexeme /\ "nl" \in Lexeme
  BY DEF Lexeme, Blank, Comment
<1>2. words \in Seq(Lexeme)
  BY <1>1, IsASeq
<1>3. Len(words) = n /\ \A i \in 1..n : words[i] = "word"
  OBVIOUS
<1>4. tail \in Seq(Lexeme) /\ Len(tail) = 2 /\ tail[1] = "semi" /\ tail[2] = "nl"
  BY <1>1
<1> HIDE DEF words, tail
<1>5. \A i \in 1..Len(words) : words[i] \in {"word"}
  BY <1>3
<1>6. \A i \in 1..Len(tail) : tail[i] \notin {"word"}
  BY <1>4
<1>7. Count(words, {"word"}) = n
  BY <1>2, <1>3, <1>5, CountAll
<1>8. Count(tail, {"word"}) = 0
  BY <1>4, <1>6, CountNone
<1> QED
  BY <1>2, <1>3, <1>4, <1>7, <1>8 DEF words, tail

(* The statement that is printed: the first, of Total tokens. *)
LEMMA PrintOneFacts ==
  ASSUME Inv, PrintOne
  PROVE  /\ pc = "print" /\ pc' = "print" /\ printed = 0 /\ printed' = 1
         /\ Len(allParsed) = 1 /\ allParsed # <<>> /\ Total \in Nat
         /\ prettied \in Seq(Lexeme) /\ prettied' \in Seq(Lexeme)
         /\ prettied' = (prettied \o [i \in 1..Total |-> "word"]) \o <<"semi", "nl">>
         /\ hasContent' = TRUE
         /\ UNCHANGED <<input, stmt, next, allParsed, lex, pos, done, ret, result>>
<1>1. /\ pc = "print" /\ printed < Len(allParsed) /\ printed' = printed + 1
      /\ prettied' = (prettied \o [i \in 1..Len(allParsed[printed']) |-> "word"])
                              \o <<"semi", "nl">>
      /\ hasContent' = TRUE
      /\ UNCHANGED <<input, pc, stmt, next, allParsed, lex, pos, done, ret, result>>
  BY DEF PrintOne, scanVars, parsVars
<1>2. printed \in Nat /\ allParsed \in Seq(Seq(Token)) /\ Len(allParsed) <= 1
  BY DEF Inv, TypeOK, OneInv
<1>3. printed = 0 /\ printed' = 1 /\ Len(allParsed) = 1 /\ allParsed # <<>>
  <2>1. Len(allParsed) \in Nat /\ (allParsed = <<>> => Len(allParsed) = 0)
    BY <1>2, EmptySeq
  <2>2. printed < Len(allParsed) /\ printed' = printed + 1
    BY <1>1
  <2>5. \A x, y \in Nat : x < y /\ y <= 1 => x = 0 /\ y = 1
    OBVIOUS
  <2>6. printed \in Nat /\ Len(allParsed) <= 1
    BY <1>2
  <2>3. printed = 0 /\ Len(allParsed) = 1
    BY ONLY <2>1, <2>2, <2>5, <2>6, Zenon
  <2>4. printed' = 1
    BY <2>2, <2>3
  <2> QED
    BY <2>1, <2>3, <2>4
<1>4. Total = Len(allParsed[1]) /\ Total \in Nat
  <2>1. allParsed[1] \in Seq(Token)
    BY <1>2, <1>3, ElementOfSeq
  <2> QED
    BY <1>3, <2>1, LenProperties DEF Total
<1>5. prettied \in Seq(Lexeme) /\ prettied' \in Seq(Lexeme)
  <2>1. Inv'
    BY PrintOneInv
  <2> QED
    BY <2>1 DEF Inv, TypeOK
<1> QED
  BY <1>1, <1>3, <1>4, <1>5

LEMMA PrintOneFirst == Inv /\ FirstInv /\ PrintOne => FirstInv'
<1> SUFFICES ASSUME Inv, FirstInv, PrintOne PROVE FirstInv'
  OBVIOUS
<1> DEFINE words == [i \in 1..Total |-> "word"]
           tail  == <<"semi", "nl">>
<1>1. /\ pc = "print" /\ pc' = "print" /\ printed = 0 /\ printed' = 1
      /\ Total \in Nat /\ prettied \in Seq(Lexeme)
      /\ prettied' = (prettied \o words) \o tail
      /\ UNCHANGED <<input, next, allParsed>>
  BY PrintOneFacts
<1>2. /\ words \in Seq(Lexeme) /\ Count(words, {"word"}) = Total
      /\ tail \in Seq(Lexeme) /\ Count(tail, {"word"}) = 0
  BY <1>1, PrintedForms
<1> HIDE DEF words, tail
<1>3. Count(prettied, {"word"}) = 0
  BY <1>1 DEF FirstInv, OutputWords
<1> DEFINE u == prettied \o words
<1>4. u \in Seq(Lexeme) /\ Count(u, {"word"}) = Total /\ prettied' = u \o tail
  BY <1>1, <1>2, <1>3, CountConcat, ConcatProperties
<1> HIDE DEF u
<1>5. Count(prettied', {"word"}) = Total
  <2>1. Count(u \o tail, {"word"}) = Count(u, {"word"}) + Count(tail, {"word"})
    BY <1>2, <1>4, CountConcat
  <2> QED
    BY <1>1, <1>2, <1>4, <2>1
<1>6. Total' = Total
  BY <1>1 DEF Total
<1>7. OutputWords'
  BY <1>1, <1>5, <1>6 DEF OutputWords, Early, Driver
<1>8. CutFirst' /\ TokensTaken'
  BY <1>1, <1>6 DEF FirstInv, CutFirst, SameFirst, TokensTaken, AllTaken, Driver
<1> QED
  BY <1>1, <1>7, <1>8 DEF FirstInv, RestInv, ScanTokens, DriverTokens, ResultInv, Succeeded, Driver

(* What FormatSQL returns. *)
LEMMA ReturnFacts ==
  ASSUME Inv, Return
  PROVE  /\ pc = "print" /\ pc' = "done" /\ printed = Len(allParsed)
         /\ prettied \in Seq(Lexeme) /\ prettied' \in Seq(Lexeme)
         /\ \/ prettied' = prettied
            \/ /\ prettied' = prettied \o <<"nl">>
               /\ <<"nl">> \in Seq(Lexeme)
         /\ result'.text = TrimSpace(prettied') /\ result'.err = NoError
         /\ UNCHANGED <<input, next, allParsed, printed>>
<1>1. /\ pc = "print" /\ pc' = "done" /\ printed = Len(allParsed)
      /\ prettied' = IF hasContent THEN Append(prettied, "nl") ELSE prettied
      /\ result' = [text |-> TrimSpace(prettied'), err |-> NoError]
      /\ UNCHANGED <<input, next, allParsed, printed>>
  BY DEF Return, scanVars, parsVars
<1>2. Inv'
  BY ReturnInv
<1>3. prettied \in Seq(Lexeme) /\ prettied' \in Seq(Lexeme)
  BY <1>2 DEF Inv, TypeOK
<1>4. "nl" \in Lexeme
  BY DEF Lexeme, Blank
<1>5. Append(prettied, "nl") = prettied \o <<"nl">>
  BY <1>3, <1>4, AppendIsConcat
<1> QED
  BY <1>1, <1>3, <1>4, <1>5

LEMMA ReturnFirst == Inv /\ FirstInv /\ Return => FirstInv'
<1> SUFFICES ASSUME Inv, FirstInv, Return PROVE FirstInv'
  OBVIOUS
<1>1. /\ pc = "print" /\ pc' = "done" /\ printed = Len(allParsed)
      /\ prettied \in Seq(Lexeme) /\ prettied' \in Seq(Lexeme)
      /\ \/ prettied' = prettied
         \/ prettied' = prettied \o <<"nl">> /\ <<"nl">> \in Seq(Lexeme)
      /\ result'.text = TrimSpace(prettied')
      /\ input' = input
  BY ReturnFacts
<1>2. Count(prettied, {"word"}) = Total
  <2>1. CASE printed = 0
    <3>1. allParsed = <<>>
      BY <1>1, <2>1, EmptySeq DEF Inv, TypeOK
    <3> QED
      BY <1>1, <2>1, <3>1 DEF FirstInv, OutputWords, Total
  <2>2. CASE printed # 0
    BY <1>1, <2>2 DEF FirstInv, OutputWords
  <2> QED
    BY <2>1, <2>2
<1>3. Count(prettied', {"word"}) = Total
  <2>1. Count(prettied, {"word"}) \in Nat
    BY <1>1, CountType
  <2>2. CASE <<"nl">> \in Seq(Lexeme) /\ prettied' = prettied \o <<"nl">>
    <3>1. Count(<<"nl">>, {"word"}) = 0
      <4>1. \A i \in 1..Len(<<"nl">>) : <<"nl">>[i] \notin {"word"}
        OBVIOUS
      <4> QED
        BY <2>2, <4>1, CountNone
    <3>2. Count(prettied \o <<"nl">>, {"word"}) = Count(prettied, {"word"}) + Count(<<"nl">>, {"word"})
      BY <1>1, <2>2, CountConcat, ZenonT(40)
    <3> QED
      BY <1>2, <2>1, <2>2, <3>1, <3>2
  <2> QED
    BY <1>1, <1>2, <2>2
<1>4. Count(result'.text, {"word"}) = Total
  <2>1. {"word"} \cap Blank = {}
    BY DEF Blank
  <2> QED
    BY <1>1, <1>3, <2>1, CountTrim
<1>5. ResultInv'
  <2>1. AllTaken /\ SameFirst(next)
    BY <1>1 DEF FirstInv, TokensTaken, CutFirst
  <2>2. /\ Total = Cardinality(FirstOf(input, Words))
        /\ FirstOf(input, Refused) = {}
    BY <2>1 DEF AllTaken, SameFirst
  <2> QED
    BY <1>1, <1>4, <2>2 DEF ResultInv
<1> QED
  BY <1>1, <1>5
  DEF FirstInv, RestInv, CutFirst, ScanTokens, TokensTaken, DriverTokens, OutputWords,
      Early, Driver

LEMMA StutterFirst == FirstInv /\ UNCHANGED vars => FirstInv'
<1> SUFFICES ASSUME FirstInv, UNCHANGED vars PROVE FirstInv'
  OBVIOUS
<1>1. UNCHANGED <<input, pc, stmt, prettied, next, pos, done, lex, ret, allParsed,
                  printed, result>>
  BY DEF vars
<1>2. RestInv' /\ CutFirst'
  BY <1>1 DEF FirstInv, RestInv, CutFirst, SameFirst
<1>3. ScanTokens' /\ DriverTokens'
  BY <1>1 DEF FirstInv, ScanTokens, DriverTokens
<1>4. TokensTaken' /\ OutputWords' /\ ResultInv'
  BY <1>1 DEF FirstInv, TokensTaken, AllTaken, Total, OutputWords, ResultInv, Succeeded
<1> QED
  BY <1>2, <1>3, <1>4 DEF FirstInv

LEMMA NextFirst == Inv /\ FirstInv /\ [Next]_vars => FirstInv'
<1> SUFFICES ASSUME Inv, FirstInv, [Next]_vars PROVE FirstInv'
  OBVIOUS
<1>1. CASE TrimComment
  BY <1>1, TrimCommentFirst
<1>2. CASE TrimDone
  BY <1>2, TrimDoneFirst
<1>3. CASE SplitScan
  BY <1>3, SplitScanFirst
<1>4. CASE ParseInit
  BY <1>4, ParseInitFirst
<1>5. CASE ScanFirst
  BY <1>5, ScanFirstFirst
<1>6. CASE ScanRest
  BY <1>6, ScanRestFirst
<1>7. CASE Shift
  BY <1>7, ShiftFirst
<1>8. CASE SetStmt
  BY <1>8, SetStmtFirst
<1>9. CASE SyntaxError \/ ActionError \/ Unimplemented \/ Recover
  BY <1>9, RejectFirst
<1>10. CASE Accept
  BY <1>10, AcceptFirst
<1>11. CASE ParseReturn
  BY <1>11, ParseReturnFirst
<1>12. CASE PrintOne
  BY <1>12, PrintOneFirst
<1>13. CASE Return
  BY <1>13, ReturnFirst
<1>14. CASE Stopped
  BY <1>14, StutterFirst DEF Stopped
<1>15. CASE UNCHANGED vars
  BY <1>15, StutterFirst
<1> QED
  BY <1>1, <1>2, <1>3, <1>4, <1>5, <1>6, <1>7, <1>8, <1>9, <1>10, <1>11, <1>12,
     <1>13, <1>14, <1>15 DEF Next

(* What the call has taken of the first statement is always what it should *)
(* have.                                                                   *)
THEOREM FirstInvariance == Spec => []FirstInv
<1>1. Init => FirstInv
  BY InitFirst
<1>2. Inv /\ FirstInv /\ [Next]_vars => FirstInv'
  BY NextFirst
<1> QED
  BY <1>1, <1>2, Invariance, PTL DEF Spec

(* FormatSQL prints as many words as the first statement of its argument   *)
(* has, whatever comments, blanks, zero bytes, semicolons and further      *)
(* statements stand around them: the scan that cuts the text and the scan  *)
(* that parses the cut neither lose a word nor take one from what follows. *)
THEOREM WholeFirstStatement == Spec => []FirstStatementPrinted
<1>1. FirstInv => FirstStatementPrinted
  <2> SUFFICES ASSUME FirstInv, Succeeded
               PROVE  Cardinality({i \in 1..Len(result.text) : result.text[i] = "word"})
                        = Cardinality(FirstOf(input, {"word", "help"}))
    BY DEF FirstStatementPrinted
  <2>1. Count(result.text, {"word"}) = Cardinality(FirstOf(input, Words))
    BY DEF FirstInv, ResultInv
  <2>2. At(result.text, {"word"}) = {i \in 1..Len(result.text) : result.text[i] = "word"}
    BY DEF At
  <2> QED
    BY <2>1, <2>2 DEF Count, Words
<1> QED
  BY <1>1, FirstInvariance, PTL

(* A call of FormatSQL whose first statement holds something the scanner   *)
(* refuses returns an error, whatever the grammar does with the tokens.    *)
THEOREM RefusedIsReported == Spec => []LexicalErrorReported
<1>1. FirstInv => LexicalErrorReported
  BY DEF FirstInv, ResultInv, LexicalErrorReported, Succeeded, Refused
<1> QED
  BY <1>1, FirstInvariance, PTL

-----------------------------------------------------------------------------
(* The form of the texts FormatSQL writes.                                 *)

LEMMA DisjointUnion ==
  ASSUME NEW S, NEW T, IsFiniteSet(S), IsFiniteSet(T), S \cap T = {}
  PROVE  Cardinality(S \cup T) = Cardinality(S) + Cardinality(T)
<1>1. Cardinality(S \cup T) = Cardinality(S) + Cardinality(T) - Cardinality(S \cap T)
  BY FS_Union
<1>2. Cardinality(S \cap T) = 0
  BY FS_EmptySet
<1>3. Cardinality(S) \in Nat /\ Cardinality(T) \in Nat
  BY FS_CardinalityType
<1> QED
  BY <1>1, <1>2, <1>3

(* The leading comments of a text are those of its head, and those of what *)
(* follows the head.                                                       *)
LEMMA LeadingCommentsPlaced ==
  ASSUME NEW s \in Seq(Lexeme), NEW t \in Seq(Lexeme), NEW k \in 0..Len(s), Placed(s, t, k)
  PROVE  LET head == {i \in 1..k : s[i] = "lcom"}
         IN  /\ IsFiniteSet(head)
             /\ Cardinality(LeadingComments(s)) =
                   Cardinality(head) + Cardinality(LeadingComments(t))
             /\ Cardinality(LeadingComments(t)) \in Nat
<1> DEFINE head == {i \in 1..k : s[i] = "lcom"}
           rest == {i \in LeadingComments(s) : i > k}
<1>1. /\ LeadingComments(s) \subseteq 1..Len(s) /\ Len(s) \in Nat
      /\ LeadingComments(t) \subseteq 1..Len(t) /\ Len(t) \in Nat /\ k \in Nat
  BY DEF LeadingComments
<1>2. IsFiniteSet(head) /\ IsFiniteSet(rest) /\ Cardinality(LeadingComments(t)) \in Nat
  <2>1. head \subseteq 1..k /\ rest \subseteq 1..Len(s)
    BY <1>1
  <2> HIDE DEF head, rest
  <2> QED
    BY <1>1, <2>1, FiniteRange
<1>3. LeadingComments(s) = head \cup rest
  <2>1. ASSUME NEW i \in head PROVE i \in LeadingComments(s)
    <3>1. \A j \in 1..(i - 1) : s[j] \in Blank \cup {"lcom"}
      BY <1>1, <2>1 DEF Placed, Lead
    <3> QED
      BY <1>1, <2>1, <3>1 DEF LeadingComments, Placed
  <2>2. ASSUME NEW i \in LeadingComments(s), i <= k PROVE i \in head
    BY <1>1, <2>2 DEF LeadingComments
  <2>3. ASSUME NEW i \in LeadingComments(s) PROVE i \in head \cup rest
    BY <1>1, <2>2, <2>3
  <2> QED
    BY <2>1, <2>3
<1>4. head \cap rest = {}
  OBVIOUS
<1>5. /\ \A i \in LeadingComments(t) : k + i \in rest
      /\ \A j \in rest : \E i \in LeadingComments(t) : j = k + i
  <2>1. ASSUME NEW i \in LeadingComments(t) PROVE k + i \in rest
    <3>1. /\ i \in 1..Len(t) /\ t[i] = "lcom"
          /\ \A j \in 1..(i - 1) : t[j] \in Blank \cup {"lcom"}
      BY <2>1 DEF LeadingComments
    <3>2. k + i \in 1..Len(s) /\ s[k + i] = "lcom" /\ k + i > k
      BY <1>1, <3>1 DEF Placed
    <3>3. ASSUME NEW j \in 1..(k + i - 1) PROVE s[j] \in Blank \cup {"lcom"}
      <4>1. CASE j <= k
        BY <3>3, <4>1 DEF Placed, Lead
      <4>2. CASE j > k
        <5>1. j - k \in 1..(i - 1) /\ j - k \in 1..Len(t) /\ k + (j - k) = j
          BY <1>1, <3>1, <3>3, <4>2
        <5>2. t[j - k] = s[k + (j - k)]
          BY <5>1 DEF Placed
        <5> QED
          BY <3>1, <5>1, <5>2
      <4> QED
        BY <1>1, <3>1, <3>3, <4>1, <4>2
    <3>4. k + i \in LeadingComments(s)
      BY <3>2, <3>3 DEF LeadingComments
    <3> QED
      BY <3>2, <3>4
  <2>2. ASSUME NEW j \in rest PROVE \E i \in LeadingComments(t) : j = k + i
    <3>1. /\ j \in 1..Len(s) /\ s[j] = "lcom" /\ j > k
          /\ \A i \in 1..(j - 1) : s[i] \in Blank \cup {"lcom"}
      BY <2>2 DEF LeadingComments
    <3>2. j <= k + Len(t)
      BY <1>1, <3>1 DEF Placed, Blank
    <3>3. j - k \in 1..Len(t) /\ k + (j - k) = j
      BY <1>1, <3>1, <3>2
    <3>4. \A i \in 1..Len(t) : t[i] = s[k + i]
      BY DEF Placed
    <3>5. t[j - k] = "lcom"
      BY <3>1, <3>3, <3>4
    <3>6. \A i \in 1..(j - k - 1) : t[i] \in Blank \cup {"lcom"}
      <4> SUFFICES ASSUME NEW i \in 1..(j - k - 1) PROVE t[i] \in Blank \cup {"lcom"}
        OBVIOUS
      <4>1. i \in 1..Len(t) /\ k + i \in 1..(j - 1)
        BY <1>1, <3>1, <3>3
      <4> QED
        BY <3>1, <3>4, <4>1
    <3>7. j - k \in LeadingComments(t)
      BY <3>3, <3>5, <3>6 DEF LeadingComments
    <3> QED
      BY <3>3, <3>7
  <2> QED
    BY <2>1, <2>2
<1> HIDE DEF head, rest
<1>6. Cardinality(rest) = Cardinality(LeadingComments(t))
  BY <1>1, <1>5, ShiftedCardinality
<1>7. Cardinality(LeadingComments(s)) = Cardinality(head) + Cardinality(LeadingComments(t))
  BY <1>2, <1>3, <1>4, <1>6, DisjointUnion
<1> QED
  BY <1>2, <1>7 DEF head

(* What FormatSQL has written when it has copied the comments: every       *)
(* comment is followed by one or two newlines, but the last, which may end *)
(* the text.                                                               *)
HeadForm(h) ==
    \A i \in 1..Len(h) :
        /\ h[i] \in {"lcom", "nl"}
        /\ h[i] = "nl" => i > 1 /\ (h[i-1] = "lcom" \/ (i > 2 /\ h[i-2] = "lcom"))
        /\ h[i] = "lcom" /\ i < Len(h) => h[i+1] = "nl"

(* s is h followed by t. *)
Joined(h, t, s) ==
    /\ Len(s) = Len(h) + Len(t)
    /\ \A i \in 1..Len(h) : s[i] = h[i]
    /\ \A i \in 1..Len(t) : s[Len(h) + i] = t[i]

(* What is trimmed to r: r with ink at both ends, and blanks after it. *)
LEMMA TrimTo ==
  ASSUME NEW s \in Seq(Lexeme), NEW n \in 1..Len(s),
         s[1] \notin Blank, s[n] \notin Blank,
         \A i \in (n + 1)..Len(s) : s[i] \in Blank
  PROVE  LET t == TrimSpace(s)
         IN  t \in Seq(Lexeme) /\ Len(t) = n /\ \A i \in 1..n : t[i] = s[i]
<1> DEFINE t == TrimSpace(s)
<1>1. t \in Seq(Lexeme) /\ Len(t) \in Nat /\ Len(s) \in Nat /\ (t # <<>> => Len(t) > 0)
  BY TrimSpaceType, EmptySeq
<1> HIDE DEF t
<1>2. PICK k \in 0..Len(s) : Trimmed(s, t, k)
  BY TrimSpaceSpec DEF t
<1>3. k = 0
  BY <1>1, <1>2 DEF Trimmed
<1>4. Len(t) >= n
  BY <1>1, <1>2, <1>3 DEF Trimmed
<1>5. Len(t) <= n
  <2> SUFFICES ASSUME Len(t) > n PROVE FALSE
    BY <1>1
  <2>1. t # <<>>
    BY <1>1, <1>4, EmptySeq
  <2>2. t[Len(t)] \notin Blank /\ t[Len(t)] = s[Len(t)] /\ Len(t) <= Len(s)
    BY <1>1, <1>2, <1>3, <2>1 DEF Trimmed
  <2> QED
    BY <1>1, <2>2
<1>6. t \in Seq(Lexeme) /\ Len(t) = n /\ \A i \in 1..n : t[i] = s[i]
  BY <1>1, <1>2, <1>3, <1>4, <1>5 DEF Trimmed
<1> QED
  BY <1>6 DEF t

(* A text of blanks is trimmed to nothing. *)
LEMMA TrimBlank ==
  ASSUME NEW s \in Seq(Lexeme), \A i \in 1..Len(s) : s[i] \in Blank
  PROVE  TrimSpace(s) = <<>>
<1> DEFINE t == TrimSpace(s)
<1>1. t \in Seq(Lexeme) /\ Len(t) \in Nat /\ Len(s) \in Nat /\ (t # <<>> => Len(t) > 0)
  BY TrimSpaceType, EmptySeq
<1> HIDE DEF t
<1>2. PICK k \in 0..Len(s) : Trimmed(s, t, k)
  BY TrimSpaceSpec DEF t
<1>3. t = <<>>
  BY <1>1, <1>2 DEF Trimmed
<1> QED
  BY <1>3 DEF t

(* Comments alone, trimmed, are in the form FormatSQL writes. *)
LEMMA HeadFormatted ==
  ASSUME NEW h \in Seq(Lexeme), HeadForm(h), NEW s \in Seq(Lexeme), Len(s) >= Len(h),
         \A i \in 1..Len(h) : s[i] = h[i],
         \A i \in (Len(h) + 1)..Len(s) : s[i] \in Blank
  PROVE  LET t == TrimSpace(s)
         IN  /\ Formatted(t)
             /\ Cardinality(LeadingComments(t)) = Count(h, {"lcom"})
             /\ (h # <<>> => h[Len(h)] # "nl") => t = h
<1> DEFINE t == TrimSpace(s)
<1>1. t \in Seq(Lexeme) /\ Len(t) \in Nat /\ Len(s) \in Nat /\ Len(h) \in Nat
  BY TrimSpaceType
<1>2. Count(t, {"lcom"}) = Count(h, {"lcom"})
  <2>1. {"lcom"} \cap Blank = {}
    BY DEF Blank
  <2>2. At(s, {"lcom"}) = At(h, {"lcom"})
    BY <1>1 DEF At, Blank
  <2> QED
    BY <2>1, <2>2, CountTrim DEF Count
<1> HIDE DEF t
<1>3. CASE h = <<>>
  <2>1. t = <<>> /\ Len(t) = 0
    <3>1. \A i \in 1..Len(s) : s[i] \in Blank
      BY <1>1, <1>3
    <3> QED
      BY <3>1, TrimBlank, EmptySeq DEF t
  <2>2. Formatted(t) /\ LeadingComments(t) = {}
    BY <2>1 DEF Formatted, LeadingComments
  <2>3. At(t, {"lcom"}) = {}
    BY <2>1 DEF At
  <2>4. Cardinality(LeadingComments(t)) = Count(h, {"lcom"})
    BY <1>2, <2>2, <2>3 DEF Count
  <2> QED
    BY <1>3, <2>1, <2>2, <2>4 DEF t
<1>4. CASE h # <<>>
  <2>1. Len(h) > 0 /\ h[1] = "lcom" /\ s[1] = "lcom"
    <3>1. Len(h) > 0
      BY <1>4, EmptySeq
    <3> QED
      BY <1>1, <3>1 DEF HeadForm
  <2>2. PICK n \in 1..Len(h) : h[n] = "lcom" /\ \A i \in (n + 1)..Len(h) : h[i] # "lcom"
    <3> DEFINE T == {m \in 0..(Len(h) - 1) : h[Len(h) - m] = "lcom"}
    <3>1. T \subseteq Nat
      BY <1>1
    <3>2. Len(h) - 1 \in T
      <4>1. Len(h) - (Len(h) - 1) = 1 /\ Len(h) - 1 \in 0..(Len(h) - 1)
        BY <1>1, <2>1
      <4> QED
        BY <2>1, <4>1
    <3> HIDE DEF T
    <3>3. PICK m \in T : \A y \in T : m <= y
      BY <3>1, <3>2, LeastNatural
    <3>4. Len(h) - m \in 1..Len(h) /\ h[Len(h) - m] = "lcom"
      BY <1>1, <3>3 DEF T
    <3>5. ASSUME NEW i \in (Len(h) - m + 1)..Len(h) PROVE h[i] # "lcom"
      <4>1. Len(h) - i \in 0..(Len(h) - 1) /\ Len(h) - (Len(h) - i) = i /\ ~(m <= Len(h) - i)
        BY <1>1, <3>1, <3>4, <3>5
      <4>2. Len(h) - i \notin T
        BY <3>3, <4>1
      <4> QED
        BY <4>1, <4>2 DEF T
    <3> QED
      BY <3>4, <3>5
  <2>3. \A i \in (n + 1)..Len(s) : s[i] \in Blank
    <3> SUFFICES ASSUME NEW i \in (n + 1)..Len(s) PROVE s[i] \in Blank
      OBVIOUS
    <3>1. CASE i <= Len(h)
      <4>1. s[i] = h[i] /\ h[i] \in {"lcom", "nl"} /\ h[i] # "lcom"
        BY <1>1, <2>2, <3>1 DEF HeadForm
      <4> QED
        BY <4>1 DEF Blank
    <3>2. CASE i > Len(h)
      BY <1>1, <3>2
    <3> QED
      BY <1>1, <3>1, <3>2
  <2>4. Len(t) = n /\ \A i \in 1..n : t[i] = h[i]
    <3>1. n \in 1..Len(s) /\ s[n] = "lcom" /\ \A i \in 1..n : s[i] = h[i]
      BY <1>1, <2>2
    <3>2. s[1] \notin Blank /\ s[n] \notin Blank
      BY <2>1, <3>1 DEF Blank
    <3>3. Len(t) = n /\ \A i \in 1..n : t[i] = s[i]
      BY <2>3, <3>1, <3>2, TrimTo DEF t
    <3> QED
      BY <3>1, <3>3
  <2>5. \A i \in 1..n : h[i] \in {"lcom", "nl"} /\ h[i] \in Blank \cup {"lcom"}
    BY <2>2 DEF HeadForm, Blank
  <2>6. LeadingComments(t) = At(t, {"lcom"})
    <3>1. \A i \in 1..Len(t) : t[i] \in Blank \cup {"lcom"}
      BY <2>4, <2>5
    <3> QED
      BY <1>1, <3>1 DEF LeadingComments, At
  <2>7. Formatted(t)
    <3>1. \A i \in 1..n : t[i] \in {"lcom", "nl"}
      BY <2>4, <2>5
    <3>2. ASSUME NEW i \in 1..n, t[i] = "lcom" PROVE i \in LeadingComments(t)
      BY <2>4, <2>6, <3>2 DEF At
    <3>3. ASSUME NEW i \in 1..n, t[i] = "nl"
          PROVE  /\ i \in 2..(n - 1)
                 /\ \/ t[i-1] = "lcom"
                    \/ i > 2 /\ t[i-1] = "nl" /\ t[i-2] = "lcom"
      <4>1. i > 1 /\ (h[i-1] = "lcom" \/ (i > 2 /\ h[i-2] = "lcom"))
        BY <2>2, <2>4, <3>3 DEF HeadForm
      <4>2. i # n
        BY <2>2, <2>4, <3>3
      <4>3. i - 1 \in 1..n /\ h[i-1] \in {"lcom", "nl"} /\ t[i-1] = h[i-1]
        BY <2>4, <2>5, <4>1
      <4>4. i > 2 => t[i-2] = h[i-2]
        BY <2>4
      <4> QED
        BY <4>1, <4>2, <4>3, <4>4
    <3>4. ASSUME NEW i \in 1..n, t[i] = "lcom", i < n PROVE t[i+1] = "nl"
      BY <2>2, <2>4, <3>4 DEF HeadForm
    <3> QED
      BY <2>4, <3>1, <3>2, <3>3, <3>4 DEF Formatted
  <2>8. h[Len(h)] # "nl" => t = h
    <3> SUFFICES ASSUME h[Len(h)] # "nl" PROVE t = h
      OBVIOUS
    <3>1. n = Len(h)
      <4>1. h[Len(h)] = "lcom"
        BY <1>1, <2>1 DEF HeadForm
      <4> QED
        BY <1>1, <2>2, <4>1
    <3> QED
      BY <1>1, <2>4, <3>1, SeqEqual
  <2>9. Cardinality(LeadingComments(t)) = Count(h, {"lcom"})
    BY <1>2, <2>6 DEF Count
  <2> QED
    BY <1>4, <2>7, <2>8, <2>9 DEF t
<1> QED
  BY <1>3, <1>4

(* s is h, n words, a semicolon and blanks: what FormatSQL has written     *)
(* when it has printed a statement.                                        *)
Printed(h, n, s) ==
    /\ Len(s) > Len(h) + n
    /\ \A i \in 1..Len(h) : s[i] = h[i]
    /\ \A i \in 1..n : s[Len(h) + i] = "word"
    /\ s[Len(h) + n + 1] = "semi"
    /\ \A i \in (Len(h) + n + 2)..Len(s) : s[i] \in Blank

(* Comments and a statement, trimmed, are in the form FormatSQL writes. *)
LEMMA StatementFormatted ==
  ASSUME NEW h \in Seq(Lexeme), HeadForm(h), h = <<>> \/ h[Len(h)] = "nl",
         NEW n \in Nat, n > 0, NEW s \in Seq(Lexeme), Printed(h, n, s)
  PROVE  LET t == TrimSpace(s)
         IN  /\ Formatted(t)
             /\ Cardinality(LeadingComments(t)) = Count(h, {"lcom"})
             /\ t \in Seq(Lexeme) /\ Len(t) = Len(h) + n + 1
             /\ \A i \in 1..Len(t) : t[i] = s[i]
<1> DEFINE t == TrimSpace(s)
           m == Len(h) + n + 1
<1>1. Len(s) \in Nat /\ Len(h) \in Nat /\ m \in 1..Len(s) /\ (h # <<>> => Len(h) > 0)
  BY EmptySeq DEF Printed
<1>2. s[1] \notin Blank /\ s[m] \notin Blank
  <2>1. s[1] \in {"lcom", "word"}
    <3>1. CASE h = <<>>
      <4>1. Len(h) = 0 /\ 1 \in 1..n /\ Len(h) + 1 = 1
        BY <3>1
      <4> QED
        BY <4>1 DEF Printed
    <3>2. CASE h # <<>>
      <4>1. 1 \in 1..Len(h) /\ s[1] = h[1]
        BY <1>1, <3>2 DEF Printed
      <4>2. h[1] \in {"lcom", "nl"} /\ h[1] # "nl"
        BY <4>1 DEF HeadForm
      <4> QED
        BY <4>1, <4>2
    <3> QED
      BY <3>1, <3>2
  <2>2. s[m] = "semi"
    BY DEF Printed
  <2> QED
    BY <2>1, <2>2 DEF Blank
<1>3. t \in Seq(Lexeme) /\ Len(t) = m /\ \A i \in 1..m : t[i] = s[i]
  <2>1. \A i \in (m + 1)..Len(s) : s[i] \in Blank
    BY <1>1 DEF Printed
  <2> HIDE DEF m
  <2> QED
    BY <1>1, <1>2, <2>1, TrimTo
<1> HIDE DEF t
<1>4. /\ \A i \in 1..Len(h) : t[i] = h[i]
      /\ \A i \in (Len(h) + 1)..(m - 1) : t[i] = "word"
      /\ t[m] = "semi"
  <2>1. ASSUME NEW i \in (Len(h) + 1)..(m - 1) PROVE t[i] = "word"
    <3>1. i - Len(h) \in 1..n /\ Len(h) + (i - Len(h)) = i /\ i \in 1..m
      BY <1>1, <2>1
    <3>2. s[Len(h) + (i - Len(h))] = "word"
      BY <3>1 DEF Printed
    <3> QED
      BY <1>3, <3>1, <3>2
  <2>2. t[m] = "semi"
    BY <1>1, <1>3 DEF Printed
  <2>3. \A i \in 1..Len(h) : t[i] = h[i]
    BY <1>1, <1>3 DEF Printed
  <2> QED
    BY <2>1, <2>2, <2>3
<1>5. \A i \in 1..m : i \in 1..Len(h) \/ i \in (Len(h) + 1)..(m - 1) \/ i = m
  BY <1>1
<1>6. m - 1 > Len(h)
  BY <1>1
<1> HIDE DEF m
<1>7. \A i \in 1..Len(h) : h[i] \in {"lcom", "nl"}
  BY DEF HeadForm
<1>8. LeadingComments(t) = At(h, {"lcom"})
  <2>1. ASSUME NEW i \in LeadingComments(t) PROVE i \in At(h, {"lcom"})
    <3>1. i \in 1..m /\ t[i] = "lcom"
      BY <1>3, <2>1 DEF LeadingComments
    <3>2. i \in 1..Len(h)
      BY <1>4, <1>5, <3>1
    <3> QED
      BY <1>4, <3>1, <3>2 DEF At
  <2>2. ASSUME NEW i \in At(h, {"lcom"}) PROVE i \in LeadingComments(t)
    <3>1. i \in 1..Len(h) /\ h[i] = "lcom"
      BY <2>2 DEF At
    <3>2. i \in 1..Len(t) /\ t[i] = "lcom"
      <4>1. i \in 1..Len(t) /\ t[i] = h[i]
        BY <1>1, <1>3, <1>4, <1>6, <3>1
      <4> QED
        BY <3>1, <4>1
    <3>3. \A j \in 1..(i - 1) : t[j] \in Blank \cup {"lcom"}
      BY <1>1, <1>4, <1>7, <3>1 DEF Blank
    <3> QED
      BY <3>2, <3>3 DEF LeadingComments
  <2> QED
    BY <2>1, <2>2
<1>9. Formatted(t)
  <2>1. \A i \in 1..m : t[i] \in {"lcom", "nl", "word", "semi"}
    BY <1>4, <1>5, <1>7
  <2>2. ASSUME NEW i \in 1..m, t[i] = "lcom" PROVE i \in LeadingComments(t)
    BY <1>4, <1>5, <1>8, <2>2 DEF At
  <2>3. ASSUME NEW i \in 1..m, t[i] = "nl"
        PROVE  /\ i \in 2..(m - 1)
               /\ \/ t[i-1] = "lcom"
                  \/ i > 2 /\ t[i-1] = "nl" /\ t[i-2] = "lcom"
    <3>1. i \in 1..Len(h) /\ h[i] = "nl"
      BY <1>4, <1>5, <2>3
    <3>2. i > 1 /\ (h[i-1] = "lcom" \/ (i > 2 /\ h[i-2] = "lcom"))
      BY <3>1 DEF HeadForm
    <3>3. i - 1 \in 1..Len(h) /\ h[i-1] \in {"lcom", "nl"} /\ t[i-1] = h[i-1]
      BY <1>1, <1>4, <1>7, <3>1, <3>2
    <3>4. i > 2 => t[i-2] = h[i-2]
      BY <1>1, <1>4, <3>1
    <3>5. i \in 2..(m - 1)
      BY <1>1, <1>6, <3>1, <3>2
    <3> QED
      BY <3>2, <3>3, <3>4, <3>5
  <2>4. ASSUME NEW i \in 1..m, t[i] = "lcom", i < m PROVE t[i+1] = "nl"
    <3>1. i \in 1..Len(h) /\ h[i] = "lcom"
      BY <1>4, <1>5, <2>4
    <3>2. i < Len(h)
      BY <1>1, <3>1
    <3>3. h[i+1] = "nl" /\ i + 1 \in 1..Len(h)
      BY <1>1, <3>1, <3>2 DEF HeadForm
    <3> QED
      BY <1>4, <3>3
  <2>5. ASSUME NEW i \in 1..m, t[i] = "semi" PROVE i = m /\ i > 1 /\ t[i-1] = "word"
    <3>1. i = m
      BY <1>4, <1>5, <1>7, <2>5
    <3>2. m - 1 \in (Len(h) + 1)..(m - 1) /\ m > 1
      BY <1>1, <1>6
    <3> QED
      BY <1>4, <3>1, <3>2
  <2> QED
    BY <1>3, <1>4, <2>1, <2>2, <2>3, <2>4, <2>5 DEF Formatted
<1> QED
  BY <1>3, <1>8, <1>9 DEF Count, t, m

(* What follows the comments of a text in the form FormatSQL writes: it is *)
(* nothing, or words with a semicolon.                                     *)
LEMMA FormattedBody ==
  ASSUME NEW s \in Seq(Lexeme), Formatted(s), NEW h \in Seq(Lexeme), HeadForm(h),
         NEW b \in Seq(Lexeme), Joined(h, b, s), b # <<>>, b[1] \notin Lead
  PROVE  /\ Len(b) > 1 /\ b[Len(b)] = "semi"
         /\ \A i \in 1..(Len(b) - 1) : b[i] = "word"
         /\ FirstOf(b, Words) = 1..(Len(b) - 1)
<1> DEFINE l == Len(h)
<1>1. Len(s) \in Nat /\ l \in Nat /\ Len(b) \in Nat /\ Len(b) > 0 /\ Len(s) = l + Len(b)
      /\ s # <<>>
  BY EmptySeq DEF Joined
<1>2. \A i \in 1..Len(b) : l + i \in 1..Len(s) /\ s[l + i] = b[i]
  BY <1>1 DEF Joined
<1>3. \A i \in 1..l : s[i] = h[i] /\ h[i] \in {"lcom", "nl"}
  BY DEF Joined, HeadForm
<1> HIDE DEF l
<1>12. \A p \in 1..Len(s) :
          /\ s[p] \in {"lcom", "nl", "word", "semi"}
          /\ s[p] = "lcom" => \A j \in 1..(p - 1) : s[j] \in Blank \cup {"lcom"}
          /\ s[p] = "nl" => s[p-1] = "lcom" \/ (s[p-1] = "nl" /\ s[p-2] = "lcom")
          /\ s[p] = "semi" => p = Len(s) /\ p > 1 /\ s[p-1] = "word"
  BY DEF Formatted, LeadingComments
<1>4. \A i \in 1..Len(b) : b[i] \in {"lcom", "nl", "word", "semi"}
  BY <1>2, <1>12
<1>5. b[1] = "word" /\ s[l + 1] = "word"
  <2>1. b[1] \in {"lcom", "nl", "word", "semi"} /\ s[l + 1] = b[1] /\ l + 1 \in 1..Len(s)
    BY <1>1, <1>2, <1>4
  <2>2. b[1] # "semi"
    <3> SUFFICES ASSUME b[1] = "semi" PROVE FALSE
      OBVIOUS
    <3> DEFINE p == l + 1
    <3>1. p \in 1..Len(s) /\ s[p] = "semi" /\ p - 1 = l
      BY <1>1, <2>1
    <3> HIDE DEF p
    <3>2. p > 1 /\ s[p - 1] = "word"
      BY <1>12, <3>1
    <3>3. l \in 1..l /\ s[l] = "word"
      BY <1>1, <3>1, <3>2
    <3> QED
      BY <1>3, <3>3
  <2> QED
    BY <2>1, <2>2 DEF Lead, Blank
<1>6. b[Len(b)] = "semi"
  <2>1. s[Len(s)] = "semi"
    BY <1>1, <1>2, <1>5 DEF Formatted
  <2> QED
    BY <1>1, <1>2, <2>1
<1>7. ASSUME NEW i \in 1..Len(b), b[i] = "semi" PROVE i = Len(b)
  <2>1. l + i \in 1..Len(s) /\ s[l + i] = "semi"
    BY <1>2, <1>7
  <2>2. l + i = Len(s)
    BY <1>12, <2>1
  <2> QED
    BY <1>1, <2>2
<1>8. ASSUME NEW i \in 1..Len(b) PROVE b[i] # "lcom"
  <2> SUFFICES ASSUME b[i] = "lcom" PROVE FALSE
    OBVIOUS
  <2> DEFINE p == l + i
  <2>1. p \in 1..Len(s) /\ s[p] = "lcom"
    BY <1>2
  <2>2. i # 1
    BY <1>5
  <2>3. l + 1 \in 1..(p - 1)
    BY <1>1, <2>2
  <2> HIDE DEF p
  <2>4. \A j \in 1..(p - 1) : s[j] \in Blank \cup {"lcom"}
    BY <1>12, <2>1
  <2> QED
    BY <1>5, <2>3, <2>4 DEF Blank
<1>9. ASSUME NEW i \in 1..Len(b) PROVE b[i] # "nl"
  <2> SUFFICES ASSUME b[i] = "nl" PROVE FALSE
    OBVIOUS
  <2> DEFINE p == l + i
  <2>1. p \in 1..Len(s) /\ s[p] = "nl" /\ i > 1
    BY <1>2, <1>5
  <2>2. i - 1 \in 1..Len(b) /\ l + (i - 1) = p - 1 /\ p \in Nat
    BY <1>1, <2>1
  <2>3. i - 1 # 1 => i - 2 \in 1..Len(b) /\ l + (i - 2) = p - 2
    BY <1>1, <2>1
  <2> HIDE DEF p
  <2>4. s[p - 1] = "lcom" \/ (s[p - 1] = "nl" /\ s[p - 2] = "lcom")
    BY <1>12, <2>1
  <2>5. s[p - 1] = b[i - 1]
    BY <1>2, <2>2
  <2>6. b[i - 1] = "nl" /\ s[p - 2] = "lcom"
    BY <1>8, <2>2, <2>4, <2>5
  <2>7. i - 1 # 1
    BY <1>5, <2>6
  <2>8. i - 2 \in 1..Len(b) /\ b[i - 2] = s[p - 2]
    BY <1>2, <2>3, <2>7
  <2> QED
    BY <1>8, <2>6, <2>8
<1>10. Len(b) > 1 /\ \A i \in 1..(Len(b) - 1) : b[i] = "word"
  <2>1. Len(b) # 1
    BY <1>5, <1>6
  <2>2. ASSUME NEW i \in 1..(Len(b) - 1) PROVE b[i] = "word"
    <3>1. i \in 1..Len(b) /\ i # Len(b)
      BY <1>1, <2>2
    <3> QED
      BY <1>4, <1>7, <1>8, <1>9, <3>1
  <2>3. Len(b) > 1
    <3>1. \A x \in Nat : x > 0 /\ x # 1 => x > 1
      OBVIOUS
    <3> QED
      BY <1>1, <2>1, <3>1, Zenon
  <2> QED
    BY <2>2, <2>3
<1>11. FirstOf(b, Words) = 1..(Len(b) - 1)
  <2> DEFINE q == Len(b)
  <2>1. q \in 1..(Len(b) + 1) /\ Words \cap {"semi", "nul"} = {}
    BY <1>1 DEF Words
  <2>2. \A i \in 1..(q - 1) : b[i] \notin {"semi", "nul"} /\ b[i] \in Words
    BY <1>10 DEF Words
  <2>3. q <= Len(b) => b[q] \in {"semi", "nul"}
    BY <1>6
  <2> HIDE DEF q
  <2>4. \A i : i \in FirstOf(b, Words) <=> i \in 1..(q - 1) /\ b[i] \in Words
    BY <2>1, <2>2, <2>3, FirstOfBefore
  <2>5. FirstOf(b, Words) = 1..(q - 1)
    BY <2>2, <2>4
  <2> QED
    BY <2>5 DEF q
<1> QED
  BY <1>6, <1>10, <1>11

-----------------------------------------------------------------------------
(* One turn of the comment loop.                                           *)

(* What is kept of a comment and the blanks after it: the newlines that    *)
(* are there, two at most.                                                 *)
LEMMA KeptSpec ==
  ASSUME NEW b \in Seq(Lexeme), HasLeadingComment(b)
  PROVE  LET a == AfterFound(b)
             m == Len(Kept(b))
         IN  /\ a \in 2..(Len(b) + 1) /\ Len(b) \in Nat /\ b[1] = "lcom"
             /\ \A i \in 2..(a - 1) : b[i] \in Blank
             /\ a <= Len(b) => b[a] \notin Blank
             /\ m \in 1..3 /\ Kept(b)[1] = "lcom" /\ \A i \in 2..m : Kept(b)[i] = "nl"
             /\ m = 1 <=> \A i \in 2..(a - 1) : b[i] # "nl"
             /\ m = 3 <=> \E i, j \in 2..(a - 1) : i # j /\ b[i] = "nl" /\ b[j] = "nl"
<1> DEFINE a   == AfterFound(b)
           m   == Len(Kept(b))
           nls == {i \in 2..(a - 1) : b[i] = "nl"}
<1>1. a \in 2..(Len(b) + 1) /\ Len(b) \in Nat /\ b[1] = "lcom"
  BY AfterFoundRange DEF HasLeadingComment
<1>2. /\ \A i \in 2..(a - 1) : b[i] \in Blank
      /\ a <= Len(b) => b[a] \notin Blank
  <2>1. 2 \in 1..(Len(b) + 1)
    BY <1>1
  <2> QED
    BY <2>1, FirstNotSpec DEF AfterFound
<1>3. CASE nls = {}
  <2>1. Kept(b) = <<"lcom">> \o <<>>
    BY <1>3 DEF Kept, KeptNewlines
  <2>2. Kept(b) = <<"lcom">>
    BY <2>1
  <2>3. m = 1 /\ Kept(b)[1] = "lcom"
    BY <2>2
  <2>4. m \in 1..3 /\ \A i \in 2..m : Kept(b)[i] = "nl"
    BY <2>3
  <2>5. m = 1 <=> \A i \in 2..(a - 1) : b[i] # "nl"
    BY <1>3, <2>3
  <2>6. m = 3 <=> \E i, j \in 2..(a - 1) : i # j /\ b[i] = "nl" /\ b[j] = "nl"
    BY <1>3, <2>3
  <2> QED
    BY <1>1, <1>2, <2>3, <2>4, <2>5, <2>6
<1>4. CASE nls # {} /\ ~ \E i, j \in nls : i # j
  <2>1. Kept(b) = <<"lcom">> \o <<"nl">>
    BY <1>4, Zenon DEF Kept, KeptNewlines
  <2>2. m = 2 /\ Kept(b)[1] = "lcom" /\ Kept(b)[2] = "nl"
    BY <2>1
  <2>3. m \in 1..3 /\ Kept(b)[1] = "lcom" /\ \A i \in 2..m : Kept(b)[i] = "nl"
    BY <2>2
  <2> QED
    BY <1>1, <1>2, <1>4, <2>2, <2>3, SMTT(30)
<1>5. CASE \E i, j \in nls : i # j
  <2>1. Kept(b) = <<"lcom">> \o <<"nl", "nl">>
    BY <1>5, Zenon DEF Kept, KeptNewlines
  <2>2. m = 3 /\ Kept(b)[1] = "lcom" /\ Kept(b)[2] = "nl" /\ Kept(b)[3] = "nl"
    BY <2>1
  <2>3. m \in 1..3 /\ Kept(b)[1] = "lcom" /\ \A i \in 2..m : Kept(b)[i] = "nl"
    BY <2>2
  <2> QED
    BY <1>1, <1>2, <1>5, <2>2, <2>3
<1> QED
  BY <1>3, <1>4, <1>5

(* From the output h and the text b to the output h2 and the text b2: the  *)
(* number of comments is kept, and a text that is formatted is kept.       *)
CommentTaken(h, b, h2, b2) ==
    /\ HeadForm(h2) /\ h2 \in Seq(Lexeme) /\ b2 \in Seq(Lexeme)
    /\ b2 # <<>> => b2[1] \notin Blank /\ h2[Len(h2)] = "nl"
    /\ Cardinality(LeadingComments(b)) + Count(h, {"lcom"}) =
          Cardinality(LeadingComments(b2)) + Count(h2, {"lcom"})
    /\ \A s \in Seq(Lexeme) : Formatted(s) /\ Joined(h, b, s) => Joined(h2, b2, s)

LEMMA CommentStep ==
  ASSUME NEW h \in Seq(Lexeme), HeadForm(h), h = <<>> \/ h[Len(h)] = "nl",
         NEW b \in Seq(Lexeme), HasLeadingComment(b), Len(b) > 1 => b[2] = "nl",
         NEW h2, h2 = h \o Kept(b), NEW b2, b2 = SubSeq(b, AfterFound(b), Len(b))
  PROVE  CommentTaken(h, b, h2, b2)
<1> DEFINE a == AfterFound(b)
           m == Len(Kept(b))
           k == Kept(b)
           l == Len(h)
<1>1. /\ a \in 2..(Len(b) + 1) /\ Len(b) \in Nat /\ b[1] = "lcom"
      /\ \A i \in 2..(a - 1) : b[i] \in Blank
      /\ a <= Len(b) => b[a] \notin Blank
      /\ m \in 1..3 /\ k[1] = "lcom" /\ \A i \in 2..m : k[i] = "nl"
      /\ m = 1 <=> \A i \in 2..(a - 1) : b[i] # "nl"
      /\ m = 3 <=> \E i, j \in 2..(a - 1) : i # j /\ b[i] = "nl" /\ b[j] = "nl"
  BY KeptSpec
<1>2. k \in Seq(Lexeme) /\ l \in Nat
  BY KeptForms
<1>3. /\ h2 \in Seq(Lexeme) /\ Len(h2) = l + m
      /\ \A i \in 1..l : h2[i] = h[i]
      /\ \A i \in 1..m : h2[l + i] = k[i]
  <2> HIDE DEF k
  <2> QED
    BY <1>2, ConcatProperties DEF k
<1>4. /\ b2 \in Seq(Lexeme) /\ Len(b2) = Len(b) + 1 - a
      /\ \A i \in 1..Len(b2) : b2[i] = b[a - 1 + i]
  <2>1. a \in 1..(Len(b) + 1)
    BY <1>1
  <2> QED
    BY <2>1, SuffixSpec
<1> HIDE DEF a, m, k, l
<1>5. h2[l + 1] = "lcom" /\ \A i \in 2..m : h2[l + i] = "nl"
  <2>1. 1 \in 1..m /\ \A i \in 2..m : i \in 1..m
    BY <1>1
  <2> QED
    BY <1>1, <1>3, <2>1, ZenonT(40)
<1>6. l = 0 \/ (l > 0 /\ h[l] = "nl")
  BY <1>2, EmptySeq DEF l
<1>7. HeadForm(h2)
  <2> SUFFICES ASSUME NEW i \in 1..Len(h2)
               PROVE  /\ h2[i] \in {"lcom", "nl"}
                      /\ h2[i] = "nl" => /\ i > 1
                                         /\ h2[i-1] = "lcom" \/ (i > 2 /\ h2[i-2] = "lcom")
                      /\ h2[i] = "lcom" /\ i < Len(h2) => h2[i+1] = "nl"
    BY DEF HeadForm
  <2>1. CASE i <= l
    <3>1. i \in 1..Len(h) /\ h2[i] = h[i]
      BY <1>3, <2>1 DEF l
    <3>2. /\ h[i] \in {"lcom", "nl"}
          /\ h[i] = "nl" => i > 1 /\ (h[i-1] = "lcom" \/ (i > 2 /\ h[i-2] = "lcom"))
          /\ h[i] = "lcom" /\ i < l => h[i+1] = "nl"
      BY <3>1 DEF HeadForm, l
    <3>3. i \in Nat /\ l \in Nat /\ i <= l
      BY <1>2, <2>1
    <3>4. /\ i > 1 => i - 1 \in 1..l
          /\ i > 2 => i - 2 \in 1..l
          /\ i < l => i + 1 \in 1..l
      BY ONLY <3>3
    <3>5. i > 1 => h2[i-1] = h[i-1]
      BY <1>3, <3>4, Zenon
    <3>6. i > 2 => h2[i-2] = h[i-2]
      BY <1>3, <3>4, Zenon
    <3>7. i < l => h2[i+1] = h[i+1]
      BY <1>3, <3>4, Zenon
    <3>8. i = l => h[i] = "nl"
      BY <1>6
    <3> QED
      BY <1>2, <2>1, <3>1, <3>2, <3>5, <3>6, <3>7, <3>8
  <2>2. CASE i = l + 1
    <3>1. h2[i] = "lcom"
      BY <1>5, <2>2
    <3>2. i < Len(h2) => 2 \in 2..m /\ l + 2 = i + 1
      BY <1>1, <1>2, <1>3, <2>2
    <3>3. i < Len(h2) => h2[i+1] = "nl"
      BY <1>5, <3>2
    <3> QED
      BY <3>1, <3>3
  <2>3. CASE i = l + 2
    <3>1. 2 \in 2..m /\ i - 1 = l + 1 /\ i > 1
      BY <1>1, <1>2, <1>3, <2>3
    <3>2. h2[i] = "nl"
      BY <1>5, <2>3, <3>1, Zenon
    <3>3. h2[i-1] = "lcom"
      BY <1>5, <3>1, Zenon
    <3> QED
      BY <3>1, <3>2, <3>3
  <2>4. CASE i = l + 3
    <3>1. 3 \in 2..m /\ i - 2 = l + 1 /\ i > 2
      BY <1>1, <1>2, <1>3, <2>4
    <3>2. h2[i] = "nl"
      BY <1>5, <2>4, <3>1, Zenon
    <3>3. h2[i-2] = "lcom"
      BY <1>5, <3>1, Zenon
    <3> QED
      BY <3>1, <3>2, <3>3
  <2>5. i \in 1..(l + m) /\ l \in Nat /\ m \in 1..3
    BY <1>1, <1>2, <1>3
  <2>6. i <= l \/ i = l + 1 \/ i = l + 2 \/ i = l + 3
    BY ONLY <2>5
  <2> QED
    BY <2>1, <2>2, <2>3, <2>4, <2>6, Zenon
<1>8. ASSUME b2 # <<>> PROVE b2[1] \notin Blank /\ h2[Len(h2)] = "nl"
  <2>1. Len(b2) > 0 /\ a <= Len(b)
    BY <1>1, <1>4, <1>8, EmptySeq
  <2>2. b2[1] = b[a]
    <3>1. 1 \in 1..Len(b2) /\ a - 1 + 1 = a
      BY <1>1, <1>4, <2>1
    <3>2. b2[1] = b[a - 1 + 1]
      BY <1>4, <3>1, Zenon
    <3> QED
      BY <3>1, <3>2, Zenon
  <2>3. b[2] = "nl" /\ 2 \in Nat
    BY <1>1, <2>1
  <2>4. a # 2
    BY <1>1, <2>1, <2>3 DEF Blank
  <2>5. 2 \in 2..(a - 1)
    BY <1>1, <2>4
  <2>6. m # 1
    BY <1>1, <2>3, <2>5
  <2>7. m \in 2..m /\ l + m = Len(h2)
    BY <1>1, <1>2, <1>3, <2>6
  <2>8. h2[Len(h2)] = "nl"
    BY <1>5, <2>7
  <2> QED
    BY <1>1, <2>1, <2>2, <2>8
<1>9. Cardinality(LeadingComments(b)) + Count(h, {"lcom"}) =
         Cardinality(LeadingComments(b2)) + Count(h2, {"lcom"})
  <2>1. Count(k, {"lcom"}) = 1
    <3>1. \A i : i \in At(k, {"lcom"}) <=> i = 1
      <4>1. ASSUME NEW i \in At(k, {"lcom"}) PROVE i = 1
        <5>1. i \in 1..m /\ k[i] = "lcom"
          BY DEF At, k, m
        <5>2. i # 1 => i \in 2..m
          BY <1>1, <5>1
        <5> QED
          BY <1>1, <5>1, <5>2
      <4>2. 1 \in At(k, {"lcom"})
        BY <1>1 DEF At, k, m
      <4> QED
        BY <4>1, <4>2
    <3>2. At(k, {"lcom"}) = {1}
      BY <3>1
    <3> QED
      BY <3>2, FS_Singleton DEF Count
  <2>2. Count(h2, {"lcom"}) = Count(h, {"lcom"}) + 1 /\ Count(h, {"lcom"}) \in Nat
    <3>1. h2 = h \o k
      BY DEF k
    <3>2. Count(h \o k, {"lcom"}) = Count(h, {"lcom"}) + Count(k, {"lcom"})
      BY <1>2, CountConcat
    <3>3. Count(h, {"lcom"}) \in Nat
      BY CountType
    <3> QED
      BY <2>1, <3>1, <3>2, <3>3
  <2>3. Placed(b, b2, a - 1)
    <3>1. (a - 1) + Len(b2) = Len(b)
      BY <1>1, <1>4
    <3>2. \A i \in 1..(a - 1) : b[i] \in Lead
      <4> SUFFICES ASSUME NEW i \in 1..(a - 1) PROVE b[i] \in Lead
        OBVIOUS
      <4>1. CASE i = 1
        BY <1>1, <4>1, LeadFacts
      <4>2. CASE i # 1
        <5>1. i \in 2..(a - 1)
          BY <1>1, <4>2
        <5> QED
          BY <1>1, <5>1, LeadFacts
      <4> QED
        BY <4>1, <4>2
    <3>3. \A i \in ((a - 1) + Len(b2) + 1)..Len(b) : b[i] \in Blank
      BY <1>1, <1>4, <3>1
    <3>4. (a - 1) + Len(b2) <= Len(b)
      BY <1>1, <1>4, <3>1
    <3> QED
      BY <1>1, <1>4, <3>2, <3>3, <3>4 DEF Placed
  <2> DEFINE head == {i \in 1..(a - 1) : b[i] = "lcom"}
             p == a - 1
  <2>4. Cardinality(head) = 1
    <3>1. head = {1}
      <4>1. ASSUME NEW i \in head PROVE i = 1
        <5>1. i # 1 => i \in 2..(a - 1)
          BY <1>1
        <5> QED
          BY <1>1, <5>1 DEF Blank
      <4>2. 1 \in head
        BY <1>1
      <4> QED
        BY <4>1, <4>2
    <3> HIDE DEF head
    <3> QED
      BY <3>1, FS_Singleton
  <2>5. p \in 0..Len(b) /\ Placed(b, b2, p) /\ head = {i \in 1..p : b[i] = "lcom"}
    BY <1>1, <2>3
  <2> HIDE DEF p, head
  <2>6. /\ Cardinality(LeadingComments(b)) = Cardinality(head) + Cardinality(LeadingComments(b2))
        /\ Cardinality(LeadingComments(b2)) \in Nat
    BY <1>4, <2>5, LeadingCommentsPlaced
  <2> QED
    BY <2>2, <2>4, <2>6
<1>10. ASSUME NEW s \in Seq(Lexeme), Formatted(s), Joined(h, b, s)
       PROVE  Joined(h2, b2, s)
  <2>1. /\ Len(s) = l + Len(b)
        /\ \A i \in 1..l : s[i] = h[i]
        /\ \A i \in 1..Len(b) : s[l + i] = b[i]
    BY <1>10 DEF Joined, l
  <2>2. \A p \in 1..Len(s) :
            /\ s[p] \in {"lcom", "nl", "word", "semi"}
            /\ s[p] = "nl" => s[p-1] = "lcom" \/ (s[p-1] = "nl" /\ s[p-2] = "lcom")
    BY <1>10 DEF Formatted
  <2>3. \A i \in 1..Len(b) : l + i \in 1..Len(s)
    BY <1>1, <1>2, <2>1
  <2>4. \A i \in 2..(a - 1) : b[i] = "nl"
    <3> SUFFICES ASSUME NEW i \in 2..(a - 1) PROVE b[i] = "nl"
      OBVIOUS
    <3>1. i \in 1..Len(b)
      BY <1>1
    <3>2. s[l + i] = b[i] /\ l + i \in 1..Len(s)
      BY <2>1, <2>3, <3>1
    <3>3. s[l + i] \in {"lcom", "nl", "word", "semi"}
      BY <2>2, <3>2
    <3> QED
      BY <1>1, <3>2, <3>3 DEF Blank
  \* A third newline after the comment is in no text FormatSQL writes.
  <2>5. a \in 2..4
    <3> SUFFICES ASSUME a > 4 PROVE FALSE
      BY <1>1
    <3>1. /\ 2 \in 2..(a - 1) /\ 3 \in 2..(a - 1) /\ 4 \in 2..(a - 1)
          /\ 2 \in 1..Len(b) /\ 3 \in 1..Len(b) /\ 4 \in 1..Len(b)
      BY <1>1
    <3>2. b[2] = "nl" /\ b[3] = "nl" /\ b[4] = "nl"
      BY <2>4, <3>1
    <3> DEFINE p == l + 4
    <3>3. p \in 1..Len(s) /\ s[p] = "nl" /\ s[p-1] = "nl" /\ s[p-2] = "nl"
      <4>1. p - 1 = l + 3 /\ p - 2 = l + 2
        BY <1>2
      <4>2. s[l + 4] = "nl" /\ s[l + 3] = "nl" /\ s[l + 2] = "nl"
        BY <2>1, <3>1, <3>2
      <4> QED
        BY <2>3, <3>1, <4>1, <4>2
    <3> HIDE DEF p
    <3> QED
      BY <2>2, <3>3
  <2>6. m = a - 1
    <3>1. CASE a = 2
      BY <1>1, <3>1
    <3>2. CASE a = 3
      <4>1. m # 1
        BY <1>1, <2>4, <3>2
      <4>2. m # 3
        BY <1>1, <3>2
      <4> QED
        BY <1>1, <3>2, <4>1, <4>2
    <3>3. CASE a = 4
      <4>1. 2 \in 2..(a - 1) /\ 3 \in 2..(a - 1) /\ 2 # 3
        BY <3>3
      <4>2. m = 3
        BY <1>1, <2>4, <4>1
      <4> QED
        BY <3>3, <4>2
    <3> QED
      BY <2>5, <3>1, <3>2, <3>3
  <2>7. Len(s) = Len(h2) + Len(b2)
    BY <1>1, <1>2, <1>3, <1>4, <2>1, <2>6
  <2>8. ASSUME NEW i \in 1..Len(h2) PROVE s[i] = h2[i]
    <3>1. CASE i <= l
      BY <1>2, <1>3, <2>1, <3>1
    <3>2. CASE i > l
      <4>1. PICK j \in 1..m : i = l + j
        <5>1. i - l \in 1..m /\ i = l + (i - l)
          BY <1>1, <1>2, <1>3, <3>2
        <5> QED
          BY <5>1
      <4>2. j \in 1..Len(b)
        BY <1>1, <2>6
      <4>3. s[l + j] = b[j] /\ h2[l + j] = k[j]
        BY <1>3, <2>1, <4>2
      <4>4. b[j] = k[j]
        <5>1. CASE j = 1
          BY <1>1, <5>1
        <5>2. CASE j # 1
          <6>1. j \in 2..m /\ j \in 2..(a - 1)
            BY <1>1, <2>6, <5>2
          <6> QED
            BY <1>1, <2>4, <6>1
        <5> QED
          BY <5>1, <5>2
      <4> QED
        BY <4>1, <4>3, <4>4
    <3> QED
      BY <1>2, <1>3, <3>1, <3>2
  <2>9. ASSUME NEW i \in 1..Len(b2) PROVE s[Len(h2) + i] = b2[i]
    <3>1. a - 1 + i \in 1..Len(b) /\ Len(h2) + i = l + (a - 1 + i)
      BY <1>1, <1>2, <1>3, <1>4, <2>6
    <3> QED
      BY <1>4, <2>1, <3>1
  <2> QED
    BY <2>7, <2>8, <2>9 DEF Joined
<1> QED
  BY <1>3, <1>4, <1>7, <1>8, <1>9, <1>10, Zenon DEF CommentTaken

-----------------------------------------------------------------------------
(* The invariant of the form: at every point of the call the output is the *)
(* head of what FormatSQL returns, and the rest of the text is what must   *)
(* follow that head.                                                       *)

LEMMA LeadingCommentsType ==
  ASSUME NEW s \in Seq(Lexeme)
  PROVE  /\ IsFiniteSet(LeadingComments(s)) /\ Cardinality(LeadingComments(s)) \in Nat
         /\ s # <<>> /\ s[1] \notin Lead => Cardinality(LeadingComments(s)) = 0
         /\ s = <<>> => Cardinality(LeadingComments(s)) = 0
<1>1. Len(s) \in Nat /\ LeadingComments(s) \subseteq 1..Len(s)
  BY DEF LeadingComments
<1>2. IsFiniteSet(LeadingComments(s)) /\ Cardinality(LeadingComments(s)) \in Nat
  BY <1>1, FiniteRange
<1>3. ASSUME s # <<>> => s[1] \notin Lead PROVE LeadingComments(s) = {}
  <2> SUFFICES ASSUME NEW i \in LeadingComments(s) PROVE FALSE
    OBVIOUS
  <2>1. i \in 1..Len(s) /\ s[i] = "lcom" /\ \A j \in 1..(i-1) : s[j] \in Lead
    BY DEF LeadingComments, Lead
  <2>2. s # <<>>
    BY <1>1, <2>1
  <2>3. i # 1
    BY <1>3, <2>1, <2>2, LeadFacts
  <2>4. 1 \in 1..(i-1)
    BY <2>1, <2>3
  <2> QED
    BY <1>3, <2>1, <2>2, <2>4
<1>4. Cardinality({}) = 0
  BY FS_EmptySet
<1> QED
  BY <1>2, <1>3, <1>4

(* h is the head of the output so far and body what is left of the text:   *)
(* if the text is formatted already, it is the one followed by the other.  *)
HeadOf(h, body) ==
    /\ HeadForm(h)
    /\ body # <<>> => h = <<>> \/ h[Len(h)] = "nl"
    /\ Formatted(input) => Joined(h, body, input)

(* Nothing is missing from the head. *)
HeadDone(h, body) ==
    /\ HeadOf(h, body)
    /\ body # <<>> => body[1] \notin Lead
    /\ Cardinality(LeadingComments(input)) = Count(h, {"lcom"})

Forming == {"parse", "scanFirst", "scanRest"} \cup Driver

TrimForm ==
    pc = "trim" =>
        /\ HeadOf(prettied, stmt)
        /\ Cardinality(LeadingComments(input)) =
              Count(prettied, {"lcom"}) + Cardinality(LeadingComments(stmt))
        /\ stmt # <<>> => stmt[1] \notin Blank

CutForm ==
    /\ pc = "split" => HeadDone(prettied, stmt)
    /\ pc \in Forming => HeadDone(prettied, next)
    /\ pc = "print" /\ printed = 0 => HeadDone(prettied, next)

PrintForm ==
    pc = "print" /\ printed # 0 =>
        /\ Total > 0
        /\ \E h \in Seq(Lexeme) : HeadDone(h, next) /\ Printed(h, Total, prettied)

ParsedInv == allParsed # <<>> => Len(allParsed[1]) > 0

FormInv == TrimForm /\ CutForm /\ PrintForm /\ ParsedInv /\ FormatStable

LEMMA FormattedEnds ==
  ASSUME NEW s \in Seq(Lexeme), Formatted(s), s # <<>>
  PROVE  Len(s) \in 1..Len(s) /\ s[1] \notin Blank /\ s[Len(s)] \notin Blank
<1>1. Len(s) \in Nat /\ Len(s) > 0
  BY EmptySeq
<1>2. \A i \in 1..Len(s) : /\ s[i] \in {"lcom", "nl", "word", "semi"}
                           /\ s[i] = "nl" => i \in 2..(Len(s) - 1)
  BY DEF Formatted
<1>3. 1 \in 1..Len(s) /\ Len(s) \in 1..Len(s)
  BY <1>1
<1>4. s[1] \notin Blank
  <2>1. s[1] # "nl"
    BY <1>1, <1>2, <1>3
  <2>2. s[1] \in {"lcom", "nl", "word", "semi"}
    BY <1>2, <1>3
  <2> QED
    BY <2>1, <2>2 DEF Blank
<1>5. s[Len(s)] \notin Blank
  <2>1. s[Len(s)] # "nl"
    BY <1>1, <1>2, <1>3
  <2>2. s[Len(s)] \in {"lcom", "nl", "word", "semi"}
    BY <1>2, <1>3
  <2> QED
    BY <2>1, <2>2 DEF Blank
<1> QED
  BY <1>3, <1>4, <1>5

LEMMA InitForm == Init => FormInv
<1> SUFFICES ASSUME Init PROVE FormInv
  OBVIOUS
<1>1. /\ input \in Seq(Lexeme) /\ pc = "trim" /\ stmt = TrimSpace(input)
      /\ prettied = <<>> /\ allParsed = <<>>
  BY InputsAssumption DEF Init
<1>2. stmt \in Seq(Lexeme)
  BY <1>1, TrimSpaceType
<1>3. PICK k \in 0..Len(input) : Trimmed(input, stmt, k)
  BY <1>1, TrimSpaceSpec
<1>4. Placed(input, stmt, k) /\ \A i \in 1..k : input[i] \in Blank
  BY <1>3, LeadFacts DEF Trimmed, Placed
<1>5. Cardinality(LeadingComments(input)) = Cardinality(LeadingComments(stmt))
  <2> DEFINE head == {i \in 1..k : input[i] = "lcom"}
  <2>1. head = {}
    BY <1>4 DEF Blank
  <2>2. /\ Cardinality(LeadingComments(input)) =
              Cardinality(head) + Cardinality(LeadingComments(stmt))
        /\ Cardinality(LeadingComments(stmt)) \in Nat
    BY <1>1, <1>2, <1>4, LeadingCommentsPlaced
  <2> HIDE DEF head
  <2>3. Cardinality(head) = 0
    BY <2>1, FS_EmptySet
  <2> QED
    BY <2>2, <2>3
<1>6. Formatted(input) => Joined(<<>>, stmt, input)
  <2> SUFFICES ASSUME Formatted(input) PROVE Joined(<<>>, stmt, input)
    OBVIOUS
  <2>0. Len(input) \in Nat /\ Len(stmt) \in Nat
    BY <1>1, <1>2
  <2>1. CASE input = <<>>
    <3>1. Len(input) = 0 /\ Len(stmt) = 0
      BY <2>0, <2>1, <1>3 DEF Trimmed
    <3> QED
      BY <3>1 DEF Joined
  <2>2. CASE input # <<>>
    <3> DEFINE n == Len(input)
    <3>1. n \in 1..Len(input) /\ input[1] \notin Blank /\ input[n] \notin Blank
      BY <1>1, <2>2, FormattedEnds
    <3>2. \A i \in (n + 1)..Len(input) : input[i] \in Blank
      BY <2>0
    <3> HIDE DEF n
    <3>3. Len(stmt) = n /\ \A i \in 1..n : stmt[i] = input[i]
      BY <1>1, <3>1, <3>2, TrimTo
    <3>4. Len(<<>>) = 0 /\ \A i \in 1..n : 0 + i = i
      BY <2>0 DEF n
    <3> QED
      BY <2>0, <3>3, <3>4 DEF Joined, n
  <2> QED
    BY <2>1, <2>2
<1>7. HeadOf(prettied, stmt)
  <2>1. HeadForm(<<>>)
    BY DEF HeadForm
  <2> QED
    BY <1>1, <1>6, <2>1 DEF HeadOf
<1>8. Count(prettied, {"lcom"}) = 0
  <2>1. <<>> \in Seq(Lexeme) /\ \A i \in 1..Len(<<>>) : <<>>[i] \notin {"lcom"}
    OBVIOUS
  <2> QED
    BY <1>1, <2>1, CountNone
<1>9. stmt # <<>> => stmt[1] \notin Blank
  BY <1>3 DEF Trimmed
<1>10. Cardinality(LeadingComments(stmt)) \in Nat
  BY <1>2, LeadingCommentsType
<1>11. TrimForm
  BY <1>5, <1>7, <1>8, <1>9, <1>10 DEF TrimForm
<1> QED
  BY <1>1, <1>11 DEF FormInv, CutForm, PrintForm, ParsedInv, FormatStable, Succeeded,
                     Forming, Driver

LEMMA TrimCommentForm == Inv /\ FirstInv /\ FormInv /\ TrimComment => FormInv'
<1> SUFFICES ASSUME Inv, FirstInv, FormInv, TrimComment PROVE FormInv'
  OBVIOUS
<1> DEFINE h  == prettied
           h2 == prettied'
           b  == stmt
           b2 == stmt'
<1>1. /\ pc = "trim" /\ pc' = "trim" /\ HasLeadingComment(b)
      /\ h2 = h \o Kept(b) /\ b2 = SubSeq(b, AfterFound(b), Len(b))
      /\ input' = input /\ allParsed' = allParsed
  BY DEF TrimComment, parsVars
<1>2. h \in Seq(Lexeme) /\ b \in Seq(Lexeme) /\ input \in Seq(Lexeme) /\ b # <<>>
  BY <1>1, InputType DEF Inv, TypeOK, HasLeadingComment
<1>3. /\ HeadForm(h)
      /\ h = <<>> \/ h[Len(h)] = "nl"
      /\ Formatted(input) => Joined(h, b, input)
      /\ Cardinality(LeadingComments(input)) =
            Count(h, {"lcom"}) + Cardinality(LeadingComments(b))
  BY <1>1, <1>2 DEF FormInv, TrimForm, HeadOf
<1>4. Len(b) > 1 => b[2] = "nl"
  <2> SUFFICES ASSUME Len(b) > 1 PROVE b[2] = "nl"
    OBVIOUS
  <2>1. PICK k \in 0..Len(input) : Placed(input, stmt, k)
    BY <1>1 DEF FirstInv, RestInv
  <2>2. /\ k + Len(b) <= Len(input) /\ \A i \in 1..Len(b) : b[i] = input[k + i]
        /\ k \in Nat /\ Len(b) \in Nat /\ Len(input) \in Nat
    BY <1>2, <2>1 DEF Placed
  <2>3. /\ 1 \in 1..Len(b) /\ 2 \in 1..Len(b) /\ k + 1 \in 1..Len(input)
        /\ k + 1 < Len(input) /\ (k + 1) + 1 = k + 2
    BY <2>2
  <2>4. b[1] = "lcom" /\ b[1] = input[k + 1] /\ b[2] = input[k + 2]
    BY <1>1, <2>2, <2>3 DEF HasLeadingComment
  <2>5. WellFormed(input)
    BY InputsAssumption DEF Inv, TypeOK
  <2>6. \A i \in 1..Len(input) : input[i] = "lcom" /\ i < Len(input) => input[i+1] = "nl"
    BY <2>5 DEF WellFormed
  <2> QED
    BY <2>3, <2>4, <2>6
<1> HIDE DEF h, h2, b, b2
<1>5. CommentTaken(h, b, h2, b2)
  BY <1>1, <1>2, <1>3, <1>4, CommentStep
<1>6. HeadOf(prettied, stmt)'
  <2>1. Formatted(input) => Joined(h2, b2, input)
    BY <1>2, <1>3, <1>5, Zenon DEF CommentTaken
  <2> QED
    BY <1>1, <1>5, <2>1 DEF HeadOf, CommentTaken, h2, b2
<1>7. Cardinality(LeadingComments(input)) =
         Count(h2, {"lcom"}) + Cardinality(LeadingComments(b2))
  <2>1. /\ Cardinality(LeadingComments(b)) \in Nat /\ Cardinality(LeadingComments(b2)) \in Nat
        /\ Count(h, {"lcom"}) \in Nat /\ Count(h2, {"lcom"}) \in Nat
    BY <1>2, <1>5, LeadingCommentsType, CountType DEF CommentTaken
  <2> QED
    BY <1>3, <1>5, <2>1 DEF CommentTaken
<1>8. TrimForm'
  BY <1>1, <1>5, <1>6, <1>7, Zenon DEF TrimForm, CommentTaken, h2, b2
<1> QED
  BY <1>1, <1>8 DEF FormInv, CutForm, PrintForm, ParsedInv, FormatStable, Succeeded,
                    Forming, Driver

LEMMA TrimDoneForm == Inv /\ FormInv /\ TrimDone => FormInv'
<1> SUFFICES ASSUME Inv, FormInv, TrimDone PROVE FormInv'
  OBVIOUS
<1>1. /\ pc = "trim" /\ pc' = "split" /\ ~HasLeadingComment(stmt)
      /\ UNCHANGED <<input, stmt, prettied, allParsed>>
  BY DEF TrimDone, fmtVars, parsVars
<1>2. stmt \in Seq(Lexeme) /\ prettied \in Seq(Lexeme)
  BY DEF Inv, TypeOK
<1>3. stmt # <<>> => stmt[1] \notin Lead
  BY <1>1 DEF FormInv, TrimForm, HasLeadingComment, Lead
<1>4. Cardinality(LeadingComments(input)) = Count(prettied, {"lcom"})
  <2>1. Cardinality(LeadingComments(stmt)) = 0
    BY <1>2, <1>3, LeadingCommentsType
  <2>2. Count(prettied, {"lcom"}) \in Nat
    BY <1>2, CountType
  <2> QED
    BY <1>1, <2>1, <2>2 DEF FormInv, TrimForm
<1>5. HeadDone(prettied, stmt)'
  BY <1>1, <1>3, <1>4 DEF FormInv, TrimForm, HeadDone, HeadOf
<1> QED
  BY <1>1, <1>5 DEF FormInv, TrimForm, CutForm, PrintForm, ParsedInv, FormatStable, Succeeded,
                    Forming, Driver

LEMMA SplitScanForm == Inv /\ FormInv /\ SplitScan => FormInv'
<1> SUFFICES ASSUME Inv, FormInv, SplitScan PROVE FormInv'
  OBVIOUS
<1> DEFINE id == Scan(stmt, pos).id
           q  == Scan(stmt, pos).pos
           n  == Scan(stmt, pos).next
<1>1. /\ pc = "split" /\ HeadDone(prettied, stmt)
      /\ stmt \in Seq(Lexeme) /\ pos \in 1..(Len(stmt) + 1) /\ input \in Seq(Lexeme)
      /\ prettied \in Seq(Lexeme)
      /\ UNCHANGED <<input, prettied, printed, allParsed>>
  <2>1. pc = "split"
    BY DEF SplitScan
  <2> QED
    BY <2>1, InputType
    DEF Inv, TypeOK, SplitInv, SplitScan, parsVars, FormInv, CutForm
<1>2. Scanned(stmt, pos, id, q, n)
  BY <1>1, ScanSpec
<1>3. /\ id \in {"EOF", "ERROR"} => next' = stmt /\ pc' = "parse"
      /\ id = "SEMI" => next' = SubSeq(stmt, 1, n - 1) /\ pc' = "parse"
      /\ id \notin {"EOF", "ERROR", "SEMI"} => stmt' = stmt /\ pc' = "split"
  BY <1>1 DEF SplitScan
<1> HIDE DEF id, q, n
<1>4. ASSUME id = "SEMI" PROVE HeadDone(prettied, next')
  <2>1. q \in 1..Len(stmt) /\ n - 1 = q /\ stmt[q] = "semi" /\ Len(stmt) \in Nat
    BY <1>1, <1>2, <1>4 DEF Scanned
  <2>2. next' = SubSeq(stmt, 1, q)
    BY <1>3, <1>4, <2>1
  <2>3. /\ next' \in Seq(Lexeme) /\ Len(next') = q
        /\ \A i \in 1..q : next'[i] = stmt[i]
    BY <1>1, <2>1, <2>2, SubSeqProperties
  <2>4. stmt # <<>> /\ next'[1] = stmt[1]
    BY <2>1, <2>3
  \* A text FormatSQL writes has its semicolon at the end.
  <2>5. ASSUME Formatted(input) PROVE Joined(prettied, next', input)
    <3> DEFINE l == Len(prettied)
               p == l + q
    <3>1. /\ Len(input) = l + Len(stmt) /\ l \in Nat
          /\ \A i \in 1..l : input[i] = prettied[i]
          /\ \A i \in 1..Len(stmt) : input[l + i] = stmt[i]
      BY <1>1, <2>5 DEF HeadDone, HeadOf, Joined
    <3>2. p \in 1..Len(input) /\ input[p] = "semi"
      BY <2>1, <3>1
    <3>3. \A i \in 1..Len(input) : input[i] = "semi" => i = Len(input)
      BY <2>5 DEF Formatted
    <3> HIDE DEF p
    <3>4. p = Len(input)
      BY <3>2, <3>3
    <3>5. q = Len(stmt)
      BY <2>1, <3>1, <3>4 DEF p
    <3> HIDE DEF l
    <3>6. Len(input) = l + Len(next') /\ \A i \in 1..Len(next') : input[l + i] = next'[i]
      BY <2>3, <3>1, <3>5
    <3> QED
      BY <3>1, <3>6 DEF Joined, l
  <2> QED
    BY <1>1, <2>4, <2>5 DEF HeadDone, HeadOf
<1>5. pc' \in {"parse", "split"}
  BY <1>3
<1>6. pc' = "parse" => HeadDone(prettied, next')
  <2>1. id \in {"EOF", "ERROR"} => HeadDone(prettied, next')
    BY <1>1, <1>3
  <2> QED
    BY <1>3, <1>4, <2>1
<1>7. pc' = "split" => HeadDone(prettied, stmt')
  BY <1>1, <1>3
<1>8. CutForm'
  BY <1>1, <1>5, <1>6, <1>7 DEF CutForm, HeadDone, HeadOf, Forming, Driver
<1> QED
  BY <1>1, <1>5, <1>8 DEF FormInv, TrimForm, PrintForm, ParsedInv, FormatStable, Succeeded

(* The cut and the output are left alone while the cut is parsed. *)
LEMMA FormCarried ==
  ASSUME FormInv, pc \in Forming, pc' \in Forming \cup {"panic"},
         UNCHANGED <<input, prettied, next>>,
         allParsed' \in {allParsed, <<>>}
  PROVE  FormInv'
<1>1. CutForm'
  BY DEF FormInv, CutForm, HeadDone, HeadOf, Forming, Driver
<1>2. ParsedInv'
  BY DEF FormInv, ParsedInv
<1> QED
  BY <1>1, <1>2 DEF FormInv, TrimForm, PrintForm, FormatStable, Succeeded, Forming, Driver

LEMMA ParseReturnForm == Inv /\ FirstInv /\ FormInv /\ ParseReturn => FormInv'
<1> SUFFICES ASSUME Inv, FirstInv, FormInv, ParseReturn PROVE FormInv'
  OBVIOUS
<1>1. /\ pc = "parseReturn" /\ UNCHANGED <<input, prettied, next, printed>>
      /\ \/ /\ ret # 0 /\ pc' = "done" /\ allParsed' = allParsed
            /\ result'.err = IF lex.lastError = NoError
                             THEN Details(lex.lastPos, "syntax") ELSE lex.lastError
         \/ /\ ret = 0 /\ pc' = IF done THEN "print" ELSE "scanFirst"
            /\ allParsed' = IF lex.stmt = NoStmt THEN allParsed ELSE Append(allParsed, lex.stmt)
  BY DEF ParseReturn
<1>2. HeadDone(prettied, next)'
  BY <1>1 DEF FormInv, CutForm, HeadDone, HeadOf, Forming, Driver
<1>3. printed = 0
  BY <1>1 DEF FirstInv, OutputWords, Early, Driver
<1>4. CASE ret # 0
  <2>1. pc' = "done" /\ allParsed' = allParsed
    BY <1>1, <1>4
  <2>2. lex.lastError # NoError
    BY <1>1, <1>4 DEF Inv, DriverInv
  <2>3. result'.err # NoError
    BY <1>1, <1>4, <2>2
  <2> QED
    BY <2>1, <2>3 DEF FormInv, TrimForm, CutForm, PrintForm, ParsedInv, FormatStable, Succeeded,
                      Forming, Driver
<1>5. CASE ret = 0
  <2>1. /\ pc' = IF done THEN "print" ELSE "scanFirst"
        /\ allParsed' = IF lex.stmt = NoStmt THEN allParsed ELSE Append(allParsed, lex.stmt)
    BY <1>1, <1>5
  <2>2. /\ allParsed \in Seq(Seq(Token)) /\ lex.stmt \in Seq(Token)
        /\ lex.stmt # NoStmt => allParsed = <<>>
    BY <1>1 DEF Inv, TypeOK, Lexers, OneInv, Driver
  <2>3. ParsedInv'
    <3>1. CASE lex.stmt = NoStmt
      BY <2>1, <3>1 DEF FormInv, ParsedInv
    <3>2. CASE lex.stmt # NoStmt
      <4> DEFINE one == lex.stmt
      <4>1. one \in Seq(Token) /\ Len(one) > 0
        BY <2>2, <3>2, EmptySeq DEF NoStmt
      <4>2. allParsed' = Append(<<>>, one)
        BY <2>1, <2>2, <3>2
      <4> HIDE DEF one
      <4>3. allParsed'[1] = one
        BY <4>1, <4>2
      <4> QED
        BY <4>1, <4>3 DEF ParsedInv
    <3> QED
      BY <3>1, <3>2
  <2>4. CutForm'
    BY <1>2, <2>1 DEF CutForm
  <2> QED
    BY <1>1, <1>3, <2>1, <2>3, <2>4
    DEF FormInv, TrimForm, PrintForm, FormatStable, Succeeded
<1> QED
  BY <1>4, <1>5

(* What is printed of a statement. *)
LEMMA PrintedText ==
  ASSUME NEW h \in Seq(Lexeme), NEW n \in Nat, NEW words \in Seq(Lexeme), Len(words) = n,
         \A i \in 1..n : words[i] = "word", NEW tail \in Seq(Lexeme), Len(tail) = 2,
         tail[1] = "semi", tail[2] = "nl", NEW s, s = (h \o words) \o tail
  PROVE  Printed(h, n, s)
<1> DEFINE u == h \o words
<1>1. /\ u \in Seq(Lexeme) /\ Len(u) = Len(h) + n
      /\ \A i \in 1..Len(h) : u[i] = h[i]
      /\ \A i \in 1..n : u[Len(h) + i] = words[i]
  BY ConcatProperties
<1>2. s = u \o tail
  BY DEF u
<1> HIDE DEF u
<1>3. /\ Len(s) = Len(u) + 2
      /\ \A i \in 1..Len(u) : s[i] = u[i]
      /\ \A i \in 1..2 : s[Len(u) + i] = tail[i]
  <2>1. /\ Len(u \o tail) = Len(u) + Len(tail)
        /\ \A i \in 1..Len(u) : (u \o tail)[i] = u[i]
        /\ \A i \in 1..Len(tail) : (u \o tail)[Len(u) + i] = tail[i]
    <3>1. u \in Seq(Lexeme) /\ tail \in Seq(Lexeme)
      BY <1>1
    <3> QED
      BY ONLY <3>1, ConcatProperties
  <2>2. Len(tail) = 2
    OBVIOUS
  <2> QED
    BY ONLY <1>2, <2>1, <2>2, Zenon
<1> DEFINE l == Len(h)
<1>4. l \in Nat /\ n \in Nat /\ Len(u) = l + n /\ Len(s) = l + n + 2
  BY <1>1, <1>3
<1> HIDE DEF l
<1>5. \A i \in 1..l : s[i] = h[i]
  BY <1>1, <1>3, <1>4 DEF l
<1>6. ASSUME NEW i \in 1..n PROVE s[l + i] = "word"
  <2>1. l + i \in 1..Len(u)
    BY <1>4
  <2> QED
    BY <1>1, <1>3, <2>1 DEF l
<1>7. s[l + n + 1] = "semi" /\ s[l + n + 2] = "nl"
  BY <1>3, <1>4, SMTT(30)
<1>8. ASSUME NEW i \in (l + n + 2)..Len(s) PROVE s[i] \in Blank
  <2>1. i = l + n + 2
    BY <1>4
  <2> QED
    BY <1>7, <2>1 DEF Blank
<1>9. Len(s) > l + n
  BY <1>4
<1> QED
  BY <1>5, <1>6, <1>7, <1>8, <1>9, Zenon DEF Printed, l

LEMMA PrintOneForm == Inv /\ FirstInv /\ FormInv /\ PrintOne => FormInv'
<1> SUFFICES ASSUME Inv, FirstInv, FormInv, PrintOne PROVE FormInv'
  OBVIOUS
<1> DEFINE words == [i \in 1..Total |-> "word"]
           tail  == <<"semi", "nl">>
           h     == prettied
           s     == prettied'
<1>1. /\ pc = "print" /\ pc' = "print" /\ printed = 0 /\ printed' = 1
      /\ allParsed # <<>> /\ Total \in Nat /\ h \in Seq(Lexeme)
      /\ s = (h \o words) \o tail
      /\ UNCHANGED <<input, next, allParsed>>
  BY PrintOneFacts
<1>2. /\ words \in Seq(Lexeme) /\ Len(words) = Total /\ \A i \in 1..Total : words[i] = "word"
      /\ tail \in Seq(Lexeme) /\ Len(tail) = 2 /\ tail[1] = "semi" /\ tail[2] = "nl"
  <2>1. words \in Seq(Lexeme) /\ Len(words) = Total /\ tail \in Seq(Lexeme)
        /\ \A i \in 1..Total : words[i] = "word"
    BY <1>1, PrintedForms
  <2>2. Len(tail) = 2 /\ tail[1] = "semi" /\ tail[2] = "nl"
    OBVIOUS
  <2> QED
    BY <2>1, <2>2
<1>3. HeadDone(h, next) /\ Total > 0
  BY <1>1 DEF FormInv, CutForm, ParsedInv, Total
<1> DEFINE n == Total
<1> HIDE DEF words, tail, h, s, n
<1>7. Printed(h, n, s)
  BY <1>1, <1>2, PrintedText DEF n
<1>8. PrintForm'
  <2>1. Total' = n
    BY <1>1 DEF Total, n
  <2>2. \E g \in Seq(Lexeme) : HeadDone(g, next)' /\ Printed(g, n, s)
    BY <1>1, <1>3, <1>7 DEF HeadDone, HeadOf
  <2> QED
    BY <1>1, <1>3, <2>1, <2>2 DEF PrintForm, s, n
<1>9. ParsedInv'
  BY <1>1 DEF FormInv, ParsedInv
<1> QED
  BY <1>1, <1>8, <1>9 DEF FormInv, TrimForm, CutForm, FormatStable, Succeeded, Forming, Driver

(* What is returned when nothing was parsed: the comments.                 *)
LEMMA ReturnComments ==
  ASSUME NEW h \in Seq(Lexeme), HeadDone(h, next), input \in Seq(Lexeme),
         next \in Seq(Lexeme), FirstOf(next, Words) = {},
         NEW s \in Seq(Lexeme), Len(s) >= Len(h), \A i \in 1..Len(h) : s[i] = h[i],
         \A i \in (Len(h) + 1)..Len(s) : s[i] \in Blank,
         NEW t, t = TrimSpace(s)
  PROVE  /\ Formatted(t)
         /\ Cardinality(LeadingComments(t)) = Cardinality(LeadingComments(input))
         /\ Formatted(input) => t = input
<1>1. /\ HeadForm(h)
      /\ Formatted(input) => Joined(h, next, input)
      /\ next # <<>> => next[1] \notin Lead
      /\ Cardinality(LeadingComments(input)) = Count(h, {"lcom"})
  BY DEF HeadDone, HeadOf
<1>2. /\ Formatted(t)
      /\ Cardinality(LeadingComments(t)) = Count(h, {"lcom"})
      /\ (h # <<>> => h[Len(h)] # "nl") => t = h
  BY <1>1, HeadFormatted
<1>3. ASSUME Formatted(input) PROVE t = input
  <2>1. HeadForm(h) /\ Joined(h, next, input)
    BY <1>1, <1>3
  <2>2. next = <<>>
    <3> SUFFICES ASSUME next # <<>> PROVE FALSE
      OBVIOUS
    <3>0. next[1] \notin Lead
      BY <1>1
    <3>1. Len(next) > 1 /\ FirstOf(next, Words) = 1..(Len(next) - 1)
      BY <1>3, <2>1, <3>0, FormattedBody
    <3>2. Len(next) \in Nat
      OBVIOUS
    <3>3. 1 \in 1..(Len(next) - 1)
      BY <3>1, <3>2
    <3> QED
      BY <3>1, <3>3
  <2>3. Len(next) = 0 /\ Len(h) \in Nat
    BY <2>2
  <2>4. Len(input) = Len(h) /\ \A i \in 1..Len(h) : input[i] = h[i]
    BY <2>1, <2>3 DEF Joined
  <2>5. input = h
    BY <2>4, SeqEqual
  <2>6. h # <<>> => h[Len(h)] # "nl"
    BY <1>3, <2>5, FormattedEnds DEF Blank
  <2> QED
    BY <1>2, <2>5, <2>6
<1> QED
  BY <1>1, <1>2, <1>3

(* What is returned when a statement was printed. *)
LEMMA ReturnStatement ==
  ASSUME NEW h \in Seq(Lexeme), HeadDone(h, next), input \in Seq(Lexeme),
         next \in Seq(Lexeme), NEW n \in Nat, n > 0, n = Cardinality(FirstOf(next, Words)),
         NEW s \in Seq(Lexeme), Printed(h, n, s), NEW t, t = TrimSpace(s)
  PROVE  /\ Formatted(t)
         /\ Cardinality(LeadingComments(t)) = Cardinality(LeadingComments(input))
         /\ Formatted(input) => t = input
<1>1. /\ HeadForm(h)
      /\ Formatted(input) => Joined(h, next, input)
      /\ next # <<>> => next[1] \notin Lead
      /\ next # <<>> => h = <<>> \/ h[Len(h)] = "nl"
      /\ Cardinality(LeadingComments(input)) = Count(h, {"lcom"})
  BY DEF HeadDone, HeadOf
<1>2. next # <<>>
  <2> SUFFICES ASSUME next = <<>> PROVE FALSE
    OBVIOUS
  <2>1. FirstOf(next, Words) = {}
    BY DEF FirstOf
  <2>2. Cardinality(FirstOf(next, Words)) = 0
    BY <2>1, FS_EmptySet
  <2> QED
    BY <2>2
<1>3. /\ Formatted(t)
      /\ Cardinality(LeadingComments(t)) = Count(h, {"lcom"})
      /\ t \in Seq(Lexeme) /\ Len(t) = Len(h) + n + 1
      /\ \A i \in 1..Len(t) : t[i] = s[i]
  BY <1>1, <1>2, StatementFormatted
<1>4. ASSUME Formatted(input) PROVE t = input
  <2>1. HeadForm(h) /\ Joined(h, next, input) /\ next[1] \notin Lead
    BY <1>1, <1>2, <1>4
  <2>2. /\ Len(next) > 1 /\ next[Len(next)] = "semi"
        /\ \A i \in 1..(Len(next) - 1) : next[i] = "word"
        /\ FirstOf(next, Words) = 1..(Len(next) - 1)
    BY <1>2, <1>4, <2>1, FormattedBody
  <2>3. Len(next) \in Nat /\ Len(next) - 1 \in Nat /\ Len(h) \in Nat
    BY <2>2
  <2>4. n = Len(next) - 1
    BY <2>2, <2>3, IntervalCount
  <2> DEFINE l == Len(h)
  <2>5. /\ Len(next) = n + 1 /\ Len(input) = l + n + 1 /\ Len(t) = l + n + 1 /\ l \in Nat
        /\ \A i \in 1..l : input[i] = h[i]
        /\ \A i \in 1..(n + 1) : input[l + i] = next[i]
    BY <1>3, <2>1, <2>3, <2>4 DEF Joined
  <2>6. /\ \A i \in 1..l : s[i] = h[i]
        /\ \A i \in 1..n : s[l + i] = "word"
        /\ s[l + n + 1] = "semi"
    BY DEF Printed
  <2> HIDE DEF l
  <2>7. ASSUME NEW i \in 1..Len(t) PROVE t[i] = input[i]
    <3>1. t[i] = s[i] /\ i \in 1..(l + n + 1)
      BY <1>3, <2>5
    <3>2. CASE i \in 1..l
      BY <2>5, <2>6, <3>1, <3>2
    <3>3. CASE i \notin 1..l
      <4>1. PICK j \in 1..(n + 1) : i = l + j
        <5>1. i - l \in 1..(n + 1) /\ i = l + (i - l)
          BY <2>5, <3>1, <3>3
        <5> QED
          BY <5>1
      <4>2. input[i] = next[j]
        BY <2>5, <4>1
      <4>3. CASE j \in 1..n
        <5>1. next[j] = "word"
          BY <2>2, <2>4, <4>3
        <5>2. s[i] = "word"
          BY <2>6, <4>1, <4>3
        <5> QED
          BY <3>1, <4>2, <5>1, <5>2
      <4>4. CASE j \notin 1..n
        <5>1. j \in Nat /\ j <= n + 1 /\ ~(j <= n)
          BY <4>1, <4>4
        <5>2. j = n + 1
          BY ONLY <5>1, n \in Nat
        <5>3. j = n + 1 /\ i = l + n + 1
          BY <2>5, <4>1, <5>2
        <5>4. next[j] = "semi"
          BY <2>2, <2>5, <5>3
        <5>5. s[i] = "semi"
          BY <2>6, <5>3
        <5> QED
          BY <3>1, <4>2, <5>4, <5>5
      <4> QED
        BY <4>3, <4>4
    <3> QED
      BY <3>2, <3>3
  <2> QED
    BY <1>3, <2>5, <2>7, SeqEqual
<1> QED
  BY <1>1, <1>3, <1>4

LEMMA ReturnForm == Inv /\ FirstInv /\ FormInv /\ Return => FormInv'
<1> SUFFICES ASSUME Inv, FirstInv, FormInv, Return PROVE FormInv'
  OBVIOUS
<1> DEFINE s == prettied'
           t == result'.text
<1>1. /\ pc = "print" /\ pc' = "done" /\ printed = Len(allParsed)
      /\ prettied \in Seq(Lexeme) /\ s \in Seq(Lexeme)
      /\ s = prettied \/ (s = prettied \o <<"nl">> /\ <<"nl">> \in Seq(Lexeme))
      /\ t = TrimSpace(s)
      /\ UNCHANGED <<input, allParsed>>
  BY ReturnFacts
<1>2. input \in Seq(Lexeme) /\ next \in Seq(Lexeme)
  BY InputType DEF Inv, TypeOK
<1> HIDE DEF s, t
\* The newline FormatSQL ends with, if it writes one.
<1>3. /\ Len(prettied) \in Nat /\ Len(s) \in Nat /\ Len(s) >= Len(prettied)
      /\ \A i \in 1..Len(prettied) : s[i] = prettied[i]
      /\ \A i \in (Len(prettied) + 1)..Len(s) : s[i] \in Blank
  <2>1. CASE s = prettied
    BY <1>1, <2>1
  <2>2. CASE s = prettied \o <<"nl">> /\ <<"nl">> \in Seq(Lexeme)
    <3> DEFINE last == <<"nl">>
    <3>1. last \in Seq(Lexeme) /\ Len(last) = 1 /\ last[1] = "nl"
      BY <2>2
    <3> HIDE DEF last
    <3>2. /\ Len(s) = Len(prettied) + Len(last)
          /\ \A i \in 1..Len(prettied) : s[i] = prettied[i]
          /\ \A i \in 1..Len(last) : s[Len(prettied) + i] = last[i]
      BY <1>1, <2>2, <3>1, ConcatProperties DEF last
    <3> DEFINE l == Len(prettied)
    <3>3. l \in Nat /\ Len(s) = l + 1 /\ s[l + 1] = "nl"
      BY <1>1, <3>1, <3>2
    <3> HIDE DEF l
    <3>4. \A i \in (l + 1)..Len(s) : i = l + 1
      BY <3>3
    <3>5. \A i \in (l + 1)..Len(s) : s[i] \in Blank
      BY <3>3, <3>4 DEF Blank
    <3>6. Len(s) \in Nat /\ Len(s) >= l
      BY <3>3
    <3> QED
      BY <3>2, <3>3, <3>5, <3>6 DEF l
  <2> QED
    BY <1>1, <2>1, <2>2
<1>4. /\ Formatted(t)
      /\ Cardinality(LeadingComments(t)) = Cardinality(LeadingComments(input))
      /\ Formatted(input) => t = input
  <2>1. AllTaken
    BY <1>1 DEF FirstInv, TokensTaken
  <2>2. allParsed \in Seq(Seq(Token))
    BY DEF Inv, TypeOK
  <2>3. CASE printed = 0
    <3>1. allParsed = <<>> /\ HeadDone(prettied, next)
      BY <1>1, <2>2, <2>3, EmptySeq DEF FormInv, CutForm
    <3>2. Cardinality(FirstOf(next, Words)) = 0
      BY <2>1, <3>1 DEF AllTaken, Total
    <3>3. FirstOf(next, Words) = {}
      <4>1. FirstOf(next, Words) \subseteq 1..Len(next) /\ Len(next) \in Nat
        BY <1>2 DEF FirstOf
      <4>2. IsFiniteSet(FirstOf(next, Words))
        BY <4>1, FiniteRange
      <4> QED
        BY <3>2, <4>2, FS_EmptySet
    <3> QED
      BY <1>1, <1>2, <1>3, <3>1, <3>3, ReturnComments
  <2>4. CASE printed # 0
    <3>1. Total > 0
      BY <1>1, <2>4 DEF FormInv, PrintForm
    <3>2. PICK h \in Seq(Lexeme) : HeadDone(h, next) /\ Printed(h, Total, prettied)
      BY <1>1, <2>4 DEF FormInv, PrintForm
    <3> DEFINE n == Total
    <3>3. n \in Nat /\ n > 0 /\ n = Cardinality(FirstOf(next, Words))
      <4>1. FirstOf(next, Words) \subseteq 1..Len(next) /\ Len(next) \in Nat
        BY <1>2 DEF FirstOf
      <4>2. Cardinality(FirstOf(next, Words)) \in Nat
        BY <4>1, FiniteRange
      <4> QED
        BY <2>1, <3>1, <4>2 DEF AllTaken
    <3>4. Printed(h, n, prettied)
      BY <3>2
    <3> HIDE DEF n
    <3>5. Printed(h, n, s)
      <4> DEFINE l == Len(h)
                 p == Len(prettied)
      <4>1. /\ p > l + n
            /\ \A i \in 1..l : prettied[i] = h[i]
            /\ \A i \in 1..n : prettied[l + i] = "word"
            /\ prettied[l + n + 1] = "semi"
            /\ \A i \in (l + n + 2)..p : prettied[i] \in Blank
        BY <3>4 DEF Printed
      <4>2. /\ l \in Nat /\ p \in Nat /\ n \in Nat /\ Len(s) \in Nat /\ Len(s) >= p
            /\ \A i \in 1..p : s[i] = prettied[i]
            /\ \A i \in (p + 1)..Len(s) : s[i] \in Blank
        BY <1>3, <3>2, <3>3
      <4> HIDE DEF l, p
      <4>3. Len(s) > l + n
        BY <4>1, <4>2
      <4>4. \A i \in 1..l : s[i] = h[i]
        BY <4>1, <4>2
      <4>5. \A i \in 1..n : s[l + i] = "word"
        <5> SUFFICES ASSUME NEW i \in 1..n PROVE s[l + i] = "word"
          OBVIOUS
        <5>1. l + i \in 1..p
          BY <4>1, <4>2
        <5> QED
          BY <4>1, <4>2, <5>1
      <4>6. s[l + n + 1] = "semi"
        <5>1. l + n + 1 \in 1..p
          BY <4>1, <4>2
        <5> QED
          BY <4>1, <4>2, <5>1
      <4>7. \A i \in (l + n + 2)..Len(s) : s[i] \in Blank
        <5> SUFFICES ASSUME NEW i \in (l + n + 2)..Len(s) PROVE s[i] \in Blank
          OBVIOUS
        <5>1. i \in 1..p \/ i \in (p + 1)..Len(s)
          BY <4>2
        <5>2. i \in 1..p => i \in (l + n + 2)..p
          BY <4>2
        <5> QED
          BY <4>1, <4>2, <5>1, <5>2
      <4> QED
        BY <4>3, <4>4, <4>5, <4>6, <4>7, Zenon DEF Printed, l
    <3> QED
      BY <1>1, <1>2, <3>2, <3>3, <3>5, ReturnStatement
  <2> QED
    BY <2>3, <2>4
<1>5. FormatStable'
  BY <1>1, <1>4 DEF FormatStable, t
<1>6. ParsedInv'
  BY <1>1 DEF FormInv, ParsedInv
<1> QED
  BY <1>1, <1>5, <1>6 DEF FormInv, TrimForm, CutForm, PrintForm, Forming, Driver

LEMMA DriverForm ==
  Inv /\ FormInv /\ (\/ ParseInit \/ ScanFirst \/ ScanRest \/ Shift \/ SetStmt \/ SyntaxError
                     \/ ActionError \/ Unimplemented \/ Recover \/ Accept) => FormInv'
<1> SUFFICES ASSUME FormInv,
                    \/ ParseInit \/ ScanFirst \/ ScanRest \/ Shift \/ SetStmt \/ SyntaxError
                    \/ ActionError \/ Unimplemented \/ Recover \/ Accept
             PROVE  FormInv'
  OBVIOUS
<1>1. UNCHANGED <<input, prettied, next>> /\ allParsed' \in {allParsed, <<>>}
  BY DEF ParseInit, ScanFirst, ScanRest, Shift, SetStmt, SyntaxError, ActionError,
         Unimplemented, Recover, Accept, fmtVars
<1>2. pc \in Forming /\ pc' \in Forming \cup {"panic"}
  <2>1. CASE ParseInit \/ ScanFirst \/ ScanRest
    BY <2>1 DEF ParseInit, ScanFirst, ScanRest, Forming, Driver
  <2>2. CASE Shift \/ SetStmt \/ SyntaxError \/ ActionError \/ Unimplemented
    BY <2>2 DEF Shift, SetStmt, SyntaxError, ActionError, Unimplemented, Parsing, Forming, Driver
  <2>3. CASE Recover \/ Accept
    BY <2>3 DEF Recover, Accept, Forming, Driver
  <2> QED
    BY <2>1, <2>2, <2>3
<1> QED
  BY <1>1, <1>2, FormCarried

LEMMA StutterForm == FormInv /\ UNCHANGED vars => FormInv'
<1> SUFFICES ASSUME FormInv, UNCHANGED vars PROVE FormInv'
  OBVIOUS
<1>1. UNCHANGED <<input, pc, stmt, prettied, next, allParsed, printed, result>>
  BY DEF vars
<1>2. TrimForm' /\ CutForm'
  BY <1>1 DEF FormInv, TrimForm, CutForm, HeadDone, HeadOf
<1>3. PrintForm' /\ ParsedInv'
  BY <1>1 DEF FormInv, PrintForm, ParsedInv, Total, HeadDone, HeadOf
<1>4. FormatStable'
  BY <1>1 DEF FormInv, FormatStable, Succeeded
<1> QED
  BY <1>2, <1>3, <1>4 DEF FormInv

LEMMA NextForm == Inv /\ FirstInv /\ FormInv /\ [Next]_vars => FormInv'
<1> SUFFICES ASSUME Inv, FirstInv, FormInv, [Next]_vars PROVE FormInv'
  OBVIOUS
<1>1. CASE TrimComment
  BY <1>1, TrimCommentForm
<1>2. CASE TrimDone
  BY <1>2, TrimDoneForm
<1>3. CASE SplitScan
  BY <1>3, SplitScanForm
<1>4. CASE \/ ParseInit \/ ScanFirst \/ ScanRest \/ Shift \/ SetStmt \/ SyntaxError
           \/ ActionError \/ Unimplemented \/ Recover \/ Accept
  BY <1>4, DriverForm
<1>5. CASE ParseReturn
  BY <1>5, ParseReturnForm
<1>6. CASE PrintOne
  BY <1>6, PrintOneForm
<1>7. CASE Return
  BY <1>7, ReturnForm
<1>8. CASE Stopped \/ UNCHANGED vars
  BY <1>8, StutterForm DEF Stopped
<1> QED
  BY <1>1, <1>2, <1>3, <1>4, <1>5, <1>6, <1>7, <1>8 DEF Next

(* What FormatSQL returns is in the form it writes, has the leading        *)
(* comments of its argument, and is the argument itself when that is in    *)
(* the form already: formatting twice is formatting once.                  *)
THEOREM FormattingStable == Spec => []FormatStable
<1>1. Init => FormInv
  BY InitForm
<1>2. Inv /\ FirstInv /\ FormInv /\ [Next]_vars => FormInv'
  BY NextForm
<1>3. FormInv => FormatStable
  BY DEF FormInv
<1> QED
  BY <1>1, <1>2, <1>3, Invariance, FirstInvariance, PTL DEF Spec

=============================================================================
