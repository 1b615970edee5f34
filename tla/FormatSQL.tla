----------------------------- MODULE FormatSQL -----------------------------
(***************************************************************************)
(* The path of one call of FormatSQL (sqlfmt.go): leading comments are     *)
(* copied to the output, the text is cut after its first semicolon         *)
(* (parser/scanner.go), the cut is scanned into statements and each is     *)
(* parsed (parser/parse.go, parser/lexer.go, the goyacc driver of          *)
(* parser/sql.go), and what was parsed is printed.                         *)
(*                                                                         *)
(* A text is a sequence of lexemes.  The grammar is not modelled: at every *)
(* token the driver may shift it, reject it, or run an action that reports *)
(* an error, so what holds here holds for every grammar.                   *)
(***************************************************************************)
EXTENDS Integers, Sequences, FiniteSets

CONSTANT Inputs     \* the texts FormatSQL may be called with

Blank   == {"ws", "nl"}                \* blanks, and a newline
Comment == {"lcom", "bcom"}            \* -- to the end of the line, /* ... */
Lexeme  == Blank \cup Comment \cup
           {"word",      \* anything the grammar may shift
            "semi",      \* ;
            "help",      \* ??
            "bad",       \* text the scanner refuses, e.g. 1e or $1x
            "ucom",      \* a /* that is never closed, up to the end of input
            "nul"}       \* a zero byte: Scan gives it the id 0 of the end

(* A line comment ends at a newline or at the end of the text, and an      *)
(* unclosed comment takes all that follows it.                             *)
WellFormed(s) ==
    \A i \in 1..Len(s) :
        /\ s[i] = "lcom" /\ i < Len(s) => s[i+1] = "nl"
        /\ s[i] = "ucom" => i = Len(s)

ASSUME InputsAssumption == Inputs \subseteq {s \in Seq(Lexeme) : WellFormed(s)}

-----------------------------------------------------------------------------
(* Text operations.                                                        *)

(* The first position at or after p whose lexeme is not in K. *)
FirstNot(s, p, K) ==
    CHOOSE q \in p..(Len(s) + 1) :
        /\ q <= Len(s) => s[q] \notin K
        /\ \A r \in p..(q - 1) : s[r] \in K

(* The last position whose lexeme is not blank, 0 if there is none. *)
LastInk(s) ==
    CHOOSE q \in 0..Len(s) :
        /\ q > 0 => s[q] \notin Blank
        /\ \A r \in (q + 1)..Len(s) : s[r] \in Blank

TrimSpace(s) == SubSeq(s, FirstNot(s, 1, Blank), LastInk(s))

(* What `^--.*\s*` matches at the start of s, by the position after it. *)
HasLeadingComment(s) == s # <<>> /\ s[1] = "lcom"
AfterFound(s) == FirstNot(s, 2, Blank)

(* Bug: one newline is kept. *)
KeptNewlinesBug(s) ==
    IF \E i \in 2..(AfterFound(s) - 1) : s[i] = "nl" THEN <<"nl">> ELSE <<>>

(* What is kept of the match: the comment and at most two newlines. *)
KeptNewlines(s) ==
    LET nls == {i \in 2..(AfterFound(s) - 1) : s[i] = "nl"}
    IN  IF nls = {} THEN <<>>
        ELSE IF \E i, j \in nls : i # j THEN <<"nl", "nl">> ELSE <<"nl">>

Kept(s) == <<"lcom">> \o KeptNewlines(s)

(* Scanner.Scan from position p: white space and comments are skipped, one *)
(* token is taken.  `next` is the scanner position afterwards.             *)
Refused == {"bad", "ucom"}

TokenId(x) ==
    CASE x = "semi"     -> "SEMI"
      [] x = "help"     -> "HELPTOKEN"
      [] x = "nul"      -> "EOF"
      [] x \in Refused  -> "ERROR"
      [] x \in Lexeme \ (Refused \cup {"semi", "help", "nul"}) -> "WORD"

Scan(s, p) ==
    LET q == FirstNot(s, p, Blank \cup Comment)
    IN  IF q > Len(s) THEN [id |-> "EOF", pos |-> q, next |-> q]
        ELSE [id |-> TokenId(s[q]), pos |-> q, next |-> q + 1]

-----------------------------------------------------------------------------
VARIABLES
    input,        \* the argument of the call, for the properties
    pc,           \* where the call is
    stmt,         \* the text not yet disposed of (FormatSQL's stmt)
    prettied,     \* the output built so far
    hasContent,
    next,         \* the text handed to Parse
    pos,          \* the position of the scanner in use
    startPos,     \* scanOneStmt: where the statement starts
    done,         \* scanOneStmt: the scanner is at the end of the text
    lex,          \* the lexer: tokens, length of `in`, lastPos, stmt, lastError
    ret,          \* what the driver returned: 0, or 1 for an error
    allParsed,    \* the statements parsed so far
    printed,      \* how many of them are printed
    result        \* what FormatSQL returned: [text, err]

vars == <<input, pc, stmt, prettied, hasContent, next, pos, startPos, done,
          lex, ret, allParsed, printed, result>>

NoStmt  == <<>>             \* a nil AST: a statement has at least one token
NoError == "nil"
Errors  == {"syntax", "lexical", "action", "unimplemented", "help"}

EmptyLexer == [tokens |-> <<>>, inLen |-> 0, lastPos |-> 0,
               stmt |-> NoStmt, lastError |-> NoError]

Init ==
    /\ input \in Inputs
    /\ pc = "trim"
    /\ stmt = TrimSpace(input)
    /\ prettied = <<>>
    /\ hasContent = FALSE
    /\ next = <<>>
    /\ pos = 1
    /\ startPos = 1
    /\ done = FALSE
    /\ lex = EmptyLexer
    /\ ret = 0
    /\ allParsed = <<>>
    /\ printed = 0
    /\ result = [text |-> <<>>, err |-> NoError]

-----------------------------------------------------------------------------
(* The variables of FormatSQL itself, of the scanner loops and of the      *)
(* parser.                                                                 *)
fmtVars  == <<stmt, prettied, hasContent, next, printed, result>>
scanVars == <<pos, startPos, done>>
parsVars == <<lex, ret, allParsed>>

(* FormatSQL: one turn of the comment loop, and the way out of it. *)
TrimComment ==
    /\ pc = "trim" /\ HasLeadingComment(stmt)
    /\ prettied' = prettied \o Kept(stmt)
    /\ stmt' = SubSeq(stmt, AfterFound(stmt), Len(stmt))
    /\ hasContent' = TRUE
    /\ UNCHANGED <<input, pc, next, printed, result, scanVars, parsVars>>

TrimDone ==
    /\ pc = "trim" /\ ~HasLeadingComment(stmt)
    /\ pc' = "split"
    /\ pos' = 1
    /\ UNCHANGED <<input, fmtVars, startPos, done, parsVars>>

(* Bug: the loop goes on at a semicolon, and the text is cut at its end. *)
SplitScanBug ==
    LET t == Scan(stmt, pos)
    IN  /\ pc = "split"
        /\ \/ /\ t.id \in {"EOF", "ERROR"}
              /\ next' = stmt
              /\ stmt' = <<>>
              /\ pc' = "parse" /\ UNCHANGED pos
           \/ /\ t.id \notin {"EOF", "ERROR"}
              /\ pos' = t.next
              /\ UNCHANGED <<next, stmt, pc>>
        /\ UNCHANGED <<input, prettied, hasContent, printed, result,
                       startPos, done, parsVars>>

(* SplitFirstStatement: one Scan of its loop.  FormatSQL cuts the text     *)
(* after the semicolon, or takes all of it at the end or at an error.      *)
SplitScan ==
    LET t == Scan(stmt, pos)
    IN  /\ pc = "split"
        /\ \/ /\ t.id \in {"EOF", "ERROR"}
              /\ next' = stmt
              /\ stmt' = <<>>
              /\ pc' = "parse" /\ UNCHANGED pos
           \/ /\ t.id = "SEMI"
              /\ next' = SubSeq(stmt, 1, t.next - 1)
              /\ stmt' = SubSeq(stmt, t.next, Len(stmt))
              /\ pc' = "parse" /\ UNCHANGED pos
           \/ /\ t.id \notin {"EOF", "ERROR", "SEMI"}
              /\ pos' = t.next
              /\ UNCHANGED <<next, stmt, pc>>
        /\ UNCHANGED <<input, prettied, hasContent, printed, result,
                       startPos, done, parsVars>>

(* parseWithDepth: the statement buffer is emptied and the scanner is      *)
(* initialised with the cut.                                               *)
ParseInit ==
    /\ pc = "parse"
    /\ pc' = "scanFirst"
    /\ pos' = 1
    /\ allParsed' = <<>>
    /\ UNCHANGED <<input, fmtVars, startPos, done, lex, ret>>

(* lexer.init. *)
LexerInit(tokens, inLen) ==
    lex' = [EmptyLexer EXCEPT !.tokens = tokens, !.inLen = inLen]

(* scanOneStmt: the first token, leading semicolons skipped.  Its position *)
(* is made 0.                                                              *)
ScanFirst ==
    LET t == Scan(next, pos)
    IN  /\ pc = "scanFirst"
        /\ pos' = t.next
        /\ \/ /\ t.id = "EOF"
              /\ done' = TRUE
              /\ LexerInit(<<>>, 0)
              /\ pc' = "grammar" /\ UNCHANGED startPos
           \/ /\ t.id = "SEMI"
              /\ UNCHANGED <<done, lex, pc, startPos>>
           \/ /\ t.id \notin {"EOF", "SEMI"}
              /\ startPos' = t.pos
              /\ LexerInit(<<[id |-> t.id, pos |-> 0]>>, 0)
              /\ pc' = "scanRest" /\ UNCHANGED done
        /\ UNCHANGED <<input, fmtVars, ret, allParsed>>

(* scanOneStmt: the other tokens, up to an error, the end or a semicolon.  *)
(* The statement's text ends where the last token did.                     *)
ScanRest ==
    LET toks == lex.tokens
        t    == Scan(next, pos)
    IN  /\ pc = "scanRest"
        /\ \/ /\ toks[Len(toks)].id = "ERROR"
              /\ LexerInit(toks, Len(next) + 1 - startPos)
              /\ done' = TRUE
              /\ pc' = "grammar" /\ UNCHANGED pos
           \/ /\ toks[Len(toks)].id # "ERROR" /\ t.id \in {"EOF", "SEMI"}
              /\ LexerInit(toks, pos - startPos)
              /\ done' = (t.id = "EOF")
              /\ pos' = t.next
              /\ pc' = "grammar"
           \/ /\ toks[Len(toks)].id # "ERROR" /\ t.id \notin {"EOF", "SEMI"}
              /\ lex' = [lex EXCEPT !.tokens =
                            Append(toks, [id |-> t.id, pos |-> t.pos - startPos])]
              /\ pos' = t.next
              /\ UNCHANGED <<done, pc>>
        /\ UNCHANGED <<input, fmtVars, startPos, ret, allParsed>>

-----------------------------------------------------------------------------
(* Bug: the end of the statement lies behind its text. *)
TokBug(i) == IF i = 0 THEN [id |-> "EOF", pos |-> 0]
             ELSE IF i > Len(lex.tokens) THEN [id |-> "EOF", pos |-> lex.inLen + 1]
             ELSE lex.tokens[i]

(* The goyacc driver and the lexer.  lastPos counts the tokens Lex gave    *)
(* out, so token number lastPos is the last one.                           *)
Tok(i) == IF i = 0 THEN [id |-> "EOF", pos |-> 0]
          ELSE IF i > Len(lex.tokens) THEN [id |-> "EOF", pos |-> lex.inLen]
          ELSE lex.tokens[i]

(* populateErrorDetails: an error at a token the scanner refused is a      *)
(* lexical error, any other wraps the error there is.                      *)
Details(i, e) == IF Tok(i).id = "ERROR" THEN "lexical" ELSE e

(* Bug: a grammar rule takes an ERROR token. *)
ShiftableBug(t) == t.id \in {"WORD", "ERROR"}

(* The tokens some grammar rule can shift.  *)
Shiftable(t) == t.id = "WORD"

(* The driver is between two tokens of a statement not yet reduced. *)
Parsing == pc = "grammar" /\ lex.stmt = NoStmt

Shift ==
    /\ Parsing /\ Shiftable(Tok(lex.lastPos + 1))
    /\ lex' = [lex EXCEPT !.lastPos = @ + 1]
    /\ UNCHANGED <<input, pc, fmtVars, scanVars, ret, allParsed>>

(* stmt_block: stmt is reduced, by default and so before the lookahead is  *)
(* looked at.  Without a token the statement is empty and its AST nil.     *)
SetStmt ==
    /\ Parsing /\ lex.lastPos > 0
    /\ lex' = [lex EXCEPT !.stmt = SubSeq(lex.tokens, 1, lex.lastPos)]
    /\ UNCHANGED <<input, pc, fmtVars, scanVars, ret, allParsed>>

(* The next token has no action in the driver's state: Error. *)
SyntaxError ==
    LET i == lex.lastPos + 1
    IN  /\ pc = "grammar"
        /\ Tok(i).id = "EOF" => lex.stmt = NoStmt /\ lex.lastPos > 0
        /\ lex' = [lex EXCEPT !.lastPos = i, !.lastError = Details(i, "syntax")]
        /\ pc' = "recover"
        /\ UNCHANGED <<input, fmtVars, scanVars, ret, allParsed>>

(* A grammar action returns 1 through setErr, sqllex.Error or              *)
(* PurposelyUnimplemented, all of which set lastError first.  The driver   *)
(* may have read the lookahead (i) already or not.                         *)
ActionError ==
    /\ Parsing /\ lex.lastPos > 0
    /\ \E i \in {lex.lastPos, lex.lastPos + 1} :
          \E e \in {Details(i, "action"), "unimplemented"} :
             lex' = [lex EXCEPT !.lastPos = i, !.lastError = e]
    /\ ret' = 1
    /\ pc' = "parseReturn"
    /\ UNCHANGED <<input, fmtVars, scanVars, allParsed>>

(* A grammar action returns 1 through Unimplemented or one of its two      *)
(* variants: unless the last token is an ERROR, populateErrorDetails calls *)
(* a method of a lastError that is still nil.                              *)
Unimplemented ==
    /\ Parsing /\ lex.lastPos > 0
    /\ \E i \in {lex.lastPos, lex.lastPos + 1} :
          \/ /\ Tok(i).id # "ERROR"
             /\ lex' = [lex EXCEPT !.lastPos = i]
             /\ pc' = "panic" /\ UNCHANGED ret
          \/ /\ Tok(i).id = "ERROR"
             /\ lex' = [lex EXCEPT !.lastPos = i, !.lastError = "unimplemented"]
             /\ ret' = 1
             /\ pc' = "parseReturn"
    /\ UNCHANGED <<input, fmtVars, scanVars, allParsed>>

(* Bug: recovery forgets the error. *)
RecoverBug ==
    /\ pc = "recover"
    /\ lex' = [lex EXCEPT !.lastError = NoError]
    /\ ret' = 1
    /\ pc' = "parseReturn"
    /\ UNCHANGED <<input, fmtVars, scanVars, allParsed>>

(* After Error: a rule `... error` calls SetHelp, which replaces the error *)
(* at a help token, or no state on the stack shifts the error token.  Both *)
(* return 1.                                                               *)
Recover ==
    /\ pc = "recover"
    /\ \/ UNCHANGED lex
       \/ /\ Tok(lex.lastPos).id = "HELPTOKEN"
          /\ lex' = [lex EXCEPT !.lastError = "help"]
    /\ ret' = 1
    /\ pc' = "parseReturn"
    /\ UNCHANGED <<input, fmtVars, scanVars, allParsed>>

(* Bug: the driver accepts with tokens left. *)
AcceptBug ==
    /\ pc = "grammar"
    /\ lex.stmt # NoStmt \/ lex.tokens = <<>>
    /\ lex' = [lex EXCEPT !.lastPos = @ + 1]
    /\ ret' = 0
    /\ pc' = "parseReturn"
    /\ UNCHANGED <<input, fmtVars, scanVars, allParsed>>

(* The driver accepts at the end of the tokens. *)
Accept ==
    /\ pc = "grammar"
    /\ Tok(lex.lastPos + 1).id = "EOF"
    /\ lex.stmt # NoStmt \/ lex.tokens = <<>>
    /\ lex' = [lex EXCEPT !.lastPos = @ + 1]
    /\ ret' = 0
    /\ pc' = "parseReturn"
    /\ UNCHANGED <<input, fmtVars, scanVars, allParsed>>

-----------------------------------------------------------------------------
(* Bug: the loop of parseWithDepth does not look at done. *)
ParseReturnBug ==
    /\ pc = "parseReturn" /\ ret = 0
    /\ lex' = [lex EXCEPT !.tokens = <<>>, !.stmt = NoStmt, !.lastError = NoError]
    /\ allParsed' = IF lex.stmt = NoStmt THEN allParsed
                    ELSE Append(allParsed, lex.stmt)
    /\ pc' = "scanFirst"
    /\ UNCHANGED <<input, stmt, prettied, hasContent, next, printed, scanVars, ret, result>>

(* parse and parseWithDepth, after the driver returned: an error is        *)
(* returned at once (Error supplies one if there is none) and FormatSQL    *)
(* drops what it has written; a statement is appended unless its AST is    *)
(* nil.  The lexer is cleaned up.                                          *)
ParseReturn ==
    /\ pc = "parseReturn"
    /\ lex' = [lex EXCEPT !.tokens = <<>>, !.stmt = NoStmt, !.lastError = NoError]
    /\ \/ /\ ret # 0
          /\ result' = [text |-> <<>>,
                        err  |-> IF lex.lastError = NoError
                                 THEN Details(lex.lastPos, "syntax")
                                 ELSE lex.lastError]
          /\ pc' = "done"
          /\ UNCHANGED allParsed
       \/ /\ ret = 0
          /\ allParsed' = IF lex.stmt = NoStmt THEN allParsed
                          ELSE Append(allParsed, lex.stmt)
          /\ pc' = IF done THEN "print" ELSE "scanFirst"
          /\ UNCHANGED result
    /\ UNCHANGED <<input, stmt, prettied, hasContent, next, printed, scanVars, ret>>

(* FormatSQL: one statement is printed, with ";\n".  The printer is taken  *)
(* to print the words of the statement.                                    *)
PrintOne ==
    /\ pc = "print" /\ printed < Len(allParsed)
    /\ printed' = printed + 1
    /\ prettied' = prettied \o [i \in 1..Len(allParsed[printed']) |-> "word"]
                            \o <<"semi", "nl">>
    /\ hasContent' = TRUE
    /\ UNCHANGED <<input, pc, stmt, next, result, scanVars, parsVars>>

Return ==
    /\ pc = "print" /\ printed = Len(allParsed)
    /\ prettied' = IF hasContent THEN Append(prettied, "nl") ELSE prettied
    /\ result' = [text |-> TrimSpace(prettied'), err |-> NoError]
    /\ pc' = "done"
    /\ UNCHANGED <<input, stmt, hasContent, next, printed, scanVars, parsVars>>

Stopped == pc \in {"done", "panic"} /\ UNCHANGED vars

Next == \/ TrimComment \/ TrimDone \/ SplitScan \/ ParseInit
        \/ ScanFirst \/ ScanRest
        \/ Shift \/ SetStmt \/ SyntaxError \/ ActionError \/ Unimplemented
        \/ Recover \/ Accept
        \/ ParseReturn \/ PrintOne \/ Return
        \/ Stopped

Spec     == Init /\ [][Next]_vars
FairSpec == Spec /\ WF_vars(Next)

-----------------------------------------------------------------------------
Succeeded == pc = "done" /\ result.err = NoError

Token == [id : {"EOF", "ERROR", "SEMI", "HELPTOKEN", "WORD"}, pos : Nat]

Lexers == [tokens : Seq(Token), inLen : Nat, lastPos : Nat,
           stmt : Seq(Token), lastError : Errors \cup {NoError}]

(* Every variable has its type; the scanner is never behind the start of   *)
(* the text, and no more statements are printed than were parsed.          *)
TypeOK ==
    /\ input \in Inputs
    /\ pc \in {"trim", "split", "parse", "scanFirst", "scanRest", "grammar",
               "recover", "parseReturn", "print", "done", "panic"}
    /\ stmt \in Seq(Lexeme) /\ prettied \in Seq(Lexeme) /\ next \in Seq(Lexeme)
    /\ hasContent \in BOOLEAN /\ done \in BOOLEAN
    /\ pos \in Nat \ {0} /\ startPos \in Nat \ {0}
    /\ lex \in Lexers
    /\ ret \in 0..1
    /\ allParsed \in Seq(Seq(Token))
    /\ printed \in 0..Len(allParsed)
    /\ result \in [text : Seq(Lexeme), err : Errors \cup {NoError}]

(* "This should only return 0 or 1 responses" (sqlfmt.go:57): the cut of   *)
(* SplitFirstStatement and the statement loop of scanOneStmt agree on      *)
(* where the first statement ends, errors, comments and zero bytes         *)
(* notwithstanding.                                                        *)
OneStatement == Len(allParsed) <= 1

(* Where the first statement of s ends: at a semicolon, or at a zero byte, *)
(* which the scanner takes for the end of the text.                        *)
InFirst(s, i) == \A j \in 1..(i - 1) : s[j] \notin {"semi", "nul"}
FirstOf(s, K) == {i \in 1..Len(s) : s[i] \in K /\ InFirst(s, i)}

(* FormatSQL prints the whole of the first statement and nothing else:     *)
(* the two scans of the text, which stop for different reasons, neither    *)
(* lose one of its words nor take one from what follows it.                *)
FirstStatementPrinted ==
    Succeeded => Cardinality({i \in 1..Len(result.text) : result.text[i] = "word"})
                   = Cardinality(FirstOf(input, {"word", "help"}))

(* What the scanner refuses in the first statement is never passed over,   *)
(* whatever the grammar does: the scans stop at the ERROR token and the    *)
(* parser is made to meet it.                                              *)
LexicalErrorReported ==
    pc = "done" /\ FirstOf(input, {"bad", "ucom"}) # {} => result.err # NoError

(* "There should be an error object every time Parse() returns nonzero"    *)
(* (parse.go:197), and none when it returns zero: no error recovery of the *)
(* driver ends in an accepted statement.                                   *)
ErrorObjectSet ==
    pc = "parseReturn" => (ret # 0 <=> lex.lastError # NoError)

(* populateErrorDetails slices the statement's text at the position of the *)
(* last token (lexer.go:271): the positions scanOneStmt rebases and the    *)
(* text it cuts never leave one outside the other.                         *)
CaretInText ==
    pc \in {"grammar", "recover", "parseReturn"} =>
        Tok(lex.lastPos).pos \in 0..lex.inLen

(* The comments at the head of a text. *)
LeadingComments(s) ==
    {i \in 1..Len(s) : s[i] = "lcom" /\ \A j \in 1..(i-1) : s[j] \in Blank \cup {"lcom"}}

(* A text as FormatSQL writes it: trimmed, comments first, one or two      *)
(* newlines after each, then at most one statement with its semicolon.     *)
Formatted(s) ==
    /\ \A i \in 1..Len(s) :
          /\ s[i] \in {"lcom", "nl", "word", "semi"}
          /\ s[i] = "lcom" => i \in LeadingComments(s)
          /\ s[i] = "nl" => /\ i \in 2..(Len(s) - 1)
                            /\ \/ s[i-1] = "lcom"
                               \/ i > 2 /\ s[i-1] = "nl" /\ s[i-2] = "lcom"
          /\ s[i] = "lcom" /\ i < Len(s) => s[i+1] = "nl"
          /\ s[i] = "semi" => i = Len(s) /\ i > 1 /\ s[i-1] = "word"
    /\ s # <<>> /\ s[Len(s)] # "semi" => \A i \in 1..Len(s) : s[i] # "word"

(* Formatting is stable: what FormatSQL returns is in the form it writes,  *)
(* with the leading comments of its argument, and a text in that form      *)
(* comes back as it is.                                                    *)
FormatStable ==
    Succeeded =>
      /\ Formatted(result.text)
      /\ Cardinality(LeadingComments(result.text)) = Cardinality(LeadingComments(input))
      /\ Formatted(input) => result.text = input

(* A grammar rule for syntax that is not supported reports an error        *)
(* ("Unimplemented wraps Error", lexer.go:227).                            *)
NoPanic == pc # "panic"

(* The call comes to an end. *)
Terminates == <>(pc \in {"done", "panic"})
=============================================================================
