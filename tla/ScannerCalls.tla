---------------------------- MODULE ScannerCalls ----------------------------
(***************************************************************************)
(* The scanner with its callers in scan.go, LastLexicalToken and           *)
(* HasMultipleStatements with scanOne, on texts given as they are and on   *)
(* texts that the encoders wrote.                                          *)
(***************************************************************************)
EXTENDS Scanner, Encoding

CONSTANTS
    Texts,           \* texts to scan
    Values,          \* values to write and read back: [kind, value]
    Followers        \* texts that follow a value

Callers == {"LastLexicalToken", "HasMultipleStatements"}

ASSUME TextsAssumption ==
    /\ Texts \subseteq Text /\ Followers \subseteq Text
    /\ Values \subseteq [kind : Kinds, value : Text]

Nothing == [kind |-> "nothing", value |-> <<>>]

VARIABLES
    wrote,       \* the value the text starts with, for the properties
    caller,
    hasToks,     \* scanOne: the first loop is left
    count,       \* HasMultipleStatements: statements so far
    answer       \* what the caller returned, "" before

callVars == <<wrote, caller, hasToks, count, answer>>
vars == <<scanVars, callVars>>

Init ==
    /\ caller \in Callers
    /\ hasToks = FALSE
    /\ count = 0
    /\ answer = ""
    /\ \/ \E text \in Texts : ScannerInit(text) /\ wrote = Nothing
       \/ \E v \in Values, after \in Followers :
             ScannerInit(Encode(v.kind, v.value) \o after) /\ wrote = v

-----------------------------------------------------------------------------
LastToken == tokens[Len(tokens)]
IsSemicolon(t) == t.id = "CHAR" /\ t.str = <<Semicolon>>

(* The caller calls Scan again. *)
CallScan == Scan /\ UNCHANGED <<wrote, caller, answer>>

(* The caller returns. *)
Answer(a) ==
    /\ answer' = a
    /\ UNCHANGED <<scanVars, wrote, caller>>

Waiting(c) == at = "out" /\ answer = "" /\ caller = c

LastLexicalToken ==
    /\ Waiting("LastLexicalToken")
    /\ IF tokens # <<>> /\ LastToken.id = "END"
       THEN Answer(IF Len(tokens) = 1 THEN "END" ELSE tokens[Len(tokens) - 1].id)
       ELSE CallScan
    /\ UNCHANGED <<hasToks, count>>

Verdict(n) == IF n > 1 THEN "many" ELSE "one"

(* Bug: the semicolons before a statement count as one. *)
FirstTokenBug ==
    /\ Waiting("HasMultipleStatements")
    /\ ~hasToks
    /\ IF tokens = <<>>
       THEN CallScan /\ UNCHANGED hasToks
       ELSE \/ LastToken.id = "END" /\ Answer(Verdict(count)) /\ UNCHANGED hasToks
            \/ LastToken.id = "ERROR" /\ Answer("error") /\ hasToks' = TRUE
            \/ LastToken.id \notin {"END", "ERROR"} /\ CallScan /\ hasToks' = TRUE
    /\ UNCHANGED count

(* scanOne, its first loop: semicolons before a statement. *)
FirstToken ==
    /\ Waiting("HasMultipleStatements")
    /\ ~hasToks
    /\ IF tokens = <<>> \/ (LastToken.id # "END" /\ IsSemicolon(LastToken))
       THEN CallScan /\ UNCHANGED hasToks
       ELSE \/ LastToken.id = "END" /\ Answer(Verdict(count)) /\ UNCHANGED hasToks
            \/ LastToken.id = "ERROR" /\ Answer("error") /\ hasToks' = TRUE
            \/ LastToken.id \notin {"END", "ERROR"} /\ CallScan /\ hasToks' = TRUE
    /\ UNCHANGED count

(* scanOne, its second loop, and the count that HasMultipleStatements keeps. *)
NextToken ==
    /\ Waiting("HasMultipleStatements")
    /\ hasToks
    /\ \/ LastToken.id = "ERROR" /\ Answer("error") /\ UNCHANGED <<hasToks, count>>
       \/ /\ LastToken.id = "END" \/ IsSemicolon(LastToken)
          /\ count' = count + 1
          /\ hasToks' = FALSE
          /\ IF LastToken.id = "END" \/ count + 1 > 1
             THEN Answer(Verdict(count + 1)) ELSE CallScan
       \/ /\ LastToken.id \notin {"END", "ERROR"} /\ ~IsSemicolon(LastToken)
          /\ CallScan
          /\ UNCHANGED <<hasToks, count>>

InScan == ScanNext /\ UNCHANGED callVars

Next == LastLexicalToken \/ FirstToken \/ NextToken \/ InScan

(* One goroutine: it runs while it can. *)
Spec == Init /\ [][Next]_vars /\ WF_vars(Next)

-----------------------------------------------------------------------------
(* Properties of the calls. *)

(* What the formatter writes is read back as the same value, whatever      *)
(* follows it: an escape of the encoders is one that the scanner undoes,   *)
(* and a name that would not read as itself is quoted (lexbase/encode.go,  *)
(* stringencoding).                                                        *)
ReadBack ==
    wrote # Nothing /\ tokens # <<>> =>
        LET t == tokens[1]
        IN  /\ t.str = wrote.value
            /\ wrote.kind = "string" => t.id = "SCONST"
            /\ wrote.kind = "bytes" => t.id = "BCONST"
            /\ wrote.kind = "restricted" =>
                  t.id = "IDENT" \/ (t.id = "KEYWORD" /\ ~isReservedKeyword(t.str))
            /\ wrote.kind = "unrestricted" => t.id \in {"IDENT", "KEYWORD"}
            /\ t.pos = 0
            /\ AllIn(Slice(Len(Encode(wrote.kind, wrote.value)), t.end), Blank)

(* Of the names alone: a permissible bare identifier reads as itself       *)
(* (IsBareIdentifier, predicates.go:74).                                   *)
BareNamesReadBack ==
    wrote.kind \in {"restricted", "unrestricted"} /\ tokens # <<>> =>
        tokens[1].str = wrote.value

(* Tokens that start a statement. *)
StatementStarts ==
    {i \in 1..Len(tokens) :
        /\ tokens[i].id # "END" /\ ~IsSemicolon(tokens[i])
        /\ i = 1 \/ IsSemicolon(tokens[i - 1])}

(* HasMultipleStatements says many when two statements have a token each,  *)
(* and the second is over; LastLexicalToken returns the token before the   *)
(* end (scan.go:1005-1065).                                                *)
AnswersRight ==
    LET n == Cardinality(StatementStarts)
        error == \E i \in 1..Len(tokens) : tokens[i].id = "ERROR"
    IN  answer # "" =>
            IF caller = "LastLexicalToken"
            THEN /\ LastToken.id = "END"
                 /\ \A i \in 1..Len(tokens) :
                       i = Len(tokens) - 1 => answer = tokens[i].id
            ELSE /\ answer = "error" <=> error
                 /\ answer = "many" => n = 2
                 /\ answer = "one" => n < 2 /\ LastToken.id = "END"

(* Both return: no text makes Scan or its callers loop.                    *)
Answered == <>(answer # "")
=============================================================================
