------------------------------ MODULE Simplify ------------------------------
(***************************************************************************)
(* The removal of parentheses (PrettyCfg.Simplify, sql/sem/tree/           *)
(* pretty.go).  A text of an expression is lexed token by token and parsed *)
(* by the shift-reduce driver of sql/parser/sql.go, the tree is printed by *)
(* its doc methods, which leave out parentheses they take for redundant,   *)
(* and what was printed is parsed again.                                   *)
(*                                                                         *)
(* Layout is not modelled: a document is the sequence of its tokens.  The  *)
(* grammar is that of a_expr for names, operators and parentheses.         *)
(* Constants, casts, calls and BETWEEN are left out.                       *)
(***************************************************************************)
EXTENDS Naturals, SequencesExt

CONSTANTS Infix,        \* the operators between two operands that a text may use
          Prefix,       \* those before an operand
          Postfix,      \* those after one
          BareTruth,    \* whether a text may have NOT and IS NULL without parentheses
                        \* as operands of an operator on other values than truth values
          Names,        \* the sequence of the names a text uses, in this order
          MaxTokens     \* bound: the tokens of a text

VARIABLES
    text,       \* the tokens lexed so far
    parser,     \* the stack of the driver
    tree,       \* what was parsed
    out,        \* what was printed
    again       \* what the parser makes of that

vars == <<text, parser, tree, out, again>>

(* A node is its operator and its operands; a name has none, and "()" is a *)
(* ParenExpr.  A minus with one operand is a UnaryExpr.                    *)
Node(op, args) == [op |-> op, args |-> args]
Arity(e) == Len(e.args)

NoTree  == Node("none", <<>>)
Refused == Node("refused", <<>>)

-----------------------------------------------------------------------------
(* The parser.  The tables of sql.go resolve a conflict between a rule and *)
(* a token by their levels: the higher one wins, and at the same level a   *)
(* binary rule is reduced, except that comparisons do not associate.  The  *)
(* grammar itself is not in the repository: the levels are what the tables *)
(* do when they are run on expressions.                                    *)

Levels == << {"OR"}, {"AND"}, {"NOT"}, {"IS NULL"}, {"="}, {"||", "->"}, {"|"}, {"#"}, {"&"},
             {"<<", ">>", "|/", "||/"}, {"+", "-"}, {"*", "/", "//", "%"}, {"^"} >>
NonAssociative == {"="}

InfixLevel(op) == CHOOSE n \in DOMAIN Levels : op \in Levels[n]
Level(p) == IF p.arity = 1 /\ p.op \in {"-", "~"} THEN Len(Levels) + 1 ELSE InfixLevel(p.op)

(* The stack of the driver, kept as two: the symbols that wait for an      *)
(* operand, and the expressions.  "operand": the last token ended one.     *)
EmptyStack == [pending |-> <<>>, exprs |-> <<>>, operand |-> FALSE]
Open == [op |-> "(", arity |-> 1]

OnTop(s) == IF s.pending = <<>> THEN Open ELSE Last(s.pending)
Opened(s) == Len(SelectSeq(s.pending, LAMBDA p : p = Open))

(* A reduction by the rule of the topmost operator: its operands become    *)
(* one node.                                                               *)
Reduce(s) ==
    LET p == Last(s.pending)
        k == Len(s.exprs) - p.arity
    IN  [s EXCEPT !.pending = Front(@),
                  !.exprs = Append(SubSeq(@, 1, k), Node(p.op, SubSeq(@, k + 1, Len(@))))]

(* The reductions before a token of level n is shifted; n = 0 for a        *)
(* closing parenthesis and for the end.                                    *)
RECURSIVE ReduceFor(_, _)
ReduceFor(s, n) ==
    LET p == OnTop(s)
    IN  IF p # Open /\ (Level(p) > n \/ (Level(p) = n /\ p.op \notin NonAssociative))
        THEN ReduceFor(Reduce(s), n) ELSE s

Before(s, t) == ReduceFor(s, IF t \in Infix \cup Postfix THEN InfixLevel(t) ELSE 0)

(* Whether the tables have an action for token t.                          *)
CanShift(s, t) ==
    IF s.operand
    THEN \/ t \in Postfix
         \/ t \in Infix /\ (t \in NonAssociative => OnTop(Before(s, t)).op # t)
         \/ t = ")" /\ Opened(s) > 0
    ELSE t \in Range(Names) \cup Prefix \cup {"("}

Wrapped(s, op) == [s EXCEPT !.exprs = Append(Front(@), Node(op, <<Last(@)>>))]

Shift(s, t) ==
    IF s.operand
    THEN LET r == Before(s, t)
         IN  CASE t \in Postfix -> Wrapped(r, t)
               [] t = ")"       -> Wrapped([r EXCEPT !.pending = Front(@)], "()")
               [] OTHER -> [r EXCEPT !.pending = Append(@, [op |-> t, arity |-> 2]), !.operand = FALSE]
    ELSE CASE t = "("       -> [s EXCEPT !.pending = Append(@, Open)]
           [] t \in Prefix  -> [s EXCEPT !.pending = Append(@, [op |-> t, arity |-> 1])]
           [] OTHER         -> [s EXCEPT !.exprs = Append(@, Node(t, <<>>)), !.operand = TRUE]

CanAccept(s) == s.operand /\ Opened(s) = 0
Accepted(s)  == ReduceFor(s, 0).exprs[1]

(* The parser on a whole text.                                             *)
RECURSIVE ParseFrom(_, _)
ParseFrom(s, ts) ==
    IF ts = <<>> THEN IF CanAccept(s) THEN Accepted(s) ELSE Refused
    ELSE IF CanShift(s, Head(ts)) THEN ParseFrom(Shift(s, Head(ts)), Tail(ts)) ELSE Refused

-----------------------------------------------------------------------------
(* The printer.                                                            *)

RECURSIVE StripParens(_)
StripParens(e) == IF e.op = "()" THEN StripParens(e.args[1]) ELSE e

IsName(e)       == Arity(e) = 0
IsUnary(e)      == Arity(e) = 1 /\ e.op \in {"-", "~", "|/", "||/"}
IsComparison(e) == e.op = "="
IsLogical(e)    == e.op \in {"AND", "OR"}
IsBinary(e)     == Arity(e) = 2 /\ ~IsComparison(e) /\ ~IsLogical(e)

(* The interface of the nodes that exprFmtWithParen puts in parentheses.   *)
operatorExpr(e) == ~IsName(e) /\ e.op # "()"

Bracket(ts) == <<"(">> \o ts \o <<")">>

(* Format of the nodes, which removes nothing.                             *)
RECURSIVE Format(_)
(* Bug: parentheses around parentheses. *)
exprFmtWithParenBug(e) == IF operatorExpr(StripParens(e)) THEN Bracket(Format(e)) ELSE Format(e)
exprFmtWithParen(e) == IF operatorExpr(e) THEN Bracket(Format(e)) ELSE Format(e)
Format(e) ==
    CASE IsName(e)         -> <<e.op>>
      [] e.op = "()"       -> Bracket(Format(e.args[1]))
      [] e.op = "IS NULL"  -> exprFmtWithParen(e.args[1]) \o <<e.op>>
      [] Arity(e) = 2      -> exprFmtWithParen(e.args[1]) \o <<e.op>> \o exprFmtWithParen(e.args[2])
      [] OTHER             -> <<e.op>> \o exprFmtWithParen(e.args[1])

binaryOpPrio(op) ==
    LET Prios == << {"^"}, {"*", "/", "//", "%"}, {"+", "-"}, {"<<", ">>"}, {"&"}, {"#"}, {"|"}, {"||", "->"} >>
    IN  CHOOSE n \in DOMAIN Prios : op \in Prios[n]
(* Bug: minus is taken for fully associative. *)
binaryOpFullyAssocBug(op) == op \in {"*", "+", "-", "&", "#", "|", "||"}
binaryOpFullyAssoc(op)    == op \in {"*", "+", "&", "#", "|", "||"}

peelAndOrOperand(e) ==
    LET s == StripParens(e)
    IN  IF IsName(s) \/ IsUnary(s) \/ IsBinary(s) \/ IsComparison(s) THEN s ELSE e

peelBinaryOperand(e, sameLevel, parenPrio) ==
    LET s == StripParens(e)
    IN  IF \/ IsName(s) \/ IsUnary(s)
           \/ IsBinary(s) /\ \/ binaryOpPrio(s.op) < parenPrio
                             \/ sameLevel /\ binaryOpPrio(s.op) = parenPrio
        THEN s ELSE e

peelCompOperand(e) ==
    LET s == StripParens(e) IN IF IsName(s) \/ IsUnary(s) THEN s ELSE e

(* The operands a node prints, peeled.  flattenOp prints those of a chain  *)
(* of one operator in one list: the same tokens.                           *)
Peeled(e) ==
    CASE IsLogical(e)    -> [i \in 1..2 |-> peelAndOrOperand(e.args[i])]
      [] IsComparison(e) -> [i \in 1..2 |-> peelCompOperand(e.args[i])]
      [] IsBinary(e)     -> [i \in 1..2 |-> peelBinaryOperand(e.args[i],
                                i = 1 \/ binaryOpFullyAssoc(e.op), binaryOpPrio(e.op))]

RECURSIVE Doc(_)
exprDocWithParen(e) == IF operatorExpr(e) THEN Bracket(Doc(e)) ELSE Doc(e)
Doc(e) ==
    CASE IsName(e) \/ IsUnary(e) -> Format(e)
      [] e.op = "()"             -> Bracket(Doc(e.args[1]))
      [] e.op = "NOT"            -> <<e.op>> \o exprDocWithParen(e.args[1])
      [] e.op = "IS NULL"        -> exprDocWithParen(e.args[1]) \o <<e.op>>
      [] OTHER                   -> Doc(Peeled(e)[1]) \o <<e.op>> \o Doc(Peeled(e)[2])

SelectExprDoc(e) == Doc(StripParens(e))

-----------------------------------------------------------------------------
Init ==
    /\ text = <<>> /\ parser = EmptyStack
    /\ tree = NoTree /\ out = <<>> /\ again = NoTree

NamesIn(ts)  == Len(SelectSeq(ts, LAMBDA t : t \in Range(Names)))
(* The tokens a text still lacks to be a whole one.                        *)
Lacking(s)   == Opened(s) + IF s.operand THEN 0 ELSE 1

(* Token t makes NOT or IS NULL a direct operand of a binary or unary      *)
(* operator.                                                               *)
IsBareTruth(s, t) ==
    LET ofTruth == {"OR", "AND", "NOT", "=", "("}
    IN  \/ t = "NOT" /\ OnTop(s).op \notin ofTruth
        \/ t \in Infix \ ofTruth /\ s.operand /\ Last(Before(s, t).exprs).op \in {"NOT", "IS NULL"}

(* One turn of the driver's loop: a token, the reductions before it, and   *)
(* its shift.  The bound MaxTokens leaves room to close the text.          *)
Lex(t) ==
    /\ tree = NoTree
    /\ t \in Range(Names) => t = Names[NamesIn(text) + 1]
    /\ BareTruth \/ ~IsBareTruth(parser, t)
    /\ CanShift(parser, t)
    /\ parser' = Shift(parser, t)
    /\ text' = Append(text, t)
    /\ Len(text') + Lacking(parser') <= MaxTokens
    /\ UNCHANGED <<tree, out, again>>

(* The end of the text.                                                    *)
Accept ==
    /\ tree = NoTree
    /\ CanAccept(parser)
    /\ tree' = Accepted(parser) /\ parser' = EmptyStack
    /\ UNCHANGED <<text, out, again>>

(* PrettyCfg.Pretty on a select list of this expression.                   *)
Pretty ==
    /\ tree # NoTree /\ out = <<>>
    /\ out' = SelectExprDoc(tree)
    /\ UNCHANGED <<text, parser, tree, again>>

(* The formatted text is given to Parse again.                             *)
Reparse ==
    /\ out # <<>> /\ again = NoTree
    /\ again' = ParseFrom(EmptyStack, out)
    /\ UNCHANGED <<text, parser, tree, out>>

Next ==
    \/ \E t \in Infix \cup Prefix \cup Postfix \cup Range(Names) \cup {"(", ")"} : Lex(t)
    \/ Accept \/ Pretty \/ Reparse

Spec == Init /\ [][Next]_vars

-----------------------------------------------------------------------------
(* Properties.                                                             *)

(* What an expression means: parentheses are gone, a chain of one          *)
(* associative operator is the list of its operands, and a sum is the list *)
(* of its terms with their signs.                                          *)
Associative == {"OR", "AND", "*", "&", "#", "|", "||"}

RECURSIVE Meaning(_), Operands(_, _), Terms(_, _)
Operands(op, e) ==
    LET s == StripParens(e)
    IN  IF s.op = op /\ Arity(s) = 2 THEN Operands(op, s.args[1]) \o Operands(op, s.args[2])
        ELSE <<Meaning(s)>>
Terms(e, negative) ==
    LET s == StripParens(e)
    IN  IF s.op \in {"+", "-"} /\ Arity(s) = 2
        THEN Terms(s.args[1], negative) \o Terms(s.args[2], negative # (s.op = "-"))
        ELSE IF negative THEN <<Node("-", <<Meaning(s)>>)>> ELSE <<Meaning(s)>>
Meaning(e) ==
    LET s == StripParens(e)
    IN  CASE s.op \in {"+", "-"} /\ Arity(s) = 2 -> Node("+", Terms(s, FALSE))
          [] s.op \in Associative /\ Arity(s) = 2 -> Node(s.op, Operands(s.op, s))
          [] OTHER -> Node(s.op, [i \in DOMAIN s.args |-> Meaning(s.args[i])])

(* The parentheses that peelAndOrOperand, peelBinaryOperand and            *)
(* peelCompOperand leave out were redundant: the printed text is accepted  *)
(* and means what the given one meant.                                     *)
MeaningKept == again # NoTree => again # Refused /\ Meaning(again) = Meaning(tree)

(* Formatting what was formatted changes nothing: the parentheses that     *)
(* Format and exprDocWithParen add are there only once, and none is left   *)
(* for a second call to remove.                                            *)
Stable == again \notin {NoTree, Refused} => SelectExprDoc(again) = out
=============================================================================
