------------------------------- MODULE Pretty -------------------------------
(***************************************************************************)
(* A client of package pretty: the methods of PrettyCfg                    *)
(* (sql/sem/tree/pretty.go), which choose among the functions of util/     *)
(* pretty by the alignment mode, put a document together call by call, and *)
(* the document is laid out.                                               *)
(***************************************************************************)
EXTENDS PrettyDoc, FiniteSets

CONSTANTS Modes,        \* the alignment modes: no, only, deindent, extra
          Leaves,       \* the documents the client starts from
          Labels,       \* the keywords of rows, heads and separators
          Widths,       \* the line widths the document is laid out for
          MaxCalls,     \* bound: the calls the client makes
          MaxDocs       \* bound: the documents it has at hand

IsWord(d) == d = Text(d.s, d.n) /\ d.s \in STRING \ {" "} /\ d.n \in Nat

ASSUME ClientAssumption ==
    /\ Modes \subseteq {"no", "only", "deindent", "extra"}
    /\ \A d \in Leaves : d \in {Nil, Line, SoftBreak, HardLine} \/ IsWord(d)
    /\ \A lbl \in Labels : IsWord(lbl)
    /\ Widths \subseteq Nat
    /\ MaxCalls \in Nat /\ MaxDocs \in Nat

VARIABLES
    mode,       \* PrettyCfg.Align
    docs,       \* the documents not yet used, the last one first
    said,       \* the words each of them is to print
    calls,      \* how many calls were made
    width,      \* the line width it was laid out for, NotPrinted before
    out         \* the layout

vars == <<mode, docs, said, calls, width, out>>

NotPrinted == -1
Printed    == width # NotPrinted

Init ==
    /\ mode \in Modes
    /\ docs = <<>> /\ said = <<>> /\ calls = 0
    /\ width = NotPrinted /\ out = <<>>

-----------------------------------------------------------------------------
(* The methods of PrettyCfg.                                               *)

nestUnder(a, b) == IF mode # "no" THEN AlignUnder(a, b) ELSE NestUnder(a, b)

rlTable(rows) == Table(IF mode # "no" THEN "right" ELSE "no", rows)
llTable(rows) == Table(IF mode # "no" THEN "left" ELSE "no", rows)

row(lbl, d) == [label |-> lbl, doc |-> d]
unrow(r)    == IF r.label = Nil THEN r.doc ELSE nestUnder(r.label, r.doc)

comma == Text(",", 1)
commaSeparated(ds) == Join(comma, ds)

bracket(d) == BracketDoc(Text("(", 1), d, Text(")", 1))

joinNestedOuter(lbl, ds) ==
    CASE mode = "deindent" -> JoinNestedOuter(lbl, ds)
      [] mode = "extra" ->
            Table("right", [j \in DOMAIN ds |-> row(IF j > 1 THEN lbl ELSE Nil, ds[j])])
      [] mode \in {"no", "only"} -> JoinNestedRight(lbl, ds)

-----------------------------------------------------------------------------
(* A call takes the first n documents and puts what it makes of them in    *)
(* their place, which is to print the words w.                             *)
Call(n, d, w) ==
    /\ ~Printed
    /\ calls < MaxCalls /\ Len(docs) - n < MaxDocs
    /\ docs' = <<d>> \o SubSeq(docs, n + 1, Len(docs))
    /\ said' = <<w>> \o SubSeq(said, n + 1, Len(said))
    /\ calls' = calls + 1
    /\ UNCHANGED <<mode, width, out>>

WordOf(lbl) == IF lbl = Nil THEN <<>> ELSE <<lbl.s>>

Leaf == \E d \in Leaves : Call(0, d, IF d.tag = "text" THEN <<d.s>> ELSE <<>>)

(* One document. *)
Has1 == Len(docs) >= 1
GroupOne   == Has1 /\ Call(1, Group(docs[1]), said[1])
BracketOne == Has1 /\ Call(1, bracket(docs[1]), <<"(">> \o said[1] \o <<")">>)
UnrowOne   == Has1 /\ \E lbl \in Labels : Call(1, unrow(row(lbl, docs[1])), WordOf(lbl) \o said[1])

(* Two documents, in the order they were made in. *)
Has2   == Len(docs) >= 2
First  == docs[2]
Second == docs[1]
Said   == said[2] \o said[1]

ConcatTwo == Has2 /\ Call(2, Concat(First, Second), Said)
SpaceTwo  == Has2 /\ Call(2, ConcatSpace(First, Second), Said)
StackTwo  == Has2 /\ Call(2, Stack(<<First, Second>>), Said)
FillTwo   == Has2 /\ Call(2, Fillwords(<<First, Second>>), Said)
CommaTwo  == Has2 /\ Call(2, commaSeparated(<<First, Second>>), said[2] \o <<",">> \o said[1])

(* Nothing is ever nested under an empty head. *)
NestTwo   == Has2 /\ First # Nil /\ Call(2, nestUnder(First, Second), Said)
OuterTwo  ==
    /\ Has2
    /\ \E lbl \in Labels :
          Call(2, joinNestedOuter(lbl, <<First, Second>>), said[2] \o WordOf(lbl) \o said[1])
TableTwo  ==
    /\ Has2
    /\ \E l1, l2 \in Labels \cup {Nil} :
          LET rows  == <<row(l1, First), row(l2, Second)>>
              words == WordOf(l1) \o said[2] \o WordOf(l2) \o said[1]
          IN  Call(2, rlTable(rows), words) \/ Call(2, llTable(rows), words)

(* PrettyCfg.Pretty. *)
LayOut ==
    /\ ~Printed /\ Len(docs) = 1
    /\ \E n \in Widths : width' = n /\ out' = Pretty(docs[1], n)
    /\ UNCHANGED <<mode, docs, said, calls>>

Next == \/ Leaf
        \/ GroupOne \/ BracketOne \/ UnrowOne
        \/ ConcatTwo \/ SpaceTwo \/ StackTwo \/ FillTwo \/ CommaTwo
        \/ NestTwo \/ OuterTwo \/ TableTwo
        \/ LayOut

Spec == Init /\ [][Next]_vars

-----------------------------------------------------------------------------
(* The words of an output. *)
WordIn(p) == IF p.tag = "textB" /\ p.s # " " THEN <<p.s>> ELSE <<>>
WordsOf(pieces) == FlattenSeq([j \in DOMAIN pieces |-> WordIn(pieces[j])])
Written(lines) == FlattenSeq([j \in DOMAIN lines |-> WordsOf(lines[j].pieces)])

-----------------------------------------------------------------------------
Tags == Structure \cup {"text", "pad", "line", "softbreak", "hardline", "union"}

TypeOK ==
    /\ mode \in Modes
    /\ calls \in 0..MaxCalls
    /\ Len(docs) <= MaxDocs /\ Len(said) = Len(docs)
    /\ \A j \in DOMAIN docs : docs[j].tag \in Tags
    /\ width \in Widths \cup {NotPrinted}
    /\ \A ln \in Range(out) :
          /\ ln.tabs \in Int16s
          /\ \A p \in Range(ln.pieces) : p.tag \in {"textB", "spacesB"} /\ p.n \in Int16s \ {0}

(* No layout, and no way to put a document together, loses, repeats or     *)
(* reorders a word.                                                        *)
WordsKept == Printed => Written(out) = said[1]

IndentNotNegative ==
    Printed => LET chosen == best(Int16(width), docs[1])
               IN  \A j \in DOMAIN chosen :
                      chosen[j].tag \in {"lineB", "hardlineB"} =>
                          chosen[j].i.tabs >= 0 /\ chosen[j].i.spaces >= 0

(* JoinNestedOuter takes back the indentation that Align gave, and no      *)
(* more: the printer would not write less than no space, and would count   *)
(* the line too short.  No position, width or column has wrapped around.   *)
PositionsInRange == TypeOK /\ IndentNotNegative
=============================================================================
