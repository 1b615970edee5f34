----------------------------- MODULE PrettyDoc -----------------------------
(***************************************************************************)
(* util/pretty: the documents, the functions that put them together        *)
(* (document.go, util.go), and the printer that chooses a layout for a     *)
(* line width (pretty.go).                                                 *)
(*                                                                         *)
(* A text is a name and a length in bytes; a keyword is a text, since its  *)
(* transform keeps its length.  The two documents that are functions of    *)
(* the position, scolumn and snesting, are kept as what makes them: Align  *)
(* and JoinNestedOuter.                                                    *)
(***************************************************************************)
EXTENDS Integers, Sequences, SequencesExt

CONSTANTS
    TabWidth,       \* columns of a tab
    Documents       \* all documents: the domain of the functions on them

ASSUME TabWidthAssumption == TabWidth \in 1..32767

MinInt16 == -32768
MaxInt16 == 32767
Int16s   == MinInt16..MaxInt16
Int16(x) == ((x + 32768) % 65536) - 32768

-----------------------------------------------------------------------------
(* document.go.                                                            *)

Nil       == [tag |-> "nil"]
Line      == [tag |-> "line"]         \* a newline, or flattened a space
SoftBreak == [tag |-> "softbreak"]    \* a newline, or flattened nothing
HardLine  == [tag |-> "hardline"]     \* a newline

Text(s, n) == [tag |-> "text", s |-> s, n |-> n]
textSpace  == Text(" ", 1)

Pad(n)      == [tag |-> "pad", n |-> n]
NestT(d)    == [tag |-> "nestt", d |-> d]
NestS(n, d) == [tag |-> "nests", n |-> n, d |-> d]
Align(d)    == [tag |-> "align", d |-> d]
Union(x, y) == [tag |-> "union", x |-> x, y |-> y]
Outer(lbl, ds, flat) == [tag |-> "outer", lbl |-> lbl, ds |-> ds, flat |-> flat]

(* fnab is fn(a, b). *)
simplifyNil(a, b, fnab) == IF a = Nil THEN b ELSE IF b = Nil THEN a ELSE fnab

Concat(a, b) == simplifyNil(a, b, [tag |-> "concat", a |-> a, b |-> b])

Flatten[d \in Documents] ==
    CASE d.tag \in {"nil", "softbreak", "pad"} -> Nil
      [] d.tag \in {"text", "hardline"}        -> d
      [] d.tag = "line"   -> textSpace
      [] d.tag = "concat" -> Concat(Flatten[d.a], Flatten[d.b])
      [] d.tag = "nestt"  -> NestT(Flatten[d.d])
      [] d.tag = "nests"  -> NestS(d.n, Flatten[d.d])
      [] d.tag = "align"  -> Align(Flatten[d.d])
      [] d.tag = "outer"  -> Outer(d.lbl, d.ds, TRUE)
      [] OTHER            -> Flatten[d.x]

Group(d) == Union(Flatten[d], d)

-----------------------------------------------------------------------------
(* util.go.                                                                *)

ConcatDoc(a, b, between) == simplifyNil(a, b, Concat(a, Concat(between, b)))
ConcatLine(a, b)  == ConcatDoc(a, b, Line)
ConcatSpace(a, b) == ConcatDoc(a, b, textSpace)

(* Fold of ConcatDoc with some document between.  Fold and FoldMap start   *)
(* from the last document; Nil on the right is the identity of all they    *)
(* are called with.                                                        *)
Fold(between, ds) ==
    LET from[j \in 1..(Len(ds) + 1)] ==
            IF j > Len(ds) THEN Nil ELSE ConcatDoc(ds[j], from[j + 1], between)
    IN  from[1]

FoldMap(g(_), ds) == Fold(Nil, [j \in DOMAIN ds |-> g(ds[j])])

(* Bug: the last document is left out. *)
StackBug(ds) == Fold(Line, Front(ds))

Stack(ds)     == Fold(Line, ds)
Fillwords(ds) == Fold(Union(textSpace, Line), ds)

JoinDoc(s, ds) ==
    LET from[j \in 1..(Len(ds) + 1)] ==
            CASE j > Len(ds) -> Nil
              [] j = Len(ds) -> ds[j]
              [] OTHER       -> Concat(ds[j], Concat(s, from[j + 1]))
    IN  from[1]

Join(s, ds) == JoinDoc(Concat(s, Line), ds)

JoinNestedRight(sep, ds) ==
    IF ds = <<>> THEN Nil
    ELSE Concat(ds[1],
                FoldMap(LAMBDA a : Concat(Line, ConcatSpace(sep, NestT(Group(a)))), Tail(ds)))

NestUnder(head, nested) ==
    Group(Concat(head, NestT(Concat(Line, Group(nested)))))

(* Bug: the line is left out. *)
AlignUnderBug(head, nested) ==
    LET g == Group(nested)
    IN  Group(Union(ConcatSpace(head, Align(g)), Concat(head, NestT(g))))

AlignUnder(head, nested) ==
    LET g == Group(nested)
    IN  Group(Union(ConcatSpace(head, Align(g)),
                    Concat(head, NestT(Concat(Line, g)))))

BracketDoc(l, x, r) ==
    Group(Fold(Nil, <<l, NestT(Concat(SoftBreak, x)), SoftBreak, r>>))

JoinNestedOuter(lbl, ds) == Outer(lbl, ds, FALSE)

(* Bug: the label needs a column more. *)
RoomForBug(n, spaces) == spaces >= n

(* Whether a label of length n and a space fit in the indentation. *)
RoomFor(n, spaces) == spaces >= n + 1

(* What JoinNestedOuter turns into under an indentation of some spaces. *)
OuterDoc(d, spaces) ==
    LET doc == IF ~RoomFor(d.lbl.n, spaces) THEN JoinNestedRight(d.lbl, d.ds)
               ELSE Concat(d.ds[1],
                           NestS(-d.lbl.n - 1,
                                 FoldMap(LAMBDA x : Concat(Line, ConcatSpace(d.lbl, Align(Group(x)))),
                                         Tail(d.ds))))
    IN  IF d.flat THEN Flatten[doc] ELSE doc

(* Table.  A row is a label, Nil for none, and a document.  What a row is  *)
(* skipped for is Nil, which a Stack skips.                                *)
Skipped(r) == r.label = Nil /\ r.doc = Nil

Width(r) == IF r.label = Nil THEN 0 ELSE r.label.n

LeftColumnWidth(rows) ==
    CHOOSE n \in {0} \cup {Width(rows[j]) : j \in DOMAIN rows} :
        \A j \in DOMAIN rows : Width(rows[j]) <= n

NestedSection(r) ==
    CASE Skipped(r)     -> Nil
      [] r.label # Nil  -> simplifyNil(r.label, r.doc, Concat(r.label, NestT(Concat(Line, Group(r.doc)))))
      [] OTHER          -> Group(r.doc)

AlignedItem(r, leftPad, leftWidth) ==
    LET p     == Pad(leftWidth - Width(r))
        pleft == IF leftPad THEN Concat(p, r.label) ELSE Concat(r.label, p)
    IN  CASE Skipped(r)    -> Nil
          [] r.label # Nil -> simplifyNil(pleft, r.doc, ConcatSpace(pleft, Align(Group(r.doc))))
          [] OTHER         -> Concat(Pad(leftWidth + 1), Align(Group(r.doc)))

Table(alignment, rows) ==
    LET width   == LeftColumnWidth(rows)
        nested  == Stack([j \in DOMAIN rows |-> NestedSection(rows[j])])
        aligned == Stack([j \in DOMAIN rows |-> AlignedItem(rows[j], alignment = "right", width)])
    IN  Group(IF alignment = "no" THEN nested ELSE Union(aligned, nested))

-----------------------------------------------------------------------------
(* pretty.go.  A position is a number of tabs and a number of spaces; a    *)
(* document still to be laid out comes with the position of its nesting.   *)
(* The memo of be is left out: its key is all that be depends on.          *)

DocPos(t, s) == [tabs |-> t, spaces |-> s]
Positions    == [tabs : Int16s, spaces : Int16s]
Origin       == DocPos(0, 0)
IDoc(i, d)   == [i |-> i, d |-> d]

(* The selected document is a sequence of these. *)
TextB(d)    == [tag |-> "textB", s |-> d.s, n |-> d.n]
SpacesB(n)  == [tag |-> "spacesB", n |-> n]
LineB(i)    == [tag |-> "lineB", i |-> i]
HardLineB(i) == [tag |-> "hardlineB", i |-> i]

Overrun(w) == w < 0

fits(w, x) ==
    LET from[j \in 1..(Len(x) + 1), room \in Int16s] ==
            IF Overrun(room) THEN FALSE
            ELSE IF j > Len(x) THEN TRUE
            ELSE CASE x[j].tag \in {"textB", "spacesB"} -> from[j + 1, Int16(room - Int16(x[j].n))]
                   [] x[j].tag = "lineB"                -> TRUE
                   [] x[j].tag = "hardlineB"            -> FALSE
    IN  from[1, w]

(* Bug: the tabs are not counted. *)
RemainderBug(w, k) == Int16(w - k.spaces)

Remainder(w, k) == Int16(w - k.spaces - k.tabs * TabWidth)

better(w, k, x, y) == IF fits(Remainder(w, k), x) THEN x ELSE y

(* NestT: the next tab stop after the spaces.  Division is towards zero. *)
TabsIn(n) == IF n >= 0 THEN n \div TabWidth ELSE -((-n) \div TabWidth)
TabPos(i) == DocPos(Int16(i.tabs + 1 + TabsIn(i.spaces)), 0)

Move(i, n) == [i EXCEPT !.spaces = Int16(@ + Int16(n))]

(* The documents that d stands for at position k under nesting i, for a d   *)
(* that writes nothing itself.                                             *)
Structure == {"nil", "concat", "nests", "nestt", "align", "outer"}

Unfold(k, i, d) ==
    CASE d.tag = "nil"    -> <<>>
      [] d.tag = "concat" -> <<IDoc(i, d.a), IDoc(i, d.b)>>
      [] d.tag = "nests"  -> <<IDoc(Move(i, d.n), d.d)>>
      [] d.tag = "nestt"  -> <<IDoc(TabPos(i), d.d)>>
      [] d.tag = "align"  -> <<IDoc(i, NestS(Int16(k.spaces - i.spaces), d.d))>>
      [] d.tag = "outer"  -> <<IDoc(i, OuterDoc(d, i.spaces))>>

ToLayOut == Seq([i : Positions, d : Documents])

be(w, k0, xlist0) ==
    LET lay[p \in [k : Positions, xlist : ToLayOut]] ==
            IF p.xlist = <<>> THEN <<>>
            ELSE
              LET d == p.xlist[1].d
                  i == p.xlist[1].i
                  k == p.k
                  z == Tail(p.xlist)
                  rest(q, xlist) == lay[[k |-> q, xlist |-> xlist]]
              IN  CASE d.tag \in Structure           -> rest(k, Unfold(k, i, d) \o z)
                    [] d.tag = "text"                -> <<TextB(d)>> \o rest(Move(k, d.n), z)
                    [] d.tag = "pad"                 -> <<SpacesB(d.n)>> \o rest(Move(k, d.n), z)
                    [] d.tag \in {"line", "softbreak"} -> <<LineB(i)>> \o rest(i, z)
                    [] d.tag = "hardline"            -> <<HardLineB(i)>> \o rest(i, z)
                    [] OTHER                         -> better(w, k, rest(k, <<IDoc(i, d.x)>> \o z),
                                                                     rest(k, <<IDoc(i, d.y)>> \o z))
    IN  lay[[k |-> k0, xlist |-> xlist0]]

best(w, x) == be(w, Origin, <<IDoc(Origin, x)>>)

(* layout: the lines of the output, each with its tabs and the pieces that *)
(* follow them.  Spaces that come out negative are none.                   *)
NewLine(i) == [tabs |-> i.tabs, pieces |-> IF i.spaces > 0 THEN <<SpacesB(i.spaces)>> ELSE <<>>]

AddPiece(lines, p) == [lines EXCEPT ![Len(lines)].pieces = Append(@, p)]

layout(items) ==
    LET lines[n \in 0..Len(items)] ==
            IF n = 0 THEN <<NewLine(Origin)>>
            ELSE LET x == items[n]
                 IN  CASE x.tag \in {"lineB", "hardlineB"}  -> Append(lines[n - 1], NewLine(x.i))
                       [] x.tag = "spacesB" /\ x.n <= 0     -> lines[n - 1]
                       [] OTHER                             -> AddPiece(lines[n - 1], x)
    IN  lines[Len(items)]

Pretty(d, n) == layout(best(Int16(n), d))
=============================================================================
