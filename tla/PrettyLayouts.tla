---------------------------- MODULE PrettyLayouts ---------------------------
(***************************************************************************)
(* What the printer of package pretty should do with the documents of its  *)
(* client: the layouts themselves, all of them, and which is to be chosen. *)
(***************************************************************************)
EXTENDS Pretty

(* What the printer should do, from the output alone: the position is      *)
(* read off the line that is being written, and integers have no width.    *)

Rel(ln)    == FoldLeft(LAMBDA n, p : n + p.n, 0, ln.pieces)
Column(ln) == ln.tabs * TabWidth + Rel(ln)

(* The columns at which the line ln may end if xlist follows, over all     *)
(* choices; a line that a hard line ends is marked.                        *)
RECURSIVE Ends(_, _)
Ends(ln, xlist) ==
    IF xlist = <<>> THEN {[col |-> Column(ln), hard |-> FALSE]}
    ELSE
      LET d == xlist[1].d
          i == xlist[1].i
          z == Tail(xlist)
      IN  CASE d.tag \in Structure -> Ends(ln, Unfold(DocPos(ln.tabs, Rel(ln)), i, d) \o z)
            [] d.tag \in {"text", "pad"} ->
                  Ends([ln EXCEPT !.pieces = Append(@, SpacesB(d.n))], z)
            [] d.tag \in {"line", "softbreak"} -> {[col |-> Column(ln), hard |-> FALSE]}
            [] d.tag = "hardline" -> {[col |-> Column(ln), hard |-> TRUE]}
            [] d.tag = "union" -> Ends(ln, <<IDoc(i, d.x)>> \o z) \cup Ends(ln, <<IDoc(i, d.y)>> \o z)

(* At every union the first side is taken if, over all choices still to be *)
(* made, some way to end the line fits in n columns.                       *)
RECURSIVE Greedy(_, _, _)
Greedy(n, lines, xlist) ==
    IF xlist = <<>> THEN lines
    ELSE
      LET d  == xlist[1].d
          i  == xlist[1].i
          z  == Tail(xlist)
          ln == Last(lines)
          x  == <<IDoc(i, d.x)>> \o z
      IN  CASE d.tag \in Structure ->
                  Greedy(n, lines, Unfold(DocPos(ln.tabs, Rel(ln)), i, d) \o z)
            [] d.tag = "text" -> Greedy(n, AddPiece(lines, TextB(d)), z)
            [] d.tag = "pad"  -> Greedy(n, IF d.n > 0 THEN AddPiece(lines, SpacesB(d.n)) ELSE lines, z)
            [] d.tag \in {"line", "softbreak", "hardline"} -> Greedy(n, Append(lines, NewLine(i)), z)
            [] d.tag = "union" ->
                  Greedy(n, lines, IF \E e \in Ends(ln, x) : e.col <= n /\ ~e.hard
                                 THEN x ELSE <<IDoc(i, d.y)>> \o z)

(* Everything that the printer comes by on its way through xlist, with the *)
(* position of the output and that of the nesting.                         *)
RECURSIVE Path(_, _, _)
Path(w, k, xlist) ==
    IF xlist = <<>> THEN {}
    ELSE
      LET d == xlist[1].d
          i == xlist[1].i
          z == Tail(xlist)
          x == <<IDoc(i, d.x)>> \o z
      IN  {[k |-> k, i |-> i, d |-> d, z |-> z]} \cup
          (CASE d.tag \in Structure -> Path(w, k, Unfold(k, i, d) \o z)
             [] d.tag \in {"text", "pad"} -> Path(w, Move(k, d.n), z)
             [] d.tag \in {"line", "softbreak", "hardline"} -> Path(w, i, z)
             [] d.tag = "union" ->
                   Path(w, k, IF fits(Remainder(w, k), be(w, k, x))
                              THEN x ELSE <<IDoc(i, d.y)>> \o z))

Way == IF Printed THEN Path(Int16(width), Origin, <<IDoc(Origin, docs[1])>>) ELSE {}

(* What d is when it is flattened under i: its words, spaces and hard      *)
(* lines, without the indentation of these.                                *)
Flat(d, i) ==
    LET chosen == best(32767, NestS(i.spaces, Flatten[d]))
    IN  [j \in DOMAIN chosen |-> IF chosen[j].tag = "textB" THEN chosen[j].s ELSE "newline"]

-----------------------------------------------------------------------------
(* The printer decides by looking at the best layout of what follows, with *)
(* a position it counts along: it decides as if it had looked at all       *)
(* layouts, with the column that the output really has.                    *)
GreedyLayout ==
    Printed => out = Greedy(width, <<NewLine(Origin)>>, <<IDoc(Origin, docs[1])>>)

(* "x and y must flatten to the same layout.  Additionally, no first line  *)
(* of a document in x is shorter than some first line of a document in y"  *)
(* (document.go:140): at every union the printer comes by, its second side *)
(* says the same, and is no worse than the first one, which did not fit.   *)
UnionSound ==
    \A st \in {s \in Way : s.d.tag = "union"} :
        LET ln == NewLine(st.k)
            X  == Ends(ln, <<IDoc(st.i, st.d.x)>> \o st.z)
            Y  == Ends(ln, <<IDoc(st.i, st.d.y)>> \o st.z)
        IN  /\ Flat(st.d.x, st.i) = Flat(st.d.y, st.i)
            /\ \A x \in X : \E y \in Y : y.col <= x.col
=============================================================================
