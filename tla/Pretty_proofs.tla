--------------------------- MODULE Pretty_proofs ---------------------------
(***************************************************************************)
(* Theorems about package pretty and its client: no document that the      *)
(* client can make, laid out for any width, loses, repeats or reorders a   *)
(* word.                                                                   *)
(*                                                                         *)
(* Documents and the work of the printer are trees, and the provers have   *)
(* no induction over them.  A set stands for it: Documents is the least    *)
(* set closed under the constructors, and what holds of all documents is   *)
(* shown of a set that is closed; be is shown to come to an end, and to    *)
(* keep the words, in the same way.                                        *)
(***************************************************************************)
EXTENDS Pretty, SequenceTheorems, WellFoundedInduction, TLAPS

-----------------------------------------------------------------------------
(* Recursion.  The value of step at p is made from the values at keys[p];  *)
(* when every set that has p as soon as it has keys[p] is everything, step *)
(* has a fixed point.                                                      *)
Recursive(S, R, keys, step) ==
    /\ keys \in [S -> SUBSET S]
    /\ step \in [[S -> R] -> [S -> R]]
    /\ R # {}
    /\ \A g, h \in [S -> R] : \A p \in S :
          (\A q \in keys[p] : g[q] = h[q]) => step[g][p] = step[h][p]
    /\ \A T \in SUBSET S : (\A p \in S : keys[p] \subseteq T => p \in T) => T = S

LEMMA Recursion ==
    ASSUME NEW S, NEW R, NEW keys, NEW step, Recursive(S, R, keys, step)
    PROVE  \E f \in [S -> R] : f = step[f]
<1> USE DEF Recursive
<1> DEFINE Solves(T, g) == /\ T \in SUBSET S /\ g \in [S -> R]
                           /\ \A p \in T : keys[p] \subseteq T /\ g[p] = step[g][p]
           Has(p, v) == \E T, g : Solves(T, g) /\ p \in T /\ g[p] = v
           A == {p \in S : \E v : Has(p, v)}
           star == [p \in S |-> IF p \in A THEN CHOOSE v : Has(p, v) ELSE CHOOSE r : r \in R]
<1>1. ASSUME NEW T1, NEW g1, NEW T2, NEW g2, Solves(T1, g1), Solves(T2, g2)
      PROVE  \A p \in T1 \cap T2 : g1[p] = g2[p]
    <2> DEFINE E == {p \in S : p \in T1 \cap T2 => g1[p] = g2[p]}
    <2>1. ASSUME NEW p \in S, keys[p] \subseteq E PROVE p \in E
        <3>1. SUFFICES ASSUME p \in T1 \cap T2 PROVE g1[p] = g2[p]
            OBVIOUS
        <3>2. \A q \in keys[p] : g1[q] = g2[q]
            BY <1>1, <2>1, <3>1
        <3>3. step[g1][p] = step[g2][p]
            BY <1>1, <3>2
        <3> QED BY <1>1, <3>1, <3>3
    <2>2. E \in SUBSET S
        OBVIOUS
    <2> HIDE DEF E
    <2>3. E = S
        BY <2>1, <2>2
    <2> QED BY <2>3, <1>1 DEF E
<1>2. ASSUME NEW p, NEW v, NEW u, Has(p, v), Has(p, u) PROVE v = u
    BY <1>1, <1>2
<1>3. \A p \in A : Has(p, star[p])
    <2>1. TAKE p \in A
    <2>2. PICK v : Has(p, v)
        BY <2>1
    <2> HIDE DEF Has
    <2>3. Has(p, CHOOSE u : Has(p, u))
        BY <2>2
    <2>4. star[p] = CHOOSE u : Has(p, u)
        BY <2>1
    <2> QED BY <2>3, <2>4
<1>4. star \in [S -> R]
    <2>1. ASSUME NEW p \in A PROVE star[p] \in R
        BY <2>1, <1>3
    <2> HIDE DEF A, Has
    <2>2. ASSUME NEW p \in S, p \notin A PROVE star[p] \in R
        <3>1. star[p] = CHOOSE r : r \in R
            BY <2>2
        <3> QED BY <3>1
    <2>3. DOMAIN star = S /\ star = [p \in S |-> star[p]]
        OBVIOUS
    <2> HIDE DEF star
    <2> QED BY <2>1, <2>2, <2>3
<1> HIDE DEF star
<1>5. Solves(A, star)
    <2>1. ASSUME NEW p \in A PROVE keys[p] \subseteq A /\ star[p] = step[star][p]
        <3>1. PICK T, g : Solves(T, g) /\ p \in T /\ g[p] = star[p]
            BY <1>3
        <3>2. \A q \in T : Has(q, g[q])
            BY <3>1
        <3>3. T \subseteq A
            BY <3>1, <3>2
        <3>4. \A q \in T : star[q] = g[q]
            <4> HIDE DEF Has, A, star
            <4>1. TAKE q \in T
            <4>2. Has(q, g[q]) /\ Has(q, star[q])
                BY <3>2, <3>3, <1>3
            <4> QED BY <4>2, <1>2
        <3>5. keys[p] \subseteq T
            BY <3>1
        <3>6. step[star][p] = step[g][p]
            BY <3>1, <3>4, <3>5, <1>4
        <3> QED BY <3>1, <3>3, <3>5, <3>6
    <2> QED BY <2>1, <1>4
<1>6. ASSUME NEW p \in S, keys[p] \subseteq A PROVE p \in A
    <2>1. SUFFICES ASSUME p \notin A PROVE FALSE
        OBVIOUS
    <2> DEFINE T == A \cup {p}
               g == [star EXCEPT ![p] = step[star][p]]
    <2>2. g \in [S -> R]
        BY <1>4
    <2>3. \A q \in A : g[q] = star[q]
        BY <2>1, <1>4
    <2>4. g[p] = step[star][p]
        BY <1>4
    <2>5. T \in SUBSET S
        OBVIOUS
    <2> HIDE DEF g
    <2>6. \A q \in T : keys[q] \subseteq A
        BY <1>5, <1>6
    <2>7. \A q \in T : step[g][q] = step[star][q]
        <3>1. TAKE q \in T
        <3>2. \A r \in keys[q] : g[r] = star[r]
            BY <2>3, <2>6
        <3>3. q \in S
            BY <2>5
        <3> HIDE DEF T
        <3> QED BY <3>2, <3>3, <2>2, <1>4
    <2>8. \A q \in T : g[q] = step[star][q]
        <3>1. \A q \in A : star[q] = step[star][q]
            BY <1>5
        <3> HIDE DEF A
        <3> QED BY <3>1, <2>3, <2>4
    <2>9. Solves(T, g)
        BY <2>2, <2>5, <2>6, <2>7, <2>8
    <2>10. Has(p, g[p])
        <3>1. p \in T
            OBVIOUS
        <3> HIDE DEF T, Solves
        <3> QED BY <3>1, <2>9
    <2> QED BY <2>10, <2>1
<1>7. A = S
    <2>1. A \in SUBSET S
        OBVIOUS
    <2> HIDE DEF A
    <2> QED BY <2>1, <1>6
<1>8. \A p \in S : star[p] = step[star][p]
    <2>1. \A p \in A : star[p] = step[star][p]
        BY <1>5
    <2> HIDE DEF A
    <2> QED BY <2>1, <1>7
<1>9. step[star] \in [S -> R]
    BY <1>4
<1>10. star = step[star]
    BY <1>4, <1>8, <1>9
<1> QED BY <1>4, <1>10

-----------------------------------------------------------------------------
(* Of the literals that are texts, TLAPS does not know that they are       *)
(* strings.                                                                *)
Strings == STRING \cup {" ", "(", ")", ","}

(* The documents: what is made of documents by the constructors, and       *)
(* nothing else.                                                           *)
ConcatOf(a, b) == [tag |-> "concat", a |-> a, b |-> b]
Texts          == {Text(s, n) : s \in Strings, n \in Int}

Made(D) ==
    {Nil, Line, SoftBreak, HardLine} \cup Texts
    \cup {Pad(n) : n \in Int}
    \cup {ConcatOf(a, b) : a \in D, b \in D}
    \cup {Union(a, b) : a \in D, b \in D}
    \cup {NestT(d) : d \in D}
    \cup {NestS(n, d) : n \in Int, d \in D}
    \cup {Align(d) : d \in D}
    \cup {Outer(l, ds, fl) : l \in Texts, ds \in Seq(D) \ {<<>>}, fl \in BOOLEAN}

AllDocuments(D) ==
    /\ Made(D) \subseteq D
    /\ \A S \in SUBSET D : Made(S) \subseteq S => S = D

LEMMA MadeMonotone ==
    ASSUME NEW D, NEW S \in SUBSET D
    PROVE  Made(S) \subseteq Made(D)
<1>1. Seq(S) \subseteq Seq(D)
    BY SeqMonotonic
<1> QED BY <1>1 DEF Made

LEMMA DocumentsAreMade ==
    ASSUME NEW D, AllDocuments(D)
    PROVE  D = Made(D)
<1>1. Made(D) \in SUBSET D
    BY DEF AllDocuments
<1>2. Made(Made(D)) \subseteq Made(D)
    BY <1>1, MadeMonotone
<1> QED BY <1>1, <1>2 DEF AllDocuments

LEMMA DocumentShapes ==
    ASSUME NEW D, AllDocuments(D), NEW d \in D
    PROVE  /\ d.tag \in Tags
           /\ d.tag = "nil" => d = Nil
           /\ d.tag = "line" => d = Line
           /\ d.tag = "softbreak" => d = SoftBreak
           /\ d.tag = "hardline" => d = HardLine
           /\ d.tag = "text" => d.s \in Strings /\ d.n \in Int /\ d = Text(d.s, d.n)
           /\ d.tag = "pad" => d.n \in Int /\ d = Pad(d.n)
           /\ d.tag = "concat" => d.a \in D /\ d.b \in D /\ d = ConcatOf(d.a, d.b)
           /\ d.tag = "union" => d.x \in D /\ d.y \in D /\ d = Union(d.x, d.y)
           /\ d.tag = "nestt" => d.d \in D /\ d = NestT(d.d)
           /\ d.tag = "nests" => d.n \in Int /\ d.d \in D /\ d = NestS(d.n, d.d)
           /\ d.tag = "align" => d.d \in D /\ d = Align(d.d)
           /\ d.tag = "outer" => /\ d.lbl \in Texts /\ d.ds \in Seq(D) \ {<<>>} /\ d.flat \in BOOLEAN
                                 /\ d = Outer(d.lbl, d.ds, d.flat)
<1>1. d \in Made(D)
    BY DocumentsAreMade
<1>2. CASE d \in {Nil, Line, SoftBreak, HardLine} \cup Texts \cup {Pad(n) : n \in Int}
    BY <1>2 DEF Texts, Nil, Line, SoftBreak, HardLine, Text, Pad, Tags, Structure
<1>3. CASE \E a, b \in D : d = ConcatOf(a, b) \/ d = Union(a, b)
    BY <1>3 DEF ConcatOf, Union, Tags, Structure
<1>4. CASE \E b \in D, n \in Int : d = NestT(b) \/ d = NestS(n, b) \/ d = Align(b)
    BY <1>4 DEF NestT, NestS, Align, Tags, Structure
<1>5. CASE \E l \in Texts, ds \in Seq(D) \ {<<>>}, fl \in BOOLEAN : d = Outer(l, ds, fl)
    BY <1>5 DEF Outer, Tags, Structure
<1> QED
    BY <1>1, <1>2, <1>3, <1>4, <1>5 DEF Made

LEMMA DocumentsMade ==
    ASSUME NEW D, AllDocuments(D)
    PROVE  /\ Nil \in D /\ Line \in D /\ SoftBreak \in D /\ HardLine \in D
           /\ Texts \subseteq D
           /\ \A n \in Int : Pad(n) \in D
           /\ \A a, b \in D : ConcatOf(a, b) \in D /\ Union(a, b) \in D
           /\ \A d \in D : NestT(d) \in D /\ Align(d) \in D
           /\ \A n \in Int, d \in D : NestS(n, d) \in D
           /\ \A l \in Texts, ds \in Seq(D) \ {<<>>}, fl \in BOOLEAN : Outer(l, ds, fl) \in D
BY DEF AllDocuments, Made

-----------------------------------------------------------------------------
(* Flatten is defined on all documents.                                    *)
Parts(d) ==
    CASE d.tag = "concat" -> {d.a, d.b}
      [] d.tag \in {"nestt", "nests", "align"} -> {d.d}
      [] d.tag = "union" -> {d.x}
      [] OTHER -> {}

FlattenStep(f, d) ==
    CASE d.tag \in {"nil", "softbreak", "pad"} -> Nil
      [] d.tag \in {"text", "hardline"}        -> d
      [] d.tag = "line"   -> textSpace
      [] d.tag = "concat" -> Concat(f[d.a], f[d.b])
      [] d.tag = "nestt"  -> NestT(f[d.d])
      [] d.tag = "nests"  -> NestS(d.n, f[d.d])
      [] d.tag = "align"  -> Align(f[d.d])
      [] d.tag = "outer"  -> Outer(d.lbl, d.ds, TRUE)
      [] OTHER            -> f[d.x]

LEMMA ConcatCases ==
    ASSUME NEW a, NEW b
    PROVE  /\ a = Nil => Concat(a, b) = b
           /\ b = Nil => Concat(a, b) = a
           /\ a # Nil /\ b # Nil => Concat(a, b) = ConcatOf(a, b)
BY DEF Concat, simplifyNil, ConcatOf

LEMMA ConcatType ==
    ASSUME NEW D, AllDocuments(D), NEW a \in D, NEW b \in D
    PROVE  Concat(a, b) \in D
BY DocumentsMade, ConcatCases

LEMMA OuterFlat ==
    ASSUME NEW D, AllDocuments(D), NEW d \in D, d.tag = "outer"
    PROVE  Outer(d.lbl, d.ds, TRUE) \in D
<1>1. d.lbl \in Texts /\ d.ds \in Seq(D) \ {<<>>} /\ TRUE \in BOOLEAN
    BY DocumentShapes
<1> QED BY <1>1, DocumentsMade, Zenon

LEMMA TextIsText ==
    ASSUME NEW s \in Strings, NEW n \in Int
    PROVE  Text(s, n) \in Texts
BY DEF Texts

LEMMA SpaceIsText == textSpace \in Texts
<1>1. " " \in Strings /\ 1 \in Int
    BY DEF Strings
<1>2. Text(" ", 1) \in Texts
    BY <1>1, TextIsText
<1> QED BY <1>2, Zenon DEF textSpace

LEMMA FlattenStepType ==
    ASSUME NEW D, AllDocuments(D), NEW d \in D, NEW f, \A q \in Parts(d) : f[q] \in D
    PROVE  FlattenStep(f, d) \in D
<1>1. d.tag \in Tags
    BY DocumentShapes
<1>2. CASE d.tag \in {"nil", "softbreak", "pad", "text", "hardline", "line"}
    <2>1. textSpace \in D
        BY DocumentsMade, SpaceIsText
    <2> QED BY <1>2, <2>1, DocumentsMade DEF FlattenStep
<1>3. CASE d.tag = "concat"
    <2>1. f[d.a] \in D /\ f[d.b] \in D
        BY <1>3 DEF Parts
    <2>2. FlattenStep(f, d) = Concat(f[d.a], f[d.b])
        BY <1>3 DEF FlattenStep
    <2> QED BY <2>1, <2>2, ConcatType
<1>4. CASE d.tag \in {"nestt", "nests", "align"}
    <2>1. f[d.d] \in D
        BY <1>4 DEF Parts
    <2>2. d.tag = "nests" => d.n \in Int
        BY DocumentShapes
    <2> QED BY <1>4, <2>1, <2>2, DocumentsMade DEF FlattenStep
<1>5. CASE d.tag = "union"
    BY <1>5 DEF Parts, FlattenStep
<1>6. CASE d.tag = "outer"
    BY <1>6, OuterFlat DEF FlattenStep
<1> QED
    BY <1>1, <1>2, <1>3, <1>4, <1>5, <1>6 DEF Tags, Structure

LEMMA FlattenStepSame ==
    ASSUME NEW D, AllDocuments(D), NEW d \in D, NEW f, NEW g, \A q \in Parts(d) : f[q] = g[q]
    PROVE  FlattenStep(f, d) = FlattenStep(g, d)
<1>1. d.tag \in Tags
    BY DocumentShapes
<1>2. CASE d.tag \in {"nil", "softbreak", "pad", "text", "hardline", "line", "outer"}
    BY <1>2 DEF FlattenStep
<1>3. CASE d.tag = "concat"
    BY <1>3 DEF Parts, FlattenStep
<1>4. CASE d.tag \in {"nestt", "nests", "align"}
    BY <1>4 DEF Parts, FlattenStep
<1>5. CASE d.tag = "union"
    BY <1>5 DEF Parts, FlattenStep
<1> QED
    BY <1>1, <1>2, <1>3, <1>4, <1>5 DEF Tags, Structure

LEMMA PartsOfDocument ==
    ASSUME NEW D, AllDocuments(D), NEW d \in D
    PROVE  Parts(d) \subseteq D
BY DocumentShapes DEF Parts

(* Induction over the parts of a document. *)
LEMMA PartsInduction ==
    ASSUME NEW D, AllDocuments(D), NEW T \in SUBSET D,
           \A d \in D : Parts(d) \subseteq T => d \in T
    PROVE  T = D
<1>1. ASSUME NEW d \in Made(T) PROVE Parts(d) \subseteq T
    <2>1. CASE d \in {Nil, Line, SoftBreak, HardLine} \cup Texts \cup {Pad(n) : n \in Int}
        BY <2>1 DEF Texts, Nil, Line, SoftBreak, HardLine, Text, Pad, Parts
    <2>2. CASE \E a, b \in T : d = ConcatOf(a, b) \/ d = Union(a, b)
        BY <2>2 DEF ConcatOf, Union, Parts
    <2>3. CASE \E b \in T, n \in Int : d = NestT(b) \/ d = NestS(n, b) \/ d = Align(b)
        BY <2>3 DEF NestT, NestS, Align, Parts
    <2>4. CASE \E l \in Texts, ds \in Seq(T) \ {<<>>}, fl \in BOOLEAN : d = Outer(l, ds, fl)
        BY <2>4 DEF Outer, Parts
    <2> QED
        BY <1>1, <2>1, <2>2, <2>3, <2>4 DEF Made
<1>2. Made(T) \subseteq D
    BY MadeMonotone, DocumentsAreMade
<1>3. Made(T) \subseteq T
    BY <1>1, <1>2
<1> QED BY <1>3 DEF AllDocuments

LEMMA FlattenIs ==
    ASSUME AllDocuments(Documents)
    PROVE  Flatten = [d \in Documents |-> FlattenStep(Flatten, d)]
<1> DEFINE D == Documents
           Body(f) == f = [d \in Documents |-> FlattenStep(f, d)]
           keys == [d \in D |-> Parts(d)]
           step == [f \in [D -> D] |-> [d \in D |-> FlattenStep(f, d)]]
<1>1. Flatten = CHOOSE f : Body(f)
    BY Zenon DEF Flatten, FlattenStep
<1>2. keys \in [D -> SUBSET D]
    BY PartsOfDocument
<1>3. step \in [[D -> D] -> [D -> D]]
    <2>1. ASSUME NEW f \in [D -> D] PROVE [d \in D |-> FlattenStep(f, d)] \in [D -> D]
        <3>1. ASSUME NEW d \in D PROVE FlattenStep(f, d) \in D
            <4>1. \A q \in Parts(d) : f[q] \in D
                BY PartsOfDocument
            <4> QED BY <4>1, FlattenStepType
        <3> QED BY <3>1
    <2> QED BY <2>1
<1>4. D # {}
    BY DocumentsMade
<1>5. ASSUME NEW f \in [D -> D], NEW g \in [D -> D], NEW d \in D,
             \A q \in keys[d] : f[q] = g[q]
      PROVE  step[f][d] = step[g][d]
    BY <1>5, FlattenStepSame
<1>6. ASSUME NEW T \in SUBSET D, \A d \in D : keys[d] \subseteq T => d \in T
      PROVE  T = D
    BY <1>6, PartsInduction
<1>7. \A f \in [D -> D] : step[f] = [d \in D |-> FlattenStep(f, d)]
    OBVIOUS
<1> HIDE DEF keys, step, D
<1>71. \A f, g \in [D -> D] : \A d \in D : (\A q \in keys[d] : f[q] = g[q]) => step[f][d] = step[g][d]
    BY <1>5
<1>72. \A T \in SUBSET D : (\A d \in D : keys[d] \subseteq T => d \in T) => T = D
    BY <1>6
<1>73. Recursive(D, D, keys, step)
    BY <1>2, <1>3, <1>4, <1>71, <1>72, Zenon DEF Recursive
<1>8. \E f \in [D -> D] : f = step[f]
    BY <1>73, Recursion
<1>9. \E f : Body(f)
    <2>1. PICK f \in [D -> D] : f = step[f]
        BY <1>8, Zenon
    <2>2. f = [d \in D |-> FlattenStep(f, d)]
        BY <2>1, <1>7, Zenon
    <2>3. Body(f)
        BY ONLY <2>2, Zenon DEF D
    <2> HIDE DEF Body
    <2> QED BY ONLY <2>3, Zenon
<1> HIDE DEF Body
<1>10. Body(Flatten)
    BY <1>1, <1>9
<1> QED BY <1>10 DEF Body

LEMMA FlattenType ==
    ASSUME AllDocuments(Documents)
    PROVE  \A d \in Documents : Flatten[d] \in Documents
<1> DEFINE T == {d \in Documents : Flatten[d] \in Documents}
<1>1. ASSUME NEW d \in Documents, Parts(d) \subseteq T PROVE d \in T
    <2>1. FlattenStep(Flatten, d) \in Documents
        BY <1>1, FlattenStepType
    <2>2. Flatten[d] = FlattenStep(Flatten, d)
        BY FlattenIs
    <2> QED BY <2>1, <2>2
<1>2. T \in SUBSET Documents
    OBVIOUS
<1> HIDE DEF T
<1>3. T = Documents
    BY <1>1, <1>2, PartsInduction
<1> QED BY <1>3 DEF T

LEMMA FlattenCases ==
    ASSUME AllDocuments(Documents), NEW d \in Documents
    PROVE  /\ d.tag \in {"nil", "softbreak", "pad"} => Flatten[d] = Nil
           /\ d.tag \in {"text", "hardline"} => Flatten[d] = d
           /\ d.tag = "line" => Flatten[d] = textSpace
           /\ d.tag = "concat" => Flatten[d] = Concat(Flatten[d.a], Flatten[d.b])
           /\ d.tag = "nestt" => Flatten[d] = NestT(Flatten[d.d])
           /\ d.tag = "nests" => Flatten[d] = NestS(d.n, Flatten[d.d])
           /\ d.tag = "union" => Flatten[d] = Flatten[d.x]
           /\ d.tag = "align" => Flatten[d] = Align(Flatten[d.d])
           /\ d.tag = "outer" => Flatten[d] = Outer(d.lbl, d.ds, TRUE)
<1>1. Flatten[d] = FlattenStep(Flatten, d)
    BY FlattenIs
<1>2. d.tag \in Tags
    BY DocumentShapes
<1> QED BY <1>1, <1>2 DEF FlattenStep, Tags, Structure

(* The least element and the induction of the naturals. *)
LEMMA LeastNatural ==
    ASSUME NEW T \in SUBSET Nat, T # {}
    PROVE  \E x \in T : \A y \in T : x <= y
<1> DEFINE R == OpToRel(<, Nat)
<1>1. IsWellFoundedOn(R, Nat)
    BY NatLessThanWellFounded
<1>2. PICK x \in T : \A y \in T : ~ (<<y, x>> \in R)
    BY <1>1, WFMin
<1>3. \A y \in T : <<y, x>> \in R <=> y < x
    BY DEF OpToRel
<1> HIDE DEF R
<1>4. \A y \in T : ~(y < x)
    BY ONLY <1>2, <1>3, Zenon
<1> QED
    BY ONLY <1>4, x \in T, T \subseteq Nat, SMT

LEMMA Induction ==
    ASSUME NEW S, 0 \in S, \A n \in Nat : n \in S => n + 1 \in S
    PROVE  \A n \in Nat : n \in S
<1> DEFINE T == Nat \ S
<1>1. SUFFICES ASSUME T # {} PROVE FALSE
    OBVIOUS
<1>2. PICK x \in T : \A y \in T : x <= y
    BY <1>1, LeastNatural, T \subseteq Nat
<1>3. x # 0 /\ x - 1 \in Nat
    BY <1>2
<1>4. x - 1 \in S
    BY <1>2, <1>3
<1> QED
    BY <1>2, <1>3, <1>4

(* From the last element of an interval to the first one. *)
LEMMA Downwards ==
    ASSUME NEW n \in Nat, NEW T,
           \A j \in 1..(n + 1) : (j <= n => j + 1 \in T) => j \in T
    PROVE  \A j \in 1..(n + 1) : j \in T
<1> DEFINE S == {m \in Nat : \A j \in 1..(n + 1) : n + 1 - j <= m => j \in T}
<1>1. 0 \in S
    <2>1. ASSUME NEW j \in 1..(n + 1), n + 1 - j <= 0 PROVE j \in T
        <3>1. ~(j <= n)
            BY <2>1
        <3> QED BY <3>1
    <2> QED BY <2>1
<1>2. ASSUME NEW m \in Nat, m \in S PROVE m + 1 \in S
    <2>1. ASSUME NEW j \in 1..(n + 1), n + 1 - j <= m + 1 PROVE j \in T
        <3>1. j <= n => j + 1 \in 1..(n + 1) /\ n + 1 - (j + 1) <= m
            BY <2>1
        <3>2. j <= n => j + 1 \in T
            BY <3>1, <1>2
        <3> QED BY <3>2
    <2> QED BY <2>1
<1> HIDE DEF S
<1>3. n \in S
    BY <1>1, <1>2, Induction
<1>4. \A j \in 1..(n + 1) : n + 1 - j <= n
    OBVIOUS
<1> QED BY <1>3, <1>4 DEF S

LEMMA Upwards ==
    ASSUME NEW n \in Nat, NEW T,
           \A j \in 0..n : (j > 0 => j - 1 \in T) => j \in T
    PROVE  \A j \in 0..n : j \in T
<1> DEFINE S == {m \in Nat : m <= n => m \in T}
<1>1. 0 \in S
    BY 0 \in 0..n
<1>2. ASSUME NEW m \in Nat, m \in S PROVE m + 1 \in S
    <2>1. m + 1 <= n => m + 1 \in 0..n /\ m + 1 > 0 /\ m + 1 - 1 = m /\ m <= n
        OBVIOUS
    <2> QED BY <1>2, <2>1
<1> HIDE DEF S
<1>3. \A m \in Nat : m \in S
    BY <1>1, <1>2, Induction
<1> QED BY <1>3 DEF S

-----------------------------------------------------------------------------
(* The folds of util.go are defined.                                       *)
LEMMA ConcatDocType ==
    ASSUME NEW D, AllDocuments(D), NEW a \in D, NEW b \in D, NEW between \in D
    PROVE  ConcatDoc(a, b, between) \in D
<1>1. Concat(between, b) \in D
    BY ConcatType
<1>2. Concat(a, Concat(between, b)) \in D
    BY <1>1, ConcatType
<1> QED BY <1>2 DEF ConcatDoc, simplifyNil

(* A function on places 1..(n + 1) from the value at the next place. *)
StepsBack(n, R, step) ==
    /\ n \in Nat
    /\ R # {}
    /\ step \in [[1..(n + 1) -> R] -> [1..(n + 1) -> R]]
    /\ \A f, g \in [1..(n + 1) -> R] : \A j \in 1..(n + 1) :
           (j <= n => f[j + 1] = g[j + 1]) => step[f][j] = step[g][j]

LEMMA FromNext ==
    ASSUME NEW n, NEW R, NEW step, StepsBack(n, R, step)
    PROVE  \E f \in [1..(n + 1) -> R] : f = step[f]
<1> USE DEF StepsBack
<1> DEFINE S == 1..(n + 1)
           keys == [j \in S |-> IF j <= n THEN {j + 1} ELSE {}]
<1>1. keys \in [S -> SUBSET S]
    OBVIOUS
<1>2. \A T \in SUBSET S : (\A p \in S : keys[p] \subseteq T => p \in T) => T = S
    <2>1. SUFFICES ASSUME NEW T \in SUBSET S, \A p \in S : keys[p] \subseteq T => p \in T
                   PROVE  T = S
        OBVIOUS
    <2>2. \A j \in 1..(n + 1) : (j <= n => j + 1 \in T) => j \in T
        BY <2>1
    <2>3. \A j \in 1..(n + 1) : j \in T
        BY <2>2, Downwards
    <2> QED BY <2>3
<1>3. \A f, g \in [S -> R] : \A j \in S :
          (\A q \in keys[j] : f[q] = g[q]) => step[f][j] = step[g][j]
    <2>1. ASSUME NEW f \in [S -> R], NEW g \in [S -> R], NEW j \in S,
                 \A q \in keys[j] : f[q] = g[q]
          PROVE  j <= n => f[j + 1] = g[j + 1]
        BY <2>1
    <2> HIDE DEF keys
    <2> QED BY <2>1
<1> HIDE DEF S, keys
<1>4. Recursive(S, R, keys, step)
    BY <1>1, <1>2, <1>3 DEF Recursive, S
<1>5. \E f \in [S -> R] : f = step[f]
    BY ONLY <1>4, Recursion
<1> QED BY ONLY <1>5, Zenon DEF S

LEMMA FoldIs ==
    ASSUME AllDocuments(Documents), NEW ds \in Seq(Documents), NEW between \in Documents
    PROVE  \E f \in [1..(Len(ds) + 1) -> Documents] :
               /\ Fold(between, ds) = f[1]
               /\ f[Len(ds) + 1] = Nil
               /\ \A j \in 1..Len(ds) : f[j] = ConcatDoc(ds[j], f[j + 1], between)
<1> DEFINE D == Documents
           n == Len(ds)
           S == 1..(n + 1)
           One(f, j) == IF j > n THEN Nil ELSE ConcatDoc(ds[j], f[j + 1], between)
           Body(f) == f = [j \in 1..(Len(ds) + 1) |->
                             IF j > Len(ds) THEN Nil ELSE ConcatDoc(ds[j], f[j + 1], between)]
           from == CHOOSE f : Body(f)
           step == [f \in [S -> D] |-> [j \in S |-> One(f, j)]]
<1>1. Fold(between, ds) = from[1]
    BY Zenon DEF Fold
<1>2. n \in Nat /\ \A j \in 1..n : ds[j] \in D /\ j + 1 \in S
    OBVIOUS
<1>3. ASSUME NEW f, NEW j \in S, j <= n => f[j + 1] \in D PROVE One(f, j) \in D
    <2>1. CASE j > n
        BY <2>1, DocumentsMade
    <2>2. CASE ~(j > n)
        <3>1. j \in 1..n /\ f[j + 1] \in D /\ ds[j] \in D
            BY <1>2, <1>3, <2>2
        <3>2. ConcatDoc(ds[j], f[j + 1], between) \in D
            BY <3>1, ConcatDocType
        <3> QED BY <2>2, <3>2
    <2> QED BY <2>1, <2>2
<1>4. step \in [[S -> D] -> [S -> D]]
    <2>1. ASSUME NEW f \in [S -> D] PROVE [j \in S |-> One(f, j)] \in [S -> D]
        <3>1. ASSUME NEW j \in S PROVE One(f, j) \in D
            <4>1. j <= n => j + 1 \in S
                BY <1>2
            <4>2. j <= n => f[j + 1] \in D
                BY <4>1
            <4> HIDE DEF One, S, n, D
            <4> QED BY <4>2, <1>3
        <3> HIDE DEF One
        <3> QED BY <3>1
    <2> HIDE DEF One
    <2> QED BY <2>1
<1>5. \A f, g \in [S -> D] : \A j \in S :
          (j <= n => f[j + 1] = g[j + 1]) => step[f][j] = step[g][j]
    <2>1. \A f \in [S -> D] : \A j \in S : step[f][j] = One(f, j)
        OBVIOUS
    <2>2. ASSUME NEW f, NEW g, NEW j \in S, j <= n => f[j + 1] = g[j + 1]
          PROVE  One(f, j) = One(g, j)
        <3>1. j <= n <=> ~(j > n)
            BY <1>2
        <3> QED BY <2>2, <3>1
    <2> HIDE DEF step, One
    <2> QED BY <2>1, <2>2
<1>6. D # {}
    BY DocumentsMade
<1>7. \A f \in [S -> D] : step[f] = [j \in S |-> One(f, j)]
    OBVIOUS
<1> HIDE DEF step, D
<1>71. StepsBack(n, D, step)
    BY <1>2, <1>4, <1>5, <1>6 DEF StepsBack
<1>8. \E f \in [S -> D] : f = step[f]
    <2> HIDE DEF n
    <2> QED BY <1>71, FromNext
<1>9. \E f : Body(f)
    <2>1. PICK f \in [S -> D] : f = step[f]
        BY <1>8, Zenon
    <2>2. f = [j \in S |-> One(f, j)]
        BY <2>1, <1>7, Zenon
    <2>3. Body(f)
        BY ONLY <2>2, Zenon
    <2> HIDE DEF Body
    <2> QED BY ONLY <2>3, Zenon
<1> HIDE DEF Body
<1>10. Body(from)
    BY <1>9
<1>11. from = [j \in S |-> One(from, j)]
    BY <1>10 DEF Body
<1> HIDE DEF from, One
<1>12. \A j \in S : from[j] \in D
    <2> DEFINE T == {j \in S : from[j] \in D}
    <2>1. ASSUME NEW j \in 1..(n + 1), j <= n => j + 1 \in T PROVE j \in T
        <3>1. One(from, j) \in D
            BY <2>1, <1>3
        <3> QED BY <3>1, <1>11
    <2> HIDE DEF T
    <2>2. \A j \in 1..(n + 1) : j \in T
        BY <2>1, <1>2, Downwards
    <2> QED BY <2>2 DEF T
<1>13. from \in [S -> D]
    BY <1>11, <1>12
<1>14. from[n + 1] = Nil
    BY <1>2, <1>11 DEF One
<1>15. \A j \in 1..n : from[j] = ConcatDoc(ds[j], from[j + 1], between)
    BY <1>2, <1>11 DEF One
<1> QED BY <1>1, <1>13, <1>14, <1>15 DEF D

-----------------------------------------------------------------------------
(* What a document tells: a relation of documents and sequences of words   *)
(* that the constructors respect.                                          *)
Words == Seq(Strings)

Sound(G) ==
    /\ \A d \in {Nil, Line, SoftBreak, HardLine} : <<d, <<>> >> \in G
    /\ \A n \in Int : <<Pad(n), <<>> >> \in G
    /\ \A t \in Texts : <<t, WordIn(TextB(t))>> \in G
    /\ \A a, b \in Documents, u, v \in Words :
          <<a, u>> \in G /\ <<b, v>> \in G => <<Concat(a, b), u \o v>> \in G
    /\ \A a, b \in Documents, u \in Words :
          <<a, u>> \in G /\ <<b, u>> \in G => <<Union(a, b), u>> \in G
    /\ \A n \in Int, d \in Documents, u \in Words : <<d, u>> \in G =>
          /\ <<NestT(d), u>> \in G
          /\ <<NestS(n, d), u>> \in G
          /\ <<Align(d), u>> \in G
          /\ <<Flatten[d], u>> \in G

SoundOuter(G) ==
    \A o \in Documents, u \in Words :
        o.tag = "outer" /\ (\A s \in Int16s : <<OuterDoc(o, s), u>> \in G) => <<o, u>> \in G

Tells(G, d, u) == d \in Documents /\ u \in Words /\ <<d, u>> \in G

LEMMA WordsAre ==
    ASSUME NEW u \in Words, NEW v \in Words
    PROVE  /\ <<>> \in Words
           /\ u \o v \in Words
           /\ u \o <<>> = u /\ <<>> \o u = u
           /\ \A w \in Words : (u \o v) \o w = u \o (v \o w)
BY ConcatProperties, ConcatEmptySeq, ConcatAssociative, EmptySeq DEF Words

LEMMA WordInType ==
    ASSUME NEW t \in Texts
    PROVE  WordIn(TextB(t)) \in Words
<1>1. PICK s \in Strings, n \in Int : t = Text(s, n)
    BY DEF Texts
<1>2. WordIn(TextB(t)) \in {<<>>, <<s>>}
    BY <1>1 DEF Text, TextB, WordIn
<1>3. <<>> \in Words /\ <<s>> \in Words
    BY <1>1 DEF Words
<1> QED BY <1>2, <1>3

LEMMA SpaceTells == textSpace \in Texts /\ WordIn(TextB(textSpace)) = <<>>
BY SpaceIsText DEF textSpace, Text, TextB, WordIn

LEMMA Simple ==
    ASSUME AllDocuments(Documents), NEW G, Sound(G)
    PROVE  /\ \A d \in {Nil, Line, SoftBreak, HardLine, textSpace} : Tells(G, d, <<>>)
           /\ \A n \in Int : Tells(G, Pad(n), <<>>)
           /\ \A t \in Texts : Tells(G, t, WordIn(TextB(t)))
<1>1. <<>> \in Words
    BY EmptySeq DEF Words
<1>2. /\ \A d \in {Nil, Line, SoftBreak, HardLine} : <<d, <<>> >> \in G
      /\ \A n \in Int : <<Pad(n), <<>> >> \in G
      /\ \A t \in Texts : <<t, WordIn(TextB(t))>> \in G
    BY Zenon DEF Sound
<1>5. /\ \A d \in {Nil, Line, SoftBreak, HardLine} : d \in Documents
      /\ \A n \in Int : Pad(n) \in Documents
      /\ \A t \in Texts : t \in Documents
    BY DocumentsMade
<1>6. /\ \A d \in {Nil, Line, SoftBreak, HardLine} : Tells(G, d, <<>>)
      /\ \A n \in Int : Tells(G, Pad(n), <<>>)
    BY ONLY <1>1, <1>2, <1>5, Zenon DEF Tells
<1>4. \A t \in Texts : Tells(G, t, WordIn(TextB(t)))
    BY <1>2, <1>5, WordInType DEF Tells
<1> QED BY <1>6, <1>4, SpaceTells

LEMMA Made2 ==
    ASSUME AllDocuments(Documents), NEW G, Sound(G), NEW a, NEW u, NEW b, NEW v,
           Tells(G, a, u), Tells(G, b, v)
    PROVE  Tells(G, Concat(a, b), u \o v)
<1>1. Concat(a, b) \in Documents
    BY ConcatType DEF Tells
<1>2. u \o v \in Words
    BY WordsAre DEF Tells
<1> QED BY <1>1, <1>2 DEF Tells, Sound

LEMMA Made1 ==
    ASSUME AllDocuments(Documents), NEW G, Sound(G), NEW d, NEW u, Tells(G, d, u)
    PROVE  /\ Tells(G, NestT(d), u)
           /\ Tells(G, Align(d), u)
           /\ Tells(G, Flatten[d], u)
           /\ Tells(G, Group(d), u)
           /\ \A n \in Int : Tells(G, NestS(n, d), u)
           /\ \A b : Tells(G, b, u) => Tells(G, Union(d, b), u)
<1>1. \A n \in Int : /\ NestT(d) \in Documents /\ Align(d) \in Documents
                     /\ NestS(n, d) \in Documents /\ Flatten[d] \in Documents
    BY DocumentsMade, FlattenType DEF Tells
<1>2. /\ \A n \in Int : Tells(G, NestS(n, d), u)
      /\ Tells(G, NestT(d), u) /\ Tells(G, Align(d), u) /\ Tells(G, Flatten[d], u)
    BY <1>1, 1 \in Int DEF Tells, Sound
<1>3. ASSUME NEW a, NEW b, Tells(G, a, u), Tells(G, b, u) PROVE Tells(G, Union(a, b), u)
    <2>1. Union(a, b) \in Documents
        BY <1>3, DocumentsMade DEF Tells
    <2> QED BY <1>3, <2>1 DEF Tells, Sound
<1> QED BY <1>2, <1>3 DEF Group

LEMMA ConcatDocTells ==
    ASSUME AllDocuments(Documents), NEW G, Sound(G), NEW a, NEW u, NEW b, NEW v, NEW between,
           Tells(G, a, u), Tells(G, b, v), Tells(G, between, <<>>)
    PROVE  Tells(G, ConcatDoc(a, b, between), u \o v)
<1>1. Tells(G, Concat(a, b), u \o v)
    BY Made2
<1>2. Tells(G, Concat(between, b), v)
    <2>1. Tells(G, Concat(between, b), <<>> \o v)
        BY Made2
    <2> QED BY <2>1, WordsAre DEF Tells
<1>3. Tells(G, Concat(a, Concat(between, b)), u \o v)
    BY <1>2, Made2
<1> QED BY <1>1, <1>3, ConcatCases DEF ConcatDoc, simplifyNil

LEMMA ConcatSpaceTells ==
    ASSUME AllDocuments(Documents), NEW G, Sound(G), NEW a, NEW u, NEW b, NEW v,
           Tells(G, a, u), Tells(G, b, v)
    PROVE  Tells(G, ConcatSpace(a, b), u \o v)
BY ConcatDocTells, Simple DEF ConcatSpace

(* A document in front of which there are no words. *)
LEMMA AfterSilence ==
    ASSUME AllDocuments(Documents), NEW G, Sound(G), NEW a, NEW b, NEW v,
           Tells(G, a, <<>>), Tells(G, b, v)
    PROVE  Tells(G, Concat(a, b), v)
<1>1. Tells(G, Concat(a, b), <<>> \o v)
    BY Made2
<1> QED BY <1>1, WordsAre DEF Tells

(* What the documents ds[j], ds[j + 1], ... tell, one after the other. *)
Telling(G, ds, W) ==
    /\ W[Len(ds) + 1] = <<>>
    /\ \A j \in 1..Len(ds) : \E u : Tells(G, ds[j], u) /\ W[j] = u \o W[j + 1]

LEMMA FoldTells ==
    ASSUME AllDocuments(Documents), NEW G, Sound(G), NEW ds \in Seq(Documents), NEW between,
           Tells(G, between, <<>>), NEW W, Telling(G, ds, W)
    PROVE  Tells(G, Fold(between, ds), W[1])
<1> DEFINE n == Len(ds)
<1>1. between \in Documents
    BY DEF Tells
<1>2. PICK f \in [1..(n + 1) -> Documents] :
          /\ Fold(between, ds) = f[1]
          /\ f[n + 1] = Nil
          /\ \A j \in 1..n : f[j] = ConcatDoc(ds[j], f[j + 1], between)
    BY <1>1, FoldIs
<1> DEFINE T == {j \in 1..(n + 1) : Tells(G, f[j], W[j])}
<1>3. n \in Nat
    OBVIOUS
<1>4. ASSUME NEW j \in 1..(n + 1), j <= n => j + 1 \in T PROVE j \in T
    <2>1. CASE j = n + 1
        <3>1. Tells(G, Nil, <<>>)
            BY Simple
        <3>2. W[n + 1] = <<>>
            BY DEF Telling
        <3> QED BY <2>1, <3>1, <3>2, <1>2
    <2>2. CASE j # n + 1
        <3>1. j \in 1..n /\ j + 1 \in T
            BY <2>2, <1>3, <1>4
        <3>2. PICK u : Tells(G, ds[j], u) /\ W[j] = u \o W[j + 1]
            BY <3>1 DEF Telling
        <3>3. Tells(G, f[j + 1], W[j + 1])
            BY <3>1
        <3>4. Tells(G, ConcatDoc(ds[j], f[j + 1], between), u \o W[j + 1])
            BY <3>2, <3>3, ConcatDocTells
        <3> QED BY <3>1, <3>2, <3>4, <1>2
    <2> QED BY <2>1, <2>2
<1> HIDE DEF T
<1>5. \A j \in 1..(n + 1) : j \in T
    BY <1>3, <1>4, Downwards
<1>6. 1 \in T
    BY <1>3, <1>5
<1> QED BY <1>2, <1>6 DEF T

-----------------------------------------------------------------------------
(* The items of JoinNestedRight and of JoinNestedOuter tell their label    *)
(* and what they are made of.                                              *)
LEMMA ItemsTell ==
    ASSUME AllDocuments(Documents), NEW G, Sound(G), NEW l, NEW lu, NEW x, NEW u,
           Tells(G, l, lu), Tells(G, x, u)
    PROVE  /\ Tells(G, Concat(Line, ConcatSpace(l, NestT(Group(x)))), lu \o u)
           /\ Tells(G, Concat(Line, ConcatSpace(l, Align(Group(x)))), lu \o u)
<1>1. Tells(G, Group(x), u)
    BY Made1
<1>2. Tells(G, NestT(Group(x)), u) /\ Tells(G, Align(Group(x)), u)
    BY <1>1, Made1
<1>3. /\ Tells(G, ConcatSpace(l, NestT(Group(x))), lu \o u)
      /\ Tells(G, ConcatSpace(l, Align(Group(x))), lu \o u)
    BY <1>2, ConcatSpaceTells
<1>4. Tells(G, Line, <<>>)
    BY Simple
<1> QED BY <1>3, <1>4, AfterSilence

(* What ds[j + 1], ds[j + 2], ... tell, each after the label. *)
Labelled(G, ds, lu, V) ==
    /\ V[Len(ds)] = <<>>
    /\ \A j \in 1..(Len(ds) - 1) : \E u : Tells(G, ds[j + 1], u) /\ V[j] = (lu \o u) \o V[j + 1]

LEMMA TailIs ==
    ASSUME NEW S, NEW s \in Seq(S), s # <<>>
    PROVE  /\ Len(s) \in Nat \ {0}
           /\ s[1] \in S
           /\ Tail(s) \in Seq(S)
           /\ Len(Tail(s)) = Len(s) - 1
           /\ DOMAIN Tail(s) = 1..(Len(s) - 1)
           /\ \A j \in 1..(Len(s) - 1) : Tail(s)[j] = s[j + 1]
<1>1. Len(s) \in Nat \ {0}
    BY EmptySeq
<1>2. /\ Tail(s) \in Seq(S)
      /\ Len(Tail(s)) = Len(s) - 1
      /\ \A j \in 1..Len(Tail(s)) : Tail(s)[j] = s[j + 1]
    BY HeadTailProperties
<1>3. DOMAIN Tail(s) = 1..Len(Tail(s))
    BY <1>2, LenProperties
<1>4. s[1] \in S
    BY <1>1, ElementOfSeq
<1> QED BY <1>1, <1>2, <1>3, <1>4

LEMMA LabelledItems ==
    ASSUME AllDocuments(Documents), NEW G, Sound(G), NEW l, NEW lu, Tells(G, l, lu),
           NEW ds \in Seq(Documents), ds # <<>>, NEW V, Labelled(G, ds, lu, V),
           NEW items, DOMAIN items = 1..(Len(ds) - 1),
           \A j \in 1..(Len(ds) - 1) :
               \/ items[j] = Concat(Line, ConcatSpace(l, NestT(Group(ds[j + 1]))))
               \/ items[j] = Concat(Line, ConcatSpace(l, Align(Group(ds[j + 1])))),
           items = [j \in DOMAIN items |-> items[j]]
    PROVE  Tells(G, Fold(Nil, items), V[1])
<1> DEFINE n == Len(ds) - 1
<1>1. n \in Nat /\ n + 1 = Len(ds)
    BY TailIs
<1>2. ASSUME NEW j \in 1..n PROVE \E u : Tells(G, items[j], u) /\ V[j] = u \o V[j + 1]
    <2>1. PICK u : Tells(G, ds[j + 1], u) /\ V[j] = (lu \o u) \o V[j + 1]
        BY <1>2 DEF Labelled
    <2>2. Tells(G, items[j], lu \o u)
        BY <1>2, <2>1, ItemsTell
    <2> QED BY <2>1, <2>2
<1>3. \A j \in 1..n : items[j] \in Documents
    BY <1>2 DEF Tells
<1>4. items \in Seq(Documents) /\ Len(items) = n
    <2>1. items \in [1..n -> Documents]
        BY <1>3
    <2>2. n \in Nat
        BY <1>1
    <2> HIDE DEF n
    <2> QED BY <2>1, <2>2
<1>5. V[Len(items) + 1] = <<>>
    BY <1>1, <1>4 DEF Labelled
<1>6. Telling(G, items, V)
    BY <1>2, <1>4, <1>5 DEF Telling
<1>7. Tells(G, Nil, <<>>)
    BY Simple
<1> QED BY <1>4, <1>6, <1>7, FoldTells

LEMMA JoinNestedRightTells ==
    ASSUME AllDocuments(Documents), NEW G, Sound(G), NEW l, NEW lu, Tells(G, l, lu),
           NEW ds \in Seq(Documents), ds # <<>>, NEW V, Labelled(G, ds, lu, V),
           NEW u, Tells(G, ds[1], u)
    PROVE  Tells(G, JoinNestedRight(l, ds), u \o V[1])
<1> DEFINE items == [j \in DOMAIN Tail(ds) |-> Concat(Line, ConcatSpace(l, NestT(Group(Tail(ds)[j]))))]
<1>1. DOMAIN items = 1..(Len(ds) - 1)
    BY TailIs
<1>2. \A j \in 1..(Len(ds) - 1) :
          items[j] = Concat(Line, ConcatSpace(l, NestT(Group(ds[j + 1]))))
    BY TailIs
<1>3. JoinNestedRight(l, ds) = Concat(ds[1], Fold(Nil, items))
    BY DEF JoinNestedRight, FoldMap
<1>4. items = [j \in DOMAIN items |-> items[j]]
    OBVIOUS
<1> HIDE DEF items
<1>5. Tells(G, Fold(Nil, items), V[1])
    BY <1>1, <1>2, <1>4, LabelledItems
<1> QED BY <1>3, <1>5, Made2

LEMMA OuterDocTells ==
    ASSUME AllDocuments(Documents), NEW G, Sound(G), NEW l \in Texts, NEW lu, Tells(G, l, lu),
           NEW ds \in Seq(Documents), ds # <<>>, NEW V, Labelled(G, ds, lu, V),
           NEW u, Tells(G, ds[1], u), NEW fl \in BOOLEAN, NEW s
    PROVE  Tells(G, OuterDoc(Outer(l, ds, fl), s), u \o V[1])
<1> DEFINE items == [j \in DOMAIN Tail(ds) |-> Concat(Line, ConcatSpace(l, Align(Group(Tail(ds)[j]))))]
           o == Outer(l, ds, fl)
           doc == IF ~RoomFor(l.n, s) THEN JoinNestedRight(l, ds)
                  ELSE Concat(ds[1], NestS(-l.n - 1, Fold(Nil, items)))
<1>1. DOMAIN items = 1..(Len(ds) - 1)
    BY TailIs
<1>2. \A j \in 1..(Len(ds) - 1) :
          items[j] = Concat(Line, ConcatSpace(l, Align(Group(ds[j + 1]))))
    BY TailIs
<1>3. o.lbl = l /\ o.ds = ds /\ o.flat = fl
    BY DEF Outer
<1>4. OuterDoc(o, s) = IF fl THEN Flatten[doc] ELSE doc
    <2> HIDE DEF o
    <2> QED BY <1>3, Zenon DEF OuterDoc, FoldMap
<1>5. items = [j \in DOMAIN items |-> items[j]]
    OBVIOUS
<1> HIDE DEF items
<1>6. Tells(G, Fold(Nil, items), V[1])
    BY <1>1, <1>2, <1>5, LabelledItems
<1>7. -l.n - 1 \in Int
    BY DEF Texts, Text
<1>8. Tells(G, NestS(-l.n - 1, Fold(Nil, items)), V[1])
    BY <1>6, <1>7, Made1
<1>9. Tells(G, Concat(ds[1], NestS(-l.n - 1, Fold(Nil, items))), u \o V[1])
    BY <1>8, Made2
<1>10. Tells(G, JoinNestedRight(l, ds), u \o V[1])
    BY JoinNestedRightTells
<1>11. Tells(G, doc, u \o V[1])
    BY <1>9, <1>10
<1> HIDE DEF doc
<1>12. Tells(G, Flatten[doc], u \o V[1])
    BY <1>11, Made1
<1> QED BY <1>4, <1>11, <1>12

-----------------------------------------------------------------------------
(* Positions.                                                              *)
LEMMA Int16sAre == \A x : x \in Int16s <=> x \in Int /\ -32768 <= x /\ x <= 32767
<1>1. MinInt16 \in Int /\ MaxInt16 \in Int
    BY DEF MinInt16, MaxInt16
<1>2. \A x : x \in Int16s <=> x \in Int /\ MinInt16 <= x /\ x <= MaxInt16
    BY <1>1 DEF Int16s
<1> QED BY <1>2 DEF MinInt16, MaxInt16

LEMMA Int16Type == \A x \in Int : Int16(x) \in Int16s /\ Int16(x) \in Int
<1>1. ASSUME NEW x \in Int
      PROVE  /\ Int16(x) \in Int
             /\ -32768 <= Int16(x)
             /\ Int16(x) <= 32767
    <2>1. /\ (x + 32768) % 65536 \in Int
          /\ 0 <= (x + 32768) % 65536
          /\ (x + 32768) % 65536 <= 65535
        OBVIOUS
    <2> QED BY <2>1 DEF Int16
<1> QED BY <1>1, Int16sAre

LEMMA PositionsAre ==
    \A i \in Positions : i.tabs \in Int /\ i.spaces \in Int /\ i.spaces \in Int16s
BY Int16sAre DEF Positions

LEMMA MoveType ==
    ASSUME NEW i \in Positions, NEW n \in Int
    PROVE  Move(i, n) \in Positions
<1>1. Int16(n) \in Int
    BY Int16Type
<1>2. Int16(i.spaces + Int16(n)) \in Int16s
    BY <1>1, PositionsAre, Int16Type
<1> QED BY <1>2 DEF Move, Positions

LEMMA TabPosType ==
    ASSUME NEW i \in Positions
    PROVE  TabPos(i) \in Positions
<1>1. TabWidth \in Nat \ {0}
    BY TabWidthAssumption
<1>2. TabsIn(i.spaces) \in Int
    BY <1>1, PositionsAre DEF TabsIn
<1>3. i.tabs + 1 + TabsIn(i.spaces) \in Int
    BY <1>2, PositionsAre
<1>4. Int16(i.tabs + 1 + TabsIn(i.spaces)) \in Int16s
    BY <1>3, Int16Type
<1>5. 0 \in Int16s
    BY Int16sAre
<1> QED BY <1>4, <1>5 DEF TabPos, DocPos, Positions

LEMMA OriginType == Origin \in Positions
BY Int16sAre DEF Origin, DocPos, Positions

-----------------------------------------------------------------------------
(* The printer.  A cell is what a call of be is given, but for the width;  *)
(* the calls it makes are on the next cells.                               *)
Cells          == [k : Positions, xlist : ToLayOut]
Cell(k, xlist) == [k |-> k, xlist |-> xlist]

NextOf(k, i, d, z) ==
    CASE d.tag \in Structure       -> {Cell(k, Unfold(k, i, d) \o z)}
      [] d.tag \in {"text", "pad"} -> {Cell(Move(k, d.n), z)}
      [] d.tag = "union"           -> {Cell(k, <<IDoc(i, d.x)>> \o z), Cell(k, <<IDoc(i, d.y)>> \o z)}
      [] OTHER                     -> {Cell(i, z)}

SpokenBy(d) == IF d.tag = "text" THEN WordIn(TextB(d)) ELSE <<>>

(* A relation of cells and words that the printer respects. *)
Closed(Q) ==
    /\ \A k \in Positions : <<Cell(k, <<>>), <<>> >> \in Q
    /\ \A k, i \in Positions, d \in Documents, z \in ToLayOut, v \in Words :
          (\A q \in NextOf(k, i, d, z) : <<q, v>> \in Q)
              => <<Cell(k, <<IDoc(i, d)>> \o z), SpokenBy(d) \o v>> \in Q

Says(Q, xlist, v) == \A k \in Positions : <<Cell(k, xlist), v>> \in Q

SaysDoc(Q, d, u) ==
    \A i \in Positions, z \in ToLayOut, v \in Words :
        Says(Q, z, v) => Says(Q, <<IDoc(i, d)>> \o z, u \o v)

Keeps(Q, d, u) == SaysDoc(Q, d, u) /\ (d = Nil => u = <<>>)

Fine(Q, d, u) ==
    /\ Keeps(Q, d, u)
    /\ Keeps(Q, Flatten[d], u)
    /\ Flatten[Flatten[d]] = Flatten[d]

LEMMA ToLayOutAre ==
    ASSUME NEW i \in Positions, NEW d \in Documents, NEW z \in ToLayOut
    PROVE  /\ <<>> \in ToLayOut
           /\ <<IDoc(i, d)>> \in ToLayOut
           /\ <<IDoc(i, d)>> \o z \in ToLayOut
           /\ <<IDoc(i, d)>> \o z # <<>>
           /\ (<<IDoc(i, d)>> \o z)[1] = IDoc(i, d)
           /\ Tail(<<IDoc(i, d)>> \o z) = z
           /\ <<>> \o z = z
           /\ IDoc(i, d) \in [i : Positions, d : Documents]
BY DEF ToLayOut, IDoc

NextOfIs(k, i, d, z) ==
    /\ d.tag = "nil" => NextOf(k, i, d, z) = {Cell(k, z)}
    /\ d.tag = "concat" => NextOf(k, i, d, z) = {Cell(k, <<IDoc(i, d.a)>> \o (<<IDoc(i, d.b)>> \o z))}
    /\ d.tag = "nests" => NextOf(k, i, d, z) = {Cell(k, <<IDoc(Move(i, d.n), d.d)>> \o z)}
    /\ d.tag = "nestt" => NextOf(k, i, d, z) = {Cell(k, <<IDoc(TabPos(i), d.d)>> \o z)}
    /\ d.tag = "align" =>
         NextOf(k, i, d, z) = {Cell(k, <<IDoc(i, NestS(Int16(k.spaces - i.spaces), d.d))>> \o z)}
    /\ d.tag = "outer" => NextOf(k, i, d, z) = {Cell(k, <<IDoc(i, OuterDoc(d, i.spaces))>> \o z)}
    /\ d.tag = "union" =>
         NextOf(k, i, d, z) = {Cell(k, <<IDoc(i, d.x)>> \o z), Cell(k, <<IDoc(i, d.y)>> \o z)}
    /\ d.tag \in {"text", "pad"} => NextOf(k, i, d, z) = {Cell(Move(k, d.n), z)}
    /\ d.tag \in {"line", "softbreak", "hardline"} => NextOf(k, i, d, z) = {Cell(i, z)}

LEMMA NextOfCases ==
    ASSUME AllDocuments(Documents), NEW k \in Positions, NEW i \in Positions,
           NEW d \in Documents, NEW z \in ToLayOut
    PROVE  NextOfIs(k, i, d, z)
<1> USE DEF NextOfIs
<1>1. CASE d.tag = "nil"
    <2>1. <<>> \o z = z
        BY ToLayOutAre
    <2> QED BY <1>1, <2>1 DEF NextOf, Unfold, Structure
<1>2. CASE d.tag = "concat"
    <2>1. d.a \in Documents /\ d.b \in Documents
        BY <1>2, DocumentShapes
    <2>2. ASSUME NEW a \in Documents, NEW b \in Documents
          PROVE  <<IDoc(i, a), IDoc(i, b)>> \o z = <<IDoc(i, a)>> \o (<<IDoc(i, b)>> \o z)
        <3>1. IDoc(i, a) \in [i : Positions, d : Documents] /\ IDoc(i, b) \in [i : Positions, d : Documents]
            BY ToLayOutAre
        <3> HIDE DEF IDoc
        <3> QED BY <3>1 DEF ToLayOut
    <2>3. NextOf(k, i, d, z) = {Cell(k, <<IDoc(i, d.a), IDoc(i, d.b)>> \o z)}
        BY <1>2 DEF NextOf, Unfold, Structure
    <2> QED BY <1>2, <2>1, <2>2, <2>3
<1>3. CASE d.tag \in {"nests", "nestt", "align", "outer"}
    BY <1>3 DEF NextOf, Unfold, Structure
<1>4. CASE d.tag \in {"union", "text", "pad", "line", "softbreak", "hardline"}
    BY <1>4 DEF NextOf, Structure
<1>5. d.tag \in Tags
    BY DocumentShapes
<1> QED BY <1>1, <1>2, <1>3, <1>4, <1>5 DEF Tags, Structure

-----------------------------------------------------------------------------
(* What is fine respects the constructors.                                 *)
LEMMA SaysFromNext ==
    ASSUME AllDocuments(Documents), NEW Q, Closed(Q), NEW d \in Documents, NEW i \in Positions,
           NEW z \in ToLayOut, NEW v \in Words,
           \A k \in Positions : \A q \in NextOf(k, i, d, z) : <<q, v>> \in Q
    PROVE  Says(Q, <<IDoc(i, d)>> \o z, SpokenBy(d) \o v)
BY DEF Closed, Says

LEMMA SilentSays ==
    ASSUME AllDocuments(Documents), NEW Q, Closed(Q), NEW d \in Documents, NEW i \in Positions,
           NEW z \in ToLayOut, NEW v \in Words, d.tag # "text",
           \A k \in Positions : \A q \in NextOf(k, i, d, z) : <<q, v>> \in Q
    PROVE  Says(Q, <<IDoc(i, d)>> \o z, v)
<1>1. Says(Q, <<IDoc(i, d)>> \o z, SpokenBy(d) \o v)
    BY SaysFromNext
<1>2. SpokenBy(d) \o v = v
    BY WordsAre DEF SpokenBy
<1> QED BY <1>1, <1>2

LEMMA LeafSays ==
    ASSUME AllDocuments(Documents), NEW Q, Closed(Q), NEW d \in Documents,
           d.tag \in {"nil", "text", "pad", "line", "softbreak", "hardline"}
    PROVE  SaysDoc(Q, d, SpokenBy(d))
<1>1. SUFFICES ASSUME NEW i \in Positions, NEW z \in ToLayOut, NEW v \in Words, Says(Q, z, v)
               PROVE  Says(Q, <<IDoc(i, d)>> \o z, SpokenBy(d) \o v)
    BY DEF SaysDoc
<1>2. d.tag \in {"text", "pad"} => d.n \in Int
    BY DocumentShapes
<1>3. ASSUME NEW k \in Positions PROVE \A q \in NextOf(k, i, d, z) : <<q, v>> \in Q
    <2>1. \E p \in Positions : NextOf(k, i, d, z) = {Cell(p, z)}
        <3> NextOfIs(k, i, d, z)
            BY NextOfCases
        <3>1. CASE d.tag \in {"text", "pad"}
            <4>1. Move(k, d.n) \in Positions
                BY <3>1, <1>2, MoveType
            <4> QED BY <3>1, <4>1 DEF NextOfIs
        <3>2. CASE d.tag = "nil"
            BY <3>2 DEF NextOfIs
        <3>3. CASE d.tag \in {"line", "softbreak", "hardline"}
            BY <3>3 DEF NextOfIs
        <3> QED BY <3>1, <3>2, <3>3
    <2> QED BY <1>1, <2>1 DEF Says
<1> QED BY <1>3, SaysFromNext

LEMMA ConcatSays ==
    ASSUME AllDocuments(Documents), NEW Q, Closed(Q), NEW a \in Documents, NEW b \in Documents,
           NEW u \in Words, NEW w \in Words, SaysDoc(Q, a, u), SaysDoc(Q, b, w)
    PROVE  SaysDoc(Q, ConcatOf(a, b), u \o w)
<1> DEFINE c == ConcatOf(a, b)
<1>1. c \in Documents /\ c.tag = "concat" /\ c.a = a /\ c.b = b
    <2>1. c \in Documents
        BY DocumentsMade
    <2> QED BY <2>1 DEF ConcatOf
<1> HIDE DEF c
<1>2. SUFFICES ASSUME NEW i \in Positions, NEW z \in ToLayOut, NEW v \in Words, Says(Q, z, v)
               PROVE  Says(Q, <<IDoc(i, c)>> \o z, (u \o w) \o v)
    BY DEF SaysDoc, c
<1>3. Says(Q, <<IDoc(i, b)>> \o z, w \o v)
    BY <1>2 DEF SaysDoc
<1>4. Says(Q, <<IDoc(i, a)>> \o (<<IDoc(i, b)>> \o z), u \o (w \o v))
    <2>1. <<IDoc(i, b)>> \o z \in ToLayOut /\ w \o v \in Words
        BY ToLayOutAre, WordsAre
    <2> QED BY <1>3, <2>1 DEF SaysDoc
<1>5. \A k \in Positions : \A q \in NextOf(k, i, c, z) : <<q, (u \o w) \o v>> \in Q
    <2>1. (u \o w) \o v = u \o (w \o v)
        BY ConcatAssociative DEF Words
    <2>2. \A k \in Positions :
              NextOf(k, i, c, z) = {Cell(k, <<IDoc(i, a)>> \o (<<IDoc(i, b)>> \o z))}
        <3>1. TAKE k \in Positions
        <3>2. NextOfIs(k, i, c, z)
            BY <1>1, NextOfCases
        <3> QED BY <1>1, <3>2 DEF NextOfIs
    <2> QED BY <1>4, <2>1, <2>2 DEF Says
<1>6. (u \o w) \o v \in Words
    BY WordsAre
<1> QED BY <1>1, <1>5, <1>6, SilentSays

LEMMA NestSays ==
    ASSUME AllDocuments(Documents), NEW Q, Closed(Q), NEW d \in Documents, NEW u \in Words,
           SaysDoc(Q, d, u)
    PROVE  /\ \A n \in Int : SaysDoc(Q, NestS(n, d), u)
           /\ SaysDoc(Q, NestT(d), u)
           /\ SaysDoc(Q, Align(d), u)
<1>1. ASSUME NEW c \in Documents, NEW i \in Positions, NEW z \in ToLayOut, NEW v \in Words,
             c.tag # "text", Says(Q, z, v), NEW e \in Documents, SaysDoc(Q, e, u),
             NEW j \in Positions,
             \A k \in Positions : NextOf(k, i, c, z) = {Cell(k, <<IDoc(j, e)>> \o z)}
      PROVE  Says(Q, <<IDoc(i, c)>> \o z, u \o v)
    <2>1. Says(Q, <<IDoc(j, e)>> \o z, u \o v)
        BY <1>1 DEF SaysDoc
    <2>2. \A k \in Positions : \A q \in NextOf(k, i, c, z) : <<q, u \o v>> \in Q
        BY <1>1, <2>1 DEF Says
    <2>3. u \o v \in Words
        BY WordsAre
    <2> QED BY <1>1, <2>2, <2>3, SilentSays
<1>2. ASSUME NEW n \in Int PROVE SaysDoc(Q, NestS(n, d), u)
    <2> DEFINE c == NestS(n, d)
    <2>1. c \in Documents /\ c.tag = "nests" /\ c.n = n /\ c.d = d
        BY DocumentsMade DEF NestS
    <2> HIDE DEF c
    <2>2. ASSUME NEW i \in Positions, NEW z \in ToLayOut, NEW v \in Words, Says(Q, z, v)
          PROVE  Says(Q, <<IDoc(i, c)>> \o z, u \o v)
        <3>1. \A k \in Positions : NextOf(k, i, c, z) = {Cell(k, <<IDoc(Move(i, n), d)>> \o z)}
            <4>1. TAKE k \in Positions
            <4>2. NextOfIs(k, i, c, z)
                BY <2>1, NextOfCases
            <4> QED BY <2>1, <4>2 DEF NextOfIs
        <3>2. Move(i, n) \in Positions
            BY MoveType
        <3>3. c.tag # "text"
            BY <2>1
        <3> QED BY <2>1, <2>2, <3>1, <3>2, <3>3, <1>1
    <2> QED BY <2>2 DEF SaysDoc, c
<1>3. SaysDoc(Q, NestT(d), u)
    <2> DEFINE c == NestT(d)
    <2>1. c \in Documents /\ c.tag = "nestt" /\ c.d = d
        BY DocumentsMade DEF NestT
    <2> HIDE DEF c
    <2>2. ASSUME NEW i \in Positions, NEW z \in ToLayOut, NEW v \in Words, Says(Q, z, v)
          PROVE  Says(Q, <<IDoc(i, c)>> \o z, u \o v)
        <3>1. \A k \in Positions : NextOf(k, i, c, z) = {Cell(k, <<IDoc(TabPos(i), d)>> \o z)}
            <4>1. TAKE k \in Positions
            <4>2. NextOfIs(k, i, c, z)
                BY <2>1, NextOfCases
            <4> QED BY <2>1, <4>2 DEF NextOfIs
        <3>2. TabPos(i) \in Positions
            BY TabPosType
        <3>3. c.tag # "text"
            BY <2>1
        <3> QED BY <2>1, <2>2, <3>1, <3>2, <3>3, <1>1
    <2> QED BY <2>2 DEF SaysDoc, c
<1>4. SaysDoc(Q, Align(d), u)
    <2> DEFINE c == Align(d)
    <2>1. c \in Documents /\ c.tag = "align" /\ c.d = d
        BY DocumentsMade DEF Align
    <2> HIDE DEF c
    <2>2. ASSUME NEW i \in Positions, NEW z \in ToLayOut, NEW v \in Words, Says(Q, z, v)
          PROVE  Says(Q, <<IDoc(i, c)>> \o z, u \o v)
        <3> DEFINE n(k) == Int16(k.spaces - i.spaces)
        <3>1. \A k \in Positions : n(k) \in Int
            BY PositionsAre, Int16Type
        <3>2. \A k \in Positions : NextOf(k, i, c, z) = {Cell(k, <<IDoc(i, NestS(n(k), d))>> \o z)}
            <4>1. TAKE k \in Positions
            <4>2. NextOfIs(k, i, c, z)
                BY <2>1, NextOfCases
            <4> QED BY <2>1, <4>2 DEF NextOfIs
        <3> HIDE DEF n
        <3>3. \A k \in Positions : Says(Q, <<IDoc(i, NestS(n(k), d))>> \o z, u \o v)
            BY <1>2, <2>2, <3>1 DEF SaysDoc
        <3>4. \A k \in Positions : \A q \in NextOf(k, i, c, z) : <<q, u \o v>> \in Q
            BY <3>2, <3>3 DEF Says
        <3>5. u \o v \in Words
            BY WordsAre
        <3>6. c.tag # "text"
            BY <2>1
        <3> QED BY <2>1, <3>4, <3>5, <3>6, SilentSays
    <2> QED BY <2>2 DEF SaysDoc, c
<1> QED BY <1>2, <1>3, <1>4

LEMMA UnionSays ==
    ASSUME AllDocuments(Documents), NEW Q, Closed(Q), NEW a \in Documents, NEW b \in Documents,
           NEW u \in Words, SaysDoc(Q, a, u), SaysDoc(Q, b, u)
    PROVE  SaysDoc(Q, Union(a, b), u)
<1> DEFINE c == Union(a, b)
<1>1. c \in Documents /\ c.tag = "union" /\ c.x = a /\ c.y = b
    <2>1. c \in Documents
        BY DocumentsMade
    <2> QED BY <2>1 DEF Union
<1> HIDE DEF c
<1>2. SUFFICES ASSUME NEW i \in Positions, NEW z \in ToLayOut, NEW v \in Words, Says(Q, z, v)
               PROVE  Says(Q, <<IDoc(i, c)>> \o z, u \o v)
    BY DEF SaysDoc, c
<1>3. Says(Q, <<IDoc(i, a)>> \o z, u \o v) /\ Says(Q, <<IDoc(i, b)>> \o z, u \o v)
    BY <1>2 DEF SaysDoc
<1>4. \A k \in Positions : \A q \in NextOf(k, i, c, z) : <<q, u \o v>> \in Q
    <2>1. TAKE k \in Positions
    <2>2. NextOfIs(k, i, c, z)
        BY <1>1, NextOfCases
    <2>3. NextOf(k, i, c, z) = {Cell(k, <<IDoc(i, a)>> \o z), Cell(k, <<IDoc(i, b)>> \o z)}
        BY <1>1, <2>2 DEF NextOfIs
    <2> QED BY <1>3, <2>3 DEF Says
<1>5. u \o v \in Words
    BY WordsAre
<1>6. c.tag # "text"
    BY <1>1
<1> QED BY <1>1, <1>4, <1>5, <1>6, SilentSays

LEMMA OuterSays ==
    ASSUME AllDocuments(Documents), NEW Q, Closed(Q), NEW o \in Documents, o.tag = "outer",
           NEW u \in Words, \A s \in Int16s : SaysDoc(Q, OuterDoc(o, s), u)
    PROVE  SaysDoc(Q, o, u)
<1>2. SUFFICES ASSUME NEW i \in Positions, NEW z \in ToLayOut, NEW v \in Words, Says(Q, z, v)
               PROVE  Says(Q, <<IDoc(i, o)>> \o z, u \o v)
    BY DEF SaysDoc
<1>3. Says(Q, <<IDoc(i, OuterDoc(o, i.spaces))>> \o z, u \o v)
    BY <1>2, PositionsAre DEF SaysDoc
<1>4. \A k \in Positions : \A q \in NextOf(k, i, o, z) : <<q, u \o v>> \in Q
    <2>1. TAKE k \in Positions
    <2>2. NextOfIs(k, i, o, z)
        BY NextOfCases
    <2>3. NextOf(k, i, o, z) = {Cell(k, <<IDoc(i, OuterDoc(o, i.spaces))>> \o z)}
        BY <2>2 DEF NextOfIs
    <2> QED BY <1>3, <2>3 DEF Says
<1>5. u \o v \in Words
    BY WordsAre
<1> QED BY <1>4, <1>5, SilentSays

-----------------------------------------------------------------------------
FineSet(Q) == {x \in Documents \X Words : Fine(Q, x[1], x[2])}

LEMMA FineSetIs ==
    ASSUME NEW Q, NEW d, NEW u
    PROVE  <<d, u>> \in FineSet(Q) <=> d \in Documents /\ u \in Words /\ Fine(Q, d, u)
BY DEF FineSet

LEMMA LeafFine ==
    ASSUME AllDocuments(Documents), NEW Q, Closed(Q), NEW d \in Documents,
           d.tag \in {"nil", "text", "pad", "line", "softbreak", "hardline"}
    PROVE  Fine(Q, d, SpokenBy(d))
<1>1. ASSUME NEW e \in Documents,
             e.tag \in {"nil", "text", "pad", "line", "softbreak", "hardline"}
      PROVE  Keeps(Q, e, SpokenBy(e))
    <2>1. SaysDoc(Q, e, SpokenBy(e))
        BY <1>1, LeafSays
    <2>2. e = Nil => e.tag # "text"
        BY DEF Nil
    <2> QED BY <2>1, <2>2 DEF Keeps, SpokenBy
<1>2. Nil \in Documents /\ textSpace \in Documents
    BY DocumentsMade, SpaceIsText
<1>3. /\ Nil.tag = "nil" /\ textSpace.tag = "text" /\ SpokenBy(textSpace) = <<>> /\ SpokenBy(Nil) = <<>>
    BY SpaceTells DEF Nil, textSpace, Text, SpokenBy
<1>4. Flatten[Nil] = Nil /\ Flatten[textSpace] = textSpace
    BY <1>2, <1>3, FlattenCases
<1>5. \/ Flatten[d] = d
      \/ Flatten[d] = Nil /\ d.tag # "text"
      \/ Flatten[d] = textSpace /\ d.tag # "text"
    BY FlattenCases
<1>6. d.tag # "text" => SpokenBy(d) = <<>>
    BY DEF SpokenBy
<1>7. Flatten[Flatten[d]] = Flatten[d]
    BY <1>4, <1>5
<1>8. Keeps(Q, Nil, <<>>) /\ Keeps(Q, textSpace, <<>>) /\ Keeps(Q, d, SpokenBy(d))
    <2>1. Keeps(Q, Nil, SpokenBy(Nil)) /\ Keeps(Q, textSpace, SpokenBy(textSpace)) /\ Keeps(Q, d, SpokenBy(d))
        BY <1>1, <1>2, <1>3
    <2> QED BY <2>1, <1>3
<1> HIDE DEF Nil, textSpace
<1> QED BY <1>5, <1>6, <1>7, <1>8 DEF Fine

LEMMA ConcatKeeps ==
    ASSUME AllDocuments(Documents), NEW Q, Closed(Q), NEW a \in Documents, NEW b \in Documents,
           NEW u \in Words, NEW w \in Words, Keeps(Q, a, u), Keeps(Q, b, w)
    PROVE  Keeps(Q, Concat(a, b), u \o w)
<1>1. CASE a = Nil
    <2>1. u \o w = w
        BY <1>1, WordsAre DEF Keeps
    <2> QED BY <1>1, <2>1, ConcatCases
<1>2. CASE b = Nil
    <2>1. u \o w = u
        BY <1>2, WordsAre DEF Keeps
    <2> QED BY <1>2, <2>1, ConcatCases
<1>3. CASE a # Nil /\ b # Nil
    <2>1. SaysDoc(Q, ConcatOf(a, b), u \o w)
        BY ConcatSays DEF Keeps
    <2>2. ConcatOf(a, b) # Nil
        BY DEF ConcatOf, Nil
    <2> QED BY <1>3, <2>1, <2>2, ConcatCases DEF Keeps
<1> QED BY <1>1, <1>2, <1>3

LEMMA FlattenConcat ==
    ASSUME AllDocuments(Documents), NEW a \in Documents, NEW b \in Documents
    PROVE  Flatten[Concat(a, b)] = Concat(Flatten[a], Flatten[b])
<1>1. CASE a = Nil \/ b = Nil
    <2>1. Flatten[Nil] = Nil
        <3>1. Nil.tag = "nil" /\ Nil \in Documents
            BY DocumentsMade DEF Nil
        <3> QED BY <3>1, FlattenCases
    <2> QED BY <1>1, <2>1, ConcatCases
<1>2. CASE a # Nil /\ b # Nil
    <2> DEFINE c == ConcatOf(a, b)
    <2>1. c \in Documents /\ c.tag = "concat" /\ c.a = a /\ c.b = b
        <3>1. c \in Documents
            BY DocumentsMade
        <3> QED BY <3>1 DEF ConcatOf
    <2>2. Concat(a, b) = c
        BY <1>2, ConcatCases
    <2> HIDE DEF c
    <2>3. Flatten[c] = Concat(Flatten[c.a], Flatten[c.b])
        BY <2>1, FlattenCases
    <2> QED BY <2>1, <2>2, <2>3
<1> QED BY <1>1, <1>2

LEMMA ConcatFine ==
    ASSUME AllDocuments(Documents), NEW Q, Closed(Q), NEW a \in Documents, NEW b \in Documents,
           NEW u \in Words, NEW w \in Words, Fine(Q, a, u), Fine(Q, b, w)
    PROVE  Fine(Q, Concat(a, b), u \o w)
<1>1. Keeps(Q, Concat(a, b), u \o w)
    BY ConcatKeeps DEF Fine
<1>2. Flatten[a] \in Documents /\ Flatten[b] \in Documents
    BY FlattenType
<1>3. Flatten[Concat(a, b)] = Concat(Flatten[a], Flatten[b])
    BY FlattenConcat
<1>4. Keeps(Q, Concat(Flatten[a], Flatten[b]), u \o w)
    BY <1>2, ConcatKeeps DEF Fine
<1>5. Flatten[Concat(Flatten[a], Flatten[b])] = Concat(Flatten[Flatten[a]], Flatten[Flatten[b]])
    BY <1>2, FlattenConcat
<1> QED BY <1>1, <1>3, <1>4, <1>5 DEF Fine

LEMMA UnionFine ==
    ASSUME AllDocuments(Documents), NEW Q, Closed(Q), NEW a \in Documents, NEW b \in Documents,
           NEW u \in Words, Fine(Q, a, u), Fine(Q, b, u)
    PROVE  Fine(Q, Union(a, b), u)
<1> DEFINE c == Union(a, b)
<1>1. c \in Documents /\ c.tag = "union" /\ c.x = a /\ c # Nil
    <2>1. c \in Documents
        BY DocumentsMade
    <2> QED BY <2>1 DEF Union, Nil
<1>2. SaysDoc(Q, c, u)
    BY UnionSays DEF Fine, Keeps
<1> HIDE DEF c
<1>3. Flatten[c] = Flatten[c.x]
    BY <1>1, FlattenCases
<1> QED BY <1>1, <1>2, <1>3 DEF Fine, Keeps, c

LEMMA NestFine ==
    ASSUME AllDocuments(Documents), NEW Q, Closed(Q), NEW d \in Documents,
           NEW u \in Words, Fine(Q, d, u)
    PROVE  /\ \A n \in Int : Fine(Q, NestS(n, d), u)
           /\ Fine(Q, NestT(d), u)
           /\ Fine(Q, Align(d), u)
<1> DEFINE fd == Flatten[d]
<1>1. fd \in Documents /\ Flatten[fd] = fd /\ SaysDoc(Q, fd, u) /\ SaysDoc(Q, d, u)
    BY FlattenType DEF Fine, Keeps
<1> HIDE DEF fd
<1>2. ASSUME NEW e \in Documents, SaysDoc(Q, e, u), NEW n \in Int
      PROVE  /\ Keeps(Q, NestS(n, e), u)
             /\ Keeps(Q, NestT(e), u)
             /\ Keeps(Q, Align(e), u)
             /\ Flatten[NestS(n, e)] = NestS(n, Flatten[e])
             /\ Flatten[NestT(e)] = NestT(Flatten[e])
             /\ Flatten[Align(e)] = Align(Flatten[e])
    <2>1. /\ SaysDoc(Q, NestS(n, e), u)
          /\ SaysDoc(Q, NestT(e), u)
          /\ SaysDoc(Q, Align(e), u)
        BY <1>2, NestSays
    <2>2. NestS(n, e) # Nil /\ NestT(e) # Nil /\ Align(e) # Nil
        BY DEF NestS, NestT, Align, Nil
    <2>3. NestS(n, e) \in Documents /\ NestT(e) \in Documents /\ Align(e) \in Documents
        BY DocumentsMade
    <2>4. /\ NestS(n, e).tag = "nests" /\ NestS(n, e).n = n /\ NestS(n, e).d = e
          /\ NestT(e).tag = "nestt" /\ NestT(e).d = e
          /\ Align(e).tag = "align" /\ Align(e).d = e
        BY DEF NestS, NestT, Align
    <2>5. Flatten[NestS(n, e)] = NestS(n, Flatten[e])
        BY <2>3, <2>4, FlattenCases
    <2>6. Flatten[NestT(e)] = NestT(Flatten[e])
        BY <2>3, <2>4, FlattenCases
    <2>7. Flatten[Align(e)] = Align(Flatten[e])
        BY <2>3, <2>4, FlattenCases
    <2> QED BY <2>1, <2>2, <2>5, <2>6, <2>7 DEF Keeps
<1>3. ASSUME NEW n \in Int PROVE Fine(Q, NestS(n, d), u) /\ Fine(Q, NestT(d), u) /\ Fine(Q, Align(d), u)
    <2>1. /\ Keeps(Q, NestS(n, d), u) /\ Keeps(Q, NestT(d), u) /\ Keeps(Q, Align(d), u)
          /\ Flatten[NestS(n, d)] = NestS(n, fd) /\ Flatten[NestT(d)] = NestT(fd) /\ Flatten[Align(d)] = Align(fd)
        BY <1>1, <1>2 DEF fd
    <2>2. /\ Keeps(Q, NestS(n, fd), u) /\ Keeps(Q, NestT(fd), u) /\ Keeps(Q, Align(fd), u)
          /\ Flatten[NestS(n, fd)] = NestS(n, fd) /\ Flatten[NestT(fd)] = NestT(fd) /\ Flatten[Align(fd)] = Align(fd)
        BY <1>1, <1>2
    <2> QED BY <2>1, <2>2 DEF Fine
<1> QED BY <1>3, 1 \in Int

LEMMA FineSound ==
    ASSUME AllDocuments(Documents), NEW Q, Closed(Q)
    PROVE  Sound(FineSet(Q))
<1> DEFINE G == FineSet(Q)
<1>1. ASSUME NEW d \in Documents, d.tag \in {"nil", "text", "pad", "line", "softbreak", "hardline"},
             SpokenBy(d) \in Words
      PROVE  <<d, SpokenBy(d)>> \in G
    BY <1>1, LeafFine, FineSetIs
<1>2. <<>> \in Words
    BY EmptySeq DEF Words
<1>3. ASSUME NEW d \in {Nil, Line, SoftBreak, HardLine} PROVE <<d, <<>> >> \in G
    <2>1. d \in Documents
        BY DocumentsMade
    <2>2. d.tag \in {"nil", "line", "softbreak", "hardline"}
        BY DEF Nil, Line, SoftBreak, HardLine
    <2>3. SpokenBy(d) = <<>>
        BY <2>2 DEF SpokenBy
    <2> QED BY <1>1, <1>2, <2>1, <2>2, <2>3
<1>4. ASSUME NEW n \in Int PROVE <<Pad(n), <<>> >> \in G
    <2>1. Pad(n) \in Documents
        BY DocumentsMade
    <2>2. Pad(n).tag = "pad"
        BY DEF Pad
    <2>3. SpokenBy(Pad(n)) = <<>>
        BY <2>2 DEF SpokenBy
    <2> QED BY <1>1, <1>2, <2>1, <2>2, <2>3
<1>5. ASSUME NEW t \in Texts PROVE <<t, WordIn(TextB(t))>> \in G
    <2>1. t \in Documents /\ WordIn(TextB(t)) \in Words
        BY DocumentsMade, WordInType
    <2>2. t.tag = "text"
        BY DEF Texts, Text
    <2>3. SpokenBy(t) = WordIn(TextB(t))
        BY <2>2 DEF SpokenBy
    <2> QED BY <1>1, <2>1, <2>2, <2>3
<1>6. ASSUME NEW a \in Documents, NEW b \in Documents, NEW u \in Words, NEW v \in Words,
             <<a, u>> \in G, <<b, v>> \in G
      PROVE  <<Concat(a, b), u \o v>> \in G
    <2>1. Fine(Q, a, u) /\ Fine(Q, b, v)
        BY <1>6, FineSetIs
    <2>2. Fine(Q, Concat(a, b), u \o v)
        BY <2>1, ConcatFine
    <2>3. Concat(a, b) \in Documents /\ u \o v \in Words
        BY ConcatType, WordsAre
    <2> QED BY <2>2, <2>3, FineSetIs
<1>7. ASSUME NEW a \in Documents, NEW b \in Documents, NEW u \in Words, <<a, u>> \in G, <<b, u>> \in G
      PROVE  <<Union(a, b), u>> \in G
    <2>1. Fine(Q, a, u) /\ Fine(Q, b, u)
        BY <1>7, FineSetIs
    <2>2. Fine(Q, Union(a, b), u)
        BY <2>1, UnionFine
    <2>3. Union(a, b) \in Documents
        BY DocumentsMade
    <2> QED BY <2>2, <2>3, FineSetIs
<1>8. ASSUME NEW n \in Int, NEW d \in Documents, NEW u \in Words, <<d, u>> \in G
      PROVE  <<NestT(d), u>> \in G /\ <<NestS(n, d), u>> \in G /\ <<Align(d), u>> \in G
             /\ <<Flatten[d], u>> \in G
    <2>1. Fine(Q, d, u)
        BY <1>8, FineSetIs
    <2>2. Fine(Q, NestS(n, d), u) /\ Fine(Q, NestT(d), u) /\ Fine(Q, Align(d), u)
        BY <2>1, NestFine
    <2>3. Fine(Q, Flatten[d], u)
        BY <2>1 DEF Fine
    <2>4. NestT(d) \in Documents /\ NestS(n, d) \in Documents /\ Align(d) \in Documents
          /\ Flatten[d] \in Documents
        BY DocumentsMade, FlattenType
    <2> QED BY <2>2, <2>3, <2>4, FineSetIs
<1> HIDE DEF G
<1> QED BY <1>3, <1>4, <1>5, <1>6, <1>7, <1>8 DEF Sound, G

LEMMA FineOuter ==
    ASSUME AllDocuments(Documents), NEW Q, Closed(Q)
    PROVE  SoundOuter(FineSet(Q))
<1>1. SUFFICES ASSUME NEW o \in Documents, NEW u \in Words, o.tag = "outer",
                      \A s \in Int16s : <<OuterDoc(o, s), u>> \in FineSet(Q)
               PROVE  <<o, u>> \in FineSet(Q)
    BY DEF SoundOuter
<1>2. \A s \in Int16s : OuterDoc(o, s) \in Documents /\ Fine(Q, OuterDoc(o, s), u)
    BY <1>1, FineSetIs
<1> DEFINE p == Outer(o.lbl, o.ds, TRUE)
<1>3. /\ p \in Documents
      /\ p.tag = "outer" /\ p.lbl = o.lbl /\ p.ds = o.ds /\ p.flat = TRUE
    <2>1. p \in Documents
        BY <1>1, OuterFlat
    <2> QED BY <2>1 DEF Outer
<1>4. o.flat \in BOOLEAN
    BY <1>1, DocumentShapes
<1> HIDE DEF p
<1>5. \A s : OuterDoc(p, s) = OuterDoc(o, s) \/ OuterDoc(p, s) = Flatten[OuterDoc(o, s)]
    BY <1>3, <1>4 DEF OuterDoc
<1>6. \A s \in Int16s : SaysDoc(Q, OuterDoc(o, s), u) /\ SaysDoc(Q, OuterDoc(p, s), u)
    BY <1>2, <1>5 DEF Fine, Keeps
<1>7. SaysDoc(Q, o, u) /\ SaysDoc(Q, p, u)
    BY <1>1, <1>3, <1>6, OuterSays
<1>8. Flatten[o] = p /\ Flatten[p] = p
    <2>1. Flatten[o] = Outer(o.lbl, o.ds, TRUE)
        BY <1>1, FlattenCases
    <2>2. Flatten[p] = Outer(p.lbl, p.ds, TRUE)
        BY <1>3, FlattenCases
    <2> QED BY ONLY <1>3, <2>1, <2>2, Zenon DEF p
<1>9. o # Nil /\ p # Nil
    BY <1>1, <1>3 DEF Nil
<1>10. Fine(Q, o, u)
    BY <1>7, <1>8, <1>9 DEF Fine, Keeps
<1> QED BY <1>10, FineSetIs

-----------------------------------------------------------------------------
(* The printer comes to an end: every set of cells that has a cell as soon *)
(* as it has the next ones has all of them.                                *)
LEMMA TypedSound ==
    ASSUME AllDocuments(Documents)
    PROVE  Sound(Documents \X Words)
<1> DEFINE G == Documents \X Words
<1>1. \A d, u : <<d, u>> \in G <=> d \in Documents /\ u \in Words
    OBVIOUS
<1>2. /\ \A d \in {Nil, Line, SoftBreak, HardLine} : d \in Documents
      /\ \A n \in Int : Pad(n) \in Documents
      /\ \A t \in Texts : t \in Documents
      /\ \A a, b \in Documents : Union(a, b) \in Documents
      /\ \A n \in Int, d \in Documents :
            NestT(d) \in Documents /\ NestS(n, d) \in Documents /\ Align(d) \in Documents
    BY DocumentsMade
<1>3. \A d \in Documents : Flatten[d] \in Documents
    BY FlattenType
<1>4. \A a, b \in Documents : Concat(a, b) \in Documents
    BY ConcatType
<1>5. <<>> \in Words /\ \A t \in Texts : WordIn(TextB(t)) \in Words
    BY WordInType, EmptySeq DEF Words
<1>6. \A u, v \in Words : u \o v \in Words
    BY WordsAre
<1> HIDE DEF G
<1> QED BY <1>1, <1>2, <1>3, <1>4, <1>5, <1>6 DEF Sound, G

(* Documents that tell nothing. *)
LEMMA SilentOuter ==
    ASSUME AllDocuments(Documents), NEW G, Sound(G), NEW o \in Documents, o.tag = "outer",
           Tells(G, o.lbl, <<>>), \A j \in DOMAIN o.ds : Tells(G, o.ds[j], <<>>), NEW s
    PROVE  Tells(G, OuterDoc(o, s), <<>>)
<1> DEFINE l == o.lbl
           ds == o.ds
           n == Len(ds)
           V == [j \in 1..n |-> <<>>]
<1>1. l \in Texts /\ ds \in Seq(Documents) /\ ds # <<>> /\ o.flat \in BOOLEAN /\ o = Outer(l, ds, o.flat)
    BY DocumentShapes
<1>2. n \in Nat \ {0}
    BY <1>1, TailIs
<1>3. DOMAIN ds = 1..n
    BY <1>1
<1>4. <<>> \in Words /\ (<<>> \o <<>>) \o <<>> = <<>>
    BY EmptySeq, ConcatEmptySeq DEF Words
<1>5. V[n] = <<>> /\ \A j \in 1..(n - 1) : V[j] = <<>> /\ V[j + 1] = <<>>
    BY <1>2
<1>51. V[1] = <<>>
    BY <1>2
<1> HIDE DEF V
<1>6. \A j \in 1..(n - 1) : Tells(G, ds[j + 1], <<>>)
    BY <1>2, <1>3
<1>7. Labelled(G, ds, <<>>, V)
    BY <1>4, <1>5, <1>6 DEF Labelled
<1>8. Tells(G, ds[1], <<>>)
    BY <1>2, <1>3
<1> HIDE DEF l, ds
<1>9. Tells(G, OuterDoc(Outer(l, ds, o.flat), s), <<>> \o V[1])
    <2>1. Tells(G, l, <<>>)
        BY DEF l
    <2> QED BY <1>1, <1>7, <1>8, <2>1, OuterDocTells
<1> QED BY <1>1, <1>4, <1>51, <1>9

LEMMA OuterDocType ==
    ASSUME AllDocuments(Documents), NEW o \in Documents, o.tag = "outer", NEW s
    PROVE  OuterDoc(o, s) \in Documents
<1> DEFINE G == Documents \X Words
<1>1. Sound(G)
    BY TypedSound
<1>2. <<>> \in Words
    BY EmptySeq DEF Words
<1>3. \A d \in Documents : Tells(G, d, <<>>)
    BY <1>2 DEF Tells
<1>4. o.lbl \in Documents /\ \A j \in DOMAIN o.ds : o.ds[j] \in Documents
    BY DocumentShapes, DocumentsMade
<1> HIDE DEF G
<1>5. Tells(G, OuterDoc(o, s), <<>>)
    BY <1>1, <1>3, <1>4, SilentOuter
<1> QED BY <1>5 DEF Tells

LEMMA CellIs ==
    ASSUME NEW k \in Positions, NEW xlist \in ToLayOut
    PROVE  Cell(k, xlist) \in Cells /\ Cell(k, xlist).k = k /\ Cell(k, xlist).xlist = xlist
BY DEF Cell, Cells

LEMMA CellsAre ==
    ASSUME NEW p \in Cells
    PROVE  /\ p.k \in Positions /\ p.xlist \in ToLayOut
           /\ p = Cell(p.k, p.xlist)
           /\ p.xlist # <<>> =>
                 /\ p.xlist[1].i \in Positions /\ p.xlist[1].d \in Documents
                 /\ Tail(p.xlist) \in ToLayOut
                 /\ p.xlist = <<IDoc(p.xlist[1].i, p.xlist[1].d)>> \o Tail(p.xlist)
<1>1. p.k \in Positions /\ p.xlist \in ToLayOut /\ p = Cell(p.k, p.xlist)
    BY DEF Cells, Cell
<1>2. ASSUME NEW x \in ToLayOut, x # <<>>
      PROVE  /\ x[1].i \in Positions /\ x[1].d \in Documents
             /\ Tail(x) \in ToLayOut
             /\ x = <<IDoc(x[1].i, x[1].d)>> \o Tail(x)
    <2> DEFINE E == [i : Positions, d : Documents]
    <2>1. x \in Seq(E)
        BY DEF ToLayOut
    <2>2. x[1] \in E /\ Tail(x) \in Seq(E)
        BY <1>2, <2>1, TailIs
    <2>3. x = <<x[1]>> \o Tail(x)
        BY <1>2, <2>1
    <2>4. x[1] = IDoc(x[1].i, x[1].d)
        BY <2>2 DEF IDoc
    <2> QED BY <2>2, <2>3, <2>4 DEF ToLayOut
<1> QED BY <1>1, <1>2

LEMMA NextOfType ==
    ASSUME AllDocuments(Documents), NEW k \in Positions, NEW i \in Positions,
           NEW d \in Documents, NEW z \in ToLayOut
    PROVE  NextOf(k, i, d, z) \subseteq Cells
<1>1. NextOfIs(k, i, d, z)
    BY NextOfCases
<1>2. \A j \in Positions, e \in Documents : <<IDoc(j, e)>> \o z \in ToLayOut
    BY ToLayOutAre
<1>3. \A j \in Positions, x \in ToLayOut : Cell(j, x) \in Cells
    BY CellIs
<1>4. \A j \in Positions, e \in Documents : Cell(k, <<IDoc(j, e)>> \o z) \in Cells
    BY <1>2, <1>3
<1>5. CASE d.tag \in {"nil", "text", "pad", "line", "softbreak", "hardline"}
    <2>1. d.tag \in {"text", "pad"} => Move(k, d.n) \in Positions
        BY DocumentShapes, MoveType
    <2> QED BY <1>1, <1>3, <1>5, <2>1 DEF NextOfIs
<1>6. CASE d.tag = "concat"
    <2>1. d.a \in Documents /\ d.b \in Documents
        BY <1>6, DocumentShapes
    <2>2. <<IDoc(i, d.a)>> \o (<<IDoc(i, d.b)>> \o z) \in ToLayOut
        BY <2>1, ToLayOutAre
    <2> QED BY <1>1, <1>3, <1>6, <2>2 DEF NextOfIs
<1>7. CASE d.tag = "nests"
    <2>1. d.n \in Int /\ d.d \in Documents
        BY <1>7, DocumentShapes
    <2>2. Move(i, d.n) \in Positions
        BY <2>1, MoveType
    <2> QED BY <1>1, <1>4, <1>7, <2>1, <2>2 DEF NextOfIs
<1>8. CASE d.tag = "nestt"
    <2>1. d.d \in Documents
        BY <1>8, DocumentShapes
    <2>2. TabPos(i) \in Positions
        BY TabPosType
    <2> QED BY <1>1, <1>4, <1>8, <2>1, <2>2 DEF NextOfIs
<1>9. CASE d.tag = "align"
    <2>1. d.d \in Documents
        BY <1>9, DocumentShapes
    <2>2. Int16(k.spaces - i.spaces) \in Int
        BY PositionsAre, Int16Type
    <2>3. NestS(Int16(k.spaces - i.spaces), d.d) \in Documents
        BY <2>1, <2>2, DocumentsMade
    <2> QED BY <1>1, <1>4, <1>9, <2>3 DEF NextOfIs
<1>10. CASE d.tag = "outer"
    <2>1. OuterDoc(d, i.spaces) \in Documents
        BY <1>10, OuterDocType
    <2> QED BY <1>1, <1>4, <1>10, <2>1 DEF NextOfIs
<1>11. CASE d.tag = "union"
    <2>1. d.x \in Documents /\ d.y \in Documents
        BY <1>11, DocumentShapes
    <2> QED BY <1>1, <1>4, <1>11, <2>1 DEF NextOfIs
<1>12. d.tag \in Tags
    BY DocumentShapes
<1> QED BY <1>5, <1>6, <1>7, <1>8, <1>9, <1>10, <1>11, <1>12 DEF Tags, Structure

-----------------------------------------------------------------------------
(* A relation that does not care for the words. *)
Wordless(Q) == \A q : \A u, v \in Words : <<q, u>> \in Q => <<q, v>> \in Q

LEMMA SilentDoc ==
    ASSUME NEW Q, Wordless(Q), NEW d, NEW u \in Words, SaysDoc(Q, d, u)
    PROVE  SaysDoc(Q, d, <<>>)
<1>1. SUFFICES ASSUME NEW i \in Positions, NEW z \in ToLayOut, NEW v \in Words, Says(Q, z, v),
                      NEW k \in Positions
               PROVE  <<Cell(k, <<IDoc(i, d)>> \o z), <<>> \o v>> \in Q
    BY DEF SaysDoc, Says
<1>2. <<Cell(k, <<IDoc(i, d)>> \o z), u \o v>> \in Q
    BY <1>1 DEF SaysDoc, Says
<1>3. u \o v \in Words /\ <<>> \o v \in Words
    BY WordsAre
<1> HIDE DEF Cell, IDoc
<1> QED BY <1>2, <1>3 DEF Wordless

LEMMA ConcatOfFine ==
    ASSUME AllDocuments(Documents), NEW Q, Closed(Q), NEW a \in Documents, NEW b \in Documents,
           Fine(Q, a, <<>>), Fine(Q, b, <<>>)
    PROVE  Fine(Q, ConcatOf(a, b), <<>>)
<1> DEFINE c == ConcatOf(a, b)
<1>0. <<>> \in Words /\ <<>> \o <<>> = <<>>
    BY EmptySeq, ConcatEmptySeq DEF Words
<1>1. c \in Documents /\ c.tag = "concat" /\ c.a = a /\ c.b = b
    <2>1. c \in Documents
        BY DocumentsMade
    <2> QED BY <2>1 DEF ConcatOf
<1>2. SaysDoc(Q, c, <<>>)
    <2>1. SaysDoc(Q, c, <<>> \o <<>>)
        BY <1>0, ConcatSays DEF Fine, Keeps
    <2> HIDE DEF c
    <2> QED BY <2>1, <1>0
<1>3. Fine(Q, Concat(a, b), <<>>)
    <2>1. Fine(Q, Concat(a, b), <<>> \o <<>>)
        BY <1>0, ConcatFine
    <2> QED BY <2>1, <1>0
<1>4. Flatten[Concat(a, b)] = Concat(Flatten[a], Flatten[b])
    BY FlattenConcat
<1> HIDE DEF c
<1>5. Flatten[c] = Concat(Flatten[a], Flatten[b])
    BY <1>1, FlattenCases
<1> QED BY <1>2, <1>3, <1>4, <1>5 DEF Fine, Keeps, c

LEMMA AllSilent ==
    ASSUME AllDocuments(Documents), NEW Q, Closed(Q), Wordless(Q)
    PROVE  \A d \in Documents : Fine(Q, d, <<>>)
<1> DEFINE S == {d \in Documents : Fine(Q, d, <<>>)}
           G == FineSet(Q)
<1>0. <<>> \in Words
    BY EmptySeq DEF Words
<1>1. Sound(G) /\ SoundOuter(G)
    BY FineSound, FineOuter
<1>2. S \in SUBSET Documents
    OBVIOUS
<1>3. ASSUME NEW d \in Made(S) PROVE Fine(Q, d, <<>>)
    <2>0. d \in Documents
        BY <1>2, MadeMonotone, DocumentsAreMade
    <2>1. CASE d \in {Nil, Line, SoftBreak, HardLine} \cup Texts \cup {Pad(n) : n \in Int}
        <3>1. d.tag \in {"nil", "text", "pad", "line", "softbreak", "hardline"}
            BY <2>1 DEF Texts, Nil, Line, SoftBreak, HardLine, Text, Pad
        <3>2. Fine(Q, d, SpokenBy(d))
            BY <2>0, <3>1, LeafFine
        <3>3. SpokenBy(d) \in Words /\ (d = Nil => SpokenBy(d) = <<>>)
            <4>1. CASE d.tag = "text"
                <5>1. d \in Texts
                    BY <4>1, <2>1 DEF Texts, Nil, Line, SoftBreak, HardLine, Text, Pad
                <5> QED BY <4>1, <5>1, WordInType DEF SpokenBy, Nil
            <4>2. CASE d.tag # "text"
                BY <4>2, <1>0 DEF SpokenBy
            <4> QED BY <4>1, <4>2
        <3>4. SaysDoc(Q, d, <<>>) /\ SaysDoc(Q, Flatten[d], <<>>)
            BY <3>2, <3>3, SilentDoc DEF Fine, Keeps
        <3> QED BY <3>2, <3>4 DEF Fine, Keeps
    <2>2. CASE \E a, b \in S : d = ConcatOf(a, b) \/ d = Union(a, b)
        <3>1. PICK a \in S, b \in S : d = ConcatOf(a, b) \/ d = Union(a, b)
            BY <2>2
        <3>2. a \in Documents /\ b \in Documents /\ Fine(Q, a, <<>>) /\ Fine(Q, b, <<>>)
            OBVIOUS
        <3>3. Fine(Q, ConcatOf(a, b), <<>>)
            BY <3>2, ConcatOfFine
        <3>4. Fine(Q, Union(a, b), <<>>)
            BY <3>2, <1>0, UnionFine
        <3> QED BY <3>1, <3>3, <3>4
    <2>3. CASE \E b \in S, n \in Int : d = NestT(b) \/ d = NestS(n, b) \/ d = Align(b)
        <3>1. PICK b \in S, n \in Int : d = NestT(b) \/ d = NestS(n, b) \/ d = Align(b)
            BY <2>3
        <3>2. b \in Documents /\ Fine(Q, b, <<>>)
            OBVIOUS
        <3>3. Fine(Q, NestT(b), <<>>) /\ Fine(Q, NestS(n, b), <<>>) /\ Fine(Q, Align(b), <<>>)
            BY <3>2, <1>0, NestFine
        <3> QED BY <3>1, <3>3
    <2>4. CASE \E l \in Texts, ds \in Seq(S) \ {<<>>}, fl \in BOOLEAN : d = Outer(l, ds, fl)
        <3>1. PICK l \in Texts, ds \in Seq(S) \ {<<>>}, fl \in BOOLEAN : d = Outer(l, ds, fl)
            BY <2>4
        <3>2. d.tag = "outer" /\ d.lbl = l /\ d.ds = ds
            BY <3>1 DEF Outer
        <3>3. \A j \in DOMAIN ds : Tells(G, ds[j], <<>>)
            <4>1. TAKE j \in DOMAIN ds
            <4>2. ds[j] \in S
                BY <4>1
            <4>3. ds[j] \in Documents /\ Fine(Q, ds[j], <<>>)
                BY <4>2
            <4> QED BY <4>3, <1>0, FineSetIs DEF Tells
        <3>4. Tells(G, l, <<>>)
            <4>1. l \in Documents /\ l.tag = "text"
                BY DocumentsMade DEF Texts, Text
            <4>2. Fine(Q, l, SpokenBy(l))
                BY <4>1, LeafFine
            <4>3. SpokenBy(l) \in Words
                BY <4>1, WordInType DEF SpokenBy
            <4>4. SaysDoc(Q, l, <<>>) /\ SaysDoc(Q, Flatten[l], <<>>)
                BY <4>2, <4>3, SilentDoc DEF Fine, Keeps
            <4>5. Fine(Q, l, <<>>)
                BY <4>2, <4>4 DEF Fine, Keeps
            <4> QED BY <4>1, <4>5, <1>0, FineSetIs DEF Tells
        <3> HIDE DEF G, S
        <3>5. \A s : Tells(G, OuterDoc(d, s), <<>>)
            BY <1>1, <2>0, <3>2, <3>3, <3>4, SilentOuter
        <3>6. <<d, <<>> >> \in G
            BY <1>0, <1>1, <2>0, <3>2, <3>5 DEF SoundOuter, Tells
        <3> QED BY <3>6, FineSetIs DEF G
    <2> HIDE DEF S
    <2> QED BY <1>3, <2>1, <2>2, <2>3, <2>4 DEF Made
<1>4. Made(S) \subseteq Documents
    BY <1>2, MadeMonotone, DocumentsAreMade
<1>5. Made(S) \subseteq S
    BY <1>3, <1>4
<1>6. S = Documents
    BY <1>2, <1>5 DEF AllDocuments
<1> QED BY <1>6

LEMMA AllSay ==
    ASSUME AllDocuments(Documents), NEW Q, Closed(Q), Wordless(Q), NEW x \in ToLayOut
    PROVE  Says(Q, x, <<>>)
<1> DEFINE S == {n \in Nat : \A xs \in ToLayOut : Len(xs) = n => Says(Q, xs, <<>>)}
           E == [i : Positions, d : Documents]
<1>0. <<>> \in Words /\ <<>> \o <<>> = <<>>
    BY EmptySeq, ConcatEmptySeq DEF Words
<1>1. 0 \in S
    <2>1. ASSUME NEW xs \in ToLayOut, Len(xs) = 0 PROVE Says(Q, xs, <<>>)
        <3>1. xs = <<>>
            BY <2>1, EmptySeq DEF ToLayOut
        <3> QED BY <3>1 DEF Closed, Says
    <2> QED BY <2>1
<1>2. ASSUME NEW n \in Nat, n \in S PROVE n + 1 \in S
    <2>1. ASSUME NEW xs \in ToLayOut, Len(xs) = n + 1 PROVE Says(Q, xs, <<>>)
        <3>1. xs \in Seq(E)
            BY DEF ToLayOut
        <3>2. xs # <<>>
            BY <2>1
        <3>3. xs[1] \in E /\ Tail(xs) \in Seq(E) /\ Len(Tail(xs)) = n /\ xs = <<xs[1]>> \o Tail(xs)
            <4>1. xs[1] \in E /\ Tail(xs) \in Seq(E) /\ Len(Tail(xs)) = Len(xs) - 1
                BY <3>1, <3>2, TailIs
            <4>2. xs = <<xs[1]>> \o Tail(xs)
                BY <3>1, <3>2
            <4> QED BY <2>1, <4>1, <4>2
        <3>4. PICK i \in Positions, d \in Documents : xs[1] = IDoc(i, d)
            BY <3>3 DEF IDoc
        <3>5. Tail(xs) \in ToLayOut
            BY <3>3 DEF ToLayOut
        <3>6. Says(Q, Tail(xs), <<>>)
            BY <1>2, <3>3, <3>5
        <3>7. SaysDoc(Q, d, <<>>)
            BY AllSilent DEF Fine, Keeps
        <3>8. Says(Q, <<IDoc(i, d)>> \o Tail(xs), <<>> \o <<>>)
            BY <3>5, <3>6, <3>7, <1>0 DEF SaysDoc
        <3> HIDE DEF IDoc
        <3> QED BY <3>8, <1>0, <3>3, <3>4
    <2> QED BY <2>1
<1>3. Len(x) \in Nat
    BY DEF ToLayOut
<1> HIDE DEF S
<1>4. Len(x) \in S
    BY <1>1, <1>2, <1>3, Induction
<1> QED BY <1>4 DEF S

CellKeys(p) ==
    IF p.xlist = <<>> THEN {} ELSE NextOf(p.k, p.xlist[1].i, p.xlist[1].d, Tail(p.xlist))

LEMMA CellsInduction ==
    ASSUME AllDocuments(Documents), NEW T \in SUBSET Cells,
           \A p \in Cells : CellKeys(p) \subseteq T => p \in T
    PROVE  T = Cells
<1> DEFINE Q == T \X Words
<1>0. \A q, u : <<q, u>> \in Q <=> q \in T /\ u \in Words
    OBVIOUS
<1>00. <<>> \in Words
    BY EmptySeq DEF Words
<1> HIDE DEF Q
<1>1. Wordless(Q)
    BY <1>0 DEF Wordless
<1>2. ASSUME NEW k \in Positions PROVE <<Cell(k, <<>>), <<>> >> \in Q
    <2>1. <<>> \in ToLayOut
        BY EmptySeq DEF ToLayOut
    <2>2. Cell(k, <<>>) \in Cells /\ Cell(k, <<>>).xlist = <<>>
        BY <2>1, CellIs
    <2>3. Cell(k, <<>>) \in T
        BY <2>2 DEF CellKeys
    <2> QED BY <2>3, <1>0, <1>00
<1>3. ASSUME NEW k \in Positions, NEW i \in Positions, NEW d \in Documents, NEW z \in ToLayOut,
             NEW v \in Words, \A q \in NextOf(k, i, d, z) : <<q, v>> \in Q
      PROVE  <<Cell(k, <<IDoc(i, d)>> \o z), SpokenBy(d) \o v>> \in Q
    <2> DEFINE x == <<IDoc(i, d)>> \o z
               p == Cell(k, x)
    <2>1. x \in ToLayOut /\ x # <<>> /\ x[1] = IDoc(i, d) /\ Tail(x) = z
        BY ToLayOutAre
    <2>2. IDoc(i, d).i = i /\ IDoc(i, d).d = d
        BY DEF IDoc
    <2> HIDE DEF x
    <2>3. p \in Cells /\ p.k = k /\ p.xlist = x
        BY <2>1, CellIs
    <2> HIDE DEF p
    <2>4. CellKeys(p) = NextOf(k, i, d, z)
        BY <2>1, <2>2, <2>3 DEF CellKeys
    <2>5. p \in T
        BY <1>3, <1>0, <2>3, <2>4
    <2>6. SpokenBy(d) \in Words
        <3>1. d.tag = "text" => d \in Texts
            BY DocumentShapes DEF Texts
        <3> QED BY <3>1, <1>00, WordInType DEF SpokenBy
    <2>7. SpokenBy(d) \o v \in Words
        BY <2>6, WordsAre
    <2> QED BY <2>5, <2>7, <1>0 DEF p, x
<1>4. Closed(Q)
    BY <1>2, <1>3 DEF Closed
<1>5. ASSUME NEW p \in Cells PROVE p \in T
    <2>1. p.k \in Positions /\ p.xlist \in ToLayOut /\ p = Cell(p.k, p.xlist)
        BY CellsAre
    <2>2. Says(Q, p.xlist, <<>>)
        BY <1>1, <1>4, <2>1, AllSay
    <2>3. <<Cell(p.k, p.xlist), <<>> >> \in Q
        BY <2>1, <2>2 DEF Says
    <2> QED BY <2>1, <2>3, <1>0
<1> QED BY <1>5

-----------------------------------------------------------------------------
(* Functions on an interval from the value at the place before.            *)
StepsOn(m, n, R, step) ==
    /\ m \in Nat /\ n \in Nat
    /\ R # {}
    /\ step \in [[m..n -> R] -> [m..n -> R]]
    /\ \A f, g \in [m..n -> R] : \A j \in m..n :
           (j > m => f[j - 1] = g[j - 1]) => step[f][j] = step[g][j]

LEMMA UpwardsFrom ==
    ASSUME NEW m \in Nat, NEW n \in Nat, NEW T,
           \A j \in m..n : (j > m => j - 1 \in T) => j \in T
    PROVE  \A j \in m..n : j \in T
<1> DEFINE S == {k \in Nat : m <= k /\ k <= n => k \in T}
<1>1. 0 \in S
    <2>1. m <= 0 /\ 0 <= n => 0 \in m..n /\ ~(0 > m)
        OBVIOUS
    <2> QED BY <2>1
<1>2. ASSUME NEW k \in Nat, k \in S PROVE k + 1 \in S
    <2>1. m <= k + 1 /\ k + 1 <= n =>
             k + 1 \in m..n /\ (k + 1 > m => k + 1 - 1 = k /\ m <= k /\ k <= n)
        OBVIOUS
    <2> QED BY <1>2, <2>1
<1>3. m..n \subseteq Nat /\ \A j \in m..n : m <= j /\ j <= n
    OBVIOUS
<1> HIDE DEF S
<1>4. \A k \in Nat : k \in S
    BY <1>1, <1>2, Induction
<1> QED BY <1>3, <1>4 DEF S

LEMMA FromPrevious ==
    ASSUME NEW m, NEW n, NEW R, NEW step, StepsOn(m, n, R, step)
    PROVE  \E f \in [m..n -> R] : f = step[f]
<1> USE DEF StepsOn
<1> DEFINE S == m..n
           keys == [j \in S |-> IF j > m THEN {j - 1} ELSE {}]
<1>1. keys \in [S -> SUBSET S]
    OBVIOUS
<1>2. \A T \in SUBSET S : (\A p \in S : keys[p] \subseteq T => p \in T) => T = S
    <2>1. SUFFICES ASSUME NEW T \in SUBSET S, \A p \in S : keys[p] \subseteq T => p \in T
                   PROVE  T = S
        OBVIOUS
    <2>2. \A j \in m..n : (j > m => j - 1 \in T) => j \in T
        BY <2>1
    <2>3. \A j \in m..n : j \in T
        BY <2>2, UpwardsFrom
    <2> QED BY <2>3
<1>3. \A f, g \in [S -> R] : \A j \in S :
          (\A q \in keys[j] : f[q] = g[q]) => step[f][j] = step[g][j]
    <2>1. ASSUME NEW f \in [S -> R], NEW g \in [S -> R], NEW j \in S,
                 \A q \in keys[j] : f[q] = g[q]
          PROVE  j > m => f[j - 1] = g[j - 1]
        BY <2>1
    <2> HIDE DEF keys
    <2> QED BY <2>1
<1> HIDE DEF S, keys
<1>4. Recursive(S, R, keys, step)
    BY <1>1, <1>2, <1>3 DEF Recursive, S
<1>5. \E f \in [S -> R] : f = step[f]
    BY <1>4, Recursion
<1> QED BY <1>5 DEF S

-----------------------------------------------------------------------------
(* FlattenSeq of a sequence of texts.                                      *)
LEMMA WordsAssociate == \A u, v, w \in Words : (u \o v) \o w = u \o (v \o w)
<1>1. ASSUME NEW u \in Seq(Strings), NEW v \in Seq(Strings), NEW w \in Seq(Strings)
      PROVE  (u \o v) \o w = u \o (v \o w)
    BY ConcatAssociative
<1> QED BY <1>1, Zenon DEF Words

Joined(s, f) ==
    /\ f \in [0..Len(s) -> Words]
    /\ f[0] = <<>>
    /\ \A j \in 1..Len(s) : f[j] = f[j - 1] \o s[j]

LEMMA FlattenSeqIs ==
    ASSUME NEW s \in Seq(Words)
    PROVE  \E f : Joined(s, f) /\ FlattenSeq(s) = f[Len(s)]
<1> DEFINE n == Len(s)
           S == 1..n
           One(f, i) == IF i = 1 THEN s[i] ELSE f[i - 1] \o s[i]
           Body(f) == f = [i \in 1..Len(s) |-> IF i = 1 THEN s[i] ELSE f[i - 1] \o s[i]]
           fl == CHOOSE f : Body(f)
           step == [f \in [S -> Words] |-> [j \in S |-> One(f, j)]]
<1>0. <<>> \in Words
    BY EmptySeq DEF Words
<1>1. CASE n = 0
    <2>1. s = <<>>
        BY <1>1, EmptySeq
    <2>2. FlattenSeq(s) = <<>>
        BY <1>1, <2>1 DEF FlattenSeq
    <2>3. Joined(s, [j \in 0..0 |-> <<>>])
        BY <1>0, <1>1 DEF Joined
    <2> HIDE DEF n
    <2> QED BY <1>1, <2>2, <2>3 DEF n
<1>2. CASE n # 0
    <2>1. n \in Nat /\ n >= 1 /\ \A j \in S : s[j] \in Words
        BY <1>2
    <2>2. FlattenSeq(s) = fl[n]
        BY <1>2, Zenon DEF FlattenSeq
    <2>3. ASSUME NEW f, NEW j \in S, j > 1 => f[j - 1] \in Words PROVE One(f, j) \in Words
        BY <2>1, <2>3, WordsAre
    <2>4. step \in [[S -> Words] -> [S -> Words]]
        <3>1. ASSUME NEW f \in [S -> Words] PROVE [j \in S |-> One(f, j)] \in [S -> Words]
            <4>1. ASSUME NEW j \in S PROVE One(f, j) \in Words
                <5>1. j > 1 => j - 1 \in S
                    BY <2>1
                <5>2. j > 1 => f[j - 1] \in Words
                    BY <5>1
                <5> HIDE DEF One, S
                <5> QED BY <5>2, <2>3
            <4> HIDE DEF One
            <4> QED BY <4>1
        <3> HIDE DEF One
        <3> QED BY <3>1
    <2>5. \A f, g \in [S -> Words] : \A j \in S :
              (j > 1 => f[j - 1] = g[j - 1]) => step[f][j] = step[g][j]
        <3>1. \A f \in [S -> Words] : \A j \in S : step[f][j] = One(f, j)
            OBVIOUS
        <3>2. ASSUME NEW f, NEW g, NEW j \in S, j > 1 => f[j - 1] = g[j - 1]
              PROVE  One(f, j) = One(g, j)
            <4>1. j > 1 <=> ~(j = 1)
                BY <2>1
            <4> QED BY <3>2, <4>1
        <3> HIDE DEF step, One
        <3> QED BY <3>1, <3>2
    <2>6. \A f \in [S -> Words] : step[f] = [j \in S |-> One(f, j)]
        OBVIOUS
    <2> HIDE DEF step
    <2>7. StepsOn(1, n, Words, step)
        BY <2>1, <2>4, <2>5, <1>0 DEF StepsOn
    <2>8. \E f \in [S -> Words] : f = step[f]
        <3> HIDE DEF n
        <3> QED BY <2>7, FromPrevious
    <2>9. \E f : Body(f)
        <3>1. PICK f \in [S -> Words] : f = step[f]
            BY <2>8
        <3>2. f = [j \in S |-> One(f, j)]
            BY <2>6, <3>1
        <3>3. Body(f)
            BY <3>2
        <3> QED BY <3>3
    <2> HIDE DEF Body
    <2>10. Body(fl)
        BY <2>9
    <2>11. fl = [j \in S |-> One(fl, j)]
        BY <2>10 DEF Body
    <2> HIDE DEF fl
    <2> DEFINE g == [j \in 0..n |-> IF j = 0 THEN <<>> ELSE fl[j]]
    <2>12. \A j \in S : fl[j] \in Words
        <3> DEFINE T == {j \in S : fl[j] \in Words}
        <3>1. ASSUME NEW j \in 1..n, j > 1 => j - 1 \in T PROVE j \in T
            <4>1. One(fl, j) \in Words
                BY <3>1, <2>3
            <4> HIDE DEF One
            <4> QED BY <4>1, <2>11
        <3> HIDE DEF T
        <3>2. \A j \in 1..n : j \in T
            BY <3>1, <2>1, UpwardsFrom
        <3> QED BY <3>2 DEF T
    <2>13. ASSUME NEW j \in 1..n PROVE g[j] = g[j - 1] \o s[j]
        <3>1. fl[j] = One(fl, j)
            BY <2>11
        <3>2. CASE j = 1
            <4>1. <<>> \o s[1] = s[1]
                BY <2>1, WordsAre
            <4>2. g[1] = fl[1] /\ g[0] = <<>> /\ fl[1] = s[1] /\ 1 - 1 = 0
                BY <2>1, <3>1, <3>2
            <4> HIDE DEF g
            <4> QED BY <3>2, <4>1, <4>2
        <3>3. CASE j # 1
            <4>1. j \in 0..n /\ j - 1 \in 0..n /\ j # 0 /\ j - 1 # 0
                BY <2>1, <3>3
            <4> QED BY <3>1, <3>3, <4>1
        <3> QED BY <3>2, <3>3
    <2>14. g \in [0..n -> Words] /\ g[0] = <<>> /\ g[n] = fl[n]
        BY <2>1, <2>12, <1>0
    <2> HIDE DEF g
    <2>15. Joined(s, g)
        BY <2>13, <2>14 DEF Joined
    <2> QED BY <2>2, <2>14, <2>15
<1> QED BY <1>1, <1>2

LEMMA JoinedOnce ==
    ASSUME NEW s \in Seq(Words), NEW f, NEW g, Joined(s, f),
           NEW t \in Seq(Words), Joined(t, g), Len(s) <= Len(t),
           \A j \in 1..Len(s) : s[j] = t[j]
    PROVE  f[Len(s)] = g[Len(s)]
<1> DEFINE n == Len(s)
           T == {j \in 0..n : f[j] = g[j]}
<1>1. n \in Nat /\ Len(t) \in Nat
    OBVIOUS
<1>2. ASSUME NEW j \in 0..n, j > 0 => j - 1 \in T PROVE j \in T
    <2>1. CASE j = 0
        BY <2>1, <1>1 DEF Joined
    <2>2. CASE j # 0
        <3>1. j \in 1..n /\ j \in 1..Len(t) /\ j > 0
            BY <1>1, <2>2
        <3>2. f[j] = f[j - 1] \o s[j] /\ g[j] = g[j - 1] \o t[j]
            BY <3>1 DEF Joined
        <3> QED BY <3>1, <3>2, <1>2
    <2> QED BY <2>1, <2>2
<1> HIDE DEF T
<1>3. \A j \in 0..n : j \in T
    BY <1>1, <1>2, Upwards
<1>4. n \in T
    BY <1>1, <1>3
<1> QED BY <1>4 DEF T

LEMMA FlattenSeqEmpty == FlattenSeq(<<>>) = <<>>
<1>1. Len(<<>>) = 0
    OBVIOUS
<1> QED BY <1>1 DEF FlattenSeq

LEMMA FlattenSeqType ==
    ASSUME NEW s \in Seq(Words)
    PROVE  FlattenSeq(s) \in Words
<1>1. PICK f : Joined(s, f) /\ FlattenSeq(s) = f[Len(s)]
    BY FlattenSeqIs
<1>2. Len(s) \in 0..Len(s)
    OBVIOUS
<1> QED BY <1>1, <1>2 DEF Joined

LEMMA FlattenSeqAppend ==
    ASSUME NEW s \in Seq(Words), NEW e \in Words
    PROVE  FlattenSeq(Append(s, e)) = FlattenSeq(s) \o e
<1> DEFINE t == Append(s, e)
           n == Len(s)
<1>1. t \in Seq(Words) /\ Len(t) = n + 1 /\ t[n + 1] = e /\ \A j \in 1..n : s[j] = t[j]
    OBVIOUS
<1> HIDE DEF t
<1>2. PICK f : Joined(s, f) /\ FlattenSeq(s) = f[n]
    BY FlattenSeqIs
<1>3. PICK g : Joined(t, g) /\ FlattenSeq(t) = g[n + 1]
    BY <1>1, FlattenSeqIs
<1>4. n \in Nat /\ n <= Len(t)
    BY <1>1
<1>5. f[n] = g[n]
    BY <1>1, <1>2, <1>3, <1>4, JoinedOnce
<1>6. g[n + 1] = g[n] \o e
    <2>1. n + 1 \in 1..Len(t) /\ n + 1 - 1 = n
        BY <1>1, <1>4
    <2>2. g[n + 1] = g[n + 1 - 1] \o t[n + 1]
        BY <2>1, <1>3 DEF Joined
    <2> HIDE DEF n
    <2> QED BY <2>1, <2>2, <1>1
<1> QED BY <1>2, <1>3, <1>5, <1>6 DEF t

LEMMA FlattenSeqPrepend ==
    ASSUME NEW s \in Seq(Words), NEW e \in Words
    PROVE  FlattenSeq(<<e>> \o s) = e \o FlattenSeq(s)
<1> DEFINE t == <<e>> \o s
           n == Len(s)
<1>1. t \in Seq(Words) /\ Len(t) = n + 1 /\ t[1] = e /\ \A j \in 1..n : t[j + 1] = s[j]
    OBVIOUS
<1> HIDE DEF t
<1>2. PICK f : Joined(s, f) /\ FlattenSeq(s) = f[n]
    BY FlattenSeqIs
<1>3. PICK g : Joined(t, g) /\ FlattenSeq(t) = g[n + 1]
    BY <1>1, FlattenSeqIs
<1>4. n \in Nat
    OBVIOUS
<1> DEFINE T == {j \in 0..n : g[j + 1] = e \o f[j]}
<1>5. ASSUME NEW j \in 0..n, j > 0 => j - 1 \in T PROVE j \in T
    <2>0. j + 1 \in 1..Len(t) /\ j + 1 - 1 = j
        BY <1>1, <1>4
    <2>00. g[j + 1] = g[j] \o t[j + 1]
        BY <1>3, <2>0 DEF Joined
    <2>1. CASE j = 0
        <3>1. g[0] = <<>> /\ f[0] = <<>>
            BY <1>2, <1>3 DEF Joined
        <3>2. <<>> \o e = e /\ e \o <<>> = e
            BY WordsAre
        <3>3. g[1] = g[0] \o t[1]
            <4>1. j + 1 = 1
                BY <2>1
            <4> QED BY ONLY <2>00, <2>1, <4>1, Zenon
        <3>4. g[1] = e \o f[0]
            BY <3>1, <3>2, <3>3, <1>1
        <3>5. 0 + 1 = 1
            OBVIOUS
        <3> QED BY <2>1, <3>4, <3>5, <1>5
    <2>2. CASE j # 0
        <3>1. j \in 1..n /\ j - 1 \in 0..n /\ j > 0 /\ j - 1 + 1 = j
            BY <1>4, <2>2
        <3>2. f[j] = f[j - 1] \o s[j] /\ f[j - 1] \in Words /\ s[j] \in Words
            BY <3>1, <1>2 DEF Joined
        <3>3. g[j] = e \o f[j - 1]
            BY <3>1, <1>5
        <3>4. (e \o f[j - 1]) \o s[j] = e \o (f[j - 1] \o s[j])
            BY <3>2, WordsAssociate
        <3> QED BY <2>00, <3>1, <3>2, <3>3, <3>4, <1>1
    <2> QED BY <2>1, <2>2
<1> HIDE DEF T
<1>6. \A j \in 0..n : j \in T
    BY <1>4, <1>5, Upwards
<1>7. n \in T
    BY <1>4, <1>6
<1> QED BY <1>2, <1>3, <1>7 DEF T, t

-----------------------------------------------------------------------------
(* What be selects.                                                        *)
Items ==
    {TextB(t) : t \in Texts} \cup {SpacesB(n) : n \in Int}
    \cup {LineB(i) : i \in Positions} \cup {HardLineB(i) : i \in Positions}

LEMMA ItemWords ==
    /\ \A t \in Texts : TextB(t) \in Items
    /\ \A n \in Int : SpacesB(n) \in Items /\ WordIn(SpacesB(n)) = <<>>
    /\ \A i \in Positions : /\ LineB(i) \in Items /\ WordIn(LineB(i)) = <<>>
                            /\ HardLineB(i) \in Items /\ WordIn(HardLineB(i)) = <<>>
    /\ \A e \in Items : WordIn(e) \in Words
<1>1. /\ \A t \in Texts : TextB(t) \in Items
      /\ \A n \in Int : SpacesB(n) \in Items
      /\ \A i \in Positions : LineB(i) \in Items /\ HardLineB(i) \in Items
    BY DEF Items
<1>2. /\ \A n : WordIn(SpacesB(n)) = <<>>
      /\ \A i : WordIn(LineB(i)) = <<>> /\ WordIn(HardLineB(i)) = <<>>
    BY DEF WordIn, SpacesB, LineB, HardLineB
<1>3. ASSUME NEW e \in Items PROVE WordIn(e) \in Words
    <2>1. CASE \E t \in Texts : e = TextB(t)
        BY <2>1, WordInType
    <2>2. CASE ~(\E t \in Texts : e = TextB(t))
        <3>1. WordIn(e) = <<>>
            BY <2>2, <1>2 DEF Items
        <3> QED BY <3>1, EmptySeq DEF Words
    <2> QED BY <2>1, <2>2
<1> QED BY <1>1, <1>2, <1>3

LEMMA WordsOfMap ==
    ASSUME NEW p \in Seq(Items)
    PROVE  /\ [j \in DOMAIN p |-> WordIn(p[j])] \in Seq(Words)
           /\ Len([j \in DOMAIN p |-> WordIn(p[j])]) = Len(p)
<1>1. DOMAIN p = 1..Len(p) /\ Len(p) \in Nat
    OBVIOUS
<1>2. \A j \in 1..Len(p) : WordIn(p[j]) \in Words
    <2>1. \A j \in 1..Len(p) : p[j] \in Items
        OBVIOUS
    <2> QED BY <2>1, ItemWords
<1> QED BY <1>1, <1>2

LEMMA WordsOfType ==
    ASSUME NEW p \in Seq(Items)
    PROVE  WordsOf(p) \in Words
BY WordsOfMap, FlattenSeqType DEF WordsOf

LEMMA WordsOfEmpty == WordsOf(<<>>) = <<>>
<1>1. [j \in DOMAIN <<>> |-> WordIn(<<>>[j])] = <<>>
    OBVIOUS
<1> QED BY <1>1, FlattenSeqEmpty DEF WordsOf

LEMMA WordsOfAppend ==
    ASSUME NEW p \in Seq(Items), NEW e \in Items
    PROVE  WordsOf(Append(p, e)) = WordsOf(p) \o WordIn(e)
<1> DEFINE q == Append(p, e)
           s == [j \in DOMAIN p |-> WordIn(p[j])]
           t == [j \in DOMAIN q |-> WordIn(q[j])]
<1>1. q \in Seq(Items) /\ Len(q) = Len(p) + 1 /\ q[Len(p) + 1] = e /\ \A j \in 1..Len(p) : q[j] = p[j]
    OBVIOUS
<1>2. s \in Seq(Words) /\ Len(s) = Len(p)
    BY WordsOfMap
<1> HIDE DEF q
<1>3. t \in Seq(Words) /\ Len(t) = Len(p) + 1
    BY <1>1, WordsOfMap
<1>4. WordIn(e) \in Words
    BY ItemWords
<1>41. DOMAIN q = 1..(Len(p) + 1) /\ DOMAIN p = 1..Len(p) /\ Len(p) \in Nat
    BY <1>1
<1>5. \A j \in 1..Len(p) : t[j] = s[j]
    BY <1>1, <1>41
<1>6. t[Len(p) + 1] = WordIn(e)
    BY <1>1, <1>41
<1> HIDE DEF s, t
<1>7. t = Append(s, WordIn(e))
    BY <1>2, <1>3, <1>4, <1>5, <1>6
<1>8. FlattenSeq(t) = FlattenSeq(s) \o WordIn(e)
    BY <1>2, <1>4, <1>7, FlattenSeqAppend
<1> QED BY <1>8 DEF WordsOf, s, t, q

LEMMA PrependIs ==
    ASSUME NEW S, NEW x \in S, NEW s \in Seq(S), NEW t \in Seq(S), Len(t) = Len(s) + 1,
           t[1] = x, \A j \in 1..Len(s) : t[j + 1] = s[j]
    PROVE  t = <<x>> \o s
<1> DEFINE r == <<x>> \o s
<1>1. /\ r \in Seq(S) /\ Len(r) = Len(s) + 1 /\ Len(s) \in Nat
      /\ r[1] = x /\ \A j \in 1..Len(s) : r[j + 1] = s[j]
    OBVIOUS
<1> HIDE DEF r
<1>2. ASSUME NEW i \in 1..Len(t) PROVE t[i] = r[i]
    <2>1. CASE i = 1
        BY <1>1, <2>1
    <2>2. CASE i # 1
        <3>1. i - 1 \in 1..Len(s) /\ (i - 1) + 1 = i
            BY <1>1, <2>2
        <3> QED BY <1>1, <3>1
    <2> QED BY <2>1, <2>2
<1>3. t = r
    BY <1>1, <1>2, SeqEqual
<1> QED BY <1>3 DEF r

LEMMA WordsOfPrepend ==
    ASSUME NEW p \in Seq(Items), NEW e \in Items
    PROVE  WordsOf(<<e>> \o p) = WordIn(e) \o WordsOf(p)
<1> DEFINE q == <<e>> \o p
           s == [j \in DOMAIN p |-> WordIn(p[j])]
           t == [j \in DOMAIN q |-> WordIn(q[j])]
<1>1. q \in Seq(Items) /\ Len(q) = Len(p) + 1 /\ q[1] = e /\ \A j \in 1..Len(p) : q[j + 1] = p[j]
    OBVIOUS
<1>2. s \in Seq(Words) /\ Len(s) = Len(p)
    BY WordsOfMap
<1> HIDE DEF q
<1>3. t \in Seq(Words) /\ Len(t) = Len(p) + 1
    BY <1>1, WordsOfMap
<1>4. WordIn(e) \in Words
    BY ItemWords
<1>41. DOMAIN q = 1..(Len(p) + 1) /\ DOMAIN p = 1..Len(p) /\ Len(p) \in Nat
    BY <1>1
<1>5. \A j \in 1..Len(p) : t[j + 1] = s[j]
    BY <1>1, <1>41
<1>6. t[1] = WordIn(e)
    BY <1>1, <1>41
<1> HIDE DEF s, t
<1>60. Len(t) = Len(s) + 1 /\ \A j \in 1..Len(s) : t[j + 1] = s[j]
    BY <1>2, <1>3, <1>5
<1>7. t = <<WordIn(e)>> \o s
    BY ONLY <1>2, <1>3, <1>4, <1>6, <1>60, PrependIs
<1>8. FlattenSeq(t) = WordIn(e) \o FlattenSeq(s)
    BY <1>2, <1>4, <1>7, FlattenSeqPrepend
<1> QED BY <1>8 DEF WordsOf, s, t, q

-----------------------------------------------------------------------------
(* be is defined.                                                          *)
LayStep(w, f, p) ==
    IF p.xlist = <<>> THEN <<>>
    ELSE
      LET d == p.xlist[1].d
          i == p.xlist[1].i
          k == p.k
          z == Tail(p.xlist)
          rest(q, xlist) == f[[k |-> q, xlist |-> xlist]]
      IN  CASE d.tag \in Structure           -> rest(k, Unfold(k, i, d) \o z)
            [] d.tag = "text"                -> <<TextB(d)>> \o rest(Move(k, d.n), z)
            [] d.tag = "pad"                 -> <<SpacesB(d.n)>> \o rest(Move(k, d.n), z)
            [] d.tag \in {"line", "softbreak"} -> <<LineB(i)>> \o rest(i, z)
            [] d.tag = "hardline"            -> <<HardLineB(i)>> \o rest(i, z)
            [] OTHER                         -> better(w, k, rest(k, <<IDoc(i, d.x)>> \o z),
                                                             rest(k, <<IDoc(i, d.y)>> \o z))

(* What d itself comes to. *)
Selected(i, d) ==
    CASE d.tag = "text"                  -> <<TextB(d)>>
      [] d.tag = "pad"                   -> <<SpacesB(d.n)>>
      [] d.tag \in {"line", "softbreak"} -> <<LineB(i)>>
      [] d.tag = "hardline"              -> <<HardLineB(i)>>
      [] OTHER                           -> <<>>

LEMMA SelectedIs ==
    ASSUME AllDocuments(Documents), NEW i \in Positions, NEW d \in Documents
    PROVE  \/ Selected(i, d) = <<>> /\ SpokenBy(d) = <<>>
           \/ \E e \in Items : Selected(i, d) = <<e>> /\ SpokenBy(d) = WordIn(e)
<1>1. CASE d.tag = "text"
    <2>1. d \in Texts
        BY <1>1, DocumentShapes DEF Texts
    <2>2. TextB(d) \in Items
        BY <2>1, ItemWords
    <2> QED BY <1>1, <2>2 DEF Selected, SpokenBy
<1>2. CASE d.tag = "pad"
    <2>1. SpacesB(d.n) \in Items /\ WordIn(SpacesB(d.n)) = <<>>
        BY <1>2, DocumentShapes, ItemWords
    <2> QED BY <1>2, <2>1 DEF Selected, SpokenBy
<1>3. CASE d.tag \in {"line", "softbreak", "hardline"}
    <2>1. LineB(i) \in Items /\ HardLineB(i) \in Items /\ WordIn(LineB(i)) = <<>> /\ WordIn(HardLineB(i)) = <<>>
        BY ItemWords
    <2>2. SpokenBy(d) = <<>>
        BY <1>3 DEF SpokenBy
    <2>3. Selected(i, d) = <<LineB(i)>> \/ Selected(i, d) = <<HardLineB(i)>>
        BY <1>3 DEF Selected
    <2> QED BY <2>1, <2>2, <2>3
<1>4. CASE d.tag \notin {"text", "pad", "line", "softbreak", "hardline"}
    BY <1>4 DEF Selected, SpokenBy
<1> QED BY <1>1, <1>2, <1>3, <1>4

LEMMA BetterIs == \A w, k, x, y : better(w, k, x, y) \in {x, y}
BY DEF better

(* One cell: what d comes to, and then what one of the next cells does. *)
GoesOn(w, f, k, i, d, z) ==
    \E q \in NextOf(k, i, d, z) :
        LayStep(w, f, Cell(k, <<IDoc(i, d)>> \o z)) = Selected(i, d) \o f[q]

LEMMA LayStepIs ==
    ASSUME AllDocuments(Documents), NEW w, NEW f \in [Cells -> Seq(Items)], NEW k \in Positions,
           NEW i \in Positions, NEW d \in Documents, NEW z \in ToLayOut
    PROVE  GoesOn(w, f, k, i, d, z)
<1> USE DEF GoesOn
<1> DEFINE x == <<IDoc(i, d)>> \o z
           p == Cell(k, x)
           S == LayStep(w, f, p)
<1>1. x \in ToLayOut /\ x # <<>> /\ x[1] = IDoc(i, d) /\ Tail(x) = z
    BY ToLayOutAre
<1>2. IDoc(i, d).i = i /\ IDoc(i, d).d = d
    BY DEF IDoc
<1> HIDE DEF x
<1>3. p \in Cells /\ p.k = k /\ p.xlist = x
    BY <1>1, CellIs
<1> HIDE DEF p
<1>4. p.xlist # <<>> /\ p.xlist[1].d = d /\ p.xlist[1].i = i /\ p.k = k /\ Tail(p.xlist) = z
    BY <1>1, <1>2, <1>3
<1>5. /\ d.tag \in Structure => S = f[Cell(k, Unfold(k, i, d) \o z)]
      /\ d.tag = "text" => S = <<TextB(d)>> \o f[Cell(Move(k, d.n), z)]
      /\ d.tag = "pad"  => S = <<SpacesB(d.n)>> \o f[Cell(Move(k, d.n), z)]
      /\ d.tag \in {"line", "softbreak"} => S = <<LineB(i)>> \o f[Cell(i, z)]
      /\ d.tag = "hardline" => S = <<HardLineB(i)>> \o f[Cell(i, z)]
      /\ d.tag = "union" => S = better(w, k, f[Cell(k, <<IDoc(i, d.x)>> \o z)], f[Cell(k, <<IDoc(i, d.y)>> \o z)])
    BY <1>4 DEF LayStep, Cell, Structure
<1> HIDE DEF S
<1>6. d.tag \in Tags
    BY DocumentShapes
<1>7. NextOf(k, i, d, z) \subseteq Cells
    BY NextOfType
<1>8. \A q \in NextOf(k, i, d, z) : f[q] \in Seq(Items) /\ <<>> \o f[q] = f[q]
    <2>1. \A s \in Seq(Items) : <<>> \o s = s
        OBVIOUS
    <2> QED BY <1>7, <2>1
<1>9. CASE d.tag \in Structure
    <2>1. Cell(k, Unfold(k, i, d) \o z) \in NextOf(k, i, d, z)
        BY <1>9 DEF NextOf, Structure
    <2>2. Selected(i, d) = <<>>
        BY <1>9 DEF Selected, Structure
    <2> QED BY <1>5, <1>8, <1>9, <2>1, <2>2 DEF S, p, x
<1>10. CASE d.tag = "union"
    <2>1. /\ Cell(k, <<IDoc(i, d.x)>> \o z) \in NextOf(k, i, d, z)
          /\ Cell(k, <<IDoc(i, d.y)>> \o z) \in NextOf(k, i, d, z)
        BY <1>10 DEF NextOf, Structure
    <2>2. Selected(i, d) = <<>>
        BY <1>10 DEF Selected
    <2>3. S = f[Cell(k, <<IDoc(i, d.x)>> \o z)] \/ S = f[Cell(k, <<IDoc(i, d.y)>> \o z)]
        BY <1>5, <1>10, BetterIs
    <2> QED BY <1>8, <2>1, <2>2, <2>3 DEF S, p, x
<1>11. CASE d.tag \in {"text", "pad"}
    <2>1. Cell(Move(k, d.n), z) \in NextOf(k, i, d, z)
        BY <1>11 DEF NextOf, Structure
    <2>2. S = Selected(i, d) \o f[Cell(Move(k, d.n), z)]
        BY <1>5, <1>11 DEF Selected
    <2> QED BY <2>1, <2>2 DEF S, p, x
<1>12. CASE d.tag \in {"line", "softbreak", "hardline"}
    <2>1. Cell(i, z) \in NextOf(k, i, d, z)
        BY <1>12 DEF NextOf, Structure
    <2>2. S = Selected(i, d) \o f[Cell(i, z)]
        BY <1>5, <1>12 DEF Selected
    <2> QED BY <2>1, <2>2 DEF S, p, x
<1> QED BY <1>6, <1>9, <1>10, <1>11, <1>12 DEF Tags

LEMMA LayStepSame ==
    ASSUME AllDocuments(Documents), NEW w, NEW f, NEW g, NEW p \in Cells,
           \A q \in CellKeys(p) : f[q] = g[q]
    PROVE  LayStep(w, f, p) = LayStep(w, g, p)
<1>1. CASE p.xlist = <<>>
    BY <1>1 DEF LayStep
<1>2. CASE p.xlist # <<>>
    <2> DEFINE d == p.xlist[1].d
               i == p.xlist[1].i
               k == p.k
               z == Tail(p.xlist)
    <2>1. d \in Documents
        BY <1>2, CellsAre
    <2>2. \A q \in NextOf(k, i, d, z) : f[q] = g[q]
        BY <1>2 DEF CellKeys
    <2>3. d.tag \in Tags
        BY <2>1, DocumentShapes
    <2>4. ASSUME NEW h
          PROVE  /\ d.tag \in Structure => LayStep(w, h, p) = h[Cell(k, Unfold(k, i, d) \o z)]
                 /\ d.tag = "text" => LayStep(w, h, p) = <<TextB(d)>> \o h[Cell(Move(k, d.n), z)]
                 /\ d.tag = "pad"  => LayStep(w, h, p) = <<SpacesB(d.n)>> \o h[Cell(Move(k, d.n), z)]
                 /\ d.tag \in {"line", "softbreak"} => LayStep(w, h, p) = <<LineB(i)>> \o h[Cell(i, z)]
                 /\ d.tag = "hardline" => LayStep(w, h, p) = <<HardLineB(i)>> \o h[Cell(i, z)]
                 /\ d.tag = "union" =>
                      LayStep(w, h, p) = better(w, k, h[Cell(k, <<IDoc(i, d.x)>> \o z)],
                                                      h[Cell(k, <<IDoc(i, d.y)>> \o z)])
        BY <1>2 DEF LayStep, Cell, Structure
    <2> HIDE DEF d, i, k, z
    <2>5. CASE d.tag \in Structure
        BY <2>2, <2>4, <2>5 DEF NextOf
    <2>6. CASE d.tag \in {"text", "pad"}
        BY <2>2, <2>4, <2>6 DEF NextOf, Structure
    <2>7. CASE d.tag \in {"line", "softbreak", "hardline"}
        BY <2>2, <2>4, <2>7 DEF NextOf, Structure
    <2>8. CASE d.tag = "union"
        BY <2>2, <2>4, <2>8 DEF NextOf, Structure
    <2> QED BY <2>3, <2>5, <2>6, <2>7, <2>8 DEF Tags
<1> QED BY <1>1, <1>2

LEMMA LayStepType ==
    ASSUME AllDocuments(Documents), NEW w, NEW f \in [Cells -> Seq(Items)], NEW p \in Cells
    PROVE  LayStep(w, f, p) \in Seq(Items)
<1>1. CASE p.xlist = <<>>
    BY <1>1 DEF LayStep
<1>2. CASE p.xlist # <<>>
    <2> DEFINE d == p.xlist[1].d
               i == p.xlist[1].i
               k == p.k
               z == Tail(p.xlist)
    <2>1. k \in Positions /\ i \in Positions /\ d \in Documents /\ z \in ToLayOut /\ p = Cell(k, <<IDoc(i, d)>> \o z)
        BY <1>2, CellsAre
    <2> HIDE DEF d, i, k, z
    <2>11. GoesOn(w, f, k, i, d, z)
        BY <2>1, LayStepIs
    <2>2. PICK q \in NextOf(k, i, d, z) : LayStep(w, f, p) = Selected(i, d) \o f[q]
        BY <2>1, <2>11 DEF GoesOn
    <2>3. f[q] \in Seq(Items)
        BY <2>1, NextOfType
    <2>4. Selected(i, d) \in Seq(Items)
        <3>1. \/ Selected(i, d) = <<>> /\ SpokenBy(d) = <<>>
              \/ \E e \in Items : Selected(i, d) = <<e>> /\ SpokenBy(d) = WordIn(e)
            BY <2>1, SelectedIs
        <3>2. <<>> \in Seq(Items) /\ \A e \in Items : <<e>> \in Seq(Items)
            OBVIOUS
        <3> QED BY <3>1, <3>2
    <2> QED BY <2>2, <2>3, <2>4
<1> QED BY <1>1, <1>2

LEMMA BeIs ==
    ASSUME AllDocuments(Documents), NEW w
    PROVE  \E lay \in [Cells -> Seq(Items)] :
               /\ \A k, x : be(w, k, x) = lay[Cell(k, x)]
               /\ \A p \in Cells : lay[p] = LayStep(w, lay, p)
<1> DEFINE Body(f) == f = [p \in [k : Positions, xlist : ToLayOut] |-> LayStep(w, f, p)]
           lay == CHOOSE f : Body(f)
           R == Seq(Items)
           keys == [p \in Cells |-> CellKeys(p)]
           step == [f \in [Cells -> R] |-> [p \in Cells |-> LayStep(w, f, p)]]
<1>1. \A k, x : be(w, k, x) = lay[Cell(k, x)]
    BY Zenon DEF be, LayStep, Cell
<1>2. keys \in [Cells -> SUBSET Cells]
    <2>1. ASSUME NEW p \in Cells PROVE CellKeys(p) \subseteq Cells
        BY CellsAre, NextOfType DEF CellKeys
    <2> QED BY <2>1
<1>3. step \in [[Cells -> R] -> [Cells -> R]]
    <2>1. ASSUME NEW f \in [Cells -> R] PROVE [p \in Cells |-> LayStep(w, f, p)] \in [Cells -> R]
        BY LayStepType
    <2> QED BY <2>1
<1>4. R # {}
    BY EmptySeq
<1>5. \A f, g \in [Cells -> R] : \A p \in Cells :
          (\A q \in keys[p] : f[q] = g[q]) => step[f][p] = step[g][p]
    <2>1. ASSUME NEW f \in [Cells -> R], NEW g \in [Cells -> R], NEW p \in Cells,
                 \A q \in keys[p] : f[q] = g[q]
          PROVE  step[f][p] = step[g][p]
        <3>1. LayStep(w, f, p) = LayStep(w, g, p)
            BY <2>1, LayStepSame
        <3> QED BY <3>1
    <2> HIDE DEF keys, step, R
    <2> QED BY <2>1
<1>6. \A T \in SUBSET Cells : (\A p \in Cells : keys[p] \subseteq T => p \in T) => T = Cells
    <2>1. SUFFICES ASSUME NEW T \in SUBSET Cells, \A p \in Cells : keys[p] \subseteq T => p \in T
                   PROVE  T = Cells
        OBVIOUS
    <2>2. \A p \in Cells : CellKeys(p) \subseteq T => p \in T
        BY <2>1
    <2> QED BY <2>2, CellsInduction
<1>7. \A f \in [Cells -> R] : step[f] = [p \in Cells |-> LayStep(w, f, p)]
    OBVIOUS
<1> HIDE DEF keys, step, R
<1>8. Recursive(Cells, R, keys, step)
    BY <1>2, <1>3, <1>4, <1>5, <1>6 DEF Recursive
<1>9. \E f \in [Cells -> R] : f = step[f]
    BY <1>8, Recursion
<1>10. PICK f \in [Cells -> R] : f = [p \in Cells |-> LayStep(w, f, p)]
    BY <1>7, <1>9
<1>11. Body(f)
    BY <1>10 DEF Cells
<1> HIDE DEF Body
<1>12. Body(lay)
    BY <1>11
<1>13. lay = [p \in Cells |-> LayStep(w, lay, p)]
    BY <1>12 DEF Body, Cells
<1> HIDE DEF lay
<1>14. \A p \in Cells : lay[p] \in R
    <2> DEFINE T == {p \in Cells : lay[p] \in R}
    <2>1. ASSUME NEW p \in Cells, CellKeys(p) \subseteq T PROVE p \in T
        <3> DEFINE g == [q \in Cells |-> IF q \in T THEN lay[q] ELSE <<>>]
        <3>1. g \in [Cells -> R]
            BY EmptySeq DEF R
        <3>2. \A q \in CellKeys(p) : g[q] = lay[q]
            BY <2>1
        <3> HIDE DEF g
        <3>3. LayStep(w, g, p) = LayStep(w, lay, p)
            BY <3>2, LayStepSame
        <3>4. LayStep(w, g, p) \in R
            BY <3>1, LayStepType DEF R
        <3> QED BY <3>3, <3>4, <1>13
    <2>2. T \in SUBSET Cells
        OBVIOUS
    <2> HIDE DEF T
    <2>3. T = Cells
        BY <2>1, <2>2, CellsInduction
    <2> QED BY <2>3 DEF T
<1>15. lay \in [Cells -> R]
    BY <1>13, <1>14
<1> QED BY <1>1, <1>13, <1>15 DEF R

-----------------------------------------------------------------------------
(* The best layout of a document has the words that the document tells.    *)
Means(d, u) == \A G : Sound(G) /\ SoundOuter(G) => Tells(G, d, u)

LEMMA SelectedFollows ==
    ASSUME AllDocuments(Documents), NEW i \in Positions, NEW d \in Documents,
           NEW s \in Seq(Items)
    PROVE  WordsOf(Selected(i, d) \o s) = SpokenBy(d) \o WordsOf(s)
<1>1. \/ Selected(i, d) = <<>> /\ SpokenBy(d) = <<>>
      \/ \E e \in Items : Selected(i, d) = <<e>> /\ SpokenBy(d) = WordIn(e)
    BY SelectedIs
<1>2. CASE Selected(i, d) = <<>> /\ SpokenBy(d) = <<>>
    <2>1. <<>> \o s = s
        OBVIOUS
    <2>2. <<>> \o WordsOf(s) = WordsOf(s)
        BY WordsOfType, WordsAre
    <2> QED BY <1>2, <2>1, <2>2
<1>3. CASE \E e \in Items : Selected(i, d) = <<e>> /\ SpokenBy(d) = WordIn(e)
    BY <1>3, WordsOfPrepend
<1> QED BY <1>1, <1>2, <1>3

SelectedWords(lay) == {x \in Cells \X Words : WordsOf(lay[x[1]]) = x[2]}

LEMMA SelectedClosed ==
    ASSUME AllDocuments(Documents), NEW w, NEW lay \in [Cells -> Seq(Items)],
           \A p \in Cells : lay[p] = LayStep(w, lay, p)
    PROVE  Closed(SelectedWords(lay))
<1> DEFINE Q == SelectedWords(lay)
<1>0. \A p, v : <<p, v>> \in Q <=> p \in Cells /\ v \in Words /\ WordsOf(lay[p]) = v
    BY DEF SelectedWords
<1> HIDE DEF Q
<1>1. ASSUME NEW k \in Positions PROVE <<Cell(k, <<>>), <<>> >> \in Q
    <2>1. <<>> \in ToLayOut /\ <<>> \in Words
        BY EmptySeq DEF ToLayOut, Words
    <2>2. Cell(k, <<>>) \in Cells /\ Cell(k, <<>>).xlist = <<>>
        BY <2>1, CellIs
    <2>3. lay[Cell(k, <<>>)] = <<>>
        BY <2>2 DEF LayStep
    <2> QED BY <2>1, <2>2, <2>3, <1>0, WordsOfEmpty
<1>2. ASSUME NEW k \in Positions, NEW i \in Positions, NEW d \in Documents, NEW z \in ToLayOut,
             NEW v \in Words, \A q \in NextOf(k, i, d, z) : <<q, v>> \in Q
      PROVE  <<Cell(k, <<IDoc(i, d)>> \o z), SpokenBy(d) \o v>> \in Q
    <2> DEFINE p == Cell(k, <<IDoc(i, d)>> \o z)
    <2>1. p \in Cells
        BY ToLayOutAre, CellIs
    <2>2. GoesOn(w, lay, k, i, d, z)
        BY LayStepIs
    <2>3. PICK q \in NextOf(k, i, d, z) : LayStep(w, lay, p) = Selected(i, d) \o lay[q]
        BY <2>2 DEF GoesOn
    <2> HIDE DEF p
    <2>4. lay[p] = Selected(i, d) \o lay[q]
        BY <2>1, <2>3
    <2>5. q \in Cells /\ WordsOf(lay[q]) = v
        BY <1>2, <1>0
    <2>6. lay[q] \in Seq(Items) /\ lay[p] \in Seq(Items)
        BY <2>1, <2>5
    <2>7. WordsOf(lay[p]) = SpokenBy(d) \o v
        BY <2>4, <2>5, <2>6, SelectedFollows
    <2>8. WordsOf(lay[p]) \in Words
        BY <2>6, WordsOfType
    <2> QED BY <2>1, <2>7, <2>8, <1>0 DEF p
<1> QED BY <1>1, <1>2 DEF Closed, Q

LEMMA BestTells ==
    ASSUME AllDocuments(Documents), NEW w, NEW d, NEW u, Means(d, u)
    PROVE  best(w, d) \in Seq(Items) /\ WordsOf(best(w, d)) = u
<1>1. PICK lay \in [Cells -> Seq(Items)] :
          /\ \A k, x : be(w, k, x) = lay[Cell(k, x)]
          /\ \A p \in Cells : lay[p] = LayStep(w, lay, p)
    BY BeIs
<1> DEFINE Q == SelectedWords(lay)
           x == <<IDoc(Origin, d)>>
<1>2. Closed(Q)
    BY <1>1, SelectedClosed
<1> HIDE DEF Q
<1>3. Sound(FineSet(Q)) /\ SoundOuter(FineSet(Q))
    BY <1>2, FineSound, FineOuter
<1>4. Tells(FineSet(Q), d, u)
    BY <1>3 DEF Means
<1>5. d \in Documents /\ u \in Words /\ SaysDoc(Q, d, u)
    BY <1>4, FineSetIs DEF Tells, Fine, Keeps
<1>6. Says(Q, <<>>, <<>>)
    BY <1>2 DEF Closed, Says
<1>7. Origin \in Positions /\ <<>> \in ToLayOut /\ <<>> \in Words
    BY OriginType, EmptySeq DEF ToLayOut, Words
<1>8. Says(Q, x \o <<>>, u \o <<>>)
    BY <1>5, <1>6, <1>7 DEF SaysDoc
<1>9. x \in ToLayOut
    BY <1>5, <1>7, ToLayOutAre
<1>10. x \o <<>> = x /\ u \o <<>> = u
    BY <1>5, <1>9, ConcatEmptySeq, WordsAre DEF ToLayOut
<1>11. best(w, d) = lay[Cell(Origin, x)]
    BY <1>1 DEF best
<1>12. Cell(Origin, x) \in Cells
    BY <1>7, <1>9, CellIs
<1>13. <<Cell(Origin, x), u>> \in Q
    BY <1>7, <1>8, <1>10 DEF Says
<1>14. WordsOf(lay[Cell(Origin, x)]) = u
    BY <1>13 DEF Q, SelectedWords
<1> QED BY <1>11, <1>12, <1>14

-----------------------------------------------------------------------------
(* What is written: the lines of a layout.                                 *)
Lines == [tabs : Int16s, pieces : Seq(Items)]

LEMMA NewLineType ==
    ASSUME NEW i \in Positions
    PROVE  NewLine(i) \in Lines /\ WordsOf(NewLine(i).pieces) = <<>>
<1>1. i.tabs \in Int16s /\ i.spaces \in Int
    BY PositionsAre DEF Positions
<1>2. <<>> \in Seq(Items)
    BY EmptySeq
<1>3. CASE i.spaces > 0
    <2>1. SpacesB(i.spaces) \in Items /\ WordIn(SpacesB(i.spaces)) = <<>>
        BY <1>1, ItemWords
    <2> DEFINE e == SpacesB(i.spaces)
    <2>2. NewLine(i).pieces = <<e>> /\ NewLine(i) = [tabs |-> i.tabs, pieces |-> <<e>>]
        BY <1>3 DEF NewLine
    <2> HIDE DEF e
    <2>3. <<e>> \in Seq(Items) /\ <<e>> = <<e>> \o <<>>
        BY <2>1 DEF e
    <2>4. WordsOf(<<e>> \o <<>>) = WordIn(e) \o WordsOf(<<>>)
        BY <1>2, <2>1, WordsOfPrepend DEF e
    <2>5. <<>> \o <<>> = <<>>
        BY ConcatEmptySeq, <1>2
    <2> QED BY <1>1, <2>1, <2>2, <2>3, <2>4, <2>5, WordsOfEmpty DEF Lines, e
<1>4. CASE ~(i.spaces > 0)
    <2>1. NewLine(i) = [tabs |-> i.tabs, pieces |-> <<>>]
        BY <1>4 DEF NewLine
    <2> QED BY <1>1, <1>2, <2>1, WordsOfEmpty DEF Lines
<1> QED BY <1>3, <1>4

LEMMA WrittenMap ==
    ASSUME NEW lines \in Seq(Lines)
    PROVE  /\ [j \in DOMAIN lines |-> WordsOf(lines[j].pieces)] \in Seq(Words)
           /\ Len([j \in DOMAIN lines |-> WordsOf(lines[j].pieces)]) = Len(lines)
<1>1. DOMAIN lines = 1..Len(lines) /\ Len(lines) \in Nat
    OBVIOUS
<1>2. \A j \in 1..Len(lines) : WordsOf(lines[j].pieces) \in Words
    <2>1. \A j \in 1..Len(lines) : lines[j] \in Lines
        OBVIOUS
    <2> QED BY <2>1, WordsOfType DEF Lines
<1> QED BY <1>1, <1>2

LEMMA WrittenNewLine ==
    ASSUME NEW lines \in Seq(Lines), NEW i \in Positions
    PROVE  /\ Append(lines, NewLine(i)) \in Seq(Lines) \ {<<>>}
           /\ Written(Append(lines, NewLine(i))) = Written(lines)
<1> DEFINE q == Append(lines, NewLine(i))
           s == [j \in DOMAIN lines |-> WordsOf(lines[j].pieces)]
           t == [j \in DOMAIN q |-> WordsOf(q[j].pieces)]
<1>0. NewLine(i) \in Lines /\ WordsOf(NewLine(i).pieces) = <<>>
    BY NewLineType
<1>1. /\ q \in Seq(Lines) /\ Len(q) = Len(lines) + 1 /\ q[Len(lines) + 1] = NewLine(i)
      /\ q # <<>>
      /\ \A j \in 1..Len(lines) : q[j] = lines[j]
    BY <1>0
<1>2. s \in Seq(Words) /\ Len(s) = Len(lines)
    BY WrittenMap
<1> HIDE DEF q
<1>3. t \in Seq(Words) /\ Len(t) = Len(lines) + 1
    BY <1>1, WrittenMap
<1>4. DOMAIN q = 1..(Len(lines) + 1) /\ DOMAIN lines = 1..Len(lines) /\ Len(lines) \in Nat
    BY <1>1
<1>5. \A j \in 1..Len(lines) : t[j] = s[j]
    BY <1>1, <1>4
<1>6. t[Len(lines) + 1] = <<>>
    BY <1>0, <1>1, <1>4
<1> HIDE DEF s, t
<1>60. <<>> \in Words
    BY EmptySeq DEF Words
<1>7. t = Append(s, <<>>)
    BY <1>2, <1>3, <1>5, <1>6, <1>60
<1>8. FlattenSeq(t) = FlattenSeq(s) \o <<>>
    BY <1>2, <1>60, <1>7, FlattenSeqAppend
<1>9. FlattenSeq(s) \o <<>> = FlattenSeq(s)
    BY <1>2, FlattenSeqType, WordsAre
<1> QED BY <1>1, <1>8, <1>9 DEF Written, s, t, q

LEMMA FlattenSeqExtend ==
    ASSUME NEW s \in Seq(Words), NEW t \in Seq(Words), NEW e \in Words,
           s # <<>>, Len(t) = Len(s),
           \A j \in 1..(Len(s) - 1) : t[j] = s[j],
           t[Len(s)] = s[Len(s)] \o e
    PROVE  FlattenSeq(t) = FlattenSeq(s) \o e
<1> DEFINE n == Len(s)
<1>1. n \in Nat /\ n >= 1 /\ n \in 1..n /\ n - 1 \in 0..n /\ s[n] \in Words
    BY EmptySeq
<1>2. PICK f : Joined(s, f) /\ FlattenSeq(s) = f[n]
    BY FlattenSeqIs
<1>3. PICK g : Joined(t, g) /\ FlattenSeq(t) = g[n]
    BY FlattenSeqIs
<1> DEFINE T == {j \in 0..(n - 1) : g[j] = f[j]}
<1>4. ASSUME NEW j \in 0..(n - 1), j > 0 => j - 1 \in T PROVE j \in T
    <2>1. CASE j = 0
        BY <2>1, <1>1, <1>2, <1>3, <1>4 DEF Joined
    <2>2. CASE j # 0
        <3>1. j \in 1..n /\ j \in 1..(n - 1) /\ j > 0
            BY <1>1, <2>2
        <3>2. f[j] = f[j - 1] \o s[j] /\ g[j] = g[j - 1] \o t[j]
            BY <3>1, <1>2, <1>3 DEF Joined
        <3> QED BY <3>1, <3>2, <1>4
    <2> QED BY <2>1, <2>2
<1> HIDE DEF T
<1>5. \A j \in 0..(n - 1) : j \in T
    <2>1. n - 1 \in Nat
        BY <1>1
    <2> QED BY <2>1, <1>4, Upwards
<1>6. n - 1 \in T
    BY <1>1, <1>5
<1>7. g[n - 1] = f[n - 1] /\ f[n - 1] \in Words
    BY <1>1, <1>2, <1>6 DEF T, Joined
<1>8. f[n] = f[n - 1] \o s[n] /\ g[n] = g[n - 1] \o t[n]
    BY <1>1, <1>2, <1>3 DEF Joined
<1>9. (f[n - 1] \o s[n]) \o e = f[n - 1] \o (s[n] \o e)
    BY <1>1, <1>7, WordsAssociate
<1> QED BY <1>2, <1>3, <1>7, <1>8, <1>9

LEMMA WrittenPiece ==
    ASSUME NEW lines \in Seq(Lines), lines # <<>>, NEW p \in Items
    PROVE  /\ AddPiece(lines, p) \in Seq(Lines) \ {<<>>}
           /\ Written(AddPiece(lines, p)) = Written(lines) \o WordIn(p)
<1> DEFINE n == Len(lines)
           ln == [lines[n] EXCEPT !.pieces = Append(@, p)]
           q == [lines EXCEPT ![n] = ln]
           s == [j \in DOMAIN lines |-> WordsOf(lines[j].pieces)]
           t == [j \in DOMAIN q |-> WordsOf(q[j].pieces)]
<1>0. n \in Nat /\ n >= 1 /\ n \in 1..n /\ lines[n] \in Lines /\ DOMAIN lines = 1..n
    BY EmptySeq
<1>1. ln \in Lines /\ ln.pieces = Append(lines[n].pieces, p) /\ lines[n].pieces \in Seq(Items)
    <2>1. ASSUME NEW m \in Lines, NEW m2, m2 = [m EXCEPT !.pieces = Append(@, p)]
          PROVE  m2 \in Lines /\ m2.pieces = Append(m.pieces, p) /\ m.pieces \in Seq(Items)
        <3>1. m.pieces \in Seq(Items)
            BY DEF Lines
        <3>2. Append(m.pieces, p) \in Seq(Items)
            BY <3>1
        <3> QED BY <2>1, <3>1, <3>2 DEF Lines
    <2> HIDE DEF n
    <2> QED BY <1>0, <2>1
<1> HIDE DEF ln
<1>2. /\ q \in Seq(Lines) /\ Len(q) = n /\ q[n] = ln /\ q # <<>> /\ DOMAIN q = 1..n
      /\ \A j \in 1..(n - 1) : q[j] = lines[j]
    <2>1. lines \in [1..n -> Lines]
        BY <1>0
    <2>2. q \in [1..n -> Lines] /\ q[n] = ln /\ \A j \in 1..(n - 1) : q[j] = lines[j]
        <3>1. n \in 1..n /\ ln \in Lines /\ \A j \in 1..(n - 1) : j \in 1..n /\ j # n
            <4>1. \A m \in Nat : \A j \in 1..(m - 1) : j \in 1..m /\ j # m
                OBVIOUS
            <4> HIDE DEF n
            <4> QED BY <1>0, <1>1, <4>1
        <3> HIDE DEF n
        <3> QED BY <2>1, <3>1
    <2> HIDE DEF q, n
    <2>3. q \in Seq(Lines) /\ Len(q) = n /\ DOMAIN q = 1..n
        BY <1>0, <2>2
    <2> QED BY <1>0, <2>2, <2>3
<1>3. AddPiece(lines, p) = q
    BY <1>0 DEF AddPiece, ln
<1>4. s \in Seq(Words) /\ Len(s) = n
    BY WrittenMap
<1> HIDE DEF q
<1>5. t \in Seq(Words) /\ Len(t) = n
    BY <1>2, WrittenMap
<1>6. \A j \in 1..(n - 1) : t[j] = s[j]
    BY <1>0, <1>2
<1>7. t[n] = s[n] \o WordIn(p)
    <2>1. WordsOf(ln.pieces) = WordsOf(lines[n].pieces) \o WordIn(p)
        BY <1>1, WordsOfAppend
    <2>2. t[n] = WordsOf(ln.pieces) /\ s[n] = WordsOf(lines[n].pieces)
        BY <1>0, <1>2
    <2> QED BY <2>1, <2>2
<1>8. WordIn(p) \in Words
    BY ItemWords
<1>9. s # <<>>
    BY <1>0, <1>4
<1> HIDE DEF s, t, n
<1>10. FlattenSeq(t) = FlattenSeq(s) \o WordIn(p)
    BY <1>4, <1>5, <1>6, <1>7, <1>8, <1>9, FlattenSeqExtend
<1> QED BY <1>2, <1>3, <1>10 DEF Written, s, t, q

LEMMA ItemKinds ==
    ASSUME NEW e \in Items
    PROVE  /\ e.tag \in {"lineB", "hardlineB"} => e.i \in Positions /\ WordIn(e) = <<>>
           /\ e.tag = "spacesB" => WordIn(e) = <<>>
<1>1. e.tag \in {"lineB", "hardlineB"} => e.i \in Positions
    BY DEF Items, TextB, SpacesB, LineB, HardLineB
<1> QED BY <1>1 DEF WordIn

(* One piece: a line more, a piece more, or nothing. *)
LineStep(items, f, n) ==
    IF n = 0 THEN <<NewLine(Origin)>>
    ELSE LET x == items[n]
         IN  CASE x.tag \in {"lineB", "hardlineB"}  -> Append(f[n - 1], NewLine(x.i))
               [] x.tag = "spacesB" /\ x.n <= 0     -> f[n - 1]
               [] OTHER                             -> AddPiece(f[n - 1], x)

Some == Seq(Lines) \ {<<>>}

LEMMA FirstLine == <<NewLine(Origin)>> \in Some /\ Written(<<NewLine(Origin)>>) = <<>>
<1>1. Append(<<>>, NewLine(Origin)) = <<NewLine(Origin)>>
    OBVIOUS
<1>2. <<>> \in Seq(Lines)
    BY EmptySeq
<1>3. /\ Append(<<>>, NewLine(Origin)) \in Some
      /\ Written(Append(<<>>, NewLine(Origin))) = Written(<<>>)
    BY <1>2, OriginType, WrittenNewLine DEF Some
<1>4. Written(<<>>) = <<>>
    <2>1. [j \in DOMAIN <<>> |-> WordsOf(<<>>[j].pieces)] = <<>>
        OBVIOUS
    <2> QED BY <2>1, FlattenSeqEmpty DEF Written
<1> QED BY <1>1, <1>3, <1>4

LEMMA LineStepIs ==
    ASSUME NEW items \in Seq(Items), NEW f, NEW n \in 1..Len(items), f[n - 1] \in Some
    PROVE  /\ LineStep(items, f, n) \in Some
           /\ Written(LineStep(items, f, n)) = Written(f[n - 1]) \o WordIn(items[n])
<1> DEFINE x == items[n]
           l == f[n - 1]
           m == LineStep(items, f, n)
<1>1. x \in Items /\ n # 0
    OBVIOUS
<1>2. \/ x.tag \in {"lineB", "hardlineB"} /\ m = Append(l, NewLine(x.i))
      \/ x.tag = "spacesB" /\ m = l
      \/ m = AddPiece(l, x)
    BY <1>1 DEF LineStep
<1>3. l \in Seq(Lines) /\ l # <<>>
    BY DEF Some
<1> HIDE DEF x, l, m
<1>4. Written(l) \in Words /\ Written(l) \o <<>> = Written(l)
    <2>1. Written(l) \in Words
        BY <1>3, WrittenMap, FlattenSeqType DEF Written
    <2> QED BY <2>1, WordsAre
<1>5. CASE x.tag \in {"lineB", "hardlineB"} /\ m = Append(l, NewLine(x.i))
    <2>1. x.i \in Positions /\ WordIn(x) = <<>>
        BY <1>1, <1>5, ItemKinds
    <2>2. Append(l, NewLine(x.i)) \in Some /\ Written(Append(l, NewLine(x.i))) = Written(l)
        BY <1>3, <2>1, WrittenNewLine DEF Some
    <2> QED BY <1>4, <1>5, <2>1, <2>2 DEF x, l, m
<1>6. CASE x.tag = "spacesB" /\ m = l
    <2>1. WordIn(x) = <<>>
        BY <1>1, <1>6, ItemKinds
    <2> QED BY <1>3, <1>4, <1>6, <2>1 DEF x, l, m, Some
<1>7. CASE m = AddPiece(l, x)
    <2>1. AddPiece(l, x) \in Some /\ Written(AddPiece(l, x)) = Written(l) \o WordIn(x)
        BY <1>1, <1>3, WrittenPiece DEF Some
    <2> QED BY <1>7, <2>1 DEF x, l, m
<1> QED BY <1>2, <1>5, <1>6, <1>7

LEMMA LineStepSame ==
    ASSUME NEW items \in Seq(Items), NEW f, NEW g, NEW n \in 0..Len(items),
           n > 0 => f[n - 1] = g[n - 1]
    PROVE  LineStep(items, f, n) = LineStep(items, g, n)
<1>1. CASE n = 0
    BY <1>1 DEF LineStep
<1>2. CASE n # 0
    <2>1. f[n - 1] = g[n - 1]
        BY <1>2
    <2> DEFINE x == items[n]
               F == f[n - 1]
               H == g[n - 1]
    <2>2. LineStep(items, f, n) =
              CASE x.tag \in {"lineB", "hardlineB"}  -> Append(F, NewLine(x.i))
                [] x.tag = "spacesB" /\ x.n <= 0     -> F
                [] OTHER                             -> AddPiece(F, x)
        BY <1>2, Zenon DEF LineStep
    <2>3. LineStep(items, g, n) =
              CASE x.tag \in {"lineB", "hardlineB"}  -> Append(H, NewLine(x.i))
                [] x.tag = "spacesB" /\ x.n <= 0     -> H
                [] OTHER                             -> AddPiece(H, x)
        BY <1>2, Zenon DEF LineStep
    <2>4. F = H
        BY <2>1
    <2> HIDE DEF x, F, H
    <2> QED BY <2>2, <2>3, <2>4, Zenon
<1> QED BY <1>1, <1>2

LEMMA LayoutIs ==
    ASSUME NEW items \in Seq(Items)
    PROVE  \E lines \in [0..Len(items) -> Some] :
               /\ layout(items) = lines[Len(items)]
               /\ \A n \in 0..Len(items) : lines[n] = LineStep(items, lines, n)
<1> DEFINE N == Len(items)
           S == 0..N
           Body(f) == f = [n \in 0..Len(items) |-> LineStep(items, f, n)]
           lines == CHOOSE f : Body(f)
           step == [f \in [S -> Some] |-> [n \in S |-> LineStep(items, f, n)]]
<1>0. N \in Nat /\ 0 \in Nat
    OBVIOUS
<1>1. layout(items) = lines[N]
    BY Zenon DEF layout, LineStep
<1>2. ASSUME NEW f, NEW n \in S, n > 0 => f[n - 1] \in Some PROVE LineStep(items, f, n) \in Some
    <2>1. CASE n = 0
        BY <2>1, FirstLine DEF LineStep
    <2>2. CASE n # 0
        <3>1. n \in 1..N /\ n > 0
            BY <1>0, <2>2
        <3> QED BY <3>1, <1>2, LineStepIs
    <2> QED BY <2>1, <2>2
<1>3. step \in [[S -> Some] -> [S -> Some]]
    <2>1. ASSUME NEW f \in [S -> Some] PROVE [n \in S |-> LineStep(items, f, n)] \in [S -> Some]
        <3>1. ASSUME NEW n \in S PROVE LineStep(items, f, n) \in Some
            <4>1. n > 0 => n - 1 \in S
                BY <1>0
            <4>2. n > 0 => f[n - 1] \in Some
                BY <4>1
            <4> HIDE DEF S
            <4> QED BY <4>2, <1>2
        <3> QED BY <3>1
    <2> QED BY <2>1
<1>4. \A f, g \in [S -> Some] : \A n \in S :
          (n > 0 => f[n - 1] = g[n - 1]) => step[f][n] = step[g][n]
    <2>1. \A f \in [S -> Some] : \A n \in S : step[f][n] = LineStep(items, f, n)
        OBVIOUS
    <2> HIDE DEF step
    <2> QED BY <2>1, LineStepSame
<1>5. Some # {}
    BY FirstLine
<1>6. \A f \in [S -> Some] : step[f] = [n \in S |-> LineStep(items, f, n)]
    OBVIOUS
<1> HIDE DEF step
<1>7. StepsOn(0, N, Some, step)
    BY <1>0, <1>3, <1>4, <1>5 DEF StepsOn
<1>8. \E f \in [S -> Some] : f = step[f]
    <2> HIDE DEF N
    <2> QED BY <1>7, FromPrevious
<1>9. \E f : Body(f)
    <2>1. PICK f \in [S -> Some] : f = step[f]
        BY <1>8
    <2>2. f = [n \in S |-> LineStep(items, f, n)]
        BY <1>6, <2>1
    <2>3. Body(f)
        BY <2>2
    <2> QED BY <2>3
<1> HIDE DEF Body
<1>10. Body(lines)
    BY <1>9
<1>11. lines = [n \in S |-> LineStep(items, lines, n)]
    BY <1>10 DEF Body
<1> HIDE DEF lines
<1>12. \A n \in S : lines[n] \in Some
    <2> DEFINE T == {n \in S : lines[n] \in Some}
    <2>1. ASSUME NEW n \in 0..N, n > 0 => n - 1 \in T PROVE n \in T
        <3>1. LineStep(items, lines, n) \in Some
            BY <2>1, <1>2
        <3> QED BY <3>1, <1>11
    <2> HIDE DEF T
    <2>2. \A n \in 0..N : n \in T
        BY <2>1, <1>0, Upwards
    <2> QED BY <2>2 DEF T
<1>13. lines \in [S -> Some]
    BY <1>11, <1>12
<1>14. \A n \in S : lines[n] = LineStep(items, lines, n)
    BY <1>11
<1> QED BY <1>1, <1>13, <1>14

LEMMA LayoutWrites ==
    ASSUME NEW items \in Seq(Items)
    PROVE  layout(items) \in Some /\ Written(layout(items)) = WordsOf(items)
<1> DEFINE N == Len(items)
           s == [j \in DOMAIN items |-> WordIn(items[j])]
<1>1. PICK lines \in [0..N -> Some] :
          /\ layout(items) = lines[N]
          /\ \A n \in 0..N : lines[n] = LineStep(items, lines, n)
    BY LayoutIs
<1>2. s \in Seq(Words) /\ Len(s) = N
    BY WordsOfMap
<1>3. N \in Nat /\ N \in 0..N /\ \A n \in 1..N : s[n] = WordIn(items[n])
    OBVIOUS
<1> HIDE DEF s
<1>4. PICK f : Joined(s, f) /\ FlattenSeq(s) = f[N]
    BY <1>2, FlattenSeqIs
<1> DEFINE T == {n \in 0..N : Written(lines[n]) = f[n]}
<1>5. ASSUME NEW n \in 0..N, n > 0 => n - 1 \in T PROVE n \in T
    <2>1. CASE n = 0
        <3>1. lines[0] = <<NewLine(Origin)>>
            BY <1>1, <2>1 DEF LineStep
        <3> QED BY <2>1, <3>1, <1>4, <1>5, FirstLine DEF Joined
    <2>2. CASE n # 0
        <3>1. n \in 1..N /\ n > 0 /\ n - 1 \in 0..N
            BY <1>3, <2>2
        <3>2. f[n] = f[n - 1] \o s[n]
            BY <1>2, <1>4, <3>1 DEF Joined
        <3>3. lines[n - 1] \in Some
            BY <1>1, <3>1
        <3>4. Written(LineStep(items, lines, n)) = Written(lines[n - 1]) \o WordIn(items[n])
            BY <3>1, <3>3, LineStepIs
        <3>5. Written(lines[n - 1]) = f[n - 1]
            BY <3>1, <1>5
        <3> QED BY <1>1, <1>3, <1>5, <3>1, <3>2, <3>4, <3>5
    <2> QED BY <2>1, <2>2
<1> HIDE DEF T
<1>6. \A n \in 0..N : n \in T
    BY <1>3, <1>5, Upwards
<1>7. N \in T
    BY <1>3, <1>6
<1>8. Written(layout(items)) = FlattenSeq(s)
    BY <1>1, <1>4, <1>7 DEF T
<1>9. layout(items) \in Some
    BY <1>1, <1>3
<1> QED BY <1>8, <1>9 DEF WordsOf, s

LEMMA PrettyWrites ==
    ASSUME AllDocuments(Documents), NEW d, NEW u, Means(d, u), NEW n
    PROVE  Written(Pretty(d, n)) = u
BY BestTells, LayoutWrites DEF Pretty

-----------------------------------------------------------------------------
(* What the client is given by the functions of util.go.                   *)
LEMMA GroupTells ==
    ASSUME AllDocuments(Documents), NEW G, Sound(G), NEW d, NEW u, Tells(G, d, u)
    PROVE  Tells(G, Group(d), u)
BY Made1

LEMMA NestUnderTells ==
    ASSUME AllDocuments(Documents), NEW G, Sound(G), NEW a, NEW u, NEW b, NEW v,
           Tells(G, a, u), Tells(G, b, v)
    PROVE  Tells(G, NestUnder(a, b), u \o v)
<1>1. Tells(G, Group(b), v)
    BY GroupTells
<1>2. Tells(G, Concat(Line, Group(b)), v)
    BY <1>1, Simple, AfterSilence
<1>3. Tells(G, NestT(Concat(Line, Group(b))), v)
    BY <1>2, Made1
<1>4. Tells(G, Concat(a, NestT(Concat(Line, Group(b)))), u \o v)
    BY <1>3, Made2
<1> QED BY <1>4, GroupTells DEF NestUnder

LEMMA AlignUnderTells ==
    ASSUME AllDocuments(Documents), NEW G, Sound(G), NEW a, NEW u, NEW b, NEW v,
           Tells(G, a, u), Tells(G, b, v)
    PROVE  Tells(G, AlignUnder(a, b), u \o v)
<1> DEFINE g == Group(b)
<1>1. Tells(G, g, v)
    BY GroupTells
<1> HIDE DEF g
<1>2. Tells(G, Concat(Line, g), v)
    BY <1>1, Simple, AfterSilence
<1>3. Tells(G, NestT(Concat(Line, g)), v) /\ Tells(G, Align(g), v)
    BY <1>1, <1>2, Made1
<1>4. Tells(G, Concat(a, NestT(Concat(Line, g))), u \o v)
    BY <1>3, Made2
<1>5. Tells(G, ConcatSpace(a, Align(g)), u \o v)
    BY <1>3, ConcatSpaceTells
<1>6. Tells(G, Union(ConcatSpace(a, Align(g)), Concat(a, NestT(Concat(Line, g)))), u \o v)
    BY <1>4, <1>5, Made1
<1> QED BY <1>6, GroupTells DEF AlignUnder, g

LEMMA FoldOfTwo ==
    ASSUME AllDocuments(Documents), NEW G, Sound(G), NEW a, NEW u, NEW b, NEW v,
           Tells(G, a, u), Tells(G, b, v), NEW between, Tells(G, between, <<>>)
    PROVE  Tells(G, Fold(between, <<a, b>>), u \o v)
<1> DEFINE ds == <<a, b>>
           W == <<u \o v, v, <<>> >>
<1>1. a \in Documents /\ b \in Documents /\ u \in Words /\ v \in Words
    BY DEF Tells
<1>2. ds \in Seq(Documents) /\ Len(ds) = 2 /\ ds[1] = a /\ ds[2] = b
    BY <1>1
<1>3. W[1] = u \o v /\ W[2] = v /\ W[3] = <<>>
    OBVIOUS
<1>4. v \o <<>> = v
    BY <1>1, WordsAre
<1> HIDE DEF ds, W
<1>5. /\ Tells(G, ds[1], u) /\ W[1] = u \o W[2]
      /\ Tells(G, ds[2], v) /\ W[2] = v \o W[3]
    BY <1>2, <1>3, <1>4
<1>50. \A j \in 1..2 : \E x : Tells(G, ds[j], x) /\ W[j] = x \o W[j + 1]
    <2>1. TAKE j \in 1..2
    <2>2. (j = 1 /\ j + 1 = 2) \/ (j = 2 /\ j + 1 = 3)
        OBVIOUS
    <2> QED BY <1>5, <2>2, Zenon
<1>51. W[Len(ds) + 1] = <<>>
    BY <1>2, <1>3
<1>6. Telling(G, ds, W)
    BY ONLY <1>2, <1>50, <1>51, Zenon DEF Telling
<1>7. Tells(G, Fold(between, ds), W[1])
    BY <1>2, <1>6, FoldTells
<1> QED BY <1>3, <1>7 DEF ds

LEMMA StackTells ==
    ASSUME AllDocuments(Documents), NEW G, Sound(G), NEW a, NEW u, NEW b, NEW v,
           Tells(G, a, u), Tells(G, b, v)
    PROVE  Tells(G, Stack(<<a, b>>), u \o v) /\ Tells(G, Fillwords(<<a, b>>), u \o v)
<1>1. Tells(G, Line, <<>>) /\ Tells(G, textSpace, <<>>)
    BY Simple
<1>2. Tells(G, Union(textSpace, Line), <<>>)
    BY <1>1, Made1
<1> QED BY <1>1, <1>2, FoldOfTwo DEF Stack, Fillwords

LEMMA BracketTells ==
    ASSUME AllDocuments(Documents), NEW G, Sound(G), NEW l, NEW lu, NEW d, NEW u, NEW r, NEW ru,
           Tells(G, l, lu), Tells(G, d, u), Tells(G, r, ru)
    PROVE  Tells(G, BracketDoc(l, d, r), (lu \o u) \o ru)
<1> DEFINE nd == NestT(Concat(SoftBreak, d))
           ds == <<l, nd, SoftBreak, r>>
           W == <<lu \o (u \o ru), u \o ru, ru, ru, <<>> >>
<1>1. Tells(G, SoftBreak, <<>>) /\ Tells(G, Nil, <<>>)
    BY Simple
<1>2. Tells(G, Concat(SoftBreak, d), u)
    BY <1>1, AfterSilence
<1>3. Tells(G, nd, u)
    BY <1>2, Made1
<1> HIDE DEF nd
<1>4. l \in Documents /\ nd \in Documents /\ SoftBreak \in Documents /\ r \in Documents
      /\ lu \in Words /\ u \in Words /\ ru \in Words
    BY <1>1, <1>3 DEF Tells
<1>5. ds \in Seq(Documents) /\ Len(ds) = 4 /\ ds[1] = l /\ ds[2] = nd /\ ds[3] = SoftBreak /\ ds[4] = r
    BY <1>4
<1>6. W[1] = lu \o (u \o ru) /\ W[2] = u \o ru /\ W[3] = ru /\ W[4] = ru /\ W[5] = <<>>
    OBVIOUS
<1>7. ru \o <<>> = ru /\ <<>> \o ru = ru
    BY <1>4, WordsAre
<1> HIDE DEF ds, W
<1>71. /\ Tells(G, ds[1], lu) /\ W[1] = lu \o W[2]
       /\ Tells(G, ds[2], u) /\ W[2] = u \o W[3]
       /\ Tells(G, ds[3], <<>>) /\ W[3] = <<>> \o W[4]
       /\ Tells(G, ds[4], ru) /\ W[4] = ru \o W[5]
    BY <1>1, <1>3, <1>5, <1>6, <1>7
<1>8. \A j \in 1..4 : \E x : Tells(G, ds[j], x) /\ W[j] = x \o W[j + 1]
    <2>1. TAKE j \in 1..4
    <2>2. (j = 1 /\ j + 1 = 2) \/ (j = 2 /\ j + 1 = 3) \/ (j = 3 /\ j + 1 = 4) \/ (j = 4 /\ j + 1 = 5)
        OBVIOUS
    <2> QED BY <1>71, <2>2, Zenon
<1>9. Telling(G, ds, W)
    <2>1. Len(ds) + 1 = 5 /\ 1..Len(ds) = 1..4
        BY <1>5
    <2>2. W[Len(ds) + 1] = <<>>
        BY <1>6, <2>1
    <2>3. \A j \in 1..Len(ds) : \E x : Tells(G, ds[j], x) /\ W[j] = x \o W[j + 1]
        BY <1>8, <2>1, Zenon
    <2> QED BY <2>2, <2>3, Zenon DEF Telling
<1>10. Tells(G, Fold(Nil, ds), W[1])
    BY <1>1, <1>5, <1>9, FoldTells
<1>11. Tells(G, Group(Fold(Nil, ds)), W[1])
    BY <1>10, GroupTells
<1>12. (lu \o u) \o ru = lu \o (u \o ru)
    BY <1>4, WordsAssociate
<1> QED BY <1>6, <1>11, <1>12 DEF BracketDoc, ds, nd

LEMMA JoinDocOfTwo ==
    ASSUME AllDocuments(Documents), NEW a \in Documents, NEW b \in Documents, NEW s \in Documents
    PROVE  JoinDoc(s, <<a, b>>) = Concat(a, Concat(s, b))
<1> DEFINE D == Documents
           ds == <<a, b>>
           One(f, j) == CASE j > Len(ds) -> Nil
                          [] j = Len(ds) -> ds[j]
                          [] OTHER       -> Concat(ds[j], Concat(s, f[j + 1]))
           Body(f) == f = [j \in 1..(Len(ds) + 1) |->
                             CASE j > Len(ds) -> Nil
                               [] j = Len(ds) -> ds[j]
                               [] OTHER       -> Concat(ds[j], Concat(s, f[j + 1]))]
           from == CHOOSE f : Body(f)
           g == [j \in 1..3 |-> IF j = 3 THEN Nil ELSE IF j = 2 THEN b ELSE Concat(a, Concat(s, b))]
<1>1. JoinDoc(s, ds) = from[1]
    BY Zenon DEF JoinDoc
<1>2. Len(ds) = 2 /\ ds[1] = a /\ ds[2] = b
    OBVIOUS
<1> HIDE DEF ds
<1>3. \A f : Body(f) <=> f = [j \in 1..3 |-> One(f, j)]
    BY <1>2
<1>4. \A f : One(f, 3) = Nil /\ One(f, 2) = b /\ One(f, 1) = Concat(a, Concat(s, f[2]))
    BY <1>2
<1> HIDE DEF One, Body
<1>5. g[1] = Concat(a, Concat(s, b)) /\ g[2] = b /\ g[3] = Nil
    OBVIOUS
<1>6. \A j \in 1..3 : g[j] = One(g, j)
    <2>1. \A j \in 1..3 : j = 1 \/ j = 2 \/ j = 3
        OBVIOUS
    <2> HIDE DEF g
    <2> QED BY <2>1, <1>4, <1>5
<1>7. g = [j \in 1..3 |-> g[j]]
    OBVIOUS
<1> HIDE DEF g
<1>8. Body(g)
    <2>1. g = [j \in 1..3 |-> One(g, j)]
        BY <1>6, <1>7
    <2> QED BY <2>1, <1>3
<1>9. Body(from)
    BY <1>8
<1> HIDE DEF from
<1>10. from = [j \in 1..3 |-> One(from, j)]
    BY <1>3, <1>9
<1>11. from[1] = One(from, 1) /\ from[2] = One(from, 2)
    BY <1>10
<1> QED BY <1>1, <1>4, <1>11 DEF ds

LEMMA JoinTells ==
    ASSUME AllDocuments(Documents), NEW G, Sound(G), NEW a, NEW u, NEW b, NEW v, NEW s, NEW su,
           Tells(G, a, u), Tells(G, b, v), Tells(G, s, su)
    PROVE  Tells(G, Join(s, <<a, b>>), u \o (su \o v))
<1> DEFINE sl == Concat(s, Line)
<1>1. Tells(G, Line, <<>>)
    BY Simple
<1>2. Tells(G, sl, su \o <<>>)
    BY <1>1, Made2
<1>3. su \o <<>> = su
    BY WordsAre DEF Tells
<1>4. Tells(G, sl, su)
    BY <1>2, <1>3
<1> HIDE DEF sl
<1>5. Tells(G, Concat(sl, b), su \o v)
    BY <1>4, Made2
<1>6. Tells(G, Concat(a, Concat(sl, b)), u \o (su \o v))
    BY <1>5, Made2
<1>7. JoinDoc(sl, <<a, b>>) = Concat(a, Concat(sl, b))
    BY <1>4, JoinDocOfTwo DEF Tells
<1> QED BY <1>6, <1>7 DEF Join, sl

LEMMA LabelledTwo ==
    ASSUME AllDocuments(Documents), NEW G, Sound(G), NEW a, NEW u, NEW b, NEW v, NEW l, NEW lu,
           Tells(G, a, u), Tells(G, b, v), Tells(G, l, lu)
    PROVE  /\ <<a, b>> \in Seq(Documents) /\ <<a, b>> # <<>> /\ <<a, b>>[1] = a
           /\ Labelled(G, <<a, b>>, lu, <<lu \o v, <<>> >>)
           /\ <<lu \o v, <<>> >>[1] = lu \o v
<1> DEFINE ds == <<a, b>>
           V == <<lu \o v, <<>> >>
<1>1. a \in Documents /\ b \in Documents /\ u \in Words /\ v \in Words /\ lu \in Words
    BY DEF Tells
<1>2. ds \in Seq(Documents) /\ Len(ds) = 2 /\ ds[1] = a /\ ds[2] = b /\ ds # <<>>
    BY <1>1
<1>3. V[1] = lu \o v /\ V[2] = <<>>
    OBVIOUS
<1>4. (lu \o v) \o <<>> = lu \o v
    <2>1. lu \o v \in Words
        BY <1>1, WordsAre
    <2> QED BY <2>1, WordsAre
<1> HIDE DEF ds, V
<1>5. \A j \in 1..(Len(ds) - 1) : j = 1
    BY <1>2
<1>6. Labelled(G, ds, lu, V)
    <2>1. \E x : Tells(G, ds[2], x) /\ V[1] = (lu \o x) \o V[2]
        BY <1>2, <1>3, <1>4
    <2>2. 1 + 1 = 2
        OBVIOUS
    <2> QED BY <1>2, <1>3, <1>5, <2>1, <2>2 DEF Labelled
<1> QED BY <1>2, <1>3, <1>6 DEF ds, V

LEMMA JoinRightTells ==
    ASSUME AllDocuments(Documents), NEW G, Sound(G), NEW a, NEW u, NEW b, NEW v, NEW l, NEW lu,
           Tells(G, a, u), Tells(G, b, v), Tells(G, l, lu)
    PROVE  Tells(G, JoinNestedRight(l, <<a, b>>), u \o (lu \o v))
<1> DEFINE ds == <<a, b>>
           V == <<lu \o v, <<>> >>
<1>1. ds \in Seq(Documents) /\ ds # <<>> /\ ds[1] = a /\ Labelled(G, ds, lu, V) /\ V[1] = lu \o v
    BY LabelledTwo
<1> HIDE DEF ds, V
<1>2. Tells(G, ds[1], u)
    BY <1>1
<1>3. Tells(G, JoinNestedRight(l, ds), u \o V[1])
    BY <1>1, <1>2, JoinNestedRightTells
<1> QED BY <1>1, <1>3 DEF ds

LEMMA JoinOuterTells ==
    ASSUME AllDocuments(Documents), NEW G, Sound(G), SoundOuter(G), NEW a, NEW u, NEW b, NEW v,
           NEW l \in Texts, NEW lu, Tells(G, a, u), Tells(G, b, v), Tells(G, l, lu)
    PROVE  Tells(G, JoinNestedOuter(l, <<a, b>>), u \o (lu \o v))
<1> DEFINE ds == <<a, b>>
           V == <<lu \o v, <<>> >>
           o == Outer(l, ds, FALSE)
<1>1. ds \in Seq(Documents) /\ ds # <<>> /\ ds[1] = a /\ Labelled(G, ds, lu, V) /\ V[1] = lu \o v
    BY LabelledTwo
<1> HIDE DEF ds, V
<1>2. Tells(G, ds[1], u)
    BY <1>1
<1>3. FALSE \in BOOLEAN
    OBVIOUS
<1>4. \A s : Tells(G, OuterDoc(o, s), u \o V[1])
    <2>1. TAKE s
    <2> QED BY <1>1, <1>2, <1>3, OuterDocTells
<1>5. o \in Documents
    BY <1>1, <1>3, DocumentsMade
<1>6. o.tag = "outer"
    BY DEF Outer
<1>7. u \o (lu \o v) \in Words
    BY WordsAre DEF Tells
<1> HIDE DEF o
<1>8. <<o, u \o V[1]>> \in G
    BY <1>1, <1>4, <1>5, <1>6, <1>7 DEF SoundOuter, Tells
<1> QED BY <1>1, <1>5, <1>7, <1>8 DEF Tells, JoinNestedOuter, o, ds

(* A row of a table: its label and its document. *)
RowTells(G, r, lu, u) ==
    /\ Tells(G, r.label, lu) /\ (r.label = Nil => lu = <<>>)
    /\ Tells(G, r.doc, u) /\ (r.doc = Nil => u = <<>>)
    /\ Width(r) \in Int

LEMMA NestedSectionTells ==
    ASSUME AllDocuments(Documents), NEW G, Sound(G), NEW r, NEW lu, NEW u, RowTells(G, r, lu, u)
    PROVE  Tells(G, NestedSection(r), lu \o u)
<1> DEFINE l == r.label
           d == r.doc
<1>0. Tells(G, l, lu) /\ Tells(G, d, u) /\ (l = Nil => lu = <<>>) /\ (d = Nil => u = <<>>)
    BY DEF RowTells
<1>00. lu \o <<>> = lu /\ <<>> \o u = u
    BY <1>0, WordsAre DEF Tells
<1>1. Tells(G, Group(d), u)
    BY <1>0, GroupTells
<1>2. Tells(G, Concat(Line, Group(d)), u)
    BY <1>1, Simple, AfterSilence
<1>3. Tells(G, NestT(Concat(Line, Group(d))), u)
    BY <1>2, Made1
<1>4. Tells(G, Concat(l, NestT(Concat(Line, Group(d)))), lu \o u)
    BY <1>0, <1>3, Made2
<1>5. CASE Skipped(r)
    <2>1. NestedSection(r) = Nil
        BY <1>5 DEF NestedSection, Skipped
    <2>2. l = Nil /\ d = Nil
        BY <1>5 DEF Skipped
    <2> HIDE DEF l, d
    <2> QED BY <1>0, <1>00, <2>1, <2>2
<1>6. CASE ~Skipped(r) /\ l # Nil
    <2>1. NestedSection(r) = simplifyNil(l, d, Concat(l, NestT(Concat(Line, Group(d)))))
        BY <1>6 DEF NestedSection
    <2> HIDE DEF l, d
    <2> QED BY <1>0, <1>00, <1>4, <1>6, <2>1 DEF simplifyNil
<1>7. CASE ~Skipped(r) /\ l = Nil
    <2>1. NestedSection(r) = Group(d)
        BY <1>7 DEF NestedSection
    <2> HIDE DEF l, d
    <2> QED BY <1>0, <1>00, <1>1, <1>7, <2>1
<1> QED BY <1>5, <1>6, <1>7

LEMMA AlignedItemTells ==
    ASSUME AllDocuments(Documents), NEW G, Sound(G), NEW r, NEW lu, NEW u, RowTells(G, r, lu, u),
           NEW leftPad, NEW w \in Int
    PROVE  Tells(G, AlignedItem(r, leftPad, w), lu \o u)
<1> DEFINE l == r.label
           d == r.doc
           p == Pad(w - Width(r))
           pleft == IF leftPad THEN Concat(p, l) ELSE Concat(l, p)
<1>0. Tells(G, l, lu) /\ Tells(G, d, u) /\ (l = Nil => lu = <<>>) /\ (d = Nil => u = <<>>)
    BY DEF RowTells
<1>00. lu \o <<>> = lu /\ <<>> \o lu = lu /\ <<>> \o u = u
    BY <1>0, WordsAre DEF Tells
<1>1. Tells(G, p, <<>>) /\ Tells(G, Pad(w + 1), <<>>)
    BY Simple DEF RowTells
<1>11. p # Nil
    BY DEF Pad, Nil
<1> HIDE DEF l, d, p
<1>2. Tells(G, Concat(p, l), lu) /\ Tells(G, Concat(l, p), lu)
    <2>1. Tells(G, Concat(p, l), <<>> \o lu) /\ Tells(G, Concat(l, p), lu \o <<>>)
        BY <1>0, <1>1, Made2
    <2> QED BY <2>1, <1>00
<1>3. Tells(G, pleft, lu)
    BY <1>2
<1>4. pleft # Nil
    <2>1. ConcatOf(p, l) # Nil /\ ConcatOf(l, p) # Nil
        BY DEF ConcatOf, Nil
    <2>2. Concat(p, l) # Nil /\ Concat(l, p) # Nil
        BY <1>11, <2>1, ConcatCases
    <2> QED BY <2>2
<1>5. Tells(G, Group(d), u)
    BY <1>0, GroupTells
<1>6. Tells(G, Align(Group(d)), u)
    BY <1>5, Made1
<1>70. pleft = IF leftPad THEN Concat(p, l) ELSE Concat(l, p)
    OBVIOUS
<1> HIDE DEF pleft
<1>7. Tells(G, ConcatSpace(pleft, Align(Group(d))), lu \o u)
    BY <1>3, <1>6, ConcatSpaceTells
<1>8. Tells(G, Concat(Pad(w + 1), Align(Group(d))), u)
    BY <1>1, <1>6, AfterSilence
<1>9. CASE Skipped(r)
    <2>1. AlignedItem(r, leftPad, w) = Nil
        BY <1>9 DEF AlignedItem, Skipped
    <2>2. l = Nil /\ d = Nil
        BY <1>9 DEF Skipped, l, d
    <2> QED BY <1>0, <1>00, <2>1, <2>2
<1>10. CASE ~Skipped(r) /\ l # Nil
    <2>1. AlignedItem(r, leftPad, w) = simplifyNil(pleft, d, ConcatSpace(pleft, Align(Group(d))))
        BY <1>10, Zenon DEF AlignedItem, pleft, p, l, d
    <2> QED BY <1>0, <1>00, <1>3, <1>4, <1>7, <2>1 DEF simplifyNil
<1>12. CASE ~Skipped(r) /\ l = Nil
    <2>1. AlignedItem(r, leftPad, w) = Concat(Pad(w + 1), Align(Group(d)))
        BY <1>12 DEF AlignedItem, l, d
    <2> QED BY <1>0, <1>00, <1>8, <1>12, <2>1
<1> QED BY <1>9, <1>10, <1>12

LEMMA LeftColumnWidthType ==
    ASSUME NEW r1, NEW r2, Width(r1) \in Int, Width(r2) \in Int
    PROVE  LeftColumnWidth(<<r1, r2>>) \in Int
<1> DEFINE rows == <<r1, r2>>
           S == {0} \cup {Width(rows[j]) : j \in DOMAIN rows}
           All(n) == \A j \in DOMAIN rows : Width(rows[j]) <= n
<1>1. DOMAIN rows = {1, 2} /\ rows[1] = r1 /\ rows[2] = r2
    OBVIOUS
<1> HIDE DEF rows
<1>2. S \subseteq Int /\ Width(r1) \in S /\ Width(r2) \in S
    BY <1>1
<1>3. \A n : All(n) <=> Width(r1) <= n /\ Width(r2) <= n
    BY <1>1
<1>4. LeftColumnWidth(rows) = CHOOSE n \in S : All(n)
    BY Zenon DEF LeftColumnWidth
<1> HIDE DEF S, All
<1>5. \E n \in S : All(n)
    <2>1. CASE Width(r1) <= Width(r2)
        BY <2>1, <1>2, <1>3
    <2>2. CASE ~(Width(r1) <= Width(r2))
        <3>1. Width(r2) <= Width(r1) /\ Width(r1) <= Width(r1)
            BY <2>2
        <3> QED BY <3>1, <1>2, <1>3
    <2> QED BY <2>1, <2>2
<1>6. (CHOOSE n \in S : All(n)) \in S
    BY <1>5
<1> QED BY <1>2, <1>4, <1>6 DEF rows

LEMMA TableTells ==
    ASSUME AllDocuments(Documents), NEW G, Sound(G),
           NEW r1, NEW lu1, NEW u1, RowTells(G, r1, lu1, u1),
           NEW r2, NEW lu2, NEW u2, RowTells(G, r2, lu2, u2), NEW alignment
    PROVE  Tells(G, Table(alignment, <<r1, r2>>), (lu1 \o u1) \o (lu2 \o u2))
<1> DEFINE rows == <<r1, r2>>
           w == LeftColumnWidth(rows)
           words == (lu1 \o u1) \o (lu2 \o u2)
           nested == Stack([j \in DOMAIN rows |-> NestedSection(rows[j])])
           aligned == Stack([j \in DOMAIN rows |-> AlignedItem(rows[j], alignment = "right", w)])
<1>1. w \in Int
    BY LeftColumnWidthType DEF RowTells
<1> HIDE DEF w
<1>2. [j \in DOMAIN rows |-> NestedSection(rows[j])] = <<NestedSection(r1), NestedSection(r2)>>
    OBVIOUS
<1>3. [j \in DOMAIN rows |-> AlignedItem(rows[j], alignment = "right", w)]
          = <<AlignedItem(r1, alignment = "right", w), AlignedItem(r2, alignment = "right", w)>>
    OBVIOUS
<1>4. Tells(G, nested, words)
    <2>1. Tells(G, NestedSection(r1), lu1 \o u1) /\ Tells(G, NestedSection(r2), lu2 \o u2)
        BY NestedSectionTells
    <2>2. Tells(G, Stack(<<NestedSection(r1), NestedSection(r2)>>), words)
        BY <2>1, StackTells
    <2> QED BY <2>2, <1>2
<1>5. Tells(G, aligned, words)
    <2> DEFINE a1 == AlignedItem(r1, alignment = "right", w)
               a2 == AlignedItem(r2, alignment = "right", w)
    <2>1. Tells(G, a1, lu1 \o u1) /\ Tells(G, a2, lu2 \o u2)
        BY <1>1, AlignedItemTells
    <2>2. aligned = Stack(<<a1, a2>>)
        BY <1>3
    <2> HIDE DEF a1, a2, aligned
    <2>3. Tells(G, Stack(<<a1, a2>>), words)
        BY <2>1, StackTells
    <2> QED BY <2>2, <2>3
<1>6. Table(alignment, rows) = Group(IF alignment = "no" THEN nested ELSE Union(aligned, nested))
    BY Zenon DEF Table, w
<1> HIDE DEF nested, aligned, words, rows
<1>7. Tells(G, Union(aligned, nested), words)
    BY <1>4, <1>5, Made1
<1>8. Tells(G, IF alignment = "no" THEN nested ELSE Union(aligned, nested), words)
    BY <1>4, <1>7
<1>9. Tells(G, Group(IF alignment = "no" THEN nested ELSE Union(aligned, nested)), words)
    BY <1>8, GroupTells
<1> QED BY <1>6, <1>9 DEF rows, words

-----------------------------------------------------------------------------
(* The client.                                                             *)
LEMMA MeansType ==
    ASSUME AllDocuments(Documents), NEW d, NEW u, Means(d, u)
    PROVE  d \in Documents /\ u \in Words /\ (d = Nil => u = <<>>)
<1>1. PICK lay \in [Cells -> Seq(Items)] : \A p \in Cells : lay[p] = LayStep(0, lay, p)
    BY BeIs
<1> DEFINE Q == SelectedWords(lay)
<1>2. Closed(Q)
    BY <1>1, SelectedClosed
<1> HIDE DEF Q
<1>3. Sound(FineSet(Q)) /\ SoundOuter(FineSet(Q))
    BY <1>2, FineSound, FineOuter
<1>4. Tells(FineSet(Q), d, u)
    BY <1>3 DEF Means
<1> QED BY <1>4, FineSetIs DEF Tells, Fine, Keeps

LEMMA WordTells ==
    ASSUME AllDocuments(Documents), NEW l, IsWord(l)
    PROVE  /\ l \in Texts /\ l # Nil /\ l.tag = "text"
           /\ WordOf(l) = <<l.s>>
           /\ Means(l, <<l.s>>)
<1>1. l = Text(l.s, l.n) /\ l.s \in Strings /\ l.s # " " /\ l.n \in Int
    <2>1. l = Text(l.s, l.n) /\ l.s \in STRING \ {" "} /\ l.n \in Nat
        BY Zenon DEF IsWord
    <2>2. l.s \in Strings /\ l.s # " "
        BY <2>1, Zenon DEF Strings
    <2>3. Nat \subseteq Int
        OBVIOUS
    <2> QED BY <2>1, <2>2, <2>3, Zenon
<1>2. l \in Texts
    <2>1. \A s \in Strings, n \in Int : Text(s, n) \in Texts
        BY TextIsText
    <2> QED BY <1>1, <2>1, Zenon
<1>3. l.tag = "text"
    <2>1. \A s, n : Text(s, n).tag = "text"
        BY DEF Text
    <2> QED BY <1>1, <2>1, Zenon
<1>4. l # Nil
    BY <1>3 DEF Nil
<1>5. WordIn(TextB(l)) = <<l.s>>
    BY <1>1 DEF WordIn, TextB
<1>6. Means(l, <<l.s>>)
    BY <1>2, <1>5, Simple DEF Means
<1> QED BY <1>2, <1>3, <1>4, <1>6 DEF WordOf

LEMMA ShortText == \A s \in Strings : Text(s, 1) \in Texts
<1>1. 1 \in Int
    OBVIOUS
<1> QED BY <1>1, TextIsText

LEMMA LiteralTells ==
    ASSUME AllDocuments(Documents), NEW s \in Strings, s # " ", NEW G, Sound(G)
    PROVE  Tells(G, Text(s, 1), <<s>>)
<1>1. Text(s, 1) \in Texts
    BY ShortText
<1>2. WordIn(TextB(Text(s, 1))) = <<s>>
    BY DEF WordIn, TextB, Text
<1> QED BY <1>1, <1>2, Simple

LEMMA Literals ==
    /\ "," \in Strings /\ "," # " "
    /\ "(" \in Strings /\ "(" # " "
    /\ ")" \in Strings /\ ")" # " "
BY Zenon DEF Strings

LEMMA NilMeans ==
    ASSUME AllDocuments(Documents)
    PROVE  Means(Nil, <<>>)
BY Simple DEF Means

LEMMA LeafMeans ==
    ASSUME AllDocuments(Documents), NEW d \in Leaves
    PROVE  Means(d, IF d.tag = "text" THEN <<d.s>> ELSE <<>>)
<1>1. CASE IsWord(d)
    BY <1>1, WordTells
<1>2. CASE d \in {Nil, Line, SoftBreak, HardLine}
    <2>1. d.tag # "text"
        BY <1>2 DEF Nil, Line, SoftBreak, HardLine
    <2>2. Means(d, <<>>)
        BY <1>2, Simple DEF Means
    <2> QED BY <2>1, <2>2
<1> QED BY <1>1, <1>2, ClientAssumption

LEMMA OneMeans ==
    ASSUME AllDocuments(Documents), NEW d, NEW u, Means(d, u)
    PROVE  /\ Means(Group(d), u)
           /\ Means(bracket(d), <<"(">> \o u \o <<")">>)
<1>1. ASSUME NEW G, Sound(G), Tells(G, d, u)
      PROVE  /\ Tells(G, Group(d), u)
             /\ Tells(G, bracket(d), <<"(">> \o u \o <<")">>)
    <2>1. Tells(G, Text("(", 1), <<"(">>) /\ Tells(G, Text(")", 1), <<")">>)
        BY <1>1, Literals, LiteralTells
    <2>2. Tells(G, BracketDoc(Text("(", 1), d, Text(")", 1)), (<<"(">> \o u) \o <<")">>)
        BY <1>1, <2>1, BracketTells
    <2> QED BY <1>1, <2>2, GroupTells DEF bracket
<1> QED BY <1>1 DEF Means

LEMMA TwoMean ==
    ASSUME AllDocuments(Documents), NEW a, NEW u, NEW b, NEW v, Means(a, u), Means(b, v)
    PROVE  /\ Means(Concat(a, b), u \o v)
           /\ Means(ConcatSpace(a, b), u \o v)
           /\ Means(Stack(<<a, b>>), u \o v)
           /\ Means(Fillwords(<<a, b>>), u \o v)
           /\ Means(commaSeparated(<<a, b>>), u \o <<",">> \o v)
<1>0. <<",">> \in Words /\ u \in Words /\ v \in Words
    <2>1. "," \in Strings
        BY Literals
    <2>2. \A s \in Strings : <<s>> \in Words
        BY DEF Words
    <2> QED BY <2>1, <2>2, MeansType
<1>1. ASSUME NEW G, Sound(G), Tells(G, a, u), Tells(G, b, v)
      PROVE  /\ Tells(G, Concat(a, b), u \o v)
             /\ Tells(G, ConcatSpace(a, b), u \o v)
             /\ Tells(G, Stack(<<a, b>>), u \o v)
             /\ Tells(G, Fillwords(<<a, b>>), u \o v)
             /\ Tells(G, commaSeparated(<<a, b>>), u \o <<",">> \o v)
    <2>1. Tells(G, Text(",", 1), <<",">>)
        BY <1>1, Literals, LiteralTells
    <2>2. Tells(G, Join(Text(",", 1), <<a, b>>), u \o (<<",">> \o v))
        BY <1>1, <2>1, JoinTells
    <2>3. (u \o <<",">>) \o v = u \o (<<",">> \o v)
        BY <1>0, WordsAssociate
    <2>4. Tells(G, commaSeparated(<<a, b>>), u \o <<",">> \o v)
        BY <2>2, <2>3 DEF commaSeparated, comma
    <2> QED BY <1>1, <2>4, Made2, ConcatSpaceTells, StackTells
<1> QED BY <1>1 DEF Means

LEMMA NestMeans ==
    ASSUME AllDocuments(Documents), NEW a, NEW u, NEW b, NEW v, Means(a, u), Means(b, v)
    PROVE  Means(nestUnder(a, b), u \o v)
BY NestUnderTells, AlignUnderTells DEF Means, nestUnder

(* A row with a label or without. *)
LEMMA LabelTells ==
    ASSUME AllDocuments(Documents), NEW l \in Labels \cup {Nil}, NEW d, NEW u, Means(d, u),
           NEW G, Sound(G), SoundOuter(G)
    PROVE  WordOf(l) \in Words /\ RowTells(G, row(l, d), WordOf(l), u)
<1>1. row(l, d).label = l /\ row(l, d).doc = d
    BY DEF row
<1>2. Tells(G, d, u) /\ (d = Nil => u = <<>>)
    BY MeansType DEF Means
<1>3. CASE l = Nil
    <2>1. Means(l, WordOf(l)) /\ WordOf(l) = <<>>
        BY <1>3, NilMeans DEF WordOf
    <2>2. Tells(G, l, <<>>)
        BY <2>1 DEF Means
    <2>3. Width(row(l, d)) \in Int
        BY <1>1, <1>3 DEF Width
    <2> HIDE DEF row
    <2> QED BY <1>1, <1>2, <2>1, <2>2, <2>3 DEF RowTells, Tells
<1>4. CASE l # Nil
    <2>1. IsWord(l)
        BY <1>4, ClientAssumption
    <2>2. l \in Texts /\ WordOf(l) = <<l.s>> /\ Means(l, <<l.s>>)
        BY <2>1, WordTells
    <2>3. Tells(G, l, WordOf(l))
        BY <2>2 DEF Means
    <2>4. Width(row(l, d)) \in Int
        <3>1. l.n \in Int
            <4>1. l.n \in Nat
                BY <2>1, Zenon DEF IsWord
            <4> QED BY <4>1
        <3> QED BY <1>1, <1>4, <3>1 DEF Width
    <2> HIDE DEF row
    <2> QED BY <1>1, <1>2, <1>4, <2>3, <2>4 DEF RowTells, Tells
<1> QED BY <1>3, <1>4

LEMMA UnrowMeans ==
    ASSUME AllDocuments(Documents), NEW l \in Labels, NEW d, NEW u, Means(d, u)
    PROVE  Means(unrow(row(l, d)), WordOf(l) \o u)
<1>1. IsWord(l)
    BY ClientAssumption
<1>2. l # Nil /\ WordOf(l) = <<l.s>> /\ Means(l, <<l.s>>)
    BY <1>1, WordTells
<1>3. unrow(row(l, d)) = nestUnder(l, d)
    BY <1>2 DEF unrow, row
<1>4. Means(nestUnder(l, d), <<l.s>> \o u)
    BY <1>2, NestMeans
<1> QED BY <1>2, <1>3, <1>4

LEMMA TableMeans ==
    ASSUME AllDocuments(Documents), NEW l1 \in Labels \cup {Nil}, NEW l2 \in Labels \cup {Nil},
           NEW a, NEW u, NEW b, NEW v, Means(a, u), Means(b, v), NEW alignment
    PROVE  Means(Table(alignment, <<row(l1, a), row(l2, b)>>), WordOf(l1) \o u \o WordOf(l2) \o v)
<1>1. SUFFICES ASSUME NEW G, Sound(G), SoundOuter(G)
               PROVE  Tells(G, Table(alignment, <<row(l1, a), row(l2, b)>>),
                            WordOf(l1) \o u \o WordOf(l2) \o v)
    BY DEF Means
<1>2. /\ RowTells(G, row(l1, a), WordOf(l1), u) /\ RowTells(G, row(l2, b), WordOf(l2), v)
      /\ WordOf(l1) \in Words /\ WordOf(l2) \in Words
    BY <1>1, LabelTells
<1>3. u \in Words /\ v \in Words
    BY MeansType
<1>4. Tells(G, Table(alignment, <<row(l1, a), row(l2, b)>>),
            (WordOf(l1) \o u) \o (WordOf(l2) \o v))
    BY <1>1, <1>2, TableTells
<1>5. WordOf(l1) \o u \in Words
    BY <1>2, <1>3, WordsAre
<1>6. ((WordOf(l1) \o u) \o WordOf(l2)) \o v = (WordOf(l1) \o u) \o (WordOf(l2) \o v)
    BY <1>2, <1>3, <1>5, WordsAssociate
<1> QED BY <1>4, <1>6

LEMMA OuterMeans ==
    ASSUME AllDocuments(Documents), mode \in Modes, NEW l \in Labels,
           NEW a, NEW u, NEW b, NEW v, Means(a, u), Means(b, v)
    PROVE  Means(joinNestedOuter(l, <<a, b>>), u \o WordOf(l) \o v)
<1>1. IsWord(l)
    BY ClientAssumption
<1>2. l \in Texts /\ WordOf(l) = <<l.s>> /\ Means(l, WordOf(l))
    BY <1>1, WordTells
<1>3. u \in Words /\ v \in Words /\ WordOf(l) \in Words
    BY <1>2, MeansType
<1>4. (u \o WordOf(l)) \o v = u \o (WordOf(l) \o v)
    BY <1>3, WordsAssociate
<1>5. Means(JoinNestedOuter(l, <<a, b>>), u \o (WordOf(l) \o v))
    BY <1>2, JoinOuterTells DEF Means
<1>6. Means(JoinNestedRight(l, <<a, b>>), u \o (WordOf(l) \o v))
    BY <1>2, JoinRightTells DEF Means
<1>7. Means(Table("right", <<row(Nil, a), row(l, b)>>), u \o WordOf(l) \o v)
    <2>1. Means(Table("right", <<row(Nil, a), row(l, b)>>), WordOf(Nil) \o u \o WordOf(l) \o v)
        BY TableMeans
    <2>2. WordOf(Nil) \o u = u
        BY <1>3, WordsAre DEF WordOf
    <2> QED BY <2>1, <2>2
<1>8. [j \in DOMAIN <<a, b>> |-> row(IF j > 1 THEN l ELSE Nil, <<a, b>>[j])] = <<row(Nil, a), row(l, b)>>
    OBVIOUS
<1>9. mode \in {"no", "only", "deindent", "extra"}
    BY ClientAssumption
<1>10. CASE mode = "deindent"
    BY <1>4, <1>5, <1>10 DEF joinNestedOuter
<1>11. CASE mode = "extra"
    <2>1. joinNestedOuter(l, <<a, b>>) = Table("right", <<row(Nil, a), row(l, b)>>)
        <3> HIDE DEF row
        <3> QED BY <1>8, <1>11, Zenon DEF joinNestedOuter
    <2> QED BY <1>7, <2>1
<1>12. CASE mode \in {"no", "only"}
    <2>1. joinNestedOuter(l, <<a, b>>) = JoinNestedRight(l, <<a, b>>)
        BY <1>12 DEF joinNestedOuter
    <2> QED BY <1>4, <1>6, <2>1
<1> QED BY <1>9, <1>10, <1>11, <1>12

-----------------------------------------------------------------------------
(* The inductive invariant: what a document is to print is what it tells.  *)
DocsMean ==
    /\ mode \in Modes
    /\ docs \in Seq(Documents) /\ said \in Seq(Words) /\ Len(said) = Len(docs)
    /\ \A j \in 1..Len(docs) : Means(docs[j], said[j])

IInv == DocsMean /\ WordsKept

(* d in the place of the first n of s. *)
TakenFrom(S, s, n, d) ==
    LET t == <<d>> \o SubSeq(s, n + 1, Len(s))
    IN  /\ t \in Seq(S) /\ Len(t) = Len(s) - n + 1
        /\ t[1] = d
        /\ \A j \in 2..Len(t) : j + n - 1 \in 1..Len(s) /\ t[j] = s[j + n - 1]

LEMMA TakeFrom ==
    ASSUME NEW S, NEW s \in Seq(S), NEW n \in Nat, n <= Len(s), NEW d \in S
    PROVE  TakenFrom(S, s, n, d)
<1> DEFINE r == SubSeq(s, n + 1, Len(s))
           t == <<d>> \o r
<1>1. Len(s) \in Nat /\ \A i \in (n + 1)..Len(s) : s[i] \in S
    OBVIOUS
<1>2. /\ r \in Seq(S)
      /\ Len(r) = IF n + 1 <= Len(s) THEN Len(s) - (n + 1) + 1 ELSE 0
      /\ \A i \in 1..(Len(s) - (n + 1) + 1) : r[i] = s[n + 1 + i - 1]
    BY <1>1, SubSeqProperties, n + 1 \in Int
<1>3. Len(r) = Len(s) - n
    BY <1>1, <1>2
<1>4. \A i \in 1..Len(r) : r[i] = s[n + i]
    <2>1. TAKE i \in 1..Len(r)
    <2>2. i \in 1..(Len(s) - (n + 1) + 1) /\ n + 1 + i - 1 = n + i
        BY <1>1, <1>3
    <2> QED BY <1>2, <2>2
<1> HIDE DEF r
<1>5. t \in Seq(S) /\ Len(t) = Len(r) + 1 /\ t[1] = d /\ \A i \in 1..Len(r) : t[i + 1] = r[i]
    BY <1>2
<1> HIDE DEF t
<1>6. ASSUME NEW j \in 2..Len(t) PROVE j + n - 1 \in 1..Len(s) /\ t[j] = s[j + n - 1]
    <2>1. j - 1 \in 1..Len(r) /\ j - 1 + 1 = j /\ n + (j - 1) = j + n - 1 /\ j + n - 1 \in 1..Len(s)
        BY <1>1, <1>3, <1>5
    <2> QED BY <2>1, <1>4, <1>5
<1> QED BY <1>1, <1>3, <1>5, <1>6 DEF TakenFrom, t, r

LEMMA CallKeeps ==
    ASSUME AllDocuments(Documents), IInv, NEW n \in Nat, n <= Len(docs), NEW d, NEW w,
           Call(n, d, w), Means(d, w)
    PROVE  IInv'
<1>1. d \in Documents /\ w \in Words
    BY MeansType
<1>2. /\ docs' = <<d>> \o SubSeq(docs, n + 1, Len(docs))
      /\ said' = <<w>> \o SubSeq(said, n + 1, Len(said))
      /\ mode' = mode /\ width' = width /\ ~Printed
    BY DEF Call
<1>3. /\ docs \in Seq(Documents) /\ said \in Seq(Words) /\ Len(said) = Len(docs)
      /\ Len(docs) \in Nat
      /\ \A j \in 1..Len(docs) : Means(docs[j], said[j])
    BY DEF IInv, DocsMean
<1>4. /\ docs' \in Seq(Documents) /\ Len(docs') = Len(docs) - n + 1
      /\ docs'[1] = d
      /\ \A j \in 2..Len(docs') : j + n - 1 \in 1..Len(docs) /\ docs'[j] = docs[j + n - 1]
    <2>1. TakenFrom(Documents, docs, n, d)
        BY <1>1, <1>3, TakeFrom
    <2> QED BY <2>1, <1>2 DEF TakenFrom
<1>5. /\ said' \in Seq(Words) /\ Len(said') = Len(docs) - n + 1
      /\ said'[1] = w
      /\ \A j \in 2..Len(said') : said'[j] = said[j + n - 1]
    <2>1. TakenFrom(Words, said, n, w)
        BY <1>1, <1>3, TakeFrom
    <2> QED BY <2>1, <1>2, <1>3 DEF TakenFrom
<1>6. ASSUME NEW j \in 1..Len(docs') PROVE Means(docs'[j], said'[j])
    <2>1. CASE j = 1
        BY <2>1, <1>4, <1>5
    <2>2. CASE j # 1
        <3>1. j \in 2..Len(docs') /\ j \in 2..Len(said')
            BY <1>3, <1>4, <1>5, <2>2
        <3> QED BY <3>1, <1>3, <1>4, <1>5
    <2> QED BY <2>1, <2>2
<1>7. ~Printed'
    BY <1>2 DEF Printed, NotPrinted
<1>8. mode' \in Modes
    BY <1>2 DEF IInv, DocsMean
<1> QED BY <1>4, <1>5, <1>6, <1>7, <1>8 DEF IInv, DocsMean, WordsKept

LEMMA InitKeeps ==
    ASSUME AllDocuments(Documents), Init
    PROVE  IInv
<1>1. docs = <<>> /\ said = <<>> /\ mode \in Modes /\ ~Printed
    BY DEF Init, Printed
<1>2. <<>> \in Seq(Documents) /\ <<>> \in Seq(Words) /\ Len(<<>>) = 0
    BY EmptySeq
<1>3. 1..0 = {}
    OBVIOUS
<1> QED BY <1>1, <1>2, <1>3 DEF IInv, DocsMean, WordsKept

LEMMA AtHand ==
    ASSUME IInv
    PROVE  /\ Len(docs) \in Nat
           /\ Has1 => 1 <= Len(docs) /\ Means(docs[1], said[1])
           /\ Has2 => 2 <= Len(docs) /\ Means(docs[1], said[1]) /\ Means(docs[2], said[2])
BY DEF IInv, DocsMean, Has1, Has2

LEMMA NextKeeps ==
    ASSUME AllDocuments(Documents), IInv, Next
    PROVE  IInv'
<1>0. Len(docs) \in Nat /\ 0 \in Nat /\ 1 \in Nat /\ 2 \in Nat /\ mode \in Modes
    BY DEF IInv, DocsMean
<1>1. CASE Leaf
    <2>1. PICK d \in Leaves : Call(0, d, IF d.tag = "text" THEN <<d.s>> ELSE <<>>)
        BY <1>1 DEF Leaf
    <2>2. Means(d, IF d.tag = "text" THEN <<d.s>> ELSE <<>>)
        BY LeafMeans
    <2>3. 0 <= Len(docs)
        BY <1>0
    <2> QED BY <1>0, <2>1, <2>2, <2>3, CallKeeps
<1>2. CASE GroupOne
    <2>1. 1 <= Len(docs) /\ Means(docs[1], said[1]) /\ Call(1, Group(docs[1]), said[1])
        BY <1>2, AtHand DEF GroupOne
    <2>2. Means(Group(docs[1]), said[1])
        BY <2>1, OneMeans
    <2> QED BY <1>0, <2>1, <2>2, CallKeeps
<1>3. CASE BracketOne
    <2>1. 1 <= Len(docs) /\ Means(docs[1], said[1])
          /\ Call(1, bracket(docs[1]), <<"(">> \o said[1] \o <<")">>)
        BY <1>3, AtHand DEF BracketOne
    <2>2. Means(bracket(docs[1]), <<"(">> \o said[1] \o <<")">>)
        BY <2>1, OneMeans
    <2> QED BY <1>0, <2>1, <2>2, CallKeeps
<1>4. CASE UnrowOne
    <2>1. PICK lbl \in Labels : Call(1, unrow(row(lbl, docs[1])), WordOf(lbl) \o said[1])
        BY <1>4 DEF UnrowOne
    <2>2. 1 <= Len(docs) /\ Means(docs[1], said[1])
        BY <1>4, AtHand DEF UnrowOne
    <2>3. Means(unrow(row(lbl, docs[1])), WordOf(lbl) \o said[1])
        BY <2>2, UnrowMeans
    <2> QED BY <1>0, <2>1, <2>2, <2>3, CallKeeps
<1>5. ASSUME Has2, NEW d, NEW w, Call(2, d, w), Means(d, w) PROVE IInv'
    <2>1. 2 <= Len(docs)
        BY <1>5, AtHand
    <2> QED BY <1>0, <1>5, <2>1, CallKeeps
<1>6. ASSUME Has2 PROVE Means(First, said[2]) /\ Means(Second, said[1])
    BY <1>6, AtHand DEF First, Second
<1>7. ASSUME Has2
      PROVE  /\ Means(Concat(First, Second), Said)
             /\ Means(ConcatSpace(First, Second), Said)
             /\ Means(Stack(<<First, Second>>), Said)
             /\ Means(Fillwords(<<First, Second>>), Said)
             /\ Means(commaSeparated(<<First, Second>>), said[2] \o <<",">> \o said[1])
             /\ Means(nestUnder(First, Second), Said)
    <2>1. Means(First, said[2]) /\ Means(Second, said[1])
        BY <1>6, <1>7
    <2> HIDE DEF First, Second
    <2> QED BY <2>1, TwoMean, NestMeans DEF Said
<1>8. CASE ConcatTwo
    BY <1>5, <1>7, <1>8 DEF ConcatTwo
<1>9. CASE SpaceTwo
    BY <1>5, <1>7, <1>9 DEF SpaceTwo
<1>10. CASE StackTwo
    BY <1>5, <1>7, <1>10 DEF StackTwo
<1>11. CASE FillTwo
    BY <1>5, <1>7, <1>11 DEF FillTwo
<1>12. CASE CommaTwo
    BY <1>5, <1>7, <1>12 DEF CommaTwo
<1>13. CASE NestTwo
    BY <1>5, <1>7, <1>13 DEF NestTwo
<1>14. CASE OuterTwo
    <2>1. Has2
        BY <1>14 DEF OuterTwo
    <2>2. PICK lbl \in Labels :
              Call(2, joinNestedOuter(lbl, <<First, Second>>), said[2] \o WordOf(lbl) \o said[1])
        BY <1>14 DEF OuterTwo
    <2>3. Means(joinNestedOuter(lbl, <<First, Second>>), said[2] \o WordOf(lbl) \o said[1])
        BY <1>0, <1>6, <2>1, OuterMeans
    <2> QED BY <1>5, <2>1, <2>2, <2>3
<1>15. CASE TableTwo
    <2>1. Has2
        BY <1>15 DEF TableTwo
    <2>2. PICK l1 \in Labels \cup {Nil}, l2 \in Labels \cup {Nil} :
              LET rows  == <<row(l1, First), row(l2, Second)>>
                  words == WordOf(l1) \o said[2] \o WordOf(l2) \o said[1]
              IN  Call(2, rlTable(rows), words) \/ Call(2, llTable(rows), words)
        BY <1>15 DEF TableTwo
    <2> DEFINE rows  == <<row(l1, First), row(l2, Second)>>
               words == WordOf(l1) \o said[2] \o WordOf(l2) \o said[1]
    <2>3. \A alignment : Means(Table(alignment, rows), words)
        BY <1>6, <2>1, TableMeans
    <2>4. Means(rlTable(rows), words) /\ Means(llTable(rows), words)
        BY <2>3, Zenon DEF rlTable, llTable
    <2>5. Call(2, rlTable(rows), words) \/ Call(2, llTable(rows), words)
        BY <2>2
    <2> HIDE DEF rows, words
    <2> QED BY <1>5, <2>1, <2>4, <2>5
<1>16. CASE LayOut
    <2>1. PICK n \in Widths : width' = n /\ out' = Pretty(docs[1], n)
        BY <1>16 DEF LayOut
    <2>2. Len(docs) = 1 /\ mode' = mode /\ docs' = docs /\ said' = said
        BY <1>16 DEF LayOut
    <2>3. Means(docs[1], said[1])
        BY <2>2 DEF IInv, DocsMean
    <2>4. Written(Pretty(docs[1], n)) = said[1]
        BY <2>3, PrettyWrites
    <2>5. WordsKept'
        BY <2>1, <2>2, <2>4 DEF WordsKept
    <2>6. DocsMean'
        BY <2>2 DEF IInv, DocsMean
    <2> QED BY <2>5, <2>6 DEF IInv
<1> QED BY <1>1, <1>2, <1>3, <1>4, <1>8, <1>9, <1>10, <1>11, <1>12, <1>13, <1>14, <1>15, <1>16 DEF Next

LEMMA StutterKeeps ==
    ASSUME IInv, UNCHANGED vars
    PROVE  IInv'
BY DEF IInv, DocsMean, WordsKept, Printed, vars

(* For every tab width, alignment mode, client and line width: however the  *)
(* client puts its documents together with the functions of document.go,    *)
(* util.go and PrettyCfg, and whichever sides the printer takes at the      *)
(* unions, the output has every word once and in its place (be and layout,  *)
(* pretty.go:81-226).  Documents is the set of all documents, and no more   *)
(* is assumed.                                                              *)
THEOREM WordsAlwaysKept ==
    ASSUME AllDocuments(Documents)
    PROVE  Spec => []WordsKept
<1>1. Init => IInv
    BY InitKeeps
<1>2. IInv /\ [Next]_vars => IInv'
    BY NextKeeps, StutterKeeps
<1>3. IInv => WordsKept
    BY DEF IInv
<1> QED BY <1>1, <1>2, <1>3, PTL DEF Spec

-----------------------------------------------------------------------------
(* The documents exist: those made in no step, in one, in two, ...         *)
Levels(n, g) == g[0] = {} /\ \A j \in 1..n : g[j] = Made(g[j - 1])
Level(n) == (CHOOSE g : Levels(n, g))[n]

LEMMA LevelsExist == \A n \in Nat : \E g : Levels(n, g)
<1> DEFINE S == {n \in Nat : \E g : Levels(n, g)}
<1>1. 0 \in S
    <2> DEFINE g == [j \in {0} |-> {}]
    <2>1. g[0] = {} /\ \A j \in 1..0 : FALSE
        OBVIOUS
    <2> HIDE DEF g
    <2>2. Levels(0, g)
        BY <2>1 DEF Levels
    <2> QED BY <2>2
<1>2. ASSUME NEW n \in Nat, n \in S PROVE n + 1 \in S
    <2>1. PICK g : Levels(n, g)
        BY <1>2
    <2> DEFINE h == [j \in 0..(n + 1) |-> IF j = n + 1 THEN Made(g[n]) ELSE g[j]]
    <2>2. h[0] = g[0] /\ h[n + 1] = Made(g[n]) /\ \A j \in 0..n : h[j] = g[j]
        OBVIOUS
    <2> HIDE DEF h
    <2>3. ASSUME NEW j \in 1..(n + 1) PROVE h[j] = Made(h[j - 1])
        <3>1. CASE j = n + 1
            <4>1. j - 1 = n /\ n \in 0..n
                BY <3>1
            <4> QED BY <3>1, <4>1, <2>2
        <3>2. CASE j # n + 1
            <4>1. j \in 1..n /\ j \in 0..n /\ j - 1 \in 0..n
                BY <3>2
            <4>2. g[j] = Made(g[j - 1])
                BY <4>1, <2>1 DEF Levels
            <4> QED BY <4>1, <4>2, <2>2
        <3> QED BY <3>1, <3>2
    <2>4. Levels(n + 1, h)
        BY <2>1, <2>2, <2>3 DEF Levels
    <2> QED BY <2>4
<1> HIDE DEF S
<1>3. \A n \in Nat : n \in S
    BY <1>1, <1>2, Induction
<1> QED BY <1>3 DEF S

LEMMA LevelIs ==
    /\ Level(0) = {}
    /\ \A n \in Nat : Level(n + 1) = Made(Level(n))
<1>1. ASSUME NEW n \in Nat, NEW g, NEW h, Levels(n, g), Levels(n + 1, h) PROVE h[n] = g[n]
    <2> DEFINE T == {j \in 0..n : h[j] = g[j]}
    <2>1. ASSUME NEW j \in 0..n, j > 0 => j - 1 \in T PROVE j \in T
        <3>1. CASE j = 0
            BY <3>1, <2>1, <1>1 DEF Levels
        <3>2. CASE j # 0
            <4>1. j \in 1..n /\ j \in 1..(n + 1) /\ j > 0
                BY <3>2
            <4>2. g[j] = Made(g[j - 1]) /\ h[j] = Made(h[j - 1])
                BY <4>1, <1>1 DEF Levels
            <4>3. h[j - 1] = g[j - 1]
                BY <4>1, <2>1
            <4> QED BY <4>2, <4>3, <2>1
        <3> QED BY <3>1, <3>2
    <2> HIDE DEF T
    <2>2. \A j \in 0..n : j \in T
        BY <2>1, Upwards
    <2>3. n \in T
        BY <2>2
    <2> QED BY <2>3 DEF T
<1>2. \A n \in Nat : Levels(n, CHOOSE g : Levels(n, g))
    BY LevelsExist
<1>3. Level(0) = {}
    BY <1>2, 0 \in Nat DEF Level, Levels
<1>4. ASSUME NEW n \in Nat PROVE Level(n + 1) = Made(Level(n))
    <2> DEFINE g == CHOOSE a : Levels(n, a)
               h == CHOOSE a : Levels(n + 1, a)
    <2>1. n + 1 \in Nat
        OBVIOUS
    <2>2. Levels(n, g) /\ Levels(n + 1, h)
        BY <1>2, <2>1
    <2>3. Level(n) = g[n] /\ Level(n + 1) = h[n + 1]
        BY DEF Level
    <2> HIDE DEF g, h
    <2>4. h[n] = g[n]
        BY <1>1, <2>2
    <2>5. h[n + 1] = Made(h[n + 1 - 1])
        <3>1. n + 1 \in 1..(n + 1)
            OBVIOUS
        <3> QED BY <2>2, <3>1 DEF Levels
    <2>6. n + 1 - 1 = n
        OBVIOUS
    <2> QED BY <2>3, <2>4, <2>5, <2>6
<1> QED BY <1>3, <1>4

LEMMA LevelsGrow == \A n \in Nat, m \in Nat : m <= n => Level(m) \subseteq Level(n)
<1> DEFINE S == {n \in Nat : Level(n) \subseteq Level(n + 1)}
<1>1. 0 \in S
    BY LevelIs
<1>2. ASSUME NEW n \in Nat, n \in S PROVE n + 1 \in S
    <2>1. Level(n) \subseteq Level(n + 1)
        BY <1>2
    <2>2. Made(Level(n)) \subseteq Made(Level(n + 1))
        BY <2>1, MadeMonotone
    <2>3. Level(n + 1) = Made(Level(n)) /\ Level(n + 1 + 1) = Made(Level(n + 1)) /\ n + 1 \in Nat
        BY LevelIs
    <2> QED BY <2>2, <2>3
<1> HIDE DEF S
<1>3. \A n \in Nat : n \in S
    BY <1>1, <1>2, Induction
<1>4. ASSUME NEW m \in Nat PROVE \A n \in Nat : m <= n => Level(m) \subseteq Level(n)
    <2> DEFINE T == {n \in Nat : m <= n => Level(m) \subseteq Level(n)}
    <2>1. 0 \in T
        <3>1. m <= 0 => m = 0
            OBVIOUS
        <3> QED BY <3>1
    <2>2. ASSUME NEW n \in Nat, n \in T PROVE n + 1 \in T
        <3>1. m <= n + 1 => m <= n \/ m = n + 1
            OBVIOUS
        <3>2. Level(n) \subseteq Level(n + 1)
            BY <1>3 DEF S
        <3> QED BY <2>2, <3>1, <3>2
    <2> HIDE DEF T
    <2>3. \A n \in Nat : n \in T
        BY <2>1, <2>2, Induction
    <2> QED BY <2>3 DEF T
<1> QED BY <1>4

LEMMA SequenceInLevel ==
    ASSUME NEW ds \in Seq(UNION {Level(n) : n \in Nat})
    PROVE  \E n \in Nat : ds \in Seq(Level(n))
<1> DEFINE D == UNION {Level(n) : n \in Nat}
           N == Len(ds)
           S == {k \in Nat : \E n \in Nat : \A j \in 1..N : j <= k => ds[j] \in Level(n)}
<1>0. N \in Nat /\ \A j \in 1..N : ds[j] \in D
    OBVIOUS
<1>1. 0 \in S
    <2>1. \A j \in 1..N : ~(j <= 0)
        OBVIOUS
    <2> QED BY <2>1
<1>2. ASSUME NEW k \in Nat, k \in S PROVE k + 1 \in S
    <2>1. PICK n \in Nat : \A j \in 1..N : j <= k => ds[j] \in Level(n)
        BY <1>2
    <2>2. PICK m \in Nat : k + 1 \in 1..N => ds[k + 1] \in Level(m)
        <3>1. CASE k + 1 \in 1..N
            <4>1. ds[k + 1] \in D
                BY <1>0, <3>1
            <4> QED BY <4>1
        <3>2. CASE k + 1 \notin 1..N
            BY <3>2
        <3> QED BY <3>1, <3>2
    <2>3. PICK p \in Nat : n <= p /\ m <= p
        <3>1. n <= n + m /\ m <= n + m /\ n + m \in Nat
            OBVIOUS
        <3> QED BY <3>1
    <2>4. Level(n) \subseteq Level(p) /\ Level(m) \subseteq Level(p)
        BY <2>3, LevelsGrow
    <2>5. \A j \in 1..N : j <= k + 1 => ds[j] \in Level(p)
        <3>1. TAKE j \in 1..N
        <3>2. j <= k + 1 => j <= k \/ j = k + 1
            OBVIOUS
        <3> QED BY <2>1, <2>2, <2>4, <3>2
    <2>6. \E q \in Nat : \A j \in 1..N : j <= k + 1 => ds[j] \in Level(q)
        BY <2>5
    <2>7. k + 1 \in Nat
        OBVIOUS
    <2> QED BY <2>6, <2>7, Zenon
<1> HIDE DEF S
<1>3. N \in S
    BY <1>0, <1>1, <1>2, Induction
<1>4. PICK n \in Nat : \A j \in 1..N : j <= N => ds[j] \in Level(n)
    BY <1>3 DEF S
<1>5. \A j \in 1..N : ds[j] \in Level(n)
    BY <1>0, <1>4
<1>6. ds \in Seq(Level(n))
    BY <1>5
<1> QED BY <1>6

(* There is a set of all documents, so that the theorem above is about      *)
(* something: all that the constructors of document.go make, in any number  *)
(* of steps (document.go:24-235).                                           *)
THEOREM DocumentsExist == \E D : AllDocuments(D)
<1> DEFINE D == UNION {Level(n) : n \in Nat}
<1>1. ASSUME NEW d \in Made(D) PROVE d \in D
    <2>1. \A n \in Nat : Made(Level(n)) \subseteq D
        <3>1. TAKE n \in Nat
        <3>2. Made(Level(n)) = Level(n + 1) /\ n + 1 \in Nat
            BY LevelIs
        <3> QED BY <3>2
    <2>2. \A a, b \in D : \E n \in Nat : a \in Level(n) /\ b \in Level(n)
        <3>1. TAKE a \in D, b \in D
        <3>2. PICK m \in Nat : a \in Level(m)
            OBVIOUS
        <3>3. PICK n \in Nat : b \in Level(n)
            OBVIOUS
        <3>4. PICK p \in Nat : m <= p /\ n <= p
            <4>1. m <= m + n /\ n <= m + n /\ m + n \in Nat
                OBVIOUS
            <4> QED BY <4>1
        <3> QED BY <3>2, <3>3, <3>4, LevelsGrow
    <2>3. \E n \in Nat : d \in Made(Level(n))
        <3>1. CASE d \in {Nil, Line, SoftBreak, HardLine} \cup Texts \cup {Pad(n) : n \in Int}
            BY <3>1, 0 \in Nat DEF Made
        <3>2. CASE \E a, b \in D : d = ConcatOf(a, b) \/ d = Union(a, b)
            <4>1. PICK a \in D, b \in D : d = ConcatOf(a, b) \/ d = Union(a, b)
                BY <3>2
            <4>2. PICK n \in Nat : a \in Level(n) /\ b \in Level(n)
                BY <2>2
            <4> HIDE DEF D
            <4> QED BY <4>1, <4>2 DEF Made
        <3>3. CASE \E b \in D, n \in Int : d = NestT(b) \/ d = NestS(n, b) \/ d = Align(b)
            <4>1. PICK b \in D, n \in Int : d = NestT(b) \/ d = NestS(n, b) \/ d = Align(b)
                BY <3>3
            <4>2. PICK m \in Nat : b \in Level(m)
                OBVIOUS
            <4> HIDE DEF D
            <4> QED BY <4>1, <4>2 DEF Made
        <3>4. CASE \E l \in Texts, ds \in Seq(D) \ {<<>>}, fl \in BOOLEAN : d = Outer(l, ds, fl)
            <4>1. PICK l \in Texts, ds \in Seq(D) \ {<<>>}, fl \in BOOLEAN : d = Outer(l, ds, fl)
                BY <3>4
            <4>2. PICK n \in Nat : ds \in Seq(Level(n))
                BY SequenceInLevel
            <4> HIDE DEF D
            <4> QED BY <4>1, <4>2 DEF Made
        <3> HIDE DEF D
        <3> QED BY <1>1, <3>1, <3>2, <3>3, <3>4 DEF Made
    <2> QED BY <2>1, <2>3
<1>2. ASSUME NEW E \in SUBSET D, Made(E) \subseteq E PROVE E = D
    <2> DEFINE S == {n \in Nat : Level(n) \subseteq E}
    <2>1. 0 \in S
        BY LevelIs
    <2>2. ASSUME NEW n \in Nat, n \in S PROVE n + 1 \in S
        <3>1. Made(Level(n)) \subseteq Made(E)
            BY <2>2, MadeMonotone
        <3>2. Level(n + 1) = Made(Level(n))
            BY LevelIs
        <3> QED BY <1>2, <3>1, <3>2
    <2> HIDE DEF S
    <2>3. \A n \in Nat : n \in S
        BY <2>1, <2>2, Induction
    <2>4. D \subseteq E
        BY <2>3 DEF S
    <2> QED BY <1>2, <2>4
<1>3. AllDocuments(D)
    BY <1>1, <1>2 DEF AllDocuments
<1> QED BY <1>3
=============================================================================
