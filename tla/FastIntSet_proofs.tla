-------------------------- MODULE FastIntSet_proofs --------------------------
(***************************************************************************)
(* Proofs about FastIntSet, for words of any width and any elements.       *)
(***************************************************************************)
EXTENDS FastIntSet, FiniteSetTheorems, FunctionTheorems, TLAPS

Bitmaps == [lo : SUBSET Bits, hi : SUBSET Bits]

(* What every operation may rely on of a set, and must keep. *)
Valid(s) == s \in FastIntSets /\ Agree(s)

-----------------------------------------------------------------------------
(* The bits of a bitmap are numbered from 0, those of the high word from   *)
(* WordBits.                                                               *)
LEMMA OnesMember ==
    ASSUME NEW v \in Bitmaps, NEW i \in Int
    PROVE  i \in Ones(v) <=> i \in v.lo \/ i - WordBits \in v.hi
<1>1. v.lo \subseteq Bits /\ v.hi \subseteq Bits
  BY DEF Bitmaps
<1>2. Bits \subseteq Int /\ WordBits \in Int
  BY WordAssumption DEF Bits
<1>3. i \in {j + WordBits : j \in v.hi} <=> i - WordBits \in v.hi
  <2>1. ASSUME i \in {j + WordBits : j \in v.hi} PROVE i - WordBits \in v.hi
    <3>1. PICK j \in v.hi : i = j + WordBits
      BY <2>1
    <3>2. j \in Int
      BY <1>1, <1>2
    <3>3. j = i - WordBits
      BY <1>2, <3>1, <3>2
    <3> QED
      BY <3>3
  <2>2. ASSUME i - WordBits \in v.hi PROVE i \in {j + WordBits : j \in v.hi}
    <3>1. i = (i - WordBits) + WordBits
      BY <1>2
    <3> QED
      BY <2>2, <3>1
  <2> QED
    BY <2>1, <2>2
<1> QED
  BY <1>3 DEF Ones

(* They are below the cutoff. *)
LEMMA OnesSmall ==
    ASSUME NEW v \in Bitmaps
    PROVE  Ones(v) \subseteq Small /\ Ones(v) \subseteq Int
<1>1. ASSUME NEW i \in Ones(v) PROVE i \in Small
  <2>1. CASE i \in v.lo
    BY <2>1, WordAssumption DEF Bitmaps, Bits, Small, smallCutoff
  <2>2. CASE i \in {j + WordBits : j \in v.hi}
    <3>1. PICK j \in v.hi : i = j + WordBits
      BY <2>2
    <3> QED
      BY <3>1, WordAssumption DEF Bitmaps, Bits, Small, smallCutoff
  <2> QED
    BY <1>1, <2>1, <2>2 DEF Ones
<1>2. Small \subseteq Int
  BY WordAssumption DEF Small, smallCutoff
<1> QED
  BY <1>1, <1>2

(* Two bitmaps with the same bits are equal. *)
LEMMA OnesInjective ==
    ASSUME NEW v \in Bitmaps, NEW w \in Bitmaps, Ones(v) = Ones(w)
    PROVE  v = w
<1>1. Bits \subseteq Int /\ WordBits \in Int /\ \A i \in Bits : i - WordBits \notin Bits /\ i + WordBits \notin Bits
  BY WordAssumption DEF Bits
<1>2. ASSUME NEW i \in Bits PROVE i \in v.lo <=> i \in w.lo
  BY <1>1, OnesMember DEF Bitmaps
<1>3. ASSUME NEW i \in Bits PROVE i \in v.hi <=> i \in w.hi
  <2>1. i + WordBits \in Int /\ (i + WordBits) - WordBits = i
    BY <1>1
  <2>2. i + WordBits \notin v.lo /\ i + WordBits \notin w.lo
    BY <1>1 DEF Bitmaps
  <2> QED
    BY <2>1, <2>2, OnesMember
<1>4. v.lo = w.lo /\ v.hi = w.hi
  BY <1>2, <1>3 DEF Bitmaps
<1> QED
  BY <1>4 DEF Bitmaps

(* Setting the bits of S adds S. *)
LEMMA SetBitsOnes ==
    ASSUME NEW v \in Bitmaps, NEW S \in SUBSET Small
    PROVE  SetBits(v, S) \in Bitmaps /\ Ones(SetBits(v, S)) = Ones(v) \cup S
<1> DEFINE w == SetBits(v, S)
<1>0. WordBits \in Nat \ {0} /\ Small \subseteq Int
  BY WordAssumption DEF Small, smallCutoff
<1>1. {i - WordBits : i \in S \ Bits} \subseteq Bits
  BY <1>0 DEF Bits, Small, smallCutoff
<1>2. w \in Bitmaps
  BY <1>1 DEF SetBits, Bitmaps
<1>3. ASSUME NEW i \in Int PROVE i \in Ones(w) <=> i \in Ones(v) \cup S
  <2>1. i \in w.lo <=> i \in v.lo \/ (i \in S /\ i \in Bits)
    BY DEF SetBits
  <2>2. i - WordBits \in w.hi <=> i - WordBits \in v.hi \/ i \in S \ Bits
    <3>1. i - WordBits \in {j - WordBits : j \in S \ Bits} <=> i \in S \ Bits
      BY <1>0
    <3> QED
      BY <3>1 DEF SetBits
  <2> QED
    BY <1>2, <2>1, <2>2, OnesMember
<1>4. Ones(w) \subseteq Int /\ Ones(v) \subseteq Int /\ S \subseteq Int
  BY <1>0, <1>2, OnesSmall
<1> QED
  BY <1>2, <1>3, <1>4

(* Clearing bit i removes i, and the operations on two bitmaps are those   *)
(* of the sets.                                                            *)
LEMMA UnsetBitOnes ==
    ASSUME NEW v \in Bitmaps, NEW i \in Small
    PROVE  UnsetBit(v, i) \in Bitmaps /\ Ones(UnsetBit(v, i)) = Ones(v) \ {i}
<1> DEFINE w == UnsetBit(v, i)
<1>0. WordBits \in Nat \ {0} /\ Small \subseteq Int /\ Bits = 0..(WordBits - 1)
  BY WordAssumption DEF Small, smallCutoff, Bits
<1>1. w \in Bitmaps
  BY DEF UnsetBit, Bitmaps
<1>2. ASSUME NEW j \in Int PROVE j \in Ones(w) <=> j \in Ones(v) /\ j # i
  <2>0. v.lo \subseteq Bits /\ v.hi \subseteq Bits
    BY DEF Bitmaps
  <2>1. CASE i < WordBits
    <3>1. w.lo = v.lo \ {i} /\ w.hi = v.hi
      BY <2>1 DEF UnsetBit, Bitmaps
    <3>2. i - WordBits \notin Bits
      BY <1>0, <2>1
    <3>3. j - WordBits \in v.hi => j # i
      BY <2>0, <3>2
    <3> QED
      BY <1>1, <3>1, <3>3, OnesMember
  <2>2. CASE ~(i < WordBits)
    <3>1. w.lo = v.lo /\ w.hi = v.hi \ {i - WordBits}
      BY <2>2 DEF UnsetBit, Bitmaps
    <3>2. i \notin Bits
      BY <1>0, <2>2
    <3>3. j \in v.lo => j # i
      BY <2>0, <3>2
    <3>4. j - WordBits = i - WordBits <=> j = i
      BY <1>0
    <3> QED
      BY <1>1, <3>1, <3>3, <3>4, OnesMember
  <2> QED
    BY <2>1, <2>2
<1>3. Ones(w) \subseteq Int /\ Ones(v) \subseteq Int
  BY <1>1, OnesSmall
<1> QED
  BY <1>1, <1>2, <1>3

LEMMA BitOperations ==
    ASSUME NEW v \in Bitmaps, NEW w \in Bitmaps
    PROVE  /\ BitUnion(v, w) \in Bitmaps
           /\ BitIntersect(v, w) \in Bitmaps
           /\ BitDifference(v, w) \in Bitmaps
           /\ Ones(BitUnion(v, w)) = Ones(v) \cup Ones(w)
           /\ Ones(BitIntersect(v, w)) = Ones(v) \cap Ones(w)
           /\ Ones(BitDifference(v, w)) = Ones(v) \ Ones(w)
<1>0. /\ v.lo \subseteq Bits /\ v.hi \subseteq Bits /\ w.lo \subseteq Bits /\ w.hi \subseteq Bits
      /\ \A i \in Bits : i \in Int /\ i - WordBits \notin Bits
      /\ WordBits \in Int
  BY WordAssumption DEF Bitmaps, Bits
<1>1. BitUnion(v, w) \in Bitmaps /\ BitIntersect(v, w) \in Bitmaps /\ BitDifference(v, w) \in Bitmaps
  BY DEF Bitmaps, BitUnion, BitIntersect, BitDifference
<1>2. ASSUME NEW i \in Int
      PROVE  /\ i \in Ones(BitUnion(v, w)) <=> i \in Ones(v) \/ i \in Ones(w)
             /\ i \in Ones(BitIntersect(v, w)) <=> i \in Ones(v) /\ i \in Ones(w)
             /\ i \in Ones(BitDifference(v, w)) <=> i \in Ones(v) /\ i \notin Ones(w)
  <2> DEFINE k == i - WordBits
  <2>1. /\ i \in Ones(v) <=> i \in v.lo \/ k \in v.hi
        /\ i \in Ones(w) <=> i \in w.lo \/ k \in w.hi
        /\ i \in Ones(BitUnion(v, w)) <=> i \in BitUnion(v, w).lo \/ k \in BitUnion(v, w).hi
        /\ i \in Ones(BitIntersect(v, w)) <=> i \in BitIntersect(v, w).lo \/ k \in BitIntersect(v, w).hi
        /\ i \in Ones(BitDifference(v, w)) <=> i \in BitDifference(v, w).lo \/ k \in BitDifference(v, w).hi
    BY <1>1, OnesMember
  <2>2. ~(i \in Bits /\ k \in Bits)
    BY <1>0
  <2>3. /\ BitUnion(v, w).lo = v.lo \cup w.lo /\ BitUnion(v, w).hi = v.hi \cup w.hi
        /\ BitIntersect(v, w).lo = v.lo \cap w.lo /\ BitIntersect(v, w).hi = v.hi \cap w.hi
        /\ BitDifference(v, w).lo = v.lo \ w.lo /\ BitDifference(v, w).hi = v.hi \ w.hi
    BY DEF BitUnion, BitIntersect, BitDifference
  <2> HIDE DEF k
  <2> QED
    BY <1>0, <2>1, <2>2, <2>3
<1>3. /\ Ones(v) \subseteq Int /\ Ones(w) \subseteq Int
      /\ Ones(BitUnion(v, w)) \subseteq Int
      /\ Ones(BitIntersect(v, w)) \subseteq Int
      /\ Ones(BitDifference(v, w)) \subseteq Int
  BY <1>1, OnesSmall
<1>4. Ones(BitUnion(v, w)) = Ones(v) \cup Ones(w)
  BY <1>2, <1>3
<1>5. Ones(BitIntersect(v, w)) = Ones(v) \cap Ones(w)
  BY <1>2, <1>3
<1>6. Ones(BitDifference(v, w)) = Ones(v) \ Ones(w)
  BY <1>2, <1>3
<1> QED
  BY <1>1, <1>4, <1>5, <1>6

-----------------------------------------------------------------------------
LEMMA SmallFinite == IsFiniteSet(Small) /\ IsFiniteSet(Bits)
  BY WordAssumption, FS_Interval DEF Small, smallCutoff, Bits

(* A valid set: its parts, its elements, and those of them in the bitmap.  *)
LEMMA ValidParts ==
    ASSUME NEW s, Valid(s)
    PROVE  /\ s.small \in Bitmaps /\ s.alloc \in BOOLEAN /\ s.large \in SUBSET Int
           /\ Ones(s.small) \subseteq Small
           /\ Elements(s) \subseteq Int /\ IsFiniteSet(Elements(s))
           /\ Ones(s.small) = Elements(s) \cap Small
           /\ ~s.alloc => Elements(s) = Ones(s.small) /\ s.large = {}
           /\ s.alloc => Elements(s) = s.large
           /\ toLarge(s) = Elements(s)
<1>1. /\ s.small \in Bitmaps /\ s.alloc \in BOOLEAN /\ s.large \in SUBSET Int
      /\ IsFiniteSet(s.large)
      /\ s.alloc \/ s.large = {}
  BY DEF Valid, FastIntSets, Bitmaps
<1>2. /\ Ones(s.small) \subseteq Small /\ Ones(s.small) \subseteq Int
      /\ IsFiniteSet(Ones(s.small))
  BY <1>1, OnesSmall, SmallFinite, FS_Subset
<1>3. toLarge(s) = Elements(s)
  BY DEF toLarge, Elements
<1>4. CASE s.alloc
  BY <1>1, <1>2, <1>3, <1>4 DEF Valid, Agree, Elements
<1>5. CASE ~s.alloc
  BY <1>1, <1>2, <1>3, <1>5 DEF Elements
<1> QED
  BY <1>1, <1>4, <1>5

(* A record made of a bitmap and a Sparse that agree on E is valid, and    *)
(* its elements are E.                                                     *)
LEMMA MakeValid ==
    ASSUME NEW small \in Bitmaps, NEW alloc \in BOOLEAN, NEW large \in SUBSET Int,
           NEW E \in SUBSET Int, IsFiniteSet(E),
           Ones(small) = E \cap Small,
           alloc => large = E,
           ~alloc => large = {} /\ E \subseteq Small
    PROVE  LET s == [small |-> small, alloc |-> alloc, large |-> large]
           IN  Valid(s) /\ Elements(s) = E
<1> DEFINE s == [small |-> small, alloc |-> alloc, large |-> large]
<1>1. s \in FastIntSets
  BY FS_EmptySet DEF FastIntSets, Bitmaps
<1>2. s.small = small /\ s.alloc = alloc /\ s.large = large
  OBVIOUS
<1>3. Agree(s)
  BY <1>2 DEF Agree
<1>4. Elements(s) = E
  BY <1>2 DEF Elements
<1> QED
  BY <1>1, <1>3, <1>4 DEF Valid

-----------------------------------------------------------------------------
(* Each operation keeps its receiver valid and does to its elements what   *)
(* the reference variant does.                                             *)
LEMMA EmptyValid == Valid(EmptySet) /\ Elements(EmptySet) = {}
<1>1. NoBits \in Bitmaps /\ Ones(NoBits) = {}
  BY DEF NoBits, Bitmaps, Ones
<1>2. EmptySet = [small |-> NoBits, alloc |-> FALSE, large |-> {}]
  BY DEF EmptySet
<1> QED
  BY <1>1, <1>2, FS_EmptySet, MakeValid

LEMMA SmallIsInt == Small \subseteq Int
  BY WordAssumption DEF Small, smallCutoff

LEMMA AddedValid ==
    ASSUME NEW s, Valid(s), NEW i \in Int
    PROVE  Valid(Added(s, i)) /\ Elements(Added(s, i)) = Elements(s) \cup {i}
<1> DEFINE small == IF i \in Small THEN SetBits(s.small, {i}) ELSE s.small
           alloc == s.alloc \/ i \notin Small
           large == IF alloc THEN toLarge([s EXCEPT !.small = small]) \cup {i} ELSE {}
           E     == Elements(s) \cup {i}
<1>1. small \in Bitmaps /\ Ones(small) = E \cap Small
  <2>1. CASE i \in Small
    <3>1. {i} \in SUBSET Small
      BY <2>1
    <3> QED
      BY <2>1, <3>1, ValidParts, SetBitsOnes
  <2>2. CASE i \notin Small
    BY <2>2, ValidParts
  <2> QED
    BY <2>1, <2>2
<1>2. alloc \in BOOLEAN
  OBVIOUS
<1>3. E \in SUBSET Int
  BY ValidParts
<1>4. alloc => large = E
  <2>1. CASE s.alloc
    <3>1. toLarge([s EXCEPT !.small = small]) = s.large
      BY <2>1 DEF toLarge, Valid, FastIntSets
    <3> QED
      BY <2>1, <3>1, ValidParts
  <2>2. CASE ~s.alloc /\ i \notin Small
    <3>1. small = s.small
      BY <2>2
    <3>2. toLarge([s EXCEPT !.small = small]) = Ones(s.small)
      BY <2>2, <3>1 DEF toLarge, Valid, FastIntSets
    <3> QED
      BY <2>2, <3>2, ValidParts
  <2> QED
    BY <2>1, <2>2
<1>5. ~alloc => large = {} /\ E \subseteq Small
  BY ValidParts
<1>6. large \in SUBSET Int
  BY <1>3, <1>4
<1>7. Added(s, i) = [small |-> small, alloc |-> alloc, large |-> large]
  BY DEF Added
<1>0. IsFiniteSet(E)
  BY ValidParts, FS_AddElement
<1> HIDE DEF small, alloc, large, E
<1>8. Valid(Added(s, i)) /\ Elements(Added(s, i)) = E
  BY <1>0, <1>1, <1>2, <1>3, <1>4, <1>5, <1>6, <1>7, MakeValid
<1> QED
  BY <1>8 DEF E

LEMMA AddAllValid ==
    ASSUME NEW s, Valid(s), NEW S \in SUBSET Int, IsFiniteSet(S)
    PROVE  Valid(AddAll(s, S)) /\ Elements(AddAll(s, S)) = Elements(s) \cup S
<1> DEFINE small == SetBits(s.small, S \cap Small)
           alloc == s.alloc \/ ~(S \subseteq Small)
           large == IF alloc THEN toLarge(s) \cup S ELSE {}
           E     == Elements(s) \cup S
<1>1. small \in Bitmaps /\ Ones(small) = E \cap Small
  <2>1. S \cap Small \in SUBSET Small
    OBVIOUS
  <2>2. small \in Bitmaps /\ Ones(small) = Ones(s.small) \cup (S \cap Small)
    BY <2>1, ValidParts, SetBitsOnes
  <2> QED
    BY <2>2, ValidParts
<1>2. alloc \in BOOLEAN
  OBVIOUS
<1>3. E \in SUBSET Int
  BY ValidParts
<1>4. alloc => large = E
  BY ValidParts
<1>5. ~alloc => large = {} /\ E \subseteq Small
  BY ValidParts
<1>6. large \in SUBSET Int
  BY <1>3, <1>4
<1>7. AddAll(s, S) = [small |-> small, alloc |-> alloc, large |-> large]
  BY DEF AddAll
<1>0. IsFiniteSet(E)
  BY ValidParts, FS_Union
<1> HIDE DEF small, alloc, large, E
<1>8. Valid(AddAll(s, S)) /\ Elements(AddAll(s, S)) = E
  BY <1>0, <1>1, <1>2, <1>3, <1>4, <1>5, <1>6, <1>7, MakeValid
<1> QED
  BY <1>8 DEF E

(* The bitmap follows from the elements.                                   *)
LEMMA SmallDetermined ==
    ASSUME NEW s, Valid(s), NEW t, Valid(t), Elements(s) = Elements(t)
    PROVE  s.small = t.small
<1>1. s.small \in Bitmaps /\ Ones(s.small) = Elements(s) \cap Small
  BY ValidParts
<1>2. t.small \in Bitmaps /\ Ones(t.small) = Elements(t) \cap Small
  BY ValidParts
<1> QED
  BY <1>1, <1>2, OnesInjective

(* AddAll is what the loop of Adds does: nothing for no element, and for   *)
(* one more element what Add does before the rest.                         *)
LEMMA AddAllIsLoop ==
    ASSUME NEW s, Valid(s), NEW i \in Int, NEW S \in SUBSET Int, IsFiniteSet(S)
    PROVE  /\ AddAll(s, {}) = s
           /\ AddAll(Added(s, i), S) = AddAll(s, S \cup {i})
<1> DEFINE t == Added(s, i)
           x == AddAll(t, S)
           y == AddAll(s, S \cup {i})
           z == AddAll(s, {})
<1>1. Valid(t) /\ Elements(t) = Elements(s) \cup {i}
  BY AddedValid
<1>2. Valid(x) /\ Valid(y) /\ Elements(x) = Elements(y)
  <2>1. S \cup {i} \in SUBSET Int /\ IsFiniteSet(S \cup {i})
    BY FS_AddElement
  <2>2. Valid(x) /\ Elements(x) = (Elements(s) \cup {i}) \cup S
    BY <1>1, AddAllValid
  <2>3. Valid(y) /\ Elements(y) = Elements(s) \cup (S \cup {i})
    BY <2>1, AddAllValid
  <2> QED
    BY <2>2, <2>3
<1>3. t.alloc = (s.alloc \/ i \notin Small)
  BY DEF Added
<1>4. x.alloc = y.alloc
  BY <1>3 DEF AddAll
<1>5. /\ ~x.alloc => x.large = {}
      /\ ~y.alloc => y.large = {}
  BY DEF AddAll
<1>6. x.large = y.large
  BY <1>2, <1>4, <1>5, ValidParts
<1>7. x.small = y.small
  BY <1>2, SmallDetermined
<1>8. /\ x = [small |-> x.small, alloc |-> x.alloc, large |-> x.large]
      /\ y = [small |-> y.small, alloc |-> y.alloc, large |-> y.large]
  BY DEF AddAll
<1>9. x = y
  BY <1>4, <1>6, <1>7, <1>8
<1>10. Valid(z) /\ Elements(z) = Elements(s)
  BY AddAllValid, FS_EmptySet
<1>11. z.small = s.small
  BY <1>10, SmallDetermined
<1>12. z.alloc = s.alloc
  <2>1. z.alloc = (s.alloc \/ ~({} \subseteq Small))
    BY DEF AddAll
  <2> QED
    BY <2>1, ValidParts
<1>13. z.large = s.large
  BY <1>10, <1>12, ValidParts
<1>14. /\ z = [small |-> z.small, alloc |-> z.alloc, large |-> z.large]
       /\ s = [small |-> s.small, alloc |-> s.alloc, large |-> s.large]
  BY DEF AddAll, Valid, FastIntSets
<1>15. z = s
  BY <1>11, <1>12, <1>13, <1>14, <1>15
<1> QED
  BY <1>9, <1>15

LEMMA RangeAddedValid ==
    ASSUME NEW s, Valid(s), NEW from \in Int, NEW to \in Int
    PROVE  /\ Valid(RangeAdded(s, from, to))
           /\ Elements(RangeAdded(s, from, to)) = Elements(s) \cup from..to
<1>1. CASE ~s.alloc /\ from >= 0 /\ to < smallCutoff
  <2> DEFINE small == SetBits(s.small, from..to)
             E     == Elements(s) \cup from..to
  <2>1. from..to \in SUBSET Small
    BY <1>1, WordAssumption DEF Small, smallCutoff
  <2>2. small \in Bitmaps /\ Ones(small) = Ones(s.small) \cup from..to
    BY <2>1, ValidParts, SetBitsOnes
  <2>3. Ones(s.small) = Elements(s) /\ Elements(s) \subseteq Small /\ s.large = {}
    BY <1>1, ValidParts
  <2>0. IsFiniteSet(E) /\ IsFiniteSet(from..to)
    BY ValidParts, FS_Interval, FS_Union
  <2>4. E \in SUBSET Int /\ Ones(small) = E \cap Small /\ E \subseteq Small
    BY <2>1, <2>2, <2>3, ValidParts
  <2>5. RangeAdded(s, from, to) = [small |-> small, alloc |-> FALSE, large |-> {}]
    <3>1. RangeAdded(s, from, to) = [s EXCEPT !.small = small]
      BY <1>1 DEF RangeAdded
    <3>2. s = [small |-> s.small, alloc |-> s.alloc, large |-> s.large] /\ s.alloc = FALSE
      BY <1>1 DEF Valid, FastIntSets
    <3> HIDE DEF small
    <3> QED
      BY <2>3, <3>1, <3>2
  <2> HIDE DEF small, E
  <2>6. Valid(RangeAdded(s, from, to)) /\ Elements(RangeAdded(s, from, to)) = E
    BY <2>0, <2>2, <2>4, <2>5, MakeValid
  <2> QED
    BY <2>6 DEF E
<1>2. CASE ~(~s.alloc /\ from >= 0 /\ to < smallCutoff)
  <2>1. RangeAdded(s, from, to) = AddAll(s, from..to)
    BY <1>2 DEF RangeAdded
  <2>2. from..to \in SUBSET Int /\ IsFiniteSet(from..to)
    BY FS_Interval
  <2> QED
    BY <2>1, <2>2, AddAllValid
<1> QED
  BY <1>1, <1>2

LEMMA RemovedValid ==
    ASSUME NEW s, Valid(s), NEW i \in Int
    PROVE  Valid(Removed(s, i)) /\ Elements(Removed(s, i)) = Elements(s) \ {i}
<1> DEFINE small == IF i \in Small THEN UnsetBit(s.small, i) ELSE s.small
           large == s.large \ {i}
           E     == Elements(s) \ {i}
<1>1. small \in Bitmaps /\ Ones(small) = E \cap Small
  <2>1. CASE i \in Small
    BY <2>1, ValidParts, UnsetBitOnes
  <2>2. CASE i \notin Small
    BY <2>2, ValidParts
  <2> QED
    BY <2>1, <2>2
<1>2. s.alloc \in BOOLEAN /\ E \in SUBSET Int /\ large \in SUBSET Int
  BY ValidParts
<1>3. s.alloc => large = E
  BY ValidParts
<1>4. ~s.alloc => large = {} /\ E \subseteq Small
  BY ValidParts
<1>5. Removed(s, i) = [small |-> small, alloc |-> s.alloc, large |-> large]
  BY DEF Removed
<1>0. IsFiniteSet(E)
  BY ValidParts, FS_RemoveElement
<1> HIDE DEF small, large, E
<1>6. Valid(Removed(s, i)) /\ Elements(Removed(s, i)) = E
  BY <1>0, <1>1, <1>2, <1>3, <1>4, <1>5, MakeValid
<1> QED
  BY <1>6 DEF E

LEMMA CopiedValid ==
    ASSUME NEW s, Valid(s)
    PROVE  Valid(Copied(s)) /\ Elements(Copied(s)) = Elements(s)
<1>1. Copied(s) = s
  BY DEF Copied, Valid, FastIntSets
<1> QED
  BY <1>1

(* A small source leaves an empty Sparse in a large receiver, which is     *)
(* then valid only if the source is empty: hence the third assumption.     *)
LEMMA CopiedFromValid ==
    ASSUME NEW s, NEW r, Valid(s), Valid(r), r.alloc \/ ~s.alloc \/ r.small = NoBits
    PROVE  Valid(CopiedFrom(s, r)) /\ Elements(CopiedFrom(s, r)) = Elements(r)
<1>1. CASE r.alloc \/ ~s.alloc
  <2>1. (s.alloc \/ r.alloc) = r.alloc
    BY <1>1, ValidParts
  <2>2. CopiedFrom(s, r) = r
    BY <2>1 DEF CopiedFrom, Valid, FastIntSets
  <2> QED
    BY <2>2
<1>2. CASE ~r.alloc /\ s.alloc /\ r.small = NoBits
  <2> DEFINE small == r.small
             alloc == TRUE
             none == {}
  <2>1. small \in Bitmaps /\ Ones(small) = {} /\ Elements(r) = {} /\ r.large = {}
    BY <1>2, EmptyValid, ValidParts DEF Elements, EmptySet, Ones, NoBits
  <2>2. CopiedFrom(s, r) = [small |-> small, alloc |-> alloc, large |-> none]
    BY <1>2, <2>1 DEF CopiedFrom
  <2>3. alloc \in BOOLEAN /\ alloc = TRUE /\ none = {}
    OBVIOUS
  <2>4. none \in SUBSET Int /\ IsFiniteSet(none) /\ Ones(small) = none \cap Small
    BY <2>1, FS_EmptySet
  <2> HIDE DEF small, alloc, none
  <2>5. (alloc => none = none) /\ (~alloc => none = {} /\ none \subseteq Small)
    BY <2>3
  <2> DEFINE c == [small |-> small, alloc |-> alloc, large |-> none]
  <2>6. Valid(c) /\ Elements(c) = none
    BY <2>1, <2>3, <2>4, <2>5, MakeValid
  <2> QED
    BY <2>1, <2>2, <2>3, <2>6
<1> QED
  BY <1>1, <1>2

(* And if it is not empty, its elements are lost.                          *)
LEMMA StaleCopied ==
    ASSUME NEW s, NEW r, Valid(s), Valid(r), s.alloc, ~r.alloc, r.small # NoBits
    PROVE  Elements(CopiedFrom(s, r)) = {} /\ Elements(r) # {}
<1>1. r.large = {} /\ Elements(r) = Ones(r.small) /\ r.small \in Bitmaps
  BY ValidParts
<1>2. Elements(CopiedFrom(s, r)) = {}
  BY <1>1 DEF CopiedFrom, Elements
<1>3. r.small = [lo |-> r.small.lo, hi |-> r.small.hi]
  BY <1>1 DEF Bitmaps
<1>4. r.small.lo # {} \/ r.small.hi # {}
  BY <1>3 DEF NoBits
<1>5. Ones(r.small) # {}
  BY <1>4 DEF Ones
<1> QED
  BY <1>1, <1>2, <1>5

LEMMA UnitedWithValid ==
    ASSUME NEW s, NEW r, Valid(s), Valid(r)
    PROVE  /\ Valid(UnitedWith(s, r))
           /\ Elements(UnitedWith(s, r)) = Elements(s) \cup Elements(r)
<1> DEFINE small == BitUnion(s.small, r.small)
           alloc == s.alloc \/ r.alloc
           made  == toLarge([s EXCEPT !.small = small])
           large == IF alloc THEN made \cup toLarge(r) ELSE {}
           E     == Elements(s) \cup Elements(r)
<1>1. small \in Bitmaps /\ Ones(small) = Ones(s.small) \cup Ones(r.small)
  BY ValidParts, BitOperations
<1>2. Ones(small) = E \cap Small
  BY <1>1, ValidParts
<1>3. alloc \in BOOLEAN /\ E \in SUBSET Int
  BY ValidParts
<1>4. made = IF s.alloc THEN s.large ELSE Ones(small)
  BY DEF toLarge, Valid, FastIntSets
<1>5. alloc => large = E
  <2>1. CASE s.alloc
    BY <1>4, <2>1, ValidParts
  <2>2. CASE ~s.alloc /\ r.alloc
    <3>1. made = Elements(s) \cup Ones(r.small)
      BY <1>1, <1>4, <2>2, ValidParts
    <3>2. Ones(r.small) \subseteq Elements(r) /\ toLarge(r) = Elements(r)
      BY ValidParts
    <3> QED
      BY <2>2, <3>1, <3>2
  <2> QED
    BY <2>1, <2>2
<1>6. ~alloc => large = {} /\ E \subseteq Small
  BY ValidParts
<1>7. large \in SUBSET Int
  BY <1>3, <1>5, <1>6
<1>8. UnitedWith(s, r) = [small |-> small, alloc |-> alloc, large |-> large]
  BY DEF UnitedWith
<1>0. IsFiniteSet(E)
  BY ValidParts, FS_Union
<1> HIDE DEF small, alloc, large, E
<1>9. Valid(UnitedWith(s, r)) /\ Elements(UnitedWith(s, r)) = E
  BY <1>0, <1>1, <1>2, <1>3, <1>5, <1>6, <1>7, <1>8, MakeValid
<1> QED
  BY <1>9 DEF E

LEMMA IntersectedWithValid ==
    ASSUME NEW s, NEW r, Valid(s), Valid(r)
    PROVE  /\ Valid(IntersectedWith(s, r))
           /\ Elements(IntersectedWith(s, r)) = Elements(s) \cap Elements(r)
<1> DEFINE small == BitIntersect(s.small, r.small)
           alloc == s.alloc /\ r.alloc
           large == IF alloc THEN s.large \cap toLarge(r) ELSE {}
           E     == Elements(s) \cap Elements(r)
<1>1. small \in Bitmaps /\ Ones(small) = Ones(s.small) \cap Ones(r.small)
  BY ValidParts, BitOperations
<1>2. Ones(small) = E \cap Small
  BY <1>1, ValidParts
<1>3. alloc \in BOOLEAN /\ E \in SUBSET Int
  BY ValidParts
<1>4. alloc => large = E
  BY ValidParts
<1>5. ~alloc => large = {} /\ E \subseteq Small
  BY ValidParts
<1>6. large \in SUBSET Int
  BY <1>3, <1>4, <1>5
<1>7. IntersectedWith(s, r) = [small |-> small, alloc |-> alloc, large |-> large]
  BY DEF IntersectedWith
<1>0. IsFiniteSet(E)
  BY ValidParts, FS_Intersection
<1> HIDE DEF small, alloc, large, E
<1>8. Valid(IntersectedWith(s, r)) /\ Elements(IntersectedWith(s, r)) = E
  BY <1>0, <1>1, <1>2, <1>3, <1>4, <1>5, <1>6, <1>7, MakeValid, SMTT(60)
<1> QED
  BY <1>8 DEF E

LEMMA DifferenceOfValid ==
    ASSUME NEW s, NEW r, Valid(s), Valid(r)
    PROVE  /\ Valid(DifferenceOf(s, r))
           /\ Elements(DifferenceOf(s, r)) = Elements(s) \ Elements(r)
<1> DEFINE small == BitDifference(s.small, r.small)
           large == s.large \ toLarge(r)
           E     == Elements(s) \ Elements(r)
<1>1. small \in Bitmaps /\ Ones(small) = Ones(s.small) \ Ones(r.small)
  BY ValidParts, BitOperations
<1>2. Ones(small) = E \cap Small
  BY <1>1, ValidParts
<1>3. s.alloc \in BOOLEAN /\ E \in SUBSET Int /\ large \in SUBSET Int
  BY ValidParts
<1>4. s.alloc => large = E
  BY ValidParts
<1>5. ~s.alloc => large = {} /\ E \subseteq Small
  BY ValidParts
<1>6. DifferenceOf(s, r) = [small |-> small, alloc |-> s.alloc, large |-> large]
  BY DEF DifferenceOf
<1>0. IsFiniteSet(E)
  BY ValidParts, FS_Subset
<1> HIDE DEF small, large, E
<1>7. Valid(DifferenceOf(s, r)) /\ Elements(DifferenceOf(s, r)) = E
  BY <1>0, <1>1, <1>2, <1>3, <1>4, <1>5, <1>6, MakeValid
<1> QED
  BY <1>7 DEF E

(* A bitmap of no bit set counts none, and only that one does.             *)
LEMMA OnesCountZero ==
    ASSUME NEW v \in Bitmaps
    PROVE  OnesCount(v) \in Nat /\ (OnesCount(v) = 0 <=> v.lo = {} /\ v.hi = {})
<1>1. IsFiniteSet(v.lo) /\ IsFiniteSet(v.hi)
  BY SmallFinite, FS_Subset DEF Bitmaps
<1>2. Cardinality(v.lo) \in Nat /\ Cardinality(v.hi) \in Nat
  BY <1>1, FS_CardinalityType
<1>3. (Cardinality(v.lo) = 0 <=> v.lo = {}) /\ (Cardinality(v.hi) = 0 <=> v.hi = {})
  BY <1>1, FS_EmptySet
<1> DEFINE lo == Cardinality(v.lo)
           hi == Cardinality(v.hi)
<1>4. lo \in Nat /\ hi \in Nat /\ OnesCount(v) = lo + hi
  BY <1>2 DEF OnesCount
<1>5. (lo = 0 <=> v.lo = {}) /\ (hi = 0 <=> v.hi = {})
  BY <1>3
<1> HIDE DEF lo, hi
<1>6. OnesCount(v) \in Nat /\ (OnesCount(v) = 0 <=> lo = 0 /\ hi = 0)
  BY <1>4
<1> QED
  BY <1>5, <1>6

(* What Encode writes in its short form is all the set has, and in its     *)
(* long form never begins with the 0 that marks the short one.             *)
LEMMA EncodedForm ==
    ASSUME NEW r, Valid(r)
    PROVE  /\ Encoded(r).length = 0 =>
                 Encoded(r).word \in SUBSET Bits /\ Encoded(r).word = Elements(r)
           /\ Encoded(r).length # 0 => Encoded(r).elems = Elements(r)
<1>0. r.small \in Bitmaps /\ r.small.lo \subseteq Bits
  BY ValidParts DEF Bitmaps
<1>1. CASE r.small.hi = {} /\ fitsInSmall(r)
  <2>1. Encoded(r) = [length |-> 0, word |-> r.small.lo, elems |-> {}]
    BY <1>1 DEF Encoded
  <2>2. Ones(r.small) = r.small.lo
    BY <1>1 DEF Ones
  <2>3. Elements(r) \subseteq Small
    BY <1>1, ValidParts DEF fitsInSmall
  <2>4. Elements(r) = r.small.lo
    BY <2>2, <2>3, ValidParts
  <2> QED
    BY <1>0, <2>1, <2>4
<1>2. CASE ~(r.small.hi = {} /\ fitsInSmall(r))
  <2>1. Encoded(r) = [length |-> Length(r), word |-> {}, elems |-> Ones(r.small) \cup toLarge(r)]
    BY <1>2 DEF Encoded
  <2>2. Ones(r.small) \cup toLarge(r) = Elements(r)
    BY ValidParts
  <2>3. Length(r) # 0
    <3>1. CASE ~r.alloc
      <4>1. r.small.hi # {}
        BY <1>2, <3>1 DEF fitsInSmall
      <4> QED
        BY <1>0, <3>1, <4>1, OnesCountZero DEF Length
    <3>2. CASE r.alloc
      <4>1. r.large = Elements(r) /\ IsFiniteSet(r.large)
        BY <3>2, ValidParts
      <4>2. r.large # {}
        <5>1. CASE ~fitsInSmall(r)
          BY <3>2, <5>1 DEF fitsInSmall
        <5>2. CASE r.small.hi # {}
          <6>1. Ones(r.small) # {}
            BY <5>2 DEF Ones
          <6> QED
            BY <4>1, <6>1, ValidParts
        <5> QED
          BY <1>2, <5>1, <5>2
      <4> QED
        BY <3>2, <4>1, <4>2, FS_EmptySet DEF Length
    <3> QED
      BY <3>1, <3>2, ValidParts
  <2> QED
    BY <2>1, <2>2, <2>3
<1> QED
  BY <1>1, <1>2

LEMMA DecodedValid ==
    ASSUME NEW s, NEW r, Valid(s), Valid(r), NEW missing \in Faults
    PROVE  LET d == Decoded(s, Encoded(r), missing)
           IN  /\ Valid(d)
               /\ missing = "nothing" => Elements(d) = Elements(r)
               /\ missing = "length" => Elements(d) = Elements(s)
               /\ missing = "elements" => Elements(d) = {}
<1> DEFINE d == Decoded(s, Encoded(r), missing)
           enc == Encoded(r)
<1>1. CASE missing = "length"
  BY <1>1 DEF Decoded
<1>2. CASE missing = "elements"
  BY <1>2, EmptyValid DEF Decoded
<1>3. CASE missing = "nothing" /\ enc.length = 0
  <2> DEFINE small == [lo |-> enc.word, hi |-> {}]
  <2>1. enc.word \in SUBSET Bits /\ enc.word = Elements(r)
    BY <1>3, EncodedForm
  <2>2. small \in Bitmaps /\ Ones(small) = Elements(r)
    BY <2>1 DEF Bitmaps, Ones
  <2>3. Elements(r) \subseteq Small
    BY <2>2, OnesSmall
  <2>4. d = [EmptySet EXCEPT !.small.lo = enc.word]
    BY <1>3 DEF Decoded
  <2>5. d = [small |-> small, alloc |-> FALSE, large |-> {}]
    BY <2>4 DEF EmptySet, NoBits
  <2> DEFINE E == Elements(r)
             alloc == FALSE
             none == {}
  <2> HIDE DEF small, enc
  <2>6. E \in SUBSET Int /\ IsFiniteSet(E) /\ E \subseteq Small /\ Ones(small) = E \cap Small
    BY <2>2, <2>3, ValidParts
  <2>7. /\ alloc \in BOOLEAN /\ none \in SUBSET Int
        /\ alloc => none = E
        /\ ~alloc => none = {} /\ E \subseteq Small
    BY <2>6
  <2>8. d = [small |-> small, alloc |-> alloc, large |-> none]
    BY <2>5
  <2> HIDE DEF d, E, alloc, none
  <2>9. Valid(d) /\ Elements(d) = E
    BY <2>2, <2>6, <2>7, <2>8, MakeValid
  <2> QED
    BY <1>3, <2>9 DEF d, E
<1>4. CASE missing = "nothing" /\ enc.length # 0
  <2>1. enc.elems = Elements(r)
    BY <1>4, EncodedForm
  <2>2. d = AddAll(EmptySet, Elements(r))
    BY <1>4, <2>1 DEF Decoded
  <2>3. Elements(r) \in SUBSET Int /\ IsFiniteSet(Elements(r))
    BY ValidParts
  <2>4. Valid(d) /\ Elements(d) = Elements(r)
    BY <2>2, <2>3, EmptyValid, AddAllValid
  <2> QED
    BY <1>4, <2>4
<1> QED
  BY <1>1, <1>2, <1>3, <1>4 DEF Faults

-----------------------------------------------------------------------------
(* The inductive invariant: every variable holds a valid set.              *)
IInv == set \in [Names -> FastIntSets] /\ \A a \in Names : Valid(set[a])

LEMMA IInvExact == IInv <=> TypeOK /\ BitmapMaintained
  BY DEF IInv, TypeOK, BitmapMaintained, Valid

(* Assigning a valid set to a keeps the invariant, and is the assignment   *)
(* of its elements in the reference.                                       *)
LEMMA AssignStep ==
    ASSUME IInv, NEW a \in Names, NEW s, Valid(s), Assign(a, s)
    PROVE  IInv' /\ Reference!Assign(a, Elements(s))
<1>1. set' = [set EXCEPT ![a] = s] /\ s \in FastIntSets
  BY DEF Assign, Valid
<1>2. IInv'
  BY <1>1 DEF IInv
<1>3. [x \in Names |-> Elements(set'[x])] = [[x \in Names |-> Elements(set[x])] EXCEPT ![a] = Elements(s)]
  BY <1>1 DEF IInv
<1> QED
  BY <1>2, <1>3 DEF Reference!Assign

LEMMA InitIInv == Init => IInv
  BY EmptyValid DEF Init, IInv, Valid

(* Every operation keeps the invariant and is the operation of the same    *)
(* name of the reference.                                                  *)
LEMMA OperationStep ==
    ASSUME IInv, NEW a \in Names
    PROVE  /\ \A S \in Given : Make(a, S) => IInv' /\ Reference!Make(a, S)
           /\ \A i \in Elems : /\ Add(a, i) => IInv' /\ Reference!Add(a, i)
                               /\ Remove(a, i) => IInv' /\ Reference!Remove(a, i)
           /\ \A from, to \in Elems :
                 AddRange(a, from, to) => IInv' /\ Reference!AddRange(a, from, to)
           /\ \A b \in Names :
                 /\ Copy(a, b) => IInv' /\ Reference!Copy(a, b)
                 /\ CopyFrom(a, b) /\ ~StaleCopy(a, b) => IInv' /\ Reference!CopyFrom(a, b)
                 /\ CopyFrom(a, b) /\ StaleCopy(a, b) => ~Reference!CopyFrom(a, b)
                 /\ Elements(CopiedFrom(set[a], set[b])) = Elements(set[b]) <=> ~StaleCopy(a, b)
                 /\ UnionWith(a, b) => IInv' /\ Reference!UnionWith(a, b)
                 /\ IntersectionWith(a, b) => IInv' /\ Reference!IntersectionWith(a, b)
                 /\ DifferenceWith(a, b) => IInv' /\ Reference!DifferenceWith(a, b)
                 /\ \A missing \in Faults :
                       Decode(a, b, missing) => IInv' /\ Reference!Decode(a, b, missing)
           /\ \A b, c \in Names :
                 /\ Union(a, b, c) => IInv' /\ Reference!Union(a, b, c)
                 /\ Intersection(a, b, c) => IInv' /\ Reference!Intersection(a, b, c)
                 /\ Difference(a, b, c) => IInv' /\ Reference!Difference(a, b, c)
<1>0. /\ \A x \in Names : Valid(set[x])
      /\ \A x \in Names : [y \in Names |-> Elements(set[y])][x] = Elements(set[x])
  BY DEF IInv
<1>1. ASSUME NEW S \in Given, Make(a, S)
      PROVE  IInv' /\ Reference!Make(a, S)
  <2>1. S \in SUBSET Int /\ IsFiniteSet(S)
    BY ElemsAssumption, FS_Subset DEF Given
  <2>2. Valid(AddAll(EmptySet, S)) /\ Elements(AddAll(EmptySet, S)) = Elements(EmptySet) \cup S
    <3>1. Valid(EmptySet)
      BY EmptyValid
    <3> QED
      BY <2>1, <3>1, AddAllValid
  <2>3. Elements(AddAll(EmptySet, S)) = S
    BY <2>2, EmptyValid
  <2> QED
    BY <1>1, <2>2, <2>3, AssignStep DEF Make, Reference!Make
<1>2. ASSUME NEW i \in Elems, Add(a, i)
      PROVE  IInv' /\ Reference!Add(a, i)
  <2>1. Valid(Added(set[a], i)) /\ Elements(Added(set[a], i)) = Elements(set[a]) \cup {i}
    BY <1>0, ElemsAssumption, AddedValid
  <2> QED
    BY <1>0, <1>2, <2>1, AssignStep DEF Add, Reference!Add
<1>3. ASSUME NEW i \in Elems, Remove(a, i)
      PROVE  IInv' /\ Reference!Remove(a, i)
  <2>1. Valid(Removed(set[a], i)) /\ Elements(Removed(set[a], i)) = Elements(set[a]) \ {i}
    BY <1>0, ElemsAssumption, RemovedValid
  <2> QED
    BY <1>0, <1>3, <2>1, AssignStep DEF Remove, Reference!Remove
<1>4. ASSUME NEW from \in Elems, NEW to \in Elems, AddRange(a, from, to)
      PROVE  IInv' /\ Reference!AddRange(a, from, to)
  <2>1. /\ Valid(RangeAdded(set[a], from, to))
        /\ Elements(RangeAdded(set[a], from, to)) = Elements(set[a]) \cup from..to
    BY <1>0, ElemsAssumption, RangeAddedValid
  <2> QED
    BY <1>0, <1>4, <2>1, AssignStep DEF AddRange, Reference!AddRange
<1>5. ASSUME NEW b \in Names, Copy(a, b)
      PROVE  IInv' /\ Reference!Copy(a, b)
  <2>1. Valid(Copied(set[b])) /\ Elements(Copied(set[b])) = Elements(set[b])
    BY <1>0, CopiedValid
  <2> QED
    BY <1>0, <1>5, <2>1, AssignStep DEF Copy, Reference!Copy
<1>6. ASSUME NEW b \in Names, CopyFrom(a, b), ~StaleCopy(a, b)
      PROVE  IInv' /\ Reference!CopyFrom(a, b)
  <2>1. set[b].alloc \/ ~set[a].alloc \/ set[b].small = NoBits
    BY <1>6 DEF StaleCopy
  <2>2. Valid(CopiedFrom(set[a], set[b])) /\ Elements(CopiedFrom(set[a], set[b])) = Elements(set[b])
    BY <1>0, <2>1, CopiedFromValid
  <2> QED
    BY <1>0, <1>6, <2>2, AssignStep DEF CopyFrom, Reference!CopyFrom
<1>14. ASSUME NEW b \in Names, CopyFrom(a, b), StaleCopy(a, b)
       PROVE  ~Reference!CopyFrom(a, b)
  <2>1. Elements(CopiedFrom(set[a], set[b])) = {} /\ Elements(set[b]) # {}
    BY <1>0, <1>14, StaleCopied DEF StaleCopy
  <2>2. set' = [set EXCEPT ![a] = CopiedFrom(set[a], set[b])]
    BY <1>14 DEF CopyFrom, Assign
  <2>3. set'[a] = CopiedFrom(set[a], set[b])
    BY <2>2 DEF IInv
  <2>4. [x \in Names |-> Elements(set'[x])][a] = {}
    BY <2>1, <2>3
  <2>5. ASSUME Reference!CopyFrom(a, b)
        PROVE  [x \in Names |-> Elements(set'[x])][a] = Elements(set[b])
    BY <2>5 DEF Reference!CopyFrom, Reference!Assign
  <2> QED
    BY <2>1, <2>4, <2>5
<1>15. ASSUME NEW b \in Names
       PROVE  Elements(CopiedFrom(set[a], set[b])) = Elements(set[b]) <=> ~StaleCopy(a, b)
  <2>1. CASE StaleCopy(a, b)
    BY <1>0, <2>1, StaleCopied DEF StaleCopy
  <2>2. CASE ~StaleCopy(a, b)
    BY <1>0, <2>2, CopiedFromValid DEF StaleCopy
  <2> QED
    BY <2>1, <2>2
<1>7. ASSUME NEW b \in Names, UnionWith(a, b)
      PROVE  IInv' /\ Reference!UnionWith(a, b)
  <2>1. /\ Valid(UnitedWith(set[a], set[b]))
        /\ Elements(UnitedWith(set[a], set[b])) = Elements(set[a]) \cup Elements(set[b])
    BY <1>0, UnitedWithValid
  <2> QED
    BY <1>0, <1>7, <2>1, AssignStep DEF UnionWith, Reference!UnionWith
<1>8. ASSUME NEW b \in Names, IntersectionWith(a, b)
      PROVE  IInv' /\ Reference!IntersectionWith(a, b)
  <2>1. /\ Valid(IntersectedWith(set[a], set[b]))
        /\ Elements(IntersectedWith(set[a], set[b])) = Elements(set[a]) \cap Elements(set[b])
    BY <1>0, IntersectedWithValid
  <2> QED
    BY <1>0, <1>8, <2>1, AssignStep DEF IntersectionWith, Reference!IntersectionWith
<1>9. ASSUME NEW b \in Names, DifferenceWith(a, b)
      PROVE  IInv' /\ Reference!DifferenceWith(a, b)
  <2>1. /\ Valid(DifferenceOf(set[a], set[b]))
        /\ Elements(DifferenceOf(set[a], set[b])) = Elements(set[a]) \ Elements(set[b])
    BY <1>0, DifferenceOfValid
  <2> QED
    BY <1>0, <1>9, <2>1, AssignStep DEF DifferenceWith, Reference!DifferenceWith
<1>10. ASSUME NEW b \in Names, NEW missing \in Faults, Decode(a, b, missing)
       PROVE  IInv' /\ Reference!Decode(a, b, missing)
  <2> DEFINE d == Decoded(set[a], Encoded(set[b]), missing)
  <2>1. Encodable(set[b]) /\ Assign(a, d)
    BY <1>10 DEF Decode
  <2>2. /\ Valid(d)
        /\ missing = "nothing" => Elements(d) = Elements(set[b])
        /\ missing = "length" => Elements(d) = Elements(set[a])
        /\ missing = "elements" => Elements(d) = {}
    BY <1>0, DecodedValid
  <2>3. \A i \in Elements(set[b]) : i >= 0
    <3>1. CASE set[b].alloc
      BY <1>0, <2>1, <3>1, ValidParts DEF Encodable
    <3>2. CASE ~set[b].alloc
      BY <1>0, <3>2, ValidParts DEF Small
    <3> QED
      BY <3>1, <3>2
  <2> HIDE DEF d
  <2>4. IInv' /\ Reference!Assign(a, Elements(d))
    BY <2>1, <2>2, AssignStep
  <2>5. Elements(d) = CASE missing = "nothing"  -> Elements(set[b])
                        [] missing = "length"   -> Elements(set[a])
                        [] missing = "elements" -> {}
    BY <2>2 DEF Faults
  <2> QED
    BY <1>0, <2>3, <2>4, <2>5 DEF Reference!Decode
<1>11. ASSUME NEW b \in Names, NEW c \in Names, Union(a, b, c)
       PROVE  IInv' /\ Reference!Union(a, b, c)
  <2>1. /\ Valid(UnitedWith(Copied(set[b]), set[c]))
        /\ Elements(UnitedWith(Copied(set[b]), set[c])) = Elements(set[b]) \cup Elements(set[c])
    BY <1>0, CopiedValid, UnitedWithValid
  <2> QED
    BY <1>0, <1>11, <2>1, AssignStep DEF Union, Reference!Union
<1>12. ASSUME NEW b \in Names, NEW c \in Names, Intersection(a, b, c)
       PROVE  IInv' /\ Reference!Intersection(a, b, c)
  <2>1. /\ Valid(IntersectedWith(Copied(set[b]), set[c]))
        /\ Elements(IntersectedWith(Copied(set[b]), set[c])) = Elements(set[b]) \cap Elements(set[c])
    BY <1>0, CopiedValid, IntersectedWithValid
  <2> QED
    BY <1>0, <1>12, <2>1, AssignStep DEF Intersection, Reference!Intersection
<1>13. ASSUME NEW b \in Names, NEW c \in Names, Difference(a, b, c)
       PROVE  IInv' /\ Reference!Difference(a, b, c)
  <2>1. /\ Valid(DifferenceOf(Copied(set[b]), set[c]))
        /\ Elements(DifferenceOf(Copied(set[b]), set[c])) = Elements(set[b]) \ Elements(set[c])
    BY <1>0, CopiedValid, DifferenceOfValid
  <2> QED
    BY <1>0, <1>13, <2>1, AssignStep DEF Difference, Reference!Difference
<1> QED
  BY <1>1, <1>2, <1>3, <1>4, <1>5, <1>6, <1>7, <1>8, <1>9, <1>10, <1>11, <1>12, <1>13, <1>14, <1>15

LEMMA NextStep ==
    ASSUME IInv, ~CopySmallToLarge, [Next]_set
    PROVE  IInv'
<1>1. ASSUME NEW a \in Names, Update(a) PROVE IInv'
  BY <1>1, OperationStep DEF Update
<1>2. CASE UNCHANGED set
  BY <1>2 DEF IInv, Valid
<1> QED
  BY <1>1, <1>2 DEF Next

-----------------------------------------------------------------------------
(* Every operation keeps the types, even after a stale copy.               *)
LEMMA TypedParts ==
    ASSUME NEW s \in FastIntSets
    PROVE  /\ s.small \in Bitmaps /\ s.alloc \in BOOLEAN /\ s.large \in SUBSET Int
           /\ IsFiniteSet(s.large) /\ (s.alloc \/ s.large = {})
           /\ toLarge(s) \in SUBSET Int /\ IsFiniteSet(toLarge(s))
           /\ s = [small |-> s.small, alloc |-> s.alloc, large |-> s.large]
<1>1. /\ s.small \in Bitmaps /\ s.alloc \in BOOLEAN /\ s.large \in SUBSET Int
      /\ IsFiniteSet(s.large) /\ (s.alloc \/ s.large = {})
      /\ s = [small |-> s.small, alloc |-> s.alloc, large |-> s.large]
  BY DEF FastIntSets, Bitmaps
<1>2. Ones(s.small) \in SUBSET Int /\ IsFiniteSet(Ones(s.small))
  BY <1>1, OnesSmall, SmallFinite, FS_Subset
<1> QED
  BY <1>1, <1>2 DEF toLarge

LEMMA MakeTyped ==
    ASSUME NEW small \in Bitmaps, NEW alloc \in BOOLEAN, NEW large \in SUBSET Int,
           IsFiniteSet(large), alloc \/ large = {}
    PROVE  [small |-> small, alloc |-> alloc, large |-> large] \in FastIntSets
  BY DEF FastIntSets, Bitmaps

LEMMA EmptyTyped == EmptySet \in FastIntSets
  BY EmptyValid DEF Valid

LEMMA AddAllTyped ==
    ASSUME NEW s \in FastIntSets, NEW S \in SUBSET Int, IsFiniteSet(S)
    PROVE  AddAll(s, S) \in FastIntSets
<1> DEFINE small == SetBits(s.small, S \cap Small)
           alloc == s.alloc \/ ~(S \subseteq Small)
           large == IF alloc THEN toLarge(s) \cup S ELSE {}
<1>1. small \in Bitmaps
  <2>1. S \cap Small \in SUBSET Small
    OBVIOUS
  <2> QED
    BY <2>1, TypedParts, SetBitsOnes
<1>2. IsFiniteSet(toLarge(s) \cup S) /\ IsFiniteSet({})
  BY TypedParts, FS_Union, FS_EmptySet
<1>3. alloc \in BOOLEAN /\ large \in SUBSET Int /\ IsFiniteSet(large) /\ (alloc \/ large = {})
  BY <1>2, TypedParts
<1>4. AddAll(s, S) = [small |-> small, alloc |-> alloc, large |-> large]
  BY DEF AddAll
<1> HIDE DEF small, alloc, large
<1> QED
  BY <1>1, <1>3, <1>4, MakeTyped

LEMMA AddedTyped ==
    ASSUME NEW s \in FastIntSets, NEW i \in Int
    PROVE  Added(s, i) \in FastIntSets
<1> DEFINE small == IF i \in Small THEN SetBits(s.small, {i}) ELSE s.small
           t     == [s EXCEPT !.small = small]
           alloc == s.alloc \/ i \notin Small
           large == IF alloc THEN toLarge(t) \cup {i} ELSE {}
<1>1. small \in Bitmaps
  <2>1. CASE i \in Small
    <3>1. {i} \in SUBSET Small
      BY <2>1
    <3> QED
      BY <2>1, <3>1, TypedParts, SetBitsOnes
  <2>2. CASE i \notin Small
    BY <2>2, TypedParts
  <2> QED
    BY <2>1, <2>2
<1>2. Added(s, i) = [small |-> small, alloc |-> alloc, large |-> large]
  BY DEF Added
<1> HIDE DEF small
<1>3. t \in FastIntSets
  <2>1. t = [small |-> small, alloc |-> s.alloc, large |-> s.large]
    BY TypedParts
  <2> QED
    BY <1>1, <2>1, TypedParts, MakeTyped
<1> HIDE DEF t
<1>4. IsFiniteSet(toLarge(t) \cup {i}) /\ toLarge(t) \in SUBSET Int /\ IsFiniteSet({})
  BY <1>3, TypedParts, FS_AddElement, FS_EmptySet
<1>5. alloc \in BOOLEAN /\ large \in SUBSET Int /\ IsFiniteSet(large) /\ (alloc \/ large = {})
  BY <1>4, TypedParts
<1> HIDE DEF alloc, large
<1> QED
  BY <1>1, <1>2, <1>5, MakeTyped

LEMMA RangeAddedTyped ==
    ASSUME NEW s \in FastIntSets, NEW from \in Int, NEW to \in Int
    PROVE  RangeAdded(s, from, to) \in FastIntSets
<1>1. CASE ~s.alloc /\ from >= 0 /\ to < smallCutoff
  <2> DEFINE small == SetBits(s.small, from..to)
  <2>1. from..to \in SUBSET Small
    BY <1>1, WordAssumption DEF Small, smallCutoff
  <2>2. small \in Bitmaps
    BY <2>1, TypedParts, SetBitsOnes
  <2>3. RangeAdded(s, from, to) = [s EXCEPT !.small = small]
    BY <1>1 DEF RangeAdded
  <2> HIDE DEF small
  <2>4. RangeAdded(s, from, to) = [small |-> small, alloc |-> s.alloc, large |-> s.large]
    BY <2>3, TypedParts
  <2> QED
    BY <2>2, <2>4, TypedParts, MakeTyped
<1>2. CASE ~(~s.alloc /\ from >= 0 /\ to < smallCutoff)
  <2>1. RangeAdded(s, from, to) = AddAll(s, from..to)
    BY <1>2 DEF RangeAdded
  <2>2. from..to \in SUBSET Int /\ IsFiniteSet(from..to)
    BY FS_Interval
  <2> QED
    BY <2>1, <2>2, AddAllTyped
<1> QED
  BY <1>1, <1>2

LEMMA RemovedTyped ==
    ASSUME NEW s \in FastIntSets, NEW i \in Int
    PROVE  Removed(s, i) \in FastIntSets
<1> DEFINE small == IF i \in Small THEN UnsetBit(s.small, i) ELSE s.small
           large == s.large \ {i}
<1>1. small \in Bitmaps
  BY TypedParts, UnsetBitOnes
<1>2. large \in SUBSET Int /\ IsFiniteSet(large) /\ (s.alloc \/ large = {}) /\ s.alloc \in BOOLEAN
  BY TypedParts, FS_RemoveElement
<1>3. Removed(s, i) = [small |-> small, alloc |-> s.alloc, large |-> large]
  BY DEF Removed
<1> HIDE DEF small, large
<1> QED
  BY <1>1, <1>2, <1>3, MakeTyped

(* Copies, and the operations on two sets.                                 *)
LEMMA CombinedTyped ==
    ASSUME NEW s \in FastIntSets, NEW r \in FastIntSets
    PROVE  /\ Copied(s) \in FastIntSets
           /\ CopiedFrom(s, r) \in FastIntSets
           /\ UnitedWith(s, r) \in FastIntSets
           /\ IntersectedWith(s, r) \in FastIntSets
           /\ DifferenceOf(s, r) \in FastIntSets
<1>0. /\ BitUnion(s.small, r.small) \in Bitmaps
      /\ BitIntersect(s.small, r.small) \in Bitmaps
      /\ BitDifference(s.small, r.small) \in Bitmaps
  BY TypedParts, BitOperations
<1>1. Copied(s) \in FastIntSets
  BY TypedParts DEF Copied
<1>2. CopiedFrom(s, r) \in FastIntSets
  <2>1. (s.alloc \/ r.alloc) \in BOOLEAN /\ ((s.alloc \/ r.alloc) \/ r.large = {})
    BY TypedParts
  <2> QED
    BY <2>1, TypedParts, MakeTyped DEF CopiedFrom
<1>3. UnitedWith(s, r) \in FastIntSets
  <2> DEFINE small == BitUnion(s.small, r.small)
             t     == [s EXCEPT !.small = small]
             alloc == s.alloc \/ r.alloc
             large == IF alloc THEN toLarge(t) \cup toLarge(r) ELSE {}
  <2>1. UnitedWith(s, r) = [small |-> small, alloc |-> alloc, large |-> large]
    BY DEF UnitedWith
  <2>2. small \in Bitmaps
    BY <1>0
  <2> HIDE DEF small
  <2>3. t \in FastIntSets
    <3>1. t = [small |-> small, alloc |-> s.alloc, large |-> s.large]
      BY TypedParts
    <3> QED
      BY <2>2, <3>1, TypedParts, MakeTyped
  <2> HIDE DEF t
  <2>4. IsFiniteSet(toLarge(t) \cup toLarge(r)) /\ toLarge(t) \in SUBSET Int /\ IsFiniteSet({})
    BY <2>3, TypedParts, FS_Union, FS_EmptySet
  <2>5. alloc \in BOOLEAN /\ large \in SUBSET Int /\ IsFiniteSet(large) /\ (alloc \/ large = {})
    BY <2>4, TypedParts
  <2> HIDE DEF alloc, large
  <2> QED
    BY <2>1, <2>2, <2>5, MakeTyped
<1>4. IntersectedWith(s, r) \in FastIntSets
  <2> DEFINE small == BitIntersect(s.small, r.small)
             alloc == s.alloc /\ r.alloc
             large == IF alloc THEN s.large \cap toLarge(r) ELSE {}
  <2>1. IntersectedWith(s, r) = [small |-> small, alloc |-> alloc, large |-> large]
    BY DEF IntersectedWith
  <2>2. IsFiniteSet(s.large \cap toLarge(r)) /\ IsFiniteSet({})
    BY TypedParts, FS_Intersection, FS_EmptySet
  <2>3. alloc \in BOOLEAN /\ large \in SUBSET Int /\ IsFiniteSet(large) /\ (alloc \/ large = {})
    BY <2>2, TypedParts
  <2>4. small \in Bitmaps
    BY <1>0
  <2> HIDE DEF small, alloc, large
  <2> QED
    BY <2>1, <2>3, <2>4, MakeTyped
<1>5. DifferenceOf(s, r) \in FastIntSets
  <2> DEFINE small == BitDifference(s.small, r.small)
             large == s.large \ toLarge(r)
  <2>1. DifferenceOf(s, r) = [small |-> small, alloc |-> s.alloc, large |-> large]
    BY DEF DifferenceOf
  <2>2. large \in SUBSET Int /\ IsFiniteSet(large) /\ (s.alloc \/ large = {}) /\ s.alloc \in BOOLEAN
    BY TypedParts, FS_Subset
  <2>3. small \in Bitmaps
    BY <1>0
  <2> HIDE DEF small, large
  <2> QED
    BY <2>1, <2>2, <2>3, MakeTyped
<1> QED
  BY <1>1, <1>2, <1>3, <1>4, <1>5

LEMMA DecodedTyped ==
    ASSUME NEW s \in FastIntSets, NEW r \in FastIntSets, NEW missing \in Faults
    PROVE  Decoded(s, Encoded(r), missing) \in FastIntSets
<1> DEFINE enc == Encoded(r)
           d   == Decoded(s, Encoded(r), missing)
<1>1. CASE missing = "length"
  BY <1>1 DEF Decoded
<1>2. CASE missing = "elements"
  BY <1>2, EmptyTyped DEF Decoded
<1>3. CASE missing = "nothing" /\ enc.length = 0
  <2> DEFINE small == [lo |-> enc.word, hi |-> {}]
  <2>1. enc.word \in SUBSET Bits
    BY TypedParts DEF Encoded, Bitmaps
  <2>2. small \in Bitmaps
    BY <2>1 DEF Bitmaps
  <2>3. d = [EmptySet EXCEPT !.small.lo = enc.word]
    BY <1>3 DEF Decoded
  <2>4. d = [small |-> small, alloc |-> FALSE, large |-> {}]
    BY <2>3 DEF EmptySet, NoBits
  <2> HIDE DEF d, small
  <2> QED
    BY <2>2, <2>4, FS_EmptySet, MakeTyped DEF d
<1>4. CASE missing = "nothing" /\ enc.length # 0
  <2>1. Ones(r.small) \in SUBSET Int /\ IsFiniteSet(Ones(r.small))
    BY TypedParts, OnesSmall, SmallFinite, FS_Subset
  <2>2. IsFiniteSet(Ones(r.small) \cup toLarge(r)) /\ IsFiniteSet({})
    BY <2>1, TypedParts, FS_Union, FS_EmptySet
  <2>3. enc.elems \in SUBSET Int /\ IsFiniteSet(enc.elems)
    BY <2>1, <2>2, TypedParts DEF Encoded
  <2>4. d = AddAll(EmptySet, enc.elems)
    BY <1>4 DEF Decoded
  <2> HIDE DEF d, enc
  <2> QED
    BY <2>3, <2>4, EmptyTyped, AddAllTyped DEF d
<1> QED
  BY <1>1, <1>2, <1>3, <1>4 DEF Faults

LEMMA AssignTyped ==
    ASSUME TypeOK, NEW a \in Names, NEW s \in FastIntSets, Assign(a, s)
    PROVE  TypeOK'
  BY DEF TypeOK, Assign

LEMMA NextTyped ==
    ASSUME TypeOK, [Next]_set
    PROVE  TypeOK'
<1>0. \A x \in Names : set[x] \in FastIntSets
  BY DEF TypeOK
<1>1. CASE UNCHANGED set
  BY <1>1 DEF TypeOK
<1>2. ASSUME NEW a \in Names, Update(a) PROVE \E s \in FastIntSets : Assign(a, s)
  <2>1. ASSUME NEW S \in Given, Make(a, S) PROVE \E s \in FastIntSets : Assign(a, s)
    <3>1. S \in SUBSET Int /\ IsFiniteSet(S)
      BY ElemsAssumption, FS_Subset DEF Given
    <3> QED
      BY <2>1, <3>1, EmptyTyped, AddAllTyped DEF Make
  <2>2. ASSUME NEW i \in Elems, Add(a, i) \/ Remove(a, i)
        PROVE  \E s \in FastIntSets : Assign(a, s)
    <3>1. i \in Int
      BY ElemsAssumption
    <3> QED
      BY <1>0, <2>2, <3>1, AddedTyped, RemovedTyped DEF Add, Remove
  <2>3. ASSUME NEW from \in Elems, NEW to \in Elems, AddRange(a, from, to)
        PROVE  \E s \in FastIntSets : Assign(a, s)
    <3>1. from \in Int /\ to \in Int
      BY ElemsAssumption
    <3> QED
      BY <1>0, <2>3, <3>1, RangeAddedTyped DEF AddRange
  <2>4. ASSUME NEW b \in Names,
               \/ Copy(a, b) \/ CopyFrom(a, b) \/ UnionWith(a, b)
               \/ IntersectionWith(a, b) \/ DifferenceWith(a, b)
        PROVE  \E s \in FastIntSets : Assign(a, s)
    <3>1. set[a] \in FastIntSets /\ set[b] \in FastIntSets
      BY <1>0
    <3> QED
      BY <2>4, <3>1, CombinedTyped DEF Copy, CopyFrom, UnionWith, IntersectionWith, DifferenceWith
  <2>5. ASSUME NEW b \in Names, NEW missing \in Faults, Decode(a, b, missing)
        PROVE  \E s \in FastIntSets : Assign(a, s)
    BY <1>0, <2>5, DecodedTyped DEF Decode
  <2>6. ASSUME NEW b \in Names, NEW c \in Names,
               Union(a, b, c) \/ Intersection(a, b, c) \/ Difference(a, b, c)
        PROVE  \E s \in FastIntSets : Assign(a, s)
    <3>1. Copied(set[b]) \in FastIntSets /\ set[c] \in FastIntSets
      BY <1>0, CombinedTyped
    <3> QED
      BY <2>6, <3>1, CombinedTyped DEF Union, Intersection, Difference
  <2> QED
    BY <1>2, <2>1, <2>2, <2>3, <2>4, <2>5, <2>6 DEF Update
<1> QED
  BY <1>1, <1>2, AssignTyped DEF Next

-----------------------------------------------------------------------------
(* Whatever callers call, every variable keeps its type: in particular a   *)
(* set without a Sparse has no elements in one.                            *)
THEOREM TypeCorrect == Spec => []TypeOK
<1>1. Init => TypeOK
  BY InitIInv, IInvExact
<1>2. TypeOK /\ [Next]_set => TypeOK'
  BY NextTyped
<1> QED
  BY <1>1, <1>2, PTL DEF Spec

(* The bitmap and the Sparse agree after any sequence of operations without *)
(* a stale copy.                                                           *)
THEOREM BitmapAlwaysMaintained ==
    ASSUME ~CopySmallToLarge PROVE Spec => []BitmapMaintained
<1>1. Init => IInv
  BY InitIInv
<1>2. IInv /\ [Next]_set => IInv'
  BY NextStep
<1>3. IInv => BitmapMaintained
  BY IInvExact
<1> QED
  BY <1>1, <1>2, <1>3, PTL DEF Spec

(* Whatever callers call, from a state without a stale copy every operation *)
(* does to the elements what the reference variant does, save a stale copy, *)
(* which never does.                                                       *)
THEOREM OperationsAlwaysAgree == Spec => OperationsAgree
<1>1. Spec => []TypeOK
  BY TypeCorrect
<1>2. ASSUME TypeOK, BitmapMaintained PROVE SameOperations
  BY <1>2, IInvExact, OperationStep DEF SameOperations
<1>3. TypeOK /\ [Next]_set => [BitmapMaintained => SameOperations]_set
  BY <1>2
<1> QED
  BY <1>1, <1>3, PTL DEF Spec, OperationsAgree

-----------------------------------------------------------------------------
(* The bitmap's queries are those of the set of its bits.                  *)
LEMMA BitQueries ==
    ASSUME NEW v \in Bitmaps, NEW w \in Bitmaps
    PROVE  /\ v = NoBits <=> Ones(v) = {}
           /\ BitIntersects(v, w) <=> Ones(v) \cap Ones(w) # {}
           /\ BitSubsetOf(v, w) <=> Ones(v) \subseteq Ones(w)
           /\ \A i \in Small : IsSet(v, i) <=> i \in Ones(v)
<1>1. ASSUME NEW x \in Bitmaps PROVE Ones(x) = {} <=> x.lo = {} /\ x.hi = {}
  BY DEF Ones
<1>2. v = NoBits <=> Ones(v) = {}
  BY <1>1 DEF NoBits, Bitmaps
<1>3. BitIntersects(v, w) <=> Ones(v) \cap Ones(w) # {}
  <2>1. /\ BitIntersect(v, w) \in Bitmaps
        /\ Ones(BitIntersect(v, w)) = Ones(v) \cap Ones(w)
    BY BitOperations
  <2>2. BitIntersect(v, w).lo = v.lo \cap w.lo /\ BitIntersect(v, w).hi = v.hi \cap w.hi
    BY DEF BitIntersect
  <2> QED
    BY <1>1, <2>1, <2>2 DEF BitIntersects
<1>4. BitSubsetOf(v, w) <=> Ones(v) \subseteq Ones(w)
  <2>1. /\ BitDifference(v, w) \in Bitmaps
        /\ Ones(BitDifference(v, w)) = Ones(v) \ Ones(w)
    BY BitOperations
  <2>2. BitDifference(v, w).lo = v.lo \ w.lo /\ BitDifference(v, w).hi = v.hi \ w.hi
    BY DEF BitDifference
  <2>3. Ones(v) \ Ones(w) = {} <=> Ones(v) \subseteq Ones(w)
    OBVIOUS
  <2>4. (v.lo \ w.lo = {} <=> v.lo \subseteq w.lo) /\ (v.hi \ w.hi = {} <=> v.hi \subseteq w.hi)
    OBVIOUS
  <2> QED
    BY <1>1, <2>1, <2>2, <2>3, <2>4 DEF BitSubsetOf
<1>5. ASSUME NEW i \in Small PROVE IsSet(v, i) <=> i \in Ones(v)
  <2>0. i \in Int /\ WordBits \in Nat \ {0} /\ v.lo \subseteq Bits /\ v.hi \subseteq Bits
    BY SmallIsInt, WordAssumption DEF Bitmaps
  <2>1. CASE i >= WordBits
    <3>1. i % WordBits = i - WordBits
      BY <2>0, <2>1 DEF Small, smallCutoff
    <3>2. i \notin v.lo
      BY <2>0, <2>1 DEF Bits
    <3> QED
      BY <2>0, <2>1, <3>1, <3>2, OnesMember DEF IsSet
  <2>2. CASE ~(i >= WordBits)
    <3>1. i - WordBits \notin v.hi
      BY <2>0, <2>2 DEF Bits
    <3> QED
      BY <2>0, <2>2, <3>1, OnesMember DEF IsSet
  <2> QED
    BY <2>1, <2>2
<1> QED
  BY <1>2, <1>3, <1>4, <1>5

(* Each query of two valid sets answers for their elements, whichever of   *)
(* the two parts of the representation it looks at.                        *)
LEMMA ValidQueries ==
    ASSUME NEW s, NEW r, Valid(s), Valid(r)
    PROVE  /\ \A i \in Int : Contains(s, i) <=> i \in Elements(s)
           /\ Empty(s) <=> Elements(s) = {}
           /\ Intersects(s, r) <=> Elements(s) \cap Elements(r) # {}
           /\ Equals(s, r) <=> Elements(s) = Elements(r)
           /\ SubsetOf(s, r) <=> Elements(s) \subseteq Elements(r)
<1> DEFINE S == Elements(s)
           R == Elements(r)
           v == s.small
           w == r.small
<1>1. /\ v \in Bitmaps /\ w \in Bitmaps
      /\ Ones(v) = S \cap Small /\ Ones(w) = R \cap Small
      /\ ~s.alloc => S \subseteq Small
      /\ ~r.alloc => R \subseteq Small
      /\ s.alloc => s.large = S
      /\ r.alloc => r.large = R
      /\ toLarge(r) = R
  BY ValidParts
<1>2. /\ fitsInSmall(s) <=> S \subseteq Small
      /\ fitsInSmall(r) <=> R \subseteq Small
  BY <1>1 DEF fitsInSmall
<1>3. ASSUME NEW i \in Int PROVE Contains(s, i) <=> i \in S
  BY <1>1, BitQueries DEF Contains
<1>4. Empty(s) <=> S = {}
  <2>1. v = NoBits <=> Ones(v) = {}
    BY <1>1, BitQueries
  <2> QED
    BY <1>1, <2>1 DEF Empty
<1>5. Intersects(s, r) <=> S \cap R # {}
  <2>1. BitIntersects(v, w) <=> Ones(v) \cap Ones(w) # {}
    BY <1>1, BitQueries
  <2>2. Ones(v) \cap Ones(w) # {} => S \cap R # {}
    BY <1>1
  <2>3. CASE s.alloc /\ r.alloc
    BY <1>1, <2>1, <2>2, <2>3 DEF Intersects
  <2>4. CASE ~(s.alloc /\ r.alloc)
    <3>1. Ones(v) \cap Ones(w) = S \cap R
      BY <1>1, <2>4
    <3> QED
      BY <2>1, <2>4, <3>1 DEF Intersects
  <2> QED
    BY <2>3, <2>4
<1>6. Equals(s, r) <=> S = R
  <2>1. v = w <=> Ones(v) = Ones(w)
    BY <1>1, OnesInjective
  <2>2. CASE S \subseteq Small
    BY <1>1, <1>2, <2>1, <2>2 DEF Equals
  <2>3. CASE ~(S \subseteq Small)
    BY <1>1, <1>2, <2>1, <2>3 DEF Equals
  <2> QED
    BY <2>2, <2>3
<1>7. SubsetOf(s, r) <=> S \subseteq R
  <2>1. BitSubsetOf(v, w) <=> Ones(v) \subseteq Ones(w)
    BY <1>1, BitQueries
  <2>2. CASE S \subseteq Small
    BY <1>1, <1>2, <2>1, <2>2 DEF SubsetOf
  <2>3. CASE ~(S \subseteq Small)
    BY <1>1, <1>2, <2>3 DEF SubsetOf
  <2> QED
    BY <2>2, <2>3
<1> QED
  BY <1>3, <1>4, <1>5, <1>6, <1>7

(* Without stale copies, in every reachable state the queries answer as the *)
(* reference does.                                                         *)
THEOREM QueriesAlwaysAgree == ASSUME ~CopySmallToLarge PROVE Spec => []QueriesAgree
<1>1. Init => IInv
  BY InitIInv
<1>2. IInv /\ [Next]_set => IInv'
  BY NextStep
<1>3. IInv => QueriesAgree
  <2> SUFFICES ASSUME IInv PROVE QueriesAgree
    OBVIOUS
  <2> SUFFICES ASSUME NEW a \in Names, NEW b \in Names
      PROVE  LET s == set[a]  S == Elements(set[a])  r == set[b]  R == Elements(set[b])
             IN  /\ \A i \in Elems : Contains(s, i) <=> Reference!Contains(S, i)
                 /\ Empty(s) <=> Reference!Empty(S)
                 /\ Intersects(s, r) <=> Reference!Intersects(S, R)
                 /\ Equals(s, r) <=> Reference!Equals(S, R)
                 /\ SubsetOf(s, r) <=> Reference!SubsetOf(S, R)
    BY DEF QueriesAgree
  <2>1. Valid(set[a]) /\ Valid(set[b])
    BY DEF IInv
  <2> QED
    BY <2>1, ElemsAssumption, ValidQueries
    DEF Reference!Contains, Reference!Empty, Reference!Intersects, Reference!Equals, Reference!SubsetOf
<1> QED
  BY <1>1, <1>2, <1>3, PTL DEF Spec

-----------------------------------------------------------------------------
(* The order of the elements.                                              *)
Less(S, x) == {y \in S : y < x}

(* A greater element comes after more, and every place is taken.           *)
LEMMA RankGrows ==
    ASSUME NEW S, S \subseteq Int, IsFiniteSet(S), NEW x \in S, NEW y \in S, x < y
    PROVE  Cardinality(Less(S, x)) < Cardinality(Less(S, y))
<1> DEFINE A == Less(S, x)
           B == Less(S, y)
<1>1. A \subseteq S /\ B \subseteq S /\ x \notin A /\ A \cup {x} \subseteq B
  <2>1. \A z \in S : z < x => z < y
    OBVIOUS
  <2>2. x \in Int /\ ~(x < x)
    OBVIOUS
  <2> QED
    BY <2>1, <2>2 DEF Less
<1>2. IsFiniteSet(A) /\ IsFiniteSet(B)
  BY <1>1, FS_Subset
<1> HIDE DEF A, B
<1>3. Cardinality(A) \in Nat /\ Cardinality(B) \in Nat
  BY <1>2, FS_CardinalityType
<1>4. Cardinality(A \cup {x}) = Cardinality(A) + 1
  BY <1>1, <1>2, FS_AddElement
<1>5. Cardinality(A \cup {x}) <= Cardinality(B)
  BY <1>1, <1>2, FS_Subset
<1> QED
  BY <1>3, <1>4, <1>5 DEF A, B

LEMMA RankRange ==
    ASSUME NEW S, S \subseteq Int, IsFiniteSet(S), NEW x \in S
    PROVE  Cardinality(Less(S, x)) \in 0..(Cardinality(S) - 1)
<1> DEFINE A == Less(S, x)
<1>1. A \subseteq S /\ x \notin A /\ A \cup {x} \subseteq S
  BY DEF Less
<1>2. IsFiniteSet(A)
  BY <1>1, FS_Subset
<1> HIDE DEF A
<1>3. Cardinality(A) \in Nat /\ Cardinality(S) \in Nat
  BY <1>2, FS_CardinalityType
<1>4. Cardinality(A \cup {x}) = Cardinality(A) + 1
  BY <1>1, <1>2, FS_AddElement
<1>5. Cardinality(A \cup {x}) <= Cardinality(S)
  BY <1>1, FS_Subset
<1> QED
  BY <1>3, <1>4, <1>5 DEF A

LEMMA RankOnto ==
    ASSUME NEW S, S \subseteq Int, IsFiniteSet(S), NEW k \in 1..Cardinality(S)
    PROVE  \E x \in S : Cardinality(Less(S, x)) = k - 1
<1> DEFINE n == Cardinality(S)
           f == [x \in S |-> Cardinality(Less(S, x))]
           T == 0..(n - 1)
<1>1. n \in Nat
  BY FS_CardinalityType
<1>2. f \in [S -> T]
  BY RankRange
<1>3. ASSUME NEW x \in S, NEW y \in S, f[x] = f[y] PROVE x = y
  <2>1. x \in Int /\ y \in Int /\ f[x] \in Int /\ f[y] \in Int
    BY <1>1, <1>2
  <2>2. x < y => f[x] < f[y]
    BY RankGrows
  <2>3. y < x => f[y] < f[x]
    BY RankGrows
  <2> HIDE DEF f
  <2> QED
    BY <1>3, <2>1, <2>2, <2>3
<1>4. f \in Injection(S, T)
  BY <1>2, <1>3 DEF Injection, IsInjective
<1>5. IsFiniteSet(T) /\ Cardinality(T) = n
  <2>1. 0 \in Int /\ n - 1 \in Int
    BY <1>1
  <2>2. IsFiniteSet(T) /\ Cardinality(T) = IF 0 > n - 1 THEN 0 ELSE (n - 1) - 0 + 1
    BY <2>1, FS_Interval
  <2> HIDE DEF T, n
  <2> QED
    BY <1>1, <2>2
<1>6. f \in Surjection(S, T)
  <2> HIDE DEF f, T
  <2> QED
    BY <1>4, <1>5, FS_Injection
<1>7. k - 1 \in T
  BY <1>1
<1>8. PICK x \in S : f[x] = k - 1
  BY <1>6, <1>7 DEF Surjection
<1> QED
  BY <1>8

Increasing(v) == \A i, j \in DOMAIN v : i < j => v[i] < v[j]

LEMMA InOrderIs ==
    ASSUME NEW S, S \subseteq Int, IsFiniteSet(S)
    PROVE  LET v == InOrder(S)
           IN  /\ Cardinality(S) \in Nat
               /\ v \in [1..Cardinality(S) -> S]
               /\ Increasing(v)
               /\ S = {v[k] : k \in 1..Cardinality(S)}
<1> DEFINE v == InOrder(S)
           n == Cardinality(S)
<1>1. n \in Nat
  BY FS_CardinalityType
<1>2. ASSUME NEW k \in 1..n PROVE v[k] \in S /\ Cardinality(Less(S, v[k])) = k - 1
  <2>1. \E x \in S : Cardinality(Less(S, x)) = k - 1
    BY RankOnto
  <2>2. v[k] = CHOOSE x \in S : Cardinality(Less(S, x)) = k - 1
    BY DEF InOrder, Less
  <2> QED
    BY <2>1, <2>2
<1>3. v \in [1..n -> S]
  <2>1. v = [k \in 1..n |-> CHOOSE x \in S : Cardinality(Less(S, x)) = k - 1]
    BY Zenon DEF InOrder, Less
  <2> HIDE DEF v
  <2>2. \A k \in 1..n : v[k] = CHOOSE x \in S : Cardinality(Less(S, x)) = k - 1
    BY <2>1, Zenon
  <2> QED
    BY <1>2, <2>1, <2>2, Zenon
<1> HIDE DEF v, n
<1>4. ASSUME NEW i \in 1..n, NEW j \in 1..n, i < j PROVE v[i] < v[j]
  <2>1. v[i] \in S /\ v[j] \in S /\ v[i] \in Int /\ v[j] \in Int
    BY <1>2
  <2>2. v[j] < v[i] => Cardinality(Less(S, v[j])) < Cardinality(Less(S, v[i]))
    BY <2>1, RankGrows
  <2>3. ~(j - 1 < i - 1)
    BY <1>1, <1>4
  <2>4. ~(v[j] < v[i])
    BY <1>2, <2>2, <2>3
  <2>5. v[i] # v[j]
    <3>1. i - 1 # j - 1
      BY <1>1, <1>4
    <3> QED
      BY <1>2, <3>1
  <2> QED
    BY <2>1, <2>4, <2>5
<1>5. Increasing(v)
  BY <1>3, <1>4 DEF Increasing
<1>6. ASSUME NEW x \in S PROVE \E k \in 1..n : v[k] = x
  <2> DEFINE r == Cardinality(Less(S, x))
  <2>1. r \in 0..(n - 1)
    BY RankRange DEF n
  <2>2. PICK k \in 1..n : k - 1 = r
    <3> HIDE DEF r
    <3>1. r + 1 \in 1..n /\ (r + 1) - 1 = r
      BY <1>1, <2>1
    <3> QED
      BY <3>1
  <2>3. v[k] \in S /\ Cardinality(Less(S, v[k])) = Cardinality(Less(S, x))
    BY <1>2, <2>2
  <2>4. ~(v[k] < x) /\ ~(x < v[k])
    <3>1. Cardinality(Less(S, x)) \in Int
      BY <1>1, <2>1
    <3>2. v[k] < x => Cardinality(Less(S, v[k])) < Cardinality(Less(S, x))
      BY <2>3, RankGrows
    <3>3. x < v[k] => Cardinality(Less(S, x)) < Cardinality(Less(S, v[k]))
      BY <2>3, RankGrows
    <3> QED
      BY <2>3, <3>1, <3>2, <3>3
  <2>5. v[k] \in Int /\ x \in Int
    BY <2>3
  <2>6. v[k] = x
    BY <2>4, <2>5
  <2> QED
    BY <2>6
<1>7. S = {v[k] : k \in 1..n}
  BY <1>2, <1>6
<1> QED
  BY <1>1, <1>3, <1>5, <1>7 DEF v, n

(* An increasing sequence is that of its elements.                         *)
LEMMA OnlyOrder ==
    ASSUME NEW n \in Nat, NEW v \in [1..n -> Int], Increasing(v)
    PROVE  LET S == {v[k] : k \in 1..n}
           IN  IsFiniteSet(S) /\ Cardinality(S) = n /\ v = InOrder(S)
<1> DEFINE S == {v[k] : k \in 1..n}
           Part(m) == {v[k] : k \in 1..m}
<1>1. ASSUME NEW m \in 0..n PROVE IsFiniteSet(Part(m)) /\ Cardinality(Part(m)) = m
  <2> DEFINE f == [k \in 1..m |-> v[k]]
  <2>1. 1..m \subseteq 1..n /\ DOMAIN v = 1..n
    OBVIOUS
  <2>2. ASSUME NEW i \in 1..m, NEW j \in 1..m, v[i] = v[j] PROVE i = j
    <3>1. v[i] \in Int /\ (i < j => v[i] < v[j]) /\ (j < i => v[j] < v[i])
      BY <2>1 DEF Increasing
    <3> QED
      BY <2>2, <3>1
  <2>3. f \in Bijection(1..m, Part(m))
    BY <2>2 DEF Bijection, Injection, Surjection, IsInjective
  <2>4. IsFiniteSet(1..m) /\ Cardinality(1..m) = m
    <3>1. 1 \in Int /\ m \in Int /\ m >= 0
      OBVIOUS
    <3>2. IsFiniteSet(1..m) /\ Cardinality(1..m) = IF 1 > m THEN 0 ELSE m - 1 + 1
      BY <3>1, FS_Interval
    <3> QED
      BY <3>1, <3>2
  <2> HIDE DEF f, Part
  <2> QED
    BY <2>3, <2>4, FS_Bijection DEF ExistsBijection
<1>2. IsFiniteSet(S) /\ Cardinality(S) = n
  <2>1. n \in 0..n /\ Part(n) = S
    OBVIOUS
  <2> HIDE DEF Part
  <2> QED
    BY <1>1, <2>1
<1>3. S \subseteq Int
  OBVIOUS
<1>4. ASSUME NEW k \in 1..n PROVE Cardinality(Less(S, v[k])) = k - 1
  <2>1. k - 1 \in 0..n /\ DOMAIN v = 1..n
    OBVIOUS
  <2>2. ASSUME NEW j \in 1..n PROVE v[j] < v[k] <=> j \in 1..(k - 1)
    <3>1. v[j] \in Int /\ v[k] \in Int /\ (j < k => v[j] < v[k]) /\ (k < j => v[k] < v[j])
      BY <2>1 DEF Increasing
    <3> QED
      BY <3>1
  <2>3. Less(S, v[k]) = Part(k - 1)
    <3>1. 1..(k - 1) \subseteq 1..n
      OBVIOUS
    <3> QED
      BY <2>2, <3>1 DEF Less
  <2> HIDE DEF Part, S
  <2> QED
    BY <1>1, <2>1, <2>3
<1> DEFINE w == InOrder(S)
<1>5. ASSUME NEW k \in 1..n PROVE v[k] = w[k]
  <2> HIDE DEF S
  <2>1. w[k] = CHOOSE x \in S : Cardinality(Less(S, x)) = k - 1
    BY <1>2 DEF InOrder, Less
  <2>2. v[k] \in S
    BY DEF S
  <2>3. w[k] \in S /\ Cardinality(Less(S, w[k])) = k - 1
    BY <1>4, <2>1, <2>2
  <2> HIDE DEF w
  <2>4. v[k] < w[k] => Cardinality(Less(S, v[k])) < Cardinality(Less(S, w[k]))
    BY <1>2, <1>3, <2>2, <2>3, RankGrows
  <2>5. w[k] < v[k] => Cardinality(Less(S, w[k])) < Cardinality(Less(S, v[k]))
    BY <1>2, <1>3, <2>2, <2>3, RankGrows
  <2>6. ~(v[k] < w[k]) /\ ~(w[k] < v[k])
    BY <1>4, <2>3, <2>4, <2>5
  <2>7. v[k] \in Int /\ w[k] \in Int
    BY <1>3, <2>2, <2>3
  <2> QED
    BY <2>6, <2>7
<1>6. w = [k \in 1..n |-> w[k]]
  <2> HIDE DEF S
  <2>1. InOrder(S) \in [1..Cardinality(S) -> S]
    BY <1>2, <1>3, InOrderIs
  <2>2. w \in [1..n -> S]
    BY <1>2, <2>1
  <2> HIDE DEF w
  <2> QED
    BY <2>2
<1> HIDE DEF w
<1>7. v = w
  BY <1>5, <1>6
<1> HIDE DEF S
<1> QED
  BY <1>2, <1>7 DEF w, S

(* ForEach visits the elements in increasing order, of a bitmap through    *)
(* both words; so does Ordered, and Len counts them.                       *)
LEMMA WordsInOrder ==
    ASSUME NEW v \in Bitmaps
    PROVE  LET w == InOrder(v.lo)
                    \o [k \in 1..Cardinality(v.hi) |-> WordBits + InOrder(v.hi)[k]]
           IN  /\ IsFiniteSet(Ones(v)) /\ Cardinality(Ones(v)) = OnesCount(v)
               /\ w = InOrder(Ones(v))
<1> DEFINE a == Cardinality(v.lo)
           b == Cardinality(v.hi)
           x == InOrder(v.lo)
           y == InOrder(v.hi)
           z == [k \in 1..b |-> WordBits + y[k]]
           w == x \o z
<1>1. v.lo \subseteq Bits /\ v.hi \subseteq Bits /\ Bits \subseteq Int
  BY WordAssumption DEF Bitmaps, Bits
<1>2. IsFiniteSet(v.lo) /\ IsFiniteSet(v.hi)
  BY <1>1, SmallFinite, FS_Subset
<1>3. /\ a \in Nat /\ x \in [1..a -> v.lo] /\ Increasing(x)
      /\ v.lo = {x[k] : k \in 1..a}
  BY <1>1, <1>2, InOrderIs
<1>4. /\ b \in Nat /\ y \in [1..b -> v.hi] /\ Increasing(y)
      /\ v.hi = {y[k] : k \in 1..b}
  BY <1>1, <1>2, InOrderIs
<1> HIDE DEF a, b, x, y
<1>5. OnesCount(v) = a + b
  BY DEF OnesCount, a, b
<1>6. WordBits \in Nat /\ \A i \in Bits : i \in Int /\ 0 <= i /\ i < WordBits
  BY WordAssumption DEF Bits
<1>7. \A k \in 1..a : x[k] \in Int /\ x[k] \in v.lo /\ x[k] < WordBits
  BY <1>1, <1>3, <1>6
<1>8. \A k \in 1..b : /\ y[k] \in Int /\ y[k] \in v.hi /\ 0 <= y[k]
                      /\ z[k] = WordBits + y[k] /\ z[k] \in Int /\ WordBits <= z[k]
  <2> SUFFICES ASSUME NEW k \in 1..b
               PROVE  /\ y[k] \in Int /\ y[k] \in v.hi /\ 0 <= y[k]
                      /\ z[k] = WordBits + y[k] /\ z[k] \in Int /\ WordBits <= z[k]
    OBVIOUS
  <2>1. y[k] \in v.hi /\ y[k] \in Bits
    BY <1>1, <1>4
  <2>2. y[k] \in Int /\ 0 <= y[k]
    BY <1>6, <2>1
  <2>3. z[k] = WordBits + y[k]
    OBVIOUS
  <2> HIDE DEF z
  <2>4. z[k] \in Int /\ WordBits <= z[k]
    BY <1>6, <2>2, <2>3
  <2> QED
    BY <2>1, <2>2, <2>3, <2>4
<1>9. x \in Seq(Int) /\ Len(x) = a /\ z \in Seq(Int) /\ Len(z) = b
  <2>1. x \in [1..a -> Int]
    BY <1>3, <1>7
  <2>2. z \in [1..b -> Int]
    BY <1>8
  <2> HIDE DEF z
  <2> QED
    BY <1>3, <1>4, <2>1, <2>2
<1>10. /\ w \in [1..(a + b) -> Int]
       /\ \A k \in 1..a : w[k] = x[k]
       /\ \A k \in 1..b : w[a + k] = z[k]
       /\ \A k \in 1..(a + b) : k \in 1..a \/ \E j \in 1..b : k = a + j
  <2> HIDE DEF z
  <2>0. w \in Seq(Int) /\ Len(w) = a + b
    BY <1>9
  <2>1. \A k \in 1..(a + b) : w[k] = IF k <= a THEN x[k] ELSE z[k - a]
    BY <1>9
  <2> HIDE DEF w
  <2>2. ASSUME NEW k \in 1..b PROVE w[a + k] = z[k]
    <3>1. a + k \in 1..(a + b) /\ ~(a + k <= a) /\ (a + k) - a = k
      BY <1>3, <1>4
    <3> QED
      BY <2>1, <3>1
  <2>3. ASSUME NEW k \in 1..(a + b), k \notin 1..a PROVE \E j \in 1..b : k = a + j
    <3>1. k - a \in 1..b /\ k = a + (k - a)
      BY <1>3, <1>4, <2>3
    <3> QED
      BY <3>1
  <2>4. \A k \in 1..a : k \in 1..(a + b) /\ k <= a
    BY <1>3, <1>4
  <2> QED
    BY <1>3, <1>4, <2>0, <2>1, <2>2, <2>3, <2>4
<1> HIDE DEF w
<1>11. \A k \in 1..b : w[a + k] = WordBits + y[k] /\ WordBits <= w[a + k]
  BY <1>8, <1>10
<1> HIDE DEF z
<1>12. ASSUME NEW i \in 1..(a + b), NEW j \in 1..(a + b), i < j PROVE w[i] < w[j]
  <2>1. CASE i \in 1..a /\ j \in 1..a
    <3>1. x[i] < x[j]
      BY <1>3, <1>12, <2>1 DEF Increasing
    <3> QED
      BY <1>10, <2>1, <3>1
  <2>2. CASE i \in 1..a /\ j \notin 1..a
    <3>1. PICK l \in 1..b : j = a + l
      BY <1>10, <2>2
    <3>2. w[i] \in Int /\ w[i] < WordBits /\ WordBits <= w[j] /\ w[j] \in Int
      BY <1>7, <1>10, <1>11, <2>2, <3>1
    <3> QED
      BY <1>6, <3>2
  <2>3. CASE i \notin 1..a
    <3>1. PICK l \in 1..b : i = a + l
      BY <1>10, <2>3
    <3>2. j \notin 1..a
      BY <1>3, <1>12, <3>1
    <3>3. PICK m \in 1..b : j = a + m
      BY <1>10, <3>2
    <3>4. l < m
      BY <1>3, <1>12, <3>1, <3>3
    <3>5. y[l] < y[m]
      BY <1>4, <3>4 DEF Increasing
    <3>6. w[i] = WordBits + y[l] /\ w[j] = WordBits + y[m] /\ y[l] \in Int /\ y[m] \in Int
      BY <1>8, <1>11, <3>1, <3>3
    <3> QED
      BY <1>6, <3>5, <3>6
  <2> QED
    BY <2>1, <2>2, <2>3
<1>13. Increasing(w) /\ a + b \in Nat
  BY <1>3, <1>4, <1>10, <1>12 DEF Increasing
<1>16. /\ \A k \in 1..a : k \in 1..(a + b)
       /\ \A k \in 1..b : a + k \in 1..(a + b)
  <2>1. a \in Nat /\ b \in Nat
    BY <1>3, <1>4
  <2> QED
    BY ONLY <2>1
<1>14. Ones(v) = {w[k] : k \in 1..(a + b)}
  <2> DEFINE T == {w[k] : k \in 1..(a + b)}
  <2>1. ASSUME NEW i \in v.lo PROVE i \in T
    <3>1. PICK k \in 1..a : i = x[k]
      BY <1>3
    <3>2. k \in 1..(a + b) /\ w[k] = i
      BY <1>10, <1>16, <3>1
    <3> QED
      BY <3>2
  <2>2. ASSUME NEW i \in v.hi PROVE i + WordBits \in T
    <3>1. PICK k \in 1..b : i = y[k]
      BY <1>4
    <3>2. a + k \in 1..(a + b)
      BY <1>16
    <3>4. w[a + k] = WordBits + i /\ i \in Int
      BY <1>8, <1>11, <3>1
    <3>3. WordBits + i = i + WordBits
      BY <1>6, <3>4
    <3> QED
      BY <3>2, <3>3, <3>4
  <2>3. ASSUME NEW k \in 1..(a + b) PROVE w[k] \in Ones(v)
    <3>1. CASE k \in 1..a
      BY <1>7, <1>10, <3>1 DEF Ones
    <3>2. CASE k \notin 1..a
      <4>1. PICK j \in 1..b : k = a + j
        BY <1>10, <3>2
      <4>2. w[k] = y[j] + WordBits /\ y[j] \in v.hi
        BY <1>6, <1>8, <1>11, <4>1
      <4> QED
        BY <4>2 DEF Ones
    <3> QED
      BY <3>1, <3>2
  <2> QED
    BY <2>1, <2>2, <2>3 DEF Ones
<1>15. /\ IsFiniteSet(Ones(v)) /\ Cardinality(Ones(v)) = a + b
       /\ w = InOrder(Ones(v))
  BY <1>10, <1>13, <1>14, OnlyOrder
<1> QED
  BY <1>5, <1>15 DEF w, x, y, z, b

LEMMA VisitsInOrder ==
    ASSUME NEW s, Valid(s)
    PROVE  LET S == Elements(s)
           IN  /\ Visits(s) = InOrder(S)
               /\ Ordered(s) = InOrder(S)
               /\ Length(s) = Cardinality(S)
<1>1. s.small \in Bitmaps
  BY ValidParts
<1>2. CASE ~s.alloc
  <2>1. fitsInSmall(s) /\ Elements(s) = Ones(s.small)
    BY <1>2 DEF fitsInSmall, Elements
  <2> QED
    BY <1>1, <1>2, <2>1, WordsInOrder DEF Visits, Ordered, Length
<1>3. CASE s.alloc
  <2>1. Elements(s) = s.large
    BY <1>3 DEF Elements
  <2>2. fitsInSmall(s) => Ones(s.small) = s.large
    BY <1>3 DEF fitsInSmall, Valid, Agree
  <2>3. Visits(s) = InOrder(s.large)
    BY <1>1, <2>2, WordsInOrder DEF Visits
  <2> QED
    BY <1>3, <2>1, <2>3 DEF Ordered, Length
<1> QED
  BY <1>2, <1>3

-----------------------------------------------------------------------------
(* Next.                                                                   *)
LEMMA MinIs ==
    ASSUME NEW S, S \subseteq Int, IsFiniteSet(S), S # {}
    PROVE  Min(S) \in S /\ \A y \in S : Min(S) <= y
<1> DEFINE v == InOrder(S)
           n == Cardinality(S)
<1>1. n \in Nat /\ v \in [1..n -> S] /\ Increasing(v) /\ S = {v[k] : k \in 1..n}
  BY InOrderIs
<1> HIDE DEF v, n
<1>2. 1 \in 1..n
  BY <1>1
<1>3. ASSUME NEW y \in S PROVE v[1] <= y
  <2>1. PICK k \in 1..n : y = v[k]
    BY <1>1
  <2>2. 1 < k => v[1] < v[k]
    BY <1>1, <1>2 DEF Increasing
  <2>3. v[1] \in Int /\ v[k] \in Int
    BY <1>1, <1>2
  <2> QED
    BY <2>1, <2>2, <2>3
<1>4. v[1] \in S
  BY <1>1, <1>2
<1> QED
  BY <1>3, <1>4 DEF Min

IsNext(S, start, x) == x \in S /\ x >= start /\ \A y \in S : y >= start => x <= y

LEMMA BitNextIs ==
    ASSUME NEW v \in Bitmaps, NEW start \in Small
    PROVE  LET b == BitNext(v, start)
           IN  /\ b[2] \in BOOLEAN
               /\ b[2] <=> \E x \in Ones(v) : x >= start
               /\ b[2] => IsNext(Ones(v), start, b[1])
<1> DEFINE from == IF start < WordBits THEN 0 ELSE start % WordBits
           low  == {i \in v.lo : i >= start}
           high == {i \in v.hi : i >= from}
           b    == BitNext(v, start)
<1>1. v.lo \subseteq Bits /\ v.hi \subseteq Bits /\ Bits \subseteq Int
  BY WordAssumption DEF Bitmaps, Bits
<1>2. IsFiniteSet(low) /\ IsFiniteSet(high) /\ low \subseteq Int /\ high \subseteq Int
  BY <1>1, SmallFinite, FS_Subset
<1>3. WordBits \in Nat /\ \A i \in Bits : i \in Int /\ 0 <= i /\ i < WordBits
  BY WordAssumption DEF Bits
<1>4. start \in Int /\ 0 <= start /\ start < 2 * WordBits
  BY WordAssumption DEF Small, smallCutoff
<1>5. from \in Int /\ (start < WordBits => from = 0)
      /\ (~(start < WordBits) => from = start - WordBits)
  <2>1. CASE start < WordBits
    BY <2>1
  <2>2. CASE ~(start < WordBits)
    <3>1. start % WordBits = start - WordBits
      <4>1. start = WordBits * 1 + (start - WordBits) /\ start - WordBits \in 0..(WordBits - 1)
        BY <1>3, <1>4, <2>2
      <4> QED
        BY <1>4, <2>2, <4>1, WordAssumption
    <3> QED
      BY <1>3, <1>4, <2>2, <3>1
  <2> QED
    BY <2>1, <2>2
<1> HIDE DEF from
<1>6. b = IF low # {} THEN <<Min(low), TRUE>>
          ELSE IF high # {} THEN <<WordBits + Min(high), TRUE>> ELSE <<start, FALSE>>
  BY DEF BitNext, from
<1>7. \A i \in v.hi : i >= from <=> i + WordBits >= start
  <2> SUFFICES ASSUME NEW i \in v.hi PROVE i >= from <=> i + WordBits >= start
    OBVIOUS
  <2>1. i \in Int /\ 0 <= i
    BY <1>1, <1>3
  <2> QED
    BY <1>3, <1>4, <1>5, <2>1
<1>0. \A i \in v.hi : i \in Int /\ i + WordBits \notin v.lo
  <2> SUFFICES ASSUME NEW i \in v.hi PROVE i \in Int /\ i + WordBits \notin v.lo
    OBVIOUS
  <2>1. i \in Int /\ 0 <= i /\ ~(i + WordBits < WordBits)
    BY <1>1, <1>3
  <2> QED
    BY <1>1, <1>3, <2>1
<1>8. \A x \in Ones(v) : x >= start <=> x \in low \/ \E i \in high : x = i + WordBits
  <2> SUFFICES ASSUME NEW x \in Ones(v)
               PROVE  x >= start <=> x \in low \/ \E i \in high : x = i + WordBits
    OBVIOUS
  <2>1. CASE x \in v.lo
    <3>1. \A i \in high : x # i + WordBits
      BY <1>0, <2>1
    <3> QED
      BY <2>1, <3>1
  <2>2. CASE x \in {i + WordBits : i \in v.hi}
    <3>1. PICK i \in v.hi : x = i + WordBits
      BY <2>2
    <3>2. x \notin v.lo
      BY <1>0, <3>1
    <3>3. \A j \in high : x = j + WordBits => j = i
      <4>1. \A j \in high : j \in Int
        BY <1>0
      <4>2. i \in Int
        BY <1>0
      <4> HIDE DEF high
      <4> QED
        BY <1>3, <3>1, <4>1, <4>2
    <3> QED
      BY <1>7, <3>1, <3>2, <3>3
  <2> QED
    BY <2>1, <2>2 DEF Ones
<1>9. low \subseteq Ones(v) /\ \A i \in high : i + WordBits \in Ones(v)
  BY DEF Ones
<1>10. CASE low # {}
  <2>1. Min(low) \in low /\ \A y \in low : Min(low) <= y
    BY <1>2, <1>10, MinIs
  <2> DEFINE m == Min(low)
  <2>2. b[1] = m /\ b[2] = TRUE
    BY <1>6, <1>10
  <2>3. m \in low
    BY <2>1
  <2>4. \A y \in low : m <= y
    BY <2>1
  <2> HIDE DEF low, high, b, m
  <2>5. m \in Int /\ m >= start /\ m < WordBits /\ m \in Ones(v)
    BY <1>1, <1>3, <1>9, <2>3 DEF low
  <2>6. ASSUME NEW y \in Ones(v), y >= start PROVE m <= y
    <3>1. CASE y \in low
      BY <2>4, <3>1
    <3>2. CASE \E i \in high : y = i + WordBits
      <4>1. PICK i \in high : y = i + WordBits
        BY <3>2
      <4>2. i \in Int /\ 0 <= i
        BY <1>1, <1>3 DEF high
      <4> QED
        BY <1>3, <2>5, <4>1, <4>2
    <3> QED
      BY <1>8, <2>6, <3>1, <3>2
  <2> QED
    BY <2>2, <2>5, <2>6 DEF IsNext, b
<1>11. CASE low = {} /\ high # {}
  <2>1. Min(high) \in high /\ \A y \in high : Min(high) <= y
    BY <1>2, <1>11, MinIs
  <2> DEFINE m == Min(high)
  <2>2. b[1] = WordBits + m /\ b[2] = TRUE
    BY <1>6, <1>11
  <2>3. m \in high
    BY <2>1
  <2>4. \A y \in high : m <= y
    BY <2>1
  <2> HIDE DEF b, m
  <2>7. m \in v.hi /\ m >= from
    BY <2>3
  <2>8. m \in Int
    BY <1>0, <2>7
  <2>5. m \in Int /\ m + WordBits >= start /\ m + WordBits \in Ones(v) /\ WordBits + m = m + WordBits
    BY <1>3, <1>7, <1>9, <2>3, <2>7, <2>8
  <2>6. ASSUME NEW y \in Ones(v), y >= start PROVE m + WordBits <= y
    <3>1. PICK i \in high : y = i + WordBits
      BY <1>8, <1>11, <2>6
    <3>2. m <= i /\ i \in Int
      BY <1>1, <2>4
    <3> QED
      BY <1>3, <2>5, <3>1, <3>2
  <2> QED
    BY <2>2, <2>5, <2>6 DEF IsNext, b
<1>12. CASE low = {} /\ high = {}
  BY <1>6, <1>8, <1>12
<1> QED
  BY <1>10, <1>11, <1>12

LEMMA NextAgrees ==
    ASSUME NEW s, Valid(s), NEW i \in Int
    PROVE  LET n == NextFrom(s, i)
               S == Elements(s)
           IN  /\ n[2] \in BOOLEAN
               /\ n[2] <=> \E x \in S : x >= i
               /\ n[2] => IsNext(S, i, n[1])
<1> DEFINE S == Elements(s)
           n == NextFrom(s, i)
           start == IF i < 0 /\ ~s.alloc THEN 0 ELSE i
           bit == BitNext(s.small, start)
           above == {x \in s.large : x >= start}
           O == Ones(s.small)
<1>1. /\ s.small \in Bitmaps /\ O \subseteq Small
      /\ S \subseteq Int /\ IsFiniteSet(S) /\ O = S \cap Small
      /\ ~s.alloc => S = O /\ s.large = {}
      /\ s.alloc => S = s.large
  BY ValidParts
<1>2. n = IF start \in Small /\ bit[2] THEN bit
          ELSE IF s.alloc /\ above # {} THEN <<Min(above), TRUE>>
          ELSE <<start, FALSE>>
  BY DEF NextFrom
<1>3. Small \subseteq Int /\ \A x \in Int : x \in Small <=> 0 <= x /\ x < smallCutoff
  BY WordAssumption DEF Small, smallCutoff
<1>4. start \in Int /\ smallCutoff \in Int
  BY WordAssumption DEF smallCutoff
<1>5. \A x \in S : x >= i <=> x >= start
  <2>1. CASE i < 0 /\ ~s.alloc
    <3>1. start = 0 /\ \A x \in S : x \in Int /\ 0 <= x
      BY <1>1, <1>3, <2>1
    <3> HIDE DEF start, S
    <3> QED
      BY <2>1, <3>1
  <2>2. CASE ~(i < 0 /\ ~s.alloc)
    BY <2>2
  <2> QED
    BY <2>1, <2>2
<1> HIDE DEF start
<1>6. CASE start \in Small /\ bit[2]
  <2>1. n = bit
    BY <1>2, <1>6
  <2>2. bit[2] \in BOOLEAN /\ IsNext(O, start, bit[1])
    BY <1>1, <1>6, BitNextIs
  <2> DEFINE x == bit[1]
  <2>3. x \in O /\ x >= start /\ \A y \in O : y >= start => x <= y
    BY <2>2 DEF IsNext
  <2> HIDE DEF bit, n, O, S
  <2>4. \A y \in S : y >= start => x <= y
    <3> SUFFICES ASSUME NEW y \in S, y >= start PROVE x <= y
      OBVIOUS
    <3>1. CASE y \in O
      BY <2>3, <3>1
    <3>2. CASE y \notin O
      <4>1. y \in Int /\ y \notin Small /\ x \in Small /\ x \in Int
        BY <1>1, <1>3, <2>3, <3>2
      <4>2. y >= smallCutoff /\ x < smallCutoff
        BY <1>3, <1>4, <1>6, <4>1
      <4> QED
        BY <1>4, <4>1, <4>2
    <3> QED
      BY <3>1, <3>2
  <2>5. x \in S
    BY <1>1, <2>3
  <2> HIDE DEF x
  <2>6. IsNext(S, i, x)
    BY <1>5, <2>3, <2>4, <2>5 DEF IsNext
  <2>7. n[2] = TRUE /\ n[1] = x
    BY <1>6, <2>1, <2>2 DEF x
  <2> QED
    BY <2>6, <2>7 DEF IsNext, n, S
<1>7. CASE ~(start \in Small /\ bit[2])
  <2>1. \A x \in O : ~(x >= start) \/ (s.alloc /\ x \in above)
    <3>1. CASE s.alloc
      BY <1>1, <3>1
    <3>2. CASE ~s.alloc
      <4>1. CASE start \in Small
        BY <1>1, <1>7, <4>1, BitNextIs
      <4>2. CASE start \notin Small
        <5>1. 0 <= start
          BY <3>2 DEF start
        <5>2. start >= smallCutoff
          BY <1>3, <1>4, <4>2, <5>1
        <5> HIDE DEF O
        <5>3. \A x \in O : x \in Int /\ x < smallCutoff
          BY <1>1, <1>3
        <5> QED
          BY <1>4, <5>2, <5>3
      <4> QED
        BY <4>1, <4>2
    <3> QED
      BY <3>1, <3>2
  <2>2. CASE s.alloc /\ above # {}
    <3>1. above \subseteq Int /\ IsFiniteSet(above)
      BY <1>1, <2>2, FS_Subset
    <3>2. Min(above) \in above /\ \A y \in above : Min(above) <= y
      BY <2>2, <3>1, MinIs
    <3>3. n = <<Min(above), TRUE>>
      BY <1>2, <1>7, <2>2
    <3> DEFINE m == Min(above)
    <3>4. n[1] = m /\ n[2] = TRUE
      BY <3>3
    <3>5. m \in S /\ m >= start /\ \A y \in S : y >= start => m <= y
      BY <1>1, <2>2, <3>2
    <3> HIDE DEF m, n, S
    <3>6. IsNext(S, i, m)
      BY <1>5, <3>5 DEF IsNext
    <3> QED
      BY <3>4, <3>6 DEF IsNext, n, S
  <2>3. CASE ~(s.alloc /\ above # {})
    <3>1. n = <<start, FALSE>>
      BY <1>2, <1>7, <2>3
    <3>2. \A x \in S : ~(x >= start)
      <4>1. CASE s.alloc
        BY <1>1, <2>3, <4>1
      <4>2. CASE ~s.alloc
        BY <1>1, <2>1, <4>2
      <4> QED
        BY <4>1, <4>2
    <3> QED
      BY <1>5, <3>1, <3>2
  <2> QED
    BY <2>2, <2>3
<1> QED
  BY <1>6, <1>7

-----------------------------------------------------------------------------
(* The ranges of String.  The function over the places of v that Ranges    *)
(* folds with exists.                                                      *)
LEMMA LeastNumber ==
    ASSUME NEW T \in SUBSET Nat, T # {}
    PROVE  \E x \in T : \A y \in T : x <= y
<1>1. PICK n \in T : TRUE
  OBVIOUS
<1> DEFINE B == {y \in T : y <= n}
<1>2. B \subseteq Int /\ IsFiniteSet(B) /\ B # {}
  <2>3. n \in Nat /\ \A y \in B : y \in Nat /\ y <= n
    OBVIOUS
  <2>4. B # {}
    BY <2>3
  <2> HIDE DEF B
  <2>1. 0 \in Int /\ n \in Int /\ B \subseteq 0..n
    BY <2>3
  <2>2. IsFiniteSet(0..n)
    BY <2>1, FS_Interval
  <2>5. 0..n \subseteq Int
    BY <2>1
  <2> QED
    BY <2>1, <2>2, <2>4, <2>5, FS_Subset
<1>3. Min(B) \in B /\ \A y \in B : Min(B) <= y
  BY <1>2, MinIs
<1> DEFINE m == Min(B)
<1>4. m \in T /\ m <= n /\ \A y \in T : y <= n => m <= y
  BY <1>3
<1> HIDE DEF m, B
<1>5. \A y \in T : m <= y
  BY <1>1, <1>4
<1> QED
  BY <1>4, <1>5

LEMMA NumberInduction ==
    ASSUME NEW S, 0 \in S, \A n \in Nat : n \in S => n + 1 \in S
    PROVE  \A n \in Nat : n \in S
<1> DEFINE T == Nat \ S
<1>1. SUFFICES ASSUME T # {} PROVE FALSE
  OBVIOUS
<1>2. PICK x \in T : \A y \in T : x <= y
  BY <1>1, LeastNumber
<1>3. x # 0 /\ x - 1 \in Nat
  BY <1>2
<1>4. x - 1 \in S
  BY <1>2, <1>3
<1> QED
  BY <1>2, <1>3, <1>4

Step(f, v, k) == IF k = 0 THEN NoRanges ELSE AddToRanges(f[k - 1], v[k])

LEMMA FoldExists ==
    ASSUME NEW v, NEW l \in Nat
    PROVE  \E f : f = [k \in 0..l |-> IF k = 0 THEN NoRanges ELSE AddToRanges(f[k - 1], v[k])]
<1> DEFINE S == {n \in Nat : \E f : f = [k \in 0..n |-> Step(f, v, k)]}
<1>1. 0 \in S
  <2> DEFINE f == [k \in 0..0 |-> NoRanges]
  <2>1. f = [k \in 0..0 |-> Step(f, v, k)]
    BY DEF Step
  <2> QED
    BY <2>1
<1>2. ASSUME NEW n \in Nat, n \in S PROVE n + 1 \in S
  <2>1. PICK f : f = [k \in 0..n |-> Step(f, v, k)]
    BY <1>2
  <2> DEFINE g == [k \in 0..(n + 1) |-> IF k = n + 1 THEN Step(f, v, n + 1) ELSE f[k]]
  <2>2. \A k \in 0..n : g[k] = f[k]
    OBVIOUS
  <2>3. g[n + 1] = Step(f, v, n + 1) /\ g = [k \in 0..(n + 1) |-> g[k]]
    OBVIOUS
  <2> HIDE DEF g
  <2>4. ASSUME NEW k \in 0..(n + 1) PROVE g[k] = Step(g, v, k)
    <3>1. CASE k = 0
      <4>1. g[k] = f[k] /\ f[k] = Step(f, v, k)
        BY <2>1, <2>2, <3>1
      <4> QED
        BY <3>1, <4>1 DEF Step
    <3>2. CASE k # 0
      <4>1. k - 1 \in 0..n
        BY <3>2
      <4>2. Step(g, v, k) = Step(f, v, k)
        BY <2>2, <3>2, <4>1 DEF Step
      <4>3. k = n + 1 \/ k \in 0..n
        OBVIOUS
      <4>4. k \in 0..n => g[k] = Step(f, v, k)
        BY <2>1, <2>2
      <4> QED
        BY <2>3, <4>2, <4>3, <4>4
    <3> QED
      BY <3>1, <3>2
  <2>5. g = [k \in 0..(n + 1) |-> Step(g, v, k)]
    BY <2>3, <2>4, Zenon
  <2> QED
    BY <2>5
<1> HIDE DEF S
<1>3. l \in S
  BY <1>1, <1>2, NumberInduction
<1> QED
  BY <1>3, Zenon DEF S, Step

(* The ranges of an accumulator.                                           *)
AllRanges(r) == IF r.last = <<>> THEN r.out ELSE Append(r.out, r.last)

LEMMA RangesFold ==
    ASSUME NEW s, Len(Visits(s)) \in Nat
    PROVE  LET v == Visits(s)
               l == Len(v)
           IN  \E f : /\ f[0] = NoRanges
                      /\ \A k \in 1..l : f[k] = AddToRanges(f[k - 1], v[k])
                      /\ Ranges(s) = AllRanges(f[l])
<1> DEFINE v == Visits(s)
           l == Len(v)
           P(g) == g = [k \in 0..l |-> IF k = 0 THEN NoRanges ELSE AddToRanges(g[k - 1], v[k])]
           f == CHOOSE g : P(g)
<1>1. Ranges(s) = AllRanges(f[l])
  BY DEF Ranges, AllRanges
<1> HIDE DEF v, l
<1>2. \E g : P(g)
  <2>1. l \in Nat
    BY DEF l, v
  <2> QED
    BY <2>1, FoldExists
<1> HIDE DEF P
<1>3. P(f)
  BY <1>2, Zenon
<1> HIDE DEF f
<1>4. f = [k \in 0..l |-> IF k = 0 THEN NoRanges ELSE AddToRanges(f[k - 1], v[k])]
  BY <1>3 DEF P
<1>5. l \in Nat
  BY DEF l, v
<1>6. f[0] = NoRanges
  BY <1>4, <1>5
<1>7. ASSUME NEW k \in 1..l PROVE f[k] = AddToRanges(f[k - 1], v[k])
  <2>1. k \in 0..l /\ k # 0
    BY <1>5
  <2> QED
    BY <1>4, <2>1, Zenon
<1> QED
  BY <1>1, <1>6, <1>7 DEF l, v

(* Ranges a that stand for the first k elements of v: none is empty, two   *)
(* neighbours leave out what is between them, and the last one ends at the *)
(* last element.                                                           *)
Apart(b, i) == b < (IF b < 0 THEN i ELSE i - 1)
In(a, x) == \E j \in 1..Len(a) : a[j][1] <= x /\ x <= a[j][2]
Pairs == Seq(Int \X Int)

RangesOf(a, v, k) ==
    /\ a \in Pairs
    /\ \A j \in 1..Len(a) : a[j][1] <= a[j][2]
    /\ \A j \in 2..Len(a) : Apart(a[j - 1][2], a[j][1])
    /\ \A x \in Int : In(a, x) <=> \E j \in 1..k : v[j] = x
    /\ k > 0 => Len(a) > 0 /\ a[Len(a)][2] = v[k]
    /\ k = 0 => a = <<>>

LEMMA NewRange ==
    ASSUME NEW l \in Nat, NEW v \in [1..l -> Int], NEW k \in Nat, k + 1 <= l,
           NEW a, RangesOf(a, v, k), NEW i \in Int, i = v[k + 1],
           k > 0 => Apart(v[k], i)
    PROVE  RangesOf(Append(a, <<i, i>>), v, k + 1)
<1> DEFINE b == Append(a, <<i, i>>)
           n == Len(a)
<1>1. /\ a \in Pairs
      /\ \A j \in 1..n : a[j][1] <= a[j][2]
      /\ \A j \in 2..n : Apart(a[j - 1][2], a[j][1])
      /\ \A x \in Int : In(a, x) <=> \E j \in 1..k : v[j] = x
      /\ k > 0 => n > 0 /\ a[n][2] = v[k]
      /\ k = 0 => a = <<>>
  BY DEF RangesOf
<1>2. n \in Nat /\ (k = 0 => n = 0)
  BY <1>1 DEF Pairs
<1>3. <<i, i>> \in Int \X Int /\ <<i, i>>[1] = i /\ <<i, i>>[2] = i
  OBVIOUS
<1>4. b \in Pairs /\ Len(b) = n + 1 /\ b[n + 1] = <<i, i>> /\ \A j \in 1..n : b[j] = a[j]
  BY <1>1, <1>3 DEF Pairs
<1> HIDE DEF b, n
<1>5. b[n + 1][1] = i /\ b[n + 1][2] = i
  BY <1>3, <1>4, Zenon
<1>6. \A j \in 1..(n + 1) : j \in 1..n \/ j = n + 1
  BY <1>2
<1>7. ASSUME NEW j \in 1..Len(b) PROVE b[j][1] <= b[j][2]
  BY <1>1, <1>4, <1>5, <1>6
<1>8. ASSUME NEW j \in 2..Len(b) PROVE Apart(b[j - 1][2], b[j][1])
  <2>1. CASE j \in 2..n
    <3>1. j \in 1..n /\ j - 1 \in 1..n
      BY <1>2, <2>1
    <3> QED
      BY <1>1, <1>4, <2>1, <3>1
  <2>2. CASE j = n + 1
    <3>1. j - 1 = n /\ n \in 1..n
      BY <1>2, <1>4, <2>2
    <3>2. b[j - 1] = a[n] /\ k > 0
      BY <1>2, <1>4, <3>1
    <3>3. a[n][2] = v[k] /\ b[j][1] = i
      BY <1>1, <1>5, <2>2, <3>2
    <3> QED
      BY <3>2, <3>3
  <2>3. j \in 2..n \/ j = n + 1
    BY <1>2, <1>4
  <2> QED
    BY <2>1, <2>2, <2>3
<1>9. ASSUME NEW x \in Int PROVE In(b, x) <=> \E j \in 1..(k + 1) : v[j] = x
  <2>1. In(b, x) <=> In(a, x) \/ x = i
    <3>1. ASSUME In(b, x) PROVE In(a, x) \/ x = i
      <4>1. PICK j \in 1..(n + 1) : b[j][1] <= x /\ x <= b[j][2]
        BY <1>4, <3>1 DEF In
      <4>2. CASE j \in 1..n
        BY <1>4, <4>1, <4>2 DEF In, n
      <4>3. CASE j = n + 1
        BY <1>5, <4>1, <4>3
      <4> QED
        BY <1>6, <4>2, <4>3
    <3>2. ASSUME In(a, x) PROVE In(b, x)
      <4>1. PICK j \in 1..n : a[j][1] <= x /\ x <= a[j][2]
        BY <3>2 DEF In, n
      <4>2. j \in 1..(n + 1)
        BY <1>2
      <4> QED
        BY <1>4, <4>1, <4>2 DEF In
    <3>3. ASSUME x = i PROVE In(b, x)
      <4>1. n + 1 \in 1..Len(b) /\ b[n + 1][1] <= x /\ x <= b[n + 1][2]
        BY <1>2, <1>4, <1>5, <3>3
      <4> QED
        BY <4>1 DEF In
    <3> QED
      BY <3>1, <3>2, <3>3
  <2>2. \A j \in 1..(k + 1) : j \in 1..k \/ j = k + 1
    OBVIOUS
  <2>3. 1..k \subseteq 1..(k + 1) /\ k + 1 \in 1..(k + 1)
    OBVIOUS
  <2> QED
    BY <1>1, <2>1, <2>2, <2>3
<1>10. Len(b) > 0 /\ b[Len(b)][2] = v[k + 1]
  BY <1>2, <1>4, <1>5
<1> QED
  BY <1>4, <1>7, <1>8, <1>9, <1>10, k + 1 # 0 DEF RangesOf, b

LEMMA LongerRange ==
    ASSUME NEW l \in Nat, NEW v \in [1..l -> Int], NEW k \in Nat, k + 1 <= l, k > 0,
           NEW o \in Pairs, NEW p \in Int \X Int, RangesOf(Append(o, p), v, k),
           NEW i \in Int, i = v[k + 1], v[k] = i - 1
    PROVE  RangesOf(Append(o, <<p[1], i>>), v, k + 1)
<1> DEFINE a == Append(o, p)
           q == <<p[1], i>>
           b == Append(o, q)
           n == Len(o)
<1>1. /\ n \in Nat /\ a \in Pairs /\ b \in Pairs /\ Len(a) = n + 1 /\ Len(b) = n + 1
      /\ a[n + 1] = p /\ b[n + 1] = q /\ \A j \in 1..n : b[j] = a[j]
  BY DEF Pairs
<1>2. /\ \A j \in 1..Len(a) : a[j][1] <= a[j][2]
      /\ \A j \in 2..Len(a) : Apart(a[j - 1][2], a[j][1])
      /\ \A x \in Int : In(a, x) <=> \E j \in 1..k : v[j] = x
      /\ a[Len(a)][2] = v[k]
  BY DEF RangesOf
<1>3. p[1] \in Int /\ p[2] \in Int /\ q[1] = p[1] /\ q[2] = i
  OBVIOUS
<1> HIDE DEF a, b, q, n
<1>4. p[2] = i - 1 /\ p[1] <= p[2]
  <2>1. n + 1 \in 1..Len(a)
    BY <1>1
  <2> QED
    BY <1>1, <1>2, <2>1
<1>5. \A j \in 1..(n + 1) : j \in 1..n \/ j = n + 1
  BY <1>1
<1>6. ASSUME NEW j \in 1..Len(b) PROVE b[j][1] <= b[j][2]
  <2>1. CASE j \in 1..n
    BY <1>1, <1>2, <2>1
  <2>2. CASE j = n + 1
    BY <1>1, <1>3, <1>4, <2>2
  <2> QED
    BY <1>1, <1>5, <2>1, <2>2
<1>7. ASSUME NEW j \in 2..Len(b) PROVE Apart(b[j - 1][2], b[j][1])
  <2>1. j \in 2..Len(a) /\ j - 1 \in 1..n
    BY <1>1
  <2>2. b[j - 1] = a[j - 1] /\ b[j][1] = a[j][1]
    <3>1. CASE j \in 1..n
      BY <1>1, <2>1, <3>1
    <3>2. CASE j = n + 1
      BY <1>1, <1>3, <2>1, <3>2
    <3>3. j \in 1..(n + 1)
      BY <1>1
    <3> QED
      BY <1>5, <3>1, <3>2, <3>3
  <2> QED
    BY <1>2, <2>1, <2>2
<1>8. ASSUME NEW x \in Int PROVE In(b, x) <=> \E j \in 1..(k + 1) : v[j] = x
  <2>1. In(b, x) <=> In(a, x) \/ x = i
    <3>1. p[1] <= x /\ x <= i <=> (p[1] <= x /\ x <= p[2]) \/ x = i
      BY <1>3, <1>4
    <3>2. ASSUME In(b, x) PROVE In(a, x) \/ x = i
      <4>1. PICK j \in 1..(n + 1) : b[j][1] <= x /\ x <= b[j][2]
        BY <1>1, <3>2 DEF In
      <4>2. CASE j \in 1..n
        BY <1>1, <4>1, <4>2 DEF In
      <4>3. CASE j = n + 1
        <5>1. p[1] <= x /\ x <= i
          BY <1>1, <1>3, <4>1, <4>3
        <5>2. n + 1 \in 1..Len(a) /\ a[n + 1] = p
          BY <1>1, SMTT(30)
        <5> QED
          BY <3>1, <5>1, <5>2 DEF In
      <4> QED
        BY <1>5, <4>2, <4>3
    <3>3. ASSUME In(a, x) \/ x = i PROVE In(b, x)
      <4>1. CASE p[1] <= x /\ x <= i
        <5>1. n + 1 \in 1..Len(b) /\ b[n + 1][1] = p[1] /\ b[n + 1][2] = i
          BY <1>1, <1>3
        <5> QED
          BY <4>1, <5>1 DEF In
      <4>2. CASE ~(p[1] <= x /\ x <= i)
        <5>1. PICK j \in 1..(n + 1) : a[j][1] <= x /\ x <= a[j][2]
          BY <1>1, <3>1, <3>3, <4>2 DEF In
        <5>2. j # n + 1
          BY <1>1, <3>1, <4>2, <5>1
        <5>3. j \in 1..n /\ b[j] = a[j] /\ j \in 1..Len(b)
          BY <1>1, <1>5, <5>2
        <5> QED
          BY <5>1, <5>3 DEF In
      <4> QED
        BY <4>1, <4>2
    <3> QED
      BY <3>2, <3>3
  <2>2. \A j \in 1..(k + 1) : j \in 1..k \/ j = k + 1
    OBVIOUS
  <2>3. 1..k \subseteq 1..(k + 1) /\ k + 1 \in 1..(k + 1)
    OBVIOUS
  <2> QED
    BY <1>2, <2>1, <2>2, <2>3
<1>9. Len(b) > 0 /\ b[Len(b)][2] = v[k + 1] /\ k + 1 # 0
  BY <1>1, <1>3
<1> QED
  BY <1>1, <1>6, <1>7, <1>8, <1>9 DEF RangesOf, b, q

(* What the accumulator is after k elements.                               *)
Accumulated(r, v, k) ==
    /\ \E o, p : r = [out |-> o, last |-> p] /\ o \in Pairs /\ (p = <<>> \/ p \in Int \X Int)
    /\ RangesOf(AllRanges(r), v, k)
    /\ k > 0 => (r.last = <<>> <=> v[k] < 0)
    /\ k = 0 => r.last = <<>>

LEMMA AccumulateOne ==
    ASSUME NEW l \in Nat, NEW v \in [1..l -> Int], Increasing(v),
           NEW k \in Nat, k + 1 <= l, NEW r, Accumulated(r, v, k)
    PROVE  Accumulated(AddToRanges(r, v[k + 1]), v, k + 1)
<1> DEFINE i == v[k + 1]
           t == AddToRanges(r, i)
<1>1. PICK o, p : r = [out |-> o, last |-> p] /\ o \in Pairs /\ (p = <<>> \/ p \in Int \X Int)
  BY DEF Accumulated
<1>2. r.out = o /\ r.last = p
  BY <1>1
<1>3. AllRanges(r) = IF p = <<>> THEN o ELSE Append(o, p)
  BY <1>2 DEF AllRanges
<1>4. /\ RangesOf(AllRanges(r), v, k)
      /\ k > 0 => (p = <<>> <=> v[k] < 0)
      /\ k = 0 => p = <<>>
  BY <1>2 DEF Accumulated
<1>5. i \in Int /\ k + 1 \in 1..l /\ (k > 0 => v[k] \in Int /\ v[k] < i)
  <2>1. k + 1 \in 1..l /\ (k > 0 => k \in 1..l)
    OBVIOUS
  <2> QED
    BY <2>1 DEF Increasing
<1> HIDE DEF i
<1>7. \A x, y : <<x, y>> # <<>>
  OBVIOUS
<1>6. p \in Int \X Int => p # <<>> /\ p[1] \in Int /\ p[2] \in Int
  <2> SUFFICES ASSUME p \in Int \X Int PROVE p # <<>> /\ p[1] \in Int /\ p[2] \in Int
    OBVIOUS
  <2>1. p = <<p[1], p[2]>> /\ p[1] \in Int /\ p[2] \in Int
    OBVIOUS
  <2> QED
    BY <1>7, <2>1
<1>8. CASE i < 0
  <2>1. p = <<>>
    BY <1>4, <1>5, <1>8
  <2>2. t = [out |-> Append(o, <<i, i>>), last |-> <<>>]
    BY <1>1, <1>8, <2>1 DEF AddToRanges
  <2>3. k > 0 => Apart(v[k], i)
    BY <1>5, <1>8 DEF Apart
  <2>4. AllRanges(r) = o
    BY <1>3, <2>1
  <2>5. RangesOf(Append(o, <<i, i>>), v, k + 1)
    BY <1>4, <1>5, <2>3, <2>4, NewRange DEF i
  <2>6. AllRanges(t) = Append(o, <<i, i>>) /\ t.last = <<>>
    BY <2>2 DEF AllRanges
  <2>7. Append(o, <<i, i>>) \in Pairs
    BY <1>1, <1>5 DEF Pairs
  <2>8. k + 1 > 0 /\ k + 1 # 0
    OBVIOUS
  <2> HIDE DEF t
  <2> QED
    BY <1>8, <2>2, <2>5, <2>6, <2>7, <2>8 DEF Accumulated, i, t
<1>9. CASE ~(i < 0) /\ p # <<>> /\ p[2] = i - 1
  <2>1. t = [out |-> o, last |-> <<p[1], i>>]
    BY <1>1, <1>9 DEF AddToRanges
  <2>2. AllRanges(r) = Append(o, p) /\ p \in Int \X Int /\ k > 0
    BY <1>1, <1>3, <1>4, <1>9
  <2>3. v[k] = i - 1
    <3>1. Len(AllRanges(r)) = Len(o) + 1 /\ AllRanges(r)[Len(o) + 1] = p
      BY <1>1, <2>2 DEF Pairs
    <3>2. AllRanges(r)[Len(AllRanges(r))][2] = v[k]
      BY <1>4, <2>2 DEF RangesOf
    <3> QED
      BY <1>9, <3>1, <3>2
  <2>4. RangesOf(Append(o, <<p[1], i>>), v, k + 1)
    BY <1>1, <1>4, <1>5, <2>2, <2>3, LongerRange DEF i
  <2>5. AllRanges(t) = Append(o, <<p[1], i>>) /\ t.last = <<p[1], i>> /\ t.last # <<>>
    BY <1>7, <2>1 DEF AllRanges
  <2>6. <<p[1], i>> \in Int \X Int
    BY <1>5, <1>6, <2>2
  <2>7. k + 1 > 0 /\ k + 1 # 0
    OBVIOUS
  <2> HIDE DEF t
  <2> QED
    BY <1>1, <1>9, <2>1, <2>4, <2>5, <2>6, <2>7 DEF Accumulated, i, t
<1>10. CASE ~(i < 0) /\ ~(p # <<>> /\ p[2] = i - 1)
  <2>1. t = [out |-> AllRanges(r), last |-> <<i, i>>]
    BY <1>1, <1>2, <1>3, <1>10 DEF AddToRanges
  <2>2. k > 0 => Apart(v[k], i)
    <3> SUFFICES ASSUME k > 0 PROVE Apart(v[k], i)
      OBVIOUS
    <3>1. CASE p = <<>>
      BY <1>4, <1>5, <3>1 DEF Apart
    <3>2. CASE p # <<>>
      <4>1. Len(AllRanges(r)) = Len(o) + 1 /\ AllRanges(r)[Len(o) + 1] = p
        BY <1>1, <1>3, <3>2 DEF Pairs
      <4>2. AllRanges(r)[Len(AllRanges(r))][2] = v[k]
        BY <1>4 DEF RangesOf
      <4>3. v[k] # i - 1
        BY <1>10, <3>2, <4>1, <4>2
      <4> QED
        BY <1>5, <4>3 DEF Apart
    <3> QED
      BY <3>1, <3>2
  <2>3. RangesOf(Append(AllRanges(r), <<i, i>>), v, k + 1)
    BY <1>4, <1>5, <2>2, NewRange DEF i
  <2>4. AllRanges(t) = Append(AllRanges(r), <<i, i>>) /\ t.last = <<i, i>> /\ t.last # <<>>
    <3>1. t.out = AllRanges(r)
      BY <1>7, <2>1
    <3>2. t.last = <<i, i>> /\ t.last # <<>>
      BY <2>1
    <3> HIDE DEF t
    <3> QED
      BY <3>1, <3>2, SMTT(20) DEF AllRanges
  <2>5. AllRanges(r) \in Pairs
    BY <1>4 DEF RangesOf
  <2>6. <<i, i>> \in Int \X Int
    BY <1>5
  <2>7. k + 1 > 0 /\ k + 1 # 0
    OBVIOUS
  <2> HIDE DEF t
  <2> QED
    BY <1>10, <2>1, <2>3, <2>4, <2>5, <2>6, <2>7 DEF Accumulated, i, t
<1> QED
  BY <1>8, <1>9, <1>10 DEF i

LEMMA RangesAre ==
    ASSUME NEW s, Valid(s)
    PROVE  LET rs == Ranges(s)
           IN  \E v, l : /\ RangesOf(rs, v, l)
                         /\ Elements(s) = {v[k] : k \in 1..l}
<1> DEFINE S == Elements(s)
           v == Visits(s)
           l == Cardinality(S)
<1>1. S \subseteq Int /\ IsFiniteSet(S) /\ v = InOrder(S)
  BY ValidParts, VisitsInOrder
<1>2. l \in Nat /\ v \in [1..l -> S] /\ Increasing(v) /\ S = {v[k] : k \in 1..l}
  BY <1>1, InOrderIs
<1>3. v \in [1..l -> Int]
  BY <1>1, <1>2
<1>4. Len(v) = l
  BY <1>2, <1>3
<1>5. PICK f : /\ f[0] = NoRanges
               /\ \A k \in 1..l : f[k] = AddToRanges(f[k - 1], v[k])
               /\ Ranges(s) = AllRanges(f[l])
  BY <1>2, <1>4, RangesFold
<1> HIDE DEF v, l, S
<1> DEFINE T == {k \in Nat : k <= l => Accumulated(f[k], v, k)}
<1>6. 0 \in T
  <2>1. NoRanges = [out |-> <<>>, last |-> <<>>] /\ <<>> \in Pairs
    BY DEF NoRanges, Pairs
  <2>2. AllRanges(NoRanges) = <<>> /\ NoRanges.last = <<>>
    BY DEF NoRanges, AllRanges
  <2>3. RangesOf(<<>>, v, 0)
    BY DEF RangesOf, Pairs, In
  <2>4. Accumulated(NoRanges, v, 0)
    <3>1. \E o, p : NoRanges = [out |-> o, last |-> p] /\ o \in Pairs /\ (p = <<>> \/ p \in Int \X Int)
      BY <2>1
    <3>2. ~(0 > 0)
      OBVIOUS
    <3> QED
      BY <2>2, <2>3, <3>1, <3>2, Zenon DEF Accumulated
  <2> QED
    BY <1>5, <2>4
<1>7. ASSUME NEW k \in Nat, k \in T PROVE k + 1 \in T
  <2> SUFFICES ASSUME k + 1 <= l PROVE Accumulated(f[k + 1], v, k + 1)
    BY <1>7
  <2>1. Accumulated(f[k], v, k)
    BY <1>2, <1>7
  <2>2. k + 1 \in 1..l /\ (k + 1) - 1 = k
    BY <1>2
  <2>3. f[k + 1] = AddToRanges(f[k], v[k + 1])
    BY <1>5, <2>2
  <2> QED
    BY <1>2, <1>3, <2>1, <2>3, AccumulateOne
<1> HIDE DEF T
<1>8. l \in T
  BY <1>2, <1>6, <1>7, NumberInduction
<1>9. RangesOf(Ranges(s), v, l)
  BY <1>2, <1>5, <1>8 DEF T, Accumulated
<1> QED
  BY <1>2, <1>9 DEF S

(* Without stale copies, in every reachable state the walks through a set, *)
(* in either form, give its elements in order, and String prints its       *)
(* maximal ranges.                                                         *)
THEOREM WalksAlwaysAgree == ASSUME ~CopySmallToLarge PROVE Spec => []WalksAgree
<1>1. Init => IInv
  BY InitIInv
<1>2. IInv /\ [Next]_set => IInv'
  BY NextStep
<1>3. IInv => WalksAgree
  <2> SUFFICES ASSUME IInv, NEW a \in Names
      PROVE  LET s  == set[a]
                 S  == Elements(set[a])
                 rs == Ranges(s)
             IN  /\ Length(s) = Reference!Length(S)
                 /\ Ordered(s) = Reference!Ordered(S)
                 /\ \A i \in Elems :
                       LET n == NextFrom(s, i)
                           m == Reference!NextFrom(S, i)
                       IN  n[2] = m[2] /\ (n[2] => n[1] = m[1])
                 /\ UNION {r[1]..r[2] : r \in Seqs!ToSet(rs)} = S
                 /\ \A r \in Seqs!ToSet(rs) : r[1] <= r[2]
                 /\ \A k \in 2..Len(rs) :
                       LET before == rs[k - 1][2]
                       IN  before < (IF before < 0 THEN rs[k][1] ELSE rs[k][1] - 1)
    BY DEF WalksAgree
  <2> DEFINE s  == set[a]
             S  == Elements(set[a])
             rs == Ranges(s)
  <2>1. Valid(s)
    BY DEF IInv
  <2>2. S \subseteq Int
    BY <2>1, ValidParts
  <2>3. Length(s) = Reference!Length(S) /\ Ordered(s) = Reference!Ordered(S)
    <3>1. Length(s) = Cardinality(S) /\ Ordered(s) = InOrder(S)
      BY <2>1, VisitsInOrder
    <3> HIDE DEF s, S
    <3>2. Reference!Length(S) = Cardinality(S)
      BY Zenon DEF Reference!Length, Reference!Cardinality, Cardinality
    <3>3. Reference!Ordered(S) = InOrder(S)
      BY Zenon DEF Reference!Ordered, InOrder, Reference!Cardinality, Cardinality
    <3> QED
      BY <3>1, <3>2, <3>3
  <2>4. ASSUME NEW i \in Elems
        PROVE  LET n == NextFrom(s, i)
                   m == Reference!NextFrom(S, i)
               IN  n[2] = m[2] /\ (n[2] => n[1] = m[1])
    <3> DEFINE n == NextFrom(s, i)
               m == Reference!NextFrom(S, i)
    <3>1. i \in Int
      BY ElemsAssumption
    <3>2. /\ n[2] \in BOOLEAN
          /\ n[2] <=> \E x \in S : x >= i
          /\ n[2] => IsNext(S, i, n[1])
      BY <2>1, <3>1, NextAgrees
    <3>3. m = IF \E x \in S : x >= i
              THEN <<CHOOSE x \in S : x >= i /\ \A y \in S : y >= i => x <= y, TRUE>>
              ELSE <<i, FALSE>>
      BY DEF Reference!NextFrom
    <3> HIDE DEF n, m, s, S
    <3>4. CASE n[2]
      <4> DEFINE x == CHOOSE x \in S : x >= i /\ \A y \in S : y >= i => x <= y
      <4>1. m = <<x, TRUE>>
        BY <3>2, <3>3, <3>4
      <4>2. n[1] \in S /\ n[1] >= i /\ \A y \in S : y >= i => n[1] <= y
        BY <3>2, <3>4 DEF IsNext
      <4>3. x \in S /\ x >= i /\ \A y \in S : y >= i => x <= y
        BY <4>2
      <4> HIDE DEF x
      <4>4. n[1] = x
        <5>1. n[1] <= x /\ x <= n[1] /\ n[1] \in Int /\ x \in Int
          BY <2>2, <4>2, <4>3 DEF S
        <5> QED
          BY <5>1
      <4> QED
        BY <3>2, <3>4, <4>1, <4>4 DEF n, m
    <3>5. CASE ~n[2]
      <4>1. m = <<i, FALSE>>
        BY <3>2, <3>3, <3>5
      <4>2. m[2] = FALSE
        BY <4>1
      <4>3. n[2] = FALSE
        BY <3>2, <3>5
      <4> QED
        BY <4>2, <4>3 DEF n, m
    <3> QED
      BY <3>4, <3>5 DEF n, m
  <2>5. PICK v, l : RangesOf(rs, v, l) /\ S = {v[k] : k \in 1..l}
    BY <2>1, RangesAre
  <2> HIDE DEF rs, S
  <2>6. /\ rs \in Pairs
        /\ \A j \in 1..Len(rs) : rs[j][1] <= rs[j][2]
        /\ \A j \in 2..Len(rs) : Apart(rs[j - 1][2], rs[j][1])
        /\ \A x \in Int : In(rs, x) <=> x \in S
    BY <2>5 DEF RangesOf
  <2>7. Seqs!ToSet(rs) = {rs[j] : j \in 1..Len(rs)}
    BY <2>6 DEF Seqs!ToSet, Pairs
  <2>8. \A j \in 1..Len(rs) : rs[j][1] \in Int /\ rs[j][2] \in Int
    BY <2>6 DEF Pairs
  <2>9. UNION {r[1]..r[2] : r \in Seqs!ToSet(rs)} = S
    <3>1. ASSUME NEW x \in S PROVE \E r \in Seqs!ToSet(rs) : x \in r[1]..r[2]
      <4>1. x \in Int
        BY <2>2 DEF S
      <4>2. PICK j \in 1..Len(rs) : rs[j][1] <= x /\ x <= rs[j][2]
        BY <2>6, <4>1 DEF In
      <4> QED
        BY <2>7, <2>8, <4>1, <4>2
    <3>2. ASSUME NEW r \in Seqs!ToSet(rs), NEW x \in r[1]..r[2] PROVE x \in S
      <4>1. PICK j \in 1..Len(rs) : r = rs[j]
        BY <2>7
      <4>2. x \in Int /\ rs[j][1] <= x /\ x <= rs[j][2]
        BY <2>8, <4>1
      <4> QED
        BY <2>6, <4>2 DEF In
    <3> QED
      BY <3>1, <3>2
  <2>10. \A r \in Seqs!ToSet(rs) : r[1] <= r[2]
    BY <2>6, <2>7
  <2>11. \A k \in 2..Len(rs) :
            LET before == rs[k - 1][2]
            IN  before < (IF before < 0 THEN rs[k][1] ELSE rs[k][1] - 1)
    BY <2>6 DEF Apart
  <2> QED
    BY <2>3, <2>4, <2>9, <2>10, <2>11 DEF rs, S
<1> QED
  BY <1>1, <1>2, <1>3, PTL DEF Spec
=============================================================================
