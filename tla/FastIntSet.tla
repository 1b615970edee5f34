----------------------------- MODULE FastIntSet -----------------------------
(***************************************************************************)
(* util/fast_int_set.go: a set of integers kept as a bitmap of two words   *)
(* for the elements below smallCutoff, and beside it, once another element *)
(* has been added, as an intsets.Sparse that holds all elements.           *)
(*                                                                         *)
(* A word is the set of its bits that are 1: | is union, & intersection,   *)
(* and a shift moves the bits.  A Sparse (golang.org/x/tools) is the set   *)
(* of its elements; Min of an empty one is MaxInt, and Max is MinInt.  The *)
(* field alloc says whether the pointer large is not nil.                  *)
(* Assigning a FastIntSet, which would share its Sparse, is not modelled.  *)
(***************************************************************************)
EXTENDS Integers, Sequences, FiniteSets, FiniteSetsExt

CONSTANTS Names,     \* the variables that hold a FastIntSet
          Elems,     \* bound: the integers that calls are given
          WordBits,  \* the bits of a word
          CopySmallToLarge  \* do callers make the calls of CopyFrom that go wrong?

ASSUME ElemsAssumption == Elems \subseteq Int /\ IsFiniteSet(Elems)
ASSUME WordAssumption == WordBits \in Nat \ {0}
ASSUME CopyAssumption == CopySmallToLarge \in BOOLEAN

VARIABLE set         \* the value of each variable

Seqs == INSTANCE SequencesExt

smallCutoff == 2 * WordBits
Small == 0..(smallCutoff - 1)
Bits  == 0..(WordBits - 1)
NoBits == [lo |-> {}, hi |-> {}]
EmptySet == [small |-> NoBits, alloc |-> FALSE, large |-> {}]

-----------------------------------------------------------------------------
(* The bitmap.                                                             *)
IsSet(v, i) == IF i >= WordBits THEN (i % WordBits) \in v.hi ELSE i \in v.lo

(* Set, and SetRange, whose masks are the parts of the range in each word. *)
SetBits(v, S) == [lo |-> v.lo \cup (S \cap Bits),
                  hi |-> v.hi \cup {i - WordBits : i \in S \ Bits}]

UnsetBit(v, i) == IF i < WordBits THEN [v EXCEPT !.lo = @ \ {i}]
                                  ELSE [v EXCEPT !.hi = @ \ {i - WordBits}]

BitUnion(v, w)      == [lo |-> v.lo \cup w.lo, hi |-> v.hi \cup w.hi]
BitIntersect(v, w)  == [lo |-> v.lo \cap w.lo, hi |-> v.hi \cap w.hi]
BitDifference(v, w) == [lo |-> v.lo \ w.lo, hi |-> v.hi \ w.hi]
BitIntersects(v, w) == v.lo \cap w.lo # {} \/ v.hi \cap w.hi # {}
BitSubsetOf(v, w)   == v.lo \subseteq w.lo /\ v.hi \subseteq w.hi
OnesCount(v)        == Cardinality(v.lo) + Cardinality(v.hi)

(* The positions of the bits, which Next and ForEach visit one by one.     *)
Ones(v) == v.lo \cup {i + WordBits : i \in v.hi}

(* Bug: the high word is searched from bit start, not from its first bit. *)
BitNextBug(v, start) ==
    LET low  == {i \in v.lo : i >= start}
        high == {i \in v.hi : i >= start % WordBits}
    IN  IF low # {} THEN <<Min(low), TRUE>>
        ELSE IF high # {} THEN <<WordBits + Min(high), TRUE>>
        ELSE <<start, FALSE>>

(* The lowest bit from start on.  If there is none, no caller looks at the *)
(* value that comes with FALSE.                                            *)
BitNext(v, start) ==
    LET low  == {i \in v.lo : i >= start}
        from == IF start < WordBits THEN 0 ELSE start % WordBits
        high == {i \in v.hi : i >= from}
    IN  IF low # {} THEN <<Min(low), TRUE>>
        ELSE IF high # {} THEN <<WordBits + Min(high), TRUE>>
        ELSE <<start, FALSE>>

-----------------------------------------------------------------------------
(* Queries.                                                                *)
toLarge(s) == IF s.alloc THEN s.large ELSE Ones(s.small)

(* Bug: only the upper limit is looked at. *)
fitsInSmallBug(s) == ~s.alloc \/ \A i \in s.large : i < smallCutoff

fitsInSmall(s) == ~s.alloc \/ s.large \subseteq Small

Contains(s, i) == \/ i \in Small /\ IsSet(s.small, i)
                  \/ i \notin Small /\ s.alloc /\ i \in s.large

Empty(s) == s.small = NoBits /\ (s.alloc => s.large = {})

Length(s) == IF s.alloc THEN Cardinality(s.large) ELSE OnesCount(s.small)

(* The code says MaxInt for none; here all integers can be elements, and   *)
(* MaxInt itself, which the code would not find, is not told apart.        *)
NextFrom(s, startVal) ==
    LET start == IF startVal < 0 /\ ~s.alloc THEN 0 ELSE startVal
        bit   == BitNext(s.small, start)
        above == {x \in s.large : x >= start}
    IN  IF start \in Small /\ bit[2] THEN bit
        ELSE IF s.alloc /\ above # {} THEN <<Min(above), TRUE>>
        ELSE <<start, FALSE>>

(* The elements of S in increasing order: k - 1 of them are less than the  *)
(* k-th.                                                                   *)
InOrder(S) == [k \in 1..Cardinality(S) |->
                  CHOOSE x \in S : Cardinality({y \in S : y < x}) = k - 1]

(* ForEach visits these: of a bitmap the low word's bits first.            *)
Visits(s) ==
    IF fitsInSmall(s)
    THEN InOrder(s.small.lo)
         \o [k \in 1..Cardinality(s.small.hi) |-> WordBits + InOrder(s.small.hi)[k]]
    ELSE InOrder(s.large)

Ordered(s) == IF s.alloc THEN InOrder(s.large) ELSE Visits(s)

Intersects(s, r) ==
    \/ BitIntersects(s.small, r.small)
    \/ /\ s.alloc /\ r.alloc
       /\ s.large \cap toLarge(r) # {}

Equals(s, r) ==
    /\ s.small = r.small
    /\ IF fitsInSmall(s) THEN fitsInSmall(r)
       ELSE r.alloc /\ s.large = r.large

SubsetOf(s, r) ==
    IF fitsInSmall(s) THEN BitSubsetOf(s.small, r.small)
    ELSE ~fitsInSmall(r) /\ s.large \subseteq r.large

(* String: the ranges it prints, of the elements that ForEach visits.      *)
(* last is <<rangeStart, rangeEnd>>, or <<>> while rangeStart is -1.       *)
NoRanges == [out |-> <<>>, last |-> <<>>]

AddToRanges(acc, i) ==
    IF i < 0 THEN [acc EXCEPT !.out = Append(@, <<i, i>>)]
    ELSE IF acc.last # <<>> /\ acc.last[2] = i - 1
    THEN [acc EXCEPT !.last = <<@[1], i>>]
    ELSE [out |-> IF acc.last = <<>> THEN acc.out ELSE Append(acc.out, acc.last),
          last |-> <<i, i>>]

Ranges(s) ==
    LET v == Visits(s)
        acc[k \in 0..Len(v)] == IF k = 0 THEN NoRanges ELSE AddToRanges(acc[k - 1], v[k])
        end == acc[Len(v)]
    IN  IF end.last = <<>> THEN end.out ELSE Append(end.out, end.last)

-----------------------------------------------------------------------------
(* Operations, as functions of the receiver and the argument.              *)

Added(s, i) ==
    LET small == IF i \in Small THEN SetBits(s.small, {i}) ELSE s.small
        alloc == s.alloc \/ i \notin Small
    IN  [small |-> small, alloc |-> alloc,
         large |-> IF alloc THEN toLarge([s EXCEPT !.small = small]) \cup {i} ELSE {}]

(* Add once for each member of S, in any order. *)
AddAll(s, S) ==
    LET alloc == s.alloc \/ ~(S \subseteq Small)
    IN  [small |-> SetBits(s.small, S \cap Small), alloc |-> alloc,
         large |-> IF alloc THEN toLarge(s) \cup S ELSE {}]

(* AddRange sets the bits at once if there is no Sparse and the range fits *)
(* the bitmap, and adds one by one if not.                                 *)
RangeAdded(s, from, to) ==
    IF ~s.alloc /\ from >= 0 /\ to < smallCutoff
    THEN [s EXCEPT !.small = SetBits(s.small, from..to)]
    ELSE AddAll(s, from..to)

(* Bug: the Sparse keeps the element. *)
RemovedBug(s, i) ==
    [small |-> IF i \in Small THEN UnsetBit(s.small, i) ELSE s.small,
     alloc |-> s.alloc, large |-> s.large]

Removed(s, i) ==
    [small |-> IF i \in Small THEN UnsetBit(s.small, i) ELSE s.small,
     alloc |-> s.alloc, large |-> s.large \ {i}]

Copied(s) == [small |-> s.small, alloc |-> s.alloc, large |-> s.large]

(* The receiver keeps its Sparse, empty, when the source has none, and the *)
(* other methods go on looking at it: see StaleCopy.                       *)
CopiedFrom(s, r) ==
    [small |-> r.small, alloc |-> s.alloc \/ r.alloc, large |-> r.large]

(* Bug: the Sparse is made of the bitmap as it was before. *)
UnitedWithBug(s, r) ==
    [small |-> BitUnion(s.small, r.small),
     alloc |-> s.alloc \/ r.alloc,
     large |-> IF s.alloc \/ r.alloc THEN toLarge(s) \cup r.large ELSE {}]

UnitedWith(s, r) ==
    LET small == BitUnion(s.small, r.small)
    IN  [small |-> small,
         alloc |-> s.alloc \/ r.alloc,
         large |-> IF s.alloc \/ r.alloc
                   THEN toLarge([s EXCEPT !.small = small]) \cup toLarge(r) ELSE {}]

IntersectedWith(s, r) ==
    [small |-> BitIntersect(s.small, r.small),
     alloc |-> s.alloc /\ r.alloc,
     large |-> IF s.alloc /\ r.alloc THEN s.large \cap toLarge(r) ELSE {}]

DifferenceOf(s, r) ==
    [small |-> BitDifference(s.small, r.small),
     alloc |-> s.alloc, large |-> s.large \ toLarge(r)]

(* Encode writes a 0 and the low word, or the length and the elements that *)
(* Next finds from 0 on: all of them, if the bitmap is that of the Sparse. *)
Encodable(s) == ~s.alloc \/ \A i \in s.large : i >= 0

Encoded(s) ==
    IF s.small.hi = {} /\ fitsInSmall(s)
    THEN [length |-> 0, word |-> s.small.lo, elems |-> {}]
    ELSE [length |-> Length(s), word |-> {},
          elems |-> Ones(s.small) \cup toLarge(s)]

Faults == {"nothing", "elements", "length"}

(* Decode, as the stream lacks nothing, the bitmap or an element, or the   *)
(* length: the words that cannot be read are the last.                     *)
Decoded(s, enc, missing) ==
    CASE missing = "length"   -> s
      [] missing = "elements" -> EmptySet
      [] missing = "nothing"  ->
            IF enc.length = 0 THEN [EmptySet EXCEPT !.small.lo = enc.word]
                              ELSE AddAll(EmptySet, enc.elems)

-----------------------------------------------------------------------------
(* Bound: Make is given at most two elements. *)
Given == {S \in SUBSET Elems : Cardinality(S) <= 2}

Init == set = [a \in Names |-> EmptySet]

Assign(a, s) == set' = [set EXCEPT ![a] = s]

Make(a, S)     == Assign(a, AddAll(EmptySet, S))
Add(a, i)      == Assign(a, Added(set[a], i))
Remove(a, i)   == Assign(a, Removed(set[a], i))
Copy(a, b)     == Assign(a, Copied(set[b]))

(* AddRange panics if the range is empty. *)
AddRange(a, from, to) == from <= to /\ Assign(a, RangeAdded(set[a], from, to))

CopyFrom(a, b) == Assign(a, CopiedFrom(set[a], set[b]))

UnionWith(a, b)        == Assign(a, UnitedWith(set[a], set[b]))
IntersectionWith(a, b) == Assign(a, IntersectedWith(set[a], set[b]))
DifferenceWith(a, b)   == Assign(a, DifferenceOf(set[a], set[b]))

(* Union, Intersection and Difference copy the first argument. *)
Union(a, b, c)        == Assign(a, UnitedWith(Copied(set[b]), set[c]))
Intersection(a, b, c) == Assign(a, IntersectedWith(Copied(set[b]), set[c]))
Difference(a, b, c)   == Assign(a, DifferenceOf(Copied(set[b]), set[c]))

Decode(a, b, missing) ==
    /\ Encodable(set[b])
    /\ Assign(a, Decoded(set[a], Encoded(set[b]), missing))

(* CopyFrom(a, b) would leave a with elements in the bitmap and a Sparse   *)
(* that is empty but there (fast_int_set.go:221).                          *)
StaleCopy(a, b) == set[a].alloc /\ ~set[b].alloc /\ set[b].small # NoBits

(* What callers call: nothing in the repository calls CopyFrom, so whether *)
(* a caller makes a stale copy is a parameter.                             *)
Update(a) ==
    \/ \E S \in Given : Make(a, S)
    \/ \E i \in Elems : Add(a, i) \/ Remove(a, i)
    \/ \E from, to \in Elems : AddRange(a, from, to)
    \/ \E b \in Names : \/ Copy(a, b) \/ UnionWith(a, b)
                        \/ (CopySmallToLarge \/ ~StaleCopy(a, b)) /\ CopyFrom(a, b)
                        \/ IntersectionWith(a, b) \/ DifferenceWith(a, b)
                        \/ \E missing \in Faults : Decode(a, b, missing)
    \/ \E b, c \in Names : Union(a, b, c) \/ Intersection(a, b, c) \/ Difference(a, b, c)

Next == \E a \in Names : Update(a)

Spec == Init /\ [][Next]_set

-----------------------------------------------------------------------------
FastIntSets == {s \in [small : [lo : SUBSET Bits, hi : SUBSET Bits],
                        alloc : BOOLEAN, large : SUBSET Int] :
                    IsFiniteSet(s.large) /\ (s.alloc \/ s.large = {})}

(* "Even when we have to allocate the Sparse set, we still maintain the    *)
(* bitmap" (fast_int_set.go:33): with a Sparse, the bitmap holds exactly   *)
(* its elements below the cutoff, after any sequence of operations without *)
(* a stale copy.                                                           *)
Agree(s) == s.alloc => Ones(s.small) = s.large \cap Small

TypeOK == set \in [Names -> FastIntSets]

BitmapMaintained == \A a \in Names : Agree(set[a])

(* The elements of the variables. *)
Elements(s) == IF s.alloc THEN s.large ELSE Ones(s.small)

Reference == INSTANCE IntegerSets WITH
    val <- [a \in Names |-> Elements(set[a])]

(* Every operation but one does to the elements of its receiver what the   *)
(* reference variant of the type does (fast_int_set_testonly.go:14),       *)
(* whichever of the two sets has a Sparse, and leaves the other variables  *)
(* alone.  The one is CopyFrom, which does so except exactly when the copy *)
(* is stale: its line says so of the copies that callers make, and the     *)
(* line above it of the copies that they could make.                       *)
SameOperations ==
    \A a \in Names :
      /\ \A S \in Given : Make(a, S) => Reference!Make(a, S)
      /\ \A i \in Elems : /\ Add(a, i) => Reference!Add(a, i)
                          /\ Remove(a, i) => Reference!Remove(a, i)
      /\ \A from, to \in Elems :
            AddRange(a, from, to) => Reference!AddRange(a, from, to)
      /\ \A b \in Names :
            /\ Copy(a, b) => Reference!Copy(a, b)
            /\ Elements(CopiedFrom(set[a], set[b])) = Elements(set[b]) <=> ~StaleCopy(a, b)
            /\ CopyFrom(a, b) => (Reference!CopyFrom(a, b) <=> ~StaleCopy(a, b))
            /\ UnionWith(a, b) => Reference!UnionWith(a, b)
            /\ IntersectionWith(a, b) => Reference!IntersectionWith(a, b)
            /\ DifferenceWith(a, b) => Reference!DifferenceWith(a, b)
            /\ \A missing \in Faults : Decode(a, b, missing) => Reference!Decode(a, b, missing)
      /\ \A b, c \in Names :
            /\ Union(a, b, c) => Reference!Union(a, b, c)
            /\ Intersection(a, b, c) => Reference!Intersection(a, b, c)
            /\ Difference(a, b, c) => Reference!Difference(a, b, c)

(* So from any state in which no stale copy is left, callers may make them *)
(* or not.                                                                 *)
OperationsAgree == [][BitmapMaintained => SameOperations]_set

(* Without stale copies, every query of the two-part representation gives  *)
(* the answer of the reference variant: membership, size and comparisons,  *)
(* each of which takes a shortcut through the bitmap alone,                *)
QueriesAgree ==
    \A a, b \in Names :
        LET s == set[a]  S == Elements(set[a])  r == set[b]  R == Elements(set[b])
        IN  /\ \A i \in Elems : Contains(s, i) <=> Reference!Contains(S, i)
            /\ Empty(s) <=> Reference!Empty(S)
            /\ Intersects(s, r) <=> Reference!Intersects(S, R)
            /\ Equals(s, r) <=> Reference!Equals(S, R)
            /\ SubsetOf(s, r) <=> Reference!SubsetOf(S, R)

(* and the ordered walks: Next from any start, Len, Ordered, and the ranges *)
(* that String prints, which are the maximal runs of elements.             *)
WalksAgree ==
    \A a \in Names :
        LET s  == set[a]
            S  == Elements(set[a])
            rs == Ranges(s)
        IN  /\ Length(s) = Reference!Length(S)
            /\ Ordered(s) = Reference!Ordered(S)
            /\ \A i \in Elems :
                  LET n == NextFrom(s, i)
                      m == Reference!NextFrom(S, i)
                  IN  n[2] = m[2] /\ (n[2] => n[1] = m[1])
            /\ UNION {r[1]..r[2] : r \in Seqs!ToSet(rs)} = S
            /\ \A r \in Seqs!ToSet(rs) : r[1] <= r[2]
            /\ \A k \in 2..Len(rs) :
                  LET before == rs[k - 1][2]
                  IN  before < (IF before < 0 THEN rs[k][1] ELSE rs[k][1] - 1)

(* "CopyFrom sets the receiver to a copy of other" (fast_int_set.go:210):  *)
(* the receiver lists the elements that other lists.  A stale copy lists   *)
(* none.                                                                   *)
CopyFromCopies ==
    [][\A a, b \in Names : CopyFrom(a, b) => Ordered(set'[a]) = Ordered(set[b])]_set
=============================================================================
