---------------------------- MODULE IntegerSets ----------------------------
(***************************************************************************)
(* Sets of integers as their callers see them: the reference variant of    *)
(* FastIntSet in util/fast_int_set_testonly.go, whose comment says "Tests  *)
(* that exhibit a difference when using one of these variants indicates a  *)
(* bug".  A variable holds a set; an operation changes its receiver only.  *)
(* The code's representation is shown to do the same, operation by         *)
(* operation, in FastIntSet.                                               *)
(***************************************************************************)
EXTENDS Integers, FiniteSets

CONSTANT Names       \* the variables that hold a set

VARIABLE val         \* the elements of each set

Assign(a, S) == val' = [val EXCEPT ![a] = S]

Make(a, S)     == Assign(a, S)
Add(a, i)      == Assign(a, val[a] \cup {i})
Remove(a, i)   == Assign(a, val[a] \ {i})
Copy(a, b)     == Assign(a, val[b])
CopyFrom(a, b) == Assign(a, val[b])

AddRange(a, from, to) == from <= to /\ Assign(a, val[a] \cup from..to)

UnionWith(a, b)        == Assign(a, val[a] \cup val[b])
IntersectionWith(a, b) == Assign(a, val[a] \cap val[b])
DifferenceWith(a, b)   == Assign(a, val[a] \ val[b])

Union(a, b, c)        == Assign(a, val[b] \cup val[c])
Intersection(a, b, c) == Assign(a, val[b] \cap val[c])
Difference(a, b, c)   == Assign(a, val[b] \ val[c])

(* What was encoded is decoded.  A stream that ends too early leaves the   *)
(* set as it was, if not even its first word is there, and else empties it.*)
Decode(a, b, missing) ==
    /\ \A i \in val[b] : i >= 0
    /\ Assign(a, CASE missing = "nothing"  -> val[b]
                   [] missing = "length"   -> val[a]
                   [] missing = "elements" -> {})

-----------------------------------------------------------------------------
(* What the queries answer of a set S.                                     *)
Contains(S, i)   == i \in S
Empty(S)         == S = {}
Length(S)        == Cardinality(S)
Intersects(S, R) == S \cap R # {}
Equals(S, R)     == S = R
SubsetOf(S, R)   == S \subseteq R

(* In increasing order: k - 1 elements are less than the k-th.              *)
Ordered(S) == [k \in 1..Cardinality(S) |->
                  CHOOSE x \in S : Cardinality({y \in S : y < x}) = k - 1]

(* The least element from start on, if there is one. *)
NextFrom(S, start) == IF \E x \in S : x >= start
                      THEN <<CHOOSE x \in S : x >= start /\ \A y \in S : y >= start => x <= y, TRUE>>
                      ELSE <<start, FALSE>>
============================================================================
