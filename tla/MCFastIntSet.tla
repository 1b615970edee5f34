---------------------------- MODULE MCFastIntSet ----------------------------
(* FastIntSet for TLC: words of two bits, elements on both sides of every  *)
(* boundary of the representation, and variables that are interchangeable. *)
EXTENDS FastIntSet, TLC

ElemsAcross == -1..4
Symmetry == Permutations(Names)
=============================================================================
