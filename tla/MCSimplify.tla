----------------------------- MODULE MCSimplify -----------------------------
(* Simplify for TLC: the names of a text.                                  *)
EXTENDS Simplify

MCNames == <<"a", "b", "c", "d", "e", "f">>
=============================================================================
