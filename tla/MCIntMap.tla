------------------------------ MODULE MCIntMap ------------------------------
(* IntMap for TLC: the processes, and the keys, and the values, and the     *)
(* addresses are interchangeable.                                           *)
EXTENDS IntMap, TLC

Symmetry == Permutations(Keys) \cup Permutations(Values)
              \cup Permutations(Procs) \cup Permutations(Entries)
=============================================================================
