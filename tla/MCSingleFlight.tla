-------------------------- MODULE MCSingleFlight --------------------------
(* SingleFlight for TLC: the flights are interchangeable, and so are the   *)
(* callers.                                                                *)
EXTENDS SingleFlight, TLC

Symmetry == {f @@ g : f \in Permutations(Flights), g \in Permutations(Callers)}
===========================================================================
