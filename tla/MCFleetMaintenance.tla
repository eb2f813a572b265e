------------------------- MODULE MCFleetMaintenance -------------------------
(* FleetMaintenance for TLC: cars, windows and requests are model values. *)
EXTENDS FleetMaintenance, TLC

\* Nothing tells one car, window or request from another.
Symmetry == Permutations(Cars) \cup Permutations(Works) \cup Permutations(Requests)
=============================================================================
