--------------------------- MODULE MCAvailability ---------------------------
(* Availability for TLC: rentals, windows, rates and requests are alike. *)
EXTENDS Availability, TLC

Symmetry == Permutations(Rentals) \cup Permutations(Rates) \cup Permutations(Requests)
=============================================================================
