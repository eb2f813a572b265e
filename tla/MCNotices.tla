------------------------------ MODULE MCNotices ------------------------------
(* Values for TLC: requests are interchangeable. *)
EXTENDS Notices, TLC

Symmetry == Permutations(Requests)
=============================================================================
