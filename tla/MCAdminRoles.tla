---------------------------- MODULE MCAdminRoles ----------------------------
(* AdminRoles for TLC: accounts, tokens and requests are interchangeable. *)
EXTENDS AdminRoles, TLC

Symmetry == Permutations(Users) \cup Permutations(Tokens) \cup Permutations(Requests)
=============================================================================
