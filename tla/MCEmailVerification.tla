------------------------ MODULE MCEmailVerification ------------------------
(* EmailVerification with what TLC needs: symmetric requests, accounts and addresses. *)
EXTENDS EmailVerification, TLC

Symmetry ==
    Permutations(Users) \cup Permutations(Requests) \cup Permutations(Addresses)
=============================================================================
