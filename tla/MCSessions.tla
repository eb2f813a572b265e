----------------------------- MODULE MCSessions -----------------------------
(* Sessions with what TLC needs: ids that play the same part are symmetric. *)
EXTENDS Sessions, TLC

Symmetry ==
    Permutations(Users) \cup Permutations(Browsers)
        \cup Permutations(Tokens) \cup Permutations(Requests)
=============================================================================
