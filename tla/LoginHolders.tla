---------------------------- MODULE LoginHolders ----------------------------
(***************************************************************************)
(* What the refresh tokens promise a user: a login is held by one thing at *)
(* a time, a token he can renew it with or a request that is renewing it.  *)
(* It is handed on, never copied, and once nothing holds it any more it is *)
(* over for good.                                                          *)
(***************************************************************************)
CONSTANTS Logins, Holders

VARIABLES
    begun,      \* the logins there have been
    holders     \* what holds each of them now

Init == begun = {} /\ holders = [l \in Logins |-> {}]

Begin(l, h) ==
    /\ l \notin begun
    /\ begun' = begun \cup {l}
    /\ holders' = [holders EXCEPT ![l] = {h}]

\* Only a login that is held is handed on.
HandOn(l, h) ==
    /\ holders[l] # {}
    /\ holders' = [holders EXCEPT ![l] = {h}]
    /\ begun' = begun

\* A logout everywhere ends several.
End(ls) ==
    /\ holders' = [l \in Logins |-> IF l \in ls THEN {} ELSE holders[l]]
    /\ begun' = begun

Next ==
    \/ \E l \in Logins, h \in Holders : Begin(l, h) \/ HandOn(l, h)
    \/ \E ls \in SUBSET Logins : End(ls)

Spec == Init /\ [][Next]_<<begun, holders>>

\* A login never has two holders.
OneHolder == \A l \in Logins : \A h, o \in holders[l] : h = o
=============================================================================
