------------------------- MODULE ReservationCalendar -------------------------
(***************************************************************************)
(* What the rental tables promise the fleet: every day of a car is held by *)
(* at most one rental.  A rental takes all its days at once, when they are *)
(* all free, and gives them all back at once.                              *)
(***************************************************************************)
EXTENDS Naturals

CONSTANTS Rentals, Cars, Days

VARIABLE holders    \* the rentals that hold a day of a car

Holds(r) == \E c \in Cars, d \in Days : r \in holders[c][d]

Init == holders = [c \in Cars |-> [d \in Days |-> {}]]

\* One rental takes the days from .. to of a car, none of which is held.
Reserve(r, car, from, to) ==
    /\ ~Holds(r)
    /\ \A d \in Days : from <= d /\ d <= to => holders[car][d] = {}
    /\ holders' = [c \in Cars |-> [d \in Days |->
          IF c = car /\ from <= d /\ d <= to THEN {r} ELSE holders[c][d]]]

\* Several rentals give their days back together: one run of the worker.
Release(rs) ==
    holders' = [c \in Cars |-> [d \in Days |-> holders[c][d] \ rs]]

Next ==
    \/ \E r \in Rentals, car \in Cars, from, to \in Days : Reserve(r, car, from, to)
    \/ \E rs \in SUBSET Rentals : Release(rs)

Spec == Init /\ [][Next]_holders

\* A day of a car never has two holders.
OneHolder == \A c \in Cars, d \in Days : \A r, o \in holders[c][d] : r = o
=============================================================================
