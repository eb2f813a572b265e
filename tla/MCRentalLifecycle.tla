-------------------------- MODULE MCRentalLifecycle --------------------------
(***************************************************************************)
(* Small instances of RentalLifecycle for TLC.                             *)
(***************************************************************************)
EXTENDS RentalLifecycle, TLC

\* Rental ids and requests are interchangeable.  Sound for the safety runs only.
Symmetry == Permutations(Rentals) \cup Permutations(Requests)

\* Leaves out the states with invoices.  Sound for the calendar: no action
\* reads an invoice to write a status, a booking or a payment.
NoInvoices == \A r \in Rentals : invoice[r] = "none"
=============================================================================
