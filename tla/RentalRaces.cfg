\* One rental, two requests in flight and the worker: every race on one
\* rental's rows.
SPECIFICATION FairSpec
CONSTANTS
    Rentals  = {r1}
    Cars     = {c1}
    Requests = {q1, q2}
    LastDay  = 2
    WorkerOverlaps = TRUE
INVARIANTS TypeOK CollectedBeforeService PaidInvoiceIsCollected
PROPERTIES PaymentNeverRevived VoidIsFinal EndedRentalsReleased
