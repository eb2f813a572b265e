\* A status write races a payment.
SPECIFICATION Spec
CONSTANTS
    Rentals  = {r1}
    Cars     = {c1}
    Requests = {q1, q2}
    LastDay  = 1
    WorkerOverlaps = FALSE
INVARIANT ClosedHasNoOpenPayment
