\* Two rentals and two requests racing for one car over two days, beside the
\* worker.
SPECIFICATION Spec
CONSTANTS
    Rentals  = {r1, r2}
    Cars     = {c1}
    Requests = {q1, q2}
    LastDay  = 1
    WorkerOverlaps = TRUE
SYMMETRY Symmetry
CONSTRAINT NoInvoices
INVARIANT NoDoubleBooking
PROPERTY CalendarSpec
