\* One request at a time beside the worker.
SPECIFICATION FairSpec
CONSTANTS
    Rentals  = {r1}
    Cars     = {c1}
    Requests = {q1}
    LastDay  = 3
    WorkerOverlaps = FALSE
INVARIANTS OpenPaymentBacked PaidInvoiceIsPaid
PROPERTIES CompletedNotCancelled ExpiredPaymentsResolved
