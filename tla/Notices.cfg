SPECIFICATION Spec
CONSTANTS
    Rentals = {r1}
    Requests = {q1, q2}
    PageSize = 1
    MaxNotices = 2
SYMMETRY Symmetry
INVARIANTS
    TypeOK
    CustomerKnowsTheStatus
    UnreadPageHidesNothing
