CONSTANTS
    Cars = {c1, c2}
    Works = {w1, w2}
    Requests = {q1, q2}
    Mishaps = TRUE
SPECIFICATION Spec
SYMMETRY Symmetry
INVARIANTS
    TypeOK
    StatusFollowsWork
    RetiredStaysInactive
\* The ids run out: with every car deleted no request is left to make.
CHECK_DEADLOCK FALSE
