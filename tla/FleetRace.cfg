CONSTANTS
    Cars = {c1}
    Works = {w1, w2}
    Requests = {q1, q2}
    Mishaps = FALSE
SPECIFICATION Spec
INVARIANTS
    AvailableMeansNoWork
\* The ids run out: with every car deleted no request is left to make.
CHECK_DEADLOCK FALSE
