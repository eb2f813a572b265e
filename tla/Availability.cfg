CONSTANTS
    Cars = {c1}
    Rentals = {r1, r2}
    Works = {w1}
    Rates = {low, high}
    Requests = {q1, q2}
    Horizon = 2
    MonthStart = 1
    MonthEnd = 1
SPECIFICATION Spec
SYMMETRY Symmetry
INVARIANTS
    TypeOK
    ViewsAgree
    ChecksHold
    FreeDaysWereFree
    RateIsKept
