\* Two requests on two accounts with three addresses, three codes, a limit of
\* two attempts.
SPECIFICATION Spec
CONSTANTS
    Users       = {u1, u2}
    Addresses   = {a1, a2, a3}
    NoAddress   = NoAddress
    Requests    = {q1, q2}
    MaxAttempts = 2
    MaxCodes    = 3
    MaxLost     = 1
SYMMETRY Symmetry
INVARIANTS TypeOK WrongGuessesBounded SendsBounded
PROPERTY VerifiesPresentAddress
\* A verified account has nothing left to do.
CHECK_DEADLOCK FALSE
