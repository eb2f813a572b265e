\* Two users, one browser, three requests in flight and three tokens.
SPECIFICATION Spec
CONSTANTS
    Users    = {u1, u2}
    Browsers = {b1}
    Tokens   = {t1, t2, t3}
    Requests = {q1, q2, q3}
SYMMETRY Symmetry
INVARIANTS TypeOK OneLiveTokenPerLogin
PROPERTIES LoginsSpec LogoutEndsWhatItRevokes
