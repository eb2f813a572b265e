\* One client, two requests in the limiter, a limit of two in two ticks.
SPECIFICATION FairSpec
CONSTANTS
    Clients  = {c1}
    Requests = {q1, q2}
    Max      = 2
    Window   = 2
    Delay    = 1
INVARIANTS TypeOK ExpiryIsOwed RetryAfterIsKept TwoWindowsAtMost
PROPERTY RefusedIsReadmitted
