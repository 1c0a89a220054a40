CONSTANTS
    Tokens = {t1, t2}
    Requests = {q1, q2, q3}
    Day = 1
    Zone <- EastOfUTC
    MaxNow = 3
    MaxRestarts = 2
SPECIFICATION Spec
INVARIANTS TypeOK LogoutIsFinal LiveIsKept LapsedIsRefused CacheIsBacked
SYMMETRY Symmetry
\* Once the clock, the tokens and the restarts are used up nothing need happen.
CHECK_DEADLOCK FALSE
