SPECIFICATION FairSpec
CONSTANTS
    Requests = {q1, q2}
    Keys = {k1, k2}
    MaxFailures = 3
    Window = 3
    None = None
INVARIANTS
    FailuresBounded
    StretchBounded
PROPERTY LockEnds
