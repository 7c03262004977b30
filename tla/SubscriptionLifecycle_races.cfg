\* Stalled workers, crashes and late requests, under clocks of any precision.
CONSTANTS
    Workers = {w1, w2}
    Lease = 1
    MaxAttempts = 2
    Parts = {0, 1}
    MaxTime = 4
    MaxPeriod = 3
SPECIFICATION Spec
SYMMETRY WorkerSymmetry
INVARIANTS
    SuspendedIsOverdue
    DesiredFollowsSubscription
    NoCallOnceRefunded
    SettledByItsClaim
\* A refunded subscription leaves nothing to do.
CHECK_DEADLOCK FALSE
