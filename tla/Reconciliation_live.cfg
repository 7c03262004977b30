\* Attempts are recorded within the lease: releases are exclusive, and everything
\* owed is decided in the end.  No symmetry: liveness.
CONSTANTS
    Workers = {w1, w2}
    Lease = 1
    MaxAttempts = 2
    Timely = TRUE
    MaxTime = 2
    MaxRows = 1
SPECIFICATION FairSpec
INVARIANT ExclusiveRelease
PROPERTIES
    OwedIsResolved
    RefundCompletes
\* A refunded payment leaves nothing to do.
CHECK_DEADLOCK FALSE
