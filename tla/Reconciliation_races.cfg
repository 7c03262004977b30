\* Stalled workers, crashes and requests that outlive their callers.
CONSTANTS
    Workers = {w1, w2}
    Lease = 1
    MaxAttempts = 2
    Timely = FALSE
    MaxTime = 2
    MaxRows = 2
SPECIFICATION Spec
SYMMETRY WorkerSymmetry
INVARIANTS
    ActivationOnlyWhilePaid
    RefundedSeatIsFree
\* A refunded payment leaves nothing to do.
CHECK_DEADLOCK FALSE
