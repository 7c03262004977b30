\* A payment overtakes a release in flight.
CONSTANTS
    Workers = {w1}
    Lease = 1
    MaxAttempts = 2
    Timely = TRUE
    MaxTime = 2
    MaxRows = 1
SPECIFICATION Spec
SYMMETRY WorkerSymmetry
INVARIANT AcknowledgedActivation
\* A refunded payment leaves nothing to do.
CHECK_DEADLOCK FALSE
