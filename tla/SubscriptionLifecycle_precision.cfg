\* A clock finer than the database's timestamps.
CONSTANTS
    Workers = {w1}
    Lease = 1
    MaxAttempts = 2
    Parts = {0, 1}
    MaxTime = 3
    MaxPeriod = 2
SPECIFICATION Spec
PROPERTY OutcomeIsRecorded
\* A refunded subscription leaves nothing to do.
CHECK_DEADLOCK FALSE
