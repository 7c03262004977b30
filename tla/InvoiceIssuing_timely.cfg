\* Calls answer before their claims time out and the provider sends no failure
\* callbacks: what the claim is for.  No symmetry: one property is a liveness one.
CONSTANTS
    Requesters = {r1, r2}
    Private = FALSE
    ClaimTimeout = 2
    Validity = 3
    Timely = TRUE
    FailureCallbacks = FALSE
    MaxTime = 6
    MaxInvoices = 3
SPECIFICATION FairSpec
INVARIANTS
    ExclusiveCreation
    ExpiredKeepsRelease
PROPERTIES
    LiveLinkKept
    CreatingIsLeft
