\* Two workers, one of which may stop and crash, and two jobs in batches of two;
\* leases outlive the heartbeats that hold them.
CONSTANTS
    Jobs = {j1, j2}
    Workers = {w1, w2}
    NoWorker = NoWorker
    Mortal = {w1}
    MaxAttempts = 2
    Concurrency = 2
    BatchSize = 2
    PurgeBatchSize = 1
    MaxClaims = 3
    Timely = TRUE
    SelfCancelling = FALSE
SPECIFICATION Spec
SYMMETRY JobSymmetry
CHECK_DEADLOCK FALSE
INVARIANTS
    NoExhaustedPending
    FencedResults
    AttemptsNumbered
    InflightBound
    StartsBounded
PROPERTY
    ImplementsContract
