\* One worker whose heartbeats may come too late.
CONSTANTS
    Jobs = {j1}
    Workers = {w1}
    NoWorker = NoWorker
    Mortal = {}
    MaxAttempts = 2
    Concurrency = 2
    BatchSize = 1
    PurgeBatchSize = 1
    MaxClaims = 3
    Timely = FALSE
    SelfCancelling = FALSE
SPECIFICATION Spec
INVARIANT
    NoExhaustedPending
