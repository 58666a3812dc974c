\* Worker w2 lives on; w1 may stop, crash and fail at any point.  MaxClaims
\* is not binding: each claim of the job ends in an attempt (at most two) or
\* in a return by w1 (at most Concurrency of them).
CONSTANTS
    Jobs = {j1}
    Workers = {w1, w2}
    NoWorker = NoWorker
    Mortal = {w1}
    MaxAttempts = 2
    Concurrency = 2
    BatchSize = 1
    PurgeBatchSize = 1
    MaxClaims = 5
    Timely = TRUE
    SelfCancelling = FALSE
SPECIFICATION LiveSpec
PROPERTIES
    Settles
    StopLeadsToExit
