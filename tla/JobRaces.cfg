\* Two workers race for one job with nothing assumed about heartbeats.
CONSTANTS
    Jobs = {j1}
    Workers = {w1, w2}
    NoWorker = NoWorker
    Mortal = {w1, w2}
    MaxAttempts = 2
    Concurrency = 2
    BatchSize = 1
    PurgeBatchSize = 1
    MaxClaims = 3
    Timely = FALSE
    SelfCancelling = TRUE
SPECIFICATION Spec
SYMMETRY WorkerSymmetry
CHECK_DEADLOCK FALSE
INVARIANTS
    TypeOK
    AttemptLedger
    SuccessFinal
    DeadLetterJustified
    CleanExitReturnsLeases
PROPERTY
    FinalStable
