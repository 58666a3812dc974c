\* Two queues, one of them with two jobs; both may be created, paused, resumed
\* and limited while two workers claim.
CONSTANTS
    Workers = {w1, w2}
    Serves <- AllQueues
    Queues = {1, 2}
    Jobs <- TwoJobs
    QueueOf <- TwoJobsQueues
    NoOne = NoOne
    Limits = {1, 2}
    BatchSize = 2
SPECIFICATION Spec
SYMMETRY WorkerSymmetry
INVARIANTS
    TypeOK
    ClaimsDisjoint
    NoWaitCycle
PROPERTIES
    LimitKept
    PausedIsQuiet
