\* A queue opens while workers claim: its limit can be passed.
CONSTANTS
    Workers = {w1, w2}
    Serves <- AllQueues
    Queues = {1}
    Jobs <- TwoJobs
    QueueOf <- TwoJobsQueues
    NoOne = NoOne
    Limits = {1}
    BatchSize = 2
SPECIFICATION Spec
SYMMETRY WorkerSymmetry
PROPERTY
    NoOversubscription
