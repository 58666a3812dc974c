\* drain under any traffic, and purge next to a worker that purges as well;
\* with three jobs and batches of two there are full, partial and empty batches.
CONSTANTS
    Jobs = {j1, j2, j3}
    BatchSize = 2
SPECIFICATION LiveSpec
CHECK_DEADLOCK FALSE
INVARIANTS
    QuietDrainWasEmpty
    SoloPurgeComplete
    PurgeCountsExact
PROPERTIES
    DrainReturns
    PurgeReturns
