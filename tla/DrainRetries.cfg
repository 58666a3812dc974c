\* Any traffic, one job.
CONSTANTS
    Jobs = {j1}
    BatchSize = 1
SPECIFICATION Spec
CHECK_DEADLOCK FALSE
INVARIANT
    DrainedWasEmpty
