\* Two callers enqueue and replay with one key; they may catch errors and go on.
CONSTANTS
    Callers = {c1, c2}
    Ids = {i1, i2, i3}
    Keys = {k1}
    NoKey = NoKey
    NoId = NoId
    MaxOps = 2
SPECIFICATION Spec
SYMMETRY CallerSymmetry
CHECK_DEADLOCK FALSE
INVARIANTS
    TypeOK
    SameKeySameJob
    ReplaysWellFounded
    OutboxKept
