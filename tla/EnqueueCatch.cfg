\* A caller that catches an error of the SDK and goes on with its session.
CONSTANTS
    Callers = {c1, c2}
    Ids = {i1, i2}
    Keys = {k1}
    NoKey = NoKey
    NoId = NoId
    MaxOps = 2
SPECIFICATION Spec
CHECK_DEADLOCK FALSE
INVARIANT
    OutboxIntact
