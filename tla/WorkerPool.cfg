\* Two slots; pools one below and at the size that validate_runtime asks for.
CONSTANTS
    Slots = {s1, s2}
    PoolSizes = {3, 4}
    AliveTicks = 2
    ClaimLoop = ClaimLoop
    PurgeLoop = PurgeLoop
    NoRow = NoRow
SPECIFICATION LiveSpec
CHECK_DEADLOCK FALSE
INVARIANTS
    PoolSuffices
    SeenAlive
    AlarmJustified
PROPERTIES
    ComesBackAlive
