\* Three attempts with delays of about 2 and at most 4 seconds; a preview of
\* a chunk and a half; timers of one second per operation, three in all.
CONSTANTS
    MaxAttempts = 3
    Timeout = 2
    HttpMaxTimeout = 1
    RetryBase = 2
    RetryMax = 4
    JitterPercent = 30
    PreviewBytes = 3
    ChunkBytes = 2
    Answers = {200, 302, 429, 500}
    Public = {p1}
    Private = {r1}
    NoPeer = NoPeer
    MaxCancels = 1
    MaxSends = 6
    MaxTicks = 5
SPECIFICATION LiveSpec
CHECK_DEADLOCK FALSE
INVARIANTS
    TypeOK
    EndsInTime
    PublicPeer
    DeliveriesCounted
    BackoffGrows
PROPERTIES
    RedeliveredOnlyIfCut
    ImplementsContract
    JobEnds
