CONSTANTS
    a1 = a1
    c1 = c1
    c2 = c2
    Addrs <- MCAddrs
    ChunkIds <- MCChunks
    MaxPerMinute = 2
    MaxConcurrent = 2
    MinBetween = 1
    DupWindow = 3
    BanThreshold = 3
    BanDuration = 3
    RateWindow = 2
    IdleExpiry = 3
    StartTime = 1
SPECIFICATION AbuseSpec
CONSTRAINT TimeBound
CONSTRAINT AttemptBound
INVARIANT AbuseIsBanned
