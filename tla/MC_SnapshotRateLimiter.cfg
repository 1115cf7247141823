\* Limits scaled down, the ban threshold at the per-minute limit so that bans and their lift happen.
CONSTANTS
    a1 = a1
    a2 = a2
    c1 = c1
    c2 = c2
    Addrs <- MCAddrs
    ChunkIds <- MCChunks
    MaxPerMinute = 2
    MaxConcurrent = 1
    MinBetween = 1
    DupWindow = 3
    BanThreshold = 2
    BanDuration = 2
    RateWindow = 2
    IdleExpiry = 3
    StartTime = 1
SPECIFICATION Spec
CONSTRAINT TimeBound
SYMMETRY MCSymmetry
INVARIANT SlotAccounting
INVARIANT PerPeerRate
