CONSTANTS
    p1 = p1
    p2 = p2
    NoNode = NoNode
    Peers <- MCPeers
    Faulty <- MCFaulty
    NoPeer <- NoNode
    N = 2
    MaxConcurrent = 2
    MinBetween = 1
    Timeout = 2
    BackoffSec <- MCBackoff
    StartTime = 1
    DiskCanFail = FALSE
SPECIFICATION FairSpec
VIEW FetchView
INVARIANT SequentialDownload
INVARIANT ReceivedAreStored
INVARIANT TimeoutFromOwnRequest
PROPERTY InFlightReleased
PROPERTY AcceptsInOrder
