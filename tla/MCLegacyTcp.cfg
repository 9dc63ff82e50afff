SPECIFICATION FairSpec
CONSTANTS
    MaxRetransmit = 1
    RtxTicks = 1
    IdleTicks = 5
    MaxConns = 2
    MaxRequests = 2
    PeerTries = 1
    Channel = 2
INVARIANTS
    ReplyAnswersRequest
    SessionNeedsConnection
PROPERTIES
    PendingReplyResolved
CHECK_DEADLOCK FALSE
