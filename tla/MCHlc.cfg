SPECIFICATION FairSpec
CONSTANTS
    AuxFitted = FALSE
    CanOk = TRUE
    MaxTarget = 1
    WdTimeout = 1
    WdMaxRetries = 3
    IdleTimeout = 2
INVARIANT TypeOK
INVARIANT DcOnlyWhileDelivering
INVARIANT ContactorOnlyWhileDelivering
INVARIANT IsoSessionWatched
INVARIANT ContractBypassNeedsStaleDoc
PROPERTY PilotLossCutsPower
PROPERTY PowerNeedsRequest
PROPERTY ImplementsContract
PROPERTY UnpluggedPowerEnds
PROPERTY SilentIsoSessionEnds
PROPERTY SilentTimedSessionEnds
