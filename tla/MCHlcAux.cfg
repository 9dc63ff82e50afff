SPECIFICATION Spec
CONSTANTS
    AuxFitted = TRUE
    CanOk = TRUE
    MaxTarget = 1
    WdTimeout = 1
    WdMaxRetries = 1
    IdleTimeout = 2
INVARIANT NoClientNoPower
PROPERTY ImplementsContract
