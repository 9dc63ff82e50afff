SPECIFICATION Spec
CONSTANTS
    Values = {pem, chain}
    LongValues = {chain}
    Cut = Cut
    Default = Default
    NoData = NoData
    ClockRange = 8
    Window = 2
    MaxUptime = 9
    MaxSets = 2
INVARIANTS
    ServesTheStore
PROPERTIES
    GuardedStore
