SPECIFICATION FairSpec
CONSTANTS
    RingLen = 3
    DemoteBursts = 2
    RunCap = 4
INVARIANTS
    FaultSeen
PROPERTIES
    DropNeedsEvidence
    SettledVehicleConnects
