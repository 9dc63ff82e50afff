SPECIFICATION FairSpec
INVARIANTS
    RestingPowerDelivers
PROPERTIES
    UnpluggedPowerGoes
