SPECIFICATION FairSpec
CONSTANTS
    Sockets = {tcp, tls}
    Volts = {0, 1, 4}
    Amps = {0, 2}
    StepV = 3
    StepI = 3
    Threshold = 1
INVARIANTS
    OffIsOff
PROPERTIES
    SetpointsSettle
    RiseIsRamped
