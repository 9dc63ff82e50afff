SPECIFICATION ServersSpec
CONSTANTS
    PlainConns = {p1, p2}
    TlsConns = {t1}
    None = None
    MaxSent = 1
    MaxWire = 1
INVARIANTS
    NothingLeftBehind
    ServedVehicleIsAnswered
CHECK_DEADLOCK FALSE
