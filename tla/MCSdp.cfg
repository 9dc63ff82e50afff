SPECIFICATION SdpSpec
CONSTANTS
    Sources = {a, b}
    Securities = {"tls", "plain"}
    Transports = {"tcp", "udp"}
    MaxDatagrams = 3
INVARIANTS
    OwnAnswer
    SettledEndpoint
CHECK_DEADLOCK FALSE
