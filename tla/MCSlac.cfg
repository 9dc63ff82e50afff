SPECIFICATION FairSpec
CONSTANTS
    Pevs = {p1, p2}
    NoPev = NoPev
    MaxSounds = 2
    MaxAttempts = 3
    InvalidThreshold = 3
    SoundWindow = 1
    ResponseWindow = 1
    MatchWindow = 2
    SearchWindow = 1
INVARIANTS
    TypeOK
    AttemptsBounded
    SoundsPending
    LinkedPeerHoldsKey
PROPERTIES
    MeasuringEnds
    ImplementsContract
