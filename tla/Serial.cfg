SPECIFICATION Spec
CONSTANTS
    Timeout = 2
    Bauds <- MCBauds
    Texts <- MCTexts
    PeerBytes <- MCPeer
    FifoSize = 2
    MaxCalls = 3
    MaxArrivals = 2
INVARIANTS
    OutputFaithful
    InputFaithful
    ReadyMeansConfigured
    NormalStateRestored
    FailsOnlyOnNoise
    LostOnlyToTimeouts
PROPERTIES
    CallsEnd
CHECK_DEADLOCK FALSE
