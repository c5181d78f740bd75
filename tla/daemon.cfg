SPECIFICATION FairSpec
CONSTANTS
    NCapture = 2
    NPlayback = 1
    PeriodFrames = 1
    NumPeriods = 2
    NIfaces = 2
    DevCapture = 1
    DevPlayback = 1
    DevFrames = 2
    MaxPlugs = 2
INVARIANTS
    TypeOK
    StoppedAtEnd
    StaleOnlyInShutdown
    StreamsOnClaimed
    IInv
PROPERTIES
    StopsOnlyInShutdown
    DriversRestored
    ShutdownExits
    FirstDeviceStreams
    RingsDrain
