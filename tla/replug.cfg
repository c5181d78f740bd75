SPECIFICATION FairSpec
CONSTANTS
    NCapture = 1
    NPlayback = 1
    PeriodFrames = 1
    NumPeriods = 2
    NIfaces = 2
    DevCapture = 1
    DevPlayback = 1
    DevFrames = 1
    MaxPlugs = 2
PROPERTIES
    ReconnectedDeviceStreams
