SPECIFICATION StreamsSpec
CONSTANTS
    OverflowChecks = FALSE
    Devices <- MCDevices
    NCapture = 2
    NPlayback = 2
    PeriodFrames = 2
    RingFrameBytes = 8
    MaxFill = 4
    Base = 4
    Denominators <- MCDenominators
    Percents <- MCPercents
INVARIANTS
    FormatAsUac2
CHECK_DEADLOCK FALSE
