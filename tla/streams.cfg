SPECIFICATION StreamsSpec
CONSTANTS
    OverflowChecks = TRUE
    Devices <- MCDevices
    NCapture = 2
    NPlayback = 2
    PeriodFrames = 2
    RingFrameBytes = 8
    MaxFill = 4
    Base = 4
    Denominators <- MCDenominators
    Percents <- MCPercents
INVARIANTS
    TypeOK
    FirstFormatTaken
    PanicsExactly
    ChannelsAsDescribed
    SingleSettingInForce
    BytesKept
    ConversionTypeOK
    RoundTrip
    ScaledInOrder
PROPERTIES
    Settles
CHECK_DEADLOCK FALSE
