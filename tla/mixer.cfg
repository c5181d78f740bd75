SPECIFICATION FairSpec
CONSTANTS
    NCapture = 1
    NPlayback = 1
    MaxTurns = 2
INVARIANTS
    TypeOK
    Fresh
    IInv
PROPERTIES
    RefinesControl
    CaptureObeyed
CHECK_DEADLOCK FALSE
