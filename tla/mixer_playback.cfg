SPECIFICATION FairSpec
CONSTANTS
    NCapture = 1
    NPlayback = 1
    MaxTurns = 2
PROPERTIES
    PlaybackObeyed
CHECK_DEADLOCK FALSE
