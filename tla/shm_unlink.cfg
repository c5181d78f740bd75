SPECIFICATION OverlapSpec
CONSTANTS
    NDaemons = 2
    NCapture = 1
    NPlayback = 1
    Sizes = {1}
PROPERTIES
    OnlyCreatorUnlinks
CHECK_DEADLOCK FALSE
