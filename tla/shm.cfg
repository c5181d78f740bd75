SPECIFICATION Spec
CONSTANTS
    NDaemons = 4
    NCapture = 1
    NPlayback = 1
    Sizes = {1, 2, 3}
INVARIANTS
    TypeOK
    MappingBacked
    RegionsDistinct
    FoundByName
    IInv
PROPERTIES
    FreshStart
    NothingLeft
CHECK_DEADLOCK FALSE
