SPECIFICATION FairSpec
CONSTANTS
    BufferFrames = 4
    FrameBytes = 2
    WriteLens = {2, 5, 6}
    ReadLens = {1, 3, 8}
    MaxOffered = 8
INVARIANTS
    TypeOK
    IndicesOrdered
    NoSlotShared
    DeliveredInOrder
    IInv
PROPERTIES
    RefinesQueue
    PublishedIsRead
