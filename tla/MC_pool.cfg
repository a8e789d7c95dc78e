CONSTANTS
    Frames <- FramesTwo
    Pages <- PagesThree
    Data <- DataOne
    a = a
    Zero = Zero
    FreeLink = FreeLink
    MaxPins = 3
SPECIFICATION Spec
INVARIANTS
    TypeOK
    PoolConsistent
    PinnedFramesStay
    FrameAvailable
PROPERTIES
    PageStoreSpec
