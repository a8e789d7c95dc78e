\* The tree's pin scripts over a pool of two frames (the smallest pool
\* size the tree's two-pin helpers can run in).
CONSTANTS
    a = a
    Frames <- FramesTwo
    Pages <- PagesFour
    Data <- DataOne
    Zero = Zero
    FreeLink = FreeLink
    MaxPins = 3
    MIN_FILE_PAGES = 4
INIT TInit
NEXT TNext
INVARIANTS
    TreeGetsFrames
    AllocatorAccounts
    PagesWithinFile
