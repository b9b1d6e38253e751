\* A file so large that a window's worth of scroll steps is more than a block.
SPECIFICATION Spec
CONSTANTS
    BlockSize = 4
    SizeMod = 64
    Rows = 1
    ScrollRange = 8
    LoadsMayFail = FALSE
    Files <- MCSmallFiles
INVARIANTS ReadsStayInLoaded
