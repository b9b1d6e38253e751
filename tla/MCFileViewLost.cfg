\* Loads may throw between the two of load_buff.
SPECIFICATION Spec
CONSTANTS
    BlockSize = 4
    SizeMod = 64
    Rows = 1
    ScrollRange = 10
    LoadsMayFail = TRUE
    Files <- MCSmallFiles
INVARIANTS ShowsPosition
