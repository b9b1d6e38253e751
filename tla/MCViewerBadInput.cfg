\* A port, a timeout or an offset that is not a number.
SPECIFICATION Spec
CONSTANTS
    BlockSize = 4
    SizeMod = 64
    Rows = 1
    ScrollRange = 10
    Files <- MCOneFile
    LoadsMayFail = FALSE
    Attempts = 2
    PageStep = 2
    ThumbMod = 20
    Jumps <- NoJumps
    BadInput = TRUE
INVARIANTS OneConnectAtATime
