\* A user who scrolls or goes to an offset before the window was notified.
SPECIFICATION Spec
CONSTANTS
    BlockSize = 4
    SizeMod = 64
    Rows = 1
    ScrollRange = 10
    Files <- MCOneFile
    LoadsMayFail = FALSE
    Attempts = 1
    PageStep = 2
    ThumbMod = 20
    Jumps <- MCJumps
    BadInput = FALSE
INVARIANTS ReadsStayInBuffer
