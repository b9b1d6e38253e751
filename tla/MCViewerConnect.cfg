\* A user who types numbers, and no offsets: three connections, to files with scroll
\* steps of 1 and 2.
SPECIFICATION FairSpec
CONSTANTS
    BlockSize = 8
    SizeMod = 64
    Rows = 1
    ScrollRange = 2
    Files <- MCSteps
    LoadsMayFail = TRUE
    Attempts = 3
    PageStep = 5
    ThumbMod = 4
    Jumps <- NoJumps
    BadInput = FALSE
INVARIANTS OneConnectAtATime WindowIsInitialized ScrollStaysInFile
PROPERTIES AttemptsEnd WindowComesBack
