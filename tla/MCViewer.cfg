\* Everything the user can do, two connections, an empty file and one of three blocks of
\* which the buffer has two, and as many positions of the thumb as a message can tell apart.
SPECIFICATION TwoFilesSpec
CONSTANTS
    BlockSize = 4
    SizeMod = 64
    Rows = 1
    ScrollRange = 5
    Files <- MCFiles
    LoadsMayFail = TRUE
    Attempts = 2
    PageStep = 10
    ThumbMod = 10
    Jumps <- MCJumps
    BadInput = TRUE
INVARIANTS TypeOK LoadsUseLiveClient ThumbReachesFile WindowShowsFile ReadsStayInLoaded
PROPERTIES HandlersSeeOneConnection
