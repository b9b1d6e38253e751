\* Windows of two rows, and files whose scroll step is small beside a block
\* (4 * Rows * step <= BlockSize).
SPECIFICATION Spec
CONSTANTS
    BlockSize = 8
    SizeMod = 64
    Rows = 2
    ScrollRange = 20
    LoadsMayFail = FALSE
    Files <- MCFiles
INVARIANTS TypeOK ReadsStayInLoaded ShowsPosition ShowsEnoughRows
