\* A file of exactly two blocks.
SPECIFICATION FileSpec
CONSTANTS
    BlockSize = 2
    SizeMod = 16
    FileSizes = {4}
    Endpoints = 1
    Deltas <- MCDeltas
    Lengths = {4}
INVARIANTS AnswerIsPage
