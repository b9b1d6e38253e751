\* Files of zero to three blocks whose last block is partial, two endpoints; the
\* file may shrink and grow while it is served.  SizeMod is tight: in the next smaller
\* multiple of a block, the end of the last block would wrap (OnlyShortFilesFail).
SPECIFICATION FileFairSpec
CONSTANTS
    BlockSize = 2
    SizeMod = 8
    FileSizes = {0, 1, 3, 5}
    Endpoints = 2
    Deltas <- MCDeltas
    Lengths = {0, 2, 5}
INVARIANTS TypeOK AnswerIsPage OneMessageInFlight OperationsAreTimed BytesArePage TextFitsPage
PROPERTIES LostIsForever IsBlockService EveryCallReturns OnlyShortFilesFail
