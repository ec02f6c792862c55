SPECIFICATION Spec
CONSTANTS
    RawBlocks <- MCRawBlocks
    MaxBlocks = 4
    MaxBlock = 6
    MaxDoc = 14
    Target = 4
    Overlap = 2
    BatchSize = 2
CHECK_DEADLOCK FALSE
INVARIANTS TypeOK NothingLost WithinSection VectorsMatchTexts
