SPECIFICATION FairSpec
CONSTANTS
    Streams <- MCStreams
    Levels = {1, 2}
    MaxMoves = 3
    MaxDrops = 2
    MaxKeys = 3
    Room = 1
INVARIANTS BookTrue KeyRenewed
PROPERTIES ReaderDrains StreamsStop
CHECK_DEADLOCK FALSE
