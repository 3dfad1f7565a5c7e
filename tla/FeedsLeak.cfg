SPECIFICATION FairSpec
CONSTANTS
    Streams = {"futures"}
    Levels = {1, 2}
    MaxMoves = 3
    MaxDrops = 1
    MaxKeys = 2
    Room = 1
PROPERTY NoLeak
CHECK_DEADLOCK FALSE
