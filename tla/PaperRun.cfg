CONSTANTS
    Bids = {2}
    MaxSent = 3
    MaxQty = 2
    MaxQueue = 0
    SubmitLat = {1}
    CancelLat = {0,1}
    MaxOpen = 2
    Leverage = 4
    PosCap = 0
    Tifs = {"post", "ioc"}
    Silent = FALSE
    MaxEvents = 4
    Steps = {1}
    Wallet0 = 1
    FundingRate = 1
    LiqFee = 1
    BagPause = 3
    Drawdown <- MCLow
    MaxFills = 1
    Window = 3
    MaxSize = 1
    Chunk = 2
    LastInstant = 3
    Second = 2
    Depths <- MCDepths
    Deals = {0, 2}
    Lags = {1}
    RowThreshold = 3
    Beat = 1
    MaxSteps = 2
    MaxRecordings = 2
    MaxOf <- MCMaxOf
    MaxFaults = 1
SPECIFICATION MCSpec
INVARIANTS EveryFillBooked NoFillFromBefore ReplayTrue NoHole
PROPERTY OnlyOvertakenReturns
CHECK_DEADLOCK FALSE
