SPECIFICATION MCSpec
CONSTANTS
    Venues = {"spot", "rest", "ws", "hyper"}
    Callers = {a, b}
    Slots = {1, 2}
    MaxOrders = 2
    Batches <- MCBatches
    Chunk = 1
    Window = 1
    MaxBid = 3
    Levels = 2
    Step = 1
    PerOrder = 2
    MinQty = 1
    MinNotional = 2
    CapBase = 3
    CapQuote = 7
    Funds = 6
    MaxBoots = 2
    Low = 2
    Target = 4
    Fees = 6
    Cooldown = 3
    Settle = 2
INVARIANTS AckedIsGone OneReplaces SlotsOwn EveryUnitCounted LadderOnce NeverOverfilled
PROPERTY StaleNeverLands
SYMMETRY CallerSymmetry
CHECK_DEADLOCK FALSE
