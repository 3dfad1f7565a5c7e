SPECIFICATION Spec
CONSTANTS
    GatePrices = {2, 4}
    MaxQty = 2
    MaxOrders = 2
    MaxBatch = 2
    MaxGain = 2
    Kinds = {"quote", "cancel", "requote", "cancelAll"}
    Boosts = {"off", "reduce", "chase", "profit"}
    Seeds <- MCSeeds
    CapValues = {0, 2, 4}
    MaxFails = 1
    SideReset = 2
    Cooldown = 1
    Marks = {4, 6}
    MaxPos = 2
    Balance0 = 12
    MaxMoves = 7
    MechSets <- MCMechSets
    Pct <- MCPct
    SizeGate = 25
    Leverage = 2
    Interval = 2
    Trend = 1
    Pause = 1
    OrderSize = 10
INVARIANTS OvershootIsRealized GivebackOnce DueUntilCut
PROPERTY NeverBothLocked
CHECK_DEADLOCK FALSE
