\* Trades on both channels, one restart, lost frames, late history, failing REST.
\* Or the mirror of a strategy that quotes and cancels, with every fault.
CONSTANTS
    MaxTrades = 2
    Sizes <- MCSizes
    MaxTime = 4
    MaxRespawns = 1
    Lookback = 1
    MaxDelay = 1
    RestLag = 1
    ClockLag = 0
    bid = bid
    MaxOrders = 3
    Aliens = 1
    Slots <- MCSlots
    Bags = {0}
    MaxExpected = 1
    MaxPlan = 1
    Kinds = {"quote", "cancel"}
    Bagger = "off"
    Faults = {"lostAnswer", "lostFill", "silentCancel", "staleBook"}
SPECIFICATION EitherSpec
INVARIANT NoFillSkipped
PROPERTIES ImplementsLedger LostFillReplayed SizeConverges GhostsExpire LostOrdersReturn
