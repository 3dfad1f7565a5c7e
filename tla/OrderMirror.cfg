\* A strategy that quotes, cancels, requotes and cancels all, beside the runner's
\* take-profit or beside the bagger.
CONSTANTS
    bid = bid
    MaxOrders = 3
    Aliens = 1
    Slots <- MCSlots
    Bags <- MCBags
    MaxExpected = 1
    MaxPlan = 1
    Kinds = {"quote", "cancel", "requote", "cancelAll"}
    Bagger = "on"
    Faults = {"lostAnswer", "silentCancel", "staleBook"}
SPECIFICATION Spec
CONSTRAINT Apart
INVARIANTS NoSilentLoss OnePerSlot
PROPERTY LatchedWhenGone
