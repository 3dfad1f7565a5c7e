\* Rotations, respawns, readers, kills, restarts, and ends that do not wait.
CONSTANTS
    btc = btc
    eth = eth
    Symbols <- MCSymbols
    MaxFills <- MCMaxFills
    DeferUnderwater = "on"
    Faults = {"panic", "kill", "slowStop", "reader"}
SPECIFICATION FairAccountSpec
INVARIANTS NoDoubleCount RestartKeepsAll
PROPERTY BankedIsSaved
