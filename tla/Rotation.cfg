\* Calls are refused, or obeyed without an answer, three times, and handlers take their time.
CONSTANTS
    btc = btc
    eth = eth
    Symbols <- MCOneSymbol
    TopN = 1
    MaxFaults = 3
    Faults = {"refused", "lost", "rateLimit", "slow"}
SPECIFICATION RotationFairSpec
INVARIANTS ReleasedClean
PROPERTIES OneSupervisor OrphanAdopted  
