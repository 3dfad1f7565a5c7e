\* A handler may take longer than the 5 s the manager waits.
CONSTANTS
    btc = btc
    eth = eth
    Symbols <- MCOneSymbol
    TopN = 1
    MaxFaults = 1
    Faults = {"slow"}
SPECIFICATION RotationSpec
INVARIANT StoppedBeforeFlatten
