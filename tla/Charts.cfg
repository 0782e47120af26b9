SPECIFICATION Spec
CONSTANTS
    Synced = 2
    MaxHeight = 3
    DiffInterval = 2
    MaxReorgs = 1
    MaxFaults = 2
INVARIANTS IndexIsHeight ChartsAreTheChain
CHECK_DEADLOCK FALSE
