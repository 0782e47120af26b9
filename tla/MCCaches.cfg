SPECIFICATION CachesSpec
CONSTANTS
    Addresses = {a1, a2}
    Clients = {c1, c2}
    NoOne = NoOne
    Cap = 2
    CapAddr = 2
    MaxUTXOs = 1
    MaxBlocks = 1
    MaxReorgs = 1
    MaxErrors = 1
    MaxRequests = 2
    Txs = {1, 2, 3}
    TxType <- MCTxType
    Coins = {0, 1}
    Values = {1, 2}
    MaxRows = 3
    PageSizes = {1, 2}
SYMMETRY Symmetric
CHECK_DEADLOCK FALSE
INVARIANTS CachedIsCurrent WithinCapacity LockSafe PagesAreTheView TotalsAgree
