CONSTANTS
    Scenes <- MCScenes
    Txs = {t, v, w}
    Votes = {v, w}
    Ticket <- MCTicket
    VotesOn <- MCVotesOn
    MaxHeight = 2
    MaxTime = 1
    Skew = 1
    MaxFaults = 1
SPECIFICATION ServicesSpec
SYMMETRY Symmetric
\* The calls return and the processes end.
CHECK_DEADLOCK FALSE
INVARIANTS NoLeak RequestsNeverNest OneResponse NilTested NobodyStuck InventoryIsMempool CountsAgree
