CONSTANTS
  Blocks <- ForkBlocks
  Genesis = "g"
  NoBlock = "none"
  Chain <- ForkChain
  Tickets <- MCTickets
  Live <- ForkLive
  MaxHeight = 4
  RecoverDepth = 1
  MaxCrashes = 2
  MaxFails = 1
SPECIFICATION Spec
CHECK_DEADLOCK FALSE
INVARIANTS TypeOK OneChain PoolIsLive
PROPERTIES StartsUp FinishesWork
