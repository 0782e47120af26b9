CONSTANTS
  Blocks <- MCBlocks
  Genesis = "g"
  NoBlock = "none"
  Chain <- MCChain
  MaxHeight = 5
  Disapproving = {"b3"}
  Miners <- MCMiners
  Miner <- MCMiner
  Txs <- MCTxs
  RegularTxs <- MCMinedAbove
  StakeTxs <- MCStakeTxs
  InitTip = "r2"
  MaxCrashes = 0
  MaxFails = 0
SPECIFICATION Spec
CHECK_DEADLOCK FALSE
INVARIANTS ValidIsApproved
