CONSTANTS
  Blocks <- MCBlocks
  Genesis = "g"
  NoBlock = "none"
  Chain <- MCChain
  MaxHeight = 5
  Disapproving = {"b3", "a4"}
  Miners <- MCMiners
  Miner <- MCMiner
  Txs <- MCTxs
  RegularTxs <- MCMinedAboveBoth
  StakeTxs <- MCStakeTxs
  InitTip = "r2"
  MaxCrashes = 2
  MaxFails = 0
SPECIFICATION Spec
CHECK_DEADLOCK FALSE
INVARIANTS ConsistentAtRest DisapprovedIsInvalid MinersNotUndercounted MainRowsOnMainChain
PROPERTIES FollowsChain
