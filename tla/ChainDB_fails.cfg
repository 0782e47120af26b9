CONSTANTS
  Blocks <- MCBlocks
  Genesis = "g"
  NoBlock = "none"
  Chain <- MCChain
  MaxHeight = 5
  Disapproving = {"b3", "a4"}
  Miners <- MCMiners
  Miner <- MCMiner
  Txs <- MCTxs
  RegularTxs <- MCMinedAtOnce
  StakeTxs <- MCStakeTxs
  InitTip = "r2"
  MaxCrashes = 1
  MaxFails = 1
SPECIFICATION Spec
CHECK_DEADLOCK FALSE
INVARIANTS TablesAgreeAfterOpen
