CONSTANTS
  Blocks <- MCBlocks
  Genesis = "g"
  NoBlock = "none"
  Chain <- MCChain
  MaxHeight = 3
  InitTip = "a2"
  Charged = 2
  MaxMoves = 2
  MaxFails = 1
  MaxLates = 1
SPECIFICATION Spec
CHECK_DEADLOCK FALSE
INVARIANTS InStep PageShowsBest AssertionsHold
PROPERTIES CatchesUp QueueDrains
