CONSTANTS
  MaxHeight = 2
  MaxCrashes = 2
  Exits = 1
  Disapproving = {"b3"}
SPECIFICATION StartupSpec
CHECK_DEADLOCK FALSE
INVARIANTS UpsertsHaveIndexes NothingLeftUndone
PROPERTIES StartsUp ReorgEnds AlwaysRecovers
