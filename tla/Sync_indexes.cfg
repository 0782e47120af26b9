SPECIFICATION Spec
CONSTANTS
 MaxHeight = 1
 MaxCrashes = 0
INVARIANT CreatesThemAll
CHECK_DEADLOCK FALSE
