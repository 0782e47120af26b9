CONSTANT Scenes = {}
SPECIFICATION CallsSpec
CHECK_DEADLOCK FALSE
INVARIANT NoConnectionLost
