CONSTANTS
    Clients = {c1, c2}
    NoOne = NoOne
    NoCharts = NoCharts
    MaxHeight = 1
    MaxReorgs = 1
    MaxErrors = 1
SPECIFICATION Spec
INVARIANTS LockSafe WaiterFindsCharts FreshIsCurrent
PROPERTIES CacheNeverGoesBack RequestsReturn
