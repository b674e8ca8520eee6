SPECIFICATION MCSpec
CONSTANTS
    Names = {"a", "b"}
    MaxDepth = 2
    MaxSeed = 1
    MaxCommands = 3
    MaxTransfers = 2
    MaxData = 2
    MaxOther = 1
    MaxWebCommands = 2
    TargetIds = {t1}
    NoTarget = NoTarget
    MaxSent = 4
    MaxOthers = 1
INVARIANT CleanupExact  
PROPERTY StartupReturns
CHECK_DEADLOCK FALSE
