CONSTANTS
    FileOrder <- MCFileOrder
    FreshFiles = {"blocks", "meta"}
    PrunedFiles = {"headers", "horizon"}
    Processes = {p, q}
    MaxChains = 5
    MaxBackups = 3
    None = None
SPECIFICATION Spec
INVARIANTS NothingLost
PROPERTIES StartsOnlyWhole
CHECK_DEADLOCK FALSE
