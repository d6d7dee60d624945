CONSTANTS
    Blocks <- MCBlocks
    Parent <- MCParent
    GenesisHash = "genesis"
    Size <- MCSize
    Invalid = {"x1"}
    Keep = 1
    JsonBytes = 5
    Installs = {"me", "other"}
    Me = "me"
    InitialDirs <- MCFresh
    Prunes = FALSE
    MaxAfterFault = 2
    MaxRecords = 2
    Junk = Junk
    None = None
SPECIFICATION Spec
INVARIANT EveryTailIsRolledBack
