CONSTANTS
    Blocks <- MCBlocks
    Parent <- MCParent
    GenesisHash = "genesis"
    Size <- MCSize
    Invalid = {"x1"}
    Keep = 1
    JsonBytes = 5
    Installs = {"me", "other"}
    Me = "me"
    InitialDirs <- MCDirs
    Prunes = TRUE
    MaxRecords = 1
    MaxAfterFault = 2
    Junk = Junk
    None = None
SPECIFICATION SpecFaulty
INVARIANTS SavedReplays OnlyVerifiedBlocks 
PROPERTIES RestartsWhereItStopped
