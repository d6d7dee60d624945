CONSTANTS
    Commits <- MCCommits
    Value <- MCValue
    CoinbaseMaturity = 2
    InitialReward = 2
    HalvingInterval = 2
    MaxSupply = 5
    Window = 1
    TargetTime = 2
    MinSolveFactor = 0
    MaxSolveFactor = 3
    InitialDifficulty = 2
    MinDifficulty = 1
    MtpWindow = 3
    Blocks <- MCBlocks
    GenesisHash = "0"
    Checkpoints = {}
    MaxReorgDepth = 3
    MaxDrift = 5
    PruneKeepBlocks = 3
    Threads = {t1, t2}
    Offers <- MCOffers
    MaxNow = 1
SPECIFICATION Spec
INVARIANTS LedgerIsReplay UndoWindowExact HorizonIsReplay BodiesCoverWindow SupplySound
PROPERTIES FollowsHeaviest
CHECK_DEADLOCK FALSE
SYMMETRY ThreadSymmetry
