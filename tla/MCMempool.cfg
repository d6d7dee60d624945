CONSTANTS
    TxIds <- MCTxIds
    Commits <- MCCommits
    Inputs <- MCInputs
    Outputs <- MCOutputs
    LegacyId <- MCLegacyId
    FullBinding <- MCFullBinding
    BlockBodies <- MCBlockBodies
    MaxEntries = 2
    MaxAge = 2
    MaxTime = 8
SPECIFICATION Spec
INVARIANTS NoDoubleSpendHeld SeenIndexesPool
PROPERTIES FirstSeenWins AgeOfSpendKept
