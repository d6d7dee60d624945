CONSTANTS
    TxIds <- MCTxIds
    Commits <- MCCommits
    Inputs <- MCInputs
    Outputs <- MCOutputs
    LegacyId <- MCLegacyId
    FullBinding <- MCFullBinding
    BlockBodies <- MCBlockBodies
    MaxEntries = 1
    MaxAge = 1
    MaxTime = 4
    Embargos = {1, 2}
    None = None
    Sessions = {"a", "i", "j"}
    Outbound = {"a"}
    Addrs = {"a"}
    Inbounds = {"i", "j"}
    Listens <- MCListens
    MaxPeers = 1
    Burst = 1
    Behind = 0
    MaxHeight = 1
    Nobody = Nobody
SPECIFICATION NetSpec
INVARIANTS StemIsBackedUp EveryReaderIsPooled
PROPERTIES StemIsFluffed NewcomersStay
CHECK_DEADLOCK FALSE
