CONSTANTS
    Coins = {a, b}
    Pays = {p, q}
    Birth = 0
    PageSize = 2
    MaxInputs = 2
    Vaulted = TRUE
    OldWallet = TRUE
    MaxLen = 3
    MaxForks = 2
    MaxEvents = 1
SPECIFICATION Spec
INVARIANTS ScanIsTheChain NoDoubleSigning BroadcastIsSaved NoAutomaticRevival
  
CHECK_DEADLOCK FALSE
