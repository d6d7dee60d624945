CONSTANTS
    Blocks <- MCBlocks
    Genesis = "g"
    Parent <- MCParent
    Work <- MCWork
    Own = {"o3", "o2"}
    Outbound = {p}
    Inbound = {q}
    Tips <- MCTips
    MaxReorg = 1
    Page = 2
    PagesAhead = 2
    BufferCap = 1
    BranchCap = 2
    MaxRequests = 1
    MaxFaults = 1
SPECIFICATION Spec
INVARIANTS FlightIsOneThread
PROPERTIES ReorgsHeavierAndShallow  
CHECK_DEADLOCK FALSE
