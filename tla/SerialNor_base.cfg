SPECIFICATION FairSpec
CONSTANTS
    Size = 8
    Page = 2
    Sector = 2
    Block = 4
    TransferMax = 2
    Starts = {1, 4}
    Lens = {1, 4}
    Crossing = FALSE
    Requirements = {"none", "plain"}
    CsAuto = TRUE
    Cached = FALSE
    MaxFaults = 1
    Idle = Idle
    Ready = Ready
INVARIANTS
    TypeOK
    CommandsHeard
PROPERTIES
    RefinesStore
    CallReturns
