SPECIFICATION Spec
CONSTANTS
    Size = 8
    Page = 2
    Sector = 2
    Block = 4
    TransferMax = 2
    Starts = {1, 4}
    Lens = {1, 4}
    Crossing = FALSE
    Requirements = {"none", "plain"}
    CsAuto = TRUE
    Cached = TRUE
    MaxFaults = 0
    Idle = Idle
    Ready = Ready
PROPERTIES
    ReadsFlash
