SPECIFICATION Spec
CONSTANTS
    Event = {"tc", "half", "abort"}
    Instances = 1
    Channels = 1
    Task = {task1, task2}
    Rounds = 2
    NoSlot = NoSlot
    Null = Null
    EarlyCb = FALSE
    Reinstall = FALSE
    LiveCtrl = TRUE
    Abandon = FALSE
    ShareIrq = FALSE
    RawClear = TRUE
SYMMETRY Symmetry
INVARIANTS
    DataMatchesCallback
    OwnCompletion
    DoneMeansOver
