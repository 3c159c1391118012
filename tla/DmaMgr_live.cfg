SPECIFICATION FairSpec
CONSTANTS
    Event = {"tc"}
    Instances = 1
    Channels = 2
    Task = {task1, task2}
    Rounds = 1
    NoSlot = NoSlot
    Null = Null
    EarlyCb = FALSE
    Reinstall = FALSE
    LiveCtrl = FALSE
    Abandon = FALSE
    ShareIrq = FALSE
    RawClear = FALSE
INVARIANTS
    TypeOK
    OneOwner
PROPERTIES
    WaitEnds
    NoForeignClear
