SPECIFICATION SpecA
CONSTANTS
    Id = {id1, id2}
    Val = {x}
    Lengths = {1, 3}
    Version = {ver1}
    BLK = 2
    EraseSize = 9
    SectorCnt = 2
    MaxVar = 2
    BlankLen = 20
    NoId = NoId
    FaultAt = {"wr_data", "wr_info"}
    MaxFaults = 1
    Heeds = FALSE
    Wrap = 1024
    MaxAstray = 3
SYMMETRY Symmetry
INVARIANTS
    SettledSurvive
    LossContained
CHECK_DEADLOCK FALSE
