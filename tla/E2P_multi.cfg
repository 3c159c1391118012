SPECIFICATION Spec
CONSTANTS
    Id = {id1, id2, id3, id4}
    Val = {x}
    Lengths = {4}
    Version = {ver1}
    BLK = 1
    EraseSize = 8
    SectorCnt = 3
    MaxVar = 4
    BlankLen = 20
    NoId = NoId
    Heeds = FALSE
    FaultAt = {}
    MaxFaults = 0
SYMMETRY Symmetry
PROPERTIES
    FlushKeepsLatest
