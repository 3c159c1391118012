SPECIFICATION FairSpec
CONSTANTS
    Id = {id1, id2}
    Val = {x}
    Lengths = {2, 6}
    Version = {ver1, ver2}
    BLK = 3
    EraseSize = 13
    SectorCnt = 3
    MaxVar = 2
    BlankLen = 20
    NoId = NoId
    Heeds = TRUE
    FaultAt = {}
    MaxFaults = 0
INVARIANTS
    TypeOK
    LayoutOK
    ReadsLatest
    FreeSpaceErased
    ScanMeetsWhole
PROPERTIES
    NeverReprograms
    FlushCompacts
    RefinesKVStore
    CallReturns
