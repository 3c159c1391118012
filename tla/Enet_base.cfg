SPECIFICATION FairSpec
CONSTANTS
    RxCount = 3
    Sizes = {1, 3}
    Names = 6
    Free = Free
    None = None
    TxCount = 3
    Sender = {s1, s2}
    Rounds = 5
    Chains = {1}
    Buffers = {1}
    Unowned = Unowned
    Nobody = Nobody
INVARIANTS
    RxTypeOK
    RingInOnePiece
PROPERTIES
    RefinesRxQueue
    RxDrains
    RefinesTxQueue
    TxDrains
