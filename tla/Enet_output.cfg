SPECIFICATION Spec
CONSTANTS
    RxCount = 3
    Sizes = {1, 3}
    Names = 6
    Free = Free
    None = None
    TxCount = 3
    Sender = {tcpip}
    Rounds = 5
    Chains = {1}
    Buffers = {1}
    Unowned = Unowned
    Nobody = Nobody
INVARIANTS
    OkMeansQueued
