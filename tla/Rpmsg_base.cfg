\* Two cores; four buffers in each direction, as the sample configures;
\* one one-way request between two calls, as the sample makes them.
SPECIFICATION FairSpec
CONSTANTS
    Nothing = Nothing
    N = 4
    IdxMod = 8
    SeqNos = 4
    Burst = 1
    Hurried = FALSE
INVARIANTS
    TypeOK
    BuffersOnce
    NoLostKick
PROPERTIES
    LinkComesUp
    RefinesRpcChannel
    CallsEnd
