SPECIFICATION FairSpec
CONSTANTS
    Writer = {w1, w2}
    Value = {v}
    MaxSize = 2
INVARIANTS
    TypeOK
    LockCount
    ReaderOwns
    ClaimedOnce
PROPERTIES
    SwapTerminates
