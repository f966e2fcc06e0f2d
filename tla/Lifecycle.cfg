SPECIFICATION FairSpec
CONSTANTS
    MaxStarts = 2
    MayFail = {"rep", "log"}
INVARIANTS
    ServersFollowCalls
    CallsSafeUntilStop
PROPERTIES
    StartAndStopEnd
CHECK_DEADLOCK FALSE
