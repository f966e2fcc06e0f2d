SPECIFICATION FairSpec
CONSTANTS
    Commands = {"watch", "tune"}
    MaxValue = 2
    Narrow <- MCNarrow
    MaxChanges = 3
    MaxLosses = 1
INVARIANTS
    DrawnWhileAlive
    ReplyBelongsToWaiter
PROPERTY EventuallyShown
