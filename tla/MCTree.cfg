SPECIFICATION MCSpec
CONSTANTS
    Thread = {t1, t2}
    NoThread = NoThread
    Node <- MCNode
    Root = "root"
    Path <- MCPath
    Rank <- MCRank
    Value = {"v"}
    Where <- MCWhere
    Directories = {"root", "a", "ay"}
    MaxCalls = 3
SYMMETRY ThreadSymmetry
INVARIANTS
    CreatedOnce
    NoDeadlock
PROPERTIES
    VisitsAll
    FoundUnlessTorn
