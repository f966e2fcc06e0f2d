SPECIFICATION MCSpec
CONSTANTS
    Client = {"shell", "client"}
    Shell = {"shell"}
    Name = {"sub", "p", "v", "c", "deep", "w", "other", "k"}
    Root = "root"
    Kind <- MCKind
    In <- MCIn
    Path <- MCPath
    Datum = {0, 1, 2}
    Absent = Absent
    Fragile = {"v", "c"}
    MaxRestarts = 1
    TypedData = {1}
    Prefix = "sub"
    Bindings <- MCBindings
    Policy <- MCPolicy
    Width <- MCWidth
    Default <- MCDefault
    Function = "c"
    Wrapped = "v"
    WrapperData = {2}
INVARIANTS
    TypeOK
    ShellSurvives
    RoundsThrowOnlyPoisoned
PROPERTIES
    BrowseComplete
    CommandsEnd
    NoStaleOverwrite
    ServedAsPromised
CHECK_DEADLOCK FALSE
