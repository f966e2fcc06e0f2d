SPECIFICATION LogSpec
CONSTANTS
    Types <- MCTypes
    Name <- MCNames
    Capacity = 2
    LogLengthSecs = 1
    Forever = Forever
    Second = 1
    Wrap = 8
    MaxLag = 1
    MaxTime = 4
    MaxEntries = 3
INVARIANTS
    FileReadsBack
    FileKeepsRecent
    FileClamped
