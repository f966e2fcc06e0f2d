SPECIFICATION Spec
CONSTANTS
    Nodes <- MCNodes
    Value <- MCValue
    Where <- MCWhere
    TypeOf <- MCTypeOf
    Texts <- Words
    Default <- MCDefault
    Numerals <- MCNumerals
    Decimals <- MCDecimals
    Fixed <- MCFixed
    Double <- MCDouble
    RealTime = {"x"}
    MaxChanges = 2
    MaxCrashes = 2
INVARIANTS
    FileIsSnapshot
    DiffIsHonest
PROPERTIES
    LoadRestores
