SPECIFICATION MCSpec
CONSTANTS
    Types <- MCTypes
    Frame = {"f", "g"}
    Capacity = 1
    MaxMessages = 2
    Writer = {"a", "b"}
    Shell = {"shell"}
    MaxTexts = 2
    MaxCats = 1
INVARIANTS
    ListsApart
    SentInOnePeriod
    LostOnlyIfRaced
    CatLeavesNothing
PROPERTY FrameFlows
