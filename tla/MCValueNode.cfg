SPECIFICATION Spec
CONSTANTS
    Thread = {t1, t2, t3}
    NoThread = NoThread
    Kinds = {"setStr", "set", "setRT", "addRT"}
    Args <- OuterArgs
    Minimum = 1
    Maximum = 2
    MaxCalls = 3
SYMMETRY ThreadSymmetry
INVARIANTS
    CarriesWhatItStored
    QuietIsCurrent
PROPERTY InStoreOrder
