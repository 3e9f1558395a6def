SPECIFICATION FairSpec
CONSTANTS
    Keys = {"k1", "k2"}
    Resolvers = {r1, r2}
    MaxSeq = 2
    Worlds = {"store", "identity", "resolve"}
    r1 = r1
    r2 = r2
    MaxOpens = 2
    MaxFails = 2
    MaxEnding = 1
CHECK_DEADLOCK FALSE
INVARIANTS OneNetwork StoreOutlivesWork KeyIsNeverLost
PROPERTIES NoRollback CloseReturns
