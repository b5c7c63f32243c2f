CONSTANTS
    Keys <- MCKeys
    KeyLength = 2
    Values <- MCValues
    ChildCnt = 2
    HashLength = 10
    MaxValueSizeToStoreInTrie = 2
    FullNodeLevelsToCache = 1
    MaxOps = 6
SPECIFICATION Spec
INVARIANTS RootCanonical ReadsBack
PROPERTIES NodesStable
CHECK_DEADLOCK FALSE
