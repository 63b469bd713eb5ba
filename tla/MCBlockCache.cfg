\* One reader racing InsertChain, SetHead and Reset, with an LRU of three.
CONSTANTS
    G = G  A1 = A1  A2 = A2  A3 = A3  r1 = r1
    Nil = Nil
    Blocks <- MCBlocks
    Genesis = G
    Parent <- MCParent
    Difficulty <- MCDifficulty
    Readers = {r1}
    CacheLimit = 3
    MaxInserts = 5
    MaxAdmin = 1
SPECIFICATION Spec
INVARIANT
    StoreIsTree
CHECK_DEADLOCK FALSE
