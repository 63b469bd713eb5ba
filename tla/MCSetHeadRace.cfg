\* SetHead to an ancestor of the head while an InsertChain call is between
\* WriteBlock's unlocked read of the head and its insert under mu: the block
\* is made head on top of a parent SetHead has just deleted.
CONSTANTS
    G = G  A1 = A1  A2 = A2  B1 = B1  B2 = B2  B3 = B3  X1 = X1  Y1 = Y1  C2 = C2  C3 = C3  H1 = H1
    Nil = Nil
    Blocks <- MCAdminBlocks
    Genesis = G
    Parent <- MCAdminParent
    Difficulty <- MCAdminDifficulty
    Time <- MCAdminTime
    Batches <- MCAdminBatches
    Invalid = {}
    BadSeal = {}
    BadHashes = {}
    NWorkers = 2
    MaxTimeFutureBlocks = 1
    CheckpointLimit = 2
    MaxFutureBlocks = 2
    MaxNow = 2
    MaxSubmits = 2
    MaxCrashes = 0
    MaxAdmin = 1
    SetHeadAnyBlock = FALSE
    MaxStops = 0
    AdminDuringInsert = TRUE
    MaxExports = 0
    StatusReads = FALSE
    TimerOnEmpty = FALSE
SPECIFICATION Spec
INVARIANT
    HeadChainStored
CHECK_DEADLOCK FALSE
