\* Export while the head moves to a heavier but shorter branch: Export reads
\* the head number without mu, ExportN reads the height index under it, and
\* the index above the new head still names the old branch's stored blocks.
CONSTANTS
    G = G  A1 = A1  A2 = A2  B1 = B1  B2 = B2  B3 = B3  X1 = X1  Y1 = Y1  C2 = C2  C3 = C3  H1 = H1
    Nil = Nil
    Blocks <- MCShortBlocks
    Genesis = G
    Parent <- MCShortParent
    Difficulty <- MCShortDifficulty
    Time <- MCShortTime
    Batches <- MCShortBatches
    Invalid = {}
    BadSeal = {}
    BadHashes = {}
    NWorkers = 2
    MaxTimeFutureBlocks = 1
    CheckpointLimit = 2
    MaxFutureBlocks = 2
    MaxNow = 2
    MaxSubmits = 2
    MaxCrashes = 0
    MaxAdmin = 0
    SetHeadAnyBlock = FALSE
    MaxStops = 0
    AdminDuringInsert = FALSE
    MaxExports = 1
    StatusReads = FALSE
    TimerOnEmpty = FALSE
SPECIFICATION Spec
INVARIANT
    ExportIsChain
CHECK_DEADLOCK FALSE
