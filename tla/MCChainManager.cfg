\* Fork choice, reorg and the insertion pipeline with two nonce verifiers,
\* future blocks and replay, no crashes.
CONSTANTS
    G = G  A1 = A1  A2 = A2  B1 = B1  B2 = B2  B3 = B3  X1 = X1  Y1 = Y1  C2 = C2  C3 = C3  H1 = H1
    Nil = Nil
    Blocks <- MCBlocks
    Genesis = G
    Parent <- MCParent
    Difficulty <- MCDifficulty
    Time <- MCTime
    Batches <- MCBatches
    Invalid = {}
    BadSeal = {Y1}
    BadHashes = {X1}
    NWorkers = 2
    MaxTimeFutureBlocks = 1
    CheckpointLimit = 2
    MaxFutureBlocks = 2
    MaxNow = 2
    MaxSubmits = 2
    MaxCrashes = 0
    MaxAdmin = 0
    SetHeadAnyBlock = FALSE
    MaxStops = 0
    AdminDuringInsert = FALSE
    MaxExports = 0
    StatusReads = FALSE
    TimerOnEmpty = FALSE
SPECIFICATION Spec
INVARIANTS
    TypeOK
    HeadIsHeaviest
    CanonicalIndex
    HeadChainStored
    DiffFindsBranch
PROPERTIES
    FutureBlocksReplayed
    RefinesAbstractChain
CHECK_DEADLOCK FALSE
