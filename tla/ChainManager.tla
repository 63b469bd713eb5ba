---------------------------- MODULE ChainManager ----------------------------
(***************************************************************************)
(* ChainManager of src/chain_manager/manager.go: the insertion pipeline    *)
(* (InsertChain with its parallel nonce verifiers), fork choice and reorg  *)
(* (WriteBlock, merge, insert), the future-block queue and its periodic    *)
(* replay, the update() goroutine turning queued chain events into head    *)
(* events, and a crash of the node followed by NewChainManager's recovery  *)
(* (setLastState, recover).                                                *)
(*                                                                         *)
(* Processes: the network caller of InsertChain ("net"), the update()      *)
(* goroutine ("upd", which also calls InsertChain from procFutureBlocks),  *)
(* the nonce-verifier workers 1..NWorkers, and the goroutines that post    *)
(* queueEvents, and outside callers of Export and Status.  chainmu is the  *)
(* variable owner.                                                         *)
(***************************************************************************)
EXTENDS Reorg, Integers, SequencesExt, FiniteSets

CONSTANTS
    Time,                \* Time[b]: the header timestamp of b
    Invalid,             \* blocks the BlockProcessor rejects (any other error)
    BadSeal,             \* blocks whose pow.Verify fails
    BadHashes,           \* the BadHashes deny-list
    Batches,             \* the chains the network may pass to InsertChain
    NWorkers,            \* runtime.GOMAXPROCS(0)
    MaxTimeFutureBlocks, \* maxTimeFutureBlocks
    CheckpointLimit,     \* checkpointLimit
    MaxFutureBlocks,     \* maxFutureBlocks, the futureBlocks LRU capacity
    MaxNow,              \* bound: the last value of the clock
    MaxSubmits,          \* bound: the number of network InsertChain calls
    MaxCrashes,          \* bound: the number of node crashes
    MaxAdmin,            \* bound: the number of SetHead / Reset calls
    SetHeadAnyBlock,     \* FALSE: SetHead is only given ancestors of the head
    MaxStops,            \* bound: Stop calls (0 or 1)
    AdminDuringInsert,   \* TRUE: administrative calls may run during InsertChain
    MaxExports,          \* bound: Export calls (0 or 1)
    StatusReads,         \* TRUE: a caller of Status runs concurrently (one call)
    TimerOnEmpty         \* TRUE: futureTimer fires with futureBlocks empty too

ASSUME /\ Time \in [Blocks -> Nat]
       /\ Invalid \cup BadSeal \cup BadHashes \subseteq Blocks \ {Genesis}
       /\ Batches \subseteq Seq(Blocks) \ {<<>>}
       /\ NWorkers \in Nat \ {0}
       /\ {MaxTimeFutureBlocks, CheckpointLimit, MaxNow, MaxSubmits, MaxCrashes, MaxAdmin} \subseteq Nat
       /\ SetHeadAnyBlock \in BOOLEAN
       /\ MaxStops \in {0, 1}
       /\ AdminDuringInsert \in BOOLEAN
       /\ MaxExports \in {0, 1}
       /\ StatusReads \in BOOLEAN
       /\ TimerOnEmpty \in BOOLEAN
       /\ MaxFutureBlocks \in Nat \ {0}

Heights == 0..Number(CHOOSE b \in Blocks : \A c \in Blocks : Number(c) <= Number(b))

VARIABLES
    \* durable state in blockDb
    blockDb,        \* hashes whose "block-hash-" entry is present
    numIdx,         \* numIdx[n]: the hash under "block-num-" n, or Nil
    lastBlock,      \* the "LastBlock" key
    checkpointKey,  \* the "checkpoint" key, or Nil
    \* ChainManager fields
    currentBlock,   \* currentBlock (and lastBlockHash, always set with it)
    td,             \* td
    checkpoint,     \* checkpoint, the counter towards the next flush
    futureBlocks,   \* futureBlocks, an LRU: oldest key first
    \* one InsertChain call, run by the holder of chainmu
    owner,          \* "none", "net" or "upd"
    chain,          \* its chain argument
    i,              \* the index of the main loop (1-based)
    pc,             \* "idle", "loop", "merge", "commit" or "write"
    adopt,          \* newChain blocks merge has still to insert
    status,         \* WriteBlock's status: "chain", "side" or "split"
    queue,          \* the queueEvent being built: the non-nil entries
    fed,            \* indices the verifyNonces feeder has handed out
    wk,             \* wk[w]: the index worker w is verifying, 0 if none
    done,           \* the nonceDone channel
    checked,        \* indices i with nonceChecked[i]
    ret,            \* the result of the last InsertChain call that returned
    merged,         \* auxiliary: the block being written came through merge
    cblock,         \* WriteBlock's cblock, the head it compared the block with
    \* the rest of the node
    pending,        \* queueEvents posted by "go eventMux.Post", undelivered
    upd,            \* update(): "loop", "len", "get" (in procFutureBlocks), "wait" (for chainmu) or "insert"
    updBatch,       \* the blocks procFutureBlocks collected, then sorted, to insert
    updCopy,        \* procFutureBlocks' copy: len from Len(), keys from Keys() still to Get
    announced,      \* the block of the last ChainHeadEvent
    now,            \* time.Now().Unix()
    nsub,           \* network InsertChain calls made
    node,           \* "up", "down" (crashed) or "failed" (start-up panicked) or
                    \* "panicked" (a panic in update())
    crashes,        \* crashes so far
    nadmin,         \* SetHead / Reset calls so far
    stopper,        \* Stop: "none"; "stopping" once quit is closed and
                    \* procInterrupt set, waiting on wg; "stopped" once it returned
    \* a caller of Export
    expLast,        \* the head number Export read, with the crash count then; or Nil
    exported,       \* ExportN's result: ok (no error) and out (the blocks it looked up),
                    \* or Nil if none yet
    \* a caller of Status
    reported        \* Status's result: the td and the head it returned, or Nil

persistent == <<blockDb, numIdx, lastBlock, checkpointKey>>
insVars == <<owner, chain, i, pc, adopt, status, queue, fed, wk, done, checked, merged, cblock>>
chainVars == <<persistent, currentBlock, td, checkpoint, futureBlocks, insVars, ret,
               pending, upd, updBatch, updCopy, announced, now, nsub, node, crashes, nadmin, stopper>>
expVars == <<expLast, exported, reported>>
vars == <<chainVars, expVars>>

Workers == 1..NWorkers
Status == {"chain", "side", "split"}
Event == [kind : Status, block : Blocks]

-----------------------------------------------------------------------------
(* Helpers *)

\* lru.Cache.Add on futureBlocks: the key becomes the newest; the oldest is
\* evicted beyond the capacity.
FutureAdd(q, b) ==
    LET q1 == Append(Remove(q, b), b)
    IN  IF Len(q1) > MaxFutureBlocks THEN Tail(q1) ELSE q1

\* types.BlockBy(types.Number).Sort: ascending height, ties in any order.
SortedByNumber(S) ==
    {s \in SetToSeqs(S) : \A k \in 1..Len(s) - 1 : Number(s[k]) <= Number(s[k + 1])}

\* What GetBlock and HasBlock see: the cache first, then the store.  makeCache
\* always pins the genesis block in the cache, and every other cache entry is
\* a block that was in the store when it was cached; only SetHead and Reset
\* delete store entries and both rebuild the cache right after.  So, short of
\* an eviction after blockCacheLimit other entries, the running manager sees
\* exactly the stored blocks and the genesis block.
Visible == blockDb \cup {Genesis}

\* verifyNonces starts min(GOMAXPROCS, len(blocks)) workers.
NWorkersFor(c) == IF Len(c) < NWorkers THEN Len(c) ELSE NWorkers

\* Mutant of Insert: the checkpoint counter is not reset after the flush.
InsertNoReset(b) ==
    /\ numIdx' = [numIdx EXCEPT ![Number(b)] = b]
    /\ lastBlock' = b
    /\ IF checkpoint + 1 > CheckpointLimit
       THEN checkpoint' = checkpoint + 1 /\ checkpointKey' = b
       ELSE checkpoint' = checkpoint + 1 /\ UNCHANGED checkpointKey
    /\ currentBlock' = b

\* ChainManager.insert(block): WriteHead stores the height index and the
\* "LastBlock" key; every checkpointLimit+1 inserts the "checkpoint" key is
\* flushed; the block becomes the head.
Insert(b) ==
    /\ numIdx' = [numIdx EXCEPT ![Number(b)] = b]
    /\ lastBlock' = b
    /\ IF checkpoint + 1 > CheckpointLimit
       THEN checkpoint' = 0 /\ checkpointKey' = b
       ELSE checkpoint' = checkpoint + 1 /\ UNCHANGED checkpointKey
    /\ currentBlock' = b

\* The InsertChain call returns: chainmu is released, the deferred
\* close(nonceQuit) stops the feeder and the workers' later results go to a
\* channel nobody reads.
StopInsertion ==
    /\ owner' = "none"
    /\ pc' = "idle"
    /\ chain' = <<>>
    /\ i' = 0
    /\ adopt' = <<>>
    /\ queue' = <<>>
    /\ fed' = 0
    /\ wk' = [w \in Workers |-> 0]
    /\ done' = <<>>
    /\ checked' = {}
    /\ merged' = FALSE
    /\ cblock' = Nil

Release ==
    /\ StopInsertion
    /\ upd' = IF owner = "upd" THEN "loop" ELSE upd

\* return i, err: the batch stops; the events queued so far are not posted.
Abort(k) ==
    /\ Release
    /\ ret' = [idx |-> k, err |-> TRUE]
    /\ UNCHANGED <<persistent, currentBlock, td, checkpoint, futureBlocks, status,
                   pending, updBatch, updCopy, announced, now, nsub, node, crashes, nadmin, stopper>>

\* procInterrupt, set by Stop.
Interrupted == stopper # "none"

\* The loop moves to the next block (a "continue" or the end of an
\* iteration); the next iteration first checks procInterrupt and, if set,
\* breaks out ("Premature abort during chain processing").
NextBlock ==
    /\ i' = IF Interrupted THEN Len(chain) + 1 ELSE i + 1
    /\ pc' = "loop"

Block == chain[i]

-----------------------------------------------------------------------------
(* Init: NewChainManager on an empty database: setLastState finds no       *)
(* "LastBlock" and calls Reset, which writes and inserts the genesis       *)
(* block; setLastState then takes td from the head.                        *)

Init ==
    /\ blockDb = {Genesis}
    /\ numIdx = [n \in Heights |-> IF n = 0 THEN Genesis ELSE Nil]
    /\ lastBlock = Genesis
    /\ checkpointKey = IF 1 > CheckpointLimit THEN Genesis ELSE Nil
    /\ currentBlock = Genesis
    /\ td = TD(Genesis)
    /\ checkpoint = IF 1 > CheckpointLimit THEN 0 ELSE 1
    /\ futureBlocks = <<>>
    /\ owner = "none" /\ chain = <<>> /\ i = 0 /\ pc = "idle" /\ adopt = <<>>
    /\ status = "side" /\ queue = <<>> /\ fed = 0 /\ wk = [w \in Workers |-> 0]
    /\ done = <<>> /\ checked = {} /\ merged = FALSE /\ cblock = Nil
    /\ ret = [idx |-> 0, err |-> FALSE]
    /\ pending = {}
    /\ upd = "loop" /\ updBatch = <<>> /\ updCopy = Nil
    /\ announced = Genesis
    /\ now = 0
    /\ nsub = 0
    /\ node = "up"
    /\ crashes = 0
    /\ nadmin = 0
    /\ stopper = "none"
    /\ expLast = Nil
    /\ exported = Nil
    /\ reported = Nil

-----------------------------------------------------------------------------
(* InsertChain: taking chainmu and starting verifyNonces. *)

\* Mutant of Start: procInterrupt is not checked before the first block.
StartNoCheck(c, batch) ==
    /\ owner' = c
    /\ chain' = batch
    /\ i' = 1
    /\ pc' = "loop"
    /\ adopt' = <<>>
    /\ queue' = <<>>
    /\ fed' = 0
    /\ wk' = [w \in Workers |-> 0]
    /\ done' = <<>>
    /\ checked' = {}
    /\ merged' = FALSE
    /\ cblock' = Nil

Start(c, batch) ==
    /\ owner' = c
    /\ chain' = batch
    /\ i' = IF Interrupted THEN Len(batch) + 1 ELSE 1
    /\ pc' = "loop"
    /\ adopt' = <<>>
    /\ queue' = <<>>
    /\ fed' = 0
    /\ wk' = [w \in Workers |-> 0]
    /\ done' = <<>>
    /\ checked' = {}
    /\ merged' = FALSE
    /\ cblock' = Nil

\* The network (downloader, fetcher) calls InsertChain(batch).
NetInsertChain(batch) ==
    /\ node = "up"
    /\ owner = "none"
    /\ nsub < MaxSubmits
    /\ Start("net", batch)
    /\ nsub' = nsub + 1
    /\ UNCHANGED <<persistent, currentBlock, td, checkpoint, futureBlocks, status, ret,
                   pending, upd, updBatch, updCopy, announced, now, node, crashes, nadmin, stopper>>

\* Mutant of FeedNonce: the feeder stops one index early.
FeedNonceShort(w) ==
    /\ node = "up"
    /\ pc # "idle"
    /\ w <= NWorkersFor(chain)
    /\ wk[w] = 0
    /\ fed < Len(chain) - 1
    /\ wk' = [wk EXCEPT ![w] = fed + 1]
    /\ fed' = fed + 1
    /\ UNCHANGED <<persistent, currentBlock, td, checkpoint, futureBlocks, owner, chain, i,
                   pc, adopt, status, queue, done, checked, merged, cblock, ret,
                   pending, upd, updBatch, updCopy, announced, now, nsub, node, crashes, nadmin, stopper>>

\* The verifyNonces feeder hands the next index to idle worker w over the
\* unbuffered channel in.
FeedNonce(w) ==
    /\ node = "up"
    /\ pc # "idle"
    /\ w <= NWorkersFor(chain)
    /\ wk[w] = 0
    /\ fed < Len(chain)
    /\ wk' = [wk EXCEPT ![w] = fed + 1]
    /\ fed' = fed + 1
    /\ UNCHANGED <<persistent, currentBlock, td, checkpoint, futureBlocks, owner, chain, i,
                   pc, adopt, status, queue, done, checked, merged, cblock, ret,
                   pending, upd, updBatch, updCopy, announced, now, nsub, node, crashes, nadmin, stopper>>

\* Worker w sends nonceResult{i, pow.Verify(blocks[i])} on nonceDone.
VerifyNonce(w) ==
    /\ node = "up"
    /\ wk[w] # 0
    /\ done' = Append(done, [idx |-> wk[w], valid |-> chain[wk[w]] \notin BadSeal])
    /\ wk' = [wk EXCEPT ![w] = 0]
    /\ UNCHANGED <<persistent, currentBlock, td, checkpoint, futureBlocks, owner, chain, i,
                   pc, adopt, status, queue, fed, checked, merged, cblock, ret,
                   pending, upd, updBatch, updCopy, announced, now, nsub, node, crashes, nadmin, stopper>>

-----------------------------------------------------------------------------
(* The main loop of InsertChain at block i. *)

LoopAt == node = "up" /\ pc = "loop" /\ i <= Len(chain)

\* "for !nonceChecked[i]": take the next result from nonceDone; a failed
\* verification, of whichever index, returns that index.
RecvNonce ==
    /\ LoopAt
    /\ i \notin checked
    /\ done # <<>>
    /\ LET r == Head(done) IN
       \/ /\ r.valid
          /\ done' = Tail(done)
          /\ checked' = checked \cup {r.idx}
          /\ UNCHANGED <<persistent, currentBlock, td, checkpoint, futureBlocks, owner, chain,
                         i, pc, adopt, status, queue, fed, wk, merged, cblock, ret,
                         pending, upd, updBatch, updCopy, announced, now, nsub, node, crashes, nadmin, stopper>>
       \/ /\ ~r.valid
          /\ Abort(r.idx)

\* Block i is verified and may be looked at.
Verified == LoopAt /\ i \in checked

\* BlockProcessor.Process(block): KnownBlockErr for a stored block, a parent
\* error when the parent is not stored, BlockFutureErr for a timestamp
\* ahead of the clock, another error for an invalid block, or receipts.
Processor(b) ==
    IF b \in Visible THEN "known"
    ELSE IF Parent[b] \notin Visible THEN "parent"
    ELSE IF Time[b] > now THEN "future"
    ELSE IF b \in Invalid THEN "invalid"
    ELSE "ok"

loopRest == <<persistent, currentBlock, td, checkpoint, owner, chain, adopt, status, queue,
              fed, wk, done, checked, merged, cblock, ret, pending, upd, updBatch, updCopy, announced,
              now, nsub, node, crashes, nadmin, stopper>>

\* "Found known bad hash in chain".
RejectBadHash ==
    /\ Verified
    /\ Block \in BadHashes
    /\ Abort(i)

\* IsKnownBlockErr: stats.ignored++; continue.
SkipKnown ==
    /\ Verified
    /\ Block \notin BadHashes
    /\ Processor(Block) = "known"
    /\ NextBlock
    /\ UNCHANGED <<futureBlocks, loopRest>>

\* BlockFutureErr within maxTimeFutureBlocks: futureBlocks.Add; continue.
QueueFuture ==
    /\ Verified
    /\ Block \notin BadHashes
    /\ Processor(Block) = "future"
    /\ Time[Block] <= now + MaxTimeFutureBlocks
    /\ futureBlocks' = FutureAdd(futureBlocks, Block)
    /\ NextBlock
    /\ UNCHANGED loopRest

\* BlockFutureErr beyond maxTimeFutureBlocks: the batch is discarded.
RejectFuture ==
    /\ Verified
    /\ Block \notin BadHashes
    /\ Processor(Block) = "future"
    /\ Time[Block] > now + MaxTimeFutureBlocks
    /\ Abort(i)

\* IsParentErr with the parent in futureBlocks: queue this block too.
QueueOrphan ==
    /\ Verified
    /\ Block \notin BadHashes
    /\ Processor(Block) = "parent"
    /\ Parent[Block] \in Range(futureBlocks)
    /\ futureBlocks' = FutureAdd(futureBlocks, Block)
    /\ NextBlock
    /\ UNCHANGED loopRest

\* Any other processing error (blockErr, go ReportBlock): return i, err.
RejectBlock ==
    /\ Verified
    /\ Block \notin BadHashes
    /\ \/ Processor(Block) = "invalid"
       \/ Processor(Block) = "parent" /\ Parent[Block] \notin Range(futureBlocks)
    /\ Abort(i)

-----------------------------------------------------------------------------
(* WriteBlock(block) for a processed block, with merge and insert. *)

writeRest == <<blockDb, numIdx, lastBlock, checkpointKey, currentBlock, td, checkpoint,
               futureBlocks, owner, chain, i, queue, fed, wk, done, checked, ret,
               pending, upd, updBatch, updCopy, announced, now, nsub, node, crashes, nadmin, stopper>>

Processed == Verified /\ Block \notin BadHashes /\ Processor(Block) = "ok"

\* block.Td <= Td(): the block is only written (SideStatTy).
WriteSide ==
    /\ Processed
    /\ TD(Block) <= td
    /\ pc' = "write"
    /\ status' = "side"
    /\ cblock' = currentBlock
    /\ UNCHANGED <<adopt, merged, writeRest>>

\* A heavier block extending the head.
WriteExtend ==
    /\ Processed
    /\ TD(Block) > td
    /\ Parent[Block] = currentBlock
    /\ pc' = "commit"
    /\ cblock' = currentBlock
    /\ UNCHANGED <<adopt, status, merged, writeRest>>

\* Mutant of WriteFork: merge leaves out the lowest block of the new branch.
WriteForkShort ==
    /\ Processed
    /\ TD(Block) > td
    /\ Parent[Block] # currentBlock
    /\ LET d == Diff(Visible, currentBlock, Block) IN
       /\ d.ok
       /\ adopt' = SubSeq(d.chain, 1, Len(d.chain) - 1)
    /\ pc' = "merge"
    /\ status' = "split"
    /\ merged' = TRUE
    /\ cblock' = currentBlock
    /\ UNCHANGED writeRest

\* A heavier block on another branch: diff succeeds, merge follows and the
\* status is set to SplitStatTy.
WriteFork ==
    /\ Processed
    /\ TD(Block) > td
    /\ Parent[Block] # currentBlock
    /\ LET d == Diff(Visible, currentBlock, Block) IN
       /\ d.ok
       /\ adopt' = d.chain
    /\ pc' = "merge"
    /\ status' = "split"
    /\ merged' = TRUE
    /\ cblock' = currentBlock
    /\ UNCHANGED writeRest

\* diff fails ("chain reorg failed"): WriteBlock and InsertChain return an error.
ReorgFail ==
    /\ Processed
    /\ TD(Block) > td
    /\ Parent[Block] # currentBlock
    /\ ~Diff(Visible, currentBlock, Block).ok
    /\ Abort(i)

\* merge: one insert of the next newChain block, under mu.
MergeInsert ==
    /\ node = "up"
    /\ pc = "merge"
    /\ adopt # <<>>
    /\ Insert(Head(adopt))
    /\ adopt' = Tail(adopt)
    /\ UNCHANGED <<blockDb, td, futureBlocks, owner, chain, i, pc, status, queue, fed, wk,
                   done, checked, merged, cblock, ret, pending, upd, updBatch, updCopy, announced, now,
                   nsub, node, crashes, nadmin, stopper>>

\* Mutant of Commit: td grows by the block's difficulty from the old head's
\* td instead of being the block's own total difficulty.
CommitAddDifficulty ==
    /\ node = "up"
    /\ pc \in {"merge", "commit"}
    /\ adopt = <<>>
    /\ td' = td + Difficulty[Block]
    /\ Insert(Block)
    /\ status' = "chain"
    /\ pc' = "write"
    /\ UNCHANGED <<blockDb, futureBlocks, owner, chain, i, adopt, queue, fed, wk, done,
                   checked, merged, cblock, ret, pending, upd, updBatch, updCopy, announced, now, nsub,
                   node, crashes, nadmin, stopper>>

\* setTotalDifficulty(block.Td); insert(block); status = CanonStatTy.
Commit ==
    /\ node = "up"
    /\ pc \in {"merge", "commit"}
    /\ adopt = <<>>
    /\ td' = TD(Block)
    /\ Insert(Block)
    /\ status' = "chain"
    /\ pc' = "write"
    /\ UNCHANGED <<blockDb, futureBlocks, owner, chain, i, adopt, queue, fed, wk, done,
                   checked, merged, cblock, ret, pending, upd, updBatch, updCopy, announced, now, nsub,
                   node, crashes, nadmin, stopper>>

\* InsertChain's switch on WriteBlock's status: queue[i] is a ChainEvent,
\* a ChainSideEvent or a ChainSplitEvent of the block.
QueuedEvent(st, b) == [kind |-> st, block |-> b]

\* Mutant of Write: the failed db Put is only logged, the block is not stored.
WriteLost ==
    /\ node = "up"
    /\ pc = "write"
    /\ futureBlocks' = Remove(futureBlocks, Block)
    /\ queue' = Append(queue, QueuedEvent(status, Block))
    /\ merged' = FALSE
    /\ cblock' = Nil
    /\ NextBlock
    /\ UNCHANGED <<blockDb, numIdx, lastBlock, checkpointKey, currentBlock, td, checkpoint,
                   owner, chain, adopt, status, fed, wk, done, checked, ret, pending, upd,
                   updBatch, updCopy, announced, now, nsub, node, crashes, nadmin, stopper>>

\* self.write(block); futureBlocks.Remove(hash); back in InsertChain the
\* event for the status is queued.
Write ==
    /\ node = "up"
    /\ pc = "write"
    /\ blockDb' = blockDb \cup {Block}
    /\ futureBlocks' = Remove(futureBlocks, Block)
    /\ queue' = Append(queue, QueuedEvent(status, Block))
    /\ merged' = FALSE
    /\ cblock' = Nil
    /\ NextBlock
    /\ UNCHANGED <<numIdx, lastBlock, checkpointKey, currentBlock, td, checkpoint, owner,
                   chain, adopt, status, fed, wk, done, checked, ret, pending, upd,
                   updBatch, updCopy, announced, now, nsub, node, crashes, nadmin, stopper>>

\* Mutant of Finish: a call stopped by procInterrupt never gets to its
\* return, so it keeps chainmu and its wg count.
FinishNotInterrupted ==
    /\ node = "up"
    /\ pc = "loop"
    /\ i > Len(chain)
    /\ ~Interrupted
    /\ pending' = IF queue = <<>> THEN pending ELSE pending \cup {queue}
    /\ ret' = [idx |-> 0, err |-> FALSE]
    /\ Release
    /\ UNCHANGED <<persistent, currentBlock, td, checkpoint, futureBlocks, status,
                   updBatch, updCopy, announced, now, nsub, node, crashes, nadmin, stopper>>

\* The loop is over: "go self.eventMux.Post(queueEvent)"; return 0, nil.
\* A queueEvent with no entries has no effect on update() and is not kept.
Finish ==
    /\ node = "up"
    /\ pc = "loop"
    /\ i > Len(chain)
    /\ pending' = IF queue = <<>> THEN pending ELSE pending \cup {queue}
    /\ ret' = [idx |-> 0, err |-> FALSE]
    /\ Release
    /\ UNCHANGED <<persistent, currentBlock, td, checkpoint, futureBlocks, status,
                   updBatch, updCopy, announced, now, nsub, node, crashes, nadmin, stopper>>

-----------------------------------------------------------------------------
(* The update() goroutine. *)

updRest == <<persistent, currentBlock, td, checkpoint, insVars, ret, pending, announced, now,
             nsub, crashes, nadmin, stopper>>

\* A panic in update() ends the process; nothing runs after it.
Panic ==
    /\ node' = "panicked"
    /\ UNCHANGED <<futureBlocks, upd, updBatch, updCopy, updRest>>

\* Mutant of FutureTimer: the replay only starts with more than one block queued.
FutureTimerMany ==
    /\ node = "up"
    /\ upd = "loop"
    /\ Len(futureBlocks) > 1
    /\ upd' = "len"
    /\ updCopy' = [len |-> Len(futureBlocks), keys |-> <<>>]
    /\ UNCHANGED <<futureBlocks, updBatch, node, updRest>>

\* futureTimer fires: procFutureBlocks makes blocks of futureBlocks.Len()
\* entries.  It holds no lock: each call on the LRU is atomic on its own,
\* and InsertChain may add and remove entries between them.  The timer
\* fires whatever the queue holds; with TimerOnEmpty FALSE a model skips
\* the firings that find it empty.
FutureTimer ==
    /\ node = "up"
    /\ upd = "loop"
    /\ futureBlocks # <<>> \/ TimerOnEmpty
    /\ upd' = "len"
    /\ updCopy' = [len |-> Len(futureBlocks), keys |-> <<>>]
    /\ UNCHANGED <<futureBlocks, updBatch, node, updRest>>

\* futureBlocks.Keys(), oldest first.
FutureKeys ==
    /\ node = "up"
    /\ upd = "len"
    /\ upd' = "get"
    /\ updCopy' = [updCopy EXCEPT !.keys = futureBlocks]
    /\ updBatch' = <<>>
    /\ UNCHANGED <<futureBlocks, node, updRest>>

\* One iteration: futureBlocks.Get(hash), which makes the key the newest,
\* and blocks[i] = block.(*types.Block).  An index past the length made
\* from Len() is out of range, and a key removed since Keys() gives a nil
\* interface whose type assertion panics.
FutureGet ==
    /\ node = "up"
    /\ upd = "get"
    /\ updCopy.keys # <<>>
    /\ LET k == Head(updCopy.keys) IN
       IF Len(updBatch) < updCopy.len /\ k \in Range(futureBlocks)
       THEN /\ futureBlocks' = Append(Remove(futureBlocks, k), k)
            /\ updBatch' = Append(updBatch, k)
            /\ updCopy' = [updCopy EXCEPT !.keys = Tail(@)]
            /\ UNCHANGED <<upd, node, updRest>>
       ELSE Panic

\* After the loop: a nil entry, left by fewer keys than Len(), panics in the
\* sort; an empty blocks ends procFutureBlocks; otherwise the blocks are
\* sorted by number and InsertChain waits for chainmu.
FutureSort ==
    /\ node = "up"
    /\ upd = "get"
    /\ updCopy.keys = <<>>
    /\ IF Len(updBatch) < updCopy.len
       THEN Panic
       ELSE /\ upd' = IF updBatch = <<>> THEN "loop" ELSE "wait"
            /\ updBatch' \in SortedByNumber(Range(updBatch))
            /\ UNCHANGED <<futureBlocks, updCopy, node, updRest>>

ProcFutureBlocks ==
    /\ node = "up"
    /\ upd = "wait"
    /\ owner = "none"
    /\ Start("upd", updBatch)
    /\ upd' = "insert"
    /\ UNCHANGED <<persistent, currentBlock, td, checkpoint, futureBlocks, status, ret,
                   pending, updBatch, updCopy, announced, now, nsub, node, crashes, nadmin, stopper>>

\* A queueEvent reaches update(): for a ChainEvent whose hash is
\* lastBlockHash a ChainHeadEvent is posted.
DeliverEvent ==
    /\ node = "up"
    /\ upd = "loop"
    /\ \E q \in pending :
         /\ pending' = pending \ {q}
         /\ announced' =
              IF \E k \in DOMAIN q : q[k].kind = "chain" /\ q[k].block = currentBlock
              THEN currentBlock ELSE announced
    /\ UNCHANGED <<persistent, currentBlock, td, checkpoint, futureBlocks, insVars, ret,
                   upd, updBatch, updCopy, now, nsub, node, crashes, nadmin, stopper>>

-----------------------------------------------------------------------------
(* The clock, and a crash of the node with NewChainManager on restart. *)

Tick ==
    /\ now < MaxNow
    /\ now' = now + 1
    /\ UNCHANGED <<persistent, currentBlock, td, checkpoint, futureBlocks, insVars, ret,
                   pending, upd, updBatch, updCopy, announced, nsub, node, crashes, nadmin, stopper>>

\* The process dies: only the database survives.
Crash ==
    /\ node = "up"
    /\ crashes < MaxCrashes
    /\ node' = "down"
    /\ crashes' = crashes + 1
    /\ StopInsertion
    /\ upd' = "loop"
    /\ pending' = {}
    /\ futureBlocks' = <<>>
    /\ UNCHANGED <<persistent, currentBlock, td, checkpoint, status, ret, updBatch, updCopy,
                   announced, now, nsub, nadmin, stopper>>

\* setLastState on restart.  The new ChainManager starts with checkpoint 0;
\* subscribers start from its head.
Started(b) ==
    /\ node' = "up"
    /\ currentBlock' = b
    /\ td' = TD(b)
    /\ checkpoint' = 0
    /\ announced' = b

restartRest == <<blockDb, numIdx, checkpointKey, futureBlocks, insVars, ret, pending, upd,
                 updBatch, updCopy, now, nsub, crashes, nadmin, stopper>>

\* Mutant of RestartFromHead: "LastBlock" is trusted without the lookup.
RestartUnchecked ==
    /\ node = "down"
    /\ Started(lastBlock)
    /\ UNCHANGED <<lastBlock, restartRest>>

\* "LastBlock" names a stored block.
RestartFromHead ==
    /\ node = "down"
    /\ lastBlock \in blockDb
    /\ Started(lastBlock)
    /\ UNCHANGED <<lastBlock, restartRest>>

\* recover(): "LastBlock" is not stored; the "checkpoint" block is.
RestartFromCheckpoint ==
    /\ node = "down"
    /\ lastBlock \notin blockDb
    /\ checkpointKey \in blockDb
    /\ lastBlock' = checkpointKey
    /\ Started(checkpointKey)
    /\ UNCHANGED restartRest

\* "Recover failed": currentBlock stays nil and bc.currentBlock.Td panics.
RestartFails ==
    /\ node = "down"
    /\ lastBlock \notin blockDb
    /\ checkpointKey \notin blockDb
    /\ node' = "failed"
    /\ UNCHANGED <<persistent, currentBlock, td, checkpoint, futureBlocks, insVars, ret,
                   pending, upd, updBatch, updCopy, announced, now, nsub, crashes, nadmin, stopper>>

-----------------------------------------------------------------------------
(* The administrative operations take mu, not chainmu: nothing keeps them *)
(* from running while an InsertChain call is between two of its steps.    *)
(* With AdminDuringInsert = FALSE they run only between InsertChain calls. *)

\* merge holds mu across its whole loop of inserts.
MergeHoldsMu == pc = "merge" /\ adopt # <<>>

\* SetHead, Reset and ResetWithGenesisBlock wait for mu.
Admin ==
    /\ node = "up"
    /\ owner = "none" \/ AdminDuringInsert
    /\ ~MergeHoldsMu
    /\ nadmin < MaxAdmin
    /\ nadmin' = nadmin + 1

adminRest == <<futureBlocks, insVars, ret, pending, upd, updBatch, updCopy, announced, now, nsub,
               node, crashes, stopper>>

\* SetHead(head): remove the blocks from the head back to head, rebuild the
\* cache, set td to head.Td, insert(head); setLastState reads the head back.
SetHead(h) ==
    /\ Admin
    /\ h \in Visible
    /\ SetHeadAnyBlock \/ h \in Ancestry(currentBlock)
    /\ blockDb' = blockDb \ Walk(Visible, currentBlock, h)
    /\ td' = TD(h)
    /\ Insert(h)
    /\ UNCHANGED adminRest

\* Reset(): remove the blocks from the head back to nil, write and insert
\* the genesis block, setTotalDifficulty(0).
Reset ==
    /\ Admin
    /\ blockDb' = (blockDb \ Walk(Visible, currentBlock, Nil)) \cup {Genesis}
    /\ Insert(Genesis)
    /\ td' = 0
    /\ UNCHANGED adminRest

\* ResetWithGenesisBlock(gb) with the manager's own genesis block: as Reset,
\* but td is gb.Difficulty().
ResetWithGenesisBlock ==
    /\ Admin
    /\ blockDb' = (blockDb \ Walk(Visible, currentBlock, Nil)) \cup {Genesis}
    /\ Insert(Genesis)
    /\ td' = Difficulty[Genesis]
    /\ UNCHANGED adminRest

-----------------------------------------------------------------------------
(* Stop and the shutdown of update().                                      *)

\* Stop(): close(quit); atomic.StoreInt32(&procInterrupt, 1); then wg.Wait.
Stop ==
    /\ node = "up"
    /\ stopper = "none"
    /\ MaxStops > 0
    /\ stopper' = "stopping"
    /\ UNCHANGED <<persistent, currentBlock, td, checkpoint, futureBlocks, insVars, ret,
                   pending, upd, updBatch, updCopy, announced, now, nsub, node, crashes, nadmin>>

\* wg.Wait returns once no InsertChain (nor WriteBlock) holds a wg count:
\* none runs, and update() is not blocked in one on chainmu.
StopReturn ==
    /\ node = "up"
    /\ stopper = "stopping"
    /\ owner = "none"
    /\ upd # "wait"
    /\ stopper' = "stopped"
    /\ UNCHANGED <<persistent, currentBlock, td, checkpoint, futureBlocks, insVars, ret,
                   pending, upd, updBatch, updCopy, announced, now, nsub, node, crashes, nadmin>>

\* update(): "case <-self.quit: break out".
UpdQuit ==
    /\ node = "up"
    /\ upd = "loop"
    /\ stopper # "none"
    /\ upd' = "exited"
    /\ UNCHANGED <<persistent, currentBlock, td, checkpoint, futureBlocks, insVars, ret,
                   pending, updBatch, updCopy, announced, now, nsub, node, crashes, nadmin, stopper>>

-----------------------------------------------------------------------------
(* Export, called from outside (a backup tool), concurrent with the rest.  *)

\* Export(w): self.currentBlock.NumberU64(), read without mu, is the last
\* height ExportN will write.
ExportStart ==
    /\ node = "up"
    /\ MaxExports > 0
    /\ expLast = Nil /\ exported = Nil
    /\ expLast' = [last |-> Number(currentBlock), epoch |-> crashes]
    /\ UNCHANGED <<chainVars, exported, reported>>

\* ExportN(w, 0, last) under mu.RLock: GetBlockByNumber for each height in
\* turn (the "block-num-" entry, then the block under it); a height with no
\* block fails the export ("not found").  A crash kills the call.
ExportN ==
    /\ node = "up"
    /\ ~MergeHoldsMu
    /\ expLast # Nil /\ expLast.epoch = crashes
    /\ LET out == [k \in 1..expLast.last + 1 |-> numIdx[k - 1]]
       IN  exported' = [ok |-> \A k \in DOMAIN out : out[k] \in Visible, out |-> out]
    /\ expLast' = Nil
    /\ UNCHANGED <<chainVars, reported>>

\* Status(): td and currentBlock.Hash() under mu.RLock.
ReadStatus ==
    /\ node = "up"
    /\ StatusReads
    /\ reported = Nil
    /\ ~MergeHoldsMu
    /\ reported' = [td |-> td, head |-> currentBlock]
    /\ UNCHANGED <<chainVars, expLast, exported>>

ChainNext ==
    \/ \E b \in Batches : NetInsertChain(b)
    \/ \E w \in Workers : FeedNonce(w) \/ VerifyNonce(w)
    \/ RecvNonce
    \/ RejectBadHash \/ SkipKnown \/ QueueFuture \/ RejectFuture \/ QueueOrphan
    \/ RejectBlock
    \/ WriteSide \/ WriteExtend \/ WriteFork \/ ReorgFail
    \/ MergeInsert \/ Commit \/ Write \/ Finish
    \/ FutureTimer \/ FutureKeys \/ FutureGet \/ FutureSort \/ ProcFutureBlocks \/ DeliverEvent
    \/ Tick
    \/ Crash \/ RestartFromHead \/ RestartFromCheckpoint \/ RestartFails
    \/ \E h \in Blocks : SetHead(h)
    \/ Reset \/ ResetWithGenesisBlock
    \/ Stop \/ StopReturn \/ UpdQuit

Next ==
    \/ ChainNext /\ UNCHANGED expVars
    \/ ExportStart \/ ExportN \/ ReadStatus

\* Every goroutine of an InsertChain call, update() and the clock make
\* progress; the network and crashes are not required to.
Fairness ==
    /\ \A w \in Workers : WF_chainVars(FeedNonce(w)) /\ WF_chainVars(VerifyNonce(w))
    /\ WF_chainVars(RecvNonce)
    /\ WF_chainVars(RejectBadHash \/ SkipKnown \/ QueueFuture \/ RejectFuture \/ QueueOrphan
               \/ RejectBlock \/ WriteSide \/ WriteExtend \/ WriteFork \/ ReorgFail)
    /\ WF_chainVars(MergeInsert) /\ WF_chainVars(Commit) /\ WF_chainVars(Write) /\ WF_chainVars(Finish)
    /\ SF_chainVars(FutureTimer) /\ WF_chainVars(FutureKeys) /\ WF_chainVars(FutureGet)
    /\ WF_chainVars(FutureSort) /\ WF_chainVars(ProcFutureBlocks) /\ SF_chainVars(DeliverEvent)
    /\ WF_chainVars(Tick)
    /\ SF_chainVars(StopReturn) /\ SF_chainVars(UpdQuit)

Spec == Init /\ [][Next]_vars /\ Fairness

-----------------------------------------------------------------------------
(* Properties *)

\* Export "writes the active chain": when ExportN succeeds, what it wrote
\* starts at the genesis block and each block is the parent of the next.
ExportIsChain ==
    exported # Nil /\ exported.ok =>
        /\ exported.out[1] = Genesis
        /\ \A k \in 2..Len(exported.out) : Parent[exported.out[k]] = exported.out[k - 1]

\* Status returns the head with its own total difficulty, the pair a peer
\* is told and syncs towards: spec 5 lets readers run beside a head update
\* but not observe half of one.  WriteBlock's merge releases mu before the
\* block and its td are set under mu again.
StatusConsistent == reported # Nil => reported.td = TD(reported.head)

TypeOK ==
    /\ blockDb \subseteq Blocks
    /\ numIdx \in [Heights -> Blocks \cup {Nil}]
    /\ lastBlock \in Blocks
    /\ checkpointKey \in Blocks \cup {Nil}
    /\ currentBlock \in Blocks
    /\ td \in Nat
    /\ checkpoint \in 0..CheckpointLimit
    /\ futureBlocks \in Seq(Blocks) /\ Len(futureBlocks) <= MaxFutureBlocks
    /\ owner \in {"none", "net", "upd"}
    /\ pc \in {"idle", "loop", "merge", "commit", "write"}
    /\ status \in Status
    /\ queue \in Seq(Event)
    /\ wk \in [Workers -> 0..Len(chain)]
    /\ fed \in 0..Len(chain)
    /\ checked \subseteq 1..Len(chain)
    /\ pending \subseteq Seq(Event)
    /\ upd \in {"loop", "len", "get", "wait", "insert", "exited"}
    /\ updCopy \in {Nil} \cup [len : 0..MaxFutureBlocks, keys : Seq(Blocks)]
    /\ announced \in Blocks
    /\ node \in {"up", "down", "failed", "panicked"}
    /\ nadmin \in 0..MaxAdmin
    /\ cblock \in Blocks \cup {Nil}
    /\ stopper \in {"none", "stopping", "stopped"}
    /\ expLast \in {Nil} \cup [last : Heights, epoch : 0..MaxCrashes]
    /\ exported \in {Nil} \cup [ok : BOOLEAN, out : Seq(Blocks \cup {Nil})]
    /\ reported \in {Nil} \cup [td : Nat, head : Blocks]

\* No WriteBlock is between its head update and its end.
Settled == node = "up" /\ pc \in {"idle", "loop"}

\* Fork choice (WriteBlock, merge, insert): whenever no block is being
\* written, the head's total difficulty is td and no stored block is heavier
\* than the head.
HeadIsHeaviest ==
    Settled => /\ td = TD(currentBlock)
               /\ \A b \in blockDb : TD(b) <= td

\* insert's WriteHead and merge keep the height index on the canonical
\* chain: for every height up to the head's, "block-num-" names the head's
\* ancestor at that height.
CanonicalIndex ==
    Settled => \A n \in 0..Number(currentBlock) : numIdx[n] = AncestorAt(currentBlock, n)

\* Every ancestor of the head, the head included, is in the block store, so
\* GetBlock can walk the canonical chain back to genesis.
HeadChainStored == Settled => Ancestry(currentBlock) \subseteq Visible

\* diff, run on any two stored blocks of any reachable store, succeeds and
\* returns exactly the blocks of the new branch above the common ancestor,
\* each once.
DiffFindsBranch ==
    \A o, n \in Visible :
        LET d == Diff(Visible, o, n)
        IN  /\ d.ok
            /\ Range(d.chain) = Branch(o, n)
            /\ Len(d.chain) = Cardinality(Branch(o, n))

\* GetBlockHashesFromHash, on any stored block of any reachable store and
\* for any max, returns the block's nearest ancestors in order, max of them
\* or down to genesis; SetHead and Reset delete blocks under side branches,
\* and the walk then stops early, never skipping a missing ancestor.
HashesAreAncestors ==
    \A b \in Visible, m \in Heights :
        LET hs   == GetBlockHashesFromHash(Visible, b, m)
            n    == IF m < Number(b) THEN m ELSE Number(b)
            want == [k \in 1..n |-> AncestorAt(b, Number(b) - k)]
        IN  /\ IsPrefix(hs, want)
            /\ Range(want) \subseteq Visible => hs = want

\* Every InsertChain call returns, unless a panic has ended the process: the
\* main loop never waits forever on nonceDone for a result the verifier
\* pool does not send.
InsertChainReturns == (owner # "none") ~> (owner = "none" \/ node = "panicked")

\* Spec 4.2 and 8 (batch abort semantics): an InsertChain call that fails
\* returns the index of the block the loop stopped at, so every block before
\* that index has been handled.
AbortAtLoopIndex ==
    [][(pc # "idle" /\ pc' = "idle" /\ node' = "up" /\ ret'.err) => ret'.idx = i]_vars

\* Spec 4.3: a heavier block whose parent is not the head is classified as
\* Split when WriteBlock returns.
SplitClassified == (pc = "write" /\ merged) => status = "split"

\* Spec 4.1: Reset reinitialises the total difficulty to the genesis
\* difficulty, so td is always the head's total difficulty once no block is
\* being written.
HeadTdIsBlockTd == Settled => td = TD(currentBlock)

\* Spec 4.6: the "checkpoint" key, the fallback restart point of recover,
\* names a stored block whenever no block is being written; SetHead and
\* Reset delete blocks without looking at it.
CheckpointStored == Settled /\ checkpointKey # Nil => checkpointKey \in blockDb

\* Spec 3: the persisted head pointer always names a block present in the
\* block store (a crash may come at any state).
PersistedHeadPresent == lastBlock \in blockDb

\* Every head the chain manager settles on is announced by a ChainHeadEvent
\* from update(), unless the head moves on first.
HeadAnnounced ==
    \A b \in Blocks : (Settled /\ owner = "none" /\ currentBlock = b)
                          ~> (announced = b \/ currentBlock # b)

\* Spec 4.5 and 8 (future block deferral): a valid block waiting in
\* futureBlocks whose parent is stored is eventually inserted by the
\* periodic replay of procFutureBlocks (or evicted from the LRU), unless a
\* panic has ended the process.
FutureBlocksReplayed ==
    \A b \in Blocks \ ({Genesis} \cup Invalid \cup BadSeal \cup BadHashes) :
        (b \in Range(futureBlocks) /\ Parent[b] \in Visible)
            ~> (b \in blockDb \/ b \notin Range(futureBlocks) \/ node = "panicked")

\* Stop's procInterrupt and wg.Wait: once Stop has returned, InsertChain
\* (called by the network or by update()'s future-block replay) never
\* changes the block store, the height index or the head keys again.
NoWriteAfterStop ==
    [][stopper = "stopped" /\ nadmin' = nadmin => UNCHANGED persistent]_vars

\* Stop returns, unless a panic has ended the process: the wg.Wait it blocks in is not held up forever by an
\* InsertChain call or by update() waiting for chainmu.
StopReturns == (stopper = "stopping") ~> (stopper = "stopped" \/ node = "panicked")

\* Spec 7: no panic propagates out of the chain manager; only storage
\* corruption may end the process.  procFutureBlocks reads futureBlocks by
\* Len, Keys and Get without chainmu, while InsertChain adds and removes.
ReplayNeverPanics == node # "panicked"

\* Spec 5 (cancellation): shutdown waits for the background replay/event
\* loop to finish before declaring the manager stopped.
StopEndsUpdate == (stopper = "stopped") => upd = "exited"

-----------------------------------------------------------------------------
(* Refinement of AbstractChain.  While WriteBlock merges, the abstract     *)
(* head is still cblock, the head WriteBlock compared the block with: the  *)
(* blocks merge inserts one by one become the abstract head together with  *)
(* the block, at the insert of the block.  A block whose insert is done    *)
(* and whose write is pending is already stored, abstractly.               *)

AbsHead == IF pc \in {"merge", "commit"} THEN cblock ELSE currentBlock

AbsStored == Visible \cup (IF pc = "write" /\ status = "chain" THEN {Block} ELSE {})

Abs == INSTANCE AbstractChain WITH head <- AbsHead, stored <- AbsStored

\* Without crashes, every step of the chain manager (InsertChain with its
\* verifiers, WriteBlock, merge, the future-block replay, SetHead to an
\* ancestor, Reset) is a step of AbstractChain or leaves its state alone:
\* a new head is always heavier than the old one, and blocks are stored
\* only on top of stored blocks.
RefinesAbstractChain == Abs!Spec
=============================================================================
