# TLA+ models of HCTxPool

This directory holds TLA+ models of the code under `src/`, the TLC configurations
that check them, and `PROJECT.json`, which maps every definition to the source lines
it translates and lists the runs, mutants, findings and hazards.

## The system

The core of the repository is `src/chain_manager/manager.go`, the `ChainManager` of a
block-chain node (spec.md describes it). It has these parts:

| Part | State | Operations |
|---|---|---|
| Persistent store (`blockDb`) | `block-hash-` entries, the `block-num-` height index, the `LastBlock` and `checkpoint` keys | `write`, `insert` (`WriteHead`), `removeBlock` |
| Head state (under `mu`) | `currentBlock`, `lastBlockHash`, `td`, `checkpoint` | `insert`, `setTotalDifficulty`, `setLastState`, `recover` |
| Insertion pipeline (under `chainmu`) | the batch, `nonceChecked`, the event queue | `InsertChain`, `verifyNonces` (feeder goroutine and workers), `WriteBlock`, `merge`, `diff` |
| Future-block queue | `futureBlocks`, an LRU of 256 entries | filled by `InsertChain`, drained by `procFutureBlocks` |
| Block cache | `cache`, an LRU of 256 entries | `GetBlock`, `HasBlock`, `makeCache` |
| `update()` goroutine | the event subscription and a 5 s ticker | posts `ChainHeadEvent`s, calls `procFutureBlocks` |
| Administration | | `NewChainManager`, `SetHead`, `Reset`, `ResetWithGenesisBlock`, `Stop` |

The parts interact as follows:
- `InsertChain` runs under `chainmu`. It starts `verifyNonces`, whose workers send their results in completion order.
- For each block, it waits until that block's nonce result is in, then calls the processor (`BlockProcessor.Process`, outside `src/`) and `WriteBlock`.
- `WriteBlock` compares the block's total difficulty with `td`. For a heavier block on another branch it calls `merge`. `merge` uses `diff` to collect the new branch and `insert`s each of its blocks.
- `WriteBlock` then `insert`s the block and `write`s it.
- At the end of a successful batch, the queued events are posted. `update()` turns the event of the head into a `ChainHeadEvent`.
- Blocks slightly in the future, and orphans of such blocks, go to `futureBlocks`. `update()` re-submits them through `InsertChain` every tick.

The other code under `src/` is smaller:
- the trie key encodings (`src/trie/encoding.go`), which are pure functions;
- the log filter (`src/filter/core_filter.go`);
- the `FilterManager` (`src/model/event/filter/kb_filter.go`);
- `Execution` (`src/execution/execution.go`), one call or contract creation and the nested ones the virtual machine makes;
- genesis creation, type declarations, and tests whose subjects (the transaction pool, managed state) are not in the repository.

## Modules

- **`Reorg.tla`**: the block tree and the fork-choice helpers.
  - Blocks are model values. Their parent, difficulty and timestamp are constant functions.
  - Height (`NumberOf`) and total difficulty (`TDOf`, i.e. `CalcTD`) are recursive functions.
  - `GetBlock` is a lookup in a given store.
  - `ChainManager.diff` is three recursive operators, `ReduceOld`, `ReduceNew` and `LockStep`, that follow the code's three loops. `Diff` combines them.
  - `GetBlockHashesFromHash` is the recursive `HashesFrom`, one call per iteration of the code's loop: step to the parent through `GetBlock`, stop at nil, stop after height 0.
  - `Branch`, the set of blocks of the new branch above the common ancestor, is the reference `diff` is checked against.
- **`ChainManager.tla`**: the chain manager as one state machine.
  - The variables are:
    - the store (`blockDb`, `numIdx`, `lastBlock`, `checkpointKey`);
    - the fields `currentBlock`, `td`, `checkpoint` and `futureBlocks`;
    - one `InsertChain` call in progress (`owner`, `chain`, `i`, `pc`, `adopt`, `status`, `queue`, and the verifier's `fed`, `wk`, `done`, `checked`);
    - the posted event batches (`pending`) and the head last announced by `update()` (`announced`);
    - the clock `now` and the node's `up`/`down`/`failed`/`panicked` state;
    - `procFutureBlocks`' progress: the length it read (`updCopy.len`), the keys still to get (`updCopy.keys`) and the blocks collected (`updBatch`).
  - Each branch of `InsertChain` is an action:
    - the nonce wait (`RecvNonce`);
    - `RejectBadHash`, `SkipKnown`, `QueueFuture`, `RejectFuture`, `QueueOrphan`, `RejectBlock`;
    - WriteBlock's three cases `WriteSide`, `WriteExtend` and `WriteFork`, plus `ReorgFail`;
    - `merge`'s loop, one `insert` per step (`MergeInsert`);
    - WriteBlock's head update (`Commit`), `write` (`Write`), and the end of the batch (`Finish`).
  - The verifier is `FeedNonce` and `VerifyNonce`. `update()` is `procFutureBlocks` and `DeliverEvent`.
  - `procFutureBlocks` holds no lock, and each `golang-lru` call locks on its own, so it is one action per call: `FutureTimer` (`Len()`), `FutureKeys` (`Keys()`, oldest first), `FutureGet` (one `Get`, which also makes the key the newest), `FutureSort` (the `if len(blocks) > 0` and the sort) and `ProcFutureBlocks` (`InsertChain`, waiting for `chainmu`). A network `InsertChain` may add or remove future blocks between any two of them. An index past the length from `Len()`, or a `Get` of a removed key (a nil interface, whose type assertion panics), is `Panic`: the node is `panicked` and nothing runs after it.
  - `Crash` keeps only the store. `RestartFromHead`, `RestartFromCheckpoint` and `RestartFails` are `setLastState` and `recover`.
  - `SetHead`, `Reset` and `ResetWithGenesisBlock` are the administrative calls. They take `mu` but not `chainmu`, so they wait while `merge` holds `mu` (`MergeHoldsMu`). With `AdminDuringInsert = TRUE` they may run between any two steps of an `InsertChain` call, as the code allows (the `sethead_race` run). The other runs set it to `FALSE` and run them only between calls, so that their properties are about the insertion itself.
  - `Stop` sets `procInterrupt` (`Stop`, variable `stopper`) and waits on `wg` (`StopReturn`, enabled once no `InsertChain` holds the group). `InsertChain` reads `procInterrupt` before each block (`Interrupted`) and leaves its loop. `update()` leaves on `quit` (`UpdQuit`).
  - `ExportStart` is `Export`'s unlocked read of the head number; `ExportN` is `ExportN` under `mu.RLock`, reading the height index and the store for each height (`exported`). It cannot run while `merge` holds `mu` over its loop (`MergeHoldsMu`). A crash kills the call. `ReadStatus` is `Status`, reading `td` and the head together under `mu.RLock` (`reported`); like `ExportN` it cannot run inside `merge`'s loop, but it can run between `merge`'s unlock and `WriteBlock`'s next `mu.Lock`. The export and status steps leave everything else unchanged (`ChainNext` is the rest of `Next`).
  - `cblock` is the head `WriteBlock` read before `merge` (its local `cblock`).
  - Locks are modelled by atomicity. `insert` runs under `mu`, so it is one step. `chainmu` is `owner`: only one `InsertChain` runs at a time, either the network's or `update()`'s.
- **`AbstractChain.tla`**: what the manager promises (spec 4, 5): a head and a set of stored blocks. `Store` adds a block on a stored parent, `Adopt` makes a heavier block whose chain is stored the head, and `Rollback` moves the head back to an ancestor and forgets the chain above it.
  - `ChainManager` refines it (`RefinesAbstractChain`). The mapping is `AbsHead`, which is `cblock` while `merge` and the head update run (`merge` moves `currentBlock` through the new branch block by block, none of which is an abstract step), and `currentBlock` otherwise. `AbsStored` is the visible store (`Visible`) plus the block `WriteBlock` is about to `write` once its status is decided: the head points at it one step before the store has it.
  - The abstract head is compared by `TD` of the block, not by `td`, because `Reset` sets `td` to 0 (see `HeadTdIsBlockTd`).
- **`BlockCache.tla`**: the block cache and the goroutines that use it without a lock.
  - `cache` is the LRU as a sequence of keys, least recent first (`LruAdd` is `lru.Cache.Add` of the external `golang-lru`). `makeCache` pins genesis and adds the head and its ancestors through `GetBlocksFromHash`.
  - `GetBlock` is `GetHit`, or `GetMiss` (the store read) followed by `GetAdd` (`cache.Add`). Between the two, `SetHead` or `Reset` may delete the block and replace the cache (`gen` counts replacements). The field `bc.cache` is read without `mu`, so the add lands in the new cache or in the discarded one.
  - `InsertBlock` is one `InsertChain` block: the processor's `HasBlock` checks, then `WriteBlock`.
- **`MCChainManager.tla`**: two block trees for TLC.
  - The main tree has a canonical branch A and a heavier competing branch B that share only genesis, as in spec section 8.
  - `X1` is on the deny-list and `Y1` has a bad seal.
  - `B2` and `A2` carry future timestamps.
  - A third tree has a heavier branch `H1` that is shorter than A, for `Export`.
  - The admin tree adds a branch C that leaves A above genesis, so that deleting A's blocks strands a stored side block.
- **`TrieEncoding.tla`**: the key encodings of `src/trie/encoding.go` as operators over sequences of naturals (Go bytes).
  - `hexToCompact`, `compactToHex`, `keybytesToHex`, `hexToKeybytes`, `decodeNibbles`, `hasTerm` and `prefixLen` follow the code line by line. Shifts are multiplications and divisions by 16, kept modulo 256, and `|` and `&` come from `Bitwise`.
  - The odd-length panic of `hexToKeybytes` is the value `Panic`.
  - The references are `HP`, the hex-prefix encoding of the Yellow Paper (appendix C), `NibblesOf`, and `CommonPrefix`.
  - The inputs are variables built one element at a time (`AddNibble`, `AddTerm`, `AddByte`, `AddPrefixElem`), so a run checks every input up to its bound.
- **`MCTrieEncoding.tla`**: gives `KeyBytes` all 256 byte values.
- **`LogFilter.tla`**: `Filter` of `src/filter/core_filter.go`.
  - `includes`, `FilterLogs` (with its per-log test `Passes`), `bloomFilter` and `Find` (its backward walk is the recursive `FindLoop`) are operators.
  - A block's bloom is the set of its logs' addresses and topics. A real bloom may also answer yes for other items, which costs time but cannot hide a log.
  - `Wanted` is the filter as its fields and comments describe it: the log's address is one of the filter's addresses, and each topic position matches. `FindRef` applies `Wanted` to the requested blocks.
  - The variables are the filter (`SetAddress`, `SetTopics`) and the logs of the head block, built one element at a time.
- **`MCLogFilter.tla`**: two addresses, two topics, the wildcard `common.Hash{}`, and `-1` for "the current block".
- **`FilterManager.tla`**: `FilterManager` of `src/model/event/filter/kb_filter.go`.
  - The variables are the installed ids (`filters`), `filterId`, the read lock held by `filterLoop` (`readers`), the loop's position (`loop`), and the ids still to be called back for the current event (`toCall`).
  - `Post` is the event mux. It delivers only once `filterLoop` has subscribed (`Subscribe`), and a poster to the busy loop waits (`posted`).
  - `InstallFilter` and `UninstallFilter` hold the write lock. Each is one step that needs `readers = 0`.
  - `filterLoop` is `Receive` (take an event, `RLock`), `Callback` (one filter a step) and `Unlock`.
  - `Stop` closes the never-made `quit` channel and panics; after that nothing runs.

- **`Execution.tla`**: `src/execution/execution.go`, entered through `Env.Call` and `Env.Create` of `src/test/util.go`.
  - `st` is the state database (accounts, balances, nonces); a snapshot is a copy of it. `frames` are the executions whose code is running, innermost last.
  - `Exec` is `exec` up to `evm.Run`: the depth check (`DepthError`), `vsnapshot`, a creation's nonce bump and address (`CreateAddress` is the pair creator, nonce), `snapshot`, opening the callee account, and the transfer, whose failure restores `vsnapshot`.
  - The virtual machine is outside `src/`: a running frame makes nested `Exec`s, then `RunOk`, or `RunFail`, which restores `snapshot`. `ret` is the last exec to return, with its result and the state at its call (`entry`, kept for the properties).
  - A call names an existing account or the address the next creation of an account will get (`Callees`); `GetOrNewStateObject` opens a missing one, so a later creation can meet an account that already exists, as in the code.
- **`MCExecution.tla`**: users `u1` with one unit and `u2` with none.

### Abstractions

- **Block cache.** `makeCache` always pins the genesis block. Every other cache entry was in the store when it was added. Only `SetHead` and `Reset` delete store entries, and both rebuild the cache immediately after. So what `GetBlock` and `HasBlock` see is the store plus genesis (`Visible`). Eviction needs 256 entries and is not modelled.
- **Processor.** The processor (outside `src/`) is modelled from spec 4.2 by its outcome for a block: known, missing parent, future, invalid, or ok.
- **Events.** Event batches posted by `go Post` are a set, so `update()` may receive them in any order. `update()` handles one whole batch at a time. Batches without entries have no effect and are not kept.
- **Deleted blocks.** A deleted block is absent from `blockDb`. Its height-index entry may remain, as in the code.

## Runs

| Run | Cfg | Expect | What it shows |
|---|---|---|---|
| insert | MCChainManager.cfg | pass | Batches `<<A1,A2>>`, `<<B1,B2,B3>>`, `<<B2,B3>>`, `<<X1,Y1>>`, at most two network calls, with future replays interleaved call by call with the network's calls, every interleaving of two nonce workers, and the clock moving twice. Throughout, the head is the heaviest stored block with `td` its total difficulty (`HeadIsHeaviest`), the height index follows the head's chain (`CanonicalIndex`), and the head's chain is stored (`HeadChainStored`). `diff` on any two stored blocks returns exactly the new branch (`DiffFindsBranch`). A valid future block with a stored parent is eventually inserted, unless the replay has panicked (`FutureBlocksReplayed`). `Invalid = {}` here: an invalid replayed block is the further check `MCFutureReplay.cfg`. |
| crash | MCCrash.cfg | pass | One crash at any step, and one `Export` and one `Status` at any time. Restart lands on a block whose chain is stored, or fails as spec 4.1 requires. |
| admin | MCAdmin.cfg | pass | Every `InsertChain` call returns (`InsertChainReturns`). `Stop` at any point: nothing is written after it returns (`NoWriteAfterStop`) and it always returns (`StopReturns`); the manager refines `AbstractChain`. `SetHead` to an ancestor, `Reset` and `ResetWithGenesisBlock` between insertions keep the head's chain stored and indexed. A later fork whose branch lost a block fails with `chain reorg failed` (`ReorgFail`). On every reachable store, `GetBlockHashesFromHash` returns a block's nearest ancestors, as many as asked or down to genesis, and stops early exactly where a deleted ancestor is missing (`HashesAreAncestors`). |
| crash_index | MCCrashIndex.cfg | violation | A crash inside `merge` leaves a mixed height index under the recovered head. |
| export_race | MCExportRace.cfg | violation | `Export` reads the head number (2, head A2) without `mu`; `H1`, heavier but one block high, becomes the head; `ExportN` writes `G, H1, A2` without error, since the height index above the new head still names the stored A2 (`ExportIsChain`). |
| replay_panic | MCReplayPanic.cfg | violation | With the timer firing on an empty queue (`TimerOnEmpty = TRUE`): `procFutureBlocks` reads `Len() = 0`, the network's `<<B1, B2, B3>>` queues B2, `Keys()` returns `<<B2>>`, and `blocks[0]` is out of range; the node panics (`ReplayNeverPanics`, spec 7). The insert run also reaches the other panic, a key removed by `WriteBlock` before its `Get`. |
| sethead_race | MCSetHeadRace.cfg | violation | `SetHead` takes `mu` but not `chainmu`. It runs between `WriteBlock`'s unlocked read of the head (A1) and its insert of A2, deleting A1; A2 becomes the head on a parent that is gone (`HeadChainStored`). |
| trie | MCTrieEncoding.cfg | pass | For every HEX key of up to 4 nibbles, with or without terminator, `hexToCompact` is the Yellow Paper's hex-prefix encoding (`CompactIsHexPrefix`) and `compactToHex` undoes it (`CompactRoundTrip`). For every key of up to 2 bytes, `keybytesToHex` gives its nibbles and the terminator, and `hexToKeybytes` gives the key back (`KeybytesRoundTrip`). `prefixLen` is the longest common prefix for every pair of keys of up to 3 elements (`PrefixLenIsCommonPrefix`). |
| filter | MCLogFilter.cfg | pass | `FilterLogs` delivers only wanted logs (`FilterLogsSound`). `bloomFilter` never rules out a block holding a wanted log (`BloomNoFalseNegative`). |
| block_cache | MCBlockCache.cfg | violation | `GetBlock` reads `A1`, `SetHead(G)` deletes it and rebuilds the cache, `GetBlock` adds `A1` to the new cache; `HasBlock(A1)` is now true, and `A2` is stored on a parent that is gone (`StoreIsTree`). |
| execution | MCExecution.cfg | pass | A failed call or creation leaves the state of its call, nested successes undone and only a failed creation's nonce bump kept (`FailureReverts`), also when a call opened the address a later creation gets. |
| filter_manager | MCFilterManager.cfg | pass | No step of `filterLoop` calls back a filter after `UninstallFilter` deleted it, even for an event taken before (`NoCallbackAfterUninstall`), and every event delivered to `filterLoop` is handled (`EventsHandled`). |

Each finding is explained in `PROJECT.json` under `findings`.

### Further checks

These configurations also check one property each, and TLC finds each one violated. They are not in the run list of `PROJECT.json`; run them with `tlc -config <cfg> MCChainManager` (or `FilterManager`).

| Property | Cfg | What the counterexample shows |
|---|---|---|
| FutureBlocksReplayed | MCFutureReplay.cfg | A future block that is invalid when replayed blocks every later replay. |
| HeadChainStored | MCSetHeadSide.cfg | `SetHead` to a side block deletes the new head's ancestors (spec 4.1). |
| PersistedHeadPresent | MCPersistedHead.cfg | `LastBlock` names a block before the block is stored (spec 3). |
| AbortAtLoopIndex | MCAbortIndex.cfg | A bad seal of block 2 is reported while block 1 is unhandled (spec 4.2, 8). |
| SplitClassified | MCSplitStatus.cfg | A reorganising block is reported as canonical, not split (spec 4.3). |
| HeadAnnounced | MCHeadEvent.cfg | The head reached by a batch that aborts later is never announced. |
| HeadTdIsBlockTd | MCResetTd.cfg | `Reset` leaves `td` at 0, not the genesis difficulty (spec 4.1). |
| FindReturnsWanted | MCFilterFind.cfg (`LogFilter`) | `Find` returns no logs for a block holding a log every filter wants: the loop never appends and stops at the first bloom match. |
| StopEndsUpdate | MCStopUpdate.cfg | `Stop` returns while `update()` still runs: `wg` counts only `InsertChain` and `WriteBlock` (spec 5). |
| StopEndsFilterLoop | MCFilterStop.cfg | `Stop` panics on the nil `quit` channel, so `filterLoop` never ends. |
| CheckpointStored | MCCheckpointStale.cfg | The insert of A2 (the third, counting genesis) flushes the checkpoint key to A2; `SetHead(G)` (or `Reset`) deletes A2 and leaves the key, so `recover` has no usable fallback (spec 4.6). |
| StatusConsistent | MCStatusRace.cfg | Head B1 (td 2); the batch `<<A1, A2>>` forks at genesis. `merge` inserts A1 and releases `mu`; `Status` returns head A1 with td 2, though A1's total difficulty is 3. |
| FilterLogsComplete | MCFilterIncludes.cfg (`MCLogFilter`) | A filter with addresses `<<a1, a2>>` drops a log from `a1`: `includes` requires every address to match. |

In detail:
- **`FutureBlocksReplayed`.** `procFutureBlocks` replays the whole queue as one batch; the invalid block aborts it and is never removed.
- **`HeadChainStored` with `SetHeadAnyBlock`.** `SetHead`'s walk from the head never meets a target that is not an ancestor, so it deletes the whole old chain.
- **`PersistedHeadPresent`.** `WriteBlock` calls `insert` (which writes `LastBlock`) before `write`.
- **`AbortAtLoopIndex`.** The nonce wait loop returns the index of whichever result is invalid, possibly a later block than the one being handled.
- **`SplitClassified`.** `WriteBlock` overwrites `SplitStatTy` with `CanonStatTy`, so `ChainSplitEvent` is never queued.
- **`HeadAnnounced`.** Events are posted only when the whole batch succeeds.
- **`HeadTdIsBlockTd`.** `Reset` sets `td` to 0.
- **`FindReturnsWanted`.** The loop of `Find` has no `append`.
- **`StopEndsUpdate`.** `update()` never calls `wg.Add`.
- **`StopEndsFilterLoop`.** `quit` is never made, so `Stop` panics.
- **`CheckpointStored`.** `SetHead` and `Reset` walk `removeBlock` over the old chain but never touch the `checkpoint` key.
- **`StatusConsistent`.** `WriteBlock` sets td only in the critical section after `merge`'s (spec 5).
- **`FilterLogsComplete`.** `includes` returns false at the first address that differs from the log's.

Every property of a passing run has a mutant in the module that defines it. A mutant is a plausible bug in the definition it replaces, and TLC finds the property violated with it. Examples:
- a checkpoint counter that is never reset;
- `td` computed from the old head;
- `merge` dropping the lowest block of the branch;
- a failed store write that is only logged;
- `diff` stopping one step early;
- a feeder that stops one index early;
- a replay timer that ignores a single queued block;
- restart trusting `LastBlock`;
- `SetHead`'s walk not stopping at its target (breaks the refinement);
- the head update adding the block's difficulty twice (breaks the refinement);
- `InsertChain` not reading `procInterrupt` at its start, and `Finish` returning only when not interrupted;
- a compact flag byte without the first nibble, swapped or whole-byte nibbles, `<=` for `<` in `compactToHex`;
- `prefixLen` not breaking at a difference;
- `FilterLogs` not rejecting on topics, and `bloomFilter` requiring every address;
- `exec` taking `vsnapshot` after the nonce bump, and the depth check allowing one frame too many;
- `UninstallFilter` not taking the lock, `InstallFilter` incrementing `filterId` before taking the id, and `break out` in place of `break` in `filterLoop`.

## Bounds and why they suffice

- **Blocks.** The trees have 8 blocks (main) and 5 (admin).
  - They contain every case of `WriteBlock`: side block, extension, and a reorganisation that goes back to genesis.
  - They contain every exit of the `InsertChain` loop.
  - Every block's height is at most 3.
- **Network calls.** Two calls (three in the admin run) are enough for a batch to meet state that an earlier batch or replay left behind.
- **Workers.** Two workers are enough to deliver results out of order. The crash run has one: out-of-order results do not matter to recovery, and two put the run past its time budget.
- **`TimerOnEmpty`.** The code's timer fires whatever the queue holds. A firing on an empty queue only matters if a block is queued between `Len()` and `Keys()`; `replay_panic` sets `TimerOnEmpty = TRUE` and finds that panic. The passing runs set it to `FALSE`, so the timer fires only on a non-empty queue (the other interleavings of the replay, the other panic included, remain), because the no-op firings triple their time.
- **`CheckpointLimit = 2`** makes checkpoints happen within a batch.
- **`MaxFutureBlocks = 2`** makes the LRU evict.
- **Time.** `MaxTimeFutureBlocks = 1` and `MaxNow = 2` make a block first too far ahead, then queued, then processable.
- **Export.** One `Export`, in the crash run (so that its steps fire in a passing run) and in `export_race`. One is enough: exports do not interact with each other.
- **Status.** One `Status` call, in the crash run and in `MCStatusRace.cfg`; it may come at any step, so one call meets every window between two critical sections.
- **Stop.** One `Stop` (admin run only: in the insert run it would exceed the time budget) reaches every point of an insertion and of `update()`.
- **Block cache.** A chain of four blocks, one reader, `CacheLimit = 3` (so `makeCache` fills the cache and an add evicts), five insertions and one administrative call: the race needs one read, one `SetHead` and two insertions.
- **Execution.** `CallCreateDepth = 1` and four execs: a user's call or creation, a nested one, and a third that hits the depth limit; value 1 from a user with nothing fails the transfer. A call to the address of an account's next creation, followed by that creation, meets the address collision.
- **Crashes.** One crash is enough to hit every point between two store writes.
- **Trie.** Keys of 4 nibbles (plus terminator) cover both parities of both the key and the flag byte. Keys of 2 bytes over all 256 values cover every nibble in both positions. Keys of 3 elements over `{0, 1, 16}` cover equal, differing, terminated and unequal-length prefixes.
- **Filter.** Two addresses, two topic positions of two topics each (the wildcard included), and two logs of two topics. These are the smallest sizes at which "any of the addresses", "any topic at a position" and "fewer log topics than positions" each have a case that tells them apart.
- **FilterManager.** Three filter ids and two events let an uninstall and a callback of the same filter interleave. They also let an event arrive while another is being handled.
- **Deadlock.** Deadlock checking is off in these runs. The model stops once the network's calls are used up, the clock has run out, and no event is pending, and so does the real node when the network falls silent. The execution run stops when its execs are used up and every frame has returned, as a transaction does.

## Fairness

- **Weak fairness** applies to:
  - each verifier goroutine and each step of a running `InsertChain` call (goroutines the Go scheduler runs);
  - the steps of `procFutureBlocks` after the timer (`FutureKeys`, `FutureGet`, `FutureSort`, `ProcFutureBlocks`);
  - the clock.
- **Strong fairness** applies to `FutureTimer`, `DeliverEvent` and `UpdQuit`: `update()` selects at random among its ready channels, so a case that is ready infinitely often is eventually chosen. It applies also to `StopReturn`: `wg.Wait` is woken every time the counter drops to zero, which happens infinitely often while `Stop` waits.
- **Not fair:** the network's calls, crashes, administrative calls and `Stop` itself.
- Fairness is stated over `chainVars`, the variables of the node; a step of an `Export` or `Status` caller, which the node does not wait for, never counts as a step of the node.
- **FilterManager.** `filterLoop`'s steps (`Subscribe`, `Receive`, `Callback`, `Unlock`) are weakly fair: it is a goroutine that the scheduler runs. Installing, uninstalling, posting and `Stop` are callers' choices and not fair.

## Not modelled, and the plan

- **Not yet modelled:**
  - the bad-hash rollback in `NewChainManager`;
  - the cache race inside `ChainManager` itself: there `Visible` is the store plus pinned genesis, and `BlockCache` checks the race on its own. Since `Visible` always holds genesis, the `ChainManager` runs cannot see the stale genesis entry that `makeCache` pins after `SetHead` deleted genesis (hazard at `manager.go:236`); `HeadChainStored` is stated over `Visible` and is silent about it;
  - the recursive `mu.RLock` of `ExportN`: it holds `mu.RLock` and `GetBlockByNumber` takes it again (lines 293, 403). A writer that calls `mu.Lock` in between makes the second `RLock` wait behind it, and both wait forever. The model has no `sync.RWMutex` writer queue, and `ExportN` is one atomic step, so this deadlock is listed as a hazard and not checked;
  - errors of the store's `Put` (in `write` and `insert`, lines 319–329 and 343–346): the code logs them and goes on, and the model lets every write succeed;
  - a panic in `update()` ends the model's node for good; the restart after it is the crash model's (`Crash`), not combined with the panic.
- **Filters.** What a callback does with its arguments is not modelled. `FilterManager` would deadlock if a callback itself called `InstallFilter` or `UninstallFilter` (a write lock under the read lock). No callback in the repository does that.
- **Out of reach.** Genesis creation and the tests are out of reach or have no state to check (see `components` in `PROJECT.json`).
