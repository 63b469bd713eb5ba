----------------------------- MODULE BlockCache -----------------------------
(***************************************************************************)
(* The block cache of ChainManager (src/chain_manager/manager.go) and the  *)
(* goroutines that use it.  GetBlock looks in the cache, then reads the    *)
(* store and adds what it read to the cache; it takes no lock.  SetHead    *)
(* and Reset, under mu, delete blocks from the store, replace the cache by *)
(* a new one and fill it (makeCache).  HasBlock, which the block processor *)
(* uses for "known block" and "unknown parent", answers from the cache     *)
(* first.  The cache is an LRU of CacheLimit entries (blockCacheLimit).    *)
(*                                                                         *)
(* InsertChain is one step per block here: the pipeline is ChainManager's; *)
(* what matters is that it consults HasBlock.                              *)
(***************************************************************************)
EXTENDS Reorg, SequencesExt

CONSTANTS
    Readers,     \* goroutines calling GetBlock (RPC, the processor, ...)
    CacheLimit,  \* blockCacheLimit
    MaxInserts,  \* bound: blocks handed to InsertChain
    MaxAdmin     \* bound: SetHead and Reset calls

ASSUME CacheLimit \in Nat \ {0}

VARIABLES
    db,       \* hashes whose "block-hash-" entry is in blockDb
    head,     \* currentBlock
    cache,    \* bc.cache: its keys, least recently used first
    gen,      \* how many times bc.cache has been replaced
    rd,       \* rd[r]: the block reader r read from the store, Nil if none
    rdGen,    \* rdGen[r]: gen when reader r looked into the cache
    ninserts, \* InsertChain blocks so far
    nadmin    \* SetHead / Reset calls so far

vars == <<db, head, cache, gen, rd, rdGen, ninserts, nadmin>>

\* lru.Cache.Add: the key becomes the most recent; beyond the capacity the
\* least recent is evicted.  lru.Cache.Get makes the key the most recent.
LruAdd(c, b) ==
    LET c1 == Append(Remove(c, b), b)
    IN  IF Len(c1) > CacheLimit THEN Tail(c1) ELSE c1

\* HasBlock(hash): cache.Contains, else the store.
HasBlock(b) == b \in Range(cache) \/ b \in db

\* What GetBlock can return at this moment.
Seen == Range(cache) \cup db

\* GetBlocksFromHash(hash, n): the block and up to n - 1 ancestors, through
\* GetBlock.
RECURSIVE GetBlocksFromHash(_, _, _)
GetBlocksFromHash(store, b, n) ==
    IF n = 0 \/ GetBlock(store, b) = Nil THEN <<>>
    ELSE <<b>> \o GetBlocksFromHash(store, Parent[b], n - 1)

\* makeCache(): a new cache holding the genesis block, then the head and
\* its ancestors (each added by GetBlock and again by makeCache), read
\* from the store as it is now.
makeCache(store, h) ==
    FoldLeft(LruAdd, <<Genesis>>, GetBlocksFromHash(store, h, CacheLimit))

Init ==
    /\ db = {Genesis}
    /\ head = Genesis
    /\ cache = makeCache({Genesis}, Genesis)
    /\ gen = 0
    /\ rd = [r \in Readers |-> Nil]
    /\ rdGen = [r \in Readers |-> 0]
    /\ ninserts = 0
    /\ nadmin = 0

\* GetBlock(hash) finds the block in the cache (cache.Get).
GetHit(r, b) ==
    /\ rd[r] = Nil
    /\ b \in Range(cache)
    /\ cache' = Append(Remove(cache, b), b)
    /\ UNCHANGED <<db, head, gen, rd, rdGen, ninserts, nadmin>>

\* GetBlock(hash) misses the cache and reads the block from the store.
GetMiss(r, b) ==
    /\ rd[r] = Nil
    /\ b \notin Range(cache)
    /\ b \in db
    /\ rd' = [rd EXCEPT ![r] = b]
    /\ rdGen' = [rdGen EXCEPT ![r] = gen]
    /\ UNCHANGED <<db, head, cache, gen, ninserts, nadmin>>

\* self.cache.Add(hash, block).  The field self.cache is read without mu:
\* if SetHead or Reset replaced it since, the add may go to either cache,
\* and one added to the old cache is lost with it.
GetAdd(r) ==
    /\ rd[r] # Nil
    /\ \/ cache' = LruAdd(cache, rd[r])
       \/ rdGen[r] # gen /\ UNCHANGED cache
    /\ rd' = [rd EXCEPT ![r] = Nil]
    /\ UNCHANGED <<db, head, gen, rdGen, ninserts, nadmin>>

\* InsertChain of block b: the processor's HasBlock checks (a known block
\* is skipped, an unknown parent is an error), then WriteBlock: a heavier
\* block becomes the head; the block is written.  Neither touches the cache.
InsertBlock(b) ==
    /\ ninserts < MaxInserts
    /\ ninserts' = ninserts + 1
    /\ ~HasBlock(b)
    /\ HasBlock(Parent[b])
    /\ head' = IF TD(b) > TD(head) THEN b ELSE head
    /\ db' = db \cup {b}
    /\ UNCHANGED <<cache, gen, rd, rdGen, nadmin>>

\* SetHead(h) for an ancestor h of the head: the walk from the head back to
\* h (through GetBlock) deletes each block; the cache is replaced and
\* refilled from h.
SetHead(h) ==
    /\ nadmin < MaxAdmin
    /\ nadmin' = nadmin + 1
    /\ h \in Ancestry(head)
    /\ LET store == db \ Walk(Seen, head, h)
       IN  /\ db' = store
           /\ cache' = makeCache(store, h)
    /\ head' = h
    /\ gen' = gen + 1
    /\ UNCHANGED <<rd, rdGen, ninserts>>

\* Reset(): the walk deletes the whole head chain; the genesis block is
\* written and inserted; the cache is replaced and refilled.
Reset ==
    /\ nadmin < MaxAdmin
    /\ nadmin' = nadmin + 1
    /\ LET store == (db \ Walk(Seen, head, Nil)) \cup {Genesis}
       IN  /\ db' = store
           /\ cache' = makeCache(store, Genesis)
    /\ head' = Genesis
    /\ gen' = gen + 1
    /\ UNCHANGED <<rd, rdGen, ninserts>>

Next ==
    \/ \E r \in Readers, b \in Blocks : GetHit(r, b) \/ GetMiss(r, b)
    \/ \E r \in Readers : GetAdd(r)
    \/ \E b \in Blocks : InsertBlock(b) \/ SetHead(b)
    \/ Reset

Spec == Init /\ [][Next]_vars

-----------------------------------------------------------------------------
(* Properties *)

TypeOK ==
    /\ db \subseteq Blocks
    /\ head \in db
    /\ cache \in Seq(Blocks) /\ Len(cache) <= CacheLimit
    /\ rd \in [Readers -> Blocks \cup {Nil}]

\* The block store stays a tree below the genesis block: every stored
\* block's parent is stored, so GetBlock can walk any stored block back to
\* genesis (as GetBlockHashesFromHash and diff do).
StoreIsTree == \A b \in db : Parent[b] = Nil \/ Parent[b] \in db
=============================================================================
