------------------------------- MODULE Reorg -------------------------------
(***************************************************************************)
(* The block tree seen by the chain manager and the fork-choice helpers    *)
(* of src/chain_manager/manager.go: the height and total difficulty of a   *)
(* block, the ancestor walk through GetBlock, and ChainManager.diff, which *)
(* collects the blocks of a heavier branch down to the common ancestor.    *)
(*                                                                         *)
(* A block is a model value; its header fields (parent hash, difficulty,   *)
(* timestamp) are constant functions, since a sealed block is immutable.   *)
(* The block store is passed in as the set of hashes whose block-hash-     *)
(* entry is present, so every operator here is a pure function of it.      *)
(***************************************************************************)
EXTENDS Naturals, Sequences

CONSTANTS
    Blocks,      \* every block the network may ever hand to the node
    Genesis,     \* the genesis block, in Blocks
    Parent,      \* Parent[b]: the block named by b's parent hash (Nil for Genesis)
    Difficulty,  \* Difficulty[b]: the header difficulty of b
    Nil          \* a nil *types.Block

ASSUME /\ Genesis \in Blocks
       /\ Nil \notin Blocks
       /\ Parent \in [Blocks -> Blocks \cup {Nil}]
       /\ Parent[Genesis] = Nil
       /\ Difficulty \in [Blocks -> Nat \ {0}]

\* block.NumberU64(): the height header field, one above the parent's.
NumberOf[b \in Blocks] == IF b = Genesis THEN 0 ELSE 1 + NumberOf[Parent[b]]
Number(b) == NumberOf[b]

\* CalcTD(block, parent): parent.Td + block.Difficulty(), or the block's own
\* difficulty when the parent is nil; the genesis block's Td is its difficulty.
TDOf[b \in Blocks] == IF Parent[b] = Nil THEN Difficulty[b] ELSE TDOf[Parent[b]] + Difficulty[b]
TD(b) == TDOf[b]

\* ChainManager.GetBlock(hash) against a store holding the hashes in store:
\* the block if its entry is present, nil otherwise (and nil for a nil hash).
GetBlock(store, h) == IF h \in store THEN h ELSE Nil

\* The ancestor of b at height n (b itself when n is b's height).
RECURSIVE AncestorAt(_, _)
AncestorAt(b, n) == IF Number(b) <= n THEN b ELSE AncestorAt(Parent[b], n)

\* b and all its ancestors.
AncestryOf[b \in Blocks] == IF Parent[b] = Nil THEN {b} ELSE {b} \cup AncestryOf[Parent[b]]
Ancestry(b) == AncestryOf[b]

-----------------------------------------------------------------------------
(***************************************************************************)
(* ChainManager.diff(oldBlock, newBlock).  The result is a record: ok is   *)
(* FALSE for the "Invalid old chain" / "Invalid new chain" errors, and     *)
(* chain is newChain, the new-branch blocks from newBlock down to (not     *)
(* including) the common ancestor, in the order diff appends them.          *)
(***************************************************************************)

\* The first loop reducing the old chain: walk oldBlock back through GetBlock
\* until it is nil or at height n.
RECURSIVE ReduceOld(_, _, _)
ReduceOld(store, old, n) ==
    IF old = Nil \/ Number(old) = n THEN old
    ELSE ReduceOld(store, GetBlock(store, Parent[old]), n)

\* The first loop reducing the new chain, appending each visited newBlock to
\* newChain: returns <<newChain, the block where the walk stopped>>.
RECURSIVE ReduceNew(_, _, _, _)
ReduceNew(store, new, n, acc) ==
    IF new = Nil \/ Number(new) = n THEN <<acc, new>>
    ELSE ReduceNew(store, GetBlock(store, Parent[new]), n, Append(acc, new))

\* Mutant of LockStep: the block of the last step is not appended.
RECURSIVE LockStepLate(_, _, _, _)
LockStepLate(store, old, new, acc) ==
    IF old = new THEN [ok |-> TRUE, chain |-> acc]
    ELSE LET o == GetBlock(store, Parent[old])
             n == GetBlock(store, Parent[new])
         IN  IF o = Nil \/ n = Nil THEN [ok |-> FALSE, chain |-> <<>>]
             ELSE IF o = n THEN [ok |-> TRUE, chain |-> acc]
             ELSE LockStepLate(store, o, n, Append(acc, new))

\* The lock-step loop: until the hashes match, append newBlock and step both
\* sides back through GetBlock; a nil on either side is an error.
RECURSIVE LockStep(_, _, _, _)
LockStep(store, old, new, acc) ==
    IF old = new THEN [ok |-> TRUE, chain |-> acc]
    ELSE LET o == GetBlock(store, Parent[old])
             n == GetBlock(store, Parent[new])
         IN  IF o = Nil \/ n = Nil THEN [ok |-> FALSE, chain |-> <<>>]
             ELSE LockStep(store, o, n, Append(acc, new))

Diff(store, oldBlock, newBlock) ==
    LET red == IF Number(oldBlock) > Number(newBlock)
               THEN <<<<>>, ReduceOld(store, oldBlock, Number(newBlock)), newBlock>>
               ELSE LET r == ReduceNew(store, newBlock, Number(oldBlock), <<>>)
                    IN  <<r[1], oldBlock, r[2]>>
    IN  IF red[2] = Nil \/ red[3] = Nil THEN [ok |-> FALSE, chain |-> <<>>]
        ELSE LockStep(store, red[2], red[3], red[1])

\* Reference: the blocks of newBlock's branch strictly above the common
\* ancestor of the two blocks.
Branch(oldBlock, newBlock) == Ancestry(newBlock) \ Ancestry(oldBlock)

-----------------------------------------------------------------------------
\* Mutant of Walk: the walk does not stop at the target block.
RECURSIVE WalkPastStop(_, _, _)
WalkPastStop(store, b, stop) ==
    IF b = Nil THEN {} ELSE {b} \cup WalkPastStop(store, GetBlock(store, Parent[b]), stop)

\* The blocks SetHead and Reset delete: from b back through GetBlock until
\* nil or the block stop.
RECURSIVE Walk(_, _, _)
Walk(store, b, stop) ==
    IF b = Nil \/ b = stop THEN {} ELSE {b} \cup Walk(store, GetBlock(store, Parent[b]), stop)
-----------------------------------------------------------------------------
\* Mutant of HashesFrom: the loop runs while i <= max, one step too many.
RECURSIVE HashesFromLe(_, _, _)
HashesFromLe(store, b, max) ==
    IF max < 0 THEN <<>>
    ELSE LET p == GetBlock(store, Parent[b]) IN
         IF p = Nil THEN <<>>
         ELSE IF Number(p) <= 0 THEN <<p>>
         ELSE <<p>> \o HashesFromLe(store, p, max - 1)

\* The loop of GetBlockHashesFromHash from block b with max steps left:
\* step to the parent through GetBlock, stop at nil, append the parent's
\* hash, and stop after a block at height 0.
RECURSIVE HashesFrom(_, _, _)
HashesFrom(store, b, max) ==
    IF max = 0 THEN <<>>
    ELSE LET p == GetBlock(store, Parent[b]) IN
         IF p = Nil THEN <<>>
         ELSE IF Number(p) <= 0 THEN <<p>>
         ELSE <<p>> \o HashesFrom(store, p, max - 1)

\* ChainManager.GetBlockHashesFromHash(hash, max): nothing for an unknown
\* hash, otherwise the hashes of up to max ancestors, nearest first.
GetBlockHashesFromHash(store, h, max) ==
    IF GetBlock(store, h) = Nil THEN <<>> ELSE HashesFrom(store, h, max)
=============================================================================
