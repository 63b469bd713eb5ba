---------------------------- MODULE AbstractChain ----------------------------
(***************************************************************************)
(* What the chain manager promises its users (spec.md sections 4 and 5),   *)
(* with no pipeline, no verifier, no index and no cache: a set of stored   *)
(* blocks forming a tree below the genesis block, and a head.  A block is  *)
(* stored only on top of a stored parent; the head moves to a new block    *)
(* only if that block is heavier than the head; an administrative call     *)
(* moves the head back to one of its ancestors and forgets the blocks of   *)
(* the chain above it.                                                     *)
(***************************************************************************)
EXTENDS Reorg

VARIABLES head, stored

vars == <<head, stored>>

Init == head = Genesis /\ stored = {Genesis}

\* A block on top of a stored block is stored as a side block.
Store(b) ==
    /\ b \notin stored
    /\ Parent[b] \in stored
    /\ TD(b) <= TD(head)
    /\ stored' = stored \cup {b}
    /\ UNCHANGED head

\* A heavier block whose chain is stored becomes the head.
Adopt(b) ==
    /\ b \notin stored
    /\ Ancestry(b) \ {b} \subseteq stored
    /\ TD(b) > TD(head)
    /\ head' = b
    /\ stored' = stored \cup {b}

\* SetHead(h) or Reset: the head goes back to its ancestor h and the blocks
\* of its chain above h are forgotten.
Rollback(h) ==
    /\ h \in Ancestry(head)
    /\ head' = h
    /\ stored' = stored \ (Ancestry(head) \ Ancestry(h))

Next == \E b \in Blocks : Store(b) \/ Adopt(b) \/ Rollback(b)

Spec == Init /\ [][Next]_vars

\* The head's whole chain is stored.
ChainStored == Ancestry(head) \subseteq stored
=============================================================================
