--------------------------- MODULE MCChainManager ---------------------------
(***************************************************************************)
(* A block tree for checking ChainManager.  The canonical branch A and the *)
(* competing branch B of spec section 8 (with smaller numbers):            *)
(*                                                                         *)
(*        G(1) -- A1(3) -- A2(5)                                           *)
(*          \                                                              *)
(*           B1(2) -- B2(3) -- B3(6)        X1(2), Y1(2) children of G     *)
(*                                                                         *)
(* (total difficulty in brackets).  B2 ties A1, B3 outweighs A2 and is one *)
(* block higher, so inserting B after A reorganises through G.            *)
(***************************************************************************)
EXTENDS ChainManager

CONSTANTS G, A1, A2, B1, B2, B3, X1, Y1, C2, C3, H1

MCBlocks == {G, A1, A2, B1, B2, B3, X1, Y1}

MCParent == [b \in MCBlocks |->
                CASE b = G -> Nil
                  [] b \in {A1, B1, X1, Y1} -> G
                  [] b = A2 -> A1
                  [] b = B2 -> B1
                  [] b = B3 -> B2]

MCDifficulty == [b \in MCBlocks |->
                    CASE b \in {G, B1, B2} -> 1
                      [] b \in {A1, A2, X1, Y1} -> 2
                      [] b = B3 -> 3]

\* B2 is one second and A2 two seconds ahead of the clock at start: with a
\* tolerance of one second B2 is queued (and B3 after it as an orphan) while
\* A2 is rejected until the clock has moved.
MCTime == [b \in MCBlocks |-> CASE b = B2 -> 1 [] b = A2 -> 2 [] OTHER -> 0]

\* The fork of spec section 8, a batch starting above an unknown parent, and
\* a batch holding a deny-listed hash and a bad seal.
MCBatches == {<<A1, A2>>, <<B1, B2, B3>>, <<B2, B3>>, <<X1, Y1>>}

\* For the future-block replay: Y1, which the processor rejects, and B2 are
\* both one second ahead; B2 is one block higher, so it sorts after Y1.
MCTimeReplay == [b \in MCBlocks |-> IF b \in {Y1, B2} THEN 1 ELSE 0]

MCBatchesReplay == {<<Y1>>, <<B1, B2, B3>>}

(***************************************************************************)
(* For SetHead and Reset: branch C leaves the canonical branch A above     *)
(* the genesis block, so deleting A1 strands the stored side block C2.     *)
(*                                                                         *)
(*        G(1) -- A1(3) -- A2(5)                                           *)
(*                  \                                                      *)
(*                   C2(4) -- C3(7)                                        *)
(***************************************************************************)
MCAdminBlocks == {G, A1, A2, C2, C3}

MCAdminParent == [b \in MCAdminBlocks |->
                     CASE b = G -> Nil [] b \in {A2, C2} -> A1 [] b = A1 -> G [] b = C3 -> C2]

MCAdminDifficulty == [b \in MCAdminBlocks |->
                         CASE b \in {G, C2} -> 1 [] b \in {A1, A2} -> 2 [] b = C3 -> 3]

MCAdminTime == [b \in MCAdminBlocks |-> 0]

\* A side block, then its heavier child delivered on its own.
MCAdminBatches == {<<A1, A2>>, <<C2>>, <<C3>>}

(***************************************************************************)
(* For Export: a heavier branch that is shorter than the canonical one.   *)
(*                                                                         *)
(*        G(1) -- A1(3) -- A2(5)                                           *)
(*          \                                                              *)
(*           H1(6)                                                         *)
(***************************************************************************)
MCShortBlocks == {G, A1, A2, H1}

MCShortParent == [b \in MCShortBlocks |-> CASE b = G -> Nil [] b = A2 -> A1 [] OTHER -> G]

MCShortDifficulty == [b \in MCShortBlocks |->
                         CASE b = G -> 1 [] b \in {A1, A2} -> 2 [] b = H1 -> 5]

MCShortTime == [b \in MCShortBlocks |-> 0]

MCShortBatches == {<<A1, A2>>, <<H1>>}
=============================================================================
