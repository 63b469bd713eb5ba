---------------------------- MODULE MCBlockCache ----------------------------
(***************************************************************************)
(* A chain G -- A1 -- A2 -- A3, every block of difficulty 1, for checking  *)
(* the block cache against SetHead.                                        *)
(***************************************************************************)
EXTENDS BlockCache

CONSTANTS G, A1, A2, A3, r1

MCBlocks == {G, A1, A2, A3}

MCParent == [b \in MCBlocks |-> CASE b = G -> Nil [] b = A1 -> G [] b = A2 -> A1 [] b = A3 -> A2]

MCDifficulty == [b \in MCBlocks |-> 1]
=============================================================================
