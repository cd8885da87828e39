---------------------------- MODULE MCBlockCache ----------------------------
(***************************************************************************)
(* Model checking of BlockCache: one indirect (or log) block that is       *)
(* locked before the other blocks.                                         *)
(***************************************************************************)
EXTENDS BlockCache, TLC

CONSTANT Outer  \* the blocks that are locked first

MCRank(b) == IF b \in Outer THEN 0 ELSE 1

Symmetry == Permutations(Threads)

============================================================================
