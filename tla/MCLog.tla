------------------------------- MODULE MCLog -------------------------------
(***************************************************************************)
(* Model checking of Log and of its inductive invariant.                   *)
(***************************************************************************)
EXTENDS LogInv, TLC

\* Threads and blocks are interchangeable.
Symmetry == Permutations(Threads) \cup Permutations(Blocks)

============================================================================
