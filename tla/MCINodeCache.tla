---------------------------- MODULE MCINodeCache ----------------------------
(***************************************************************************)
(* Model checking of INodeCache.                                           *)
(***************************************************************************)
EXTENDS INodeCache, TLC

\* Clients, inode numbers and names are interchangeable.
Symmetry == Permutations(Clients) \cup Permutations(INums) \cup Permutations(Names)

============================================================================
