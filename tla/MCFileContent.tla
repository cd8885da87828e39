--------------------------- MODULE MCFileContent ---------------------------
(***************************************************************************)
(* Model checking of FileContent.                                          *)
(***************************************************************************)
EXTENDS FileContent, TLC

\* Threads, handles and files are interchangeable; blocks are not, block_alloc takes the
\* first free one.
Symmetry == Permutations(Threads) \cup Permutations(Handles) \cup Permutations(Files)

============================================================================
