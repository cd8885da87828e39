------------------------------- MODULE MCMkfs ------------------------------
(***************************************************************************)
(* Model checking of Mkfs.                                                 *)
(***************************************************************************)
EXTENDS Mkfs

\* Inodes that fill their blocks and inodes that do not; images that two of the
\* longest files do not fit into, that they fill, and that they fill together
\* with the block of bits balloc writes.
MCGeometries ==
  [FSSIZE : {30, 31, 32}, NINODES : {3, 4}, LOGSIZE : {14}]

============================================================================
