SPECIFICATION Spec
CONSTANTS
  Threads = {t1, t2}
  Handles = {h1, h2}
  Files = {f1, f2}
  None = None
  NBLOCKS = 4
  BSIZE = 2
  NDIRECT = 1
  NINDIRECT = 2
  MAX_OP_BLOCKS = 6
  Width = 3
  Sizes = {4}
  Offsets = {1}
  Lengths = {0, 6, 7}
  MaxCalls = 4
SYMMETRY Symmetry
INVARIANTS TypeOK BlocksExclusive StableExact NoForeignBytes OpFitsReservation
