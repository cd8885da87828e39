SPECIFICATION Spec
CONSTANTS
  Threads = {t1, t2}
  Blocks = {b1, b2, b3}
  Values = {v0, v1}
  Zero = v0
  None = None
  MAX_OP_BLOCKS = 2
  LOG_SIZE = 4
  NLOG = 4
  OpBlocks = 2
SYMMETRY Symmetry
INVARIANTS TypeOK InFlightRollsBack QuietIsDurable PinnedUntilInstalled NoLostWakeup IInv
PROPERTY AtomicDisk
