SPECIFICATION LiveSpec
CONSTANTS
  Threads = {t1, t2}
  Blocks = {b1, b2, b3, b4}
  Values = {v0}
  Zero = v0
  None = None
  MAX_OP_BLOCKS = 2
  LOG_SIZE = 4
  NLOG = 4
  OpBlocks = 1
  MaxCalls = 10
  MaxCrashes = 1
PROPERTIES EveryCallReturns LogDrains
INVARIANT NoAssertFails
