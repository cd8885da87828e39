SPECIFICATION FlushSpec
CONSTANTS
  Threads = {t1, t2}
  Blocks = {b1, b2}
  Values = {v0, v1}
  Zero = v0
  None = None
  MAX_OP_BLOCKS = 2
  LOG_SIZE = 4
  NLOG = 5
  OpBlocks = 2
INVARIANT InFlightRollsBack
