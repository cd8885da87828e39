SPECIFICATION Spec
CONSTANTS
  Threads = {t1, t2, t3}
  Blocks = {b1, b2}
  Outer = {b1}
  Values = {v0, v1}
  None = None
  Rank <- MCRank
SYMMETRY Symmetry
INVARIANT NoSleepForSleeper
CHECK_DEADLOCK FALSE
