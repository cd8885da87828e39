SPECIFICATION LinkSpec
CONSTANTS
  FileNames = {"a", "b"}
  None = None
  NINODES = 4
  RootSlots = 3
  MaxRef = 2
  MaxLeak = 1
INVARIANT LinkCountExact
