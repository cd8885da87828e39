SPECIFICATION Spec
CONSTANTS
  FileNames = {"a", "b"}
  None = None
  NINODES = 4
  RootSlots = 3
  MaxRef = 2
INVARIANTS TypeOK LinkCountExact NoDanglingName DirectoriesSound LostOnlyInCrash
PROPERTY NameSpaceKept
