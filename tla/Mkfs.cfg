SPECIFICATION Spec
CONSTANTS
  Geometries <- MCGeometries
  MaxINodes = 4
  BSIZE = 2
  NDIRECT = 1
  NINDIRECT = 2
  IPB = 2
  BPB = 32
  FileNames = {"a", "b"}
  Sizes = {0, 3, 5, 7}
  None = None
CHECK_DEADLOCK FALSE
INVARIANTS LayoutDisjoint ImageExact FilesReadBack RootHoleOnlyWhenFull NamesStartSound
