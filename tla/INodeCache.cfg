SPECIFICATION Spec
CONSTANTS
  Clients = {c1, c2, c3, c4}
  INums = {i1, i2}
  Names = {n1, n2}
  None = None
SYMMETRY Symmetry
INVARIANTS TypeOK RefExact OpenOrNamedIsAllocated CachedIsCurrent LockNeverAborts PutNeverBlocks ListingFreesNothing LostOnlyIfReused
