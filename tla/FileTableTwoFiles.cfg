SPECIFICATION Spec
CONSTANTS
  Clients = {c1, c2, c3}
  INodes = {i1, i2}
  NFILE = 2
  None = None
INVARIANT HandleIsMine
