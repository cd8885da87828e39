SPECIFICATION Spec
CONSTANTS
  Clients = {c1, c2, c3}
  INodes = {i1}
  NFILE = 2
  None = None
INVARIANTS SlotExclusive INodeRefsExact CloseNeverAborts
