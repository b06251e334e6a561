SPECIFICATION Spec
CONSTANTS
  None = None
  c1 = c1
  c2 = c2
  Conns = {c1}
  Kinds = {"registration"}
  Chunk = 1
  MaxMessages = 1
  MaxRollovers = 1
INVARIANTS
  OldFileNamesNext
CHECK_DEADLOCK FALSE
