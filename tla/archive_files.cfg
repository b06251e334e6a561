SPECIFICATION Spec
CONSTANTS
  None = None
  c1 = c1
  c2 = c2
  Conns = {c1, c2}
  Kinds = {"registration", "statusNew", "statusUnchanged", "detection"}
  Chunk = 2
  MaxMessages = 3
  MaxRollovers = 1
INVARIANTS
  TypeOK
  NoOrphans
  RecentAreStored
  RowsReflectStored
  NothingLost
  ConnectionsEndClosed
PROPERTIES
  KeepsLog
SYMMETRY Symmetry
CHECK_DEADLOCK FALSE
