SPECIFICATION FairSpec
CONSTANTS
  None = None
  c1 = c1
  c2 = c2
  Conns = {c1, c2}
  Kinds = {"registration", "other"}
  Chunk = 2
  MaxMessages = 2
  MaxRollovers = 1
PROPERTIES
  RecordedIsStored
  ShutdownEnds
CHECK_DEADLOCK FALSE
