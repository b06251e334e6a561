SPECIFICATION FairSpec
CONSTANTS
  None = None
  c1 = c1
  Inbound = {c1}
  ClientSends = 2
  DialSends = 1
  MaxDials = 2
  MaxSent <- MCMaxSent
  Kinds <- MCKinds
  ClientKinds = {"plain", "raises", "long"}
  DialKinds = {"fatal"}
  MaxBuffer = 1
INVARIANTS
  TypeOK
  HandledInOrder
  NothingDropped
PROPERTIES
  FeedsArchive
  BrokenConnectionsEnd
  ReadIsHandled
CHECK_DEADLOCK FALSE
