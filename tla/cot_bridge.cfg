SPECIFICATION FairSpec
CONSTANTS
  NoMessage = NoMessage
  n1 = n1
  n2 = n2
  Nodes = {n1, n2}
  FirstSends = 3
  SecondSends = 1
  MaxSends <- MCMaxSends
  MaxBreaks = 1
INVARIANTS
  TypeOK
  DetectionsOnceInOrder
PROPERTIES
  RegisteredIsShown
CHECK_DEADLOCK FALSE
