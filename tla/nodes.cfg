SPECIFICATION FairSpec
CONSTANTS
  Absent = Absent
  Corrupt = Corrupt
  Poll = Poll
  n1 = n1
  n2 = n2
  e1 = e1
  e2 = e2
  r1 = r1
  r2 = r2
  d1 = d1
  Nodes = {n1, n2}
  Entries = {e1}
  Requests = {r1}
  Readers = {d1}
  MaxTime = 2
  MaxUpsets = 1
INVARIANTS
  TypeOK
  CacheIsCommitted
  AnswersAreCommitted
PROPERTIES
  OneNodePerWrite
  KeepsPromise
  OnlyOperatorRepairs
  HistoryCarriedOver
  CacheSettles
