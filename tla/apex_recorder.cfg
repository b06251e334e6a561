SPECIFICATION Spec
CONSTANTS
  None = None
  Lost = Lost
  c1 = c1
  c2 = c2
  c3 = c3
  p1 = p1
  p2 = p2
  q1 = q1
  q2 = q2
  h1 = h1
  r1 = r1
  n1 = n1
  n2 = n2
  i1 = i1
  i2 = i2
  v1 = v1
  v2 = v2
  Children = {c1}
  Peers = {}
  Parents = {q1}
  HighParents = {}
  Recorders = {r1}
  Nodes = {n1}
  DmmIds = {i1}
  Values = {v1}
INVARIANTS
  RecorderOnlyRecords
