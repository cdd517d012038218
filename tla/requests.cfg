SPECIFICATION Spec
CONSTANTS
  u1 = u1  l1 = l1  sp = sp  p1 = p1  q1 = q1  h1 = h1
  Inputs = {u1}
  Outputs = {}
  Clients = {c1, c2}
  Kind <- MCKind
  Parent <- MCParent
  Source <- MCSource
  HostNamed <- MCHostNamed
  Preloaded = {}
  MaxGen = 2
  MaxQueue = 2
  Budget <- AllFaults
INVARIANTS
  TypeOK
  LatestTaskAccounted
  InputRowsMatchEntries
PROPERTIES
  ImplementsRegistry
\* Handlers may all be idle with the faults used up and no message queued.
CHECK_DEADLOCK FALSE
