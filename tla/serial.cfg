SPECIFICATION Spec
CONSTANTS
  u1 = u1  l1 = l1  sp = sp  p1 = p1  q1 = q1  h1 = h1
  Inputs = {u1}
  Outputs = {q1}
  Clients = {c1}
  Kind <- MCKind
  Parent <- MCParent
  Source <- MCSource
  HostNamed <- MCHostNamed
  Preloaded = {u1, q1}
  MaxGen = 2
  MaxQueue = 1
  Budget <- OneCrash
INVARIANTS
  OneLiveTask
  EveryTaskReachable
  OutputInOneMap
  OutputEntriesHaveRows
  OutputRowsHaveEntries
  StoppedRowHasNoTask
  RestoreFindsInputs
\* Handlers may all be idle with the faults used up and no message queued.
CHECK_DEADLOCK FALSE
