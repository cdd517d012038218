SPECIFICATION FairSpec
CONSTANTS
  Types = {"mux", "tr101"}
  Clients = {c1, c2}
  MaxPaused = 2
  Spts = FALSE
PROPERTIES
  HandlersEnd
\* Every handler may wait for the lock.
CHECK_DEADLOCK FALSE
