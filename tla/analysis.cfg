SPECIFICATION FairSpec
CONSTANTS
  Types = {"mux", "tr101"}
  Clients = {c1, c2}
  MaxPaused = 2
  Spts = TRUE
INVARIANTS
  TypeOK
  AnalysisCanBeStopped
PROPERTIES
  HandlersEnd
  PausedComeBack
\* Once the input is deleted there may be nothing left to do.
CHECK_DEADLOCK FALSE
