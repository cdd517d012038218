SPECIFICATION FairSpec
CONSTANTS
  MaxRetries = 3
  Capacity = 2
INVARIANTS
  TypeOK
  ErrorIsEarned
PROPERTIES
  CallerGivesUp
  ClosedSenderEnds
  ImplementsLife
\* A task that has ended does nothing.
CHECK_DEADLOCK FALSE
