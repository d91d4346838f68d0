SPECIFICATION FairSpec
CONSTANTS
  a1 = a1
  a2 = a2
  b1 = b1
  b2 = b2
  Runs = {a1, a2, b1, b2}
  Impatient = {b1, b2}
  MaxConcurrentRuns = 1
  MaxQueuedRuns = 2
  CloseMayFail = TRUE
INVARIANTS
  QueueIsLive
  ExitCodeTells
PROPERTIES
  StartsInTurn
  EverythingSettles
CHECK_DEADLOCK FALSE
