SPECIFICATION FairSpec
CONSTANTS
  search = search
  update = update
  refund = refund
  Calls = {refund}
  Executors = {w1, w2}
  Recoverers = {r1}
  SideEffect <- MCSideEffect
  RetrySafe <- MCRetrySafe
  CanReconcile = {refund}
  MaxConflicts = 1
  RecoverLive = TRUE
  MaxVersion = 5
INVARIANTS
  ExecutedIsReal
  FreshSnapshot
PROPERTIES
  JournalSpec
  RecoveryEnds
CHECK_DEADLOCK FALSE
