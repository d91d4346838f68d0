SPECIFICATION Spec
CONSTANTS
  search = search
  update = update
  refund = refund
  Calls = {refund, update}
  Executors = {w1, w2}
  Recoverers = {r1, r2}
  SideEffect <- MCSideEffect
  RetrySafe <- MCRetrySafe
  CanReconcile = {refund, update}
  MaxConflicts = 1
  RecoverLive = FALSE
  MaxVersion = 5
SYMMETRY Symmetry
INVARIANTS
  TypeOK
  NoHiddenEffect
  AtMostOneEffect
  OneOpenCall
CHECK_DEADLOCK FALSE
