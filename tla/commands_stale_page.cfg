SPECIFICATION Spec
CONSTANTS
  c1 = c1
  c2 = c2
  d1 = d1
  d2 = d2
  Commands = {c1}
  Deliveries = {d1}
  Operations = {"recover"}
  Permitted = {"recover"}
  MaxCheckpoint = 3
  Crashes = FALSE
INVARIANTS
  StalePageNeverMutates
CHECK_DEADLOCK FALSE
