SPECIFICATION FairSpec
CONSTANTS
  c1 = c1
  c2 = c2
  d1 = d1
  d2 = d2
  Commands = {c1, c2}
  Deliveries = {d1, d2}
  Operations = {"recover", "quarantine", "resume", "release_quarantine", "dead_letter"}
  Permitted = {"recover", "quarantine", "resume", "release_quarantine", "dead_letter"}
  MaxCheckpoint = 2
  Crashes = TRUE
INVARIANTS
  TerminalTellsTruth
  StartedOnce
PROPERTIES
  OneAuthorPerVersion
  CommandsTerminate
CHECK_DEADLOCK FALSE
