SPECIFICATION Spec
CONSTANTS
  Configs <- MCConfigs
  Usages <- MCUsages
  MaxTools = 1
INVARIANTS
  SpansAreWritten
CHECK_DEADLOCK FALSE
