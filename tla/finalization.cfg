SPECIFICATION Spec
CONSTANTS
  c1 = c1
  c2 = c2
  e1 = e1
  Commands = {c1, c2}
  Effects = {e1}
  CommandOf <- EffectsOfOne
  Requests <- OneOfEach
  MaxCheckpoint = 2
  MaxRevision = 2
  MaxEpoch = 2
INVARIANTS
  TerminalIsComplete
  ControlHasOneAuthor
  EvidenceIsReal
PROPERTIES
  OutcomeIsCurrent
  AuthorityHeld
CHECK_DEADLOCK FALSE
