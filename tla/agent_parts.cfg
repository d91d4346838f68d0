SPECIFICATION Spec
CONSTANTS
  a = a
  b = b
  c = c
  Actors = {a, b, c}
  Configs <- MCConfigs
  Usages <- MCUsages
  MaxTools = 2
  Abortable = {c}
  BadRequests = {b}
  FailureThreshold = 2
  Calls = {read, refund, message, disabled,
           refused1, refused2, refused3, refused4, refused5, refused6}
  Asked <- MCAsked
  Disabled = {"update_customer"}
  Actions = {n1, n2}
  Messages <- MCMessages
  Customers = {k}
  Candidates <- MCCandidates
  Proposals <- MCProposals
  MaxSteps = 3
  ValidationRetries = 1
  read = read
  refund = refund
  message = message
  disabled = disabled
  refused1 = refused1
  refused2 = refused2
  refused3 = refused3
  refused4 = refused4
  refused5 = refused5
  refused6 = refused6
INVARIANTS
  SpendIsBounded
  StopReasonIsReal
  GateIsSound
  ApprovalHolds
  WorkIsWhole
  AgentsStayInside
PROPERTIES
  NoNewWork
  Readmitted
  WorkEnds
CHECK_DEADLOCK FALSE
