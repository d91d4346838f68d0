SPECIFICATION Spec
CONSTANTS
  Actors = {c1, c2}
  Things = {r1, r2}
  MaxVersion = 2
  MaxAttempts = 2
  MaxConflicts = 1
  Facts <- MCFacts
  MaxEpoch = 2
  MaxRotations = 3
  MaxWithdrawals = 1
  Requests <- MCRequests
  MaxChanges = 1
  Declarations <- MCGuarantees
  Behaviours <- MCGuarantees
  MaxRevision = 2
  MaxTime = 2
  MaxAge = 0
INVARIANTS
  ReviewsProtect
PROPERTIES
  StoreSpec
  DeliveryIsAccounted
  RecoveryIsTold
  AnswersAreTrue
  EveryCallReturns
CHECK_DEADLOCK FALSE
