SPECIFICATION FairSpec
CONSTANTS
  w1 = w1
  w2 = w2
  w3 = w3
  Events = {e1}
  Workers = {w1, w2, w3}
  Deployments <- MCDeployments
  Contract <- GoodContract
  MaxAttempts = 3
  MaxEpoch = 3
INVARIANTS
  OnlyLatestClaimerBound
PROPERTIES
  TakenOverIsSilent
  DeliverySpec
  EventuallySettled
CHECK_DEADLOCK FALSE
