SPECIFICATION FairSpec
CONSTANTS
  a = a
  b = b
  c = c
  Requests = {a, b, c}
  Abortable = {c}
  BadRequests = {}
  FailureThreshold = 1
PROPERTIES
  ProbeSettles
