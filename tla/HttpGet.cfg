SPECIFICATION HttpFairSpec
CONSTANTS
  Get = {g1, g2}
  Https = {g1}
  Timeout = 2
INVARIANTS
  HttpTypeOK
  ReturnsWholeResponse
PROPERTIES
  WaitEnds
CHECK_DEADLOCK FALSE
