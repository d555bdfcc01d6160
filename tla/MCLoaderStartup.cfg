SPECIFICATION Spec
CONSTANTS
  w1 = w1
  w2 = w2
  i1 = i1
  i2 = i2
  TenantLine <- MCTenantLine
  SourceLine <- MCSourceLine
  Garbage = {0, 1, 2}
  MaxLines = 4
  MaxRuns = 2
INVARIANTS
  TypeOK
  SubscriptionsMatchFiles
  OneSubscriberPerPushSource
  DirectoryKeepsItsTenant
CHECK_DEADLOCK FALSE
