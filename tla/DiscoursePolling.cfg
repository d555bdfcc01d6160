SPECIFICATION Spec
CONSTANTS
  source_id = s1
  tenant_id = t1
  DayLength = 3
  MaxTime = 14
  Faults = {"http", "reply"}
  MaxRestarts = 1
INVARIANTS
  TypeOK
  NoDayTwice
  MissedOnlyAcrossMidnight
  OnlyFinishedDays
  DumpedOncePerProcess
  LoadedIsDumped
CHECK_DEADLOCK FALSE
