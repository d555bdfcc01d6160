SPECIFICATION Spec
CONSTANTS
  c1 = c1
  c2 = c2
  bad = bad
  source_id = s
  tenant_id = t
  Conversation = {c1, c2, bad}
  Malformed = {bad}
  Versions <- MCVersions
  Faults = {"disk"}
  MaxPolls = 2
  MaxRestarts = 1
INVARIANTS
  TypeOK
  DumpsFollowVersions
CHECK_DEADLOCK FALSE
