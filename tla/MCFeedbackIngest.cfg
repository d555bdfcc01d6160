SPECIFICATION FairSpec
CONSTANTS
  s1 = s1
  t1 = t1
  r1 = r1
  c1 = c1
  conv = conv
  Source = {s1}
  Tenant = {t1}
  Route = {r1}
  Conn = {c1}
  NoSource = NoSource
  AcceptLoop = AcceptLoop
  StartOrder <- MCStartOrder
  RouteOf <- MCRouteOf
  TenantOf <- MCTenantOf
  DayLength = 1
  discourse_id = d1
  discourse_tenant = t1
  MaxTime = 1
  Conversation = {conv}
  Malformed = {}
  Versions <- MCVersions
  filepp_id = f1
  filepp_tenant = t1
  MaxPolls = 2
  Timeout = 1
  Faults = {"http", "bind", "accept"}
  Requests <- MCRequests
PROPERTIES
  AckedThenStored
  VersionReachesDump
  FetchEnds
  OnlyAnswersLoaded
CHECK_DEADLOCK FALSE
