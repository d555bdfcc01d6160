SPECIFICATION Spec
CONSTANTS
  t1 = t1
  t2 = t2
  s1 = s1
  s2 = s2
  s3 = s3
  r1 = r1
  r2 = r2
  r3 = r3
  c1 = c1
  c2 = c2
  NoSource = NoSource
  AcceptLoop = AcceptLoop
  Source = {s1, s2, s3}
  Tenant = {t1, t2}
  Route = {r1, r2, r3}
  Conn = {c1, c2}
  StartOrder <- MCStartOrder
  RouteOf <- MCRouteOf
  TenantOf <- MCTenantOf
  Faults = {}
  MaxCrashes = 0
INVARIANTS
  SchemaDumped
CHECK_DEADLOCK FALSE
