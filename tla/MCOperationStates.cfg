SPECIFICATION StatesSpec
CONSTANTS
  p1 = p1
  p2 = p2
  d1 = d1
  d2 = d2
  r = r
  Value <- MCValue
  Push <- MCPush
  Route <- MCRoute
  RouteOf <- MCRouteOf
  Client = {c}
  NoState = NoState
  MaxKeys = 4
SYMMETRY Symmetry
INVARIANTS
  StatesTypeOK
  KeysPartitioned
  GetReturnsRegistered
  StartedOnceAndKept
PROPERTY
  ImplementsAllocator
