SPECIFICATION PartsSpec
CONSTANTS
  Optionals = {a, b, c}
  Values = {v1, v2}
  Moved = Moved
  None = None
  Absent = Absent
  TypeTraits <- TypeTraitsValue
  References = {r, s, q}
  Objects = {x, y}
  Null = Null
  Numbers = {0, 1, 2, 3}
  NaN = NaN
CHECK_DEADLOCK FALSE
INVARIANTS
  TypeOK
  FlagTellsTruth
  ObjectsEndOnce
  ComparisonsAgree
PROPERTIES
  KeepsPromises
  ReferencesRebind
