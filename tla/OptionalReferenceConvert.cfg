SPECIFICATION Spec
CONSTANTS
  References = {r, s, q}
  Objects = {x, y}
  Values = {v, w}
  Null = Null
  Absent = Absent
CHECK_DEADLOCK FALSE
INVARIANT
  ConvertingAssignReturns
