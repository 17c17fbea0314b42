SPECIFICATION Spec
CONSTANTS
  a1 = a1
  a2 = a2
  r1 = r1
  r2 = r2
  Admins = {a1, a2}
  Requests = {r1, r2}
  Free = Free
  MaxActs = 4
SYMMETRY Symmetry
INVARIANTS
  AuditAlwaysExact
CHECK_DEADLOCK FALSE
