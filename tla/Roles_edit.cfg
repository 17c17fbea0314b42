SPECIFICATION Spec
CONSTANTS
  a1 = a1
  a2 = a2
  r1 = r1
  r2 = r2
  r3 = r3
  Admins = {a1, a2}
  Requests = {r1, r2, r3}
  Free = Free
  MaxActs = 4
SYMMETRY Symmetry
INVARIANTS
  Administrable
  AuditExact
  AuthorityHeld
CHECK_DEADLOCK FALSE
