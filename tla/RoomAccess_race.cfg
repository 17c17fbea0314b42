SPECIFICATION Spec
CONSTANTS
  r1 = r1
  r2 = r2
  r3 = r3
  a1 = a1
  a2 = a2
  Requests = {r1, r2, r3}
  Admins = {a1, a2}
SYMMETRY Symmetry
INVARIANTS
  TypeOK
  Entitled
  RetriesSuffice
PROPERTIES
  AdminRowsKept
  Implements
