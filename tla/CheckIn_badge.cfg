SPECIFICATION Spec
CONSTANTS
  s1 = s1
  s2 = s2
  o1 = o1
  o2 = o2
  Scanners = {s1, s2}
  Operators = {o1, o2}
  Free = Free
  MaxCreds = 2
  MaxScans = 2
  MaxEdits = 1
SYMMETRY Symmetry
INVARIANTS
  OneActive
  SystemIssuesFirst
  OneFirstEntry
  NeverWrongly
CHECK_DEADLOCK FALSE
