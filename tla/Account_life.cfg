SPECIFICATION Spec
CONSTANTS
  r1 = r1
  r2 = r2
  Requests = {r1, r2}
  MaxUsers = 1
  MaxLinks = 2
  MaxResets = 2
  MaxRows = 1
  MaxPw = 3
SYMMETRY Symmetry
INVARIANTS
  
  LinksActOnce
  BadgeNeedsProof
PROPERTIES
  ClaimNeedsProof
  ErasesItsOwn
CHECK_DEADLOCK FALSE
