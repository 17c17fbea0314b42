SPECIFICATION FairSpec
CONSTANTS
  p1 = p1
  p2 = p2
  Desk = Desk
  Processes = {p1, p2}
  MaxMessages = 2
  BatchSize = 2
  MaxAttempts = 2
  MaxRare = 1
INVARIANTS
  OnceUnlessInDoubt
  KickNotLost
PROPERTIES
  Settles
  Implements
