SPECIFICATION Spec
CONSTANTS
  d1 = d1
  r1 = r1
  s1 = s1
  v1 = v1
  Ids <- TwoIds
  Sweepers = {s1}
  Deleters = {d1}
  Dumpers = {}
  Restorers = {r1}
  Verifiers = {v1}
  RetentionCount = 1
  AgeRule = TRUE
  Aged <- OldOne
  MaxMishaps = 1
  UnlinkMayFail = TRUE
  VerifyMayFail = FALSE
  None = None
INVARIANTS
  TypeOK
  GoodHasFiles
  DeletedHasNoFiles
  InFlightUntouched
PROPERTIES
  LastGoodKept
