SPECIFICATION FairSpec
CONSTANTS
  s1 = s1
  w1 = w1
  w2 = w2
  Ids <- FiveIds
  Sweepers = {s1}
  Deleters = {}
  Dumpers = {w1, w2}
  Restorers = {}
  Verifiers = {}
  RetentionCount = 1
  AgeRule = TRUE
  Aged <- OldThree
  MaxMishaps = 0
  UnlinkMayFail = FALSE
  VerifyMayFail = FALSE
  None = None
PROPERTIES
  NewestGoodKept
  PruneConverges
