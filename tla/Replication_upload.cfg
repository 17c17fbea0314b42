SPECIFICATION FairSpec
CONSTANTS
  w1 = w1
  w2 = w2
  Workers = {w1, w2}
  Backups = {1}
  MaxAttempts = 2
  MaxCopies = 2
  MaxSessions = 2
  MaxRare = 1
INVARIANTS
  TypeOK
  CompletedWasUploaded
  DuplicateNeedsOverlap
  NoFalseAlarm
PROPERTIES
  FinishedStays
  Settles
