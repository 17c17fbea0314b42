SPECIFICATION Spec
CONSTANTS
  r1 = r1
  c1 = c1
  t2 = t2
  t1 = t1
  Ticks = {t1, t2}
  Creators = {c1}
  Restorers = {r1}
  Modes = {"cron", "manual"}
  Frequency = 2
  StuckTimeout = 3
  AgeCap = 4
  MaxMishaps = 1
  MaxApplied = 1
  Never = Never
  Free = Free
INVARIANTS
  TypeOK
  RunningMeansLive
  OneDumpInFlight
PROPERTIES
  CronSpacing
SYMMETRY Symmetry
