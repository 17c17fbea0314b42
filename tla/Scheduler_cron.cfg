SPECIFICATION FairSpec
CONSTANTS
  r1 = r1
  t2 = t2
  t1 = t1
  Ticks = {t1, t2}
  Creators = {}
  Restorers = {r1}
  Modes = {"cron"}
  Frequency = 2
  StuckTimeout = 2
  AgeCap = 3
  MaxMishaps = 1
  MaxApplied = 1
  Never = Never
  Free = Free
PROPERTIES
  DueIsServed
  StuckMarkerCleared
