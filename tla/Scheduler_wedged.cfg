SPECIFICATION FairSpec
CONSTANTS
  t1 = t1
  Ticks = {t1}
  Creators = {}
  Restorers = {}
  Modes = {"cron"}
  Frequency = 2
  StuckTimeout = 3
  AgeCap = 4
  MaxMishaps = 1
  MaxApplied = 0
  Never = Never
  Free = Free
PROPERTIES
  CrashNeverBlocksScheduling
