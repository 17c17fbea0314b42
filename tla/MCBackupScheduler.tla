------------------------- MODULE MCBackupScheduler -------------------------
(***************************************************************************)
(* Small instances of BackupScheduler.  The clock unit is one hour: a      *)
(* backup is due after 2 hours, a RUNNING marker is stuck after more than  *)
(* 3 (2 in Scheduler_cron), and ages above 4 (3) need not be told apart.   *)
(***************************************************************************)
EXTENDS BackupScheduler, TLC

Symmetry == Permutations(Ticks)
=============================================================================
