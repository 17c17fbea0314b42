------------------------- MODULE MCBackupRetention -------------------------
(***************************************************************************)
(* Small instances of BackupRetention: the first rows of the catalogue     *)
(* exist at the start, the last ids are left for new dumps.                *)
(***************************************************************************)
EXTENDS BackupRetention, TLC

TwoIds   == 1..2
FiveIds  == 1..5
OldOne   == 1..1
OldThree == 1..3
=============================================================================
