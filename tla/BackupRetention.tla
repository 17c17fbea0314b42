-------------------------- MODULE BackupRetention --------------------------
(***************************************************************************)
(* The catalogue of backups: the Backup rows, the files published on disk, *)
(* and everything that may remove either of them while others read or add  *)
(* to them:                                                                *)
(*                                                                         *)
(*   - Sweepers run runRetention (lib/backup/retention.ts), from a tick or *)
(*     from runRetentionNowService;                                        *)
(*   - Deleters run deleteBackupService (lib/backup/service.ts);           *)
(*   - Dumpers run runBackupDump (lib/backup/dump.ts);                     *)
(*   - Restorers run runRestore (lib/backup/restore.ts) up to the moment   *)
(*     the source has been decoded: verify the source, open the operation, *)
(*     take a safety dump, record it, read the source again;               *)
(*   - Verifiers run verifyBackup with persist (lib/backup/verify.ts).     *)
(*                                                                         *)
(* No database lock or transaction spans two of their statements, so each  *)
(* statement, and each pair of unlinks, is one action.  An id is the rank  *)
(* of the row by startedAt.                                                *)
(*                                                                         *)
(* doubt, revived and lost are history: no action reads them, and the      *)
(* properties name with them the failures and the overlaps that the code   *)
(* does not survive.                                                       *)
(***************************************************************************)
EXTENDS Naturals, FiniteSets

CONSTANTS
  Ids,            \* backup rows, ranked by startedAt
  Sweepers, Deleters, Dumpers, Restorers, Verifiers,
  RetentionCount, \* schedule.retentionCount
  AgeRule,        \* schedule.retentionAgeDays > 0
  Aged,           \* the rows older than retentionAgeDays
  MaxMishaps,     \* how many pruners may die half-way and updates be rejected
  UnlinkMayFail,  \* fs.unlink may fail for another reason than ENOENT
  VerifyMayFail,  \* a verification may fail although the pair is there
  None

ASSUME CatalogueAssumption ==
  /\ Ids \subseteq Nat /\ None \notin Ids
  /\ Aged \subseteq Ids
  /\ RetentionCount \in Nat /\ MaxMishaps \in Nat
  /\ AgeRule \in BOOLEAN /\ UnlinkMayFail \in BOOLEAN /\ VerifyMayFail \in BOOLEAN

ASSUME ActorAssumption ==
  /\ Sweepers \cap Deleters = {}
  /\ Dumpers \cap Restorers = {}
  /\ Verifiers \cap Restorers = {}

VARIABLES
  status,  \* Backup.status of each id, "NONE" before the row exists
  disk,    \* ids whose .bin and manifest are both published
  prune,   \* locals of each sweeper and deleter
  dump,    \* locals of each dumper and restorer
  verify,  \* locals of each verification: a verifier's, or that of a safety dump
  doubt,   \* history: the rows whose unlinks or update failed or were cut short, whose
           \* dump was verified before its end, or that got a verdict once DELETED
  revived, \* history: the rows a verdict has made good that were not
  lost,    \* history: the pruners past their count one good row of which has gone since
  mishaps  \* pruners that died, updates that were rejected (bounds the behaviours)

vars == <<status, disk, prune, dump, verify, doubt, revived, lost, mishaps>>
history == <<doubt, revived, lost>>

Pruners  == Sweepers \cup Deleters
Writers  == Dumpers \cup Restorers
Checkers == Verifiers \cup Restorers

Good      == {"COMPLETED", "VERIFIED"}
InFlight  == {"PENDING", "RUNNING"}
Settled   == {"NONE", "FAILED", "MISSING", "DELETED"} \cup Good
Scannable == Good \cup {"FAILED", "MISSING"}

GoodIds == {i \in Ids : status[i] \in Good}

\* Mutant: the pair is not looked for.
VerdictsUnchecked(i) == {"VERIFIED"} \cup {f \in {"FAILED"} : VerifyMayFail}

\* What verifyBackup can make of row i: STORAGE_MISSING when the pair is not
\* there, any other code (corrupt, unreadable, internal error) being FAILED.
Verdicts(i) == {IF i \in disk THEN "VERIFIED" ELSE "MISSING"}
                 \cup {f \in {"FAILED"} : VerifyMayFail}

\* The n rows of S with the greatest startedAt.
NewestOf(S, n) == {i \in S : Cardinality({j \in S : j > i}) < n}

\* take: Math.max(1, schedule.retentionCount)
Keep == IF RetentionCount >= 1 THEN RetentionCount ELSE 1

\* A restore operation is INITIATED, PREFLIGHT or RUNNING, and names these rows.
OpPhases == {"race", "insert", "start", "publish", "complete", "verify", "record",
             "decode"}
InOperation(r) == dump[r].pc \in OpPhases
Referenced == UNION {{dump[r].source, dump[r].recorded} :
                       r \in {q \in Restorers : InOperation(q)}}

NoPrune  == [pc |-> "idle", newest |-> None, retained |-> {}, todo |-> {}, cur |-> None]
NoDump   == [pc |-> "idle", id |-> None, source |-> None, recorded |-> None]
NoVerify == [pc |-> "idle", id |-> None, found |-> "VERIFIED"]

\* Any catalogue of settled rows, the unused ids being the youngest; a row that
\* does not exist yet is not older than retentionAgeDays.
Init ==
  /\ status \in [Ids -> Settled]
  /\ \A i, j \in Ids : status[i] = "NONE" /\ i < j => status[j] = "NONE"
  /\ \A i \in Aged : status[i] # "NONE"
  /\ disk = GoodIds
  /\ prune = [p \in Pruners |-> NoPrune]
  /\ dump = [w \in Writers |-> NoDump]
  /\ verify = [c \in Checkers |-> NoVerify]
  /\ doubt = {} /\ revived = {} /\ lost = {}
  /\ mishaps = 0

PruneGoto(p, phase) == prune' = [prune EXCEPT ![p].pc = phase]

\* This candidate is protected or done: the next one, or the end of the call.
PruneNext(p) ==
  prune' = IF p \in Sweepers THEN [prune EXCEPT ![p].pc = "next"]
                             ELSE [prune EXCEPT ![p] = NoPrune]

\* The pruners between their count and the end of the deletion it allowed.
Counted == {p \in Pruners : \/ prune[p].pc \in {"unlink", "mark"}
                            \/ p \in Sweepers /\ prune[p].pc \in {"restores", "fresh"}}

\* Row i is not to be good any more.
Losing(i) == IF status[i] \in Good THEN lost \cup Counted ELSE lost

\* backup.update({ where: { id }, data: { status } }): whatever the row has become.
SetStatus(i, new) ==
  /\ status' = [status EXCEPT ![i] = new]
  /\ lost' = IF new \in Good THEN lost ELSE Losing(i)

-----------------------------------------------------------------------------
(* runRetention: what it reads before its loop                              *)

SweepAnchor(s) ==
  /\ prune[s].pc = "idle"
  /\ \E n \in IF GoodIds = {} THEN {None} ELSE NewestOf(GoodIds, 1) :
       prune' = [prune EXCEPT ![s] = [@ EXCEPT !.pc = "retained", !.newest = n]]
  /\ UNCHANGED <<status, disk, dump, verify, history, mishaps>>

SweepRetained(s) ==
  /\ prune[s].pc = "retained"
  /\ prune' = [prune EXCEPT ![s] = [@ EXCEPT !.pc = "scan",
                            !.retained = NewestOf(GoodIds, Keep)]]
  /\ UNCHANGED <<status, disk, dump, verify, history, mishaps>>

\* Mutant: the age rule alone is enough, as schema.prisma has it.
AgeRuleAlone(s) ==
  {i \in Ids : IF AgeRule THEN i \in Aged ELSE i \notin prune[s].retained}

\* Both rules must prune the row; the newest good row seen is skipped.
Prunable(s) ==
  {i \in Ids \ prune[s].retained : (AgeRule => i \in Aged) /\ i # prune[s].newest}

\* Mutant: only FAILED and MISSING rows are scanned.
ScanFailedOnly(s) ==
  /\ prune[s].pc = "scan"
  /\ prune' = [prune EXCEPT ![s] = [@ EXCEPT !.pc = "next",
                 !.todo = {i \in Prunable(s) : status[i] \in Scannable \ Good}]]
  /\ UNCHANGED <<status, disk, dump, verify, history, mishaps>>

SweepScan(s) ==
  /\ prune[s].pc = "scan"
  /\ prune' = [prune EXCEPT ![s] = [@ EXCEPT !.pc = "next",
                 !.todo = {i \in Prunable(s) : status[i] \in Scannable}]]
  /\ UNCHANGED <<status, disk, dump, verify, history, mishaps>>

SweepTake(s) ==
  LET todo == prune[s].todo
  IN  /\ prune[s].pc = "next" /\ todo # {}
      /\ \E i \in NewestOf(todo, 1) :
           prune' = [prune EXCEPT ![s] = [@ EXCEPT !.pc = "floor", !.cur = i,
                                  !.todo = todo \ {i}]]
      /\ UNCHANGED <<status, disk, dump, verify, history, mishaps>>

SweepEnd(s) ==
  /\ prune[s].pc = "next" /\ prune[s].todo = {}
  /\ prune' = [prune EXCEPT ![s] = NoPrune]
  /\ UNCHANGED <<status, disk, dump, verify, history, mishaps>>

-----------------------------------------------------------------------------
(* deleteBackupService, and the steps it has in common with the sweep       *)

\* Mutant: the status guard is missing.
DeleteAnyStatus(d, i) ==
  /\ prune[d].pc = "idle"
  /\ status[i] # "NONE"
  /\ prune' = [prune EXCEPT ![d] = [@ EXCEPT !.pc = "restores", !.cur = i]]
  /\ UNCHANGED <<status, disk, dump, verify, history, mishaps>>

DeleteRead(d, i) ==
  /\ prune[d].pc = "idle"
  /\ status[i] \notin InFlight \cup {"NONE"}
  /\ prune' = [prune EXCEPT ![d] = [@ EXCEPT !.pc = "restores", !.cur = i]]
  /\ UNCHANGED <<status, disk, dump, verify, history, mishaps>>

\* Mutant: the candidate itself is counted.
FloorCountsItself(p) ==
  /\ prune[p].pc = "floor"
  /\ \/ GoodIds = {} /\ PruneNext(p)
     \/ /\ GoodIds # {}
        /\ PruneGoto(p, IF p \in Sweepers THEN "restores" ELSE "unlink")
  /\ UNCHANGED <<status, disk, dump, verify, history, mishaps>>

\* backup.count({ id: { not: row.id }, status in COMPLETED, VERIFIED }) >= 1
Floor(p) ==
  LET remaining == GoodIds \ {prune[p].cur}
  IN  /\ prune[p].pc = "floor"
      /\ \/ remaining = {} /\ PruneNext(p)
         \/ /\ remaining # {}
            /\ PruneGoto(p, IF p \in Sweepers THEN "restores" ELSE "unlink")
      /\ UNCHANGED <<status, disk, dump, verify, history, mishaps>>

\* An operation in flight names this row as source or as safety backup.  (The
\* second query of the sweep, for SAFETY rows, asks for less than the first.)
RestoreGuard(p) ==
  /\ prune[p].pc = "restores"
  /\ \/ /\ prune[p].cur \in Referenced
        /\ PruneNext(p) /\ lost' = lost \ {p}
     \/ /\ prune[p].cur \notin Referenced
        /\ PruneGoto(p, IF p \in Sweepers THEN "fresh" ELSE "floor")
        /\ UNCHANGED lost
  /\ UNCHANGED <<status, disk, dump, verify, doubt, revived, mishaps>>

SweepFresh(s) ==
  /\ prune[s].pc = "fresh"
  /\ \/ /\ status[prune[s].cur] \in InFlight \cup {"DELETED"}
        /\ PruneNext(s) /\ lost' = lost \ {s}
     \/ /\ status[prune[s].cur] \notin InFlight \cup {"DELETED"}
        /\ PruneGoto(s, "unlink")
        /\ UNCHANGED lost
  /\ UNCHANGED <<status, disk, dump, verify, doubt, revived, mishaps>>

\* Mutant: the files are not removed.
UnlinkSkipped(p) ==
  /\ prune[p].pc = "unlink"
  /\ PruneGoto(p, "mark")
  /\ UNCHANGED <<status, disk, dump, verify, history, mishaps>>

\* deletePublishedBackup swallows every error of fs.unlink: both files may stay, or one,
\* which no longer makes a pair.
Unlink(p) ==
  /\ prune[p].pc = "unlink"
  /\ \/ disk' = disk \ {prune[p].cur} /\ UNCHANGED doubt
     \/ /\ UnlinkMayFail
        /\ disk' \in {disk, disk \ {prune[p].cur}}
        /\ doubt' = doubt \cup {prune[p].cur}
  /\ PruneGoto(p, "mark")
  /\ UNCHANGED <<status, dump, verify, revived, lost, mishaps>>

MarkDeleted(p) ==
  /\ prune[p].pc = "mark"
  /\ status' = [status EXCEPT ![prune[p].cur] = "DELETED"]
  /\ lost' = Losing(prune[p].cur) \ {p}
  /\ PruneNext(p)
  /\ UNCHANGED <<disk, dump, verify, doubt, revived, mishaps>>

\* The update is rejected after the unlinks: the sweep notes "db-update" and takes the
\* next row, the administrator is answered INTERNAL.  Neither tries again.
MarkFails(p) ==
  /\ prune[p].pc = "mark"
  /\ mishaps < MaxMishaps /\ mishaps' = mishaps + 1
  /\ PruneNext(p)
  /\ doubt' = doubt \cup {prune[p].cur} /\ lost' = lost \ {p}
  /\ UNCHANGED <<status, disk, dump, verify, revived>>

\* The process dies; what it committed stays.
PrunerCrash(p) ==
  /\ mishaps < MaxMishaps /\ prune[p].pc # "idle"
  /\ mishaps' = mishaps + 1
  /\ prune' = [prune EXCEPT ![p] = NoPrune]
  /\ doubt' = IF prune[p].pc = "mark" THEN doubt \cup {prune[p].cur} ELSE doubt
  /\ lost' = lost \ {p}
  /\ UNCHANGED <<status, disk, dump, verify, revived>>

-----------------------------------------------------------------------------
(* runBackupDump, alone or as the safety dump of a restore                  *)

DumpGoto(w, phase) == dump' = [dump EXCEPT ![w].pc = phase]

\* The next row takes the least unused id: startedAt defaults to now().
DumpInsert(w, i) ==
  /\ dump[w].pc = IF w \in Dumpers THEN "idle" ELSE "insert"
  /\ status[i] = "NONE" /\ \A j \in Ids : j < i => status[j] # "NONE"
  /\ status' = [status EXCEPT ![i] = "PENDING"]
  /\ dump' = [dump EXCEPT ![w] = [@ EXCEPT !.pc = "start", !.id = i]]
  /\ UNCHANGED <<disk, prune, verify, history, mishaps>>

DumpStart(w) ==
  /\ dump[w].pc = "start"
  /\ SetStatus(dump[w].id, "RUNNING")
  /\ DumpGoto(w, "publish")
  /\ UNCHANGED <<disk, prune, verify, doubt, revived, mishaps>>

\* promoteFromStaging
DumpPublish(w) ==
  /\ dump[w].pc = "publish"
  /\ disk' = disk \cup {dump[w].id}
  /\ DumpGoto(w, "complete")
  /\ UNCHANGED <<status, prune, verify, history, mishaps>>

DumpComplete(w) ==
  /\ dump[w].pc = "complete"
  /\ SetStatus(dump[w].id, "COMPLETED")
  /\ dump' = IF w \in Dumpers THEN [dump EXCEPT ![w] = NoDump]
                              ELSE [dump EXCEPT ![w].pc = "verify"]
  /\ UNCHANGED <<disk, prune, verify, doubt, revived, mishaps>>

\* The row goes FAILED and the pair, if already published, is removed.
DumpFail(w) ==
  /\ dump[w].pc \in {"start", "publish", "complete"}
  /\ SetStatus(dump[w].id, "FAILED")
  /\ disk' = disk \ {dump[w].id}
  /\ dump' = [dump EXCEPT ![w] = NoDump]
  /\ UNCHANGED <<prune, verify, doubt, revived, mishaps>>

-----------------------------------------------------------------------------
(* verifyBackup with persist: what it has read of the files, and of the row,*)
(* is written to the row at the end, by id                                  *)

Check(c, i) ==
  /\ verify[c].pc = "idle"
  /\ \E f \in Verdicts(i) :
       verify' = [verify EXCEPT ![c] = [pc |-> "persist", id |-> i, found |-> f]]
  /\ doubt' = IF status[i] \in InFlight THEN doubt \cup {i} ELSE doubt

\* persistResult looks at the row's existence, not at its status; its update may be
\* rejected, and nobody is told.
Persist(c) ==
  LET i == verify[c].id
      found == verify[c].found
  IN  /\ verify[c].pc = "persist"
      /\ \/ /\ SetStatus(i, found)
            /\ doubt' = IF status[i] = "DELETED" THEN doubt \cup {i} ELSE doubt
            /\ revived' = IF status[i] \notin Good /\ found \in Good
                            THEN revived \cup {i} ELSE revived
            /\ UNCHANGED mishaps
         \/ /\ mishaps < MaxMishaps /\ mishaps' = mishaps + 1
            /\ UNCHANGED <<status, history>>
      /\ verify' = [verify EXCEPT ![c] = NoVerify]

-----------------------------------------------------------------------------
(* runRestore, until the source backup has been read for the last time      *)

\* Concurrency guards and verification of the source, persist: false.
RestorePreflight(r, i) ==
  /\ dump[r].pc = "idle"
  /\ \A j \in Ids : status[j] \notin InFlight
  /\ \A q \in Restorers : ~InOperation(q)
  /\ i \in disk
  /\ dump' = [dump EXCEPT ![r] = [@ EXCEPT !.pc = "open", !.source = i]]
  /\ UNCHANGED <<status, disk, prune, verify, history, mishaps>>

RestoreOpen(r) ==
  /\ dump[r].pc = "open"
  /\ DumpGoto(r, "race")
  /\ UNCHANGED <<status, disk, prune, verify, history, mishaps>>

\* Any other operation in flight makes this one abort.
RestoreRaceCheck(r) ==
  LET raced == \E q \in Restorers \ {r} : InOperation(q)
  IN  /\ dump[r].pc = "race"
      /\ \/ raced /\ dump' = [dump EXCEPT ![r] = NoDump]
         \/ ~raced /\ DumpGoto(r, "insert")
      /\ UNCHANGED <<status, disk, prune, verify, history, mishaps>>

\* The safety dump is verified like any other backup, and one that is not VERIFIED ends
\* the restore.
SafetyRead(r) ==
  /\ dump[r].pc = "verify"
  /\ Check(r, dump[r].id)
  /\ UNCHANGED <<status, disk, prune, dump, revived, lost, mishaps>>

SafetyPersist(r) ==
  /\ Persist(r)
  /\ \/ verify[r].found = "VERIFIED" /\ DumpGoto(r, "record")
     \/ verify[r].found # "VERIFIED" /\ dump' = [dump EXCEPT ![r] = NoDump]
  /\ UNCHANGED <<disk, prune>>

\* Only now does the operation name its safety backup.
SafetyRecord(r) ==
  /\ dump[r].pc = "record"
  /\ dump' = [dump EXCEPT ![r] = [@ EXCEPT !.pc = "decode", !.recorded = dump[r].id]]
  /\ UNCHANGED <<status, disk, prune, verify, history, mishaps>>

\* decryptAndDecode reads the source; without it the operation is FAILED.
\* What follows is RestoreApply of BackupScheduler.
RestoreDecode(r) ==
  /\ dump[r].pc = "decode"
  /\ dump' = [dump EXCEPT ![r] = NoDump]
  /\ UNCHANGED <<status, disk, prune, verify, history, mishaps>>

-----------------------------------------------------------------------------
(* verifyBackupService                                                      *)

VerifyRead(v, i) ==
  /\ status[i] # "NONE"
  /\ Check(v, i)
  /\ UNCHANGED <<status, disk, prune, dump, revived, lost, mishaps>>

\* Mutant: the code of the result is stored instead of the status.
PersistCode(v) ==
  /\ verify[v].pc = "persist"
  /\ status' = [status EXCEPT ![verify[v].id] =
                  IF verify[v].found = "MISSING" THEN "STORAGE_MISSING"
                                                 ELSE verify[v].found]
  /\ verify' = [verify EXCEPT ![v] = NoVerify]
  /\ UNCHANGED <<disk, prune, dump, history, mishaps>>

VerifyPersist(v) ==
  /\ Persist(v)
  /\ UNCHANGED <<disk, prune, dump>>

-----------------------------------------------------------------------------
SweepStep(s) ==
  \/ SweepAnchor(s) \/ SweepRetained(s) \/ SweepScan(s) \/ SweepTake(s)
  \/ SweepEnd(s) \/ SweepFresh(s)

PruneStep(p) ==
  Floor(p) \/ RestoreGuard(p) \/ Unlink(p) \/ MarkDeleted(p)

WriteStep(w) ==
  \/ \E i \in Ids : DumpInsert(w, i)
  \/ DumpStart(w) \/ DumpPublish(w) \/ DumpComplete(w) \/ DumpFail(w)

RestoreStep(r) ==
  \/ \E i \in Ids : RestorePreflight(r, i)
  \/ RestoreOpen(r) \/ RestoreRaceCheck(r)
  \/ SafetyRead(r) \/ SafetyPersist(r) \/ SafetyRecord(r) \/ RestoreDecode(r)

Next ==
  \/ \E s \in Sweepers : SweepStep(s)
  \/ \E d \in Deleters, i \in Ids : DeleteRead(d, i)
  \/ \E p \in Pruners : PruneStep(p) \/ MarkFails(p) \/ PrunerCrash(p)
  \/ \E w \in Writers : WriteStep(w)
  \/ \E r \in Restorers : RestoreStep(r)
  \/ \E v \in Verifiers : VerifyPersist(v) \/ (\E i \in Ids : VerifyRead(v, i))

Spec == Init /\ [][Next]_vars

\* The scheduler keeps starting sweeps and a started call runs to its end.
Fairness ==
  /\ \A s \in Sweepers : WF_vars(SweepStep(s) \/ PruneStep(s))
  /\ \A w \in Writers : WF_vars(WriteStep(w))

FairSpec == Spec /\ Fairness

-----------------------------------------------------------------------------
(* Properties                                                               *)

PrunePhases == {"idle", "retained", "scan", "next", "floor", "restores",
                "fresh", "unlink", "mark"}
DumpPhases  == {"idle", "open"} \cup OpPhases

PruneLocals ==
  [pc : PrunePhases, newest : Ids \cup {None}, retained : SUBSET Ids,
   todo : SUBSET Ids, cur : Ids \cup {None}]
DumpLocals ==
  [pc : DumpPhases, id : Ids \cup {None}, source : Ids \cup {None},
   recorded : Ids \cup {None}]
VerifyLocals ==
  [pc : {"idle", "persist"}, id : Ids \cup {None},
   found : {"VERIFIED", "FAILED", "MISSING"}]

\* Every row status is one of the schema's, every local has its type.
TypeOK ==
  /\ status \in [Ids -> Settled \cup InFlight]
  /\ disk \subseteq Ids
  /\ prune \in [Pruners -> PruneLocals]
  /\ dump \in [Writers -> DumpLocals]
  /\ verify \in [Checkers -> VerifyLocals]
  /\ doubt \subseteq Ids /\ revived \subseteq Ids /\ lost \subseteq Pruners
  /\ mishaps \in 0..MaxMishaps

\* "retention MUST NEVER leave zero valid backups" (schema.prisma, on retentionCount) is
\* what the count promises, several statements before the deletion.  What the code keeps
\* of it: the call that deletes the last good row has counted another one, and that one
\* went while it was on its way, to another pruner or to a verdict.
LastGoodKept ==
  [][\A p \in Pruners :
       prune[p].pc = "mark" /\ prune'[p].pc # "mark" /\ GoodIds # {} /\ GoodIds' = {}
         => p \in lost]_vars

\* "newest known-good" (README, Retention): a sweep deletes no good row that is the
\* newest, whichever dumps completed since it looked, unless the row was not good when
\* it looked or the newest row it saw then has been taken away.
NewestGoodKept ==
  [][\A s \in Sweepers :
       LET cur == prune[s].cur
           newest == prune[s].newest
       IN  prune[s].pc = "mark" /\ prune'[s].pc # "mark" /\ status[cur] \in Good
             => \/ \E i \in GoodIds : i > cur
                \/ cur \in revived
                \/ newest \in Ids \ GoodIds]_vars

\* A row that says COMPLETED or VERIFIED has its files, except in the instant
\* between the unlinks and the update of the call that is deleting it.  In doubt are the
\* rows whose deletion was cut short or rejected there, and those that got a verdict
\* from before the end of their dump or after their deletion.
GoodHasFiles ==
  \A i \in GoodIds \ (disk \cup doubt) :
    \E p \in Pruners : prune[p].pc = "mark" /\ prune[p].cur = i

\* "DELETED // retention cleanup removed the on-disk file" (schema.prisma): no
\* deleted row has its files on disk, but for those in doubt.
DeletedHasNoFiles == \A i \in disk \ doubt : status[i] # "DELETED"

\* "never delete an in-progress dump" (deleteBackupService): the row a pruner
\* works on, read several statements ago, is not PENDING or RUNNING by the time
\* its files are removed, unless it was verified before its dump had ended.
InFlightUntouched ==
  \A p \in Pruners :
    prune[p].pc \in {"unlink", "mark"} /\ prune[p].cur \notin doubt
      => status[prune[p].cur] \notin InFlight

\* Sweeps do their job: as long as they keep running, every row that both
\* rules condemn is eventually deleted, unless it is the last good one.
CondemnedRows ==
  {i \in Ids : /\ status[i] \in Scannable
               /\ i \notin NewestOf(GoodIds, Keep)
               /\ AgeRule => i \in Aged
               /\ GoodIds \ {i} # {}}
PruneConverges == <>[](CondemnedRows = {})
=============================================================================
