-------------------------- MODULE BackupScheduler --------------------------
(***************************************************************************)
(* The backup scheduler of lib/backup/scheduler.ts together with the two   *)
(* other callers that start a dump: createBackupService (lib/backup/       *)
(* service.ts) and runRestore, which takes a safety dump (lib/backup/      *)
(* restore.ts).                                                            *)
(*                                                                         *)
(* Every tick is a process that runs the steps of runSchedulerTick one     *)
(* database statement at a time: the watchdog, the preflight transaction   *)
(* under the advisory lock, and then, with the lock already released, the  *)
(* dump, its verification, retention and the final update of the singleton *)
(* BackupSchedule row.                                                     *)
(*                                                                         *)
(* BackupSchedule, Backup and RestoreOperation are in the dumps too: what  *)
(* a restore applies replaces the rows this module is about.               *)
(*                                                                         *)
(* Time is the age of schedule.lastRunAt, counted in clock units (hours)   *)
(* and saturated at AgeCap, so that behaviours stay infinite while the     *)
(* state space stays finite.  A clock unit is long compared with a single- *)
(* row statement and short compared with a dump: the clock moves only      *)
(* while no process is inside one of its short phases (ShortPhases).       *)
(***************************************************************************)
EXTENDS Naturals, FiniteSets

CONSTANTS
  Ticks,        \* concurrent invocations of runSchedulerTick
  Creators,     \* concurrent invocations of createBackupService
  Restorers,    \* concurrent invocations of runRestore
  Modes,        \* the modes a tick may be called in: a subset of {"cron", "manual"}
  Frequency,    \* schedule.frequencyHours, in clock units
  StuckTimeout, \* STUCK_RUNNING_TIMEOUT_MS, in clock units
  AgeCap,       \* saturation bound of the age of lastRunAt
  MaxMishaps,   \* how many crashes and rejected statements a behaviour may contain
  MaxApplied,   \* how many restores may be applied in a behaviour
  Never,        \* lastRunAt is null
  Free          \* nobody holds the advisory lock

ASSUME TimingAssumption ==
  /\ Frequency \in Nat \ {0} /\ StuckTimeout \in Nat /\ AgeCap \in Nat
  /\ Frequency <= AgeCap /\ StuckTimeout < AgeCap
  /\ Never \notin 0..AgeCap

ASSUME ProcessAssumption ==
  /\ Ticks \cap Creators = {} /\ Ticks \cap Restorers = {}
  /\ Creators \cap Restorers = {}
  /\ Free \notin Ticks
  /\ Modes \subseteq {"cron", "manual"}
  /\ MaxMishaps \in Nat /\ MaxApplied \in Nat

VARIABLES
  schedule,   \* BackupSchedule: [enabled, age of lastRunAt, lastRunOutcome]
  lock,       \* pg_try_advisory_xact_lock(SCHEDULER_LOCK_KEY)
  pc,         \* the statement each process executes next
  job,        \* locals of each tick: how it was called, due, outcome
  row,        \* status of the Backup row each process has created
  stranded,   \* some Backup row is PENDING/RUNNING and its process is gone
  strandedOp, \* some RestoreOperation is in flight and its process is gone
  orphaned,   \* history: lastRunOutcome is the marker of a tick that stopped after it,
              \* or is as a restore has brought it back
  applied,    \* restores applied so far, and
  mishaps     \* crashes and rejections so far (both bound the behaviours, not part
              \* of the code)

vars ==
  <<schedule, lock, pc, job, row, stranded, strandedOp, orphaned, applied, mishaps>>

Procs == Ticks \cup Creators \cup Restorers

Outcomes == {"null", "RUNNING", "OK", "FAILED_DUMP", "FAILED_VERIFY",
             "SKIPPED_DISABLED", "FAILED_INTERNAL_STUCK"}

TxPhases   == {"decide", "backups", "restores", "mark"}
RunPhases  == {"insert", "start", "dump", "verify", "retain", "finish"}
OpPhases   == {"race", "insert", "start", "dump", "verify", "apply", "close"}
AllPhases  == {"idle", "watch", "lock", "checked"} \cup TxPhases
                \cup RunPhases \cup OpPhases
ShortPhases == {"watch", "lock", "race", "insert", "start"} \cup TxPhases

InFlight == {"PENDING", "RUNNING"}
RowStates == InFlight \cup {"none", "COMPLETED", "VERIFIED", "FAILED"}

\* Mutant: the query forgets RUNNING rows.
ActiveBackupPendingOnly == stranded \/ \E p \in Procs : row[p] = "PENDING"

\* backup.findFirst({ status in PENDING, RUNNING })
ActiveBackup == stranded \/ \E p \in Procs : row[p] \in InFlight

\* restoreOperation.findFirst({ status in INITIATED, PREFLIGHT, RUNNING })
RestoreOf(r) == pc[r] \in OpPhases
ActiveRestore == strandedOp \/ \E r \in Restorers : RestoreOf(r)

\* Mutant: a schedule that never ran is not due.
IsDueIgnoresNever(m) ==
  m = "manual" \/ (schedule.age # Never /\ schedule.age >= Frequency)

IsDue(m) == \/ m = "manual"
            \/ schedule.age = Never
            \/ schedule.age >= Frequency

Goto(p, phase) == pc' = [pc EXCEPT ![p] = phase]

NewJob == [mode |-> "cron", due |-> FALSE, verdict |-> "OK"]

\* The invocation returns: its locals are gone, and the Backup row it made, now
\* settled, no longer matters here.
Return(p) ==
  /\ Goto(p, "idle")
  /\ job' = IF p \in Ticks THEN [job EXCEPT ![p] = NewJob] ELSE job
  /\ row' = [row EXCEPT ![p] = "none"]

Init ==
  /\ schedule \in [enabled : BOOLEAN, age : {Never}, outcome : {"null"}]
  /\ lock = Free
  /\ pc = [p \in Procs |-> "idle"]
  /\ job = [t \in Ticks |-> NewJob]
  /\ row = [p \in Procs |-> "none"]
  /\ stranded = FALSE
  /\ strandedOp = FALSE /\ orphaned = FALSE
  /\ applied = 0 /\ mishaps = 0

faults == <<stranded, strandedOp, orphaned, applied, mishaps>>

\* backupSchedule.update({ lastRunOutcome, ... })
WriteOutcome(changed) ==
  /\ schedule' = changed
  /\ orphaned' = FALSE
  /\ UNCHANGED <<stranded, strandedOp, applied, mishaps>>

-----------------------------------------------------------------------------
(* runSchedulerTick: watchdog and preflight transaction                     *)

Begin(t, m) ==
  /\ pc[t] = "idle"
  /\ job' = [job EXCEPT ![t].mode = m]
  /\ Goto(t, "watch")
  /\ UNCHANGED <<schedule, lock, row, faults>>

\* Mutant: the outcome written is that of a Backup row.
WatchdogWritesFailed(t) ==
  /\ pc[t] = "watch"
  /\ IF schedule.outcome = "RUNNING" /\ schedule.age > StuckTimeout
       THEN WriteOutcome([schedule EXCEPT !.outcome = "FAILED"])
       ELSE UNCHANGED <<schedule, faults>>
  /\ Goto(t, "lock")
  /\ UNCHANGED <<lock, job, row>>

\* Mutant: the watchdog compares with the wrong outcome.
WatchdogMisses(t) ==
  /\ pc[t] = "watch"
  /\ Goto(t, "lock")
  /\ UNCHANGED <<schedule, lock, job, row, faults>>

\* A RUNNING schedule whose lastRunAt is older than the timeout is abandoned.
Watchdog(t) ==
  /\ pc[t] = "watch"
  /\ IF schedule.outcome = "RUNNING" /\ schedule.age > StuckTimeout
       THEN WriteOutcome([schedule EXCEPT !.outcome = "FAILED_INTERNAL_STUCK"])
       ELSE UNCHANGED <<schedule, faults>>
  /\ Goto(t, "lock")
  /\ UNCHANGED <<lock, job, row>>

\* Mutant: the result of pg_try_advisory_xact_lock is ignored.
LockIgnored(t) ==
  /\ pc[t] = "lock"
  /\ lock' = t
  /\ Goto(t, "decide")
  /\ UNCHANGED <<schedule, job, row, faults>>

LockAcquired(t) ==
  /\ pc[t] = "lock" /\ lock = Free
  /\ lock' = t
  /\ Goto(t, "decide")
  /\ UNCHANGED <<schedule, job, row, faults>>

\* pg_try_advisory_xact_lock does not wait: SKIPPED_LOCKED.
LockRefused(t) ==
  /\ pc[t] = "lock" /\ lock # Free
  /\ Return(t)
  /\ UNCHANGED <<schedule, lock, faults>>

\* The transaction ends without a write and takes the lock with it.
Skip(t) == lock' = Free /\ Return(t) /\ UNCHANGED <<schedule, faults>>

SkipDisabled(t) ==
  /\ pc[t] = "decide"
  /\ ~schedule.enabled /\ job[t].mode # "manual"
  /\ WriteOutcome([schedule EXCEPT !.age = 0, !.outcome = "SKIPPED_DISABLED"])
  /\ lock' = Free
  /\ Return(t)

ReadSchedule(t) ==
  /\ pc[t] = "decide"
  /\ schedule.enabled \/ job[t].mode = "manual"
  /\ job' = [job EXCEPT ![t].due = IsDue(job[t].mode)]
  /\ Goto(t, "backups")
  /\ UNCHANGED <<schedule, lock, row, faults>>

CheckBackups(t) ==
  /\ pc[t] = "backups"
  /\ \/ ActiveBackup /\ Skip(t)                              \* SKIPPED_ACTIVE
     \/ /\ ~ActiveBackup
        /\ Goto(t, "restores")
        /\ UNCHANGED <<schedule, lock, job, row, faults>>

CheckRestores(t) ==
  /\ pc[t] = "restores"
  /\ \/ (ActiveRestore \/ ~job[t].due) /\ Skip(t)   \* SKIPPED_ACTIVE, _NOT_DUE
     \/ /\ ~ActiveRestore /\ job[t].due
        /\ Goto(t, "mark")
        /\ UNCHANGED <<schedule, lock, job, row, faults>>

MarkRunning(t) ==
  /\ pc[t] = "mark"
  /\ WriteOutcome([schedule EXCEPT !.age = 0, !.outcome = "RUNNING"])
  /\ lock' = Free
  /\ Goto(t, "insert")
  /\ UNCHANGED <<job, row>>

-----------------------------------------------------------------------------
(* The other two callers of runBackupDump                                   *)

\* createBackupService looks for an active backup, and only for that.
CreatorCheck(c) ==
  /\ pc[c] = "idle" /\ ~ActiveBackup
  /\ Goto(c, "insert")
  /\ UNCHANGED <<schedule, lock, job, row, faults>>

RestoreCheck(r) ==
  /\ pc[r] = "idle" /\ ~ActiveBackup /\ ~ActiveRestore
  /\ Goto(r, "checked")
  /\ UNCHANGED <<schedule, lock, job, row, faults>>

\* The source has been verified, which may take as long as a dump: it is no
\* good, or the RestoreOperation row appears in state PREFLIGHT.
RestoreOpen(r) ==
  /\ pc[r] = "checked"
  /\ Goto(r, "idle") \/ Goto(r, "race")
  /\ UNCHANGED <<schedule, lock, job, row, faults>>

\* After the insert, any other operation in flight makes this one abort.
RestoreRaceCheck(r) ==
  LET raced == strandedOp \/ \E q \in Restorers \ {r} : RestoreOf(q)
  IN  /\ pc[r] = "race"
      /\ \/ raced /\ Return(r)
         \/ ~raced /\ Goto(r, "insert") /\ UNCHANGED <<job, row>>
      /\ UNCHANGED <<schedule, lock, faults>>

\* The schedule as a dump has it: lastRunAt is null as long as nothing was recorded.
Dumped == {s \in [enabled : BOOLEAN, age : 0..AgeCap \cup {Never}, outcome : Outcomes] :
             s.age = Never <=> s.outcome = "null"}

\* applyRestoreDestructively: the schedule is that of the source; of the Backup rows
\* only the source's and the safety dump's are kept, those of running dumps are gone,
\* and those that were in flight when the source was taken are back without a process,
\* as are the RestoreOperation rows (a safety dump holds the one it was taken for).
\* It takes long: like the clock, it does not move while a process is in a short phase.
RestoreApply(r) ==
  /\ pc[r] = "apply" /\ \A q \in Procs : pc[q] \notin ShortPhases
  /\ applied < MaxApplied /\ applied' = applied + 1
  /\ schedule' \in Dumped /\ orphaned' = TRUE
  /\ row' = [q \in Procs |-> IF q = r THEN row[r] ELSE "none"]
  /\ stranded' \in BOOLEAN /\ strandedOp' \in BOOLEAN
  /\ Goto(r, "close")
  /\ UNCHANGED <<lock, job, mishaps>>

\* The source cannot be decoded or applied, or the operation is COMPLETED (or FAILED,
\* when the rows are not as many as expected).
RestoreClose(r) ==
  /\ pc[r] \in {"apply", "close"}
  /\ Return(r)
  /\ UNCHANGED <<schedule, lock, faults>>

-----------------------------------------------------------------------------
(* runBackupDump, for whoever called it, and what the caller does next      *)

DumpInsert(p) ==
  /\ pc[p] = "insert"
  /\ row' = [row EXCEPT ![p] = "PENDING"]
  /\ Goto(p, "start")
  /\ UNCHANGED <<schedule, lock, job, faults>>

DumpStart(p) ==
  /\ pc[p] = "start" /\ row[p] = "PENDING"
  /\ row' = [row EXCEPT ![p] = "RUNNING"]
  /\ Goto(p, "dump")
  /\ UNCHANGED <<schedule, lock, job, faults>>

DumpComplete(p) ==
  /\ pc[p] = "dump" /\ row[p] = "RUNNING"
  /\ \/ p \in Creators /\ Return(p)
     \/ /\ p \notin Creators
        /\ row' = [row EXCEPT ![p] = "COMPLETED"]
        /\ Goto(p, "verify")
        /\ UNCHANGED job
  /\ UNCHANGED <<schedule, lock, faults>>

\* A step failed: the row, if a restore has left it, is FAILED, and a tick still has
\* its outcome to record.
Failed(p, v) ==
  \/ p \notin Ticks /\ Return(p)
  \/ /\ p \in Ticks
     /\ row' = [row EXCEPT ![p] = IF @ = "none" THEN @ ELSE "FAILED"]
     /\ job' = [job EXCEPT ![p].verdict = v]
     /\ Goto(p, "finish")

DumpFail(p) ==
  /\ pc[p] \in {"start", "dump"}
  /\ Failed(p, "FAILED_DUMP")
  /\ UNCHANGED <<schedule, lock, faults>>

VerifyDump(p) ==
  /\ pc[p] = "verify"
  /\ \/ /\ row[p] = "COMPLETED"
        /\ row' = [row EXCEPT ![p] = "VERIFIED"]
        /\ Goto(p, IF p \in Ticks THEN "retain" ELSE "apply")
        /\ UNCHANGED job
     \/ Failed(p, "FAILED_VERIFY")
  /\ UNCHANGED <<schedule, lock, faults>>

\* Replication hand-off and runRetention: neither writes BackupSchedule.
Retain(t) ==
  /\ pc[t] = "retain"
  /\ Goto(t, "finish")
  /\ UNCHANGED <<schedule, lock, job, row, faults>>

\* Mutant: the final update is that of a run that went well.
FinishWhenOK(t) ==
  /\ pc[t] = "finish"
  /\ IF job[t].verdict = "OK" THEN WriteOutcome([schedule EXCEPT !.outcome = "OK"])
                             ELSE UNCHANGED <<schedule, faults>>
  /\ Return(t)
  /\ UNCHANGED lock

\* The final update is unconditional.
Finish(t) ==
  /\ pc[t] = "finish"
  /\ WriteOutcome([schedule EXCEPT !.outcome = job[t].verdict])
  /\ Return(t)
  /\ UNCHANGED lock

-----------------------------------------------------------------------------
(* Environment                                                              *)

\* updateScheduleService: the admin turns the schedule on or off.
ToggleSchedule ==
  /\ schedule' = [schedule EXCEPT !.enabled = ~@]
  /\ UNCHANGED <<lock, pc, job, row, faults>>

Advance ==
  /\ \A p \in Procs : pc[p] \notin ShortPhases
  /\ schedule.age # Never /\ schedule.age < AgeCap
  /\ schedule' = [schedule EXCEPT !.age = @ + 1]
  /\ UNCHANGED <<lock, pc, job, row, faults>>

\* The call ends where it is: Postgres rolls its transaction back and frees the lock;
\* the rows it had committed stay as they are, a RUNNING marker among them.
Stop(p) ==
  /\ mishaps < MaxMishaps /\ mishaps' = mishaps + 1
  /\ lock' = IF lock = p THEN Free ELSE lock
  /\ orphaned' = (orphaned \/ (p \in Ticks /\ pc[p] \in RunPhases
                                          /\ schedule.outcome = "RUNNING"))
  /\ Return(p)
  /\ UNCHANGED <<schedule, applied>>

\* The process dies.
Crash(p) ==
  /\ pc[p] # "idle"
  /\ stranded' = (stranded \/ row[p] \in InFlight)
  /\ strandedOp' = (strandedOp \/ (p \in Restorers /\ RestoreOf(p)))
  /\ Stop(p)

\* A statement rejects where nothing but the last catch of the tick waits for it: the
\* preflight transaction, a query of runRetention or the final update.  The answer is
\* INTERNAL and nothing is written.
Rejected(t) ==
  /\ pc[t] \in {"lock", "retain", "finish"} \cup TxPhases
  /\ Stop(t)
  /\ UNCHANGED <<stranded, strandedOp>>

\* The watchdog's update rejects: "Non-fatal", the tick goes on.
WatchdogFails(t) ==
  /\ pc[t] = "watch"
  /\ mishaps < MaxMishaps /\ mishaps' = mishaps + 1
  /\ Goto(t, "lock")
  /\ UNCHANGED <<schedule, lock, job, row, stranded, strandedOp, orphaned, applied>>

-----------------------------------------------------------------------------
TickStep(t) ==
  \/ Watchdog(t) \/ LockAcquired(t) \/ LockRefused(t) \/ SkipDisabled(t)
  \/ ReadSchedule(t) \/ CheckBackups(t) \/ CheckRestores(t) \/ MarkRunning(t)
  \/ Retain(t) \/ Finish(t)

DumpStep(p) ==
  DumpInsert(p) \/ DumpStart(p) \/ DumpComplete(p) \/ DumpFail(p) \/ VerifyDump(p)

RestoreStep(r) ==
  RestoreOpen(r) \/ RestoreRaceCheck(r) \/ RestoreApply(r) \/ RestoreClose(r)

Next ==
  \/ \E t \in Ticks : TickStep(t) \/ (\E m \in Modes : Begin(t, m))
  \/ \E t \in Ticks : Rejected(t) \/ WatchdogFails(t)
  \/ \E c \in Creators : CreatorCheck(c)
  \/ \E r \in Restorers : RestoreCheck(r) \/ RestoreStep(r)
  \/ \E p \in Procs : DumpStep(p) \/ Crash(p)
  \/ ToggleSchedule
  \/ Advance

Spec == Init /\ [][Next]_vars

\* The cron keeps calling the tick endpoint, a started process keeps running,
\* and time passes: the ticks, minutes apart, do not overlap in their short statements
\* for ever.  Nothing forces an admin to act, a process to crash or a statement to reject.
Fairness ==
  /\ \A t \in Ticks : WF_vars(TickStep(t)) /\ WF_vars(Begin(t, "cron"))
  /\ \A r \in Restorers : WF_vars(RestoreStep(r))
  /\ \A p \in Procs : WF_vars(DumpStep(p))
  /\ []<>(\A p \in Procs : pc[p] \notin ShortPhases) /\ SF_vars(Advance)

FairSpec == Spec /\ Fairness

-----------------------------------------------------------------------------
(* Properties                                                               *)

\* Every variable stays within the values the code and the schema allow.
TypeOK ==
  /\ schedule \in [enabled : BOOLEAN, age : 0..AgeCap \cup {Never},
                   outcome : Outcomes]
  /\ lock \in Ticks \cup {Free}
  /\ pc \in [Procs -> AllPhases]
  /\ job \in [Ticks -> [mode : {"cron", "manual"}, due : BOOLEAN,
                       verdict : {"OK", "FAILED_DUMP", "FAILED_VERIFY"}]]
  /\ row \in [Procs -> RowStates]
  /\ stranded \in BOOLEAN /\ strandedOp \in BOOLEAN /\ orphaned \in BOOLEAN
  /\ applied \in 0..MaxApplied /\ mishaps \in 0..MaxMishaps

\* A cron tick that commits the RUNNING marker does so at least one frequency
\* after the last run, judged at the commit and not at the read: the check and
\* the marker are separated by three queries, and only the advisory lock keeps
\* a second tick from marking in between (scheduler.ts, step 1 and step 4 of
\* the header).
CronAdmitted(t) ==
  job[t].mode = "cron" /\ pc[t] = "mark" /\ pc'[t] = "insert"
CronSpacing ==
  [][\A t \in Ticks : CronAdmitted(t) =>
        schedule.age = Never \/ schedule.age >= Frequency]_vars

\* A schedule that reads RUNNING has a live tick that is going to overwrite it, unless
\* a tick stopped after its marker (its process died, or the update that was to replace
\* the marker or the retention before it was rejected) or a restore brought the marker
\* back: no interleaving of overlapping ticks, and no failed dump or verification,
\* leaves it behind, which is what the dashboard and the watchdog rely on.
RunningMeansLive ==
  schedule.outcome = "RUNNING" =>
    orphaned \/ \E t \in Ticks : pc[t] \in RunPhases

Cron == {t \in Ticks : job[t].mode = "cron"}

\* "does NOT create a duplicate backup" and "any subsequent tick sees SKIPPED_NOT_DUE"
\* (scheduler.ts header): of the cron ticks, one at most has been admitted or has a
\* Backup row in flight, whatever the administrators do.
OneDumpInFlight ==
  \A s, t \in {u \in Cron : pc[u] = "insert" \/ row[u] \in InFlight} : s = t

\* A schedule that is due gets its backup: while it stays enabled, some tick
\* marks it RUNNING, whatever the ticks already under way are doing (that the
\* ticks are invoked at all is the external cron's responsibility), unless a
\* backup or a restore of an administrator is under way.
Due == schedule.enabled /\ (schedule.age = Never \/ schedule.age >= Frequency)
Served == schedule.outcome = "RUNNING" \/ ~schedule.enabled
Manual == \E p \in Creators \cup Restorers : pc[p] # "idle"

\* A process that dies is no excuse unless it left a row in flight, nor is a restore
\* unless it brought one back.
DueIsServed == Due ~> Served \/ Manual \/ stranded \/ strandedOp

\* "so a crashed dump never blocks scheduling forever" (scheduler.ts, comment
\* on STUCK_RUNNING_TIMEOUT_MS): the same promise, with no such excuse.
CrashNeverBlocksScheduling == Due ~> Served

\* The watchdog's own part of that promise: a RUNNING marker left by a dead process,
\* or by a tick whose final update was rejected, is eventually replaced.
StuckMarkerCleared ==
  (schedule.outcome = "RUNNING") ~> (schedule.outcome # "RUNNING")
=============================================================================
