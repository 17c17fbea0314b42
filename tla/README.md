# A formal model of the BIS backend

BIS is a Next.js and PostgreSQL application that runs a professional event:
public registration, attendee accounts and badges, room registrations, check-in
at the entrance, an administration panel, an outgoing e-mail queue, and a backup
subsystem that can restore the whole database. This directory holds TLA+ modules
of the parts in which several callers, cron ticks or crashes meet, the TLC
configurations that check them, and theorems about them that TLAPS checks.

Paths below are relative to the repository. `f.ts:10-20` means lines 10 to 20.

## 1. Inventory

Nearly every operation is a server action, a route handler or a cron endpoint of
a stateless web process; the shared state is the database, a directory of backup
files, and two remote services (Google Drive, an SMTP provider). Interleaving is
therefore at the granularity of one SQL statement or remote call, or of one
transaction where the code opens one (READ COMMITTED unless it says otherwise). A
process may die between any two statements.

| component | state | operations | correct when |
|---|---|---|---|
| backup scheduler, `lib/backup/scheduler.ts` | the singleton `BackupSchedule` row, a transaction-scoped advisory lock | `runSchedulerTick`, cron or manual | runs are spaced, a due run happens, the RUNNING marker is never left behind |
| backup service, `lib/backup/service.ts` | none of its own | create, delete, verify, update the schedule, run retention, restore | refuses what conflicts with a dump or a restore, keeps one good backup |
| dump, `lib/backup/dump.ts` | one `Backup` row, a staged then published pair of files | `runBackupDump` | the row tells the truth about the pair |
| verification, `lib/backup/verify.ts` | `Backup.status` | `verifyBackup`, with or without persisting | records what is on disk |
| retention, `lib/backup/retention.ts` | `Backup.status`, files | `runRetention` | converges, and never takes the last or the newest good backup |
| restore, `lib/backup/restore.ts` | `RestoreOperation` rows, and then every table | `runRestore` | one at a time, and what it brings back does not stop the others |
| storage, `lib/backup/storage.ts` | the backup directory | stage, promote, delete a pair | both files or neither |
| off-site replication, `lib/backup/replication/` | `BackupReplication` rows, Drive files and resumable sessions | enqueue, worker tick, upload, retry, reconcile | each verified backup is replicated or given up, no artifact is uploaded twice |
| e-mail queue, `lib/email/` | `EmailMessage` rows | queue, kick, claim, send, retry, clean-up, test message | a message is sent or given up once, no kick is lost |
| room registration, `lib/room-registration/` | `RoomRegistration` and `ParticipantAccess` rows | `initRegistration`, `cancel`, entitlement sync | the entitlement follows the registration, the administrators' rows are theirs |
| room access administration, `app/admin/.../access-actions.ts` | `ParticipantAccess` rows | grant, revoke | administrators' decisions stand |
| badges, `lib/badge/service.ts` | `BadgeCredential` rows, the text code | issue, regenerate, revoke, cut over, expire | one ACTIVE credential at most, revocation is durable |
| check-in, `lib/admin/*-validator.ts`, `app/admin/.../check-in/actions.ts` | `Participant.checkedInAt`, `CheckIn` rows | scan by QR, text code or ticket | one first entry per participant, nobody enters who was barred throughout |
| attendee accounts, `lib/account/`, `app/actions/account.ts` | accounts, sessions, verification and reset tokens, the registration | sign-up, log-in, verify, report, reset, register, delete | a token acts once, a badge or a claim needs a proven address |
| administration, `lib/admin/rbac.ts`, `app/actions/*-user.ts`, `update-role-permissions.ts`, `settings/badges/actions.ts` | staff accounts, permission overrides | create, update, delete, edit a role, say which roles may regenerate badges | somebody still manages, audit rows are exact |
| rate limits, `lib/rate-limit.ts` | in-process buckets | record, isBlocked, reset | bounded memory |
| pages, components, mobile application, scripts | none that is shared | rendering, HTTP client, maintenance | |

How they meet:

* a tick calls the dump, the verification, replication's enqueue and retention in
  turn; the advisory lock is held only until its preflight transaction commits;
* `createBackupService` and `runRestore` start dumps too, without that lock. They
  look for rows in flight first, each with its own queries;
* retention, deletion, dump, restore and verification all act on `Backup.status`
  and the files without any lock in common;
* a restore replaces every table: the schedule and the rows in flight under the
  ticks (`RestoreApply` of `BackupScheduler`), the replication rows under the
  workers (`Wipe` of `Replication`);
* replication works from verified backups, which retention may prune meanwhile
  (`Pruned`);
* registration and the administrators' actions write the same `ParticipantAccess`
  row. The unique indexes, and the row locks of the open transactions, are all
  that orders them;
* the validators read badges, registrations and access rows while all three are
  being changed; `CheckIn` extends `BadgeCredential` for that reason;
* registering to the event, verifying an address and visiting the badge page all
  end in `ensureActiveBadge`, which issues the badge (`Issue` of
  `AttendeeAccount`, `IssueStart` of `BadgeCredential`);
* the role editor and the badge settings write the same `RolePermissionOverride`
  rows, the badge settings those of `badge.regenerate`; only the editor takes the
  advisory lock.

What is hard: check-then-act across statements, decisions taken from a row read
earlier, crashes between a file or a remote call and the row that records it,
leases that run out while their holder works on, outcomes written by id over
whatever the row has become, single-use tokens opened twice, and liveness in the
presence of guards that skip. `PROJECT.json` lists each of these hazards at its
line, with the properties aimed at it.

## 2. Modules

| module | what it is |
|---|---|
| `BackupScheduler` (`MC...`, `...Proofs`) | the tick, statement by statement, against the two other callers of the dump and a restore that replaces its rows |
| `BackupRetention` (`MC...`, `...Proofs`) | the catalogue: rows, files, and every process that changes either |
| `Replication` (`...Proofs`) | worker ticks, uploads to Drive, retry and reconcile |
| `Mailbox` | abstract specification: messages worked on under leases |
| `EmailQueue` (`...Proofs`) | the outbox as the code does it; it implements `Mailbox` |
| `RoomEntitlement` | abstract specification: registration and entitlement of one participant to one room, as atomic operations |
| `RoomAccess` (`MC...`, `...Proofs`) | the same as the code does it: transactions, retries, unlocked upserts. It implements `RoomEntitlement` |
| `BadgeCredential` | the credentials and text code of one participant |
| `CheckIn` (`MC...`, `...Proofs`) | scans of that participant, composed with `BadgeCredential` |
| `AttendeeAccount` (`MC...`, `...Proofs`) | the account, sessions, tokens and registration of one address |
| `RoleAuthority` (`MC...`, `...Proofs`) | staff accounts and the role editor |

`MC` modules hold model values and symmetry, `Proofs` modules theorems. A
definition marked `Mutant:` is a plausible bug. It is not part of any
specification; it replaces the definition after it to see that a property would
notice.

### BackupScheduler

`schedule` is the `BackupSchedule` row, with `lastRunAt` as its age. `lock` is
the advisory lock, `pc` the statement each process executes next, `job` a tick's
locals, `row` the status of the `Backup` row the process is creating. `stranded`
and `strandedOp` say that some in-flight `Backup` or `RestoreOperation` row has
no process any more; how many there are makes no difference to any guard. `orphaned`
says that the schedule's outcome is the marker of a tick that stopped after it, or the
one a restore brought back.

| actions | code |
|---|---|
| `Begin`, `Watchdog` | entry of `runSchedulerTick` and the stuck-run update, `scheduler.ts:131-186` |
| `LockAcquired`, `LockRefused` | `pg_try_advisory_xact_lock`, 189-214 |
| `SkipDisabled`, `ReadSchedule`, `CheckBackups`, `CheckRestores`, `MarkRunning` | the statements of the preflight transaction, 216-369; the lock goes with the commit |
| `DumpInsert`, `DumpStart`, `DumpComplete`, `DumpFail`, `VerifyDump` | `runBackupDump` and the verification, for whichever caller |
| `Retain`, `Finish` | enqueue, retention and the unconditional last update, 405-537 |
| `Rejected` | the last catch, 538-557: a statement of the preflight transaction, a query of `runRetention` or the last update rejects, and the tick ends where it is, its marker included |
| `WatchdogFails` | the watchdog's own catch, 181-186: the tick goes on |
| `CreatorCheck` | the guard of `createBackupService` |
| `RestoreCheck`, `RestoreOpen`, `RestoreRaceCheck` | the guards of `runRestore`, its operation row, the re-check |
| `RestoreApply`, `RestoreClose` | the transaction that replaces every table, and the end of the operation |
| `ToggleSchedule`, `Advance`, `Crash` | an administrator, the clock, the death of a process |

`Crash` and `Rejected` end a call in the same way (`Stop`) and share one budget with
`WatchdogFails` (`MaxMishaps`). What cannot reject is not in `Rejected`: `audit()`
(`lib/admin/audit.ts`) and the two enqueue calls catch their own errors, and a dump or a
verification that throws is `DumpFail` or a verdict.

The clock (`Advance`) and `RestoreApply` move only while nobody is inside a run of
single-row statements (`ShortPhases`); dumps, verifications, retention and the
decoding of a source may take any number of hours. This says that the milliseconds
of a preflight transaction are short beside `frequencyHours` and beside a restore,
and nothing else. A restore brings back any schedule a dump could hold, and any
rows in flight; of the rows of running dumps it keeps its own safety dump's. The
restored schedule is enumerated, not read from a modelled dump.

Left out: the content of a dump, audit rows, permissions, the schedule's other
fields.

### BackupRetention

`status` is `Backup.status` by id, ids being ranked by `startedAt`; `disk` the
ids whose pair of files is published; `prune`, `dump` and `verify` the locals of
each running call. Three variables are history, read by properties only. `doubt` has
the rows whose unlinks or update failed or were cut short, whose dump was verified
before its end, or that got a verdict once DELETED; `revived` the rows that a verdict
has made good; `lost` the pruners past their count one good row of which has gone since.

| actions | code |
|---|---|
| `SweepAnchor`, `SweepRetained`, `SweepScan` | the three reads before the loop, `retention.ts:122-211` |
| `SweepTake`, `Floor`, `RestoreGuard`, `SweepFresh`, `SweepEnd` | the loop's five guards, 213-321 |
| `DeleteRead`, `RestoreGuard`, `Floor` | the guards of `deleteBackupService`, in its order, `service.ts:558-625` |
| `Unlink`, `MarkDeleted`, `MarkFails` | `deletePublishedBackup`, which may leave both files or one; then the update of the row, which may be rejected: the sweep notes "db-update" and goes on (`retention.ts:349-373`), the administrator is answered INTERNAL (`service.ts:639`) |
| `DumpInsert` ... `DumpFail` | `runBackupDump` |
| `RestorePreflight`, `RestoreOpen`, `RestoreRaceCheck`, `SafetyRead`, `SafetyPersist`, `SafetyRecord`, `RestoreDecode` | `runRestore` up to the last read of its source: guards and verification, operation row, re-check, safety backup and its verification, decoding |
| `VerifyRead`, `VerifyPersist` | `verifyBackup` with `persist`: the files are read (`Check`), and later the verdict is written by id over whatever the row has become (`Persist`). Anything may happen in between, and the update may be rejected, which nobody is told |
| `PrunerCrash` | a pruner dies between two statements |

The catalogue starts in any state the code leaves behind: any settled statuses,
files exactly where a row is good. The age of a row is whether it is in `Aged`;
rows created later are young.

Left out: the orphan scan (it reports only), the integrity stages of the
verification (`Verdicts` chooses an outcome: MISSING exactly when the pair is not
there, and FAILED at any time where `VerifyMayFail`), crashes of dumpers (they only
strand a row, which `BackupScheduler` covers), and what a restore makes of the
catalogue once its source has been decoded. When one of the two files goes and the
other does not, the pair is broken: `disk` loses the row, which is in doubt.

### Replication

`row` is the `BackupReplication` row of each backup, `backup` the status of the
backup, `drive` the remote files by artifact and copy, `session` Drive's resumable
sessions, `job`, `admin` and `audit` the locals of workers, of a retry by hand and
of reconcile. `overlapped` remembers that a worker claimed a backup while another
was at work on it.

| actions | code |
|---|---|
| `Enqueue`, `Tick` | the hand-off, and the claim transaction with self-heal and watchdog (`Maintained`), `worker.ts:161-486` |
| `Load`, `Start`, `ListBin`, `Resume`, `OpenSession`, `PersistSession`, `PutBin`, `ListMan`, `PutMan`, `MarkVerifying`, `Complete` | `replicateBackupToDrive`, `uploader.ts:245-922` |
| `Refused`, `DriveFails`, `DepsFail` | `recordFailure` with the back-off, for each class of error |
| `RetryRead`, `RetryWrite` | `retryReplicationService`, `service.ts:224-285` |
| `ReconcileRead`, `ReconcileWrite` | `reconcileReplicationRemote`; probes and write are one step |
| `Verified`, `Pruned`, `Wipe` | what the scheduler, retention and a restore do to the tables |
| `Crash`, `Elapse`, `SessionExpires`, `Trash` | deaths, time, Drive and its users |

A Drive call answers, fails, or does its work and loses the answer. `files.list`
is taken to be consistent. Left out: chunk offsets within a session, the order of
`createdAt` among claimable rows, verify-remote, the bootstrap of the folder, the
restore from Drive, the pruning of remote files (there is none).

### Mailbox and EmailQueue

`row` is each `EmailMessage` (status, attempts, whether it is due), `run` the
worker of each server process: its phase, the claimed batch with the attempts read,
`followUpScheduled`. `test` is the administrators' test message, which is sent
without a claim. Three variables are history: `delivered`, `doubt` (a claim ran
out under its holder, an answer or an update was lost, a process died, a row was
changed by somebody else while a sender had it) and `owed` (rows a process was
kicked for).

| actions | code |
|---|---|
| `Queue`, `Compose` | `queueTemplatedEmail`, the composer of the registrant's page |
| `Cron`, `Claim`, `NothingDue`, `TickFails` | the tick route, `processQueue` and `claimBatch`, `worker.ts:58-191` |
| `SendNothing`, `SendDelivered`, `SendFails`, `AnswerLost`, `Mark` | `sendOutboxRow` and the update of the row, `service.ts:41-199` |
| `Throws`, `Crash` | a statement fails, the process dies |
| `Cleanup`, `MarkEmailSent`, `TestCreate`, `TestSettle` | everything else that writes a row |
| `Elapse` | the grace period or the back-off ends |

`Mailbox` has messages, holders and `shared` messages: `Post`, `Lease`, `Settle`,
`Lapse`, `Abandon`, `Declare`. The refinement mapping takes the holders of a
message to be the processes that have it in their batch, and `doubt` for `shared`.
Left out: rendering, the configuration and its modes (a send that delivers nothing
is `SendNothing`), audit rows; queueing twice with one idempotency key changes
nothing and is a stutter.

`Claim` is the transaction of `claimBatch` in one step. It locks the rows it reads, with
SKIP LOCKED, and puts them off before it commits; a second claim skips a row whether it
is locked or put off, so claims that commit are claims one after the other. The
difference is a claim that is rolled back after another tick has skipped its rows, which
are then due as before. If that tick found no other row, both end in `TickFails`; that it
should find some, and send those only, is not modelled.

### RoomEntitlement and RoomAccess

`reg` and `access` are the two rows of one participant and one room. An access
row is its `source`, whether access is granted, and `by`: who wrote it last, that
is, whether `grantedById` (or, revoked, `revokedById`) is an administrator.
Pairs do not interact, so one pair is enough.

In `RoomAccess` a request runs in a transaction: it reads what is committed, its
own writes stay in `tx[r]` until `Commit`, and it holds the rows it has written.
A statement that would write a held row waits, and then sees the row as
committed (READ COMMITTED). A unique violation rolls back and retries, at most
`MAX_RETRIES = 2` times (`Conflict`). The administrators' actions read in one
statement and upsert in another, outside any transaction. `Rollback` is every
way a call fails, crashes included.

`RoomEntitlement` has the operations `Register`, `Cancel` and `Decide` (grant or
revoke), each in one step, and says what each may do to the access row in view of
who wrote it last. The refinement mapping is the identity on the committed rows.

### BadgeCredential and CheckIn

`creds` are the credentials of one participant in the order of `issuedAt`, `code`
the text code (every code is a new number, so that an old one can be recognised),
`deadCodes` those whose badge was revoked, replaced or has expired, `op` the
operations under way, `lock` who holds the participant's row
(`lockParticipant`). Each operation is a transaction in two steps, what it reads
under the lock and what it writes (`IssueCheck`/`IssueWrite`,
`RegenerateCheck`/`Regenerate`, `CutoverCheck`/`Cutover`); `Revoke` is one.
`AdminView`, `AssignCode` and `Expire` complete them.

In `CheckIn`, `scan` is each scanner's request: `Present` (the input is read),
`Find`, `Gates`, `Claim` (the conditional update of `checkedInAt`) and `Record`
(the `CheckIn` row), by QR or text code at the entrance or the room, or by ticket at
the entrance. `bars` are the reasons for a refusal that have been there ever since
the scan began; they shrink as things change, and an entry recorded while one is
left is `wrongly`. `UpdateRegistrant` and `SetAccess` change the registration and
the access rows.

Left out: token signatures and rate limits; a participant deleted during a scan;
the wrong gate of a ticket; the status EXPIRED of a credential (an expired one is
ACTIVE with a past date until it is verified). An entrance without an access row
lets everybody in, as in the code.

### AttendeeAccount

One address at one event: `users` (accounts opened with it, one after the other),
`sessions`, `links` (verification), `resets`, `row` (the `Participant` row and its
badge) and the locals of each request.

| actions | code |
|---|---|
| `RegisterAccount`, `LoginRead`, `LoginStamp`, `OpenSession`, `EndSession` | sign-up, log-in, log-out, `account.ts`, `auth.ts` |
| `VerifyRead`, `VerifyClaim`, `Verify`, `ClaimParticipant`, `ResendVerification` | `consumeEmailVerificationToken` and its follow-up |
| `RegisterToEvent`, `Ensure`, `BadgeCheck`, `Issue` | the visitor's registration (the professional forms go the same way), `participant.ts:42-148` |
| `Neutralize` | "ce n'est pas moi", one transaction |
| `RequestReset`, `ResetClaim`, `ResetWork`, `ResetCommit` | `password-reset.ts`; the transaction is split where a log-in can run in between |
| `DeleteStart`, `DeleteFind`, `DeleteOwn`, `DeleteUnclaimed`, `DeleteCommit` | account deletion: the account, its own participants, the unclaimed ones of its address (`delete-account.ts:40`, `46`, `65`, each of which sees what is committed by then), and the deletes |
| `DeleteRegistrant`, `RegenerateBadge` | an administrator deletes the registration, or replaces its badge, be there one or not (`badge/service.ts:249-337`); a revocation is modelled in `BadgeCredential` |
| `Fail`, `LinkAges`, `ResetAges` | failures and crashes, expiry; the five minutes in which a verification may be reported are not timed, `Neutralize` comes at any time after it |

Left out: throttling, cookies, several events, the change of address (no code
reaches it). Two resets that wait for each other end in `Fail`.

### RoleAuthority

`staff` are the `AdminUser` rows, `override` the `RolePermissionOverride` rows,
`lock` the editor's advisory lock, `req` the requests and what each has read.

| actions | code |
|---|---|
| `StartUser`, `CreateUser`, `UpdateUser`, `DeleteUser` | the session check, then the act, `create-user.ts`, `update-user.ts`, `delete-user.ts` |
| `StartEdit`, `EditCheck`, `EditCommit` | `updateRolePermissions`: the session check and the hierarchy; the reads under the lock; the override and its audit row |
| `StartBadges`, `BadgesCheck`, `BadgesRead`, `BadgesCommit` | `setBadgeRegenerateRolesAction`, `settings/badges/actions.ts:36-105`: the session check, then its two reads and its upserts in a transaction that takes no lock |
| `Fail` | a statement fails, the process dies |

Four roles and four permissions stand for ten and fifty: one role above all, one
whose baseline lacks the permissions reserved to it, one that has none of the four of its
own, one with a forbidden grant; one permission is edited at a time. `before` is what the
editor writes into its audit row: the override if there is one, else what the role has
(`update-role-permissions.ts:171`). Two pieces of history: `crossed`, of an edit, has the
roles whose `badge.regenerate` the badge settings have written since the edit read it;
`deposed` says that a request has acted whose account or role would, at that moment, not
have let it start. It is computed from the rows (`Founded`): overlapping another request
is not enough. Sessions, passwords and the uniqueness of addresses are left out.

## 3. Runs

| run | instance | shows |
|---|---|---|
| `Scheduler_mixed` | two ticks (cron or manual), a creator, a restorer that may apply once, one crash or rejected statement | `TypeOK`; `RunningMeansLive`: no interleaving leaves the RUNNING marker without a tick that will overwrite it, unless its tick stopped or a restore brought it back; `OneDumpInFlight`: two cron ticks never dump at once; `CronSpacing`: cron runs are one frequency apart when they commit |
| `Scheduler_cron` | two cron ticks, a restorer that may apply once, one crash or rejected statement, fair | `DueIsServed`: a due, enabled schedule is served, unless a row is left or brought back in flight; `StuckMarkerCleared`: a marker nobody owns is replaced |
| `Scheduler_wedged` | one cron tick, one crash, fair | violates `CrashNeverBlocksScheduling`, see 6 |
| `Retention_sweep` | a sweeper, two dumpers, five rows of which three old, age rule on, fair | `NewestGoodKept`, and `PruneConverges`: condemned rows go and stay gone |
| `Retention_crowd` | sweeper, deleter, restorer and verifier at once, failing unlinks, one crash or rejected update, two rows | `LastGoodKept`: who takes the last good row has counted another, which went meanwhile; `GoodHasFiles`, `DeletedHasNoFiles`, `InFlightUntouched`: rows and files agree, and a dump under way is left alone, but for the rows in doubt; `TypeOK` |
| `Replication_upload` | two workers, one backup, two attempts, one rare event of any kind, fair | `CompletedWasUploaded`, `DuplicateNeedsOverlap`, `NoFalseAlarm`, `FinishedStays`: what the row says is true, and uploads are idempotent unless workers overlap; `Settles`: every verified backup ends replicated or FAILED; `TypeOK` |
| `Email_queue` | two processes, two messages, batches of two, two attempts, one rare event, fair | `OnceUnlessInDoubt`, `KickNotLost`, `Settles`, and `Implements`: the refinement of `Mailbox` |
| `RoomAccess_race` | three requests, two administrators, symmetry | `TypeOK`, `Entitled`, `RetriesSuffice`, `AdminRowsKept`, and `Implements`: the refinement |
| `CheckIn_badge` | two scanners, two operators, two credentials, two scans, one change | `OneActive`, `SystemIssuesFirst`, `OneFirstEntry`, `NeverWrongly` |
| `Account_life` | two requests, an administrator who replaces badges and deletes registrations; one account, two links, two resets, one registration, three passwords | `SessionsCurrent`, `LinksActOnce`, `BadgeNeedsProof`, `ClaimNeedsProof`, `ErasesItsOwn` |
| `Roles_edit` | two administrators, three requests, four starts | `Administrable`, `AuditExact`, `AuthorityHeld` |
| `Roles_unlocked` | two administrators, two requests, four starts | violates `AuditAlwaysExact`, see 6 |

**Bounds.** Every bound is a constant. Two ticks suffice for every race between
ticks: the lock admits one at a time, so a third behaves as the second.
`Frequency` is 2 units, `StuckTimeout` 3 (2 in `Scheduler_cron`) and ages saturate
at `AgeCap`, one more, so that "just due", "late", "at the timeout" and "stuck" are
told apart. One crash or rejected statement and one applied restore, in either order,
meet every phase of every process. The catalogue of five rows contains the newest good
row, a retained row, a condemned one and room for two dumps; that of two rows is where
the floor matters, for a sweep and an administrator can each count the other's candidate,
or the row of a safety dump, or one whose verdict is about to change. `RetentionCount` is
1, its minimum. `VerifyMayFail` is FALSE in both runs for their size: verdicts are then
VERIFIED or MISSING as the pair is there or not; the proofs cover both values. In
`Replication` and `EmailQueue` the rare events
share one budget, `MaxRare = 1`, spent anywhere in a behaviour that otherwise
includes failing calls and lapsed leases without limit; two attempts show a retry
and the last one, two copies are what a duplicate takes. Two credentials are a badge
and its replacement, two scans a first entry and the race for it; one change can
fall anywhere in either scan. One account with two links and two resets contains the
older and the newer of each; a second account of the address would begin as the
first did, after its deletion. Four starts are an account created, its role given a
permission, and two requests that overlap; with three requests an edit can run while
an account is changed and the badge settings are. Three requests in
`RoomAccess_race` are what it takes to make one meet two unique violations, the worst
case for `RetriesSuffice`. Symmetry is used only in runs without a liveness property.

**Deadlock** is checked except in `CheckIn_badge`, `Account_life`, `Roles_edit` and
`Roles_unlocked`, where behaviours stop when their budgets of scans, credentials, tokens
or starts are used up.

**Fairness.** Liveness is checked in `Scheduler_cron`, `Retention_sweep`,
`Replication_upload` and `Email_queue`. Weak fairness of a process's own steps says
that the runtime keeps executing a request that has started and that Postgres and
the remote services answer it, be it with an error; no statement of these calls
waits for another process, the advisory locks being a `try`. Weak fairness of
`Begin(t, "cron")`, `Tick` and `Cron` says that the external cron keeps calling the
three tick endpoints. Weak fairness of the two `Elapse` actions says that grace
periods, back-offs and timeouts end. In the scheduler, where the clock waits for
the short phases, strong fairness of `Advance` says that time passes, together with
one more conjunct: again and again nobody is in a short phase, because ticks come
minutes apart and last milliseconds there. Crashes, lost answers, administrators and
restores are never fair. `Retention_sweep` is fair to sweepers, which every
successful tick starts again, and to dumps under way.

## 4. Proofs

TLAPS proves the following for every value of the constants, from the named
assumptions of the modules: `TimingAssumption` and `ProcessAssumption`
(`BackupScheduler`), `CatalogueAssumption` and `ActorAssumption`
(`BackupRetention`), `ReplicationAssumption`, `EmailAssumption`, `BadgeAssumption` and
`CheckInAssumption`, `AccountAssumption`, `RoleAssumption`. `RoomAccess` needs none.
They say that bounds are numbers (of attempts, batches, passwords and registrations, at
least one), that the kinds of process are disjoint, and that the null values are not
values. What `NewestKept` supposes besides stands before its arrow; no theorem has as a
hypothesis that a call runs alone, that nothing crashes or that a statement succeeds.

| theorem | statement |
|---|---|
| `BackupSchedulerProofs!TypeCorrect` | `Spec => []TypeOK` |
| `CronTicksSpaced` | `Spec => CronSpacing` |
| `MarkerHasOwner` | `Spec => []RunningMeansLive` |
| `OneCronDump` | `Spec => []OneDumpInFlight` |
| `BackupRetentionProofs!TypeCorrect` | `Spec => []TypeOK` |
| `FloorKept` | `Spec => LastGoodKept` |
| `FilesKept` | `Spec => []GoodHasFiles` |
| `NewestKept` | `AgeRule /\ IsFiniteSet(Ids) => (Spec => NewestGoodKept)` |
| `InFlightSafe` | `Spec => []InFlightUntouched` |
| `DeletedIsGone` | `Spec => []DeletedHasNoFiles` |
| `ReplicationProofs!TypeCorrect` | `Spec => []TypeOK` |
| `UploadedCorrect` | `Spec => []CompletedWasUploaded` |
| `DuplicateCorrect` | `Spec => []DuplicateNeedsOverlap` |
| `AlarmCorrect` | `Spec => []NoFalseAlarm` |
| `FinishedCorrect` | `Spec => FinishedStays` |
| `EmailQueueProofs!TypeCorrect` | `Spec => []TypeOK` |
| `OnceCorrect` | `Spec => []OnceUnlessInDoubt` |
| `KickCorrect` | `Spec => []KickNotLost` |
| `Refinement` | `Spec => Implements` |
| `ExclusiveCorrect` | `Spec => []Leases!Exclusive` |
| `FinalCorrect` | outside doubt, SENT and FAILED stay |
| `RoomAccessProofs!TypeCorrect` | `Spec => []TypeOK` |
| `EntitlementFollows` | `Spec => []Entitled` |
| `RetriesAreEnough` | `Spec => []RetriesSuffice` |
| `AdminRowsStay` | `Spec => AdminRowsKept` |
| `Refinement` | `Spec => Implements` |
| `CheckInProofs!TypeCorrect` | types of badges and scans |
| `OneCredential` | `Spec => []OneActive` |
| `RevocationIsDurable` | `Spec => []SystemIssuesFirst` |
| `FirstEntryOnce` | `Spec => []OneFirstEntry` |
| `EntriesAreRightful` | `Spec => []NeverWrongly` |
| `AttendeeAccountProofs!TypeCorrect` | `Spec => []TypeOK` |
| `SessionsCorrect` | `Spec => []SessionsCurrent` |
| `LinksCorrect` | `Spec => []LinksActOnce` |
| `BadgeCorrect` | `Spec => []BadgeNeedsProof` |
| `ClaimCorrect` | `Spec => ClaimNeedsProof` |
| `ErasesCorrect` | `Spec => ErasesItsOwn` |
| `RoleAuthorityProofs!TypeCorrect` | `Spec => []TypeOK` |
| `AuditIsExact` | `Spec => []AuditExact` |
| `AuthorityLasts` | `Spec => []AuthorityHeld` |
| `OverridesStaySound` | `Spec => []OverridesSound` |
| `SomebodyManages` | `Spec => []Administrable` |

* *CronTicksSpaced.* The due check and the marker are separate statements. The
  invariant `SpacingInv` says that a tick is inside its transaction exactly when
  it holds the lock (`LockHeld`), and that what it found due is still due
  (`DueStays`). The second rests on the first: `lastRunAt` is reset only by a
  tick inside its transaction, and elsewhere it only ages (`AgeKept`), but for a
  restore, which finds nobody inside (`NobodyDecided`).
* *MarkerHasOwner.* `MarkerInv` adds that a tick is never in a phase of another
  kind of process, so that a tick past its marker reaches `Finish` unless it stops, by
  a crash or a rejected statement, which `orphaned` records.
* *OneCronDump.* Between the commit of the marker and the insertion of the `Backup`
  row nothing but the marker keeps another cron tick away: `lastRunAt` is still now
  (`JustMarked`), so by `DueStays` no other is due (`NoneDue`). From the insertion on
  the row does, also for a tick that looked before: it was not due then
  (`SeenIdle`). A manual tick, which is always due, is covered by neither, which is
  why the property is about cron ticks.
* *The catalogue.* Any number of sweeps, deletions, dumps, restores and verifications
  at once; pruners die, updates are rejected, unlinks fail, and so may verifications.
  * *InFlightSafe.* `ClaimInv` says that the row of a dump under way is in flight and
    its alone (`WriterRows`), and that a pruner's candidate, or a row that awaits a
    verdict, is one whose dump is over (`CandidateRows`, `VerdictRows`). Such a row
    goes back in flight only if it was verified before that end, and is then in doubt
    (`Over`). So the status a pruner read several statements ago still tells a dump
    under way from one that is over.
  * *DeletedIsGone, FilesKept.* `ErasedInv`: outside doubt, the candidate of a pruner
    past the unlinks has no files, and neither has a deleted row, because no dump can
    publish them again. `FilesInv`: a good row, or one about to be called VERIFIED, has
    its files, is between the unlinks and the update of a pruner, or is in doubt
    (`Held`, `VerdictHeld`).
  * *FloorKept.* `FloorInv`: past its count, a pruner that is not in `lost` has another
    good row, although it may no longer be the one counted. Every step that takes a good
    row away puts the pruners past their count into `lost`, the one that is taking it
    excepted. So the floor fails only the way the count lets it: another pruner, or a
    verdict, takes the row that was counted while the call is on its way.
  * *NewestKept.* No row as old as the age rule requires turns good later except by a
    verdict (`FreshInv`, `revived`), because dumps and restores write to younger rows.
    So whatever the sweep deletes afterwards is older than the newest good row it saw
    at its first statement, or revived (`Anchored`); and if that row is still good, what
    it deletes is not the newest. Without the age rule it fails, see section 6. That the
    catalogue is finite is what makes `NewestOf` the newest: `Cardinality` means nothing
    elsewhere.
* *Replication.* One inductive invariant, `IInv`. What a worker relies on, phase by
  phase (`Knows`): the copies it names were made of its backup, the row it writes to
  is not younger than the one it read, and, while it has its backup to itself, nothing
  live is on the drive where it is about to put a file. `RowInv` says the same of
  what rows name, `AuditInv` of what a reconcile looks for; `Single` that a backup
  without overlap has one worker and one live file for an artifact. `SessionInv` is
  what a lost answer needs: a session is used for one backup only, so the file found
  at the end of a resumed one is that backup's. `FinishedCorrect` follows from the
  last conjunct of `Knows`: a worker that is alone on its backup has not finished it.
* *EmailQueue.* `IInv` says that a message that is not in doubt has one worker at most,
  that it is not due while claimed, and that it has been delivered only if its row
  says so or that worker is about to (`Clean`); a row that does not exist has neither
  worker nor doubt (`Fresh`); a row that is owed a tick has never been claimed
  (`Owed`). `OnceCorrect` and `KickCorrect` are consequences. The refinement has one
  case per action of the queue (a claim of a batch is one `Lease` of all of it, a crash
  `Abandon`, a lapse of the grace period `Lapse`), and rests on `Clean` where `Mailbox`
  demands that a message has one holder. `ExclusiveCorrect` and `FinalCorrect` say in
  the words of the queue what the refinement is good for.
* *AttendeeAccount.* `IInv` has four parts. `SessionsInv`: a log-in under way knows the
  current password or has been overtaken (`LoginOK`), and while a reset waits to
  commit, every session it does not burn was opened late (`HeldOK`). `LinksInv`: a
  verification past its claim has used its link up, and shares it with no other.
  `ResetsInv`: a reset under way has a link no other request has and no other reset
  has made stale, which needs that a link issued after the other began is newer than
  what that one burns (`ResetOK`). `RowInv`: a request about to claim the registration
  or to issue a badge found what still holds, or works on a row that is no longer there
  (`RowOK`); a deletion that has listed the unclaimed registrations is that of a proven
  address, and what it has listed it may erase, whoever claims the row between the two
  listings (`ListingOK`).
* *RoomAccess.* One inductive invariant, `IInv`, serves all five: at most one
  open transaction has written the registration row (`OneWriter`); what a
  transaction has written, and may rely on, phase by phase (`Pending`); what it is
  about to commit settles the entitlement (`Settles`); and each retry is paid for
  by a row that now exists for good (`Counted`), of which there are two. The
  refinement is one case per action: `Commit` is `Register` or `Cancel`,
  `AdminUpsert` is `Decide`, the rest stutter.
* *OneCredential, RevocationIsDurable.* `BadgeInv`: only the latest credential may
  be ACTIVE (`LatestActive`), the system issues none but the first
  (`SystemIssuesFirst`), what an operation found under the participant's lock still
  stands while it holds it (`FoundStands`), and a code whose badge is gone is dead
  (`CodeDies`).
* *FirstEntryOnce, EntriesAreRightful.* `ScanInv` adds that one scanner at most
  has won the conditional update and not recorded it yet, and that no first entry is
  recorded until it has (`OneWinner`), and that the reasons for a refusal there since
  a scan began still stand, and are none once the scan is past the statement that
  looks for them (`BarsInv`). A badge operation only ages
  credentials (`Ages`): it never makes a bad one good, which is all the scans need
  of it. So the two halves are proved apart.
* *RoleAuthority.* `EditInv`: a request is in its edit exactly when it holds the
  advisory lock (`LockHeld`), its role may edit that of its subject, and the badge
  settings tick no role that may not have the permission (`AllAdmitted`); what an edit
  read under the lock is still so, unless the badge settings have since written that
  very override (`ReadsStand`, `Crossed`); and no override is about a super
  administrator or grants what the role may not have (`OverridesSound`).
  *SomebodyManages* rests on what `Founded` says of a request when it acts: its account
  is active and manages the others. It is not the one the act removes, for nobody
  deletes, demotes or deactivates the own account, nor edits the own role. So it
  remains, however many requests have acted since this one was authorised; an act
  of which `Founded` is false is what `deposed` records.

Every invariant and every action property that a passing run checks is thus a theorem.
Only model-checked are the liveness properties: `DueIsServed`, `StuckMarkerCleared`,
`PruneConverges` and the two `Settles`; TLAPS proves nothing under fairness. The
inductive invariants were checked with TLC before they were proved, on the instances of
the runs.

## 5. Not modelled, and why

* Serialisation, encryption, manifests, path safety, rendering, templates, token
  signatures: functions of bytes, for which unit tests are the right tool.
* Report-only operations, listings, analytics, searches, orphan scan: they change
  nothing.
* Rate limits and log-in throttling: counters in one process, updated between two
  awaits; their keys and windows are all there is to them.
* The rest of Drive: verify-remote, the bootstrap of the folder, and the restore
  from Drive, a copy of files followed by the restore that is modelled.
* Pages and the mobile application: one user's state, no shared state. The scanner
  page is the exception; see section 6.
* Applications and their review, the wording of e-mails, seeds and scripts: one
  update of one row each.
* Most of the 520 files are those of the last four points, so the modules map a
  small share of all lines; they map most of the lines in which a step of one
  actor can fall between two of another.

## 6. Where the code differs from what it says

A run of its own:

1. `Scheduler_wedged`. "So a crashed dump never blocks scheduling forever"
   (`scheduler.ts:78`). The watchdog repairs the schedule row only. The dead
   process's PENDING or RUNNING `Backup` row is settled by no code (only a restore, which
   replaces the whole table, can make it disappear), and the active-backup guard
   (`scheduler.ts:252-276`) then skips every later tick.
2. `Roles_unlocked`. The role editor takes an advisory lock, so that "no concurrent edit
   can interleave, so `before` in the audit row is exact and the authority re-checks
   below cannot go stale mid-flight" (`update-role-permissions.ts:112-114`). The badge
   settings upsert the overrides of `badge.regenerate` without that lock
   (`settings/badges/actions.ts:61-105`), and may commit between the editor's reads
   (117-172) and its write (174-193): `before` is then wrong, and the caller may have lost
   the permission. `AuditExact` and `AuthorityHeld` say that nothing else can do this,
   and that it is confined to that permission and the role in question (`Crossed`).

Seen while modelling. Where a module can express them, its properties are stated so
that they hold nevertheless, and say what they exclude.

Scheduler:

* a manual tick is never "not due" (`scheduler.ts:306-331`), and the check and the
  insert of `createBackupService` are two statements without the lock
  (`service.ts:199`, `dump.ts:192`): two dumps can overlap, against "refuses if
  another backup or restore is already PENDING/RUNNING" (`service.ts:182`). Hence
  `OneDumpInFlight` is about cron ticks;
* the same guard looks at backups only, never at restores (`service.ts:199-209`);
* a manual run goes ahead on a disabled schedule (`scheduler.ts:228`, against the
  option's comment at 122-126);
* a tick that finds the schedule disabled moves `lastRunAt` (`scheduler.ts:228-236`),
  "last time the tick actually attempted a backup" (`schema.prisma:1118`);
* a statement that rejects past the marker ends the tick in the last catch
  (`scheduler.ts:538-557`), which answers INTERNAL and writes nothing: the RUNNING marker
  stays although no tick is running, until a later watchdog. `RunningMeansLive` excepts
  it (`orphaned`), `StuckMarkerCleared` says that the watchdog comes.

Restore. `DueIsServed` excuses what these leave behind (`stranded`, `strandedOp`):

* a safety dump is taken while its own operation is in PREFLIGHT (`restore.ts:412`).
  Restoring it, the documented way back (`restore.ts:572`), brings that
  `RestoreOperation` row back in flight: only the new operation, its source and its
  safety row are written anew (720-750). Every later restore and every scheduled
  backup is then refused, which 1299-1303 means to prevent;
* a `Backup` row in flight in the source's snapshot comes back without a process, and
  the RUNNING marker with it when the source was a scheduled dump. The watchdog
  clears the marker only (`StuckMarkerCleared`);
* rows of backups deleted since the snapshot come back good without files, and those
  of later backups vanish, their files becoming orphans;
* the rows carried over are read before the transaction and written back as they
  were read;
* the verification after the restore counts rows outside the transaction and
  tolerates no difference, so a log-in meanwhile fails a good restore; what was
  written between the safety dump and the transaction is lost.

Catalogue:

* a crash between the unlinks and the update, or an update that is rejected
  (`retention.ts:349-373`, `service.ts:639`), leaves a good row without files, which
  the floor counts; the last backup that can be restored may then be deleted
  (against `schema.prisma:1098-1101`). `doubt` has such rows;
* two pruners may count each other's rows (`service.ts:603-650`, `retention.ts:227`), and
  a verdict may take the row that was counted: "retention MUST NEVER leave zero valid
  backups" is true of each count and not of all of them together. `LastGoodKept` says
  that these are the only ways (`lost`);
* `persistResult` overwrites a row whatever it has become (`verify.ts:1386-1436`). A
  DELETED row is revived, without files. A row whose dump is still running becomes
  MISSING when an administrator verifies it (`service.ts:301`): its deletion is then
  admitted ("never delete an in-progress dump", `service.ts:543`) and the active-backup
  guards no longer see it. Both rows are in `doubt`, which `InFlightUntouched`,
  `GoodHasFiles` and `DeletedHasNoFiles` except. A row that was FAILED or MISSING is good
  again, and may be the newest unknown to a sweep (`revived`, in `NewestGoodKept`);
* a restore that opens between the guard of a sweep (`retention.ts:247`) and its
  unlink (325) loses its source; the lock promised at `retention.ts:95` and
  `storage.ts:376` is not taken. A restore names its safety backup only after
  verifying it (`restore.ts:454-457`), and a pruner may take it before;
* with the age rule off, a sweep can delete a backup completed between its read of
  the retained set and its scan (`retention.ts:140-196`): why `Retention_sweep` and
  `NewestKept` have the rule on;
* `deletePublishedBackup` swallows every error of `fs.unlink`
  (`storage.ts:386-394`), so the callers' error paths never run;
* the schema describes the count and age rules as alternatives
  (`schema.prisma:1102-1106`); the code prunes only what both condemn
  (`retention.ts:203-211`). The model follows the code.

Replication:

* two workers may claim one row, which `worker.ts:26-31` says is prevented at two
  layers: the claim leaves the row PENDING and commits before the upload marks it.
  Hence `DuplicateNeedsOverlap`;
* a crash between VERIFYING and COMPLETED leaves a row that no tick picks up: the
  watchdog looks for UPLOADING only (`Stranded`, which `Settles` excuses); a retry by
  hand may overwrite the attempts counted meanwhile; FAILED keeps its session;
* the search for an existing manifest counts it as found even when its metadata
  do not match.

E-mail:

* 25 sends of up to 15 s outlast the five minutes of a claim, so another worker may
  send the same message; an old worker's `markRetry` may requeue what the new one has
  SENT. `doubt` stands for these;
* the row of the administrators' test message is QUEUED while it is sent, and may be
  claimed;
* `SmtpConfig.maxAttempts` is never read; rows beyond a full batch wait for the cron;
  `processQueue` "never throws", but `claimBatch` may;
* deleting an account anonymises its QUEUED rows; a claimed copy still goes out.
  `markEmailSent` overwrites any status.

Room access and badges:

* "admin intent takes precedence" (`sync.ts:22-23`): the administrators' upsert
  leaves `source` as it is on a row that exists (`access-actions.ts:123-129`,
  193-197), so that their decision about a REGISTRATION row is undone by the next
  cancellation or registration. `AdminRowsKept` is about rows of source ADMIN;
* a text code survives the cut-over of a legacy badge; the validation of a ticket
  looks at neither `ParticipantAccess` nor the badge; a stale form of
  `updateRegistrant` undoes a cancellation; the badge page reads the QR and the text
  code separately.

Accounts and roles:

* registering during a deletion leaves an anonymous registration, which may then get
  a badge without a proven address (`participant.ts:101`); a log-in that compared the
  old password opens its session after the reset that closed the others; a
  verification under way with another link proves the address again after "ce n'est
  pas moi"; a deletion under way still erases after it. `SessionsCurrent`,
  `BadgeNeedsProof` and `LinksActOnce` say so in their exceptions;
* an administrator who replaces the badge of a participant that has none gives one to an
  account whose address nobody has proven (`access-actions.ts:340-387`,
  `badge/service.ts:249-337`), against "the QR is issued only AFTER the account's email
  is verified" (`participant.ts:101`). `BadgeNeedsProof` excepts it (`byAdmin`);
* a registration that is claimed between the deletion's two listings is in neither
  (`delete-account.ts:46`, `65`): it was there throughout, and the account goes without
  it. `ErasesItsOwn` says that only what was claimed or made after the first listing is
  left;
* the `purgeExpired*` functions are never called, and the reason "email-changed" is
  unreachable;
* two administrators who delete or demote one another at once leave nobody: the second
  acts although the first has taken its account or role (`deposed`, in
  `Administrable`); a holder of `users.manage` may create a SUPER_ADMIN; the role
  editor trusts the role in the session; `updateUser` with a new password leaves
  the sessions open; `changePassword` updates and closes sessions in two
  statements.

Scanner page: its comment says that QR and text input share one guard against
re-entry; but the text input's `onResult` clears `submittingRef` while a QR
submission may be under way (`scanner-client.tsx:457-469`). The server's `Claim`
makes that harmless, which `OneFirstEntry` shows for any two requests.

## 7. Plan

In this order:

1. An abstract specification of admission (a participant, an entry log, who may be let
   in) that `CheckIn` with `BadgeCredential` implements, and the refinement proved.
2. The composition of `BackupRetention` and `BackupScheduler` at
   `RestoreApply`, with the restored catalogue taken from a modelled dump rather than
   enumerated.
3. The claim transaction of the e-mail queue in its statements, with the rows another
   claim has locked.
