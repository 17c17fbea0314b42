---------------------------- MODULE Replication ----------------------------
(***************************************************************************)
(* Off-site replication of verified backups to Google Drive                *)
(* (lib/backup/replication): worker ticks that claim a BackupReplication   *)
(* row in one transaction under an advisory lock and upload after it has   *)
(* committed, the administrators' retry and reconcile, and what happens to *)
(* the rows, the local files and the remote ones meanwhile.                *)
(*                                                                         *)
(* A statement on a row is one step, and so is a call to Drive.  What a    *)
(* worker knows is in job[w]; rows are updated by their id, and an update  *)
(* of a row that a restore has deleted throws and ends the tick.           *)
(***************************************************************************)
EXTENDS Naturals, FiniteSets

CONSTANTS
  Workers, Backups,
  MaxAttempts,   \* BACKOFF_MAX_ATTEMPTS
  MaxCopies,     \* bound: files made of one artifact
  MaxSessions,   \* bound: resumable sessions opened
  MaxRare        \* bound: crashes, restores, retries by hand, trashed files, pruned
                 \* backups, dropped sessions, unusable configurations, together

ASSUME ReplicationAssumption ==
  /\ Backups \subseteq Nat \ {0}
  /\ MaxAttempts \in Nat \ {0}
  /\ {MaxCopies, MaxSessions, MaxRare} \subseteq Nat

VARIABLES
  backup,     \* Backup.status; the published pair is on disk unless DELETED
  row,        \* the BackupReplication row of each backup
  drive,      \* the remote files: drive[b][artifact][copy]
  session,    \* Drive's resumable sessions
  job,        \* locals of each worker
  admin,      \* locals of retryReplicationService
  audit,      \* locals of reconcileReplicationRemote
  overlapped, \* backups a worker claimed while another was at work on them
  rare        \* how many of the bounded events have happened

vars == <<backup, row, drive, session, job, admin, audit, overlapped, rare>>

Copies    == 1..MaxCopies
Sessions  == 1..MaxSessions
Artifacts == {"bin", "man"}
Statuses  == {"NONE", "PENDING", "UPLOADING", "VERIFYING", "COMPLETED",
              "RETRYABLE_FAILURE", "FAILED"}

\* ripe: lastAttemptAt is older than STUCK_UPLOAD_TIMEOUT_MS (UPLOADING), or
\* nextRetryAt is reached (RETRYABLE_FAILURE).  sess, bin, man: 0 is null.
NoRow == [id |-> 0, status |-> "NONE", attempts |-> 0, ripe |-> FALSE,
          sess |-> 0, bin |-> 0, man |-> 0, missing |-> FALSE]

NewRow(r) == [NoRow EXCEPT !.id = r.id + 1, !.status = "PENDING"]

NoJob   == [pc |-> "idle", b |-> 0, id |-> 0, att |-> 0, sess |-> 0, bin |-> 0, man |-> 0]
NoCall  == [pc |-> "idle", b |-> 0, id |-> 0, att |-> 0]
NoAudit == [pc |-> "idle", b |-> 0, id |-> 0, bin |-> 0, man |-> 0]

Rare == rare < MaxRare /\ rare' = rare + 1

Init ==
  /\ backup = [b \in Backups |-> "COMPLETED"]
  /\ row = [b \in Backups |-> NoRow]
  /\ drive = [b \in Backups |-> [a \in Artifacts |-> [c \in Copies |-> "none"]]]
  /\ session = [s \in Sessions |-> [st |-> "free", file |-> 0]]
  /\ job = [w \in Workers |-> NoJob]
  /\ admin = NoCall /\ audit = NoAudit
  /\ overlapped = {}
  /\ rare = 0

Live(b, a) == {c \in Copies : drive[b][a][c] = "live"}
Unmade(b, a) == {c \in Copies : drive[b][a][c] = "none"}

Goto(w, phase) == job' = [job EXCEPT ![w].pc = phase]
Done(w)        == job' = [job EXCEPT ![w] = NoJob]

\* The row the worker works on is still there.
Mine(w) == row[job[w].b].id = job[w].id /\ row[job[w].b].status # "NONE"

-----------------------------------------------------------------------------
(* The backups: verified, handed over by the scheduler, pruned              *)

Verified(b) ==
  /\ backup[b] = "COMPLETED"
  /\ backup' = [backup EXCEPT ![b] = "VERIFIED"]
  /\ UNCHANGED <<row, drive, session, job, admin, audit, overlapped, rare>>

\* enqueueReplicationForBackup, of the scheduler that has verified the backup.
\* It may never come to it: the scheduler dies, or the statement fails.
Enqueue(b) ==
  /\ backup[b] # "COMPLETED" /\ row[b].status = "NONE"
  /\ row' = [row EXCEPT ![b] = NewRow(@)]
  /\ UNCHANGED <<backup, drive, session, job, admin, audit, overlapped, rare>>

\* Retention or an administrator's deletion: the pair, then the status.
Pruned(b) ==
  /\ backup[b] = "VERIFIED" /\ Rare
  /\ backup' = [backup EXCEPT ![b] = "DELETED"]
  /\ UNCHANGED <<row, drive, session, job, admin, audit, overlapped>>

\* wipe of runRestore: the table is emptied, whoever is uploading.
Wipe ==
  /\ Rare
  /\ row' = [b \in Backups |-> [NoRow EXCEPT !.id = row[b].id]]
  /\ UNCHANGED <<backup, drive, session, job, admin, audit, overlapped>>

-----------------------------------------------------------------------------
(* runReplicationWorkerTick: the claim transaction                          *)

\* Mutant: rows left UPLOADING by a dead worker are not looked for.
NoWatchdog(b) ==
  LET r == row[b]
  IN  IF r.status = "NONE" /\ backup[b] = "VERIFIED" THEN NewRow(r)
      ELSE IF r.status = "RETRYABLE_FAILURE" /\ r.ripe
        THEN [r EXCEPT !.status = "PENDING", !.ripe = FALSE]
      ELSE r

\* Self-heal, watchdog and rehydration of one row.
Maintained(b) ==
  LET r == row[b]
  IN  IF r.status = "NONE" /\ backup[b] = "VERIFIED" THEN NewRow(r)
      ELSE IF r.status \in {"UPLOADING", "RETRYABLE_FAILURE"} /\ r.ripe
        THEN [r EXCEPT !.status = "PENDING", !.ripe = FALSE]
      ELSE r

Claimable(b) == Maintained(b).status = "PENDING" /\ backup[b] = "VERIFIED"

\* The row is locked while it is claimed; its status stays PENDING.
Tick(w) ==
  /\ job[w].pc = "idle"
  /\ row' = [b \in Backups |-> Maintained(b)]
  /\ \/ \E b \in Backups :
          /\ Claimable(b)
          /\ job' = [job EXCEPT ![w] = [NoJob EXCEPT !.pc = "load", !.b = b]]
          /\ overlapped' = IF \E v \in Workers : job[v].b = b
                             THEN overlapped \cup {b} ELSE overlapped
     \/ (\A b \in Backups : ~Claimable(b)) /\ UNCHANGED <<job, overlapped>>
  /\ UNCHANGED <<backup, drive, session, admin, audit, rare>>

\* Configuration, folder or access token cannot be had: the row is left as it is.
DepsFail(w) ==
  /\ job[w].pc = "load" /\ Rare /\ Done(w)
  /\ UNCHANGED <<backup, row, drive, session, admin, audit, overlapped>>

-----------------------------------------------------------------------------
(* replicateBackupToDrive                                                   *)

\* attemptCount + 1; beyond the cap the count makes no difference any more.
NextAttempt(r) == IF r.attempts < MaxAttempts THEN r.attempts + 1 ELSE MaxAttempts

\* The backup is read, the row upserted; a row that is terminal is left alone.
Load(w) ==
  LET b == job[w].b
      r == IF row[b].status = "NONE" THEN NewRow(row[b]) ELSE row[b]
  IN  /\ job[w].pc = "load"
      /\ \/ backup[b] # "VERIFIED" /\ Done(w) /\ UNCHANGED row
         \/ /\ backup[b] = "VERIFIED"
            /\ row' = [row EXCEPT ![b] = r]
            /\ \/ r.status \in {"COMPLETED", "FAILED"} /\ Done(w)
               \/ /\ r.status \notin {"COMPLETED", "FAILED"}
                  /\ job' = [job EXCEPT ![w] =
                       [@ EXCEPT !.pc = "start", !.id = r.id, !.att = NextAttempt(r),
                                 !.sess = r.sess]]
      /\ UNCHANGED <<backup, drive, session, admin, audit, overlapped, rare>>

\* Writes to the worker's row, or the throw that ends the tick.
Write(w, r, phase) ==
  /\ \/ ~Mine(w) /\ Done(w) /\ UNCHANGED row
     \/ /\ Mine(w)
        /\ row' = [row EXCEPT ![job[w].b] = r]
        /\ IF phase = "idle" THEN Done(w) ELSE Goto(w, phase)
  /\ UNCHANGED <<backup, drive, session, admin, audit, overlapped, rare>>

Start(w) ==
  /\ job[w].pc = "start"
  /\ Write(w, [row[job[w].b] EXCEPT !.status = "UPLOADING", !.attempts = job[w].att,
                                    !.ripe = FALSE, !.missing = FALSE], "listBin")

\* Mutant: a status that the enumeration does not have.
FailureUnknownStatus(w, retryable) ==
  Write(w, [row[job[w].b] EXCEPT !.ripe = FALSE, !.missing = FALSE,
              !.status = IF retryable THEN "RETRYABLE" ELSE "FAILED"], "idle")

\* recordFailure; its errorCode is never REMOTE_MISSING.
RecordFailure(w, retryable) ==
  Write(w, [row[job[w].b] EXCEPT !.ripe = FALSE, !.missing = FALSE,
              !.status = IF retryable /\ job[w].att < MaxAttempts
                           THEN "RETRYABLE_FAILURE" ELSE "FAILED"], "idle")

\* Mutant: what is at the destination is not looked at before an upload.
ListNothing(w) ==
  /\ job[w].pc = "listBin" /\ backup[job[w].b] # "DELETED"
  /\ Goto(w, "session")
  /\ UNCHANGED <<backup, row, drive, session, admin, audit, overlapped, rare>>

\* checkRemoteArtifact for the .bin: nothing there, or one file to reuse.
ListBin(w) ==
  LET here == Live(job[w].b, "bin")
  IN  /\ job[w].pc = "listBin" /\ backup[job[w].b] # "DELETED"
      /\ \/ here = {} /\ Goto(w, "session")
         \/ /\ Cardinality(here) = 1
            /\ \E c \in here :
                 job' = [job EXCEPT ![w] = [@ EXCEPT !.pc = "listMan", !.bin = c]]
      /\ UNCHANGED <<backup, row, drive, session, admin, audit, overlapped, rare>>

\* The session the row remembers answers: resume it, or it is complete.
Resume(w) ==
  LET s == job[w].sess
  IN  /\ job[w].pc = "session" /\ s # 0
      /\ \/ session[s].st = "open" /\ Goto(w, "put")
         \/ /\ session[s].st = "done"
            /\ job' = [job EXCEPT ![w] = [@ EXCEPT !.pc = "listMan", !.bin = session[s].file]]
      /\ UNCHANGED <<backup, row, drive, session, admin, audit, overlapped, rare>>

\* initResumableSession, without a session or when Drive has dropped it.
OpenSession(w) ==
  /\ job[w].pc = "session"
  /\ job[w].sess # 0 => session[job[w].sess].st = "gone"
  /\ \E s \in Sessions :
       /\ session[s].st = "free" /\ \A t \in 1..(s - 1) : session[t].st # "free"
       /\ session' = [session EXCEPT ![s] = [st |-> "open", file |-> 0]]
       /\ job' = [job EXCEPT ![w] = [@ EXCEPT !.pc = "persist", !.sess = s]]
  /\ UNCHANGED <<backup, row, drive, admin, audit, overlapped, rare>>

PersistSession(w) ==
  /\ job[w].pc = "persist"
  /\ Write(w, [row[job[w].b] EXCEPT !.sess = job[w].sess], "put")

\* The last chunk arrives and Drive makes the file; the answer is lost, or tells
\* another size or digest ("lost"), or is as expected.
\* A session that another worker has completed answers with its file.
PutBin(w) ==
  LET b == job[w].b  s == job[w].sess
  IN  /\ job[w].pc = "put" /\ backup[b] # "DELETED"
      /\ \/ /\ session[s].st = "open"
            /\ \E c \in Unmade(b, "bin") :
                 /\ \A d \in Unmade(b, "bin") : c <= d
                 /\ drive' = [drive EXCEPT ![b]["bin"][c] = "live"]
                 /\ session' = [session EXCEPT ![s] = [@ EXCEPT !.st = "done", !.file = c]]
                 /\ \/ job' = [job EXCEPT ![w] = [@ EXCEPT !.pc = "listMan", !.bin = c]]
                    \/ Goto(w, "lost")
         \/ /\ session[s].st = "done"
            /\ job' = [job EXCEPT ![w] = [@ EXCEPT !.pc = "listMan", !.bin = session[s].file]]
            /\ UNCHANGED <<drive, session>>
      /\ UNCHANGED <<backup, row, admin, audit, overlapped, rare>>

ListMan(w) ==
  LET here == Live(job[w].b, "man")
  IN  /\ job[w].pc = "listMan"
      /\ \/ here = {} /\ Goto(w, "putMan")
         \/ /\ Cardinality(here) = 1
            /\ \E c \in here :
                 job' = [job EXCEPT ![w] = [@ EXCEPT !.pc = "uploaded", !.man = c]]
      /\ UNCHANGED <<backup, row, drive, session, admin, audit, overlapped, rare>>

\* uploadManifest: one session, one chunk.
PutMan(w) ==
  LET b == job[w].b
  IN  /\ job[w].pc = "putMan" /\ backup[b] # "DELETED"
      /\ \E c \in Unmade(b, "man") :
           /\ \A d \in Unmade(b, "man") : c <= d
           /\ drive' = [drive EXCEPT ![b]["man"][c] = "live"]
           /\ \/ job' = [job EXCEPT ![w] = [@ EXCEPT !.pc = "uploaded", !.man = c]]
              \/ Goto(w, "lost")
      /\ UNCHANGED <<backup, row, session, admin, audit, overlapped, rare>>

\* Mutant: the row is COMPLETED without the ids of what was uploaded.
MarkVerifyingNoIds(w) ==
  /\ job[w].pc = "uploaded"
  /\ Write(w, [row[job[w].b] EXCEPT !.status = "VERIFYING"], "verify")

MarkVerifying(w) ==
  /\ job[w].pc = "uploaded"
  /\ Write(w, [row[job[w].b] EXCEPT !.status = "VERIFYING", !.bin = job[w].bin,
                                    !.man = job[w].man], "verify")

\* verifyRemoteMetadata of both files, and the last update.
Complete(w) ==
  /\ job[w].pc = "verify"
  /\ job[w].bin \in Live(job[w].b, "bin") /\ job[w].man \in Live(job[w].b, "man")
  /\ Write(w, [row[job[w].b] EXCEPT !.status = "COMPLETED", !.sess = 0,
                                    !.ripe = FALSE, !.missing = FALSE], "idle")

\* What the preflight, the idempotency check and the verification refuse, and a
\* chunk sent to a session that Drive has dropped (a 404).
Refused(w) ==
  LET b == job[w].b  phase == job[w].pc
  IN  /\ \/ phase \in {"listBin", "put", "putMan"} /\ backup[b] = "DELETED"
         \/ phase = "listBin" /\ Cardinality(Live(b, "bin")) > 1
         \/ phase = "listMan" /\ Cardinality(Live(b, "man")) > 1
         \/ phase = "verify" /\ ~(job[w].bin \in Live(b, "bin") /\ job[w].man \in Live(b, "man"))
         \/ phase = "put" /\ session[job[w].sess].st = "gone"
      /\ RecordFailure(w, FALSE)

DrivePhases == {"listBin", "session", "put", "listMan", "putMan", "verify", "lost"}

\* A call to Drive fails or its answer is not to be used; the error is classified.
DriveFails(w) ==
  /\ job[w].pc \in DrivePhases
  /\ \E retryable \in BOOLEAN : RecordFailure(w, retryable)

Crash(w) ==
  /\ job[w].pc # "idle" /\ Rare /\ Done(w)
  /\ UNCHANGED <<backup, row, drive, session, admin, audit, overlapped>>

-----------------------------------------------------------------------------
(* retryReplicationService: a read, then an update by id                    *)

RetryRead(b) ==
  /\ admin.pc = "idle" /\ row[b].status \in {"FAILED", "RETRYABLE_FAILURE"}
  /\ Rare
  /\ admin' = [pc |-> "write", b |-> b, id |-> row[b].id,
               att |-> IF row[b].status = "FAILED" THEN 0 ELSE row[b].attempts]
  /\ UNCHANGED <<backup, row, drive, session, job, audit, overlapped>>

RetryWrite ==
  LET b == admin.b
  IN  /\ admin.pc = "write" /\ admin' = NoCall
      /\ row' = IF row[b].id = admin.id /\ row[b].status # "NONE"
                  THEN [row EXCEPT ![b] = [@ EXCEPT !.status = "PENDING",
                          !.attempts = admin.att, !.ripe = FALSE, !.missing = FALSE]]
                  ELSE row
      /\ UNCHANGED <<backup, drive, session, job, audit, overlapped, rare>>

-----------------------------------------------------------------------------
(* reconcileReplicationRemote: the row; the two files and errorCode          *)

ReconcileRead(b) ==
  /\ audit.pc = "idle" /\ row[b].status = "COMPLETED"
  /\ audit' = [pc |-> "probe", b |-> b, id |-> row[b].id, bin |-> row[b].bin, man |-> row[b].man]
  /\ UNCHANGED <<backup, row, drive, session, job, admin, overlapped, rare>>

Present == audit.bin \in Live(audit.b, "bin") /\ audit.man \in Live(audit.b, "man")

\* Mutant: a call that Drive does not answer counts as a missing file.
VerdictGuessed == {"present", "absent"}

\* A file that is there and not trashed is present; an error has its own code.
Verdict == {IF Present THEN "present" ELSE "absent", "error"}

\* Mutant: a missing file sends the row back to the queue.
ReconcileRequeue ==
  LET b == audit.b
  IN  /\ audit.pc = "probe" /\ audit' = NoAudit
      /\ row' = IF row[b].id = audit.id /\ ~Present
                  THEN [row EXCEPT ![b].status = "PENDING"] ELSE row
      /\ UNCHANGED <<backup, drive, session, job, admin, overlapped, rare>>

\* Only errorCode is written, whatever the row has become.
ReconcileWrite ==
  LET b == audit.b
  IN  /\ audit.pc = "probe" /\ audit' = NoAudit
      /\ \E v \in Verdict :
           row' = IF row[b].id = audit.id /\ row[b].status # "NONE"
                    THEN [row EXCEPT ![b].missing = (v = "absent")] ELSE row
      /\ UNCHANGED <<backup, drive, session, job, admin, overlapped, rare>>

-----------------------------------------------------------------------------
(* Time, and Drive                                                          *)

\* Four hours since the last attempt, or the back-off is over.
Elapse(b) ==
  /\ row[b].status \in {"UPLOADING", "RETRYABLE_FAILURE"} /\ ~row[b].ripe
  /\ row' = [row EXCEPT ![b].ripe = TRUE]
  /\ UNCHANGED <<backup, drive, session, job, admin, audit, overlapped, rare>>

SessionExpires(s) ==
  /\ session[s].st = "open" /\ Rare
  /\ session' = [session EXCEPT ![s].st = "gone"]
  /\ UNCHANGED <<backup, row, drive, job, admin, audit, overlapped>>

Trash(b, a, c) ==
  /\ drive[b][a][c] = "live" /\ Rare
  /\ drive' = [drive EXCEPT ![b][a][c] = "trashed"]
  /\ UNCHANGED <<backup, row, session, job, admin, audit, overlapped>>

-----------------------------------------------------------------------------
Upload(w) ==
  \/ Load(w) \/ Start(w) \/ ListBin(w) \/ Resume(w) \/ OpenSession(w)
  \/ PersistSession(w) \/ PutBin(w) \/ ListMan(w) \/ PutMan(w)
  \/ MarkVerifying(w) \/ Complete(w) \/ Refused(w) \/ DriveFails(w)

Environment ==
  \/ Wipe \/ RetryWrite \/ ReconcileWrite
  \/ \E b \in Backups : \/ Verified(b) \/ Enqueue(b) \/ Pruned(b)
                        \/ RetryRead(b) \/ ReconcileRead(b) \/ Elapse(b)
                        \/ \E a \in Artifacts, c \in Copies : Trash(b, a, c)
  \/ \E s \in Sessions : SessionExpires(s)

Next ==
  \/ Environment
  \/ \E w \in Workers : Tick(w) \/ DepsFail(w) \/ Upload(w) \/ Crash(w)

Spec == Init /\ [][Next]_vars

\* The cron job keeps calling the tick, a tick goes on unless its process dies, and
\* time passes.
Fairness ==
  /\ \A w \in Workers : WF_vars(Tick(w)) /\ WF_vars(Upload(w))
  /\ \A b \in Backups : WF_vars(Elapse(b))

FairSpec == Spec /\ Fairness

-----------------------------------------------------------------------------
(* Properties                                                               *)

Phases == {"idle", "load", "start", "session", "persist", "put", "listBin",
           "listMan", "putMan", "uploaded", "verify", "lost"}

File == Copies \cup {0}
Sess == Sessions \cup {0}

\* Rows, remote files and locals have the values of the schema and the code.
TypeOK ==
  /\ backup \in [Backups -> {"COMPLETED", "VERIFIED", "DELETED"}]
  /\ row \in [Backups -> [id : Nat, status : Statuses, attempts : Nat, ripe : BOOLEAN,
                          sess : Sess, bin : File, man : File, missing : BOOLEAN]]
  /\ drive \in [Backups -> [Artifacts -> [Copies -> {"none", "live", "trashed"}]]]
  /\ session \in [Sessions -> [st : {"free", "open", "done", "gone"}, file : File]]
  /\ job \in [Workers -> [pc : Phases, b : Backups \cup {0}, id : Nat, att : Nat,
                          sess : Sess, bin : File, man : File]]
  /\ admin \in [pc : {"idle", "write"}, b : Backups \cup {0}, id : Nat, att : Nat]
  /\ audit \in [pc : {"idle", "probe"},
                b : Backups \cup {0}, id : Nat, bin : File, man : File]
  /\ overlapped \subseteq Backups
  /\ rare \in 0..MaxRare

\* "metadata-verified remote object present" (enum BackupReplicationStatus): a
\* COMPLETED row names a .bin and a manifest that were uploaded for its backup,
\* whatever workers, crashes, lost answers, retries and restores came between.
CompletedWasUploaded ==
  \A b \in Backups : row[b].status = "COMPLETED" =>
    /\ row[b].bin # 0 /\ drive[b]["bin"][row[b].bin] # "none"
    /\ row[b].man # 0 /\ drive[b]["man"][row[b].man] # "none"

\* Listing the destination first makes an upload idempotent: after crashes, lost
\* answers, dropped sessions and emptied tables alike, two live files for one
\* artifact exist only if two workers were at work on the backup at once.
DuplicateNeedsOverlap ==
  \A b \in Backups, a \in Artifacts : Cardinality(Live(b, a)) > 1 => b \in overlapped

\* reconcile records REMOTE_MISSING only where a file did disappear: "the file
\* may still exist and Drive is just having a bad day" (reconcile.ts).
NoFalseAlarm ==
  \A b \in Backups : row[b].missing =>
    \E a \in Artifacts, c \in Copies : drive[b][a][c] = "trashed"

\* "Terminal states are no-ops" (uploader.ts): a finished row is reopened by
\* nothing but a worker that overlaps another, or an administrator's retry that
\* read the row before it finished.
FinishedStays ==
  [][\A b \in Backups :
       row[b].status = "COMPLETED" /\ row'[b].status \notin {"COMPLETED", "NONE"}
         => b \in overlapped \/ (admin.pc = "write" /\ admin.b = b /\ admin' = NoCall)]_vars

\* A row that nobody will look at again: the watchdog looks for UPLOADING only.
Stranded(b) ==
  /\ row[b].status = "VERIFYING"
  /\ \A w \in Workers : job[w].b = b => job[w].pc # "verify"

\* A verified backup is replicated, or given up as FAILED, unless it is pruned
\* first or a worker dies between VERIFYING and COMPLETED.
Settles ==
  \A b \in Backups :
    backup[b] = "VERIFIED" ~>
      \/ backup[b] = "DELETED" \/ row[b].status \in {"COMPLETED", "FAILED"}
      \/ Stranded(b)
=============================================================================
