--------------------------- MODULE ReplicationProofs ---------------------------
(***************************************************************************)
(* Machine-checked facts about Replication, for any number of workers,     *)
(* backups, attempts, files and sessions.                                  *)
(***************************************************************************)
EXTENDS Replication, FiniteSetTheorems, TLAPS

-----------------------------------------------------------------------------
(* The inductive invariant                                                  *)

\* The files that were made of an artifact: those on the drive, and in its bin.
Made(b, a) == {c \in Copies : drive[b][a][c] # "none"}

\* What a worker knows: the files it names were made of its backup, the row it writes
\* to is not younger than the one it read, and a worker that is alone on its backup has
\* not finished it and sends only what is not there.
Knows(w, b) ==
  LET phase == job[w].pc
      mine  == row[b].id = job[w].id /\ row[b].status # "NONE"
  IN  /\ phase \notin {"idle", "load"} => job[w].id =< row[b].id
      /\ phase \in {"persist", "put"} => job[w].sess # 0
      /\ phase \in {"listMan", "putMan", "uploaded", "verify"} => job[w].bin \in Made(b, "bin")
      /\ phase \in {"uploaded", "verify"} => job[w].man \in Made(b, "man")
      /\ phase = "verify" /\ mine => row[b].bin # 0 /\ row[b].man # 0
      /\ b \notin overlapped =>
           /\ phase \notin {"idle", "load"} /\ mine => row[b].status # "COMPLETED"
           /\ phase \in {"session", "persist", "put"} => Live(b, "bin") = {}
           /\ phase = "putMan" => Live(b, "man") = {}

JobInv(w) ==
  /\ job[w].pc = "idle" <=> job[w].b = 0
  /\ \A b \in Backups : job[w].b = b => Knows(w, b)

\* The files a row names were made of its backup, and one of them has been trashed if
\* the row says so.
RowInv(b) ==
  /\ row[b].bin # 0 => row[b].bin \in Made(b, "bin")
  /\ row[b].man # 0 => row[b].man \in Made(b, "man")
  /\ row[b].status = "COMPLETED" => row[b].bin # 0 /\ row[b].man # 0
  /\ row[b].missing => \E a \in Artifacts, c \in Copies : drive[b][a][c] = "trashed"

\* One worker at a time leaves one file of an artifact.
Single(b) ==
  b \notin overlapped =>
    /\ \A v, w \in Workers : job[v].b = b /\ job[w].b = b => v = w
    /\ \A a \in Artifacts : \A c, d \in Live(b, a) : c = d

\* A session is used for the backup it was opened for.
Uses(b, s) == row[b].sess = s \/ \E w \in Workers : job[w].b = b /\ job[w].sess = s

SessionInv(s) ==
  /\ session[s].st = "free" => \A b \in Backups : ~Uses(b, s)
  /\ \A b, c \in Backups : Uses(b, s) /\ Uses(c, s) => b = c
  /\ session[s].st = "done" => \A b \in Backups : Uses(b, s) => session[s].file \in Made(b, "bin")

\* A reconcile looks for files that were there.
AuditInv ==
  audit.pc = "probe" =>
    \E b \in Backups : audit.b = b /\ audit.bin \in Made(b, "bin") /\ audit.man \in Made(b, "man")

IInv ==
  /\ TypeOK
  /\ \A w \in Workers : JobInv(w)
  /\ \A b \in Backups : RowInv(b) /\ Single(b)
  /\ \A s \in Sessions : SessionInv(s)
  /\ AuditInv

Rows == [id : Nat, status : Statuses, attempts : Nat, ripe : BOOLEAN,
         sess : Sess, bin : File, man : File, missing : BOOLEAN]
Jobs == [pc : Phases, b : Backups \cup {0}, id : Nat, att : Nat,
         sess : Sess, bin : File, man : File]

LEMMA Bounds ==
  /\ Backups \subseteq Nat \ {0} /\ 0 \notin Backups /\ MaxAttempts \in Nat
  /\ 0 \in File /\ 0 \in Sess /\ 0 \notin Copies /\ 0 \notin Sessions
BY ReplicationAssumption DEF File, Sess, Copies, Sessions

LEMMA Typing ==
  ASSUME TypeOK
  PROVE  /\ row \in [Backups -> Rows] /\ job \in [Workers -> Jobs]
         /\ \A w \in Workers : job[w].b \in Backups \cup {0}
BY DEF TypeOK, Rows, Jobs

LEMMA RareTyped == ASSUME TypeOK, Rare PROVE rare' \in 0..MaxRare
BY ReplicationAssumption DEF TypeOK, Rare

LEMMA EmptyTyped ==
  NoJob \in Jobs /\ NoJob.pc = "idle" /\ NoJob.b = 0 /\ NoJob.sess = 0
BY Bounds DEF NoJob, Jobs, Phases

LEMMA NewRowTyped ==
  ASSUME NEW r \in Rows
  PROVE  /\ NewRow(r) \in Rows /\ NewRow(r).id = r.id + 1
         /\ NewRow(r).status = "PENDING" /\ NewRow(r).sess = 0
         /\ NewRow(r).bin = 0 /\ NewRow(r).man = 0 /\ ~NewRow(r).missing
<1>1. r.id + 1 \in Nat
  BY DEF Rows
<1>2. NoRow \in Rows /\ NoRow.sess = 0 /\ NoRow.bin = 0 /\ NoRow.man = 0 /\ ~NoRow.missing
  BY Bounds DEF NoRow, Rows, Statuses
<1> QED
  BY <1>1, <1>2 DEF NewRow, Rows, Statuses

LEMMA JobBecomes ==
  ASSUME TypeOK, NEW w \in Workers, NEW r \in Jobs, job' = [job EXCEPT ![w] = r]
  PROVE  /\ job' \in [Workers -> Jobs] /\ job'[w] = r
         /\ \A v \in Workers \ {w} : job'[v] = job[v]
BY Typing

LEMMA DoneEffect ==
  ASSUME TypeOK, NEW w \in Workers, Done(w)
  PROVE  /\ job' \in [Workers -> Jobs] /\ job'[w] = NoJob
         /\ \A v \in Workers \ {w} : job'[v] = job[v]
BY EmptyTyped, JobBecomes DEF Done

LEMMA GotoEffect ==
  ASSUME TypeOK, NEW w \in Workers, NEW phase \in Phases, Goto(w, phase)
  PROVE  /\ job' \in [Workers -> Jobs]
         /\ job'[w].pc = phase /\ job'[w].b = job[w].b /\ job'[w].id = job[w].id
         /\ job'[w].att = job[w].att /\ job'[w].sess = job[w].sess
         /\ job'[w].bin = job[w].bin /\ job'[w].man = job[w].man
         /\ \A v \in Workers \ {w} : job'[v] = job[v]
<1> DEFINE r == [job[w] EXCEPT !.pc = phase]
<1>1. job[w] \in Jobs
  BY Typing
<1>2. /\ r \in Jobs /\ r.pc = phase /\ r.b = job[w].b /\ r.id = job[w].id
      /\ r.att = job[w].att /\ r.sess = job[w].sess /\ r.bin = job[w].bin /\ r.man = job[w].man
  BY <1>1 DEF Jobs
<1>3. job' = [job EXCEPT ![w] = r]
  BY DEF Goto
<1> HIDE DEF r
<1> QED
  BY <1>2, <1>3, JobBecomes

-----------------------------------------------------------------------------
(* What every step respects                                                 *)

\* No file that was made is unmade, and a row that is replaced gets a younger id.
DriveAges ==
  \A b \in Backups, a \in Artifacts, c \in Copies :
    /\ drive[b][a][c] # "none" => drive'[b][a][c] # "none"
    /\ drive[b][a][c] = "trashed" => drive'[b][a][c] = "trashed"

RowAges(b) ==
  /\ row[b].id =< row'[b].id
  /\ row'[b].id = row[b].id /\ row'[b].status # "NONE" =>
       /\ row[b].status # "NONE"
       /\ row[b].bin # 0 => row'[b].bin # 0
       /\ row[b].man # 0 => row'[b].man # 0

LEMMA MadeAges ==
  ASSUME DriveAges, NEW b \in Backups
  PROVE  /\ Made(b, "bin") \subseteq Made(b, "bin")' /\ Made(b, "man") \subseteq Made(b, "man")'
         /\ 0 \notin Made(b, "bin") /\ 0 \notin Made(b, "man")
BY Bounds DEF DriveAges, Made, Artifacts, Copies

\* A worker that does nothing is right about what it knows, if what the others do to its
\* backup makes it overlapped.
LEMMA JobKept ==
  ASSUME TypeOK, NEW w \in Workers, JobInv(w), job'[w] = job[w], DriveAges,
         \A b \in Backups : RowAges(b) /\ row'[b].id \in Nat,
         \A b \in Backups : job[w].b = b /\ b \notin overlapped' =>
           /\ b \notin overlapped
           /\ Live(b, "bin")' \in SUBSET Live(b, "bin")
           /\ Live(b, "man")' \in SUBSET Live(b, "man")
           /\ row'[b].status = "COMPLETED" /\ row'[b].id = row[b].id =>
                row[b].status = "COMPLETED"
  PROVE  JobInv(w)'
<1> SUFFICES ASSUME NEW b \in Backups, job[w].b = b PROVE Knows(w, b)'
  BY DEF JobInv
<1>1. Knows(w, b) /\ RowAges(b)
  BY DEF JobInv
<1>2. row'[b].id \in Nat /\ row[b].id \in Nat /\ job[w].id \in Nat
  BY Typing DEF Rows, Jobs
<1> DEFINE begun == job[w].pc \notin {"idle", "load"}
           mine  == row[b].id = job[w].id /\ row[b].status # "NONE"
           still == row'[b].id = job[w].id /\ row'[b].status # "NONE"
<1>3. begun /\ still => mine /\ row'[b].id = row[b].id
  BY <1>1, <1>2 DEF Knows, RowAges
<1>4. begun => job[w].id =< row'[b].id
  BY <1>1, <1>2 DEF Knows, RowAges
<1>5. job[w].pc = "verify" /\ still => row'[b].bin # 0 /\ row'[b].man # 0
  BY <1>1, <1>3 DEF Knows, RowAges
<1>6. Made(b, "bin") \subseteq Made(b, "bin")' /\ Made(b, "man") \subseteq Made(b, "man")'
  BY MadeAges
<1>7. ASSUME b \notin overlapped'
      PROVE  /\ begun /\ still => row'[b].status # "COMPLETED"
             /\ job[w].pc \in {"session", "persist", "put"} => Live(b, "bin")' = {}
             /\ job[w].pc = "putMan" => Live(b, "man")' = {}
  BY <1>1, <1>3, <1>7 DEF Knows
<1> QED
  BY <1>1, <1>4, <1>5, <1>6, <1>7 DEF Knows

LEMMA RowKept ==
  ASSUME NEW b \in Backups, RowInv(b), DriveAges,
         row'[b].bin # 0 => row'[b].bin \in Made(b, "bin")',
         row'[b].man # 0 => row'[b].man \in Made(b, "man")',
         row'[b].status = "COMPLETED" => row'[b].bin # 0 /\ row'[b].man # 0,
         row'[b].missing => row[b].missing
  PROVE  RowInv(b)'
BY DEF RowInv, DriveAges

LEMMA SessionKept ==
  ASSUME NEW s \in Sessions, SessionInv(s), DriveAges,
         session'[s] = session[s] \/ session'[s].st \notin {"free", "done"},
         \A b \in Backups : Uses(b, s)' => Uses(b, s)
  PROVE  SessionInv(s)'
<1>1. ASSUME session'[s].st = "done", NEW b \in Backups, Uses(b, s)'
      PROVE  session'[s].file \in Made(b, "bin")'
  BY <1>1, MadeAges DEF SessionInv
<1> QED
  BY <1>1 DEF SessionInv

\* The rows change, and nothing is learnt: the watchdog, the administrators, a restore.
RowEnv(b) ==
  /\ row'[b].sess \in {row[b].sess, 0}
  /\ row'[b].bin \in {row[b].bin, 0} /\ row'[b].man \in {row[b].man, 0}
  /\ row'[b].status = "COMPLETED" =>
       row[b].status = "COMPLETED" /\ row'[b].bin = row[b].bin /\ row'[b].man = row[b].man
  /\ row'[b].missing => row[b].missing

LEMMA RowEnvKept ==
  ASSUME NEW b \in Backups, RowInv(b), RowEnv(b), DriveAges
  PROVE  RowInv(b)'
BY MadeAges, RowKept DEF RowInv, RowEnv

-----------------------------------------------------------------------------
(* Steps that no worker takes                                               *)

\* No file is added.
DriveShrinks ==
  \A b \in Backups : Live(b, "bin")' \in SUBSET Live(b, "bin")
                     /\ Live(b, "man")' \in SUBSET Live(b, "man")

LEMMA EnvironmentKeeps ==
  ASSUME IInv, TypeOK', DriveAges, DriveShrinks, AuditInv', UNCHANGED <<job, overlapped>>,
         \A b \in Backups : RowAges(b) /\ RowEnv(b),
         \A s \in Sessions :
           session'[s] = session[s] \/ session'[s].st \notin {"free", "done"}
  PROVE  IInv'
<1>1. \A b \in Backups : row'[b].id \in Nat
  BY DEF TypeOK
<1>2. ASSUME NEW w \in Workers PROVE JobInv(w)'
  BY <1>1, JobKept DEF IInv, DriveShrinks, RowEnv
<1>3. ASSUME NEW b \in Backups PROVE RowInv(b)' /\ Single(b)'
  <2>1. \A a \in Artifacts : Live(b, a)' \in SUBSET Live(b, a)
    BY DEF DriveShrinks, Artifacts
  <2> QED
    BY <2>1, RowEnvKept DEF IInv, Single
<1>4. ASSUME NEW s \in Sessions PROVE SessionInv(s)'
  <2>1. \A b \in Backups : Uses(b, s)' => Uses(b, s)
    BY Bounds DEF Uses, RowEnv
  <2> QED
    BY <2>1, SessionKept DEF IInv
<1> QED
  BY <1>2, <1>3, <1>4 DEF IInv

LEMMA DriveStands ==
  ASSUME UNCHANGED drive
  PROVE  /\ DriveAges /\ DriveShrinks
         /\ \A b \in Backups :
              Made(b, "bin")' = Made(b, "bin") /\ Made(b, "man")' = Made(b, "man")
         /\ \A b, a : Live(b, a)' = Live(b, a)
BY DEF DriveAges, DriveShrinks, Made, Live

LEMMA RowStands ==
  ASSUME TypeOK, NEW b \in Backups, row'[b] = row[b]
  PROVE  RowAges(b) /\ RowEnv(b)
<1>1. row[b].id \in Nat
  BY DEF TypeOK
<1> QED
  BY <1>1 DEF RowAges, RowEnv

\* A row that replaces none is new.
LEMMA RowRenewed ==
  ASSUME TypeOK, NEW b \in Backups, row'[b] = NewRow(row[b])
  PROVE  RowAges(b) /\ RowEnv(b) /\ row'[b] \in Rows
<1>1. row[b] \in Rows /\ row[b].id \in Nat
  BY Typing DEF Rows
<1> QED
  BY <1>1, NewRowTyped DEF RowAges, RowEnv

\* The steps that leave rows, files and sessions alone.
LEMMA StillStep ==
  ASSUME IInv, UNCHANGED <<row, drive, session, job, overlapped>>, TypeOK', AuditInv'
  PROVE  IInv'
BY DriveStands, RowStands, EnvironmentKeeps DEF IInv

LEMMA CatalogueStep ==
  ASSUME IInv, NEW b \in Backups, Verified(b) \/ Enqueue(b) \/ Pruned(b) \/ RetryRead(b)
  PROVE  IInv'
<1>1. CASE Verified(b) \/ Pruned(b)
  <2>1. TypeOK'
    BY <1>1, RareTyped DEF IInv, TypeOK, Verified, Pruned
  <2>2. AuditInv'
    BY <1>1, DriveStands DEF IInv, AuditInv, Verified, Pruned
  <2> QED
    BY <1>1, <2>1, <2>2, StillStep DEF Verified, Pruned
<1>2. CASE RetryRead(b)
  <2>1. /\ UNCHANGED <<backup, row, drive, session, job, audit, overlapped>> /\ Rare
        /\ admin' = [pc |-> "write", b |-> b, id |-> row[b].id,
                     att |-> IF row[b].status = "FAILED" THEN 0 ELSE row[b].attempts]
    BY <1>2 DEF RetryRead
  <2>2. row[b].id \in Nat /\ row[b].attempts \in Nat
    BY DEF IInv, TypeOK
  <2>3. admin' \in [pc : {"idle", "write"}, b : Backups \cup {0}, id : Nat, att : Nat]
    BY <2>1, <2>2
  <2>4. TypeOK'
    BY <2>1, <2>3, RareTyped DEF IInv, TypeOK
  <2>5. AuditInv'
    BY <2>1, DriveStands DEF IInv, AuditInv
  <2> QED
    BY <2>1, <2>4, <2>5, StillStep
<1>3. CASE Enqueue(b)
  <2>1. /\ row' = [row EXCEPT ![b] = NewRow(row[b])]
        /\ UNCHANGED <<backup, drive, session, job, admin, audit, overlapped, rare>>
    BY <1>3 DEF Enqueue
  <2>2. row'[b] = NewRow(row[b]) /\ \A c \in Backups \ {b} : row'[c] = row[c]
    BY <2>1, Typing DEF IInv
  <2>3. RowAges(b) /\ RowEnv(b) /\ NewRow(row[b]) \in Rows
    BY <2>2, RowRenewed DEF IInv
  <2>4. TypeOK'
    <3>1. row' \in [Backups -> Rows]
      BY <2>1, <2>3, Typing DEF IInv
    <3> QED
      BY <2>1, <3>1 DEF IInv, TypeOK, Rows
  <2>5. AuditInv'
    BY <2>1, DriveStands DEF IInv, AuditInv
  <2> QED
    BY <2>1, <2>2, <2>3, <2>4, <2>5, DriveStands, RowStands, EnvironmentKeeps DEF IInv
<1> QED
  BY <1>1, <1>2, <1>3

\* A restore empties the table.
LEMMA WipeStep == ASSUME IInv, Wipe PROVE IInv'
<1>1. /\ row' = [b \in Backups |-> [NoRow EXCEPT !.id = row[b].id]] /\ Rare
      /\ UNCHANGED <<backup, drive, session, job, admin, audit, overlapped>>
  BY DEF Wipe
<1>2. ASSUME NEW b \in Backups
      PROVE  /\ row'[b] \in Rows /\ row'[b].id = row[b].id /\ row'[b].status = "NONE"
             /\ row'[b].sess = 0 /\ row'[b].bin = 0 /\ row'[b].man = 0 /\ ~row'[b].missing
  <2>1. row[b].id \in Nat
    BY DEF IInv, TypeOK
  <2> QED
    BY <1>1, <2>1, Bounds DEF NoRow, Rows, Statuses
<1>3. \A b \in Backups : RowAges(b) /\ RowEnv(b)
  <2>1. \A b \in Backups : row[b].id \in Nat
    BY DEF IInv, TypeOK
  <2> QED
    BY <1>2, <2>1 DEF RowAges, RowEnv
<1>4. TypeOK'
  <2>1. row' \in [Backups -> Rows]
    BY <1>1, <1>2
  <2> QED
    BY <1>1, <2>1, RareTyped DEF IInv, TypeOK, Rows
<1>5. AuditInv'
  BY <1>1, DriveStands DEF IInv, AuditInv
<1> QED
  BY <1>1, <1>3, <1>4, <1>5, DriveStands, EnvironmentKeeps DEF IInv

LEMMA RetryWriteStep == ASSUME IInv, RetryWrite PROVE IInv'
<1>0. /\ admin' = NoCall /\ UNCHANGED <<backup, drive, session, job, audit, overlapped, rare>>
      /\ \/ row' = row
         \/ /\ row[admin.b].status # "NONE"
            /\ row' = [row EXCEPT ![admin.b] = [@ EXCEPT !.status = "PENDING",
                         !.attempts = admin.att, !.ripe = FALSE, !.missing = FALSE]]
  BY DEF RetryWrite
<1>1. ASSUME NEW b \in Backups
      PROVE  row'[b] \in Rows /\ RowAges(b) /\ RowEnv(b)
  <2>1. row[b] \in Rows /\ row[b].id \in Nat /\ admin.att \in Nat
    BY Typing DEF IInv, TypeOK, Rows
  <2>2. CASE row'[b] = row[b]
    BY <2>1, <2>2, RowStands DEF IInv
  <2>3. CASE /\ row[b].status # "NONE"
             /\ row'[b] = [row[b] EXCEPT !.status = "PENDING",
                             !.attempts = admin.att, !.ripe = FALSE, !.missing = FALSE]
    <3>1. /\ row'[b] \in Rows /\ row'[b].id = row[b].id /\ row'[b].status = "PENDING"
          /\ row'[b].sess = row[b].sess /\ row'[b].bin = row[b].bin
          /\ row'[b].man = row[b].man /\ ~row'[b].missing
      BY <2>1, <2>3 DEF Rows, Statuses
    <3> QED
      BY <2>1, <2>3, <3>1 DEF RowAges, RowEnv
  <2>4. row'[b] = row[b] \/ (b = admin.b /\ row[b].status # "NONE"
          /\ row'[b] = [row[b] EXCEPT !.status = "PENDING",
                          !.attempts = admin.att, !.ripe = FALSE, !.missing = FALSE])
    BY <1>0, Typing DEF IInv
  <2> QED
    BY <2>2, <2>3, <2>4
<1>2. TypeOK'
  <2>1. row' \in [Backups -> Rows]
    BY <1>0, <1>1, Typing DEF IInv
  <2>2. NoCall \in [pc : {"idle", "write"}, b : Backups \cup {0}, id : Nat, att : Nat]
    BY DEF NoCall
  <2> QED
    BY <1>0, <2>1, <2>2 DEF IInv, TypeOK, Rows
<1>3. AuditInv'
  BY <1>0, DriveStands DEF IInv, AuditInv
<1> QED
  BY <1>0, <1>1, <1>2, <1>3, DriveStands, EnvironmentKeeps DEF IInv

\* A reconcile tells a missing file from one that cannot be asked for: what it names was
\* made, so what is not live has been trashed.
LEMMA ReconcileStep ==
  ASSUME IInv, ReconcileWrite \/ \E b \in Backups : ReconcileRead(b)
  PROVE  IInv'
<1>1. ASSUME NEW b \in Backups, ReconcileRead(b) PROVE IInv'
  <2>1. /\ UNCHANGED <<backup, row, drive, session, job, admin, overlapped, rare>>
        /\ row[b].status = "COMPLETED"
        /\ audit' = [pc |-> "probe", b |-> b, id |-> row[b].id, bin |-> row[b].bin,
                     man |-> row[b].man]
    BY <1>1 DEF ReconcileRead
  <2>2. row[b].id \in Nat /\ row[b].bin \in File /\ row[b].man \in File
    BY DEF IInv, TypeOK
  <2>3. audit' \in [pc : {"idle", "probe"}, b : Backups \cup {0}, id : Nat, bin : File, man : File]
    BY <2>1, <2>2
  <2>4. TypeOK'
    BY <2>1, <2>3 DEF IInv, TypeOK
  <2>5. row[b].bin \in Made(b, "bin") /\ row[b].man \in Made(b, "man")
    BY <2>1 DEF IInv, RowInv
  <2>6. AuditInv'
    BY <2>1, <2>5, DriveStands DEF AuditInv
  <2> QED
    BY <2>1, <2>4, <2>6, StillStep
<1>2. ASSUME ReconcileWrite PROVE IInv'
  <2>1. /\ audit.pc = "probe" /\ audit' = NoAudit
        /\ UNCHANGED <<backup, drive, session, job, admin, overlapped, rare>>
    BY <1>2 DEF ReconcileWrite
  <2>2. PICK c \in Backups : audit.b = c /\ audit.bin \in Made(c, "bin")
                             /\ audit.man \in Made(c, "man")
    BY <2>1 DEF IInv, AuditInv
  <2>3. PICK v \in Verdict :
          row' = IF row[c].id = audit.id /\ row[c].status # "NONE"
                   THEN [row EXCEPT ![c].missing = (v = "absent")] ELSE row
    BY <1>2, <2>2 DEF ReconcileWrite
  <2>4. v = "absent" => \E a \in Artifacts, f \in Copies : drive[c][a][f] = "trashed"
    <3>1. v = "absent" =>
            audit.bin \notin Live(c, "bin") \/ audit.man \notin Live(c, "man")
      BY <2>2, <2>3 DEF Verdict, Present
    <3>2. \A a \in Artifacts, f \in Copies : drive[c][a][f] \in {"none", "live", "trashed"}
      BY DEF IInv, TypeOK
    <3> QED
      BY <2>2, <3>1, <3>2 DEF Live, Made, Artifacts
  <2>5. /\ \A b \in Backups \ {c} : row'[b] = row[b]
        /\ row'[c] \in Rows /\ row'[c].id = row[c].id /\ row'[c].status = row[c].status
        /\ row'[c].sess = row[c].sess /\ row'[c].bin = row[c].bin /\ row'[c].man = row[c].man
        /\ row'[c].missing => row[c].missing \/ v = "absent"
        /\ row' \in [Backups -> Rows]
    <3>1. row \in [Backups -> Rows] /\ row[c] \in Rows
      BY Typing DEF IInv
    <3> DEFINE r == [row[c] EXCEPT !.missing = (v = "absent")]
    <3>2. /\ r \in Rows /\ r.id = row[c].id /\ r.status = row[c].status
          /\ r.sess = row[c].sess /\ r.bin = row[c].bin /\ r.man = row[c].man
          /\ r.missing => v = "absent"
      BY <3>1 DEF Rows
    <3>3. row' = row \/ row' = [row EXCEPT ![c] = r]
      BY <2>3, <3>1
    <3> HIDE DEF r
    <3> QED
      BY <3>1, <3>2, <3>3
  <2>6. TypeOK'
    <3>1. NoAudit \in [pc : {"idle", "probe"}, b : Backups \cup {0}, id : Nat,
                       bin : File, man : File]
      BY Bounds DEF NoAudit
    <3> QED
      BY <2>1, <2>5, <3>1 DEF IInv, TypeOK, Rows
  <2>7. \A e \in Backups : row[e].id \in Nat
    BY DEF IInv, TypeOK
  <2>8. DriveAges /\ DriveShrinks /\ AuditInv'
    BY <2>1, DriveStands DEF AuditInv, NoAudit
  <2>9. ASSUME NEW w \in Workers PROVE JobInv(w)'
    <3>1. \A e \in Backups : RowAges(e)
      BY <2>5, <2>7 DEF RowAges
    <3> QED
      BY <2>1, <2>5, <2>7, <2>8, <3>1, JobKept DEF IInv, DriveShrinks
  <2>10. ASSUME NEW e \in Backups PROVE RowInv(e)' /\ Single(e)'
    <3>1. Single(e)'
      BY <2>1, DriveStands DEF IInv, Single
    <3>0. RowInv(e) /\ drive' = drive
          /\ Made(e, "bin")' = Made(e, "bin") /\ Made(e, "man")' = Made(e, "man")
      BY <2>1, DriveStands DEF IInv
    <3>2. CASE e # c
      <4>1. row'[e] = row[e]
        BY <2>5, <3>2
      <4> QED
        BY <3>0, <3>1, <4>1 DEF RowInv
    <3>3. CASE e = c
      BY <2>4, <2>5, <3>0, <3>1, <3>3 DEF RowInv
    <3> QED
      BY <3>1, <3>2, <3>3
  <2>11. ASSUME NEW s \in Sessions PROVE SessionInv(s)'
    <3>1. \A e \in Backups : row'[e].sess = row[e].sess
      BY <2>5
    <3>2. \A e \in Backups : Uses(e, s)' => Uses(e, s)
      BY <2>1, <3>1 DEF Uses
    <3> QED
      BY <2>1, <2>8, <3>2, SessionKept DEF IInv
  <2> QED
    BY <2>6, <2>8, <2>9, <2>10, <2>11 DEF IInv
<1> QED
  BY <1>1, <1>2

\* Time passes, and Drive loses what it had.
LEMMA TimeStep ==
  ASSUME IInv,
         \/ \E b \in Backups : Elapse(b) \/ \E a \in Artifacts, c \in Copies : Trash(b, a, c)
         \/ \E s \in Sessions : SessionExpires(s)
  PROVE  IInv'
<1>1. ASSUME NEW b \in Backups, Elapse(b) PROVE IInv'
  <2>1. /\ UNCHANGED <<backup, drive, session, job, admin, audit, overlapped, rare>>
        /\ row' = [row EXCEPT ![b] = [row[b] EXCEPT !.ripe = TRUE]]
    BY <1>1 DEF Elapse
  <2>2. /\ row' \in [Backups -> Rows] /\ \A c \in Backups \ {b} : row'[c] = row[c]
        /\ row'[b].id = row[b].id /\ row'[b].status = row[b].status
        /\ row'[b].sess = row[b].sess /\ row'[b].bin = row[b].bin /\ row'[b].man = row[b].man
        /\ row'[b].missing = row[b].missing
    <3> DEFINE r == [row[b] EXCEPT !.ripe = TRUE]
    <3>1. row \in [Backups -> Rows] /\ row[b] \in Rows
      BY Typing DEF IInv
    <3>2. /\ r \in Rows /\ r.id = row[b].id /\ r.status = row[b].status
          /\ r.sess = row[b].sess /\ r.bin = row[b].bin /\ r.man = row[b].man
          /\ r.missing = row[b].missing
      BY <3>1 DEF Rows
    <3>3. row' = [row EXCEPT ![b] = r]
      BY <2>1
    <3> HIDE DEF r
    <3> QED
      BY <3>1, <3>2, <3>3
  <2>3. \A c \in Backups : RowAges(c) /\ RowEnv(c)
    <3>1. \A c \in Backups : row[c].id \in Nat
      BY DEF IInv, TypeOK
    <3> QED
      BY <2>2, <3>1 DEF RowAges, RowEnv
  <2>4. TypeOK'
    BY <2>1, <2>2 DEF IInv, TypeOK, Rows
  <2>5. AuditInv'
    BY <2>1, DriveStands DEF IInv, AuditInv
  <2> QED
    BY <2>1, <2>3, <2>4, <2>5, DriveStands, EnvironmentKeeps DEF IInv
<1>2. ASSUME NEW b \in Backups, NEW a \in Artifacts, NEW c \in Copies, Trash(b, a, c)
      PROVE  IInv'
  <2>1. /\ drive[b][a][c] = "live" /\ drive' = [drive EXCEPT ![b][a][c] = "trashed"] /\ Rare
        /\ UNCHANGED <<backup, row, session, job, admin, audit, overlapped>>
    BY <1>2 DEF Trash
  <2>2. drive \in [Backups -> [Artifacts -> [Copies -> {"none", "live", "trashed"}]]]
    BY DEF IInv, TypeOK
  <2>3. /\ drive' \in [Backups -> [Artifacts -> [Copies -> {"none", "live", "trashed"}]]]
        /\ \A e \in Backups, k \in Artifacts, f \in Copies :
             drive'[e][k][f] = IF e = b /\ k = a /\ f = c THEN "trashed" ELSE drive[e][k][f]
    BY <2>1, <2>2
  <2>4. DriveAges /\ DriveShrinks
    BY <2>1, <2>3 DEF DriveAges, DriveShrinks, Live, Artifacts
  <2>5. TypeOK'
    BY <2>1, <2>3, RareTyped DEF IInv, TypeOK
  <2>6. AuditInv'
    BY <2>1, <2>4, MadeAges DEF IInv, AuditInv
  <2> QED
    BY <2>1, <2>4, <2>5, <2>6, RowStands, EnvironmentKeeps DEF IInv
<1>3. ASSUME NEW s \in Sessions, SessionExpires(s) PROVE IInv'
  <2>1. /\ session' = [session EXCEPT ![s].st = "gone"] /\ Rare
        /\ UNCHANGED <<backup, row, drive, job, admin, audit, overlapped>>
    BY <1>3 DEF SessionExpires
  <2>2. session \in [Sessions -> [st : {"free", "open", "done", "gone"}, file : File]]
    BY DEF IInv, TypeOK
  <2>3. /\ session' \in [Sessions -> [st : {"free", "open", "done", "gone"}, file : File]]
        /\ \A t \in Sessions : session'[t] = session[t] \/ session'[t].st = "gone"
    BY <2>1, <2>2
  <2>4. TypeOK'
    BY <2>1, <2>3, RareTyped DEF IInv, TypeOK
  <2>5. AuditInv'
    BY <2>1, DriveStands DEF IInv, AuditInv
  <2> QED
    BY <2>1, <2>3, <2>4, <2>5, DriveStands, RowStands, EnvironmentKeeps DEF IInv
<1> QED
  BY <1>1, <1>2, <1>3

-----------------------------------------------------------------------------
(* Steps of a worker                                                        *)

\* The worker of backup b, and what a step of it leaves to the others.
LEMMA WorkerKeeps ==
  ASSUME IInv, TypeOK', NEW w \in Workers, NEW b \in Backups, job[w].b = b,
         \A v \in Workers \ {w} : job'[v] = job[v], job'[w].b \in {b, 0},
         UNCHANGED <<audit, overlapped>>, DriveAges, RowAges(b),
         \A c \in Backups \ {b} : row'[c] = row[c] /\ drive'[c] = drive[c],
         JobInv(w)', RowInv(b)',
         b \notin overlapped => \A a \in Artifacts : \A c, d \in Live(b, a)' : c = d,
         \A s \in Sessions : SessionInv(s)'
  PROVE  IInv'
<1>0. \A c \in Backups : RowAges(c) /\ row'[c].id \in Nat
  BY RowStands DEF IInv, TypeOK
<1>1. ASSUME NEW v \in Workers PROVE JobInv(v)'
  <2>1. CASE v = w
    BY <2>1
  <2>2. CASE v # w
    <3>1. job[v].b = b => b \in overlapped
      BY <2>2 DEF IInv, Single
    <3>2. \A c \in Backups \ {b} : \A a : Live(c, a)' = Live(c, a)
      BY DEF Live
    <3> QED
      BY <1>0, <2>2, <3>1, <3>2, JobKept DEF IInv
  <2> QED
    BY <2>1, <2>2
<1>2. ASSUME NEW c \in Backups PROVE RowInv(c)' /\ Single(c)'
  <2>1. \A v, u \in Workers : job'[v].b = c /\ job'[u].b = c => job[v].b = c /\ job[u].b = c
    BY Bounds
  <2>2. CASE c = b
    BY <2>1, <2>2 DEF IInv, Single
  <2>3. CASE c # b
    <3>1. row'[c] = row[c] /\ drive'[c] = drive[c] /\ RowInv(c) /\ Single(c)
      BY <2>3 DEF IInv
    <3>2. RowInv(c)'
      BY <3>1 DEF RowInv, Made
    <3>3. Single(c)'
      BY <2>1, <3>1 DEF Single, Live
    <3> QED
      BY <3>2, <3>3
  <2> QED
    BY <2>2, <2>3
<1>3. AuditInv'
  BY MadeAges DEF IInv, AuditInv
<1> QED
  BY <1>1, <1>2, <1>3 DEF IInv

\* A worker that ends knows nothing.
LEMMA IdleKnows ==
  ASSUME NEW w \in Workers, job'[w] = NoJob
  PROVE  JobInv(w)'
BY EmptyTyped, Bounds DEF JobInv

\* A step that writes nothing.
LEMMA QuietStep ==
  ASSUME IInv, TypeOK', NEW w \in Workers, NEW b \in Backups, job[w].b = b,
         \A v \in Workers \ {w} : job'[v] = job[v], job'[w].b \in {b, 0},
         job'[w].sess \in {job[w].sess, 0},
         UNCHANGED <<row, drive, session, audit, overlapped>>, JobInv(w)'
  PROVE  IInv'
<1>1. DriveAges /\ RowAges(b)
  BY DriveStands, RowStands DEF IInv
<1>2. RowInv(b)'
  BY DriveStands DEF IInv, RowInv
<1>3. \A a \in Artifacts : Live(b, a)' = Live(b, a)
  BY DriveStands
<1>4. ASSUME NEW s \in Sessions PROVE SessionInv(s)'
  <2>1. \A c \in Backups : Uses(c, s)' => Uses(c, s)
    BY Bounds DEF Uses
  <2> QED
    BY <1>1, <2>1, SessionKept DEF IInv
<1>5. b \notin overlapped => \A a \in Artifacts : \A c, d \in Live(b, a)' : c = d
  BY <1>3 DEF IInv, Single
<1> QED
  BY <1>1, <1>2, <1>4, <1>5, WorkerKeeps

\* A worker that is under way is at work on a backup.
LEMMA AtWork ==
  ASSUME IInv, NEW w \in Workers, job[w].pc # "idle"
  PROVE  \E b \in Backups : job[w].b = b /\ Knows(w, b)
BY Typing DEF IInv, JobInv

LEMMA LeaveStep ==
  ASSUME IInv, NEW w \in Workers, DepsFail(w) \/ Crash(w)
  PROVE  IInv'
<1>1. /\ job[w].pc # "idle" /\ Rare /\ Done(w)
      /\ UNCHANGED <<backup, row, drive, session, admin, audit, overlapped>>
  BY DEF DepsFail, Crash
<1>2. PICK b \in Backups : job[w].b = b
  BY <1>1, AtWork
<1>3. /\ job' \in [Workers -> Jobs] /\ job'[w] = NoJob
      /\ \A v \in Workers \ {w} : job'[v] = job[v]
  BY <1>1, DoneEffect DEF IInv
<1>4. TypeOK'
  BY <1>1, <1>3, RareTyped DEF IInv, TypeOK, Jobs
<1> QED
  BY <1>1, <1>2, <1>3, <1>4, IdleKnows, EmptyTyped, QuietStep

\* What a worker has seen sends it on: nothing is there and it uploads, or the file that
\* is there was made of its backup.
Advance(w, b) ==
  /\ job' \in [Workers -> Jobs] /\ \A v \in Workers \ {w} : job'[v] = job[v]
  /\ job'[w].b = b /\ job'[w].sess = job[w].sess /\ job'[w].id = job[w].id
  /\ \/ job'[w].pc = "session" /\ Live(b, "bin") = {}
     \/ job'[w].pc = "put" /\ job[w].pc = "session" /\ job'[w].sess # 0
     \/ job'[w].pc = "listMan" /\ job'[w].bin \in Made(b, "bin")
     \/ /\ job'[w].pc = "putMan" /\ Live(b, "man") = {}
        /\ job'[w].bin \in Made(b, "bin")
     \/ /\ job'[w].pc = "uploaded"
        /\ job'[w].bin \in Made(b, "bin") /\ job'[w].man \in Made(b, "man")

LEMMA FoundEffect ==
  ASSUME TypeOK, NEW w \in Workers, NEW b \in Backups, job[w].b = b, NEW c,
         \/ c \in Made(b, "bin") /\ job' = [job EXCEPT ![w] = [@ EXCEPT !.pc = "listMan", !.bin = c]]
         \/ /\ c \in Made(b, "man") /\ job[w].bin \in Made(b, "bin")
            /\ job' = [job EXCEPT ![w] = [@ EXCEPT !.pc = "uploaded", !.man = c]]
  PROVE  Advance(w, b)
<1>1. job[w] \in Jobs /\ job \in [Workers -> Jobs] /\ c \in File
  BY Typing DEF Made, File
<1>2. CASE c \in Made(b, "bin") /\ job' = [job EXCEPT ![w] = [@ EXCEPT !.pc = "listMan", !.bin = c]]
  <2> DEFINE r == [job[w] EXCEPT !.pc = "listMan", !.bin = c]
  <2>1. /\ r \in Jobs /\ r.pc = "listMan" /\ r.bin = c /\ r.b = b
        /\ r.sess = job[w].sess /\ r.id = job[w].id
    BY <1>1 DEF Jobs, Phases
  <2>2. job' = [job EXCEPT ![w] = r]
    BY <1>2
  <2> HIDE DEF r
  <2> QED
    BY <1>2, <2>1, <2>2, JobBecomes DEF Advance
<1>3. CASE /\ c \in Made(b, "man") /\ job[w].bin \in Made(b, "bin")
           /\ job' = [job EXCEPT ![w] = [@ EXCEPT !.pc = "uploaded", !.man = c]]
  <2> DEFINE r == [job[w] EXCEPT !.pc = "uploaded", !.man = c]
  <2>1. /\ r \in Jobs /\ r.pc = "uploaded" /\ r.bin = job[w].bin /\ r.man = c /\ r.b = b
        /\ r.sess = job[w].sess /\ r.id = job[w].id
    BY <1>1 DEF Jobs, Phases
  <2>2. job' = [job EXCEPT ![w] = r]
    BY <1>3
  <2> HIDE DEF r
  <2> QED
    BY <1>3, <2>1, <2>2, JobBecomes DEF Advance
<1> QED
  BY <1>2, <1>3

\* A session that is complete made its file of the backup it is used for.
LEMMA SessionFile ==
  ASSUME IInv, NEW w \in Workers, NEW b \in Backups, job[w].b = b, job[w].sess # 0,
         session[job[w].sess].st = "done"
  PROVE  session[job[w].sess].file \in Made(b, "bin")
<1>1. PICK s \in Sessions : s = job[w].sess
  BY Typing DEF IInv, Jobs, Sess
<1>2. Uses(b, s)
  BY <1>1 DEF Uses
<1> QED
  BY <1>1, <1>2 DEF IInv, SessionInv

\* Files are looked for at the destination, and the session at Drive.
LEMMA ListEffect ==
  ASSUME IInv, NEW w \in Workers, ListBin(w) \/ ListMan(w) \/ Resume(w),
         NEW b \in Backups, job[w].b = b, Knows(w, b)
  PROVE  Advance(w, b)
<1>1. \A a \in Artifacts : Live(b, a) \in SUBSET Made(b, a)
  BY DEF Live, Made
<1>2. CASE ListBin(w)
  <2>1. CASE Live(b, "bin") = {} /\ Goto(w, "session")
    BY <2>1, GotoEffect DEF IInv, Phases, Advance
  <2>2. ASSUME NEW c \in Live(b, "bin"),
               job' = [job EXCEPT ![w] = [@ EXCEPT !.pc = "listMan", !.bin = c]]
        PROVE  Advance(w, b)
    BY <1>1, <2>2, FoundEffect DEF IInv, Artifacts
  <2> QED
    BY <1>2, <2>1, <2>2 DEF ListBin
<1>3. CASE ListMan(w)
  <2>0. job[w].bin \in Made(b, "bin")
    BY <1>3 DEF ListMan, Knows
  <2>1. CASE Live(b, "man") = {} /\ Goto(w, "putMan")
    BY <2>0, <2>1, GotoEffect DEF IInv, Phases, Advance
  <2>2. ASSUME NEW c \in Live(b, "man"),
               job' = [job EXCEPT ![w] = [@ EXCEPT !.pc = "uploaded", !.man = c]]
        PROVE  Advance(w, b)
    BY <1>1, <2>0, <2>2, FoundEffect DEF IInv, Artifacts
  <2> QED
    BY <1>3, <2>1, <2>2 DEF ListMan
<1>4. CASE Resume(w)
  <2>1. CASE Goto(w, "put")
    BY <1>4, <2>1, GotoEffect DEF Resume, IInv, Phases, Advance
  <2>2. CASE /\ session[job[w].sess].st = "done"
             /\ job' = [job EXCEPT ![w] =
                          [@ EXCEPT !.pc = "listMan", !.bin = session[job[w].sess].file]]
    <3>1. PICK c : c = session[job[w].sess].file
      OBVIOUS
    <3>2. c \in Made(b, "bin")
      BY <1>4, <2>2, <3>1, SessionFile DEF Resume
    <3> QED
      BY <2>2, <3>1, <3>2, FoundEffect DEF IInv
  <2> QED
    BY <1>4, <2>1, <2>2 DEF Resume
<1> QED
  BY <1>2, <1>3, <1>4

LEMMA ListStep ==
  ASSUME IInv, NEW w \in Workers, ListBin(w) \/ ListMan(w) \/ Resume(w)
  PROVE  IInv'
<1>0. /\ UNCHANGED <<backup, row, drive, session, admin, audit, overlapped, rare>>
      /\ job[w].pc \in {"listBin", "listMan", "session"}
  BY DEF ListBin, ListMan, Resume
<1>1. PICK b \in Backups : job[w].b = b /\ Knows(w, b)
  BY <1>0, AtWork
<1>2. Advance(w, b)
  BY <1>1, ListEffect
<1>3. TypeOK'
  BY <1>0, <1>2 DEF IInv, TypeOK, Jobs, Advance
<1>4. Knows(w, b)'
  BY <1>0, <1>1, <1>2, DriveStands DEF Knows, Advance
<1>5. JobInv(w)'
  BY <1>2, <1>4, Bounds DEF JobInv, Advance
<1> QED
  BY <1>0, <1>1, <1>2, <1>3, <1>5, QuietStep DEF Advance

\* The row is read, or made, and what the worker remembers of it is what it says.
LEMMA LoadStep ==
  ASSUME IInv, NEW w \in Workers, Load(w)
  PROVE  IInv'
<1>0. /\ UNCHANGED <<backup, drive, session, admin, audit, overlapped, rare>>
      /\ job[w].pc = "load"
  BY DEF Load
<1>1. PICK b \in Backups : job[w].b = b
  BY <1>0, AtWork
<1>2. job[w] \in Jobs /\ job \in [Workers -> Jobs] /\ row \in [Backups -> Rows]
  BY Typing DEF IInv
<1>3. PICK r : r = IF row[b].status = "NONE" THEN NewRow(row[b]) ELSE row[b]
  OBVIOUS
<1>4. r \in Rows
  BY <1>2, <1>3, NewRowTyped
<1>5. CASE Done(w) /\ UNCHANGED row
  <2>1. /\ job' \in [Workers -> Jobs] /\ job'[w] = NoJob
        /\ \A v \in Workers \ {w} : job'[v] = job[v]
    BY <1>5, DoneEffect DEF IInv
  <2>2. TypeOK'
    BY <1>0, <1>5, <2>1 DEF IInv, TypeOK, Jobs
  <2> QED
    BY <1>0, <1>1, <1>5, <2>1, <2>2, IdleKnows, EmptyTyped, QuietStep
<1>6. CASE /\ row' = [row EXCEPT ![b] = r]
           /\ \/ Done(w)
              \/ /\ r.status \notin {"COMPLETED", "FAILED"}
                 /\ job' = [job EXCEPT ![w] =
                      [@ EXCEPT !.pc = "start", !.id = r.id, !.att = NextAttempt(r),
                                !.sess = r.sess]]
  <2>1. /\ row' \in [Backups -> Rows] /\ row'[b] = r
        /\ \A c \in Backups \ {b} : row'[c] = row[c]
    BY <1>2, <1>4, <1>6
  <2>2. RowAges(b) /\ RowEnv(b)
    BY <1>3, <2>1, RowStands, RowRenewed DEF IInv
  <2>3. /\ job' \in [Workers -> Jobs] /\ \A v \in Workers \ {w} : job'[v] = job[v]
        /\ \/ job'[w] = NoJob
           \/ /\ r.status # "COMPLETED"
              /\ job'[w].pc = "start" /\ job'[w].b = b /\ job'[w].id = r.id
              /\ job'[w].sess = r.sess
    <3>1. CASE Done(w)
      BY <3>1, DoneEffect DEF IInv
    <3>2. CASE ~Done(w)
      <4> DEFINE n == [job[w] EXCEPT !.pc = "start", !.id = r.id, !.att = NextAttempt(r),
                                     !.sess = r.sess]
      <4>1. NextAttempt(r) \in Nat
        BY <1>4, Bounds DEF NextAttempt, Rows
      <4>2. /\ n \in Jobs /\ n.pc = "start" /\ n.b = b /\ n.id = r.id /\ n.sess = r.sess
        BY <1>1, <1>2, <1>4, <4>1 DEF Jobs, Phases, Rows
      <4>3. job' = [job EXCEPT ![w] = n]
        BY <1>6, <3>2
      <4> HIDE DEF n
      <4> QED
        BY <1>6, <3>2, <4>2, <4>3, JobBecomes DEF IInv
    <3> QED
      BY <3>1, <3>2
  <2>4. TypeOK'
    BY <1>0, <2>1, <2>3 DEF IInv, TypeOK, Jobs, Rows
  <2>5. DriveAges /\ RowInv(b)' /\ \A a \in Artifacts : Live(b, a)' = Live(b, a)
    BY <1>0, <2>2, DriveStands, RowEnvKept DEF IInv
  <2>6. JobInv(w)'
    <3>1. CASE job'[w] = NoJob
      BY <3>1, IdleKnows
    <3>2. CASE job'[w] # NoJob
      <4>1. r.id \in Nat
        BY <1>4 DEF Rows
      <4>2. Knows(w, b)'
        BY <2>1, <2>3, <3>2, <4>1 DEF Knows
      <4> QED
        BY <2>3, <3>2, <4>2, Bounds DEF JobInv
    <3> QED
      BY <3>1, <3>2
  <2>7. ASSUME NEW s \in Sessions PROVE SessionInv(s)'
    <3>1. r.sess \in {row[b].sess, 0}
      BY <1>2, <1>3, NewRowTyped
    <3>2. \A c \in Backups : Uses(c, s)' => Uses(c, s)
      BY <1>1, <2>1, <2>3, <3>1, EmptyTyped, Bounds DEF Uses
    <3> QED
      BY <1>0, <2>5, <3>2, SessionKept DEF IInv
  <2>8. b \notin overlapped => \A a \in Artifacts : \A c, d \in Live(b, a)' : c = d
    BY <2>5 DEF IInv, Single
  <2>9. \A c \in Backups \ {b} : row'[c] = row[c] /\ drive'[c] = drive[c]
    BY <1>0, <2>1
  <2>10. job'[w].b \in {b, 0}
    BY <2>3, EmptyTyped
  <2> QED
    BY <1>0, <1>1, <2>2, <2>3, <2>4, <2>5, <2>6, <2>7, <2>8, <2>9, <2>10, WorkerKeeps
<1> QED
  BY <1>1, <1>3, <1>5, <1>6 DEF Load

\* The self-heal, the watchdog and the rehydration of a tick.
LEMMA MaintainedRow ==
  ASSUME TypeOK, NEW b \in Backups, row'[b] = Maintained(b)
  PROVE  RowAges(b) /\ RowEnv(b) /\ Maintained(b) \in Rows
<1>1. row[b] \in Rows /\ row[b].id \in Nat
  BY Typing DEF Rows
<1>2. CASE Maintained(b) = NewRow(row[b])
  BY <1>2, RowRenewed
<1>3. CASE Maintained(b) = row[b]
  BY <1>1, <1>3, RowStands
<1>4. CASE /\ Maintained(b) = [row[b] EXCEPT !.status = "PENDING", !.ripe = FALSE]
           /\ row[b].status \in {"UPLOADING", "RETRYABLE_FAILURE"}
  <2> DEFINE r == [row[b] EXCEPT !.status = "PENDING", !.ripe = FALSE]
  <2>1. /\ r \in Rows /\ r.id = row[b].id /\ r.status = "PENDING"
        /\ r.sess = row[b].sess /\ r.bin = row[b].bin
        /\ r.man = row[b].man /\ r.missing = row[b].missing
    BY <1>1 DEF Rows, Statuses
  <2>2. row'[b] = r /\ Maintained(b) = r
    BY <1>4
  <2> HIDE DEF r
  <2> QED
    BY <1>1, <1>4, <2>1, <2>2 DEF RowAges, RowEnv
<1> QED
  BY <1>2, <1>3, <1>4 DEF Maintained

LEMMA TickStep ==
  ASSUME IInv, NEW w \in Workers, Tick(w)
  PROVE  IInv'
<1>0. /\ row' = [b \in Backups |-> Maintained(b)] /\ job[w].pc = "idle"
      /\ UNCHANGED <<backup, drive, session, admin, audit, rare>>
  BY DEF Tick
<1>1. \A b \in Backups : RowAges(b) /\ RowEnv(b) /\ row'[b] \in Rows /\ row'[b].id \in Nat
  BY <1>0, MaintainedRow DEF IInv, Rows
<1>2. row' \in [Backups -> Rows] /\ DriveAges /\ DriveShrinks /\ AuditInv'
  BY <1>0, <1>1, DriveStands DEF IInv, AuditInv
<1>3. CASE UNCHANGED <<job, overlapped>>
  <2>1. TypeOK'
    BY <1>0, <1>2, <1>3 DEF IInv, TypeOK, Rows
  <2> QED
    BY <1>0, <1>1, <1>2, <1>3, <2>1, EnvironmentKeeps
<1>4. ASSUME NEW b \in Backups,
             job' = [job EXCEPT ![w] = [NoJob EXCEPT !.pc = "load", !.b = b]],
             overlapped' = IF \E v \in Workers : job[v].b = b
                             THEN overlapped \cup {b} ELSE overlapped
      PROVE  IInv'
  <2>1. /\ job' \in [Workers -> Jobs] /\ \A v \in Workers \ {w} : job'[v] = job[v]
        /\ job'[w].pc = "load" /\ job'[w].b = b /\ job'[w].sess = 0
    <3> DEFINE n == [NoJob EXCEPT !.pc = "load", !.b = b]
    <3>1. n \in Jobs /\ n.pc = "load" /\ n.b = b /\ n.sess = 0
      BY EmptyTyped DEF Jobs, Phases
    <3> HIDE DEF n
    <3> QED
      BY <1>4, <3>1, JobBecomes DEF IInv, n
  <2>2. TypeOK'
    BY <1>0, <1>2, <1>4, <2>1 DEF IInv, TypeOK, Jobs, Rows
  <2>3. ASSUME NEW v \in Workers PROVE JobInv(v)'
    <3>1. CASE v = w
      BY <2>1, <3>1, Bounds DEF JobInv, Knows
    <3>2. CASE v # w
      BY <1>1, <1>2, <1>4, <2>1, <3>2, JobKept DEF IInv, DriveShrinks, RowEnv
    <3> QED
      BY <3>1, <3>2
  <2>4. ASSUME NEW c \in Backups PROVE RowInv(c)' /\ Single(c)'
    <3>1. RowInv(c)'
      BY <1>1, <1>2, RowEnvKept DEF IInv
    <3>2. \A a \in Artifacts : Live(c, a)' = Live(c, a)
      BY <1>0, DriveStands
    <3>3. c \notin overlapped' =>
            c \notin overlapped /\ (c = b => \A v \in Workers : job[v].b # c)
      BY <1>4
    <3>4. \A v \in Workers : job'[v].b = c => (v = w /\ c = b) \/ (v # w /\ job[v].b = c)
      BY <2>1
    <3>5. Single(c)'
      <4>1. ASSUME c \notin overlapped', NEW v \in Workers, NEW u \in Workers,
                   job'[v].b = c, job'[u].b = c
            PROVE  v = u
        BY <3>3, <3>4, <4>1 DEF IInv, Single
      <4>2. ASSUME c \notin overlapped', NEW a \in Artifacts
            PROVE  \A f, g \in Live(c, a)' : f = g
        BY <3>2, <3>3, <4>2 DEF IInv, Single
      <4> QED
        BY <4>1, <4>2 DEF Single
    <3> QED
      BY <3>1, <3>5
  <2>5. ASSUME NEW s \in Sessions PROVE SessionInv(s)'
    <3>1. \A c \in Backups : Uses(c, s)' => Uses(c, s)
      BY <1>1, <2>1, Bounds DEF Uses, RowEnv
    <3> QED
      BY <1>0, <1>2, <3>1, SessionKept DEF IInv
  <2> QED
    BY <1>2, <2>2, <2>3, <2>4, <2>5 DEF IInv
<1> QED
  BY <1>3, <1>4 DEF Tick

\* An update of the worker's row, which may be gone: what it writes was made of its backup,
\* and a row is COMPLETED only with its files.
LEMMA WriteKeeps ==
  ASSUME IInv, NEW w \in Workers, NEW b \in Backups, job[w].b = b, job[w].pc # "idle",
         NEW r \in Rows, NEW phase \in Phases,
         UNCHANGED <<backup, drive, session, admin, audit, overlapped, rare>>,
         \/ Done(w) /\ UNCHANGED row
         \/ /\ row[b].id = job[w].id /\ row[b].status # "NONE"
            /\ row' = [row EXCEPT ![b] = r]
            /\ IF phase = "idle" THEN Done(w) ELSE Goto(w, phase),
         r.id = row[b].id, r.missing => row[b].missing,
         r.sess \in {row[b].sess, job[w].sess, 0},
         r.bin = row[b].bin \/ r.bin \in Made(b, "bin"),
         r.man = row[b].man \/ r.man \in Made(b, "man"),
         r.status = "COMPLETED" =>
           /\ r.bin # 0 /\ r.man # 0
           /\ phase = "idle" \/ row[b].status = "COMPLETED",
         \/ phase \in {"idle", "listBin"}
         \/ phase = "put" /\ job[w].pc = "persist"
         \/ phase = "verify" /\ job[w].pc = "uploaded" /\ r.bin # 0 /\ r.man # 0,
         phase # "idle" => job[w].pc # "load"
  PROVE  IInv'
<1>0. /\ job \in [Workers -> Jobs] /\ row \in [Backups -> Rows] /\ Knows(w, b)
      /\ r.id \in Nat
  BY Typing DEF IInv, JobInv, Rows
<1>1. CASE Done(w) /\ UNCHANGED row
  <2>1. /\ job' \in [Workers -> Jobs] /\ job'[w] = NoJob
        /\ \A v \in Workers \ {w} : job'[v] = job[v]
    BY <1>1, DoneEffect DEF IInv
  <2>2. TypeOK'
    BY <1>1, <2>1 DEF IInv, TypeOK, Jobs
  <2> QED
    BY <1>1, <2>1, <2>2, IdleKnows, EmptyTyped, QuietStep
<1>2. CASE /\ row[b].id = job[w].id /\ row[b].status # "NONE"
           /\ row' = [row EXCEPT ![b] = r]
           /\ IF phase = "idle" THEN Done(w) ELSE Goto(w, phase)
  <2>1. /\ row' \in [Backups -> Rows] /\ row'[b] = r
        /\ \A c \in Backups \ {b} : row'[c] = row[c]
    BY <1>0, <1>2
  <2>2. /\ job' \in [Workers -> Jobs] /\ \A v \in Workers \ {w} : job'[v] = job[v]
        /\ \/ job'[w] = NoJob
           \/ /\ phase # "idle" /\ job'[w].pc = phase /\ job'[w].b = b
              /\ job'[w].id = job[w].id /\ job'[w].sess = job[w].sess
              /\ job'[w].bin = job[w].bin /\ job'[w].man = job[w].man
    BY <1>2, DoneEffect, GotoEffect DEF IInv
  <2>3. TypeOK'
    BY <2>1, <2>2 DEF IInv, TypeOK, Jobs, Rows
  <2>4. DriveAges /\ (\A a \in Artifacts : Live(b, a)' = Live(b, a))
        /\ Made(b, "bin")' = Made(b, "bin") /\ Made(b, "man")' = Made(b, "man")
        /\ 0 \notin Made(b, "bin") /\ 0 \notin Made(b, "man")
    BY DriveStands, MadeAges
  <2>5. RowInv(b)'
    BY <2>1, <2>4, RowKept DEF IInv, RowInv
  <2>6. RowAges(b)
    BY <1>0, <1>2, <2>1, <2>4 DEF RowAges
  <2>7. JobInv(w)'
    <3>1. CASE job'[w] = NoJob
      BY <3>1, IdleKnows
    <3>2. CASE job'[w] # NoJob
      <4>1. /\ phase # "idle" /\ job'[w].pc = phase /\ job'[w].b = b
            /\ job'[w].id = job[w].id /\ job'[w].sess = job[w].sess
            /\ job'[w].bin = job[w].bin /\ job'[w].man = job[w].man
        BY <2>2, <3>2
      <4>2. b \notin overlapped => row'[b].status # "COMPLETED"
        BY <1>0, <1>2, <2>1, <4>1 DEF Knows
      <4>3. Live(b, "bin")' = Live(b, "bin") /\ Live(b, "man")' = Live(b, "man")
        BY <2>4 DEF Artifacts
      <4>4. Knows(w, b)'
        BY <1>0, <1>2, <2>1, <2>4, <4>1, <4>2, <4>3 DEF Knows
      <4> QED
        BY <4>1, <4>4, Bounds DEF JobInv
    <3> QED
      BY <3>1, <3>2
  <2>8. ASSUME NEW s \in Sessions PROVE SessionInv(s)'
    <3>1. \A c \in Backups : Uses(c, s)' => Uses(c, s)
      BY <2>1, <2>2, EmptyTyped, Bounds DEF Uses
    <3> QED
      BY <2>4, <3>1, SessionKept DEF IInv
  <2>9. b \notin overlapped => \A a \in Artifacts : \A c, d \in Live(b, a)' : c = d
    BY <2>4 DEF IInv, Single
  <2>10. /\ \A c \in Backups \ {b} : row'[c] = row[c] /\ drive'[c] = drive[c]
         /\ job'[w].b \in {b, 0}
    BY <2>1, <2>2, EmptyTyped
  <2> QED
    BY <2>2, <2>3, <2>4, <2>5, <2>6, <2>7, <2>8, <2>9, <2>10, WorkerKeeps
<1> QED
  BY <1>1, <1>2

LEMMA StartStep == ASSUME IInv, NEW w \in Workers, Start(w) PROVE IInv'
<1>0. job[w].pc = "start"
  BY DEF Start
<1>1. PICK b \in Backups : job[w].b = b /\ Knows(w, b)
  BY <1>0, AtWork
<1>2. PICK r : r = [row[b] EXCEPT !.status = "UPLOADING", !.attempts = job[w].att,
                                  !.ripe = FALSE, !.missing = FALSE]
  OBVIOUS
<1>3. row[b] \in Rows /\ job[w] \in Jobs
  BY Typing DEF IInv
<1>4. /\ r \in Rows /\ r.id = row[b].id /\ r.status = "UPLOADING" /\ r.sess = row[b].sess
      /\ r.bin = row[b].bin /\ r.man = row[b].man /\ ~r.missing
  BY <1>2, <1>3 DEF Rows, Jobs, Statuses
<1>5. /\ UNCHANGED <<backup, drive, session, admin, audit, overlapped, rare>>
      /\ \/ Done(w) /\ UNCHANGED row
         \/ /\ row[b].id = job[w].id /\ row[b].status # "NONE"
            /\ row' = [row EXCEPT ![b] = r] /\ Goto(w, "listBin")
  BY <1>1, <1>2 DEF Start, Write, Mine
<1> QED
  BY <1>0, <1>1, <1>4, <1>5, WriteKeeps DEF Phases

LEMMA PersistStep == ASSUME IInv, NEW w \in Workers, PersistSession(w) PROVE IInv'
<1>0. job[w].pc = "persist"
  BY DEF PersistSession
<1>1. PICK b \in Backups : job[w].b = b /\ Knows(w, b)
  BY <1>0, AtWork
<1>2. PICK r : r = [row[b] EXCEPT !.sess = job[w].sess]
  OBVIOUS
<1>3. row[b] \in Rows /\ job[w] \in Jobs /\ RowInv(b)
  BY Typing DEF IInv
<1>4. /\ r \in Rows /\ r.id = row[b].id /\ r.status = row[b].status /\ r.sess = job[w].sess
      /\ r.bin = row[b].bin /\ r.man = row[b].man /\ r.missing = row[b].missing
  BY <1>2, <1>3 DEF Rows, Jobs
<1>5. /\ UNCHANGED <<backup, drive, session, admin, audit, overlapped, rare>>
      /\ \/ Done(w) /\ UNCHANGED row
         \/ /\ row[b].id = job[w].id /\ row[b].status # "NONE"
            /\ row' = [row EXCEPT ![b] = r] /\ Goto(w, "put")
  BY <1>1, <1>2 DEF PersistSession, Write, Mine
<1> QED
  BY <1>0, <1>1, <1>3, <1>4, <1>5, WriteKeeps DEF Phases, RowInv

LEMMA VerifyingStep == ASSUME IInv, NEW w \in Workers, MarkVerifying(w) PROVE IInv'
<1>0. job[w].pc = "uploaded"
  BY DEF MarkVerifying
<1>1. PICK b \in Backups : job[w].b = b /\ Knows(w, b)
  BY <1>0, AtWork
<1>2. PICK r : r = [row[b] EXCEPT !.status = "VERIFYING", !.bin = job[w].bin, !.man = job[w].man]
  OBVIOUS
<1>3. /\ row[b] \in Rows /\ job[w] \in Jobs
      /\ job[w].bin \in Made(b, "bin") /\ job[w].man \in Made(b, "man")
      /\ job[w].bin # 0 /\ job[w].man # 0
  BY <1>0, <1>1, Typing, Bounds DEF IInv, Knows, Made
<1>4. /\ r \in Rows /\ r.id = row[b].id /\ r.status = "VERIFYING" /\ r.sess = row[b].sess
      /\ r.bin = job[w].bin /\ r.man = job[w].man /\ r.missing = row[b].missing
  BY <1>2, <1>3 DEF Rows, Jobs, Statuses
<1>5. /\ UNCHANGED <<backup, drive, session, admin, audit, overlapped, rare>>
      /\ \/ Done(w) /\ UNCHANGED row
         \/ /\ row[b].id = job[w].id /\ row[b].status # "NONE"
            /\ row' = [row EXCEPT ![b] = r] /\ Goto(w, "verify")
  BY <1>1, <1>2 DEF MarkVerifying, Write, Mine
<1> QED
  BY <1>0, <1>1, <1>3, <1>4, <1>5, WriteKeeps DEF Phases

\* A row is COMPLETED by a worker that has written its files to it.
LEMMA CompleteStep == ASSUME IInv, NEW w \in Workers, Complete(w) PROVE IInv'
<1>0. job[w].pc = "verify"
  BY DEF Complete
<1>1. PICK b \in Backups : job[w].b = b /\ Knows(w, b)
  BY <1>0, AtWork
<1>2. PICK r : r = [row[b] EXCEPT !.status = "COMPLETED", !.sess = 0, !.ripe = FALSE,
                                  !.missing = FALSE]
  OBVIOUS
<1>3. row[b] \in Rows /\ job[w] \in Jobs
  BY Typing DEF IInv
<1>4. /\ r \in Rows /\ r.id = row[b].id /\ r.sess = 0
      /\ r.bin = row[b].bin /\ r.man = row[b].man /\ ~r.missing
  BY <1>2, <1>3, Bounds DEF Rows, Statuses
<1>5. /\ UNCHANGED <<backup, drive, session, admin, audit, overlapped, rare>>
      /\ \/ Done(w) /\ UNCHANGED row
         \/ /\ row[b].id = job[w].id /\ row[b].status # "NONE"
            /\ row' = [row EXCEPT ![b] = r] /\ Done(w)
  BY <1>1, <1>2 DEF Complete, Write, Mine
<1>6. CASE row[b].id = job[w].id /\ row[b].status # "NONE"
  <2>1. row[b].bin # 0 /\ row[b].man # 0
    BY <1>0, <1>1, <1>6 DEF Knows
  <2> QED
    BY <1>0, <1>1, <1>4, <1>5, <2>1, WriteKeeps DEF Phases
<1>7. CASE ~(row[b].id = job[w].id /\ row[b].status # "NONE")
  <2>1. Done(w) /\ UNCHANGED row
    BY <1>5, <1>7
  <2>2. /\ job' \in [Workers -> Jobs] /\ job'[w] = NoJob
        /\ \A v \in Workers \ {w} : job'[v] = job[v]
    BY <2>1, DoneEffect DEF IInv
  <2>3. TypeOK'
    BY <1>5, <2>1, <2>2 DEF IInv, TypeOK, Jobs
  <2> QED
    BY <1>1, <1>5, <2>1, <2>2, <2>3, IdleKnows, EmptyTyped, QuietStep
<1> QED
  BY <1>6, <1>7

LEMMA FailureStep ==
  ASSUME IInv, NEW w \in Workers, Refused(w) \/ DriveFails(w)
  PROVE  IInv'
<1>0. job[w].pc \notin {"idle", "load"}
  BY DEF Refused, DriveFails, DrivePhases
<1>1. PICK b \in Backups : job[w].b = b /\ Knows(w, b)
  BY <1>0, AtWork
<1>2. PICK retryable \in BOOLEAN : RecordFailure(w, retryable)
  BY DEF Refused, DriveFails
<1>3. PICK r : r = [row[b] EXCEPT !.ripe = FALSE, !.missing = FALSE,
                      !.status = IF retryable /\ job[w].att < MaxAttempts
                                   THEN "RETRYABLE_FAILURE" ELSE "FAILED"]
  OBVIOUS
<1>4. row[b] \in Rows /\ job[w] \in Jobs
  BY Typing DEF IInv
<1>5. /\ r \in Rows /\ r.id = row[b].id /\ r.status # "COMPLETED" /\ r.sess = row[b].sess
      /\ r.bin = row[b].bin /\ r.man = row[b].man /\ ~r.missing
  BY <1>3, <1>4 DEF Rows, Statuses
<1>6. /\ UNCHANGED <<backup, drive, session, admin, audit, overlapped, rare>>
      /\ \/ Done(w) /\ UNCHANGED row
         \/ /\ row[b].id = job[w].id /\ row[b].status # "NONE"
            /\ row' = [row EXCEPT ![b] = r] /\ Done(w)
  BY <1>1, <1>2, <1>3 DEF RecordFailure, Write, Mine
<1> QED
  BY <1>0, <1>1, <1>5, <1>6, WriteKeeps DEF Phases

\* A worker that finds no session it can use opens one of its own: nobody has used it.
LEMMA OpenStep == ASSUME IInv, NEW w \in Workers, OpenSession(w) PROVE IInv'
<1>0. /\ UNCHANGED <<backup, row, drive, admin, audit, overlapped, rare>>
      /\ job[w].pc = "session"
  BY DEF OpenSession
<1>1. PICK b \in Backups : job[w].b = b /\ Knows(w, b)
  BY <1>0, AtWork
<1>2. PICK s \in Sessions :
        /\ session[s].st = "free"
        /\ session' = [session EXCEPT ![s] = [st |-> "open", file |-> 0]]
        /\ job' = [job EXCEPT ![w] = [@ EXCEPT !.pc = "persist", !.sess = s]]
  BY DEF OpenSession
<1>3. /\ session' \in [Sessions -> [st : {"free", "open", "done", "gone"}, file : File]]
      /\ session'[s].st = "open" /\ \A t \in Sessions \ {s} : session'[t] = session[t]
  BY <1>2, Bounds DEF IInv, TypeOK
<1>4. /\ job' \in [Workers -> Jobs] /\ \A v \in Workers \ {w} : job'[v] = job[v]
      /\ job'[w].pc = "persist" /\ job'[w].b = b /\ job'[w].sess = s /\ job'[w].id = job[w].id
  <2> DEFINE n == [job[w] EXCEPT !.pc = "persist", !.sess = s]
  <2>1. job[w] \in Jobs
    BY Typing DEF IInv
  <2>2. n \in Jobs /\ n.pc = "persist" /\ n.b = b /\ n.sess = s /\ n.id = job[w].id
    BY <1>1, <2>1 DEF Jobs, Phases, Sess
  <2>3. job' = [job EXCEPT ![w] = n]
    BY <1>2
  <2> HIDE DEF n
  <2> QED
    BY <2>2, <2>3, JobBecomes DEF IInv
<1>5. TypeOK'
  BY <1>0, <1>3, <1>4 DEF IInv, TypeOK, Jobs
<1>6. DriveAges /\ RowAges(b) /\ RowInv(b)' /\ \A a \in Artifacts : Live(b, a)' = Live(b, a)
  BY <1>0, DriveStands, RowStands, RowEnvKept DEF IInv
<1>7. JobInv(w)'
  <2>1. Knows(w, b)'
    BY <1>0, <1>1, <1>4, DriveStands, Bounds DEF Knows
  <2> QED
    BY <1>4, <2>1, Bounds DEF JobInv
<1>8. ASSUME NEW t \in Sessions PROVE SessionInv(t)'
  <2>1. CASE t = s
    <3>1. \A c \in Backups : Uses(c, s)' => c = b
      BY <1>0, <1>2, <1>4 DEF IInv, SessionInv, Uses
    <3> QED
      BY <1>3, <2>1, <3>1 DEF SessionInv
  <2>2. CASE t # s
    <3>1. \A c \in Backups : Uses(c, t)' => Uses(c, t)
      BY <1>0, <1>4, <2>2 DEF Uses
    <3> QED
      BY <1>3, <1>6, <2>2, <3>1, SessionKept DEF IInv
  <2> QED
    BY <2>1, <2>2
<1>9. b \notin overlapped => \A a \in Artifacts : \A c, d \in Live(b, a)' : c = d
  BY <1>6 DEF IInv, Single
<1> QED
  BY <1>0, <1>1, <1>4, <1>5, <1>6, <1>7, <1>8, <1>9, WorkerKeeps

\* A file is made of an artifact.
LEMMA FileMade ==
  ASSUME TypeOK, NEW b \in Backups, NEW a \in Artifacts, NEW c \in Unmade(b, a),
         drive' = [drive EXCEPT ![b][a][c] = "live"]
  PROVE  /\ drive' \in [Backups -> [Artifacts -> [Copies -> {"none", "live", "trashed"}]]]
         /\ \A d \in Backups \ {b} : drive'[d] = drive[d]
         /\ DriveAges /\ c \in Made(b, a)' /\ c \in File
         /\ \A d \in Live(b, a)' : d = c \/ d \in Live(b, a)
         /\ \A k \in Artifacts \ {a} : Live(b, k)' = Live(b, k)
<1>1. /\ drive \in [Backups -> [Artifacts -> [Copies -> {"none", "live", "trashed"}]]]
      /\ c \in Copies /\ drive[b][a][c] = "none"
  BY DEF TypeOK, Unmade
<1>2. /\ drive' \in [Backups -> [Artifacts -> [Copies -> {"none", "live", "trashed"}]]]
      /\ \A d \in Backups \ {b} : drive'[d] = drive[d]
      /\ \A k \in Artifacts \ {a} : drive'[b][k] = drive[b][k]
      /\ \A e \in Copies : drive'[b][a][e] = IF e = c THEN "live" ELSE drive[b][a][e]
  BY <1>1
<1>3. DriveAges
  <2> SUFFICES ASSUME NEW d \in Backups, NEW k \in Artifacts, NEW e \in Copies
               PROVE  /\ drive[d][k][e] # "none" => drive'[d][k][e] # "none"
                      /\ drive[d][k][e] = "trashed" => drive'[d][k][e] = "trashed"
    BY DEF DriveAges
  <2>1. CASE d = b /\ k = a /\ e = c
    BY <1>1, <2>1
  <2>2. CASE ~(d = b /\ k = a /\ e = c)
    BY <1>2, <2>2
  <2> QED
    BY <2>1, <2>2
<1>4. c \in Made(b, a)' /\ c \in File
  BY <1>1, <1>2 DEF Made, File
<1>5. \A d \in Live(b, a)' : d = c \/ d \in Live(b, a)
  BY <1>2 DEF Live
<1>6. \A k \in Artifacts \ {a} : Live(b, k)' = Live(b, k)
  BY <1>2 DEF Live
<1> QED
  BY <1>2, <1>3, <1>4, <1>5, <1>6

\* An upload: the file is made of the worker's backup, where nothing was if the worker is
\* alone, and the session that is completed is the worker's.
LEMMA UploadKeeps ==
  ASSUME IInv, TypeOK', NEW w \in Workers, NEW b \in Backups, job[w].b = b,
         NEW a \in Artifacts, NEW c \in Unmade(b, a),
         drive' = [drive EXCEPT ![b][a][c] = "live"],
         UNCHANGED <<row, audit, overlapped>>,
         \A v \in Workers \ {w} : job'[v] = job[v],
         job'[w].b = b, job'[w].sess = job[w].sess, JobInv(w)',
         b \notin overlapped => Live(b, a) = {},
         \A s \in Sessions :
           \/ session'[s] = session[s]
           \/ /\ Uses(b, s) /\ session'[s].st = "done"
              /\ session'[s].file \in Made(b, "bin")'
  PROVE  IInv'
<1>1. /\ \A d \in Backups \ {b} : drive'[d] = drive[d]
      /\ DriveAges /\ \A d \in Live(b, a)' : d = c \/ d \in Live(b, a)
      /\ \A k \in Artifacts \ {a} : Live(b, k)' = Live(b, k)
  BY FileMade DEF IInv
<1>2. RowAges(b) /\ RowInv(b)'
  BY <1>1, RowStands, RowEnvKept DEF IInv
<1>3. ASSUME NEW s \in Sessions PROVE SessionInv(s)'
  <2>1. \A d \in Backups : Uses(d, s)' => Uses(d, s)
    BY DEF Uses
  <2>2. CASE session'[s] = session[s]
    BY <1>1, <2>1, <2>2, SessionKept DEF IInv
  <2>3. CASE /\ Uses(b, s) /\ session'[s].st = "done"
             /\ session'[s].file \in Made(b, "bin")'
    BY <2>1, <2>3 DEF IInv, SessionInv
  <2> QED
    BY <2>2, <2>3
<1>4. ASSUME b \notin overlapped, NEW k \in Artifacts PROVE \A d, e \in Live(b, k)' : d = e
  <2>1. CASE k = a
    BY <1>1, <1>4, <2>1
  <2>2. CASE k # a
    BY <1>1, <1>4, <2>2 DEF IInv, Single
  <2> QED
    BY <2>1, <2>2
<1> QED
  BY <1>1, <1>2, <1>3, <1>4, WorkerKeeps

\* The last chunk of the artifact: Drive makes the file, or tells the one it has made.
LEMMA PutBinStep == ASSUME IInv, NEW w \in Workers, PutBin(w) PROVE IInv'
<1>0. /\ UNCHANGED <<backup, row, admin, audit, overlapped, rare>>
      /\ job[w].pc = "put"
  BY DEF PutBin
<1>1. PICK b \in Backups : job[w].b = b /\ Knows(w, b)
  BY <1>0, AtWork
<1>2. PICK s \in Sessions : s = job[w].sess
  <2>1. job[w] \in Jobs /\ job[w].sess # 0
    BY <1>0, <1>1, Typing DEF IInv, Knows
  <2> QED
    BY <2>1 DEF Jobs, Sess
<1>3. ASSUME NEW c \in Unmade(b, "bin"),
             drive' = [drive EXCEPT ![b]["bin"][c] = "live"],
             session' = [session EXCEPT ![s] = [@ EXCEPT !.st = "done", !.file = c]],
             \/ job' = [job EXCEPT ![w] = [@ EXCEPT !.pc = "listMan", !.bin = c]]
             \/ Goto(w, "lost")
      PROVE  IInv'
  <2>1. /\ drive' \in [Backups -> [Artifacts -> [Copies -> {"none", "live", "trashed"}]]]
        /\ c \in Made(b, "bin")' /\ c \in File
    BY <1>3, FileMade DEF IInv, Artifacts
  <2>2. /\ session' \in [Sessions -> [st : {"free", "open", "done", "gone"}, file : File]]
        /\ session'[s].st = "done" /\ session'[s].file = c
        /\ \A t \in Sessions \ {s} : session'[t] = session[t]
    <3>1. session \in [Sessions -> [st : {"free", "open", "done", "gone"}, file : File]]
      BY DEF IInv, TypeOK
    <3> QED
      BY <1>3, <2>1, <3>1
  <2>3. /\ job' \in [Workers -> Jobs] /\ \A v \in Workers \ {w} : job'[v] = job[v]
        /\ job'[w].b = b /\ job'[w].sess = s /\ job'[w].id = job[w].id
        /\ job'[w].pc = "lost" \/ (job'[w].pc = "listMan" /\ job'[w].bin = c)
    <3>1. CASE Goto(w, "lost")
      BY <1>1, <1>2, <3>1, GotoEffect DEF IInv, Phases
    <3>2. CASE job' = [job EXCEPT ![w] = [@ EXCEPT !.pc = "listMan", !.bin = c]]
      <4> DEFINE n == [job[w] EXCEPT !.pc = "listMan", !.bin = c]
      <4>1. job[w] \in Jobs
        BY Typing DEF IInv
      <4>2. /\ n \in Jobs /\ n.pc = "listMan" /\ n.bin = c /\ n.b = b
            /\ n.sess = s /\ n.id = job[w].id
        BY <1>1, <1>2, <2>1, <4>1 DEF Jobs, Phases
      <4>3. job' = [job EXCEPT ![w] = n]
        BY <3>2
      <4> HIDE DEF n
      <4> QED
        BY <4>2, <4>3, JobBecomes DEF IInv
    <3> QED
      BY <1>3, <3>1, <3>2
  <2>4. TypeOK'
    BY <1>0, <2>1, <2>2, <2>3 DEF IInv, TypeOK, Jobs
  <2>5. JobInv(w)'
    <3>1. Knows(w, b)'
      BY <1>0, <1>1, <2>1, <2>3 DEF Knows
    <3> QED
      BY <2>3, <3>1, Bounds DEF JobInv
  <2>6. Uses(b, s) /\ (b \notin overlapped => Live(b, "bin") = {})
    BY <1>0, <1>1, <1>2 DEF Uses, Knows
  <2>7. \A t \in Sessions :
          \/ session'[t] = session[t]
          \/ /\ Uses(b, t) /\ session'[t].st = "done"
             /\ session'[t].file \in Made(b, "bin")'
    BY <2>1, <2>2, <2>6
  <2>8. job'[w].sess = job[w].sess /\ "bin" \in Artifacts
    BY <1>2, <2>3 DEF Artifacts
  <2> QED
    BY <1>0, <1>1, <1>3, <2>3, <2>4, <2>5, <2>6, <2>7, <2>8, UploadKeeps
<1>4. ASSUME session[s].st = "done", UNCHANGED <<drive, session>>,
             job' = [job EXCEPT ![w] = [@ EXCEPT !.pc = "listMan", !.bin = session[s].file]]
      PROVE  IInv'
  <2>1. PICK c : c = session[s].file
    OBVIOUS
  <2>2. c \in Made(b, "bin")
    BY <1>1, <1>2, <1>4, <2>1, SessionFile, Bounds
  <2>3. Advance(w, b)
    BY <1>1, <1>4, <2>1, <2>2, FoundEffect DEF IInv
  <2>4. TypeOK'
    BY <1>0, <1>4, <2>3 DEF IInv, TypeOK, Jobs, Advance
  <2>5. JobInv(w)'
    <3>1. Knows(w, b)'
      BY <1>0, <1>1, <1>4, <2>3, DriveStands DEF Knows, Advance
    <3> QED
      BY <2>3, <3>1, Bounds DEF JobInv, Advance
  <2> QED
    BY <1>0, <1>1, <1>4, <2>3, <2>4, <2>5, QuietStep DEF Advance
<1> QED
  BY <1>0, <1>1, <1>2, <1>3, <1>4 DEF PutBin

\* The manifest, in one call.
LEMMA PutManStep == ASSUME IInv, NEW w \in Workers, PutMan(w) PROVE IInv'
<1>0. /\ UNCHANGED <<backup, row, session, admin, audit, overlapped, rare>>
      /\ job[w].pc = "putMan"
  BY DEF PutMan
<1>1. PICK b \in Backups : job[w].b = b /\ Knows(w, b)
  BY <1>0, AtWork
<1>2. PICK c \in Unmade(b, "man") :
        /\ drive' = [drive EXCEPT ![b]["man"][c] = "live"]
        /\ \/ job' = [job EXCEPT ![w] = [@ EXCEPT !.pc = "uploaded", !.man = c]]
           \/ Goto(w, "lost")
  BY <1>1 DEF PutMan
<1>3. /\ drive' \in [Backups -> [Artifacts -> [Copies -> {"none", "live", "trashed"}]]]
      /\ c \in Made(b, "man")' /\ c \in File /\ DriveAges
  BY <1>2, FileMade DEF IInv, Artifacts
<1>4. /\ job' \in [Workers -> Jobs] /\ \A v \in Workers \ {w} : job'[v] = job[v]
      /\ job'[w].b = b /\ job'[w].sess = job[w].sess /\ job'[w].id = job[w].id
      /\ \/ job'[w].pc = "lost"
         \/ job'[w].pc = "uploaded" /\ job'[w].man = c /\ job'[w].bin = job[w].bin
  <2>1. CASE Goto(w, "lost")
    BY <1>1, <2>1, GotoEffect DEF IInv, Phases
  <2>2. CASE job' = [job EXCEPT ![w] = [@ EXCEPT !.pc = "uploaded", !.man = c]]
    <3> DEFINE n == [job[w] EXCEPT !.pc = "uploaded", !.man = c]
    <3>1. job[w] \in Jobs
      BY Typing DEF IInv
    <3>2. /\ n \in Jobs /\ n.pc = "uploaded" /\ n.man = c /\ n.bin = job[w].bin /\ n.b = b
          /\ n.sess = job[w].sess /\ n.id = job[w].id
      BY <1>1, <1>3, <3>1 DEF Jobs, Phases
    <3>3. job' = [job EXCEPT ![w] = n]
      BY <2>2
    <3> HIDE DEF n
    <3> QED
      BY <3>2, <3>3, JobBecomes DEF IInv
  <2> QED
    BY <1>2, <2>1, <2>2
<1>5. TypeOK'
  BY <1>0, <1>3, <1>4 DEF IInv, TypeOK, Jobs
<1>6. JobInv(w)'
  <2>1. Made(b, "bin") \subseteq Made(b, "bin")'
    BY <1>3, MadeAges
  <2>2. Knows(w, b)'
    BY <1>0, <1>1, <1>3, <1>4, <2>1 DEF Knows
  <2> QED
    BY <1>4, <2>2, Bounds DEF JobInv
<1>7. (b \notin overlapped => Live(b, "man") = {}) /\ "man" \in Artifacts
  BY <1>0, <1>1 DEF Knows, Artifacts
<1> QED
  BY <1>0, <1>1, <1>2, <1>4, <1>5, <1>6, <1>7, UploadKeeps

-----------------------------------------------------------------------------
(* The invariant                                                            *)

LEMMA InitHolds == Init => IInv
<1> SUFFICES ASSUME Init PROVE IInv
  OBVIOUS
<1>1. /\ \A w \in Workers : job[w] = NoJob
      /\ \A b \in Backups : row[b] = NoRow /\ Live(b, "bin") = {} /\ Live(b, "man") = {}
      /\ audit.pc = "idle" /\ overlapped = {}
      /\ \A s \in Sessions : session[s] = [st |-> "free", file |-> 0]
  BY DEF Init, Live, NoAudit, Artifacts
<1>2. NoRow \in Rows /\ NoRow.sess = 0 /\ NoRow.bin = 0 /\ NoRow.man = 0 /\ ~NoRow.missing
      /\ NoRow.status = "NONE"
  BY Bounds DEF NoRow, Rows, Statuses
<1>3. TypeOK
  <2>1. row \in [Backups -> Rows] /\ job \in [Workers -> Jobs]
    BY <1>2, EmptyTyped DEF Init
  <2>2. session \in [Sessions -> [st : {"free", "open", "done", "gone"}, file : File]]
    BY Bounds DEF Init
  <2>3. /\ admin \in [pc : {"idle", "write"}, b : Backups \cup {0}, id : Nat, att : Nat]
        /\ audit \in [pc : {"idle", "probe"}, b : Backups \cup {0}, id : Nat, bin : File, man : File]
    BY Bounds DEF Init, NoCall, NoAudit
  <2>4. rare \in 0..MaxRare /\ backup \in [Backups -> {"COMPLETED", "VERIFIED", "DELETED"}]
    BY ReplicationAssumption DEF Init
  <2>5. drive \in [Backups -> [Artifacts -> [Copies -> {"none", "live", "trashed"}]]]
    BY DEF Init
  <2> QED
    BY <1>1, <2>1, <2>2, <2>3, <2>4, <2>5 DEF TypeOK, Rows, Jobs
<1>4. \A w \in Workers : JobInv(w)
  BY <1>1, EmptyTyped, Bounds DEF JobInv
<1>5. ASSUME NEW b \in Backups PROVE RowInv(b) /\ Single(b)
  BY <1>1, <1>2, EmptyTyped, Bounds DEF RowInv, Single, Artifacts
<1>6. ASSUME NEW s \in Sessions PROVE SessionInv(s)
  BY <1>1, <1>2, EmptyTyped, Bounds DEF SessionInv, Uses
<1> QED
  BY <1>1, <1>3, <1>4, <1>5, <1>6 DEF IInv, AuditInv

LEMMA StepKeeps == IInv /\ [Next]_vars => IInv'
<1> SUFFICES ASSUME IInv, [Next]_vars PROVE IInv'
  OBVIOUS
<1>1. CASE Environment
  BY <1>1, CatalogueStep, WipeStep, RetryWriteStep, ReconcileStep, TimeStep DEF Environment
<1>2. ASSUME NEW w \in Workers, Tick(w) \/ DepsFail(w) \/ Upload(w) \/ Crash(w) PROVE IInv'
  <2>1. CASE Upload(w)
    BY <2>1, LoadStep, StartStep, ListStep, OpenStep, PersistStep, PutBinStep, PutManStep,
       VerifyingStep, CompleteStep, FailureStep DEF Upload
  <2> QED
    BY <1>2, <2>1, TickStep, LeaveStep
<1>3. CASE UNCHANGED vars
  <2>1. UNCHANGED <<backup, row, drive, session, job, admin, audit, overlapped, rare>>
    BY <1>3 DEF vars
  <2>2. TypeOK'
    BY <2>1 DEF IInv, TypeOK
  <2>3. AuditInv'
    BY <2>1, DriveStands DEF IInv, AuditInv
  <2> QED
    BY <2>1, <2>2, <2>3, StillStep
<1> QED
  BY <1>1, <1>2, <1>3 DEF Next

LEMMA Invariance == Spec => []IInv
BY InitHolds, StepKeeps, PTL DEF Spec

-----------------------------------------------------------------------------
(* Theorems                                                                 *)

\* Rows, remote files, sessions and the locals of every worker stay in their schemas
\* (BackupReplication, replicateBackupToDrive), whatever the tick, the administrators and
\* Drive do.
THEOREM TypeCorrect == Spec => []TypeOK
<1>1. IInv => TypeOK
  BY DEF IInv
<1> QED
  BY <1>1, Invariance, PTL

\* A COMPLETED row names a .bin and a manifest that were uploaded for its backup (the last
\* update of replicateBackupToDrive), for any number of workers on it at once, crashes,
\* lost answers, retries by hand and restores in between.
THEOREM UploadedCorrect == Spec => []CompletedWasUploaded
<1>1. IInv => CompletedWasUploaded
  BY DEF IInv, RowInv, Made, CompletedWasUploaded
<1> QED
  BY <1>1, Invariance, PTL

\* Two live files of one artifact take two workers at once: one that looks at the
\* destination first (checkRemoteArtifact) never makes a second, however often it fails.
THEOREM DuplicateCorrect == Spec => []DuplicateNeedsOverlap
<1>1. IInv => DuplicateNeedsOverlap
  <2> SUFFICES ASSUME IInv, NEW b \in Backups, NEW a \in Artifacts, b \notin overlapped
               PROVE  ~(Cardinality(Live(b, a)) > 1)
    BY DEF DuplicateNeedsOverlap
  <2>1. \A c, d \in Live(b, a) : c = d
    BY DEF IInv, Single
  <2>2. CASE Live(b, a) = {}
    BY <2>2, FS_EmptySet
  <2>3. ASSUME NEW c \in Live(b, a) PROVE ~(Cardinality(Live(b, a)) > 1)
    <3>1. Live(b, a) = {c}
      BY <2>1, <2>3
    <3> QED
      BY <3>1, FS_Singleton
  <2> QED
    BY <2>2, <2>3
<1> QED
  BY <1>1, Invariance, PTL

\* reconcileReplicationRemote says REMOTE_MISSING only of a backup that has lost a file: a
\* COMPLETED row names files that were made, so what it does not find was trashed, and a
\* call that Drive does not answer is no verdict.
THEOREM AlarmCorrect == Spec => []NoFalseAlarm
<1>1. IInv => NoFalseAlarm
  BY DEF IInv, RowInv, NoFalseAlarm
<1> QED
  BY <1>1, Invariance, PTL

\* A row is left COMPLETED by the worker that writes to it, if it is alone.
LEMMA WriterLeaves ==
  ASSUME IInv, NEW w \in Workers, NEW r, NEW phase, Write(w, r, phase),
         job[w].pc \notin {"idle", "load"}, NEW b \in Backups, b \notin overlapped,
         row[b].status = "COMPLETED"
  PROVE  row'[b].status = "COMPLETED"
<1>1. PICK c \in Backups : job[w].b = c /\ Knows(w, c)
  BY AtWork
<1>2. CASE UNCHANGED row
  BY <1>2
<1>3. CASE /\ row[c].id = job[w].id /\ row[c].status # "NONE"
           /\ row' = [row EXCEPT ![c] = r]
  <2>1. c # b
    BY <1>1, <1>3 DEF Knows
  <2> QED
    BY <1>3, <2>1, Typing DEF IInv
<1> QED
  BY <1>1, <1>2, <1>3 DEF Write, Mine

LEMMA FinishedKept ==
  ASSUME IInv, Next, NEW b \in Backups, b \notin overlapped,
         row[b].status = "COMPLETED", row'[b].status \notin {"COMPLETED", "NONE"}
  PROVE  admin.pc = "write" /\ admin.b = b /\ admin' = NoCall
<1>0. row \in [Backups -> Rows]
  BY Typing DEF IInv
<1>1. CASE Environment
  <2>1. CASE RetryWrite
    BY <1>0, <2>1 DEF RetryWrite
  <2>2. CASE ReconcileWrite
    <3>1. PICK v : row' = IF row[audit.b].id = audit.id /\ row[audit.b].status # "NONE"
                            THEN [row EXCEPT ![audit.b].missing = v] ELSE row
      BY <2>2 DEF ReconcileWrite
    <3>2. row'[b].status = row[b].status
      BY <1>0, <3>1 DEF Rows
    <3> QED
      BY <3>2
  <2>3. CASE Wipe
    BY <2>3 DEF Wipe, NoRow
  <2>4. ASSUME NEW c \in Backups,
               \/ Verified(c) \/ Enqueue(c) \/ Pruned(c) \/ RetryRead(c) \/ ReconcileRead(c)
               \/ Elapse(c) \/ \E a \in Artifacts, k \in Copies : Trash(c, a, k)
        PROVE  row'[b] = row[b]
    BY <1>0, <2>4 DEF Verified, Enqueue, Pruned, RetryRead, ReconcileRead, Elapse, Trash
  <2>5. ASSUME NEW s \in Sessions, SessionExpires(s) PROVE row'[b] = row[b]
    BY <2>5 DEF SessionExpires
  <2> QED
    BY <1>1, <2>1, <2>2, <2>3, <2>4, <2>5 DEF Environment
<1>2. ASSUME NEW w \in Workers, Tick(w) \/ DepsFail(w) \/ Upload(w) \/ Crash(w)
      PROVE  row'[b].status = "COMPLETED"
  <2>1. CASE Tick(w)
    BY <2>1 DEF Tick, Maintained
  <2>2. CASE Load(w)
    <3>1. \/ UNCHANGED row
          \/ row' = [row EXCEPT ![job[w].b] =
                       IF row[job[w].b].status = "NONE" THEN NewRow(row[job[w].b])
                       ELSE row[job[w].b]]
      BY <2>2 DEF Load
    <3> QED
      BY <1>0, <3>1
  <2>3. CASE ListBin(w) \/ Resume(w) \/ OpenSession(w) \/ PutBin(w) \/ ListMan(w) \/ PutMan(w)
             \/ DepsFail(w) \/ Crash(w)
    BY <2>3 DEF ListBin, Resume, OpenSession, PutBin, ListMan, PutMan, DepsFail, Crash
  <2>4. CASE Start(w)
    BY <2>4, WriterLeaves DEF Start
  <2>5. CASE PersistSession(w)
    BY <2>5, WriterLeaves DEF PersistSession
  <2>6. CASE MarkVerifying(w)
    BY <2>6, WriterLeaves DEF MarkVerifying
  <2>7. CASE Complete(w)
    BY <2>7, WriterLeaves DEF Complete
  <2>8. CASE Refused(w) \/ DriveFails(w)
    BY <2>8, WriterLeaves DEF Refused, DriveFails, DrivePhases, RecordFailure
  <2> QED
    BY <1>2, <2>1, <2>2, <2>3, <2>4, <2>5, <2>6, <2>7, <2>8 DEF Upload
<1> QED
  BY <1>1, <1>2 DEF Next

\* A finished row is reopened only by a worker that overlaps another, or by an
\* administrator's retry that read it before it finished ("Terminal states are no-ops",
\* uploader.ts): a worker alone on its backup never writes to a row that is COMPLETED.
THEOREM FinishedCorrect == Spec => FinishedStays
<1> DEFINE Stays ==
      \A b \in Backups :
        row[b].status = "COMPLETED" /\ row'[b].status \notin {"COMPLETED", "NONE"}
          => b \in overlapped \/ (admin.pc = "write" /\ admin.b = b /\ admin' = NoCall)
<1>1. IInv /\ [Next]_vars => [Stays]_vars
  BY FinishedKept
<1>2. FinishedStays <=> [][Stays]_vars
  BY DEF FinishedStays
<1> HIDE DEF Stays
<1> QED
  BY <1>1, <1>2, Invariance, PTL DEF Spec
=============================================================================
