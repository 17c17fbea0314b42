------------------------ MODULE BackupSchedulerProofs ------------------------
(***************************************************************************)
(* Machine-checked facts about BackupScheduler, for any number of ticks,   *)
(* creators and restores, any frequency, any number of crashes and of      *)
(* statements that are rejected.                                           *)
(***************************************************************************)
EXTENDS BackupScheduler, TLAPS

JobLocals == [mode : {"cron", "manual"}, due : BOOLEAN,
              verdict : {"OK", "FAILED_DUMP", "FAILED_VERIFY"}]

Settings == [enabled : BOOLEAN, age : 0..AgeCap \cup {Never}, outcome : Outcomes]

\* What a call leaves behind when it returns.
LEMMA ReturnTyped ==
  ASSUME TypeOK, NEW p \in Procs, Return(p)
  PROVE  /\ pc' \in [Procs -> AllPhases]
         /\ job' \in [Ticks -> JobLocals]
         /\ row' \in [Procs -> RowStates]
<1>1. NewJob \in JobLocals
  BY DEF NewJob, JobLocals
<1> QED
  BY <1>1 DEF TypeOK, Return, Goto, JobLocals, AllPhases, RowStates

\* Every variable stays within the values the code and the schema allow.
THEOREM TypeCorrect == Spec => []TypeOK
<1> USE DEF JobLocals, Settings
<1>1. Init => TypeOK
  <2> SUFFICES ASSUME Init PROVE TypeOK
    OBVIOUS
  <2>1. schedule \in Settings
    BY DEF Init, Outcomes
  <2>2. 0 \in 0..MaxMishaps /\ 0 \in 0..MaxApplied
    BY ProcessAssumption
  <2> QED
    BY <2>1, <2>2 DEF Init, TypeOK, AllPhases, NewJob, RowStates
<1>a. ASSUME TypeOK, NEW p \in Procs, Stop(p), stranded' \in BOOLEAN, strandedOp' \in BOOLEAN
      PROVE  TypeOK'
  <2>1. mishaps' \in 0..MaxMishaps
    BY <1>a, ProcessAssumption DEF Stop, TypeOK
  <2>2. lock' \in Ticks \cup {Free} /\ orphaned' \in BOOLEAN
    BY <1>a DEF Stop, TypeOK
  <2> QED
    BY <1>a, <2>1, <2>2, ReturnTyped DEF Stop, TypeOK
<1>2. TypeOK /\ [Next]_vars => TypeOK'
  <2> SUFFICES ASSUME TypeOK, [Next]_vars PROVE TypeOK'
    OBVIOUS
  <2>0. ASSUME NEW o \in Outcomes
        PROVE  [schedule EXCEPT !.age = 0, !.outcome = o] \in Settings
    <3>1. 0 \in 0..AgeCap /\ schedule \in Settings
      BY TimingAssumption DEF TypeOK
    <3> QED
      BY <3>1
  <2>1. ASSUME NEW t \in Ticks, TickStep(t) PROVE TypeOK'
    <3>0. t \in Procs
      BY DEF Procs
    <3>a. ASSUME Return(t), UNCHANGED <<stranded, strandedOp, applied, mishaps>>,
                 schedule' \in Settings, lock' \in Ticks \cup {Free},
                 orphaned' \in BOOLEAN
          PROVE  TypeOK'
      BY <3>0, <3>a, ReturnTyped DEF TypeOK
    <3>1. CASE Watchdog(t)
      BY <3>0, <3>1 DEF Watchdog, WriteOutcome, TypeOK, Goto, faults, Outcomes, AllPhases
    <3>2. CASE LockAcquired(t)
      BY <3>0, <3>2 DEF LockAcquired, TypeOK, Goto, faults, AllPhases, TxPhases
    <3>3. CASE LockRefused(t)
      BY <3>a, <3>3 DEF LockRefused, TypeOK, faults
    <3>4. CASE SkipDisabled(t)
      BY <2>0, <3>a, <3>4 DEF SkipDisabled, WriteOutcome, Outcomes
    <3>5. CASE ReadSchedule(t)
      <4>1. IsDue(job[t].mode) \in BOOLEAN
        BY DEF IsDue
      <4> QED
        BY <3>0, <3>5, <4>1
        DEF ReadSchedule, TypeOK, Goto, faults, AllPhases, TxPhases
    <3>b. ASSUME Skip(t) PROVE TypeOK'
      BY <3>a, <3>b DEF Skip, TypeOK, faults
    <3>6. CASE CheckBackups(t)
      BY <3>0, <3>b, <3>6 DEF CheckBackups, TypeOK, Goto, faults, AllPhases, TxPhases
    <3>7. CASE CheckRestores(t)
      BY <3>0, <3>b, <3>7 DEF CheckRestores, TypeOK, Goto, faults, AllPhases, TxPhases
    <3>8. CASE MarkRunning(t)
      <4>1. schedule' \in Settings
        BY <2>0, <3>8 DEF MarkRunning, WriteOutcome, Outcomes
      <4> QED
        BY <3>0, <3>8, <4>1
        DEF MarkRunning, WriteOutcome, TypeOK, Goto, AllPhases, RunPhases
    <3>9. CASE Retain(t)
      BY <3>0, <3>9 DEF Retain, TypeOK, Goto, faults, AllPhases, RunPhases
    <3>10. CASE Finish(t)
      <4>1. schedule' \in Settings
        BY <3>10 DEF Finish, WriteOutcome, TypeOK, Outcomes
      <4> QED
        BY <3>a, <3>10, <4>1 DEF Finish, WriteOutcome, TypeOK
    <3> QED
      BY <2>1, <3>1, <3>2, <3>3, <3>4, <3>5, <3>6, <3>7, <3>8, <3>9, <3>10 DEF TickStep
  <2>2. ASSUME NEW t \in Ticks, NEW m \in Modes, Begin(t, m) PROVE TypeOK'
    BY <2>2, ProcessAssumption DEF Begin, TypeOK, Goto, faults, AllPhases, Procs
  <2>3. ASSUME NEW c \in Creators, CreatorCheck(c) PROVE TypeOK'
    BY <2>3 DEF CreatorCheck, TypeOK, Goto, faults, AllPhases, RunPhases
  <2>4. ASSUME NEW r \in Restorers, RestoreCheck(r) \/ RestoreStep(r) PROVE TypeOK'
    <3>0. r \in Procs
      BY DEF Procs
    <3>1. CASE RestoreCheck(r) \/ RestoreOpen(r)
      BY <3>1 DEF RestoreCheck, RestoreOpen, TypeOK, Goto, faults, AllPhases, OpPhases
    <3>2. CASE Return(r) /\ UNCHANGED <<schedule, lock, faults>>
      BY <3>0, <3>2, ReturnTyped DEF TypeOK, faults
    <3>3. CASE RestoreRaceCheck(r)
      BY <3>2, <3>3 DEF RestoreRaceCheck, TypeOK, Goto, faults, AllPhases, RunPhases
    <3>4. CASE RestoreApply(r)
      <4>1. schedule' \in Settings /\ orphaned' \in BOOLEAN
            /\ stranded' \in BOOLEAN /\ strandedOp' \in BOOLEAN
        BY <3>4 DEF RestoreApply, Dumped
      <4>2. applied' \in 0..MaxApplied
        BY <3>4, ProcessAssumption DEF RestoreApply, TypeOK
      <4>3. row' \in [Procs -> RowStates]
        BY <3>0, <3>4 DEF RestoreApply, TypeOK, RowStates
      <4>4. pc' \in [Procs -> AllPhases]
        BY <3>0, <3>4 DEF RestoreApply, TypeOK, Goto, AllPhases, OpPhases
      <4> QED
        BY <3>4, <4>1, <4>2, <4>3, <4>4 DEF RestoreApply, TypeOK
    <3>5. CASE RestoreClose(r)
      BY <3>2, <3>5 DEF RestoreClose
    <3> QED
      BY <2>4, <3>1, <3>3, <3>4, <3>5 DEF RestoreStep
  <2>5. ASSUME NEW p \in Procs, DumpStep(p) PROVE TypeOK'
    <3> USE DEF AllPhases, RunPhases, OpPhases, RowStates, InFlight, faults
    <3>0. CASE Return(p) /\ UNCHANGED <<schedule, lock, faults>>
      BY <3>0, ReturnTyped DEF TypeOK
    <3>a. ASSUME NEW v \in {"FAILED_DUMP", "FAILED_VERIFY"}, Failed(p, v),
                 UNCHANGED <<schedule, lock, faults>>
          PROVE  TypeOK'
      BY <3>0, <3>a DEF Failed, TypeOK, Goto
    <3>1. CASE DumpInsert(p)
      BY <3>1 DEF DumpInsert, TypeOK, Goto
    <3>2. CASE DumpStart(p)
      BY <3>2 DEF DumpStart, TypeOK, Goto
    <3>3. CASE DumpComplete(p)
      BY <3>0, <3>3 DEF DumpComplete, TypeOK, Goto
    <3>4. CASE DumpFail(p)
      BY <3>a, <3>4 DEF DumpFail
    <3>5. CASE VerifyDump(p)
      BY <3>a, <3>5 DEF VerifyDump, TypeOK, Goto
    <3> QED
      BY <2>5, <3>1, <3>2, <3>3, <3>4, <3>5 DEF DumpStep
  <2>6. ASSUME NEW p \in Procs, Crash(p) PROVE TypeOK'
    <3>1. stranded' \in BOOLEAN /\ strandedOp' \in BOOLEAN
      BY <2>6 DEF Crash, TypeOK
    <3> QED
      BY <1>a, <2>6, <3>1 DEF Crash
  <2>10. ASSUME NEW t \in Ticks, Rejected(t) \/ WatchdogFails(t) PROVE TypeOK'
    <3>0. t \in Procs
      BY DEF Procs
    <3>1. CASE Rejected(t)
      <4>1. stranded' \in BOOLEAN /\ strandedOp' \in BOOLEAN /\ Stop(t)
        BY <3>1 DEF Rejected, TypeOK
      <4> QED
        BY <1>a, <3>0, <4>1
    <3>2. CASE WatchdogFails(t)
      <4>1. mishaps' \in 0..MaxMishaps
        BY <3>2, ProcessAssumption DEF WatchdogFails, TypeOK
      <4>2. pc' \in [Procs -> AllPhases]
        BY <3>0, <3>2 DEF WatchdogFails, TypeOK, Goto, AllPhases
      <4> QED
        BY <3>2, <4>1, <4>2 DEF WatchdogFails, TypeOK
    <3> QED
      BY <2>10, <3>1, <3>2
  <2>7. CASE ToggleSchedule
    BY <2>7 DEF ToggleSchedule, TypeOK, faults
  <2>8. CASE Advance
    BY <2>8, TimingAssumption DEF Advance, TypeOK, faults
  <2>9. CASE UNCHANGED vars
    BY <2>9 DEF vars, TypeOK
  <2> QED
    BY <2>1, <2>2, <2>3, <2>4, <2>5, <2>6, <2>7, <2>8, <2>9, <2>10 DEF Next
<1> QED
  BY <1>1, <1>2, PTL DEF Spec

-----------------------------------------------------------------------------
(* Cron ticks are spaced by the frequency                                   *)

\* A tick is inside its preflight transaction exactly while it holds the lock.
LockHeld == \A t \in Ticks : pc[t] \in TxPhases <=> lock = t

\* "due" was computed under the lock and is still true under the lock.
DueStays ==
  \A t \in Ticks :
    /\ pc[t] \in {"backups", "restores", "mark"} /\ job[t].due => IsDue(job[t].mode)
    /\ pc[t] = "mark" => job[t].due

SpacingInv == LockHeld /\ DueStays

\* No tick enters or leaves its transaction.
SameTx == \A t \in Ticks : pc[t] \in TxPhases <=> pc'[t] \in TxPhases

\* No tick moves on inside its transaction, or changes what it decided there.
SameDecisions ==
  \A t \in Ticks :
    pc'[t] \in {"backups", "restores", "mark"} => pc'[t] = pc[t] /\ job'[t] = job[t]

NobodyDecided == \A t \in Ticks : pc'[t] \notin {"backups", "restores", "mark"}

\* lastRunAt is not reset.
AgeKept ==
  \/ schedule'.age = schedule.age
  \/ schedule.age # Never /\ schedule'.age = schedule.age + 1

LEMMA DueKept ==
  ASSUME TypeOK, SpacingInv, AgeKept \/ NobodyDecided, SameDecisions
  PROVE  DueStays'
<1>1. schedule.age # Never => schedule.age \in Nat
  BY TimingAssumption DEF TypeOK
<1> QED
  BY <1>1, TimingAssumption
  DEF SpacingInv, DueStays, IsDue, AgeKept, NobodyDecided, SameDecisions

LEMMA LockKept ==
  ASSUME SpacingInv, lock' = lock, SameTx
  PROVE  LockHeld'
BY DEF SpacingInv, LockHeld, SameTx

LEMMA OutsideStep ==
  ASSUME TypeOK, SpacingInv, lock' = lock, SameTx, SameDecisions,
         schedule' = schedule \/ AgeKept
  PROVE  SpacingInv'
<1>1. LockHeld'
  BY LockKept
<1>2. AgeKept
  BY DEF AgeKept
<1> QED
  BY <1>1, <1>2, DueKept DEF SpacingInv

LEMMA SpacingStep ==
  ASSUME TypeOK, SpacingInv, [Next]_vars
  PROVE  SpacingInv'
<1>0. /\ pc \in [Procs -> AllPhases] /\ job \in [Ticks -> JobLocals]
      /\ Ticks \subseteq Procs
  BY DEF TypeOK, Procs, JobLocals
\* A transaction that ends: the lock is free and the tick is outside.
<1>2. ASSUME NEW t \in Ticks, pc[t] \in TxPhases, lock' = Free,
             pc' = [pc EXCEPT ![t] = "idle"] \/ pc' = [pc EXCEPT ![t] = "insert"],
             \A q \in Ticks \ {t} : job'[q] = job[q]
      PROVE  LockHeld' /\ SameDecisions
             /\ NobodyDecided
  <2>1. lock = t /\ \A q \in Ticks \ {t} : pc[q] \notin TxPhases
    BY <1>2 DEF SpacingInv, LockHeld
  <2>2. /\ pc'[t] \in {"idle", "insert"}
        /\ \A q \in Ticks \ {t} : pc'[q] = pc[q]
    BY <1>0, <1>2
  <2> QED
    BY <1>2, <2>1, <2>2, ProcessAssumption
    DEF LockHeld, TxPhases, SameDecisions, NobodyDecided
<1>3. ASSUME NEW t \in Ticks, Skip(t), pc[t] \in TxPhases PROVE SpacingInv'
  <2>1. LockHeld' /\ SameDecisions /\ NobodyDecided
    BY <1>0, <1>2, <1>3 DEF Skip, Return, Goto
  <2> QED
    BY <2>1, DueKept DEF SpacingInv
<1>5. ASSUME NEW p \in Procs, Return(p), pc[p] \notin TxPhases PROVE SameTx /\ SameDecisions
  BY <1>0, <1>5 DEF Return, Goto, TxPhases, SameTx, SameDecisions
<1>6. ASSUME NEW p \in Procs, NEW phase, Goto(p, phase),
             \A t \in Ticks \ {p} : job'[t] = job[t],
             pc[p] \notin TxPhases, phase \notin TxPhases
      PROVE  SameTx /\ SameDecisions
  BY <1>0, <1>6 DEF Goto, TxPhases, SameTx, SameDecisions
<1>7. ASSUME NEW t \in Ticks, TickStep(t) PROVE SpacingInv'
  <2>1. CASE Watchdog(t)
    <3>1. AgeKept
      BY <2>1 DEF Watchdog, WriteOutcome, TypeOK, AgeKept
    <3> QED
      BY <1>0, OutsideStep, <1>6, <2>1, <3>1 DEF Watchdog, TxPhases
  <2>2. CASE LockAcquired(t)
    <3>1. /\ lock = Free /\ lock' = t
          /\ pc'[t] = "decide" /\ \A q \in Ticks \ {t} : pc'[q] = pc[q]
          /\ UNCHANGED <<schedule, job>>
      BY <1>0, <2>2 DEF LockAcquired, Goto
    <3>2. LockHeld'
      BY <3>1, ProcessAssumption DEF SpacingInv, LockHeld, TxPhases
    <3> QED
      BY <3>1, <3>2, DueKept DEF SpacingInv, AgeKept, SameDecisions
  <2>3. CASE LockRefused(t)
    BY <1>0, OutsideStep, <1>5, <2>3 DEF LockRefused, TxPhases
  <2>4. CASE SkipDisabled(t)
    <3>1. LockHeld' /\ SameDecisions
          /\ NobodyDecided
      BY <1>0, <1>2, <2>4 DEF SkipDisabled, Return, Goto, TxPhases
    <3> QED
      BY <3>1, DueKept DEF SpacingInv
  <2>5. CASE ReadSchedule(t)
    <3>1. /\ lock' = lock /\ schedule' = schedule /\ pc[t] = "decide"
          /\ pc'[t] = "backups" /\ job'[t].due = IsDue(job[t].mode)
          /\ job'[t].mode = job[t].mode
          /\ \A q \in Ticks \ {t} : pc'[q] = pc[q] /\ job'[q] = job[q]
      BY <1>0, <2>5 DEF ReadSchedule, Goto, JobLocals
    <3>2. LockHeld'
      BY <3>1, LockKept DEF TxPhases, SameTx
    <3>3. DueStays'
      BY <3>1 DEF SpacingInv, DueStays, IsDue
    <3> QED
      BY <3>2, <3>3 DEF SpacingInv
  <2>6. ASSUME NEW from \in {"backups", "restores"}, NEW to \in {"restores", "mark"},
               pc[t] = from, to = "mark" => job[t].due, Goto(t, to),
               UNCHANGED <<schedule, lock, job>>
        PROVE  SpacingInv'
    <3>1. pc'[t] = to /\ \A q \in Ticks \ {t} : pc'[q] = pc[q]
      BY <1>0, <2>6 DEF Goto
    <3>2. LockHeld'
      BY <2>6, <3>1, LockKept DEF TxPhases, SameTx
    <3>3. DueStays'
      BY <2>6, <3>1 DEF SpacingInv, DueStays, IsDue
    <3> QED
      BY <3>2, <3>3 DEF SpacingInv
  <2>7. CASE CheckBackups(t)
    BY <1>3, <2>6, <2>7 DEF CheckBackups, TxPhases
  <2>8. CASE CheckRestores(t)
    BY <1>3, <2>6, <2>8 DEF CheckRestores, TxPhases
  <2>9. CASE MarkRunning(t)
    <3>1. LockHeld' /\ SameDecisions
          /\ NobodyDecided
      BY <1>0, <1>2, <2>9 DEF MarkRunning, Goto, TxPhases
    <3> QED
      BY <3>1, DueKept DEF SpacingInv
  <2>10. CASE Retain(t)
    BY <1>0, OutsideStep, <1>6, <2>10 DEF Retain, TxPhases
  <2>11. CASE Finish(t)
    <3>1. AgeKept
      BY <2>11 DEF Finish, WriteOutcome, TypeOK, AgeKept
    <3> QED
      BY <1>0, OutsideStep, <1>5, <2>11, <3>1 DEF Finish, TxPhases
  <2> QED
    BY <1>7, <2>1, <2>2, <2>3, <2>4, <2>5, <2>7, <2>8, <2>9, <2>10, <2>11 DEF TickStep
<1>8. ASSUME NEW t \in Ticks, NEW m \in Modes, Begin(t, m) PROVE SpacingInv'
  BY <1>0, OutsideStep, <1>6, <1>8 DEF Begin, TxPhases
<1>9. ASSUME NEW c \in Creators, CreatorCheck(c) PROVE SpacingInv'
  BY OutsideStep, <1>6, <1>9 DEF CreatorCheck, TxPhases, Procs
<1>10. ASSUME NEW r \in Restorers, RestoreCheck(r) \/ RestoreStep(r) PROVE SpacingInv'
  <2>0. r \in Procs
    BY DEF Procs
  <2>1. CASE RestoreCheck(r) \/ RestoreOpen(r)
    BY OutsideStep, <1>6, <2>0, <2>1 DEF RestoreCheck, RestoreOpen, TxPhases
  <2>2. CASE RestoreRaceCheck(r)
    BY OutsideStep, <1>5, <1>6, <2>0, <2>2 DEF RestoreRaceCheck, TxPhases
  <2>3. CASE RestoreApply(r)
    <3>1. /\ lock' = lock /\ pc[r] \notin TxPhases
          /\ SameTx /\ SameDecisions
      BY <1>6, <2>0, <2>3 DEF RestoreApply, TxPhases
    <3>2. NobodyDecided
      <4>1. \A q \in Procs : pc[q] \notin TxPhases
        BY <2>3 DEF RestoreApply, ShortPhases
      <4> QED
        BY <1>0, <4>1, <3>1 DEF SameTx, NobodyDecided, TxPhases
    <3> QED
      BY <3>1, <3>2, LockKept, DueKept DEF SpacingInv
  <2>4. CASE RestoreClose(r)
    BY OutsideStep, <1>5, <2>0, <2>4 DEF RestoreClose, TxPhases
  <2> QED
    BY <1>10, <2>1, <2>2, <2>3, <2>4 DEF RestoreStep
<1>11. ASSUME NEW p \in Procs, DumpStep(p) PROVE SpacingInv'
  <2>1. CASE DumpInsert(p) \/ DumpStart(p)
    BY OutsideStep, <1>6, <2>1 DEF DumpInsert, DumpStart, TxPhases
  <2>2. ASSUME NEW v, Failed(p, v), pc[p] \notin TxPhases, UNCHANGED <<schedule, lock>>
        PROVE  SpacingInv'
    <3>1. CASE Return(p)
      BY OutsideStep, <1>5, <2>2, <3>1
    <3>2. CASE job' = [job EXCEPT ![p].verdict = v] /\ Goto(p, "finish") /\ p \in Ticks
      BY <1>0, OutsideStep, <1>6, <2>2, <3>2 DEF TxPhases
    <3> QED
      BY <2>2, <3>1, <3>2 DEF Failed
  <2>3. CASE DumpComplete(p)
    BY OutsideStep, <1>5, <1>6, <2>3 DEF DumpComplete, TxPhases
  <2>4. CASE DumpFail(p)
    BY <2>2, <2>4 DEF DumpFail, TxPhases
  <2>5. CASE VerifyDump(p)
    <3>1. CASE p \in Ticks
      BY OutsideStep, <1>6, <2>2, <2>5, <3>1 DEF VerifyDump, TxPhases
    <3>2. CASE p \notin Ticks
      BY OutsideStep, <1>6, <2>2, <2>5, <3>2 DEF VerifyDump, TxPhases
    <3> QED
      BY <3>1, <3>2
  <2> QED
    BY <1>11, <2>1, <2>3, <2>4, <2>5 DEF DumpStep
<1>12. ASSUME NEW p \in Procs, Crash(p) \/ Rejected(p) PROVE SpacingInv'
  <2>1. /\ lock' = IF lock = p THEN Free ELSE lock
        /\ schedule' = schedule /\ Return(p)
    BY <1>12 DEF Crash, Rejected, Stop
  <2>2. CASE p \in Ticks /\ pc[p] \in TxPhases
    <3>1. lock' = Free
      BY <2>1, <2>2 DEF SpacingInv, LockHeld
    <3> QED
      BY <1>0, <1>2, <2>1, <2>2, <3>1, DueKept DEF Return, Goto, SpacingInv
  <2>3. CASE ~(p \in Ticks /\ pc[p] \in TxPhases)
    <3>1. lock' = lock
      BY <2>1, <2>3 DEF SpacingInv, LockHeld, TypeOK
    <3>2. SameTx /\ SameDecisions
      BY <1>0, <2>1, <2>3 DEF Return, Goto, TxPhases, SameTx, SameDecisions
    <3> QED
      BY OutsideStep, <2>1, <3>1, <3>2
  <2> QED
    BY <2>2, <2>3
<1>16. ASSUME NEW t \in Ticks, WatchdogFails(t) PROVE SpacingInv'
  BY <1>0, OutsideStep, <1>6, <1>16 DEF WatchdogFails, TxPhases
<1>13. CASE ToggleSchedule
  BY OutsideStep, <1>13 DEF ToggleSchedule, TypeOK, AgeKept, SameTx, SameDecisions
<1>14. CASE Advance
  <2>1. AgeKept
    BY <1>14 DEF Advance, TypeOK, AgeKept
  <2>2. SameTx /\ SameDecisions
    BY <1>14 DEF Advance, SameTx, SameDecisions
  <2> QED
    BY OutsideStep, <1>14, <2>1, <2>2 DEF Advance
<1>15. CASE UNCHANGED vars
  BY OutsideStep, <1>15 DEF vars, SameTx, SameDecisions
<1> QED
  BY <1>0, <1>7, <1>8, <1>9, <1>10, <1>11, <1>12, <1>13, <1>14, <1>15, <1>16 DEF Next

LEMMA SpacingInvariant == Spec => [](TypeOK /\ SpacingInv)
<1>1. Init => SpacingInv
  BY ProcessAssumption
  DEF Init, SpacingInv, LockHeld, DueStays, TxPhases, NewJob, Procs
<1>2. TypeOK /\ SpacingInv /\ [Next]_vars => SpacingInv'
  BY SpacingStep
<1> QED
  BY <1>1, <1>2, TypeCorrect, PTL DEF Spec

\* A cron tick commits the RUNNING marker at least one frequency after the
\* last run, whatever the other ticks, restores and admins do meanwhile.
THEOREM CronTicksSpaced == Spec => CronSpacing
<1>1. TypeOK /\ SpacingInv /\ [Next]_vars =>
        [\A t \in Ticks : CronAdmitted(t) =>
           schedule.age = Never \/ schedule.age >= Frequency]_vars
  BY DEF SpacingInv, DueStays, IsDue, CronAdmitted
<1> QED
  BY <1>1, SpacingInvariant, PTL DEF Spec, CronSpacing

-----------------------------------------------------------------------------
(* A RUNNING marker has an owner                                            *)

\* Ticks only ever run the phases of a tick, so that a tick past its marker
\* reaches the final update.
TickPhases ==
  \A t \in Ticks : pc[t] \in {"idle", "watch", "lock"} \cup TxPhases \cup RunPhases

MarkerInv == TickPhases /\ RunningMeansLive

LEMMA MarkerStep ==
  ASSUME TypeOK, MarkerInv, [Next]_vars
  PROVE  MarkerInv'
<1>0. /\ pc \in [Procs -> AllPhases] /\ schedule \in Settings
      /\ Ticks \subseteq Procs
      /\ \A t \in Ticks : t \notin Creators /\ t \notin Restorers
  BY ProcessAssumption DEF TypeOK, Procs, Settings
\* A step that leaves the outcome alone and no tick out of its run.
<1>1. ASSUME TickPhases',
             \/ schedule'.outcome = schedule.outcome /\ orphaned' = orphaned
             \/ schedule'.outcome # "RUNNING",
             \A t \in Ticks : pc[t] \in RunPhases => pc'[t] \in RunPhases
      PROVE  MarkerInv'
  BY <1>1 DEF MarkerInv, RunningMeansLive
<1>2. ASSUME NEW p \in Procs, NEW phase, Goto(p, phase),
             p \in Ticks => phase \in {"idle", "watch", "lock"} \cup TxPhases \cup RunPhases,
             p \in Ticks /\ pc[p] \in RunPhases => phase \in RunPhases
      PROVE  /\ TickPhases'
             /\ \A t \in Ticks : pc[t] \in RunPhases => pc'[t] \in RunPhases
  BY <1>0, <1>2 DEF Goto, MarkerInv, TickPhases
<1>3. ASSUME NEW t \in Ticks, TickStep(t) PROVE MarkerInv'
  <2> USE DEF TxPhases, RunPhases, Return, Skip, faults
  <2>1. CASE Watchdog(t)
    <3>1. \/ schedule'.outcome = schedule.outcome /\ orphaned' = orphaned
          \/ schedule'.outcome # "RUNNING"
      BY <1>0, <2>1 DEF Watchdog, WriteOutcome, Settings
    <3> QED
      BY <1>0, <1>1, <1>2, <2>1, <3>1 DEF Watchdog, WriteOutcome
  <2>2. CASE LockAcquired(t) \/ LockRefused(t) \/ ReadSchedule(t) \/ CheckBackups(t)
             \/ CheckRestores(t) \/ Retain(t)
    <3>1. schedule' = schedule /\ orphaned' = orphaned
      BY <2>2 DEF LockAcquired, LockRefused, ReadSchedule, CheckBackups, CheckRestores, Retain
    <3>2. \E phase \in {"idle", "decide", "backups", "restores", "mark", "finish"} :
            Goto(t, phase) /\ (pc[t] \in RunPhases => phase = "finish")
      BY <2>2 DEF LockAcquired, LockRefused, ReadSchedule, CheckBackups, CheckRestores, Retain
    <3> QED
      BY <1>0, <1>1, <1>2, <3>1, <3>2
  <2>3. CASE SkipDisabled(t)
    <3>1. schedule'.outcome = "SKIPPED_DISABLED"
      BY <1>0, <2>3 DEF SkipDisabled, WriteOutcome, Settings
    <3> QED
      BY <1>0, <1>1, <1>2, <2>3, <3>1 DEF SkipDisabled, WriteOutcome
  <2>4. CASE MarkRunning(t)
    <3>1. pc'[t] = "insert"
      BY <1>0, <2>4 DEF MarkRunning, WriteOutcome, Goto
    <3>2. TickPhases'
      BY <1>0, <1>2, <2>4 DEF MarkRunning
    <3> QED
      BY <3>1, <3>2 DEF MarkerInv, RunningMeansLive
  <2>5. CASE Finish(t)
    <3>1. schedule'.outcome = job[t].verdict /\ job[t].verdict # "RUNNING"
      BY <1>0, <2>5 DEF Finish, WriteOutcome, Settings, TypeOK
    <3>2. TickPhases'
      BY <1>0, <2>5 DEF Finish, Goto, MarkerInv, TickPhases
    <3> QED
      BY <3>1, <3>2 DEF MarkerInv, RunningMeansLive
  <2> QED
    BY <1>3, <2>1, <2>2, <2>3, <2>4, <2>5 DEF TickStep
<1>4. ASSUME NEW t \in Ticks, NEW m \in Modes, Begin(t, m) PROVE MarkerInv'
  BY <1>0, <1>1, <1>2, <1>4 DEF Begin, faults, RunPhases
<1>5. ASSUME NEW c \in Creators, CreatorCheck(c) PROVE MarkerInv'
  BY <1>0, <1>1, <1>2, <1>5 DEF CreatorCheck, faults, Procs
<1>6. ASSUME NEW r \in Restorers, RestoreCheck(r) \/ RestoreStep(r) PROVE MarkerInv'
  <2>0. r \in Procs /\ r \notin Ticks
    BY <1>0 DEF Procs
  <2>1. CASE RestoreApply(r)
    <3>1. orphaned' /\ Goto(r, "close")
      BY <2>1 DEF RestoreApply
    <3>2. TickPhases'
      BY <1>2, <2>0, <3>1
    <3> QED
      BY <3>1, <3>2 DEF MarkerInv, RunningMeansLive
  <2>2. CASE ~RestoreApply(r)
    <3>1. /\ schedule' = schedule /\ orphaned' = orphaned
          /\ \E phase : Goto(r, phase)
      BY <1>6, <2>2 DEF RestoreCheck, RestoreStep, RestoreOpen, RestoreRaceCheck,
                        RestoreClose, Return, faults
    <3> QED
      BY <1>1, <1>2, <2>0, <3>1
  <2> QED
    BY <2>1, <2>2
<1>7. ASSUME NEW p \in Procs, DumpStep(p) PROVE MarkerInv'
  <2> USE DEF RunPhases, Return, faults
  <2>1. schedule' = schedule /\ orphaned' = orphaned
    BY <1>7 DEF DumpStep, DumpInsert, DumpStart, DumpComplete, DumpFail, VerifyDump
  <2>2. \E phase : Goto(p, phase) /\ (p \in Ticks => phase \in RunPhases)
    BY <1>0, <1>7
    DEF DumpStep, DumpInsert, DumpStart, DumpComplete, DumpFail, VerifyDump, Failed
  <2> QED
    BY <1>1, <1>2, <2>1, <2>2
<1>8. ASSUME NEW p \in Procs, Crash(p) \/ Rejected(p) PROVE MarkerInv'
  <2>1. /\ schedule' = schedule /\ Goto(p, "idle")
        /\ orphaned' = (orphaned \/ (p \in Ticks /\ pc[p] \in RunPhases
                                                /\ schedule.outcome = "RUNNING"))
    BY <1>8 DEF Crash, Rejected, Stop, Return
  <2>2. \A t \in Ticks \ {p} : pc'[t] = pc[t]
    BY <1>0, <2>1 DEF Goto
  <2>3. TickPhases'
    BY <1>0, <2>1 DEF Goto, MarkerInv, TickPhases
  <2>4. RunningMeansLive'
    BY <2>1, <2>2 DEF MarkerInv, RunningMeansLive
  <2> QED
    BY <2>3, <2>4 DEF MarkerInv
<1>11. ASSUME NEW t \in Ticks, WatchdogFails(t) PROVE MarkerInv'
  BY <1>0, <1>1, <1>2, <1>11 DEF WatchdogFails, RunPhases
<1>9. CASE ToggleSchedule \/ Advance
  <2>1. schedule'.outcome = schedule.outcome
    BY <1>0, <1>9 DEF ToggleSchedule, Advance, Settings
  <2> QED
    BY <1>1, <1>9, <2>1 DEF ToggleSchedule, Advance, faults, MarkerInv, TickPhases
<1>10. CASE UNCHANGED vars
  BY <1>10 DEF vars, MarkerInv, TickPhases, RunningMeansLive
<1> QED
  BY <1>0, <1>3, <1>4, <1>5, <1>6, <1>7, <1>8, <1>9, <1>10, <1>11 DEF Next

\* A schedule that reads RUNNING has a live tick that is going to overwrite it, unless
\* a tick stopped after its marker, by a crash or a rejected statement, or a restore
\* brought the marker back.
THEOREM MarkerHasOwner == Spec => []RunningMeansLive
<1>1. Init => MarkerInv
  BY DEF Init, MarkerInv, TickPhases, RunningMeansLive, Procs
<1>2. TypeOK /\ MarkerInv /\ [Next]_vars => MarkerInv'
  BY MarkerStep
<1>3. MarkerInv => RunningMeansLive
  BY DEF MarkerInv
<1> QED
  BY <1>1, <1>2, <1>3, TypeCorrect, PTL DEF Spec

-----------------------------------------------------------------------------
(* Of the cron ticks, one at most has been admitted                         *)

Admitted(t) == pc[t] = "insert" \/ row[t] \in InFlight

\* A tick has a row in flight only while it dumps.
RowsAreDumps == \A t \in Ticks : row[t] \in InFlight => pc[t] \in {"start", "dump"}

\* From the marker to the insertion of the row the clock stands still.
JustMarked == \A t \in Cron : pc[t] = "insert" => schedule.age = 0

\* A due cron tick past its first query has no other cron tick's dump beside it.
SeenIdle ==
  \A s, t \in Cron :
    (pc[t] \in {"restores", "mark"} /\ job[t].due /\ row[s] \in InFlight) => s = t

OneDumpInv == RowsAreDumps /\ JustMarked /\ SeenIdle /\ OneDumpInFlight

\* No tick is admitted by the step, nor moved to a query after the first.
NoneAdmitted ==
  \A t \in Ticks :
    /\ (pc'[t] = "insert") =>
         pc[t] = "insert" /\ job'[t] = job[t] /\ schedule'.age \in {schedule.age, 0}
    /\ (row'[t] \in InFlight) =>
         Admitted(t) /\ job'[t] = job[t] /\ pc'[t] \in {"start", "dump"}
    /\ (pc'[t] \in {"restores", "mark"}) => pc'[t] = pc[t] /\ job'[t] = job[t]

\* While a cron tick is about to insert its row, no other is due.
LEMMA NoneDue ==
  ASSUME TypeOK, SpacingInv, JustMarked,
         NEW s \in Cron, NEW t \in Cron, pc[s] = "insert",
         pc[t] \in {"backups", "restores", "mark"}
  PROVE  ~job[t].due
<1>1. schedule.age = 0
  BY DEF JustMarked
<1>2. 0 # Never /\ ~(0 >= Frequency)
  BY TimingAssumption
<1> QED
  BY <1>1, <1>2 DEF SpacingInv, DueStays, IsDue, Cron

LEMMA NoneAdmittedKeeps ==
  ASSUME TypeOK, SpacingInv, OneDumpInv, NoneAdmitted
  PROVE  OneDumpInv'
<1>1. RowsAreDumps'
  BY DEF NoneAdmitted, RowsAreDumps
<1>2. JustMarked'
  BY DEF NoneAdmitted, OneDumpInv, JustMarked, Cron
<1>3. ASSUME NEW t \in Ticks, Admitted(t)', job'[t].mode = "cron"
      PROVE  Admitted(t) /\ t \in Cron
  BY <1>3 DEF NoneAdmitted, Admitted, Cron
<1>4. OneDumpInFlight'
  <2> SUFFICES ASSUME NEW s \in Ticks, NEW t \in Ticks, Admitted(s)', Admitted(t)',
                      job'[s].mode = "cron", job'[t].mode = "cron"
               PROVE  s = t
    BY DEF OneDumpInFlight, Cron, Admitted
  <2> QED
    BY <1>3 DEF OneDumpInv, OneDumpInFlight, Admitted
<1>5. SeenIdle'
  <2> SUFFICES ASSUME NEW s \in Ticks, NEW t \in Ticks,
                      job'[s].mode = "cron", job'[t].mode = "cron",
                      pc'[t] \in {"restores", "mark"}, job'[t].due, row'[s] \in InFlight
               PROVE  s = t
    BY DEF SeenIdle, Cron
  <2>1. Admitted(s) /\ s \in Cron
    BY <1>3 DEF Admitted
  <2>2. pc[t] \in {"restores", "mark"} /\ job[t].due /\ t \in Cron
    BY DEF NoneAdmitted, Cron
  <2>3. pc[s] # "insert"
    BY <2>1, <2>2, NoneDue DEF OneDumpInv
  <2> QED
    BY <2>1, <2>2, <2>3 DEF Admitted, OneDumpInv, SeenIdle
<1> QED
  BY <1>1, <1>2, <1>4, <1>5 DEF OneDumpInv

LEMMA OneDumpStep ==
  ASSUME TypeOK, SpacingInv, OneDumpInv, [Next]_vars
  PROVE  OneDumpInv'
<1>0. /\ pc \in [Procs -> AllPhases] /\ job \in [Ticks -> JobLocals]
      /\ row \in [Procs -> RowStates] /\ schedule \in Settings
      /\ Ticks \subseteq Procs
  BY DEF TypeOK, Procs, JobLocals, Settings
\* One process moves, to a phase that is neither the insertion nor a later query.
<1>1. ASSUME NEW p \in Procs, NEW phase, Goto(p, phase),
             phase \notin {"insert", "restores", "mark"},
             \A t \in Ticks \ {p} : job'[t] = job[t] /\ row'[t] = row[t],
             p \in Ticks /\ row'[p] \in InFlight =>
               Admitted(p) /\ job'[p] = job[p] /\ phase \in {"start", "dump"},
             schedule'.age \in {schedule.age, 0}
      PROVE  OneDumpInv'
  <2>1. pc'[p] = phase /\ \A t \in Ticks \ {p} : pc'[t] = pc[t]
    BY <1>0, <1>1 DEF Goto
  <2>2. NoneAdmitted
    BY <1>1, <2>1 DEF NoneAdmitted, OneDumpInv, RowsAreDumps, Admitted
  <2> QED
    BY <2>2, NoneAdmittedKeeps
<1>2. ASSUME NEW p \in Procs, Return(p), schedule'.age \in {schedule.age, 0}
      PROVE  OneDumpInv'
  <2>1. /\ Goto(p, "idle") /\ row' = [row EXCEPT ![p] = "none"]
        /\ \A t \in Ticks \ {p} : job'[t] = job[t] /\ row'[t] = row[t]
    BY <1>0, <1>2 DEF Return
  <2>2. p \in Ticks => row'[p] \notin InFlight
    BY <1>0, <2>1 DEF InFlight
  <2> QED
    BY <1>1, <1>2, <2>1, <2>2
<1>3. ASSUME NEW t \in Ticks, TickStep(t) PROVE OneDumpInv'
  <2>1. CASE Watchdog(t)
    <3>1. schedule'.age = schedule.age
      BY <1>0, <2>1 DEF Watchdog, WriteOutcome, Settings
    <3>2. row[t] \notin InFlight
      BY <2>1 DEF Watchdog, OneDumpInv, RowsAreDumps
    <3> QED
      BY <1>0, <1>1, <2>1, <3>1, <3>2 DEF Watchdog
  <2>2. CASE LockAcquired(t)
    <3>1. row[t] \notin InFlight
      BY <2>2 DEF LockAcquired, OneDumpInv, RowsAreDumps
    <3> QED
      BY <1>0, <1>1, <2>2, <3>1 DEF LockAcquired
  <2>3. CASE LockRefused(t)
    BY <1>0, <1>2, <2>3 DEF LockRefused
  <2>4. CASE SkipDisabled(t)
    <3>1. schedule'.age = 0
      BY <1>0, <2>4 DEF SkipDisabled, WriteOutcome, Settings
    <3> QED
      BY <1>0, <1>2, <2>4, <3>1 DEF SkipDisabled
  <2>5. CASE ReadSchedule(t)
    <3>1. row[t] \notin InFlight
      BY <2>5 DEF ReadSchedule, OneDumpInv, RowsAreDumps
    <3>2. \A u \in Ticks \ {t} : job'[u] = job[u]
      BY <1>0, <2>5 DEF ReadSchedule, JobLocals
    <3> QED
      BY <1>0, <1>1, <2>5, <3>1, <3>2 DEF ReadSchedule
  <2>6. CASE CheckBackups(t) /\ ~Skip(t)
    <3>1. /\ \A p \in Procs : row[p] \notin InFlight
          /\ UNCHANGED <<schedule, job, row>>
          /\ pc'[t] = "restores" /\ \A u \in Ticks \ {t} : pc'[u] = pc[u]
      BY <1>0, <2>6 DEF CheckBackups, ActiveBackup, Goto
    <3> QED
      BY <1>0, <3>1
      DEF OneDumpInv, RowsAreDumps, JustMarked, SeenIdle, OneDumpInFlight, Cron
  <2>7. CASE CheckRestores(t) /\ ~Skip(t)
    <3>1. /\ UNCHANGED <<schedule, job, row>> /\ pc[t] = "restores"
          /\ pc'[t] = "mark" /\ \A u \in Ticks \ {t} : pc'[u] = pc[u]
      BY <1>0, <2>7 DEF CheckRestores, Goto
    <3> QED
      BY <1>0, <3>1
      DEF OneDumpInv, RowsAreDumps, JustMarked, SeenIdle, OneDumpInFlight, Cron
  <2>8. CASE Skip(t)
    BY <1>0, <1>2, <2>8 DEF Skip
  <2>9. CASE MarkRunning(t)
    <3>1. /\ schedule'.age = 0 /\ UNCHANGED <<job, row>> /\ pc[t] = "mark"
          /\ pc'[t] = "insert" /\ \A u \in Ticks \ {t} : pc'[u] = pc[u]
          /\ job[t].due
      BY <1>0, <2>9 DEF MarkRunning, WriteOutcome, Goto, Settings, SpacingInv, DueStays
    <3>2. RowsAreDumps' /\ JustMarked'
      BY <1>0, <3>1 DEF OneDumpInv, RowsAreDumps, JustMarked, Cron
    <3>3. \A u \in Ticks \ {t} : pc'[u] \notin {"restores", "mark"}
      BY <3>1 DEF SpacingInv, LockHeld, TxPhases
    <3>4. SeenIdle'
      BY <3>1, <3>3 DEF SeenIdle, Cron
    <3>5. ASSUME NEW u \in Cron, t \in Cron, pc'[u] = "insert" \/ row'[u] \in InFlight
          PROVE  u = t
      BY <1>0, <3>1, <3>5, NoneDue DEF OneDumpInv, SeenIdle, Cron
    <3>6. OneDumpInFlight'
      BY <3>1, <3>5 DEF OneDumpInv, OneDumpInFlight, Cron
    <3> QED
      BY <3>2, <3>4, <3>6 DEF OneDumpInv
  <2>10. CASE Retain(t)
    <3>1. row[t] \notin InFlight
      BY <2>10 DEF Retain, OneDumpInv, RowsAreDumps
    <3> QED
      BY <1>0, <1>1, <2>10, <3>1 DEF Retain
  <2>11. CASE Finish(t)
    <3>1. schedule'.age = schedule.age
      BY <1>0, <2>11 DEF Finish, WriteOutcome, Settings
    <3> QED
      BY <1>0, <1>2, <2>11, <3>1 DEF Finish
  <2> QED
    BY <1>3, <2>1, <2>2, <2>3, <2>4, <2>5, <2>6, <2>7, <2>8, <2>9, <2>10, <2>11
    DEF TickStep
<1>4. ASSUME NEW t \in Ticks, NEW m \in Modes, Begin(t, m) PROVE OneDumpInv'
  <2>1. row[t] \notin InFlight
    BY <1>4 DEF Begin, OneDumpInv, RowsAreDumps
  <2> QED
    BY <1>0, <1>1, <1>4, <2>1 DEF Begin
\* A process that is not a tick changes no tick.
<1>5. ASSUME NEW p \in Procs \ Ticks, NEW phase, Goto(p, phase), schedule' = schedule,
             job' = job, \A t \in Ticks : row'[t] = row[t]
      PROVE  OneDumpInv'
  <2>1. \A t \in Ticks : pc'[t] = pc[t]
    BY <1>0, <1>5 DEF Goto
  <2> QED
    BY <1>5, <2>1, NoneAdmittedKeeps
    DEF NoneAdmitted, Admitted, OneDumpInv, RowsAreDumps
<1>6. ASSUME NEW c \in Creators, CreatorCheck(c) PROVE OneDumpInv'
  <2>1. c \in Procs \ Ticks
    BY ProcessAssumption DEF Procs
  <2> QED
    BY <1>5, <1>6, <2>1 DEF CreatorCheck
<1>7. ASSUME NEW r \in Restorers, RestoreCheck(r) \/ RestoreStep(r) PROVE OneDumpInv'
  <2>0. r \in Procs \ Ticks
    BY ProcessAssumption DEF Procs
  <2>1. CASE RestoreApply(r)
    <3>1. /\ \A q \in Ticks : pc'[q] = pc[q] /\ row'[q] = "none" /\ job'[q] = job[q]
      BY <1>0, <2>0, <2>1 DEF RestoreApply, Goto
    <3>2. \A q \in Ticks : pc'[q] \notin {"insert", "restores", "mark"}
      BY <1>0, <2>1, <3>1 DEF RestoreApply, ShortPhases, TxPhases
    <3> QED
      BY <3>1, <3>2, NoneAdmittedKeeps DEF NoneAdmitted, InFlight
  <2>2. CASE RestoreCheck(r) \/ RestoreOpen(r)
    BY <1>0, <1>5, <2>0, <2>2 DEF RestoreCheck, RestoreOpen
  <2>3. CASE RestoreRaceCheck(r) \/ RestoreClose(r)
    BY <1>0, <1>2, <1>5, <2>0, <2>3 DEF RestoreRaceCheck, RestoreClose
  <2> QED
    BY <1>7, <2>1, <2>2, <2>3 DEF RestoreStep
<1>8. ASSUME NEW p \in Procs, DumpStep(p) PROVE OneDumpInv'
  <2>1. CASE DumpInsert(p) \/ DumpStart(p)
    <3>1. Admitted(p)
      BY <2>1 DEF DumpInsert, DumpStart, Admitted, InFlight
    <3> QED
      BY <1>0, <1>1, <2>1, <3>1 DEF DumpInsert, DumpStart
  <2>2. ASSUME NEW v, Failed(p, v), schedule' = schedule PROVE OneDumpInv'
    <3>1. CASE Return(p)
      BY <1>2, <2>2, <3>1
    <3>2. CASE ~Return(p)
      <4>1. /\ p \in Ticks /\ Goto(p, "finish")
            /\ \A t \in Ticks \ {p} : job'[t] = job[t] /\ row'[t] = row[t]
            /\ row'[p] \notin InFlight
        BY <1>0, <2>2, <3>2 DEF Failed, InFlight
      <4> QED
        BY <1>0, <1>1, <2>2, <4>1
    <3> QED
      BY <3>1, <3>2
  <2>3. CASE DumpComplete(p)
    <3>1. CASE Return(p)
      BY <1>2, <2>3, <3>1 DEF DumpComplete
    <3>2. CASE ~Return(p)
      <4>1. row' = [row EXCEPT ![p] = "COMPLETED"] /\ Goto(p, "verify") /\ job' = job
        BY <2>3, <3>2 DEF DumpComplete
      <4>2. row'[p] \notin InFlight
        BY <1>0, <4>1 DEF InFlight
      <4> QED
        BY <1>0, <1>1, <2>3, <4>1, <4>2 DEF DumpComplete
    <3> QED
      BY <3>1, <3>2
  <2>4. CASE DumpFail(p)
    BY <2>2, <2>4 DEF DumpFail
  <2>5. CASE VerifyDump(p)
    <3>1. CASE Failed(p, "FAILED_VERIFY")
      BY <2>2, <2>5, <3>1 DEF VerifyDump
    <3>2. CASE ~Failed(p, "FAILED_VERIFY")
      <4>1. PICK phase \in {"retain", "apply"} :
              row' = [row EXCEPT ![p] = "VERIFIED"] /\ Goto(p, phase) /\ job' = job
        BY <2>5, <3>2 DEF VerifyDump
      <4>2. row'[p] \notin InFlight
        BY <1>0, <4>1 DEF InFlight
      <4> QED
        BY <1>0, <1>1, <2>5, <4>1, <4>2 DEF VerifyDump
    <3> QED
      BY <3>1, <3>2
  <2> QED
    BY <1>8, <2>1, <2>3, <2>4, <2>5 DEF DumpStep
<1>9. ASSUME NEW p \in Procs, Crash(p) \/ Rejected(p) PROVE OneDumpInv'
  BY <1>2, <1>9 DEF Crash, Rejected, Stop
<1>13. ASSUME NEW t \in Ticks, WatchdogFails(t) PROVE OneDumpInv'
  <2>1. row[t] \notin InFlight
    BY <1>13 DEF WatchdogFails, OneDumpInv, RowsAreDumps
  <2> QED
    BY <1>0, <1>1, <1>13, <2>1 DEF WatchdogFails
<1>10. CASE ToggleSchedule
  <2>1. schedule'.age = schedule.age
    BY <1>0, <1>10 DEF ToggleSchedule, Settings
  <2> QED
    BY <1>10, <2>1, NoneAdmittedKeeps
    DEF ToggleSchedule, NoneAdmitted, Admitted, OneDumpInv, RowsAreDumps
<1>11. CASE Advance
  <2>1. \A t \in Ticks : pc[t] \notin {"insert"}
    BY <1>0, <1>11 DEF Advance, ShortPhases
  <2> QED
    BY <1>11, <2>1, NoneAdmittedKeeps
    DEF Advance, NoneAdmitted, Admitted, OneDumpInv, RowsAreDumps
<1>12. CASE UNCHANGED vars
  BY <1>12, NoneAdmittedKeeps
  DEF vars, NoneAdmitted, Admitted, OneDumpInv, RowsAreDumps
<1> QED
  BY <1>0, <1>3, <1>4, <1>6, <1>7, <1>8, <1>9, <1>10, <1>11, <1>12, <1>13 DEF Next

\* Two cron ticks are never both between their marker and the end of their dump:
\* the marker makes the others not due before the row exists, and from then on
\* the row makes them skip.
THEOREM OneCronDump == Spec => []OneDumpInFlight
<1>1. Init => OneDumpInv
  BY DEF Init, OneDumpInv, RowsAreDumps, JustMarked, SeenIdle, OneDumpInFlight,
         Cron, Procs, InFlight
<1>2. TypeOK /\ SpacingInv /\ OneDumpInv /\ [Next]_vars => OneDumpInv'
  BY OneDumpStep
<1>3. OneDumpInv => OneDumpInFlight
  BY DEF OneDumpInv
<1> QED
  BY <1>1, <1>2, <1>3, SpacingInvariant, PTL DEF Spec
=============================================================================
