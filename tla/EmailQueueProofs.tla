--------------------------- MODULE EmailQueueProofs ---------------------------
(***************************************************************************)
(* Machine-checked facts about EmailQueue, for any number of processes,    *)
(* messages and attempts and any size of a batch, and the proof that it    *)
(* implements the leases of Mailbox.                                       *)
(***************************************************************************)
EXTENDS EmailQueue, FiniteSetTheorems, TLAPS

-----------------------------------------------------------------------------
(* The operators                                                            *)

\* A set of numbers has a least one.
LEMMA Least ==
  ASSUME NEW S \in SUBSET Nat, S # {}
  PROVE  Min(S) \in S /\ \A n \in S : Min(S) =< n
<1>1. PICK x \in S : \A y \in S : <<y, x>> \notin OpToRel(<, Nat)
  BY NatLessThanWellFounded, WFMin
<1>2. \A y \in S : ~(y < x)
  BY <1>1 DEF OpToRel
<1>3. \A y \in S : x =< y
  BY <1>2
<1> QED
  BY <1>3 DEF Min

\* Of a bounded set of numbers one is the largest.
LEMMA MaxOf ==
  ASSUME NEW S \in SUBSET Nat, S # {}, NEW b \in Nat, \A n \in S : n =< b
  PROVE  \E x \in S : \A n \in S : n =< x
<1> DEFINE Bounds == {k \in Nat : \A n \in S : n =< k}
<1>1. Bounds \in SUBSET Nat /\ Bounds # {}
  OBVIOUS
<1>2. PICK x \in Bounds : \A k \in Bounds : x =< k
  <2> HIDE DEF Bounds
  <2> QED
    BY <1>1, Least
<1>3. x \in S
  <2>1. x \in Nat /\ \A n \in S : n \in Nat /\ n =< x
    BY <1>2
  <2>2. ASSUME x \notin S PROVE x - 1 \in Bounds
    <3>1. \A n \in S : n # x
      BY <2>2
    <3>2. \A n \in S : n =< x - 1
      BY <2>1, <3>1
    <3>3. PICK n \in S : TRUE
      OBVIOUS
    <3>4. x - 1 \in Nat
      BY <2>1, <3>2, <3>3
    <3> QED
      BY <3>2, <3>4
  <2> QED
    BY <1>2, <2>1, <2>2
<1> QED
  BY <1>2, <1>3

\* The rows of a batch are rows that are due, and there are finitely many.
LEMMA DueFinite ==
  /\ Due \in SUBSET Messages /\ Batch \in SUBSET Due
  /\ Messages \in SUBSET Nat /\ IsFiniteSet(Due) /\ IsFiniteSet(Batch)
<1>1. Due \in SUBSET Messages /\ Batch \in SUBSET Due /\ Messages \in SUBSET Nat
  BY DEF Due, Batch, Messages
<1>2. MaxMessages \in Nat
  BY EmailAssumption
<1>3. IsFiniteSet(Messages)
  BY <1>2, FS_Interval DEF Messages
<1> QED
  BY <1>1, <1>3, FS_Subset

\* A claim that leaves a due row behind has filled its batch.
LEMMA FullBatch ==
  ASSUME ~(Due \subseteq Batch)
  PROVE  Cardinality(Batch) = BatchSize
<1> DEFINE Older(n) == {k \in Due : k < n}
<1>0. BatchSize \in Nat \ {0} /\ MaxMessages \in Nat
  BY EmailAssumption
<1>1. /\ Due \subseteq Nat /\ Batch \in SUBSET Due /\ \A n \in Due : n =< MaxMessages
      /\ \A n \in Due : n \in Batch <=> Cardinality(Older(n)) < BatchSize
  BY DueFinite, <1>0 DEF Batch, Messages
<1>2. ASSUME NEW n PROVE IsFiniteSet(Older(n)) /\ Cardinality(Older(n)) \in Nat
  BY DueFinite, FS_Subset, FS_CardinalityType
\* An older row has fewer rows before it.
<1>3. ASSUME NEW n \in Due, NEW k \in Due, k < n
      PROVE  Cardinality(Older(k)) < Cardinality(Older(n))
  <2>0. k \in Nat /\ n \in Nat /\ \A j \in Due : j \in Nat
    BY <1>1
  <2>a. ASSUME NEW j \in Older(k) PROVE j \in Older(n)
    BY <1>3, <2>0
  <2>b. k \in Older(n) /\ k \notin Older(k)
    BY <1>3, <2>0
  <2>1. Older(k) \in SUBSET Older(n) /\ k \in Older(n) /\ k \notin Older(k)
    BY <2>a, <2>b
  <2>2. /\ Cardinality(Older(k)) <= Cardinality(Older(n))
        /\ (Cardinality(Older(n)) = Cardinality(Older(k)) => Older(n) = Older(k))
    <3> HIDE DEF Older
    <3> QED
      BY <1>2, <2>1, FS_Subset
  <2> QED
    BY <1>2, <2>1, <2>2
\* The batch is what is older than the oldest row left behind.
<1>4. PICK m \in Due \ Batch : \A n \in Due \ Batch : m =< n
  <2>1. Due \ Batch \in SUBSET Nat /\ Due \ Batch # {}
    BY <1>1
  <2> QED
    BY <2>1, Least
<1>5. ASSUME NEW n \in Batch PROVE n < m
  <2>1. n \in Due /\ n \in Nat /\ m \in Nat /\ n # m
    BY <1>1, <1>4
  <2>2. Cardinality(Older(n)) < BatchSize /\ ~(Cardinality(Older(m)) < BatchSize)
    BY <1>1, <1>4, <2>1
  <2>3. m < n => Cardinality(Older(m)) < Cardinality(Older(n))
    BY <1>3, <1>4, <2>1
  <2> HIDE DEF Older
  <2> QED
    BY <1>0, <1>2, <2>1, <2>2, <2>3
<1>6. Batch = Older(m)
  <2>1. \A n \in Due : n \in Nat /\ (n \notin Batch => ~(n < m))
    BY <1>1, <1>4
  <2> QED
    BY <1>1, <1>5, <2>1
<1>7. Cardinality(Batch) >= BatchSize
  <2>1. ~(Cardinality(Older(m)) < BatchSize)
    BY <1>1, <1>4
  <2> HIDE DEF Older
  <2> QED
    BY <1>0, <1>2, <1>6, <2>1
<1>8. Batch # {}
  BY <1>0, <1>7, FS_EmptySet
\* The youngest of the batch has fewer than BatchSize rows before it.
<1>9. PICK x \in Batch : \A n \in Batch : n =< x
  <2>1. Batch \in SUBSET Nat /\ \A n \in Batch : n =< MaxMessages
    BY <1>1
  <2> QED
    BY <1>0, <1>8, <2>1, MaxOf
<1>10. Batch = Older(x) \cup {x}
  <2>1. \A n \in Due : n \in Nat
    BY <1>1
  <2>2. ASSUME NEW n \in Batch PROVE n \in Older(x) \cup {x}
    BY <1>1, <1>9, <2>1
  <2>3. ASSUME NEW n \in Older(x) PROVE n \in Batch
    <3>1. n \in Due /\ n < x /\ x < m /\ x \in Due
      BY <1>1, <1>5
    <3> QED
      BY <1>6, <2>1, <3>1
  <2> QED
    BY <2>2, <2>3
<1>11. Cardinality(Batch) = Cardinality(Older(x)) + 1
  <2>1. x \notin Older(x)
    BY <1>1
  <2> HIDE DEF Older
  <2> QED
    BY <1>2, <1>10, <2>1, FS_AddElement
<1>12. Cardinality(Older(x)) < BatchSize
  BY <1>1, <1>9
<1> HIDE DEF Older
<1> QED
  BY <1>0, <1>2, <1>7, <1>11, <1>12

-----------------------------------------------------------------------------
(* The inductive invariant                                                  *)

Attempts == 0..(MaxAttempts - 1)
Rows     == [status : {"NONE", "QUEUED", "SENT", "FAILED"}, att : Attempts, due : BOOLEAN]
Batches  == UNION {[S -> Attempts] : S \in SUBSET Messages}
Runs     == [pc : {"idle", "claim", "send", "mark"}, batch : Batches, follow : BOOLEAN,
             out : {"none", "SENT", "QUEUED", "FAILED"}]

Typed ==
  /\ row \in [Messages -> Rows] /\ run \in [Processes -> Runs]
  /\ test \in Messages \cup {0} /\ delivered \in [Messages -> Nat]
  /\ doubt \in SUBSET Messages /\ owed \in [Processes -> SUBSET Messages]
  /\ rare \in 0..MaxRare

\* A worker has rows while it sends, and an outcome while it marks; it asks for a retry
\* only if there is an attempt left.
WellRun(p) ==
  /\ run[p].pc \in {"send", "mark"} <=> Claimed(p) # {}
  /\ run[p].pc = "mark" => run[p].out # "none"
  /\ (run[p].pc = "mark" /\ run[p].out = "QUEUED") => Retryable(p)

\* The worker is about to record that m has been sent.
MarksSent(p, m) ==
  run[p].pc = "mark" /\ run[p].out = "SENT" /\ m \in Claimed(p) /\ Current(p) = m

\* A message that is not in doubt has one worker at most, whose claim keeps it from
\* being due, and has been delivered only if its row says so or is about to.
Clean(m) ==
  \/ m \in doubt
  \/ /\ test # m
     /\ \A p, q \in Processes : m \in Claimed(p) /\ m \in Claimed(q) => p = q
     /\ \A p \in Processes :
          m \in Claimed(p) => row[m].status = "QUEUED" /\ ~row[m].due
     /\ delivered[m] < 2
     /\ \/ delivered[m] = 0
        \/ row[m].status = "SENT"
        \/ \E p \in Processes : MarksSent(p, m)

\* What has no row has no worker, and is not in doubt.
Fresh(m) ==
  row[m].status = "NONE" =>
    m \notin doubt /\ test # m /\ \A p \in Processes : m \notin Claimed(p)

\* A row that is owed a tick has never been claimed, and is due while it is QUEUED.
Owed(p, m) ==
  m \in owed[p] =>
    /\ test # m /\ row[m].status # "NONE" /\ \A q \in Processes : m \notin Claimed(q)
    /\ row[m].status = "QUEUED" => row[m].due /\ (run[p].follow \/ run[p].pc = "claim")

IInv ==
  /\ Typed
  /\ \A p \in Processes : WellRun(p)
  /\ \A m \in Messages : Clean(m) /\ Fresh(m) /\ \A p \in Processes : Owed(p, m)
  /\ test # 0 => test \in doubt

LEMMA BatchShape ==
  ASSUME NEW b \in Batches
  PROVE  /\ DOMAIN b \in SUBSET Messages /\ DOMAIN b \in SUBSET Nat
         /\ \A m \in DOMAIN b : b[m] \in Attempts
BY DEF Batches, Messages

LEMMA BatchTyped ==
  ASSUME NEW S \in SUBSET Messages, NEW b \in [S -> Attempts]
  PROVE  b \in Batches
BY DEF Batches

LEMMA NoRunTyped ==
  ASSUME NEW phase \in {"idle", "claim", "send", "mark"}
  PROVE  /\ [NoRun EXCEPT !.pc = phase] \in Runs
         /\ [NoRun EXCEPT !.pc = phase].pc = phase
         /\ DOMAIN [NoRun EXCEPT !.pc = phase].batch = {}
<1>1. <<>> \in Batches /\ DOMAIN <<>> = {}
  <2>1. <<>> = [m \in {} |-> 0] /\ DOMAIN <<>> = {}
    OBVIOUS
  <2> QED
    BY <2>1, BatchTyped
<1> QED
  BY <1>1 DEF NoRun, Runs

\* The row a worker is at is one that it has claimed.
LEMMA CurrentIsClaimed ==
  ASSUME Typed, NEW p \in Processes, Claimed(p) # {}
  PROVE  /\ Current(p) \in Claimed(p) /\ Current(p) \in Messages
         /\ run[p].batch[Current(p)] \in Attempts
<1>1. run[p].batch \in Batches
  BY DEF Typed, Runs
<1>2. Claimed(p) \in SUBSET Nat /\ Claimed(p) \in SUBSET Messages
  BY <1>1, BatchShape DEF Claimed
<1>3. Current(p) \in Claimed(p)
  BY <1>2, Least DEF Current
<1> QED
  BY <1>1, <1>2, <1>3, BatchShape DEF Claimed

LEMMA AttemptsTyped ==
  MaxAttempts \in Nat \ {0} /\ 0 \in Attempts /\ Attempts \in SUBSET Nat
BY EmailAssumption DEF Attempts

\* What a step does to the locals of the workers: those of p become r.
LEMMA Running ==
  ASSUME Typed, NEW p \in Processes, NEW r \in Runs, run' = [run EXCEPT ![p] = r]
  PROVE  run' \in [Processes -> Runs] /\ run'[p] = r
         /\ \A q \in Processes \ {p} : run'[q] = run[q]
BY DEF Typed

LEMMA KickedEffect ==
  ASSUME Typed, NEW p \in Processes, run' = [run EXCEPT ![p] = Kicked(@)]
  PROVE  /\ run' \in [Processes -> Runs]
         /\ \A q \in Processes \ {p} : run'[q] = run[q]
         /\ \A q \in Processes : run'[q].batch = run[q].batch /\ run'[q].out = run[q].out
         /\ run[p].pc = "idle" => run'[p].pc = "claim" /\ run'[p].follow = run[p].follow
         /\ run[p].pc # "idle" => run'[p].pc = run[p].pc /\ run'[p].follow
<1>1. run[p] \in Runs
  BY DEF Typed
<1>2. Kicked(run[p]) \in Runs /\ Kicked(run[p]).batch = run[p].batch
      /\ Kicked(run[p]).out = run[p].out
  BY <1>1 DEF Kicked, Runs
<1>3. run' = [run EXCEPT ![p] = Kicked(run[p])]
  BY DEF Typed
<1>4. run'[p] = Kicked(run[p])
  BY <1>2, <1>3, Running
<1> QED
  BY <1>1, <1>2, <1>3, <1>4, Running DEF Kicked, Runs

LEMMA EndedEffect ==
  ASSUME Typed, NEW p \in Processes, Ended(p)
  PROVE  /\ run' \in [Processes -> Runs]
         /\ \A q \in Processes \ {p} : run'[q] = run[q]
         /\ DOMAIN run'[p].batch = {}
         /\ run'[p].pc = IF run[p].follow THEN "claim" ELSE "idle"
<1>1. run' = [run EXCEPT ![p] = [NoRun EXCEPT !.pc = IF run[p].follow THEN "claim" ELSE "idle"]]
  BY DEF Ended
<1> DEFINE phase == IF run[p].follow THEN "claim" ELSE "idle"
           r     == [NoRun EXCEPT !.pc = phase]
<1>2. r \in Runs /\ r.pc = phase /\ DOMAIN r.batch = {}
  BY NoRunTyped
<1> QED
  BY <1>1, <1>2, Running

LEMMA DecideEffect ==
  ASSUME Typed, NEW p \in Processes, NEW o \in {"SENT", "QUEUED", "FAILED"}, Decide(p, o)
  PROVE  /\ run' \in [Processes -> Runs]
         /\ \A q \in Processes \ {p} : run'[q] = run[q]
         /\ \A q \in Processes : run'[q].batch = run[q].batch /\ run'[q].follow = run[q].follow
         /\ run'[p].pc = "mark" /\ run'[p].out = o
<1> DEFINE r == [run[p] EXCEPT !.pc = "mark", !.out = o]
<1>1. run[p] \in Runs
  BY DEF Typed
<1>2. r \in Runs /\ r.pc = "mark" /\ r.out = o /\ r.batch = run[p].batch
      /\ r.follow = run[p].follow
  BY <1>1 DEF Runs
<1>3. run' = [run EXCEPT ![p] = r]
  BY DEF Decide
<1>4. run'[p] = r
  BY <1>2, <1>3, Running
<1> QED
  BY <1>2, <1>3, <1>4, Running

\* After its outcome is recorded a row is no longer the worker's, and a tick that was
\* asked for is not forgotten.
LEMMA NextEffect ==
  ASSUME Typed, NEW p \in Processes, Claimed(p) # {}, NextOf(p)
  PROVE  /\ run' \in [Processes -> Runs]
         /\ \A q \in Processes \ {p} : run'[q] = run[q]
         /\ DOMAIN run'[p].batch = Claimed(p) \ {Current(p)}
         /\ (run'[p].pc \in {"send", "mark"} <=> DOMAIN run'[p].batch # {})
         /\ run'[p].pc # "mark"
         /\ (run[p].follow => run'[p].follow \/ run'[p].pc = "claim")
<1>0. Current(p) \in Claimed(p)
  BY CurrentIsClaimed
<1>1. CASE Claimed(p) = {Current(p)}
  <2>1. Ended(p)
    BY <1>1 DEF NextOf
  <2> QED
    BY <1>1, <2>1, EndedEffect
<1>2. CASE Claimed(p) # {Current(p)}
  <2> DEFINE b == [m \in Claimed(p) \ {Current(p)} |-> run[p].batch[m]]
             r == [run[p] EXCEPT !.pc = "send", !.out = "none", !.batch = b]
  <2>1. run[p] \in Runs /\ run[p].batch \in Batches
    BY DEF Typed, Runs
  <2>2. b \in Batches /\ DOMAIN b = Claimed(p) \ {Current(p)}
    <3>1. /\ Claimed(p) \ {Current(p)} \in SUBSET Messages
          /\ \A m \in Claimed(p) : run[p].batch[m] \in Attempts
      BY <2>1, BatchShape DEF Claimed
    <3>2. b \in [Claimed(p) \ {Current(p)} -> Attempts]
      BY <3>1
    <3> QED
      BY <3>1, <3>2, BatchTyped
  <2>3. run' = [run EXCEPT ![p] = r]
    BY <1>2 DEF NextOf
  <2> HIDE DEF b
  <2>4. r \in Runs /\ r.pc = "send" /\ r.batch = b /\ r.follow = run[p].follow
    BY <2>1, <2>2 DEF Runs
  <2> HIDE DEF r
  <2>5. Claimed(p) \ {Current(p)} # {}
    BY <1>0, <1>2
  <2> QED
    BY <2>2, <2>3, <2>4, <2>5, Running
<1> QED
  BY <1>1, <1>2

\* Nothing that Clean says of m has changed.
Untouched(m) ==
  /\ row'[m] = row[m] /\ delivered'[m] = delivered[m] /\ (m \in doubt => m \in doubt')
  /\ (test' = m => test = m)
  /\ \A q \in Processes :
       (m \in Claimed(q)' => m \in Claimed(q)) /\ (MarksSent(q, m) => MarksSent(q, m)')

LEMMA UntouchedClean ==
  ASSUME NEW m \in Messages, Clean(m), Untouched(m)
  PROVE  Clean(m)'
BY DEF Clean, Untouched

\* A row that is in doubt stays so; one that is there remains.
LEMMA DoubtedClean == ASSUME NEW m, m \in doubt' PROVE Clean(m)'
BY DEF Clean

LEMMA ThereFresh == ASSUME NEW m, row'[m].status # "NONE" PROVE Fresh(m)'
BY DEF Fresh

LEMMA UnclaimedFresh ==
  ASSUME NEW m, Fresh(m), row'[m] = row[m], m \in doubt' => m \in doubt,
         test' = m => test = m,
         \A q \in Processes : m \in Claimed(q)' => m \in Claimed(q)
  PROVE  Fresh(m)'
BY DEF Fresh

\* A tick that is owed is still ahead, unless the row is no longer owed.
LEMMA OwedKept ==
  ASSUME NEW p \in Processes, NEW m, Owed(p, m), m \in owed'[p] => m \in owed[p],
         test' = m => test = m, row'[m] = row[m],
         \A q \in Processes : m \in Claimed(q)' => m \in Claimed(q),
         m \in owed'[p] /\ row[m].status = "QUEUED" =>
           (run[p].follow \/ run[p].pc = "claim" => run'[p].follow \/ run'[p].pc = "claim")
  PROVE  Owed(p, m)'
BY DEF Owed

-----------------------------------------------------------------------------
(* Rows are created                                                         *)

LEMMA CreatedEffect ==
  ASSUME Typed, NEW m \in Messages, Created(m)
  PROVE  /\ row[m].status = "NONE" /\ row' \in [Messages -> Rows]
         /\ row'[m].status = "QUEUED" /\ row'[m].due
         /\ \A n \in Messages \ {m} : row'[n] = row[n]
<1>1. [NoRow EXCEPT !.status = "QUEUED", !.due = TRUE] \in Rows
  BY AttemptsTyped DEF NoRow, Rows
<1> QED
  BY <1>1 DEF Typed, Created, NoRow

\* A new row is clean: nobody has heard of it.
LEMMA CreatedClean ==
  ASSUME IInv, NEW m \in Messages, Created(m), delivered' = delivered,
         test' = test, \A q \in Processes : Claimed(q)' = Claimed(q)
  PROVE  Clean(m)'
<1>1. m \notin doubt /\ test # m /\ \A q \in Processes : m \notin Claimed(q)
  BY CreatedEffect DEF IInv, Fresh
<1>2. delivered[m] = 0
  BY <1>1, CreatedEffect DEF IInv, Clean, MarksSent
<1> QED
  BY <1>1, <1>2 DEF Clean

\* The workers are where they were, but for one that has been woken.
SameWork ==
  \A q \in Processes :
    /\ run'[q].batch = run[q].batch /\ run'[q].out = run[q].out
    /\ run'[q].pc = run[q].pc \/ {run[q].pc, run'[q].pc} \subseteq {"idle", "claim"}
    /\ run[q].follow \/ run[q].pc = "claim" => run'[q].follow \/ run'[q].pc = "claim"

LEMMA SameWorkKeeps ==
  ASSUME SameWork, NEW q \in Processes
  PROVE  /\ Claimed(q)' = Claimed(q)
         /\ WellRun(q) => WellRun(q)'
         /\ \A m : MarksSent(q, m) <=> MarksSent(q, m)'
<1>1. /\ run'[q].batch = run[q].batch /\ run'[q].out = run[q].out
      /\ run'[q].pc = run[q].pc \/ {run[q].pc, run'[q].pc} \subseteq {"idle", "claim"}
  BY DEF SameWork
<1>2. Claimed(q)' = Claimed(q)
  BY <1>1 DEF Claimed
<1>3. Current(q)' = Current(q)
  BY <1>2 DEF Current
<1>4. Retryable(q)' = Retryable(q)
  BY <1>1, <1>3 DEF Retryable
<1> QED
  BY <1>1, <1>2, <1>3, <1>4 DEF WellRun, MarksSent

LEMMA KickedSameWork ==
  ASSUME Typed, NEW p \in Processes, run' = [run EXCEPT ![p] = Kicked(@)]
  PROVE  SameWork
<1>1. /\ \A q \in Processes \ {p} : run'[q] = run[q]
      /\ \A q \in Processes : run'[q].batch = run[q].batch /\ run'[q].out = run[q].out
      /\ run[p].pc = "idle" => run'[p].pc = "claim" /\ run'[p].follow = run[p].follow
      /\ run[p].pc # "idle" => run'[p].pc = run[p].pc /\ run'[p].follow
  BY KickedEffect
<1> QED
  BY <1>1 DEF SameWork

LEMMA StandingSameWork == run' = run => SameWork
BY DEF SameWork

LEMMA CronStep ==
  ASSUME IInv, NEW p \in Processes, Cron(p)
  PROVE  IInv'
<1>0. UNCHANGED <<row, test, delivered, doubt, owed, rare>>
  BY DEF Cron
<1>1. run' \in [Processes -> Runs] /\ SameWork
  BY KickedEffect, KickedSameWork DEF IInv, Cron
<1>2. \A q \in Processes : /\ Claimed(q)' = Claimed(q) /\ WellRun(q)'
                          /\ \A n : MarksSent(q, n) <=> MarksSent(q, n)'
  BY <1>1, SameWorkKeeps DEF IInv
<1>3. Typed'
  BY <1>0, <1>1 DEF IInv, Typed
<1>4. ASSUME NEW n \in Messages PROVE Clean(n)' /\ Fresh(n)'
  BY <1>0, <1>2, UntouchedClean, UnclaimedFresh DEF IInv, Untouched
<1>5. ASSUME NEW n \in Messages, NEW q \in Processes PROVE Owed(q, n)'
  BY <1>0, <1>1, <1>2, OwedKept DEF IInv, SameWork
<1> QED
  BY <1>0, <1>2, <1>3, <1>4, <1>5 DEF IInv

\* A row that is queued, and the process that is kicked for it, if any.
LEMMA QueueStep ==
  ASSUME IInv, NEW m \in Messages, Compose(m) \/ \E p \in Processes : Queue(p, m)
  PROVE  IInv'
<1>0. UNCHANGED <<test, delivered, doubt, rare>>
  BY DEF Queue, Compose
<1>1. run' \in [Processes -> Runs] /\ SameWork
  BY KickedEffect, KickedSameWork, StandingSameWork DEF IInv, Typed, Queue, Compose
<1>2. \A q \in Processes : /\ Claimed(q)' = Claimed(q) /\ WellRun(q)'
                          /\ \A n : MarksSent(q, n) <=> MarksSent(q, n)'
  BY <1>1, SameWorkKeeps DEF IInv
<1>3. /\ Created(m) /\ owed' \in [Processes -> SUBSET Messages]
      /\ \A q \in Processes : owed'[q] \subseteq owed[q] \cup {m}
      /\ \A q \in Processes : m \in owed'[q] /\ m \notin owed[q] =>
           run'[q].follow \/ run'[q].pc = "claim"
  <2>1. CASE Compose(m)
    BY <2>1 DEF IInv, Typed, Compose
  <2>2. ASSUME NEW p \in Processes, Queue(p, m)
        PROVE  /\ Created(m) /\ owed' \in [Processes -> SUBSET Messages]
               /\ \A q \in Processes : owed'[q] \subseteq owed[q] \cup {m}
               /\ \A q \in Processes : m \in owed'[q] /\ m \notin owed[q] =>
                    run'[q].follow \/ run'[q].pc = "claim"
    <3>1. run' = [run EXCEPT ![p] = Kicked(@)]
      BY <2>2 DEF Queue
    <3>2. run'[p].follow \/ run'[p].pc = "claim"
      BY <3>1, KickedEffect DEF IInv
    <3> QED
      BY <2>2, <3>2 DEF IInv, Typed, Queue
  <2> QED
    BY <2>1, <2>2
<1>4. /\ row[m].status = "NONE" /\ row' \in [Messages -> Rows]
      /\ row'[m].status = "QUEUED" /\ row'[m].due
      /\ \A n \in Messages \ {m} : row'[n] = row[n]
  BY <1>3, CreatedEffect DEF IInv
<1>5. Typed'
  BY <1>0, <1>1, <1>3, <1>4 DEF IInv, Typed
<1>6. ASSUME NEW n \in Messages PROVE Clean(n)' /\ Fresh(n)'
  <2>1. CASE n = m
    BY <1>0, <1>2, <1>3, <1>4, <2>1, CreatedClean, ThereFresh
  <2>2. CASE n # m
    BY <1>0, <1>2, <1>4, <2>2, UntouchedClean, UnclaimedFresh DEF IInv, Untouched
  <2> QED
    BY <2>1, <2>2
<1>7. ASSUME NEW n \in Messages, NEW q \in Processes PROVE Owed(q, n)'
  <2>1. CASE n # m
    BY <1>0, <1>1, <1>2, <1>3, <1>4, <2>1, OwedKept DEF IInv, SameWork
  <2>2. CASE n = m
    <3>1. m \notin owed[q] /\ test' # m /\ \A r \in Processes : m \notin Claimed(r)'
      BY <1>0, <1>2, <1>4 DEF IInv, Fresh, Owed
    <3> QED
      BY <1>3, <1>4, <2>2, <3>1 DEF Owed
  <2> QED
    BY <2>1, <2>2
<1> QED
  BY <1>0, <1>2, <1>5, <1>6, <1>7 DEF IInv

-----------------------------------------------------------------------------
(* Claims                                                                   *)

LEMMA ClaimEffect ==
  ASSUME IInv, NEW p \in Processes, Claim(p)
  PROVE  /\ row' \in [Messages -> Rows] /\ run' \in [Processes -> Runs]
         /\ owed' \in [Processes -> SUBSET Messages]
         /\ \A m \in Messages \ Batch : row'[m] = row[m]
         /\ \A m \in Batch : row'[m].status = "QUEUED" /\ ~row'[m].due
         /\ \A q \in Processes \ {p} : run'[q] = run[q]
         /\ run'[p].pc = "send" /\ run'[p].follow = run[p].follow
         /\ Claimed(p) = {} /\ Claimed(p)' = Batch /\ Batch # {}
         /\ UNCHANGED <<test, delivered, doubt, rare>>
<1>0. /\ Batch \in SUBSET Messages /\ Batch # {} /\ run[p].pc = "claim"
      /\ UNCHANGED <<test, delivered, doubt, rare>>
      /\ \A m \in Batch : row[m].status = "QUEUED"
  BY DueFinite DEF Claim, Due
<1>1. Claimed(p) = {}
  BY <1>0 DEF IInv, WellRun
<1>2. /\ row' \in [Messages -> Rows]
      /\ \A m \in Messages \ Batch : row'[m] = row[m]
      /\ \A m \in Batch : row'[m].status = "QUEUED" /\ ~row'[m].due
  <2>1. row \in [Messages -> Rows]
    BY DEF IInv, Typed
  <2>2. \A m \in Messages :
          [row[m] EXCEPT !.due = FALSE] \in Rows
          /\ [row[m] EXCEPT !.due = FALSE].due = FALSE
          /\ [row[m] EXCEPT !.due = FALSE].status = row[m].status
    BY <2>1 DEF Rows
  <2>3. row' = [m \in Messages |->
                  IF m \in Batch THEN [row[m] EXCEPT !.due = FALSE] ELSE row[m]]
    BY DEF Claim
  <2> QED
    BY <1>0, <2>1, <2>2, <2>3
<1> DEFINE b == [m \in Batch |-> row[m].att]
           r == [run[p] EXCEPT !.pc = "send", !.batch = b]
<1>3. b \in Batches /\ DOMAIN b = Batch
  <2>1. \A m \in Batch : row[m].att \in Attempts
    BY <1>0 DEF IInv, Typed, Rows
  <2>2. b \in [Batch -> Attempts]
    BY <2>1
  <2> QED
    BY <1>0, <2>2, BatchTyped
<1>4. run' = [run EXCEPT ![p] = r]
  BY DEF Claim, IInv, Typed
<1> HIDE DEF b
<1>5. r \in Runs /\ r.pc = "send" /\ r.batch = b /\ r.follow = run[p].follow
  BY <1>3 DEF IInv, Typed, Runs
<1> HIDE DEF r
<1>6. run' \in [Processes -> Runs] /\ run'[p] = r
      /\ \A q \in Processes \ {p} : run'[q] = run[q]
  BY <1>4, <1>5, Running DEF IInv
<1>7. owed' \in [Processes -> SUBSET Messages]
  BY DEF IInv, Typed, Claim, LookedFor
<1> QED
  BY <1>0, <1>1, <1>2, <1>3, <1>5, <1>6, <1>7 DEF Claimed

LEMMA ClaimStep ==
  ASSUME IInv, NEW p \in Processes, Claim(p)
  PROVE  IInv'
<1>0. /\ \A m \in Messages \ Batch : row'[m] = row[m]
      /\ \A m \in Batch : row'[m].status = "QUEUED" /\ ~row'[m].due
      /\ \A q \in Processes \ {p} : run'[q] = run[q]
      /\ run'[p].pc = "send" /\ run'[p].follow = run[p].follow
      /\ Claimed(p) = {} /\ Claimed(p)' = Batch /\ Batch # {}
      /\ UNCHANGED <<test, delivered, doubt, rare>>
  BY ClaimEffect
<1>1. Typed'
  BY <1>0, ClaimEffect DEF IInv, Typed
<1>2. \A q \in Processes \ {p} :
        /\ Claimed(q)' = Claimed(q) /\ WellRun(q)'
        /\ \A n : MarksSent(q, n) <=> MarksSent(q, n)'
  BY <1>0 DEF IInv, Claimed, Current, WellRun, Retryable, MarksSent
<1>3. WellRun(p)' /\ \A n : ~MarksSent(p, n)
  BY <1>0 DEF WellRun, MarksSent
<1>4. \A m \in Batch : row[m].status = "QUEUED" /\ row[m].due /\ m \in Messages
  BY DueFinite DEF Due
<1>5. ASSUME NEW m \in Messages PROVE Clean(m)' /\ Fresh(m)'
  <2>1. CASE m \notin Batch
    BY <1>0, <1>2, <1>3, <2>1, UntouchedClean, UnclaimedFresh DEF IInv, Untouched
  <2>2. CASE m \in Batch /\ m \notin doubt
    <3>1. test # m /\ \A q \in Processes : m \notin Claimed(q)
      BY <1>4, <2>2 DEF IInv, Clean
    <3>2. delivered[m] = 0
      BY <1>4, <2>2, <3>1 DEF IInv, Clean, MarksSent
    <3>3. \A q \in Processes : m \in Claimed(q)' => q = p
      BY <1>2, <3>1
    <3>4. delivered'[m] = 0 /\ test' # m /\ row'[m].status = "QUEUED" /\ ~row'[m].due
      BY <1>0, <2>2, <3>1, <3>2
    <3> QED
      BY <3>3, <3>4 DEF Clean, Fresh
  <2>3. CASE m \in Batch /\ m \in doubt
    BY <1>0, <2>3, DoubtedClean, ThereFresh
  <2> QED
    BY <2>1, <2>2, <2>3
<1>6. ASSUME NEW m \in Messages, NEW q \in Processes PROVE Owed(q, m)'
  <2>1. SUFFICES ASSUME m \in owed'[q] PROVE Owed(q, m)'
    BY DEF Owed
  <2>2. m \in owed[q] /\ m \notin Batch /\ (q = p => Cardinality(Batch) # BatchSize)
    BY <2>1, FullBatch DEF Claim, LookedFor
  <2>3. row'[m] = row[m] /\ test' = test
        /\ \A r \in Processes : m \in Claimed(r)' => m \in Claimed(r)
    BY <1>0, <1>2, <2>2
  <2>4. CASE q # p
    BY <1>0, <2>2, <2>3, <2>4, OwedKept DEF IInv
  <2>5. CASE q = p
    <3>1. m \notin Due
      BY <2>2, <2>5, FullBatch
    <3>2. row[m].status # "QUEUED"
      BY <2>2, <3>1 DEF IInv, Owed, Due
    <3> QED
      BY <2>2, <2>3, <3>2, OwedKept DEF IInv
  <2> QED
    BY <2>4, <2>5
<1> QED
  BY <1>0, <1>1, <1>2, <1>3, <1>5, <1>6 DEF IInv

\* A tick that ends without having claimed anything holds nothing.
LEMMA EndStep ==
  ASSUME IInv, NEW p \in Processes, NothingDue(p) \/ TickFails(p)
  PROVE  IInv'
<1>0. /\ run[p].pc = "claim" /\ Ended(p)
      /\ UNCHANGED <<row, test, delivered, doubt>>
  BY DEF NothingDue, TickFails
<1>1. /\ run' \in [Processes -> Runs]
      /\ \A q \in Processes \ {p} : run'[q] = run[q]
      /\ DOMAIN run'[p].batch = {}
      /\ run'[p].pc = IF run[p].follow THEN "claim" ELSE "idle"
  BY <1>0, EndedEffect DEF IInv
<1>2. Claimed(p) = {}
  BY <1>0 DEF IInv, WellRun
<1>3. /\ \A q \in Processes : Claimed(q)' = Claimed(q) /\ WellRun(q)'
      /\ \A q \in Processes \ {p} : \A n : MarksSent(q, n) <=> MarksSent(q, n)'
      /\ \A n : ~MarksSent(p, n)
  <2>1. ASSUME NEW q \in Processes \ {p}
        PROVE  /\ Claimed(q)' = Claimed(q) /\ WellRun(q)'
               /\ \A n : MarksSent(q, n) <=> MarksSent(q, n)'
    BY <1>1 DEF IInv, Claimed, Current, WellRun, Retryable, MarksSent
  <2>2. Claimed(p)' = Claimed(p) /\ WellRun(p)' /\ \A n : ~MarksSent(p, n)
    BY <1>0, <1>1, <1>2 DEF Claimed, WellRun, MarksSent
  <2> QED
    BY <2>1, <2>2
<1>4. Typed'
  <2>1. owed' \in [Processes -> SUBSET Messages] /\ rare' \in 0..MaxRare
    BY EmailAssumption DEF IInv, Typed, NothingDue, TickFails, Rare
  <2> QED
    BY <1>0, <1>1, <2>1 DEF IInv, Typed
<1>5. ASSUME NEW m \in Messages PROVE Clean(m)' /\ Fresh(m)'
  BY <1>0, <1>3, UntouchedClean, UnclaimedFresh DEF IInv, Untouched
<1>6. ASSUME NEW m \in Messages, NEW q \in Processes PROVE Owed(q, m)'
  <2>0. m \in owed'[q] => m \in owed[q]
    BY DEF IInv, Typed, NothingDue, TickFails
  <2>1. CASE q # p
    BY <1>0, <1>1, <1>3, <2>0, <2>1, OwedKept DEF IInv
  \* It found nothing that is due, or what it is owed for is given up.
  <2>2. CASE q = p
    <3>1. m \in owed'[q] => row[m].status # "QUEUED"
      <4>1. CASE TickFails(p)
        BY <2>2, <4>1 DEF IInv, Typed, TickFails
      <4>2. CASE NothingDue(p)
        <5>1. Batch = {} /\ Cardinality(Batch) # BatchSize
          BY <4>2, FS_EmptySet, EmailAssumption DEF NothingDue
        <5>2. m \notin Due
          BY <5>1, FullBatch
        <5> QED
          BY <2>0, <5>2 DEF IInv, Owed, Due
      <4> QED
        BY <4>1, <4>2
    <3> QED
      BY <1>0, <1>3, <2>0, <3>1, OwedKept DEF IInv
  <2> QED
    BY <2>1, <2>2
<1> QED
  BY <1>0, <1>3, <1>4, <1>5, <1>6 DEF IInv

-----------------------------------------------------------------------------
(* Messages are sent                                                        *)

Sends(p) == SendNothing(p) \/ SendDelivered(p) \/ SendFails(p) \/ AnswerLost(p)

\* What the provider does is decided for the row the worker is at; a message that it
\* got and that is not in doubt is about to be marked SENT.
LEMMA SendEffect ==
  ASSUME IInv, NEW p \in Processes, Sends(p)
  PROVE  /\ run[p].pc = "send" /\ UNCHANGED <<row, test, owed>>
         /\ rare' \in 0..MaxRare /\ doubt' \in SUBSET Messages /\ doubt \in SUBSET doubt'
         /\ delivered' \in [Messages -> Nat]
         /\ \A m \in Messages : delivered'[m] # delivered[m] =>
              /\ m = Current(p) /\ m \notin doubt /\ delivered'[m] = delivered[m] + 1
              /\ m \in doubt' \/ run'[p].out = "SENT"
         /\ \A m \in doubt' : m \in doubt \/ m = Current(p)
         /\ \E o \in {"SENT", "QUEUED", "FAILED"} :
              Decide(p, o) /\ (o = "QUEUED" => Retryable(p))
<1>0. run[p].pc = "send" /\ UNCHANGED <<row, test, owed>>
  BY DEF Sends, SendNothing, SendDelivered, SendFails, AnswerLost
<1>1. Current(p) \in Messages /\ Claimed(p) # {}
  BY <1>0, CurrentIsClaimed DEF IInv, WellRun
<1>2. CASE SendNothing(p) \/ SendFails(p)
  BY <1>0, <1>2 DEF SendNothing, SendFails, IInv, Typed
<1>3. CASE SendDelivered(p)
  <2>1. run'[p].out = "SENT"
    BY <1>3, DecideEffect DEF SendDelivered, IInv
  <2> QED
    BY <1>0, <1>1, <1>3, <2>1 DEF SendDelivered, Deliver, IInv, Typed
<1>4. CASE AnswerLost(p)
  BY <1>0, <1>1, <1>4, EmailAssumption DEF AnswerLost, Deliver, Rare, IInv, Typed
<1> QED
  BY <1>2, <1>3, <1>4 DEF Sends

LEMMA SendStep ==
  ASSUME IInv, NEW p \in Processes, Sends(p)
  PROVE  IInv'
<1>0. /\ run[p].pc = "send" /\ UNCHANGED <<row, test, owed>>
      /\ rare' \in 0..MaxRare /\ doubt' \in SUBSET Messages /\ doubt \in SUBSET doubt'
      /\ delivered' \in [Messages -> Nat]
      /\ \A m \in Messages : delivered'[m] # delivered[m] =>
           /\ m = Current(p) /\ m \notin doubt /\ delivered'[m] = delivered[m] + 1
           /\ m \in doubt' \/ run'[p].out = "SENT"
      /\ \A m \in doubt' : m \in doubt \/ m = Current(p)
  BY SendEffect
<1>1. PICK o \in {"SENT", "QUEUED", "FAILED"} : Decide(p, o) /\ (o = "QUEUED" => Retryable(p))
  BY SendEffect
<1>2. /\ run' \in [Processes -> Runs]
      /\ \A q \in Processes \ {p} : run'[q] = run[q]
      /\ \A q \in Processes : run'[q].batch = run[q].batch /\ run'[q].follow = run[q].follow
      /\ run'[p].pc = "mark" /\ run'[p].out = o
  BY <1>1, DecideEffect DEF IInv
<1>3. Claimed(p) # {} /\ Current(p) \in Claimed(p) /\ Current(p) \in Messages
  BY <1>0, CurrentIsClaimed DEF IInv, WellRun
<1>4. \A q \in Processes :
        Claimed(q)' = Claimed(q) /\ Current(q)' = Current(q) /\ Retryable(q)' = Retryable(q)
  BY <1>2 DEF Claimed, Current, Retryable
<1>5. \A q \in Processes : WellRun(q)' /\ \A n : MarksSent(q, n) => MarksSent(q, n)'
  <2>1. ASSUME NEW q \in Processes \ {p}
        PROVE  WellRun(q)' /\ \A n : MarksSent(q, n) => MarksSent(q, n)'
    BY <1>2, <1>4 DEF IInv, WellRun, MarksSent
  <2>2. WellRun(p)' /\ \A n : ~MarksSent(p, n)
    BY <1>0, <1>1, <1>2, <1>3, <1>4 DEF WellRun, MarksSent
  <2> QED
    BY <2>1, <2>2
<1>6. Typed'
  BY <1>0, <1>2 DEF IInv, Typed
<1>7. ASSUME NEW m \in Messages PROVE Clean(m)'
  <2>1. CASE delivered'[m] = delivered[m]
    BY <1>0, <1>4, <1>5, <2>1, UntouchedClean DEF IInv, Untouched
  <2>2. CASE m \in doubt'
    BY <2>2, DoubtedClean
  \* The worker holds the only claim, so nobody has sent the message before.
  <2>3. CASE delivered'[m] # delivered[m] /\ m \notin doubt'
    <3>1. /\ m = Current(p) /\ m \notin doubt /\ delivered'[m] = delivered[m] + 1
          /\ run'[p].out = "SENT" /\ delivered[m] \in Nat
      BY <1>0, <2>3 DEF IInv, Typed
    <3>2. /\ test # m
          /\ \A q, r \in Processes : m \in Claimed(q) /\ m \in Claimed(r) => q = r
          /\ \A q \in Processes :
               m \in Claimed(q) => row[m].status = "QUEUED" /\ ~row[m].due
      BY <3>1 DEF IInv, Clean
    <3>3. \A q \in Processes : ~MarksSent(q, m)
      BY <1>0, <1>3, <3>1, <3>2 DEF MarksSent
    <3>4. delivered[m] = 0
      BY <1>3, <3>1, <3>2, <3>3 DEF IInv, Clean
    <3>5. MarksSent(p, m)'
      BY <1>2, <1>3, <1>4, <3>1 DEF MarksSent
    <3>6. delivered'[m] < 2
      BY <3>1, <3>4
    <3> QED
      BY <1>0, <1>4, <3>2, <3>5, <3>6 DEF Clean
  <2> QED
    BY <2>1, <2>2, <2>3
<1>8. ASSUME NEW m \in Messages PROVE Fresh(m)'
  <2>1. row[m].status = "NONE" => m # Current(p)
    BY <1>3 DEF IInv, Fresh
  <2> QED
    BY <1>0, <1>4, <2>1 DEF IInv, Fresh
<1>9. ASSUME NEW m \in Messages, NEW q \in Processes PROVE Owed(q, m)'
  <2>1. m \in owed[q] /\ row[m].status = "QUEUED" /\ (run[q].follow \/ run[q].pc = "claim")
          => run'[q].follow \/ run'[q].pc = "claim"
    BY <1>0, <1>2
  <2> QED
    BY <1>0, <1>4, <2>1, OwedKept DEF IInv
<1> QED
  BY <1>0, <1>5, <1>6, <1>7, <1>8, <1>9 DEF IInv

-----------------------------------------------------------------------------
(* Outcomes are recorded, or are lost                                       *)

\* The row that is marked is no longer due, and it is SENT if the outcome says so.
LEMMA AfterEffect ==
  ASSUME IInv, NEW p \in Processes, run[p].pc = "mark"
  PROVE  /\ After(p) \in Rows /\ After(p).status \in {"SENT", "QUEUED", "FAILED"}
         /\ After(p).status = run[p].out
<1>1. /\ run[p].out \in {"SENT", "QUEUED", "FAILED"} /\ Claimed(p) # {}
      /\ run[p].out = "QUEUED" => Retryable(p)
  BY DEF IInv, WellRun, Typed, Runs
<1>2. run[p].batch[Current(p)] \in Attempts
  BY <1>1, CurrentIsClaimed DEF IInv
<1>3. run[p].out = "QUEUED" => run[p].batch[Current(p)] + 1 \in Attempts
  BY <1>1, <1>2, EmailAssumption DEF Retryable, Attempts
<1> QED
  BY <1>1, <1>3, AttemptsTyped DEF After, Settled, NoRow, Rows

LEMMA MarkStep ==
  ASSUME IInv, NEW p \in Processes, Mark(p)
  PROVE  IInv'
<1> DEFINE c == Current(p)
<1>0. /\ run[p].pc = "mark" /\ NextOf(p) /\ row' = [row EXCEPT ![c] = After(p)]
      /\ UNCHANGED <<test, delivered, doubt, owed, rare>>
  BY DEF Mark
<1>1. Claimed(p) # {} /\ c \in Claimed(p) /\ c \in Messages
  BY <1>0, CurrentIsClaimed DEF IInv, WellRun
<1>2. /\ row' \in [Messages -> Rows] /\ row'[c].status = run[p].out
      /\ row'[c].status # "NONE" /\ \A m \in Messages \ {c} : row'[m] = row[m]
  BY <1>0, <1>1, AfterEffect DEF IInv, Typed
<1>3. /\ run' \in [Processes -> Runs]
      /\ \A q \in Processes \ {p} : run'[q] = run[q]
      /\ Claimed(p)' = Claimed(p) \ {c}
      /\ (run'[p].pc \in {"send", "mark"} <=> Claimed(p)' # {}) /\ run'[p].pc # "mark"
      /\ (run[p].follow => run'[p].follow \/ run'[p].pc = "claim")
  BY <1>0, <1>1, NextEffect DEF IInv, Claimed
<1> HIDE DEF c
<1>4. /\ \A q \in Processes : WellRun(q)' /\ Claimed(q)' \in SUBSET Claimed(q)
      /\ \A q \in Processes \ {p} : \A n : MarksSent(q, n) => MarksSent(q, n)'
      /\ \A n : MarksSent(p, n) => n = c /\ run[p].out = "SENT"
  <2>1. ASSUME NEW q \in Processes \ {p}
        PROVE  /\ Claimed(q)' = Claimed(q) /\ WellRun(q)'
               /\ \A n : MarksSent(q, n) => MarksSent(q, n)'
    BY <1>3 DEF IInv, Claimed, Current, WellRun, Retryable, MarksSent
  <2>2. WellRun(p)' /\ \A n : MarksSent(p, n) => n = c /\ run[p].out = "SENT"
    BY <1>3 DEF WellRun, MarksSent, c
  <2> QED
    BY <1>3, <2>1, <2>2
<1>5. Typed'
  BY <1>0, <1>2, <1>3 DEF IInv, Typed
<1>6. ASSUME NEW m \in Messages PROVE Clean(m)'
  <2>1. CASE m # c
    <3>1. \A q \in Processes : MarksSent(q, m) => MarksSent(q, m)'
      BY <1>4, <2>1
    <3> QED
      BY <1>0, <1>2, <1>4, <2>1, <3>1, UntouchedClean DEF IInv, Untouched
  <2>2. CASE m \in doubt
    BY <1>0, <2>2, DoubtedClean
  \* Its only worker has given it up, and a message that was delivered is marked SENT.
  <2>3. CASE m = c /\ m \notin doubt
    <3>1. /\ test # m /\ delivered[m] < 2
          /\ \A q, r \in Processes : m \in Claimed(q) /\ m \in Claimed(r) => q = r
          /\ row[m].status = "QUEUED"
          /\ \/ delivered[m] = 0
             \/ \E q \in Processes : MarksSent(q, m)
      BY <1>1, <2>3 DEF IInv, Clean
    <3>2. \A q \in Processes : m \notin Claimed(q)'
      BY <1>1, <1>3, <1>4, <2>3, <3>1
    <3>3. delivered[m] = 0 \/ row'[m].status = "SENT"
      <4>1. \A q \in Processes : MarksSent(q, m) => q = p
        BY <1>1, <2>3, <3>1 DEF MarksSent
      <4> QED
        BY <1>2, <1>4, <2>3, <3>1, <4>1
    <3> QED
      BY <1>0, <3>1, <3>2, <3>3 DEF Clean
  <2> QED
    BY <2>1, <2>2, <2>3
<1>7. ASSUME NEW m \in Messages PROVE Fresh(m)'
  <2>1. CASE m # c
    BY <1>0, <1>2, <1>4, <2>1, UnclaimedFresh DEF IInv
  <2>2. CASE m = c
    BY <1>2, <2>2, ThereFresh
  <2> QED
    BY <2>1, <2>2
<1>8. ASSUME NEW m \in Messages, NEW q \in Processes PROVE Owed(q, m)'
  <2>1. SUFFICES ASSUME m \in owed[q] PROVE Owed(q, m)'
    BY <1>0 DEF Owed
  <2>2. m # c
    BY <1>1, <2>1 DEF IInv, Owed
  <2>3. run[q].follow \/ run[q].pc = "claim" => run'[q].follow \/ run'[q].pc = "claim"
    BY <1>0, <1>3
  <2> QED
    BY <1>0, <1>2, <1>4, <2>2, <2>3, OwedKept DEF IInv
<1> QED
  BY <1>0, <1>4, <1>5, <1>6, <1>7, <1>8 DEF IInv

LEMMA ThrowsStep ==
  ASSUME IInv, NEW p \in Processes, Throws(p)
  PROVE  IInv'
<1> DEFINE c == Current(p)
<1>0. /\ run[p].pc \in {"send", "mark"} /\ NextOf(p) /\ Rare
      /\ row' = IF row[c].status = "QUEUED" THEN [row EXCEPT ![c].due = FALSE] ELSE row
      /\ doubt' = doubt \cup {c} /\ UNCHANGED <<test, delivered, owed>>
  BY DEF Throws
<1>1. Claimed(p) # {} /\ c \in Claimed(p) /\ c \in Messages
  BY <1>0, CurrentIsClaimed DEF IInv, WellRun
<1>2. /\ row' \in [Messages -> Rows] /\ row'[c].status = row[c].status
      /\ row[c].status # "NONE" /\ \A m \in Messages \ {c} : row'[m] = row[m]
  <2>1. row \in [Messages -> Rows] /\ [row[c] EXCEPT !.due = FALSE] \in Rows
        /\ [row[c] EXCEPT !.due = FALSE].status = row[c].status
    BY <1>1 DEF IInv, Typed, Rows
  <2>2. row[c].status # "NONE"
    BY <1>1 DEF IInv, Fresh
  <2>3. row' = row \/ row' = [row EXCEPT ![c] = [row[c] EXCEPT !.due = FALSE]]
    BY <1>0
  <2> QED
    BY <1>1, <2>1, <2>2, <2>3
<1>3. /\ run' \in [Processes -> Runs]
      /\ \A q \in Processes \ {p} : run'[q] = run[q]
      /\ Claimed(p)' = Claimed(p) \ {c}
      /\ (run'[p].pc \in {"send", "mark"} <=> Claimed(p)' # {}) /\ run'[p].pc # "mark"
      /\ (run[p].follow => run'[p].follow \/ run'[p].pc = "claim")
  BY <1>0, <1>1, NextEffect DEF IInv, Claimed
<1> HIDE DEF c
<1>4. /\ \A q \in Processes : WellRun(q)' /\ Claimed(q)' \in SUBSET Claimed(q)
      /\ \A q \in Processes \ {p} : \A n : MarksSent(q, n) => MarksSent(q, n)'
      /\ \A n : MarksSent(p, n) => n = c
  <2>1. ASSUME NEW q \in Processes \ {p}
        PROVE  /\ Claimed(q)' = Claimed(q) /\ WellRun(q)'
               /\ \A n : MarksSent(q, n) => MarksSent(q, n)'
    BY <1>3 DEF IInv, Claimed, Current, WellRun, Retryable, MarksSent
  <2>2. WellRun(p)' /\ \A n : MarksSent(p, n) => n = c
    BY <1>3 DEF WellRun, MarksSent, c
  <2> QED
    BY <1>3, <2>1, <2>2
<1>5. Typed'
  BY <1>0, <1>1, <1>2, <1>3, EmailAssumption DEF IInv, Typed, Rare
<1>6. ASSUME NEW m \in Messages PROVE Clean(m)'
  <2>1. CASE m # c
    <3>1. \A q \in Processes : MarksSent(q, m) => MarksSent(q, m)'
      BY <1>4, <2>1
    <3> QED
      BY <1>0, <1>2, <1>4, <2>1, <3>1, UntouchedClean DEF IInv, Untouched
  <2>2. CASE m = c
    BY <1>0, <2>2, DoubtedClean
  <2> QED
    BY <2>1, <2>2
<1>7. ASSUME NEW m \in Messages PROVE Fresh(m)'
  <2>1. CASE m # c
    BY <1>0, <1>2, <1>4, <2>1, UnclaimedFresh DEF IInv
  <2>2. CASE m = c
    BY <1>2, <2>2, ThereFresh
  <2> QED
    BY <2>1, <2>2
<1>8. ASSUME NEW m \in Messages, NEW q \in Processes PROVE Owed(q, m)'
  <2>1. SUFFICES ASSUME m \in owed[q] PROVE Owed(q, m)'
    BY <1>0 DEF Owed
  <2>2. m # c
    BY <1>1, <2>1 DEF IInv, Owed
  <2>3. run[q].follow \/ run[q].pc = "claim" => run'[q].follow \/ run'[q].pc = "claim"
    BY <1>0, <1>3
  <2> QED
    BY <1>0, <1>2, <1>4, <2>2, <2>3, OwedKept DEF IInv
<1> QED
  BY <1>0, <1>4, <1>5, <1>6, <1>7, <1>8 DEF IInv

\* A process that dies leaves what it had claimed in doubt, and owes nothing.
LEMMA CrashStep ==
  ASSUME IInv, NEW p \in Processes, Crash(p)
  PROVE  IInv'
<1>0. /\ Rare /\ run' = [run EXCEPT ![p] = NoRun] /\ doubt' = doubt \cup Claimed(p)
      /\ owed' = [owed EXCEPT ![p] = {}] /\ UNCHANGED <<row, test, delivered>>
  BY DEF Crash
<1>1. NoRun \in Runs /\ NoRun.pc = "idle" /\ DOMAIN NoRun.batch = {}
  <2>1. [NoRun EXCEPT !.pc = "idle"] = NoRun
    BY DEF NoRun
  <2> QED
    BY <2>1, NoRunTyped
<1>2. /\ run' \in [Processes -> Runs] /\ run'[p].pc = "idle" /\ Claimed(p)' = {}
      /\ \A q \in Processes \ {p} : run'[q] = run[q]
  BY <1>0, <1>1, Running DEF IInv, Claimed
<1>3. /\ \A q \in Processes : WellRun(q)' /\ Claimed(q)' \in SUBSET Claimed(q)
      /\ \A q \in Processes \ {p} : \A n : MarksSent(q, n) => MarksSent(q, n)'
      /\ \A n : MarksSent(p, n) => n \in doubt'
  <2>1. ASSUME NEW q \in Processes \ {p}
        PROVE  /\ Claimed(q)' = Claimed(q) /\ WellRun(q)'
               /\ \A n : MarksSent(q, n) => MarksSent(q, n)'
    BY <1>2 DEF IInv, Claimed, Current, WellRun, Retryable, MarksSent
  <2>2. WellRun(p)' /\ \A n : MarksSent(p, n) => n \in doubt'
    BY <1>0, <1>2 DEF WellRun, MarksSent
  <2> QED
    BY <1>2, <2>1, <2>2
<1>4. Typed'
  <2>1. Claimed(p) \in SUBSET Messages
    <3>1. run[p].batch \in Batches
      BY DEF IInv, Typed, Runs
    <3> QED
      BY <3>1, BatchShape DEF Claimed
  <2> QED
    BY <1>0, <1>2, <2>1, EmailAssumption DEF IInv, Typed, Rare
<1>5. ASSUME NEW m \in Messages PROVE Clean(m)'
  <2>1. CASE m \in doubt'
    BY <2>1, DoubtedClean
  <2>2. CASE m \notin doubt'
    <3>1. \A q \in Processes : MarksSent(q, m) => MarksSent(q, m)'
      BY <1>3, <2>2
    <3> QED
      BY <1>0, <1>3, <3>1, UntouchedClean DEF IInv, Untouched
  <2> QED
    BY <2>1, <2>2
<1>6. ASSUME NEW m \in Messages PROVE Fresh(m)'
  <2>1. row[m].status = "NONE" => m \notin Claimed(p)
    BY DEF IInv, Fresh
  <2> QED
    BY <1>0, <1>3, <2>1 DEF IInv, Fresh
<1>7. ASSUME NEW m \in Messages, NEW q \in Processes PROVE Owed(q, m)'
  <2>1. CASE q = p
    BY <1>0, <2>1 DEF IInv, Typed, Owed
  <2>2. CASE q # p
    <3>1. owed'[q] = owed[q] /\ run'[q] = run[q]
      BY <1>0, <1>2, <2>2
    <3> QED
      BY <1>0, <1>3, <3>1, OwedKept DEF IInv
  <2> QED
    BY <2>1, <2>2
<1> QED
  BY <1>0, <1>3, <1>4, <1>5, <1>6, <1>7 DEF IInv

-----------------------------------------------------------------------------
(* The administrators, and time                                             *)

\* A step that leaves the workers alone.
LEMMA StandingStep ==
  ASSUME IInv, UNCHANGED <<run, owed>>, Typed', test' # 0 => test' \in doubt',
         \A m \in Messages : Clean(m)' /\ Fresh(m)',
         \A p \in Processes : \A m \in owed[p] :
           /\ test' # m /\ row'[m].status # "NONE"
           /\ row'[m].status = "QUEUED" => row[m].status = "QUEUED" /\ row'[m].due
  PROVE  IInv'
<1>1. \A p \in Processes : Claimed(p)' = Claimed(p) /\ WellRun(p)'
  BY StandingSameWork, SameWorkKeeps DEF IInv
<1>2. ASSUME NEW m \in Messages, NEW p \in Processes PROVE Owed(p, m)'
  BY <1>1 DEF IInv, Owed
<1> QED
  BY <1>1, <1>2 DEF IInv

LEMMA SettledTyped ==
  ASSUME NEW s \in {"SENT", "FAILED"}
  PROVE  Settled(s) \in Rows /\ Settled(s).status = s
BY AttemptsTyped DEF Settled, NoRow, Rows

LEMMA CleanupStep == ASSUME IInv, Cleanup PROVE IInv'
<1>0. Rare /\ UNCHANGED <<run, test, delivered, owed>>
  BY DEF Cleanup
<1>1. PICK k \in Messages :
        LET stale == {m \in 1..k : row[m].status = "QUEUED"}
        IN  /\ row' = [m \in Messages |-> IF m \in stale THEN Settled("FAILED") ELSE row[m]]
            /\ doubt' = doubt \cup {m \in stale : Held(m)}
  BY DEF Cleanup
<1> DEFINE stale == {m \in 1..k : row[m].status = "QUEUED"}
<1>2. /\ stale \in SUBSET Messages /\ \A m \in stale : row[m].status = "QUEUED"
      /\ row' = [m \in Messages |-> IF m \in stale THEN Settled("FAILED") ELSE row[m]]
      /\ doubt' = doubt \cup {m \in stale : Held(m)}
  BY <1>1, EmailAssumption DEF Messages
<1> HIDE DEF stale
<1>3. /\ row' \in [Messages -> Rows]
      /\ \A m \in stale : row'[m].status = "FAILED"
      /\ \A m \in Messages \ stale : row'[m] = row[m]
  BY <1>2, SettledTyped DEF IInv, Typed
<1>4. Typed'
  BY <1>0, <1>2, <1>3, EmailAssumption DEF IInv, Typed, Rare
<1>5. \A p \in Processes :
        Claimed(p)' = Claimed(p) /\ \A m : MarksSent(p, m) <=> MarksSent(p, m)'
  BY <1>0, StandingSameWork, SameWorkKeeps
<1>6. ASSUME NEW m \in Messages PROVE Clean(m)'
  <2>1. CASE m \in doubt'
    BY <2>1, DoubtedClean
  <2>2. CASE m \notin stale
    BY <1>0, <1>2, <1>3, <1>5, <2>2, UntouchedClean DEF IInv, Untouched
  \* Nobody is at work on it, so it has not been delivered.
  <2>3. CASE m \in stale /\ m \notin doubt'
    <3>1. ~Held(m) /\ m \notin doubt /\ row[m].status = "QUEUED"
      BY <1>2, <2>3
    <3>2. delivered[m] = 0 /\ test # m /\ \A p \in Processes : m \notin Claimed(p)
      BY <3>1 DEF IInv, Clean, Held, MarksSent
    <3> QED
      BY <1>0, <1>5, <3>2 DEF Clean
  <2> QED
    BY <2>1, <2>2, <2>3
<1>7. ASSUME NEW m \in Messages PROVE Fresh(m)'
  <2>1. row'[m].status = "NONE" => m \notin stale /\ row'[m] = row[m]
    BY <1>3
  <2> QED
    BY <1>0, <1>2, <1>5, <2>1 DEF IInv, Fresh
<1>8. ASSUME NEW p \in Processes, NEW m \in owed[p]
      PROVE  /\ test' # m /\ row'[m].status # "NONE"
             /\ row'[m].status = "QUEUED" => row[m].status = "QUEUED" /\ row'[m].due
  <2>1. m \in Messages /\ Owed(p, m)
    BY DEF IInv, Typed
  <2>2. CASE m \in stale
    BY <1>0, <1>3, <2>1, <2>2 DEF Owed
  <2>3. CASE m \notin stale
    BY <1>0, <1>3, <2>1, <2>3 DEF Owed
  <2> QED
    BY <2>2, <2>3
<1>9. test' # 0 => test' \in doubt'
  BY <1>0, <1>2 DEF IInv
<1> QED
  BY <1>0, <1>4, <1>6, <1>7, <1>8, <1>9, StandingStep

LEMMA DeclareStep ==
  ASSUME IInv, NEW m \in Messages, MarkEmailSent(m) \/ Elapse(m)
  PROVE  IInv'
<1>0. /\ UNCHANGED <<run, test, delivered, owed>> /\ row[m].status # "NONE"
      /\ doubt' = IF Held(m) THEN doubt \cup {m} ELSE doubt
  BY DEF MarkEmailSent, Elapse
<1>1. /\ row' \in [Messages -> Rows] /\ \A n \in Messages \ {m} : row'[n] = row[n]
      /\ row'[m].status = "SENT" \/ (row'[m].status = row[m].status /\ row'[m].due)
      /\ rare' \in 0..MaxRare
  <2>1. CASE MarkEmailSent(m)
    BY <2>1, SettledTyped, EmailAssumption DEF MarkEmailSent, Rare, IInv, Typed
  <2>2. CASE Elapse(m)
    <3>1. [row[m] EXCEPT !.due = TRUE] \in Rows /\ [row[m] EXCEPT !.due = TRUE].due
          /\ [row[m] EXCEPT !.due = TRUE].status = row[m].status
      BY DEF IInv, Typed, Rows
    <3>2. row' = [row EXCEPT ![m] = [row[m] EXCEPT !.due = TRUE]]
      BY <2>2 DEF Elapse
    <3> QED
      BY <2>2, <3>1, <3>2 DEF IInv, Typed, Elapse
  <2> QED
    BY <2>1, <2>2
<1>2. Typed'
  BY <1>0, <1>1 DEF IInv, Typed
<1>3. \A p \in Processes :
        Claimed(p)' = Claimed(p) /\ \A n : MarksSent(p, n) <=> MarksSent(p, n)'
  BY <1>0, StandingSameWork, SameWorkKeeps
<1>4. ASSUME NEW n \in Messages PROVE Clean(n)'
  <2>1. CASE n # m
    BY <1>0, <1>1, <1>3, <2>1, UntouchedClean DEF IInv, Untouched
  <2>2. CASE n \in doubt'
    BY <2>2, DoubtedClean
  \* Nobody is at work on it, so what the row says is all there is to know.
  <2>3. CASE n = m /\ n \notin doubt'
    <3>1. ~Held(n) /\ n \notin doubt
      BY <1>0, <2>3
    <3>2. /\ test # n /\ \A p \in Processes : n \notin Claimed(p)
          /\ delivered[n] < 2 /\ (delivered[n] = 0 \/ row[n].status = "SENT")
      BY <3>1 DEF IInv, Clean, Held, MarksSent
    <3> QED
      BY <1>0, <1>1, <1>3, <2>3, <3>2 DEF Clean
  <2> QED
    BY <2>1, <2>2, <2>3
<1>5. ASSUME NEW n \in Messages PROVE Fresh(n)'
  BY <1>0, <1>1, <1>3 DEF IInv, Fresh
<1>6. ASSUME NEW p \in Processes, NEW n \in owed[p]
      PROVE  /\ test' # n /\ row'[n].status # "NONE"
             /\ row'[n].status = "QUEUED" => row[n].status = "QUEUED" /\ row'[n].due
  <2>1. n \in Messages /\ Owed(p, n)
    BY DEF IInv, Typed
  <2> QED
    BY <1>0, <1>1, <2>1 DEF Owed
<1>7. test' # 0 => test' \in doubt'
  BY <1>0 DEF IInv
<1> QED
  BY <1>0, <1>2, <1>4, <1>5, <1>6, <1>7, StandingStep

LEMMA TestCreateStep ==
  ASSUME IInv, NEW m \in Messages, TestCreate(m)
  PROVE  IInv'
<1>0. /\ test' = m /\ doubt' = doubt \cup {m} /\ Created(m) /\ Rare
      /\ UNCHANGED <<run, delivered, owed>>
  BY DEF TestCreate
<1>1. /\ row[m].status = "NONE" /\ row' \in [Messages -> Rows]
      /\ row'[m].status = "QUEUED" /\ \A n \in Messages \ {m} : row'[n] = row[n]
  BY <1>0, CreatedEffect DEF IInv
<1>2. Typed'
  BY <1>0, <1>1, EmailAssumption DEF IInv, Typed, Rare
<1>3. \A p \in Processes :
        Claimed(p)' = Claimed(p) /\ \A n : MarksSent(p, n) <=> MarksSent(p, n)'
  BY <1>0, StandingSameWork, SameWorkKeeps
<1>4. ASSUME NEW n \in Messages PROVE Clean(n)' /\ Fresh(n)'
  <2>1. CASE n = m
    BY <1>0, <1>1, <2>1, DoubtedClean, ThereFresh
  <2>2. CASE n # m
    BY <1>0, <1>1, <1>3, <2>2, UntouchedClean, UnclaimedFresh DEF IInv, Untouched
  <2> QED
    BY <2>1, <2>2
<1>5. ASSUME NEW p \in Processes, NEW n \in owed[p]
      PROVE  /\ test' # n /\ row'[n].status # "NONE"
             /\ row'[n].status = "QUEUED" => row[n].status = "QUEUED" /\ row'[n].due
  <2>1. n \in Messages /\ Owed(p, n)
    BY DEF IInv, Typed
  <2>2. n # m
    BY <1>1, <2>1 DEF Owed
  <2> QED
    BY <1>0, <1>1, <2>1, <2>2 DEF Owed
<1> QED
  BY <1>0, <1>2, <1>4, <1>5, StandingStep

LEMMA TestSettleStep == ASSUME IInv, TestSettle PROVE IInv'
<1>0. /\ test # 0 /\ test' = 0 /\ test \in Messages /\ test \in doubt
      /\ UNCHANGED <<run, doubt, owed, rare>>
  BY DEF TestSettle, IInv, Typed
<1>1. delivered' = delivered
  BY <1>0 DEF TestSettle, Deliver
<1>2. PICK s \in {"SENT", "FAILED"} : row' = [row EXCEPT ![test] = Settled(s)]
  BY DEF TestSettle
<1>3. /\ row' \in [Messages -> Rows] /\ row'[test].status = s
      /\ \A n \in Messages \ {test} : row'[n] = row[n]
  BY <1>0, <1>2, SettledTyped DEF IInv, Typed
<1>4. Typed'
  BY <1>0, <1>1, <1>3 DEF IInv, Typed
<1>5. \A p \in Processes :
        Claimed(p)' = Claimed(p) /\ \A n : MarksSent(p, n) <=> MarksSent(p, n)'
  BY <1>0, StandingSameWork, SameWorkKeeps
<1>6. ASSUME NEW n \in Messages PROVE Clean(n)' /\ Fresh(n)'
  <2>0. test' # n
    BY <1>0, EmailAssumption DEF Messages
  <2>1. CASE n = test
    BY <1>0, <1>3, <2>1, DoubtedClean, ThereFresh
  <2>2. CASE n # test
    BY <1>0, <1>1, <1>3, <1>5, <2>0, <2>2, UntouchedClean, UnclaimedFresh
       DEF IInv, Untouched
  <2> QED
    BY <2>1, <2>2
<1>7. ASSUME NEW p \in Processes, NEW n \in owed[p]
      PROVE  /\ test' # n /\ row'[n].status # "NONE"
             /\ row'[n].status = "QUEUED" => row[n].status = "QUEUED" /\ row'[n].due
  <2>1. n \in Messages /\ Owed(p, n) /\ n # 0
    BY EmailAssumption DEF IInv, Typed, Messages
  <2>2. n # test
    BY <2>1 DEF Owed
  <2> QED
    BY <1>0, <1>3, <2>1, <2>2 DEF Owed
<1> QED
  BY <1>0, <1>4, <1>6, <1>7, StandingStep

-----------------------------------------------------------------------------
(* The invariant                                                            *)

LEMMA InitHolds == Init => IInv
<1> SUFFICES ASSUME Init PROVE IInv
  OBVIOUS
<1>1. NoRow \in Rows /\ NoRow.status = "NONE"
  BY AttemptsTyped DEF NoRow, Rows
<1>2. NoRun \in Runs /\ NoRun.pc = "idle" /\ DOMAIN NoRun.batch = {}
  <2>1. [NoRun EXCEPT !.pc = "idle"] = NoRun
    BY DEF NoRun
  <2> QED
    BY <2>1, NoRunTyped
<1>3. Typed
  BY <1>1, <1>2, EmailAssumption DEF Init, Typed
<1>4. \A p \in Processes : Claimed(p) = {} /\ WellRun(p)
  BY <1>2 DEF Init, Claimed, WellRun
<1>5. ASSUME NEW m \in Messages
      PROVE  Clean(m) /\ Fresh(m) /\ \A p \in Processes : Owed(p, m)
  <2>1. m # 0
    BY EmailAssumption DEF Messages
  <2> QED
    BY <1>1, <1>4, <2>1 DEF Init, Clean, Fresh, Owed
<1> QED
  BY <1>3, <1>4, <1>5 DEF Init, IInv

LEMMA UnchangedHolds == IInv /\ UNCHANGED vars => IInv'
<1> SUFFICES ASSUME IInv, UNCHANGED vars PROVE IInv'
  OBVIOUS
<1>0. UNCHANGED <<row, run, test, delivered, doubt, owed, rare>>
  BY DEF vars
<1>1. Typed' /\ (test' # 0 => test' \in doubt')
  BY <1>0 DEF IInv, Typed
<1>2. \A p \in Processes :
        Claimed(p)' = Claimed(p) /\ \A n : MarksSent(p, n) <=> MarksSent(p, n)'
  BY <1>0, StandingSameWork, SameWorkKeeps
<1>3. ASSUME NEW m \in Messages PROVE Clean(m)' /\ Fresh(m)'
  BY <1>0, <1>2, UntouchedClean, UnclaimedFresh DEF IInv, Untouched
<1>4. ASSUME NEW p \in Processes, NEW n \in owed[p]
      PROVE  /\ test' # n /\ row'[n].status # "NONE"
             /\ row'[n].status = "QUEUED" => row[n].status = "QUEUED" /\ row'[n].due
  <2>1. n \in Messages /\ Owed(p, n)
    BY DEF IInv, Typed
  <2> QED
    BY <1>0, <2>1 DEF Owed
<1> QED
  BY <1>0, <1>1, <1>3, <1>4, StandingStep

LEMMA StepKeeps == IInv /\ [Next]_vars => IInv'
<1> SUFFICES ASSUME IInv, Next PROVE IInv'
  BY UnchangedHolds
<1>1. ASSUME NEW p \in Processes,
             Cron(p) \/ Work(p) \/ TickFails(p) \/ AnswerLost(p) \/ Throws(p) \/ Crash(p)
      PROVE  IInv'
  <2>1. CASE Cron(p)
    BY <2>1, CronStep
  <2>2. CASE Claim(p)
    BY <2>2, ClaimStep
  <2>3. CASE NothingDue(p) \/ TickFails(p)
    BY <2>3, EndStep
  <2>4. CASE Sends(p)
    BY <2>4, SendStep
  <2>5. CASE Mark(p)
    BY <2>5, MarkStep
  <2>6. CASE Throws(p)
    BY <2>6, ThrowsStep
  <2>7. CASE Crash(p)
    BY <2>7, CrashStep
  <2> QED
    BY <1>1, <2>1, <2>2, <2>3, <2>4, <2>5, <2>6, <2>7 DEF Work, Sends
<1>2. ASSUME NEW m \in Messages, NEW p \in Processes, Queue(p, m) PROVE IInv'
  BY <1>2, QueueStep
<1>3. ASSUME NEW m \in Messages, Compose(m) PROVE IInv'
  BY <1>3, QueueStep
<1>4. ASSUME NEW m \in Messages, TestCreate(m) \/ MarkEmailSent(m) \/ Elapse(m) PROVE IInv'
  BY <1>4, TestCreateStep, DeclareStep
<1>5. ASSUME Cleanup \/ TestSettle PROVE IInv'
  BY <1>5, CleanupStep, TestSettleStep
<1> QED
  BY <1>1, <1>2, <1>3, <1>4, <1>5 DEF Next

\* The invariant holds in every reachable state.
LEMMA Invariance == Spec => []IInv
BY InitHolds, StepKeeps, PTL DEF Spec

-----------------------------------------------------------------------------
(* The properties                                                           *)

\* Rows, locals and counters have the values of the schema and the code, and nothing is
\* attempted more than maxAttempts times: markRetry is reached with an attempt left.
THEOREM TypeCorrect == Spec => []TypeOK
<1>1. IInv => TypeOK
  <2> SUFFICES ASSUME IInv PROVE TypeOK
    OBVIOUS
  <2>1. row \in [Messages -> [status : {"NONE", "QUEUED", "SENT", "FAILED"},
                              att : 0..(MaxAttempts - 1), due : BOOLEAN]]
    BY DEF IInv, Typed, Rows, Attempts
  <2>2. ASSUME NEW p \in Processes
        PROVE  /\ run[p].pc \in {"idle", "claim", "send", "mark"}
               /\ run[p].out \in {"none", "SENT", "QUEUED", "FAILED"}
               /\ run[p].follow \in BOOLEAN
               /\ Claimed(p) \subseteq Messages
               /\ \A m \in Claimed(p) : run[p].batch[m] \in 0..(MaxAttempts - 1)
    <3>1. run[p] \in Runs /\ run[p].batch \in Batches
      BY DEF IInv, Typed, Runs
    <3> QED
      BY <3>1, BatchShape DEF Runs, Claimed, Attempts
  <2> QED
    BY <2>1, <2>2 DEF TypeOK, IInv, Typed
<1> QED
  BY <1>1, Invariance, PTL

\* A message is delivered twice, or given up although it was delivered, only if a lease
\* ran out under its worker, an answer or an update was lost, a process died, or it was
\* a test message: the claim, the send and the mark of a tick see to the rest.
THEOREM OnceCorrect == Spec => []OnceUnlessInDoubt
<1>1. IInv => OnceUnlessInDoubt
  <2> SUFFICES ASSUME IInv, NEW m \in Messages \ doubt
               PROVE  delivered[m] < 2 /\ (row[m].status = "FAILED" => delivered[m] = 0)
    BY DEF OnceUnlessInDoubt
  <2>1. Clean(m)
    BY DEF IInv
  <2> QED
    BY <2>1 DEF Clean, MarksSent
<1> QED
  BY <1>1, Invariance, PTL

\* A row that is due and for which its process was kicked has a tick of that process
\* ahead of it: no kick is lost between the last claim of a tick and its end.
THEOREM KickCorrect == Spec => []KickNotLost
<1>1. IInv => KickNotLost
  <2> SUFFICES ASSUME IInv, NEW p \in Processes, NEW m \in owed[p], m \in Due
               PROVE  run[p].follow \/ run[p].pc = "claim"
    BY DEF KickNotLost
  <2>1. Owed(p, m)
    BY DEF IInv, Typed
  <2> QED
    BY <2>1 DEF Owed, Due
<1> QED
  BY <1>1, Invariance, PTL

-----------------------------------------------------------------------------
(* The leases                                                               *)

\* What the leases see: the status of each row, and who is at work on it.
Statuses   == [m \in Messages |-> row[m].status]
Holding(m) == {p \in Processes : m \in Claimed(p)} \cup (IF test = m THEN {Desk} ELSE {})
Holdings   == [m \in Messages |-> Holding(m)]

LEMMA LeaseVars ==
  /\ Leases!vars = <<Statuses, Holdings, doubt>>
  /\ \A m \in Messages : Holding(m) # {} <=> Held(m)
BY DEF Leases!vars, Statuses, Holdings, Holding, Held

\* The workers hold what they held before.
LEMMA SameHoldings ==
  ASSUME test' = test, \A p \in Processes : Claimed(p)' = Claimed(p)
  PROVE  Holdings' = Holdings /\ \A m \in Messages : Holding(m)' = Holding(m)
BY DEF Holdings, Holding

LEMMA PostStep ==
  ASSUME IInv, NEW m \in Messages, Created(m), \A p \in Processes : Claimed(p)' = Claimed(p),
         \/ UNCHANGED <<test, doubt>>
         \/ test = 0 /\ test' = m /\ doubt' = doubt \cup {m}
  PROVE  Leases!Post(m)
<1>1. /\ row[m].status = "NONE" /\ row'[m].status = "QUEUED"
      /\ \A n \in Messages \ {m} : row'[n] = row[n]
  BY CreatedEffect DEF IInv
<1>2. Statuses[m] = "NONE" /\ Statuses' = [Statuses EXCEPT ![m] = "QUEUED"]
  BY <1>1 DEF Statuses
<1>3. CASE UNCHANGED <<test, doubt>>
  BY <1>2, <1>3, SameHoldings DEF Leases!Post, Statuses, Holdings, Holding
<1>4. CASE test = 0 /\ test' = m /\ doubt' = doubt \cup {m}
  <2>1. \A n \in Messages : Holding(n)' = IF n = m THEN Holding(n) \cup {Desk} ELSE Holding(n)
    BY <1>4, EmailAssumption DEF Holding, Messages
  <2>2. Holdings' = [Holdings EXCEPT ![m] = @ \cup {Desk}]
    BY <2>1 DEF Holdings
  <2> QED
    BY <1>2, <1>4, <2>2 DEF Leases!Post, Statuses, Holdings, Holding
<1> QED
  BY <1>3, <1>4

\* A claim takes the leases of a batch: none of them is somebody else's.
LEMMA ClaimLeases ==
  ASSUME IInv, NEW p \in Processes, Claim(p), NEW S \in SUBSET Messages, S = Batch
  PROVE  Leases!Lease(p, S)
<1>1. /\ \A m \in Messages \ S : row'[m] = row[m]
      /\ \A m \in S : row'[m].status = "QUEUED" /\ ~row'[m].due
      /\ \A q \in Processes \ {p} : run'[q] = run[q]
      /\ Claimed(p) = {} /\ Claimed(p)' = S
      /\ UNCHANGED <<test, doubt>>
  BY ClaimEffect
<1>2. S \in SUBSET Messages /\ \A m \in S : row[m].status = "QUEUED" /\ row[m].due
  BY DueFinite DEF Due
<1>3. Statuses' = Statuses
  BY <1>1, <1>2 DEF Statuses
<1>4. \A m \in S : Statuses[m] = "QUEUED" /\ (Holding(m) \ {p} = {} \/ m \in doubt)
  BY <1>2 DEF Statuses, Holding, IInv, Clean
<1>5. \A m \in Messages : Holding(m)' = IF m \in S THEN Holding(m) \cup {p} ELSE Holding(m)
  <2>1. \A q \in Processes \ {p} : Claimed(q)' = Claimed(q)
    BY <1>1 DEF Claimed
  <2> QED
    BY <1>1, <2>1 DEF Holding
<1>6. Holdings' = [m \in Messages |-> IF m \in S THEN Holdings[m] \cup {p} ELSE Holdings[m]]
  BY <1>5 DEF Holdings
<1>7. \A m \in S : Holdings[m] = Holding(m)
  BY <1>2 DEF Holdings
<1> QED
  BY <1>1, <1>3, <1>4, <1>6, <1>7 DEF Leases!Lease, Statuses, Holdings, Holding

\* A worker that records an outcome, or fails to, gives the message up.
LEMMA NextSettles ==
  ASSUME IInv, NEW p \in Processes, Mark(p) \/ Throws(p), NEW c, c = Current(p)
  PROVE  Leases!Settle(p, c)
<1>0. /\ run[p].pc \in {"send", "mark"} /\ NextOf(p) /\ test' = test
      /\ doubt' \in {doubt, doubt \cup {c}}
  BY DEF Mark, Throws
<1>1. Claimed(p) # {} /\ c \in Claimed(p) /\ c \in Messages
  BY <1>0, CurrentIsClaimed DEF IInv, WellRun
<1>2. /\ \A q \in Processes \ {p} : Claimed(q)' = Claimed(q)
      /\ Claimed(p)' = Claimed(p) \ {c}
  BY <1>0, <1>1, NextEffect DEF IInv, Claimed
<1>3. \/ Statuses' = Statuses
      \/ Mark(p) /\ \E v \in {"SENT", "QUEUED", "FAILED"} : Statuses' = [Statuses EXCEPT ![c] = v]
  <2>1. CASE Mark(p)
    <3>1. run[p].pc = "mark" /\ row' = [row EXCEPT ![c] = After(p)]
      BY <2>1 DEF Mark
    <3>2. After(p).status \in {"SENT", "QUEUED", "FAILED"}
      BY <3>1, AfterEffect
    <3>3. \A m \in Messages : row'[m] = IF m = c THEN After(p) ELSE row[m]
      BY <1>1, <3>1 DEF IInv, Typed
    <3>4. Statuses' = [Statuses EXCEPT ![c] = After(p).status]
      BY <1>1, <3>3 DEF Statuses
    <3> QED
      BY <2>1, <3>2, <3>4
  <2>2. CASE Throws(p)
    <3>1. row' = IF row[c].status = "QUEUED" THEN [row EXCEPT ![c].due = FALSE] ELSE row
      BY <2>2 DEF Throws
    <3>2. \A m \in Messages : row'[m].status = row[m].status
      BY <1>1, <3>1 DEF IInv, Typed, Rows
    <3> QED
      BY <3>2 DEF Statuses
  <2> QED
    BY <2>1, <2>2
<1>4. Statuses[c] # "NONE" /\ (Statuses[c] = "QUEUED" \/ c \in doubt)
      /\ Statuses[c] \in {"SENT", "QUEUED", "FAILED"}
  <2>1. row[c].status \in {"NONE", "SENT", "QUEUED", "FAILED"}
    BY <1>1 DEF IInv, Typed, Rows
  <2> QED
    BY <1>1, <2>1 DEF Statuses, IInv, Fresh, Clean
<1>5. \E v \in Leases!States \ {"NONE"} : Statuses' = [Statuses EXCEPT ![c] = v]
  <2>1. Statuses = [Statuses EXCEPT ![c] = Statuses[c]]
    BY DEF Statuses
  <2> QED
    BY <1>3, <1>4, <2>1 DEF Leases!States
<1>6. p \in Holdings[c] /\ Holdings' = [Holdings EXCEPT ![c] = @ \ {p}]
  <2>1. \A m \in Messages : Holding(m)' = IF m = c THEN Holding(m) \ {p} ELSE Holding(m)
    BY <1>0, <1>1, <1>2, EmailAssumption DEF Holding
  <2>2. p \in Holding(c)
    BY <1>1 DEF Holding
  <2> QED
    BY <1>1, <2>1, <2>2 DEF Holdings
<1> QED
  BY <1>0, <1>4, <1>5, <1>6 DEF Leases!Settle, Statuses, Holdings, Holding

LEMMA CrashAbandons ==
  ASSUME IInv, NEW p \in Processes, Crash(p)
  PROVE  Leases!Abandon(p)
<1>1. /\ run' = [run EXCEPT ![p] = NoRun] /\ doubt' = doubt \cup Claimed(p)
      /\ UNCHANGED <<row, test>>
  BY DEF Crash
<1>2. Claimed(p)' = {} /\ \A q \in Processes \ {p} : Claimed(q)' = Claimed(q)
  BY <1>1 DEF IInv, Typed, Claimed, NoRun
<1>3. Claimed(p) \in SUBSET Messages
  BY BatchShape DEF IInv, Typed, Runs, Claimed
<1>4. \A m \in Messages : p \in Holding(m) <=> m \in Claimed(p)
  BY EmailAssumption DEF Holding
<1>5. \A m \in Messages : Holding(m)' = Holding(m) \ {p}
  BY <1>1, <1>2, EmailAssumption DEF Holding
<1>6. Holdings' = [m \in Messages |-> Holdings[m] \ {p}]
  BY <1>5 DEF Holdings
<1>7. doubt' = doubt \cup {m \in Messages : p \in Holdings[m]}
  BY <1>1, <1>3, <1>4 DEF Holdings
<1> QED
  BY <1>1, <1>6, <1>7 DEF Leases!Abandon, Statuses, Holdings, Holding

\* The clean-up and the administrator look at no lease.
LEMMA CleanupDeclares ==
  ASSUME IInv, Cleanup
  PROVE  \E S \in SUBSET Messages : Leases!Declare(S)
<1>1. PICK k \in Messages :
        LET stale == {m \in 1..k : row[m].status = "QUEUED"}
        IN  /\ row' = [m \in Messages |-> IF m \in stale THEN Settled("FAILED") ELSE row[m]]
            /\ doubt' = doubt \cup {m \in stale : Held(m)}
  BY DEF Cleanup
<1> DEFINE S == {m \in 1..k : row[m].status = "QUEUED"}
<1>s. PICK stale \in SUBSET Messages : stale = S
  <2>1. S \in SUBSET Messages
    BY EmailAssumption DEF Messages
  <2> HIDE DEF S
  <2> QED
    BY <2>1
<1>2. /\ \A m \in stale : row[m].status = "QUEUED"
      /\ row' = [m \in Messages |-> IF m \in stale THEN Settled("FAILED") ELSE row[m]]
      /\ doubt' = doubt \cup {m \in stale : Held(m)}
  BY <1>1, <1>s
<1>3. Statuses' = [m \in Messages |-> IF m \in stale THEN "FAILED" ELSE Statuses[m]]
  BY <1>2, SettledTyped DEF Statuses
<1>4. \A m \in stale : Statuses[m] = "QUEUED" /\ (Holdings[m] # {} <=> Held(m))
  BY <1>2, LeaseVars DEF Statuses, Holdings
<1>5. Holdings' = Holdings
  <2>1. UNCHANGED <<run, test>>
    BY DEF Cleanup
  <2> QED
    BY <2>1, SameHoldings DEF Claimed
<1>6. Leases!Declare(stale)
  BY <1>2, <1>3, <1>4, <1>5 DEF Leases!Declare, Statuses, Holdings, Holding
<1> QED
  BY <1>6

LEMMA DeclareDeclares ==
  ASSUME IInv, NEW m \in Messages, MarkEmailSent(m)
  PROVE  Leases!Declare({m})
<1>1. /\ row[m].status # "NONE" /\ row' = [row EXCEPT ![m] = Settled("SENT")]
      /\ doubt' = IF Held(m) THEN doubt \cup {m} ELSE doubt
      /\ UNCHANGED <<run, test>>
  BY DEF MarkEmailSent
<1>2. Statuses[m] # "NONE"
      /\ Statuses' = [n \in Messages |-> IF n \in {m} THEN "SENT" ELSE Statuses[n]]
  BY <1>1, SettledTyped DEF Statuses, IInv, Typed
<1>3. Holdings' = Holdings
  BY <1>1, SameHoldings DEF Claimed
<1>4. doubt' = doubt \cup {n \in {m} : Holdings[n] # {}}
  BY <1>1, LeaseVars DEF Holdings
<1> QED
  BY <1>2, <1>3, <1>4 DEF Leases!Declare, Statuses, Holdings, Holding

LEMMA TestSettles ==
  ASSUME IInv, TestSettle
  PROVE  \E m \in Messages : Leases!Settle(Desk, m)
<1>0. PICK c \in Messages : c = test
  BY DEF TestSettle, IInv, Typed
<1>1. c = test /\ test # 0 /\ test' = 0 /\ c \in doubt /\ UNCHANGED <<run, doubt>>
  BY <1>0 DEF TestSettle, IInv, Typed
<1>2. PICK s \in {"SENT", "FAILED"} : row' = [row EXCEPT ![c] = Settled(s)]
  BY <1>0 DEF TestSettle
<1>3. Statuses' = [Statuses EXCEPT ![c] = s]
  BY <1>1, <1>2, SettledTyped DEF Statuses, IInv, Typed
<1>4. Desk \in Holdings[c] /\ Holdings' = [Holdings EXCEPT ![c] = @ \ {Desk}]
  <2>1. \A p \in Processes : Claimed(p)' = Claimed(p)
    BY <1>1 DEF Claimed
  <2>2. \A m \in Messages : Holding(m)' = IF m = c THEN Holding(m) \ {Desk} ELSE Holding(m)
    BY <1>1, <2>1, EmailAssumption DEF Holding, Messages
  <2>3. Desk \in Holding(c)
    BY <1>1 DEF Holding
  <2> QED
    BY <1>1, <2>2, <2>3 DEF Holdings
<1>5. Leases!Settle(Desk, c)
  BY <1>1, <1>2, <1>3, <1>4
  DEF Leases!Settle, Leases!States, Statuses, Holdings, Holding
<1> QED
  BY <1>5

\* A step that changes no status and no claim lets at most a lease lapse.
LEMMA LapseStep ==
  ASSUME UNCHANGED test, \A m \in Messages : row'[m].status = row[m].status,
         \A p \in Processes : Claimed(p)' = Claimed(p),
         \/ doubt' = doubt
         \/ \E m \in Messages : doubt' = doubt \cup {m}
  PROVE  Leases!Next \/ UNCHANGED Leases!vars
<1>1. Statuses' = Statuses /\ Holdings' = Holdings
  BY SameHoldings DEF Statuses
<1>2. CASE doubt' = doubt
  BY <1>1, <1>2, LeaseVars DEF Leases!vars, Statuses, Holdings, Holding
<1>3. ASSUME NEW m \in Messages, doubt' = doubt \cup {m} PROVE Leases!Next
  <2>1. Leases!Lapse(m)
    BY <1>1, <1>3 DEF Leases!Lapse, Statuses, Holdings, Holding
  <2> QED
    BY <2>1 DEF Leases!Next
<1> QED
  BY <1>2, <1>3

LEMMA LeaseStep == IInv /\ [Next]_vars => [Leases!Next]_(Leases!vars)
<1> SUFFICES ASSUME IInv, [Next]_vars PROVE Leases!Next \/ UNCHANGED Leases!vars
  OBVIOUS
<1>0. ASSUME UNCHANGED vars PROVE UNCHANGED Leases!vars
  BY <1>0 DEF vars, Leases!vars, Claimed
<1>1. ASSUME NEW p \in Processes, Claim(p) PROVE Leases!Next
  <2>1. PICK S \in SUBSET Messages : S = Batch
    BY DueFinite
  <2>2. Leases!Lease(p, S) /\ p \in Processes \cup {Desk}
    BY <1>1, <2>1, ClaimLeases
  <2> QED
    BY <2>2 DEF Leases!Next
<1>2. ASSUME NEW p \in Processes, Mark(p) \/ Throws(p) PROVE Leases!Next
  <2>1. PICK c \in Messages : c = Current(p)
    BY <1>2, CurrentIsClaimed DEF Mark, Throws, IInv, WellRun
  <2>2. Leases!Settle(p, c) /\ p \in Processes \cup {Desk}
    BY <1>2, <2>1, NextSettles
  <2> QED
    BY <2>2 DEF Leases!Next
<1>3. ASSUME NEW p \in Processes, Crash(p) PROVE Leases!Next
  <2>1. Leases!Abandon(p) /\ p \in Processes \cup {Desk}
    BY <1>3, CrashAbandons
  <2> QED
    BY <2>1 DEF Leases!Next
<1>4. ASSUME NEW m \in Messages, Compose(m) \/ TestCreate(m) \/ \E p \in Processes : Queue(p, m)
      PROVE  Leases!Next
  <2>1. \A p \in Processes : Claimed(p)' = Claimed(p)
    BY <1>4, KickedSameWork, StandingSameWork, SameWorkKeeps
    DEF Compose, TestCreate, Queue, IInv
  <2>2. Leases!Post(m)
    BY <1>4, <2>1, PostStep DEF Compose, TestCreate, Queue
  <2> QED
    BY <2>2 DEF Leases!Next
<1>5. ASSUME Cleanup PROVE Leases!Next
  BY <1>5, CleanupDeclares DEF Leases!Next
<1>6. ASSUME NEW m \in Messages, MarkEmailSent(m) PROVE Leases!Next
  <2>1. Leases!Declare({m}) /\ {m} \in SUBSET Messages
    BY <1>6, DeclareDeclares
  <2> QED
    BY <2>1 DEF Leases!Next
<1>7. ASSUME TestSettle PROVE Leases!Next
  <2>1. PICK m \in Messages : Leases!Settle(Desk, m)
    BY <1>7, TestSettles
  <2> QED
    BY <2>1 DEF Leases!Next
<1>8. ASSUME NEW p \in Processes, Cron(p) \/ NothingDue(p) \/ TickFails(p) \/ Sends(p)
      PROVE  Leases!Next \/ UNCHANGED Leases!vars
  <2>1. /\ UNCHANGED <<row, test>>
        /\ doubt' = doubt \/ (doubt' = doubt \cup {Current(p)} /\ Sends(p))
    BY <1>8
    DEF Cron, NothingDue, TickFails, Sends, SendNothing, SendDelivered, SendFails, AnswerLost
  <2>2. ASSUME Sends(p) PROVE Current(p) \in Messages
    BY <2>2, SendEffect, CurrentIsClaimed DEF IInv, WellRun
  <2>3. \A q \in Processes : Claimed(q)' = Claimed(q)
    <3>1. CASE Cron(p)
      BY <3>1, KickedSameWork, SameWorkKeeps DEF Cron, IInv
    <3>2. CASE Sends(p)
      BY <3>2, SendEffect, DecideEffect DEF IInv, Claimed
    <3>3. CASE NothingDue(p) \/ TickFails(p)
      <4>1. Claimed(p) = {} /\ Ended(p)
        BY <3>3 DEF NothingDue, TickFails, IInv, WellRun
      <4> QED
        BY <4>1, EndedEffect DEF IInv, Claimed
    <3> QED
      BY <1>8, <3>1, <3>2, <3>3
  <2> QED
    BY <2>1, <2>2, <2>3, LapseStep
<1>9. ASSUME NEW m \in Messages, Elapse(m) PROVE Leases!Next \/ UNCHANGED Leases!vars
  <2>1. /\ UNCHANGED <<run, test>> /\ row' = [row EXCEPT ![m].due = TRUE]
        /\ doubt' = doubt \/ doubt' = doubt \cup {m}
    BY <1>9 DEF Elapse
  <2>2. \A n \in Messages : row'[n].status = row[n].status
    BY <2>1 DEF IInv, Typed, Rows
  <2> QED
    BY <2>1, <2>2, LapseStep DEF Claimed
<1> QED
  BY <1>0, <1>1, <1>2, <1>3, <1>4, <1>5, <1>6, <1>7, <1>8, <1>9 DEF Next, Work, Sends

\* The queue implements the leases: apart from messages whose lease lapsed, was taken from
\* a dead process or was passed over by an administrator, a message has one holder,
\* which settles it once.
THEOREM Refinement == Spec => Implements
<1>1. Init => Leases!Init
  <2> SUFFICES ASSUME Init PROVE Leases!Init
    OBVIOUS
  <2>1. \A m \in Messages : m # 0
    BY EmailAssumption DEF Messages
  <2> QED
    BY <2>1 DEF Init, NoRow, NoRun, Claimed, Leases!Init
<1> QED
  BY <1>1, LeaseStep, Invariance, PTL DEF Spec, Implements, Leases!Spec

\* Outside doubt a message has one holder at most, a worker or the administrators' test,
\* and none once it is SENT or FAILED (the header of worker.ts: two workers do not both
\* try to send a row).
THEOREM ExclusiveCorrect == Spec => []Leases!Exclusive
<1>1. IInv => Leases!Exclusive
  <2> SUFFICES ASSUME IInv, NEW m \in Messages \ doubt
               PROVE  /\ \A s, t \in Holdings[m] : s = t
                      /\ Statuses[m] # "QUEUED" => Holdings[m] = {}
    BY DEF Leases!Exclusive, Statuses, Holdings, Holding
  <2>1. Clean(m)
    BY DEF IInv
  <2>2. Holding(m) = {p \in Processes : m \in Claimed(p)}
    BY <2>1 DEF Clean, Holding
  <2> QED
    BY <2>1, <2>2 DEF Clean, Statuses, Holdings
<1> QED
  BY <1>1, Invariance, PTL

\* What was decided of a message outside doubt stays decided: nothing makes it QUEUED
\* again, and only an administrator overrules FAILED, with SENT (Final of Mailbox).
THEOREM FinalCorrect ==
  Spec => [][\A m \in Messages \ doubt :
               row[m].status \in {"SENT", "FAILED"} =>
                 row'[m].status \in {row[m].status, "SENT"}]_vars
<1> DEFINE Decided == \A m \in Messages \ doubt :
                        Statuses[m] \in {"SENT", "FAILED"} =>
                          Statuses'[m] \in {Statuses[m], "SENT"}
<1>1. ASSUME NEW S \in SUBSET Messages, Leases!Declare(S) PROVE Decided
  BY <1>1 DEF Leases!Declare, Statuses
<1>2. ASSUME NEW s, NEW m \in Messages, Leases!Settle(s, m) PROVE Decided
  BY <1>2 DEF Leases!Settle, Statuses
<1>3. ASSUME NEW m \in Messages, Leases!Post(m) PROVE Decided
  BY <1>3 DEF Leases!Post, Statuses
<1>4. ASSUME NEW s, NEW S, Leases!Lease(s, S) PROVE Decided
  BY <1>4 DEF Leases!Lease, Statuses
<1>5. ASSUME NEW s, Leases!Abandon(s) PROVE Decided
  BY <1>5 DEF Leases!Abandon, Statuses
<1>6. ASSUME NEW m, Leases!Lapse(m) PROVE Decided
  BY <1>6 DEF Leases!Lapse, Statuses
<1>7. ASSUME UNCHANGED Leases!vars PROVE Decided
  BY <1>7 DEF Leases!vars, Statuses
<1>8. IInv /\ [Next]_vars =>
        [\A m \in Messages \ doubt :
           row[m].status \in {"SENT", "FAILED"} =>
             row'[m].status \in {row[m].status, "SENT"}]_vars
  <2> SUFFICES ASSUME IInv, Next, NEW m \in Messages \ doubt
               PROVE  row[m].status \in {"SENT", "FAILED"} =>
                        row'[m].status \in {row[m].status, "SENT"}
    OBVIOUS
  <2>1. Leases!Next \/ UNCHANGED Leases!vars
    BY LeaseStep
  <2>2. Decided
    BY <1>1, <1>2, <1>3, <1>4, <1>5, <1>6, <1>7, <2>1 DEF Leases!Next
  <2> QED
    BY <2>2 DEF Statuses
<1> QED
  BY <1>8, Invariance, PTL DEF Spec
=============================================================================
