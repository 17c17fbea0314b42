----------------------------- MODULE EmailQueue -----------------------------
(***************************************************************************)
(* The e-mail outbox (lib/email): rows queued by queueTemplatedEmail and   *)
(* the administrators' composer, the worker ticks of each process that     *)
(* claim and send them in batches, and the administrators' test message,   *)
(* which is sent without a claim.                                          *)
(*                                                                         *)
(* Messages are numbered in the order of createdAt.  A statement is one    *)
(* step, and so is a call to the provider.                                 *)
(***************************************************************************)
EXTENDS Naturals, FiniteSets, FiniteSetsExt

CONSTANTS
  Processes,   \* server processes, each with its own runningPromise
  Desk,        \* the request of sendAdminTestEmail
  MaxMessages, \* bound: rows
  BatchSize,   \* CLAIM_BATCH_SIZE
  MaxAttempts, \* EmailMessage.maxAttempts
  MaxRare      \* bound: crashes, failing statements, lost answers, clean-ups, test
               \* messages, rows declared SENT, together

ASSUME EmailAssumption ==
  /\ Desk \notin Processes
  /\ {BatchSize, MaxAttempts} \subseteq Nat \ {0}
  /\ {MaxMessages, MaxRare} \subseteq Nat

Messages == 1..MaxMessages

VARIABLES
  row,       \* the EmailMessage rows
  run,       \* the worker of each process: phase, claimed rows with the
             \* attemptCount read, followUpScheduled, outcome to be written
  test,      \* the test message being sent, 0 for none
  delivered, \* how often a message was delivered while it was not in doubt
  doubt,     \* messages about which two senders, or a sender and the provider,
             \* may have come to disagree
  owed,      \* rows that a tick of their process must still look for
  rare       \* how many of the bounded events have happened

vars == <<row, run, test, delivered, doubt, owed, rare>>

\* due: nextAttemptAt is null or reached.  att and due are read of QUEUED rows only,
\* and written before a row is QUEUED again.
NoRow == [status |-> "NONE", att |-> 0, due |-> FALSE]
NoRun == [pc |-> "idle", batch |-> <<>>, follow |-> FALSE, out |-> "none"]

Settled(status) == [NoRow EXCEPT !.status = status]

Init ==
  /\ row = [m \in Messages |-> NoRow]
  /\ run = [p \in Processes |-> NoRun]
  /\ test = 0
  /\ delivered = [m \in Messages |-> 0]
  /\ doubt = {}
  /\ owed = [p \in Processes |-> {}]
  /\ rare = 0

Rare == rare < MaxRare /\ rare' = rare + 1

\* The rows of a batch are sent in the order of createdAt.
Claimed(p) == DOMAIN run[p].batch
Current(p) == Min(Claimed(p))
Held(m)    == test = m \/ \E p \in Processes : m \in Claimed(p)

-----------------------------------------------------------------------------
(* processQueue                                                             *)

\* Mutant: a call that finds a tick running does not ask for another.
Joined(r) == IF r.pc = "idle" THEN [r EXCEPT !.pc = "claim"] ELSE r

\* A tick starts, or the running one will be followed by another.
Kicked(r) == IF r.pc = "idle" THEN [r EXCEPT !.pc = "claim"] ELSE [r EXCEPT !.follow = TRUE]

\* The row is created; rows are created in their order.
Created(m) ==
  /\ row[m].status = "NONE" /\ \A n \in 1..(m - 1) : row[n].status # "NONE"
  /\ row' = [row EXCEPT ![m] = [NoRow EXCEPT !.status = "QUEUED", !.due = TRUE]]

\* queueTemplatedEmail, of a new key: a key that has a row returns that row,
\* whether it is found at once or by the violated index.
Queue(p, m) ==
  /\ Created(m)
  /\ run' = [run EXCEPT ![p] = Kicked(@)]
  /\ owed' = [owed EXCEPT ![p] = @ \cup {m}]
  /\ UNCHANGED <<test, delivered, doubt, rare>>

\* The composer leaves its row to the next tick.
Compose(m) ==
  /\ Created(m)
  /\ UNCHANGED <<run, test, delivered, doubt, owed, rare>>

Cron(p) ==
  /\ run' = [run EXCEPT ![p] = Kicked(@)]
  /\ UNCHANGED <<row, test, delivered, doubt, owed, rare>>

-----------------------------------------------------------------------------
(* runOnce                                                                  *)

\* Mutant: the clean-up does not look at the status.
CleanupAll ==
  /\ \E k \in Messages :
       LET stale == {m \in 1..k : row[m].status # "NONE"}
       IN  /\ row' = [m \in Messages |-> IF m \in stale THEN Settled("FAILED") ELSE row[m]]
           /\ doubt' = doubt \cup {m \in stale : Held(m)}
  /\ Rare
  /\ UNCHANGED <<run, test, delivered, owed>>

\* maybeCleanupStale of some tick, or reset-stale-queued-emails.ts: the QUEUED rows that
\* are older than seven days, those up to some point of creation, whoever sends them.
Cleanup ==
  /\ \E k \in Messages :
       LET stale == {m \in 1..k : row[m].status = "QUEUED"}
       IN  /\ row' = [m \in Messages |-> IF m \in stale THEN Settled("FAILED") ELSE row[m]]
           /\ doubt' = doubt \cup {m \in stale : Held(m)}
  /\ Rare
  /\ UNCHANGED <<run, test, delivered, owed>>

Due == {m \in Messages : row[m].status = "QUEUED" /\ row[m].due}

\* The oldest rows that are due, as many as a batch holds.
Batch == {m \in Due : Cardinality({n \in Due : n < m}) < BatchSize}

\* The tick is over, and another one follows if it was asked for.
Ended(p) ==
  run' = [run EXCEPT ![p] = [NoRun EXCEPT !.pc = IF run[p].follow THEN "claim" ELSE "idle"]]

\* A claimed row need not be looked for; a full batch may leave rows behind.
LookedFor(p) ==
  owed' = [q \in Processes |-> IF q = p /\ Cardinality(Batch) = BatchSize THEN {}
                               ELSE owed[q] \ Batch]

\* Mutant: the claimed rows stay due.
ClaimNoGrace(p) ==
  /\ run[p].pc = "claim" /\ Batch # {}
  /\ run' = [run EXCEPT ![p] = [@ EXCEPT !.pc = "send",
               !.batch = [m \in Batch |-> row[m].att]]]
  /\ LookedFor(p)
  /\ UNCHANGED <<row, test, delivered, doubt, rare>>

\* claimBatch: the rows are read and put off by the grace period in one transaction, which
\* locks them.  Another tick skips a locked row, as it would skip one that is put off: the
\* claims that commit are claims one after the other.
Claim(p) ==
  /\ run[p].pc = "claim" /\ Batch # {}
  /\ row' = [m \in Messages |-> IF m \in Batch THEN [row[m] EXCEPT !.due = FALSE] ELSE row[m]]
  /\ run' = [run EXCEPT ![p] = [@ EXCEPT !.pc = "send",
               !.batch = [m \in Batch |-> row[m].att]]]
  /\ LookedFor(p)
  /\ UNCHANGED <<test, delivered, doubt, rare>>

NothingDue(p) ==
  /\ run[p].pc = "claim" /\ Batch = {} /\ Ended(p)
  /\ UNCHANGED <<row, test, delivered, doubt, owed, rare>>

\* The claim, or the clean-up before it, throws and ends the tick; or the tick found only
\* rows that are locked by a claim which is then rolled back.
TickFails(p) ==
  /\ run[p].pc = "claim" /\ Rare /\ Ended(p)
  /\ owed' = [owed EXCEPT ![p] = {}]
  /\ UNCHANGED <<row, test, delivered, doubt>>

-----------------------------------------------------------------------------
(* sendOutboxRow                                                            *)

\* SMTP has no idempotency key: what is sent is delivered.
Deliver(m) == delivered' = IF m \in doubt THEN delivered ELSE [delivered EXCEPT ![m] = @ + 1]

\* A failed attempt is not the last one.
Retryable(p) == run[p].batch[Current(p)] + 1 < MaxAttempts

Decide(p, o) == run' = [run EXCEPT ![p] = [@ EXCEPT !.pc = "mark", !.out = o]]

\* No configuration, the mode is off, or the recipient is not on the list: failed.
\* The mode is log-only: as if it had been sent.
SendNothing(p) ==
  /\ run[p].pc = "send"
  /\ \E o \in {"FAILED", "SENT"} : Decide(p, o)
  /\ UNCHANGED <<row, test, delivered, doubt, owed, rare>>

SendDelivered(p) ==
  /\ run[p].pc = "send" /\ Decide(p, "SENT") /\ Deliver(Current(p))
  /\ UNCHANGED <<row, test, doubt, owed, rare>>

\* The provider refuses, or cannot be reached.
SendFails(p) ==
  /\ run[p].pc = "send"
  /\ \/ Decide(p, "FAILED")
     \/ Retryable(p) /\ Decide(p, "QUEUED")
  /\ UNCHANGED <<row, test, delivered, doubt, owed, rare>>

\* The provider has delivered and the answer is lost: a timeout, which is retryable.
AnswerLost(p) ==
  /\ run[p].pc = "send" /\ Rare
  /\ Decide(p, IF Retryable(p) THEN "QUEUED" ELSE "FAILED")
  /\ Deliver(Current(p))
  /\ doubt' = doubt \cup {Current(p)}
  /\ UNCHANGED <<row, test, owed>>

\* Back to the loop of runOnce, without the row that has been dealt with.
NextOf(p) ==
  IF Claimed(p) = {Current(p)} THEN Ended(p)
  ELSE run' = [run EXCEPT ![p] = [@ EXCEPT !.pc = "send", !.out = "none",
                 !.batch = [m \in Claimed(p) \ {Current(p)} |-> run[p].batch[m]]]]

\* Mutant: the attempts are not counted.
AfterUncounted(p) ==
  IF run[p].out = "QUEUED" THEN [NoRow EXCEPT !.status = "QUEUED", !.att = run[p].batch[Current(p)]]
  ELSE Settled(run[p].out)

\* The row as markSentLive, markSentLogOnly, markPermanent or markRetry leaves it.
After(p) ==
  IF run[p].out = "QUEUED"
    THEN [NoRow EXCEPT !.status = "QUEUED", !.att = run[p].batch[Current(p)] + 1]
    ELSE Settled(run[p].out)

\* By id, whatever the row has become.
Mark(p) ==
  /\ run[p].pc = "mark" /\ NextOf(p)
  /\ row' = [row EXCEPT ![Current(p)] = After(p)]
  /\ UNCHANGED <<test, delivered, doubt, owed, rare>>

\* The configuration cannot be read, or the update throws: the catch of runOnce puts a
\* row that is QUEUED off by a minute.
Throws(p) ==
  LET m == Current(p)
  IN  /\ run[p].pc \in {"send", "mark"} /\ Rare /\ NextOf(p)
      /\ row' = IF row[m].status = "QUEUED" THEN [row EXCEPT ![m].due = FALSE] ELSE row
      /\ doubt' = doubt \cup {m}
      /\ UNCHANGED <<test, delivered, owed>>

Crash(p) ==
  /\ run[p].pc # "idle" /\ Rare
  /\ run' = [run EXCEPT ![p] = NoRun]
  /\ doubt' = doubt \cup Claimed(p)
  /\ owed' = [owed EXCEPT ![p] = {}]
  /\ UNCHANGED <<row, test, delivered>>

-----------------------------------------------------------------------------
(* The administrators                                                       *)

\* sendAdminTestEmail: the row is QUEUED and due while the provider is called.
TestCreate(m) ==
  /\ test = 0 /\ Created(m) /\ Rare
  /\ test' = m /\ doubt' = doubt \cup {m}
  /\ UNCHANGED <<run, delivered, owed>>

TestSettle ==
  /\ test # 0 /\ test' = 0
  /\ \E s \in {"SENT", "FAILED"} :
       /\ row' = [row EXCEPT ![test] = Settled(s)]
       /\ \/ UNCHANGED delivered
          \/ s = "SENT" /\ Deliver(test)
  /\ UNCHANGED <<run, doubt, owed, rare>>

\* markEmailSent of the composer: the row is declared SENT, whatever it is.
MarkEmailSent(m) ==
  /\ row[m].status # "NONE" /\ Rare
  /\ row' = [row EXCEPT ![m] = Settled("SENT")]
  /\ doubt' = IF Held(m) THEN doubt \cup {m} ELSE doubt
  /\ UNCHANGED <<run, test, delivered, owed>>

-----------------------------------------------------------------------------
(* Time                                                                     *)

\* The grace period or the back-off is over: for a row that is still being worked
\* on, in a batch that takes longer than five minutes.
Elapse(m) ==
  /\ row[m].status = "QUEUED" /\ ~row[m].due
  /\ row' = [row EXCEPT ![m].due = TRUE]
  /\ doubt' = IF Held(m) THEN doubt \cup {m} ELSE doubt
  /\ UNCHANGED <<run, test, delivered, owed, rare>>

-----------------------------------------------------------------------------
Work(p) ==
  \/ Claim(p) \/ NothingDue(p) \/ SendNothing(p) \/ SendDelivered(p)
  \/ SendFails(p) \/ Mark(p)

Next ==
  \/ \E p \in Processes : Cron(p) \/ Work(p) \/ TickFails(p) \/ AnswerLost(p)
                            \/ Throws(p) \/ Crash(p) \/ \E m \in Messages : Queue(p, m)
  \/ \E m \in Messages : Compose(m) \/ TestCreate(m) \/ MarkEmailSent(m) \/ Elapse(m)
  \/ Cleanup \/ TestSettle

Spec == Init /\ [][Next]_vars

\* A tick goes on unless its process dies, the cron job keeps calling the route,
\* and time passes.
Fairness ==
  /\ \A p \in Processes : WF_vars(Work(p)) /\ WF_vars(Cron(p))
  /\ \A m \in Messages : WF_vars(Elapse(m))

FairSpec == Spec /\ Fairness

-----------------------------------------------------------------------------
(* Properties                                                               *)

\* Rows and locals have the values of the schema and the code; a row that was
\* attempted maxAttempts times is not QUEUED again.
TypeOK ==
  /\ row \in [Messages -> [status : {"NONE", "QUEUED", "SENT", "FAILED"},
                           att : 0..(MaxAttempts - 1), due : BOOLEAN]]
  /\ \A p \in Processes :
       /\ run[p].pc \in {"idle", "claim", "send", "mark"}
       /\ run[p].out \in {"none", "SENT", "QUEUED", "FAILED"}
       /\ run[p].follow \in BOOLEAN
       /\ Claimed(p) \subseteq Messages
       /\ \A m \in Claimed(p) : run[p].batch[m] \in 0..(MaxAttempts - 1)
  /\ test \in Messages \cup {0}
  /\ delivered \in [Messages -> Nat]
  /\ doubt \subseteq Messages
  /\ owed \in [Processes -> SUBSET Messages]
  /\ rare \in 0..MaxRare

\* A message reaches its recipient twice, or is recorded as FAILED although it was
\* delivered, only if a claim ran out while its batch was being sent, an answer or
\* an update was lost, a process died, or it was a test message.
OnceUnlessInDoubt ==
  \A m \in Messages \ doubt :
    /\ delivered[m] < 2
    /\ row[m].status = "FAILED" => delivered[m] = 0

\* "a row inserted after the running tick claimed its batch would sit QUEUED until
\* the next external cron" (worker.ts): a row that its process was kicked for has a
\* tick ahead of it that will look for it, as long as ticks find less than a batch.
KickNotLost ==
  \A p \in Processes : \A m \in owed[p] :
    m \in Due => run[p].follow \/ run[p].pc = "claim"

\* Every message that is queued is sent or given up.
Settles == \A m \in Messages : row[m].status = "QUEUED" ~> row[m].status \in {"SENT", "FAILED"}

\* The queue implements the leases of Mailbox: what no lapse, crash or administrator
\* has come in between is decided once, by the worker that claimed it.
Leases == INSTANCE Mailbox WITH
  Senders <- Processes \cup {Desk},
  state   <- [m \in Messages |-> row[m].status],
  holders <- [m \in Messages |-> {p \in Processes : m \in Claimed(p)}
                                   \cup (IF test = m THEN {Desk} ELSE {})],
  shared  <- doubt

Implements == Leases!Spec
=============================================================================
