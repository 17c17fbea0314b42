------------------------------ MODULE Mailbox ------------------------------
(***************************************************************************)
(* What the outbox promises (lib/email/worker.ts, its header comment): a   *)
(* message is worked on under a lease, "two concurrent workers ... do not  *)
(* each try to send the same row", and what its holder decides is final.   *)
(* A lease that lapses, or a sender that takes none, makes a message       *)
(* shared; nothing is promised of a shared message but its state.          *)
(***************************************************************************)
EXTENDS FiniteSets

CONSTANTS Messages, Senders

VARIABLES
  state,   \* EmailMessage.status of each message, "NONE" without a row
  holders, \* the senders at work on a message
  shared   \* messages whose lease has been anything but exclusive

vars == <<state, holders, shared>>

States == {"NONE", "QUEUED", "SENT", "FAILED"}

Init ==
  /\ state = [m \in Messages |-> "NONE"]
  /\ holders = [m \in Messages |-> {}]
  /\ shared = {}

\* The row is created; its creator may send it without a lease.
Post(m) ==
  /\ state[m] = "NONE"
  /\ state' = [state EXCEPT ![m] = "QUEUED"]
  /\ \/ UNCHANGED <<holders, shared>>
     \/ \E s \in Senders : /\ holders' = [holders EXCEPT ![m] = @ \cup {s}]
                           /\ shared' = shared \cup {m}

\* A batch is claimed; only a shared message may be claimed twice.
Lease(s, S) ==
  /\ \A m \in S : state[m] = "QUEUED" /\ (holders[m] \ {s} = {} \/ m \in shared)
  /\ holders' = [m \in Messages |-> IF m \in S THEN holders[m] \cup {s} ELSE holders[m]]
  /\ UNCHANGED <<state, shared>>

\* A holder writes its outcome, and gives the message up.  When the outcome cannot
\* be written, nobody knows whether the message was sent.
Settle(s, m) ==
  /\ s \in holders[m]
  /\ holders' = [holders EXCEPT ![m] = @ \ {s}]
  /\ \E v \in States \ {"NONE"} : state' = [state EXCEPT ![m] = v]
  /\ state[m] = "QUEUED" \/ m \in shared \/ UNCHANGED state
  /\ shared' \in {shared, shared \cup {m}}

\* A lease lapses, or is no longer needed to change the message.
Lapse(m) ==
  /\ shared' = shared \cup {m}
  /\ UNCHANGED <<state, holders>>

\* A sender is gone, with all it held.
Abandon(s) ==
  /\ holders' = [m \in Messages |-> holders[m] \ {s}]
  /\ shared' = shared \cup {m \in Messages : s \in holders[m]}
  /\ UNCHANGED state

\* Stale messages are invalidated, or an administrator declares one sent.
Declare(S) ==
  /\ S \subseteq {m \in Messages : state[m] # "NONE"}
  /\ \/ /\ \A m \in S : state[m] = "QUEUED"
        /\ state' = [m \in Messages |-> IF m \in S THEN "FAILED" ELSE state[m]]
     \/ state' = [m \in Messages |-> IF m \in S THEN "SENT" ELSE state[m]]
  /\ shared' = shared \cup {m \in S : holders[m] # {}}
  /\ UNCHANGED holders

Next ==
  \/ \E m \in Messages : Post(m) \/ Lapse(m) \/ \E s \in Senders : Settle(s, m)
  \/ \E s \in Senders, S \in SUBSET Messages : Lease(s, S)
  \/ \E s \in Senders : Abandon(s)
  \/ \E S \in SUBSET Messages : Declare(S)

Spec == Init /\ [][Next]_vars

-----------------------------------------------------------------------------
\* A message that was never shared has one holder at most, and none once it is
\* sent or given up.
Exclusive ==
  \A m \in Messages \ shared :
    /\ \A s, t \in holders[m] : s = t
    /\ state[m] # "QUEUED" => holders[m] = {}

\* What was decided of a message that is not shared stays decided: it is not sent
\* again, unless an administrator declares it sent.
Final ==
  [][\A m \in Messages \ shared :
       state[m] \in {"SENT", "FAILED"} => state'[m] \in {state[m], "SENT"}]_vars
=============================================================================
