--------------------------- MODULE BadgeCredential ---------------------------
(***************************************************************************)
(* The badge of one participant (lib/badge/service.ts): its credentials    *)
(* and the text code printed beside the QR, under first issuance,          *)
(* regeneration and revocation by administrators, and the legacy cutover.  *)
(*                                                                         *)
(* Each operation is a transaction that first locks the participant's row. *)
(* What it reads under the lock and what it then writes are two steps; an  *)
(* operation that throws leaves nothing behind.  Credentials are numbered  *)
(* in the order of issuedAt.                                               *)
(***************************************************************************)
EXTENDS Naturals, Sequences

CONSTANTS
  Operators,  \* requests and scripts that change the badge
  MaxCreds,   \* bound: credentials issued
  Free        \* nobody holds the participant's row

ASSUME BadgeAssumption == MaxCreds \in Nat /\ Free \notin Operators

VARIABLES
  creds,     \* the BadgeCredential rows
  code,      \* Participant.checkinCode: 0 is null, every code is a new number
  deadCodes, \* codes whose badge was revoked, replaced or has expired
  op,        \* locals of each operator
  lock       \* the operator that holds the participant's row, or Free

badgeVars == <<creds, code, deadCodes, op, lock>>

\* exp: expiresAt is null, set or past.  by: who created it; an "old" one is of the
\* stateless badges, without a token at rest.
Cred(exp, by) == [status |-> "ACTIVE", exp |-> exp, by |-> by]

\* expected: the credential the administrator saw, 0 for none; prev: the one found
\* under the lock.
NoOp == [pc |-> "idle", expected |-> 0, prev |-> 0]

Actives == {i \in DOMAIN creds : creds[i].status = "ACTIVE"}
Active  == IF Actives = {} THEN 0 ELSE CHOOSE i \in Actives : TRUE

BadgeInit ==
  /\ creds \in {<<>>, <<Cred("set", "old")>>}
  /\ code = 0 /\ deadCodes = {}
  /\ op = [o \in Operators |-> NoOp]
  /\ lock = Free

Ready(o, phase, expected, prev) ==
  op' = [op EXCEPT ![o] = [pc |-> phase, expected |-> expected, prev |-> prev]]

Over(o) == op' = [op EXCEPT ![o] = NoOp]

\* Mutant: the transaction goes on without waiting.
LockSkipped(o) == lock' = lock

\* lockParticipant
Lock(o) == lock = Free /\ lock' = o

\* The row of the new credential, after the others.
Insert(rows, c) == Append(rows, c)

Revoked(i) == IF i = 0 THEN creds ELSE [creds EXCEPT ![i].status = "REVOKED"]

-----------------------------------------------------------------------------
(* ensureActiveBadge and issueBadgeCredential                               *)

IssueStart(o) ==
  /\ op[o].pc = "idle" /\ Actives = {}
  /\ Ready(o, "issue", 0, 0)
  /\ UNCHANGED <<creds, code, deadCodes, lock>>

\* Mutant: only an ACTIVE credential counts as history.
IssueCheckActive(o) ==
  /\ op[o].pc = "issue"
  /\ IF Actives = {} THEN Lock(o) /\ Ready(o, "issueWrite", 0, 0)
     ELSE lock = Free /\ UNCHANGED lock /\ Over(o)
  /\ UNCHANGED <<creds, code, deadCodes>>

\* Any history at all makes it throw.
IssueCheck(o) ==
  /\ op[o].pc = "issue"
  /\ IF creds = <<>> THEN Lock(o) /\ Ready(o, "issueWrite", 0, 0)
     ELSE lock = Free /\ UNCHANGED lock /\ Over(o)
  /\ UNCHANGED <<creds, code, deadCodes>>

IssueWrite(o) ==
  /\ op[o].pc = "issueWrite" /\ Len(creds) < MaxCreds
  /\ creds' = Insert(creds, Cred("none", "system"))
  /\ lock' = Free /\ Over(o)
  /\ UNCHANGED <<code, deadCodes>>

-----------------------------------------------------------------------------
(* The administrators: what they see, regenerate, revoke                    *)

AdminView(o) ==
  /\ op[o].pc = "idle"
  /\ Ready(o, "seen", Active, 0)
  /\ UNCHANGED <<creds, code, deadCodes, lock>>

\* The credential seen must still be the current one.
RegenerateCheck(o) ==
  /\ op[o].pc = "seen"
  /\ IF Active = op[o].expected
       THEN Lock(o) /\ Ready(o, "regenerate", 0, Active)
       ELSE lock = Free /\ UNCHANGED lock /\ Over(o)
  /\ UNCHANGED <<creds, code, deadCodes>>

\* Mutant: the printed text code is left as it is.
RegenerateKeepsCode(o) ==
  /\ op[o].pc = "regenerate" /\ Len(creds) < MaxCreds
  /\ creds' = Insert(Revoked(op[o].prev), Cred("none", "admin"))
  /\ deadCodes' = deadCodes \cup {code}
  /\ lock' = Free /\ Over(o)
  /\ UNCHANGED code

\* The previous credential is revoked, the next one created, the code rotated.
Regenerate(o) ==
  /\ op[o].pc = "regenerate" /\ Len(creds) < MaxCreds
  /\ creds' = Insert(Revoked(op[o].prev), Cred("none", "admin"))
  /\ code' = code + 1 /\ deadCodes' = deadCodes \cup {code}
  /\ lock' = Free /\ Over(o)

\* The action compares before the transaction, and names the credential it found.
RevokeStart(o) ==
  /\ op[o].pc = "seen"
  /\ IF Active # 0 /\ Active = op[o].expected THEN Ready(o, "revoke", 0, Active) ELSE Over(o)
  /\ UNCHANGED <<creds, code, deadCodes, lock>>

\* A credential that is REVOKED already is left alone.  The participant's text code
\* goes with its latest credential.
Revoke(o) ==
  LET i == op[o].prev
  IN  /\ op[o].pc = "revoke" /\ lock = Free
      /\ creds' = Revoked(i)
      /\ deadCodes' = IF i = Len(creds) THEN deadCodes \cup {code} ELSE deadCodes
      /\ Over(o)
      /\ UNCHANGED <<code, lock>>

-----------------------------------------------------------------------------
(* reissueLegacyCredential, of the cutover script                           *)

CutoverCheck(o) ==
  /\ op[o].pc = "idle"
  /\ Active # 0 /\ creds[Active].by = "old"
  /\ Lock(o) /\ Ready(o, "cutover", 0, Active)
  /\ UNCHANGED <<creds, code, deadCodes>>

\* The legacy expiry and the printed code are kept.
Cutover(o) ==
  /\ op[o].pc = "cutover" /\ Len(creds) < MaxCreds
  /\ creds' = Insert(Revoked(op[o].prev), Cred(creds[op[o].prev].exp, "cutover"))
  /\ lock' = Free /\ Over(o)
  /\ UNCHANGED <<code, deadCodes>>

-----------------------------------------------------------------------------
\* A statement under the lock fails: the transaction is rolled back.
Rollback(o) ==
  /\ lock = o /\ lock' = Free /\ Over(o)
  /\ UNCHANGED <<creds, code, deadCodes>>

\* ensureCheckinCode: a code is assigned where there is none.  It is worth nothing
\* while the latest credential is revoked or has expired.
AssignCode ==
  /\ code = 0 /\ lock = Free
  /\ code' = 1
  /\ deadCodes' = IF creds # <<>> /\ (creds[Len(creds)].status = "REVOKED"
                                       \/ creds[Len(creds)].exp = "past")
                    THEN deadCodes \cup {1} ELSE deadCodes
  /\ UNCHANGED <<creds, op, lock>>

Expire(i) ==
  /\ creds[i].exp = "set"
  /\ creds' = [creds EXCEPT ![i].exp = "past"]
  /\ deadCodes' = IF i = Len(creds) THEN deadCodes \cup {code} ELSE deadCodes
  /\ UNCHANGED <<code, op, lock>>

BadgeNext ==
  \/ \E o \in Operators :
       \/ IssueStart(o) \/ IssueCheck(o) \/ IssueWrite(o) \/ AdminView(o) \/ RegenerateCheck(o)
       \/ Regenerate(o) \/ RevokeStart(o) \/ Revoke(o) \/ CutoverCheck(o) \/ Cutover(o)
       \/ Rollback(o)
  \/ AssignCode \/ \E i \in DOMAIN creds : Expire(i)

BadgeSpec == BadgeInit /\ [][BadgeNext]_badgeVars

-----------------------------------------------------------------------------
(* Properties                                                               *)

BadgePhases == {"idle", "issue", "issueWrite", "seen", "regenerate", "revoke", "cutover"}

\* A credential's status, expiry and issuer, and who holds the participant's lock: the
\* operators between the check and the write of their transaction, and nobody else.
BadgeTypeOK ==
  /\ creds \in Seq([status : {"ACTIVE", "REVOKED"}, exp : {"none", "set", "past"},
                   by : {"old", "system", "admin", "cutover"}])
  /\ code \in Nat
  /\ deadCodes \subseteq Nat
  /\ op \in [Operators -> [pc : BadgePhases, expected : Nat, prev : Nat]]
  /\ lock \in Operators \cup {Free}
  /\ \A o \in Operators : lock = o <=> op[o].pc \in {"issueWrite", "regenerate", "cutover"}

\* "never two ACTIVE rows" (lockParticipant): whatever requests, administrators and
\* scripts overlap, a participant has one credential that opens doors.
OneActive == \A i, j \in Actives : i = j

\* "Revocation is DURABLE: nothing a subscriber can do re-creates a credential
\* afterwards; only an administrative regeneration can": the system issues the
\* first credential and no other.
SystemIssuesFirst == \A i \in DOMAIN creds : creds[i].by = "system" => i = 1
=============================================================================
