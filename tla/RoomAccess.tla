----------------------------- MODULE RoomAccess -----------------------------
(***************************************************************************)
(* Registration to a room and the access it gives, for one participant and *)
(* one room: concurrent calls of initRegistration and cancel               *)
(* (lib/room-registration/service.ts, with sync.ts), each in a READ        *)
(* COMMITTED transaction, and of the administrators' grantRoomAccessAction *)
(* and revokeRoomAccessAction, which read and then upsert without one.     *)
(*                                                                         *)
(* A transaction sees what is committed, keeps what it wrote to itself     *)
(* until it commits, and holds the rows it wrote: a statement that writes  *)
(* a row held by another waits, and then sees the row as committed.        *)
(***************************************************************************)
EXTENDS Naturals, FiniteSets

CONSTANTS Requests, Admins

VARIABLES
  reg,     \* RoomRegistration.status as committed, "NONE" without a row
  access,  \* the ParticipantAccess row as committed
  tx,      \* locals of each registration request
  adm      \* what each administrator's action is about to upsert

vars == <<reg, access, tx, adm>>

Entitlement == INSTANCE RoomEntitlement

NoRow == Entitlement!NoRow

\* pc, attempt, and the rows written but not committed ("NONE": not written)
NoTx == [pc |-> "idle", attempt |-> 0, reg |-> "NONE", access |-> NoRow]

Init ==
  /\ reg = "NONE" /\ access = NoRow
  /\ tx = [r \in Requests |-> NoTx]
  /\ adm = [a \in Admins |-> "idle"]

RegFree(r)    == \A q \in Requests \ {r} : tx[q].reg = "NONE"
AccessFree(r) == \A q \in Requests \ {r} : tx[q].access = NoRow

Goto(r, phase) == tx' = [tx EXCEPT ![r].pc = phase]

WriteReg(r, s, phase) == tx' = [tx EXCEPT ![r] = [@ EXCEPT !.pc = phase, !.reg = s]]

WriteAccess(r, g) ==
  tx' = [tx EXCEPT ![r] = [@ EXCEPT !.pc = "commit",
           !.access = [source |-> "REGISTRATION", granted |-> g, by |-> "REGISTRATION"]]]

\* Mutant: one retry only.
RetryOnce == 1

\* MAX_RETRIES of initRegistration
MaxRetries == 2

\* P2002: the transaction is rolled back and tried again from the start.
Conflict(r) ==
  tx' = [tx EXCEPT ![r] =
           IF tx[r].attempt < MaxRetries
             THEN [NoTx EXCEPT !.pc = "read", !.attempt = tx[r].attempt + 1]
             ELSE [NoTx EXCEPT !.pc = "exhausted", !.attempt = tx[r].attempt]]

-----------------------------------------------------------------------------
(* initRegistration                                                         *)

InitStart(r) ==
  /\ tx[r].pc = "idle"
  /\ Goto(r, "read")
  /\ UNCHANGED <<reg, access, adm>>

\* A live registration is returned as it is.
InitRead(r) ==
  /\ tx[r].pc = "read"
  /\ \/ reg = "FREE_CONFIRMED" /\ tx' = [tx EXCEPT ![r] = NoTx]
     \/ reg = "CANCELLED" /\ Goto(r, "update")
     \/ reg = "NONE" /\ Goto(r, "insert")
  /\ UNCHANGED <<reg, access, adm>>

InitInsert(r) ==
  /\ tx[r].pc = "insert" /\ RegFree(r)
  /\ \/ reg = "NONE" /\ WriteReg(r, "FREE_CONFIRMED", "entitle")
     \/ reg # "NONE" /\ Conflict(r)
  /\ UNCHANGED <<reg, access, adm>>

\* Mutant: the entitlement is not synchronised when a participant comes back.
UpdateOnly(r) ==
  /\ tx[r].pc = "update" /\ RegFree(r)
  /\ WriteReg(r, "FREE_CONFIRMED", "commit")
  /\ UNCHANGED <<reg, access, adm>>

InitUpdate(r) ==
  /\ tx[r].pc = "update" /\ RegFree(r)
  /\ WriteReg(r, "FREE_CONFIRMED", "entitle")
  /\ UNCHANGED <<reg, access, adm>>

\* Mutant: the source of an existing row is not looked at.
GrantAnySource(r) ==
  /\ tx[r].pc = "entitle"
  /\ \/ access.granted /\ Goto(r, "commit")
     \/ access = NoRow /\ Goto(r, "create")
     \/ access # NoRow /\ ~access.granted /\ Goto(r, "regrant")
  /\ UNCHANGED <<reg, access, adm>>

\* grantRegistrationOwned reads the row, then decides what to write.
GrantRead(r) ==
  /\ tx[r].pc = "entitle"
  /\ \/ access.source = "ADMIN" /\ Goto(r, "commit")
     \/ access.source = "REGISTRATION" /\ access.granted /\ Goto(r, "commit")
     \/ access = NoRow /\ Goto(r, "create")
     \/ access.source = "REGISTRATION" /\ ~access.granted /\ Goto(r, "regrant")
  /\ UNCHANGED <<reg, access, adm>>

GrantCreate(r) ==
  /\ tx[r].pc = "create" /\ AccessFree(r)
  /\ \/ access = NoRow /\ WriteAccess(r, TRUE)
     \/ access # NoRow /\ Conflict(r)
  /\ UNCHANGED <<reg, access, adm>>

\* The update has no condition on the source, and leaves it.
GrantUpdate(r) ==
  /\ tx[r].pc = "regrant" /\ AccessFree(r)
  /\ tx' = [tx EXCEPT ![r] = [@ EXCEPT !.pc = "commit",
              !.access = [source |-> access.source, granted |-> TRUE,
                          by |-> "REGISTRATION"]]]
  /\ UNCHANGED <<reg, access, adm>>

-----------------------------------------------------------------------------
(* cancel                                                                   *)

\* Without a live registration the call changes nothing.
CancelRead(r) ==
  /\ tx[r].pc = "idle" /\ reg = "FREE_CONFIRMED"
  /\ Goto(r, "cancel")
  /\ UNCHANGED <<reg, access, adm>>

\* updateMany where status is still the one read; otherwise the refetched row
\* is returned or the call fails, and nothing is written.
CancelWrite(r) ==
  /\ tx[r].pc = "cancel" /\ RegFree(r)
  /\ \/ reg = "FREE_CONFIRMED" /\ WriteReg(r, "CANCELLED", "revoke")
     \/ reg # "FREE_CONFIRMED" /\ tx' = [tx EXCEPT ![r] = NoTx]
  /\ UNCHANGED <<reg, access, adm>>

\* revokeRegistrationOwned: one updateMany of a granted REGISTRATION row.
Revoke(r) ==
  LET owned == access.source = "REGISTRATION" /\ access.granted
  IN  /\ tx[r].pc = "revoke" /\ AccessFree(r)
      /\ \/ owned /\ WriteAccess(r, FALSE)
         \/ ~owned /\ Goto(r, "commit")
      /\ UNCHANGED <<reg, access, adm>>

-----------------------------------------------------------------------------
(* Either call                                                              *)

Commit(r) ==
  /\ tx[r].pc = "commit"
  /\ reg' = tx[r].reg
  /\ access' = IF tx[r].access = NoRow THEN access ELSE tx[r].access
  /\ tx' = [tx EXCEPT ![r] = NoTx]
  /\ UNCHANGED adm

\* The call fails: the participant or the room is not eligible, the retries are
\* exhausted, the transaction times out, the process dies.
Rollback(r) ==
  /\ tx[r].pc # "idle"
  /\ tx' = [tx EXCEPT ![r] = NoTx]
  /\ UNCHANGED <<reg, access, adm>>

-----------------------------------------------------------------------------
(* grantRoomAccessAction (g) and revokeRoomAccessAction (~g)                *)

\* isAccessMutationNoop: nothing to do when the row read says so already.
AdminRead(a, g) ==
  /\ adm[a] = "idle"
  /\ access = NoRow \/ access.granted # g
  /\ adm' = [adm EXCEPT ![a] = IF g THEN "grant" ELSE "revoke"]
  /\ UNCHANGED <<reg, access, tx>>

\* Mutant: the column has no default.
UpsertNoSource(a) ==
  /\ adm[a] # "idle"
  /\ \A r \in Requests : tx[r].access = NoRow
  /\ access' = [source |-> access.source, granted |-> adm[a] = "grant",
                by |-> "ADMIN"]
  /\ adm' = [adm EXCEPT ![a] = "idle"]
  /\ UNCHANGED <<reg, tx>>

\* Mutant: the row is created as if the registration owned it.
UpsertRegistrationSource(a) ==
  /\ adm[a] # "idle"
  /\ \A r \in Requests : tx[r].access = NoRow
  /\ access' = [source |-> "REGISTRATION", granted |-> adm[a] = "grant", by |-> "ADMIN"]
  /\ adm' = [adm EXCEPT ![a] = "idle"]
  /\ UNCHANGED <<reg, tx>>

\* The upsert creates a row whose source is the default, ADMIN, and leaves the
\* source of a row that exists.
AdminUpsert(a) ==
  /\ adm[a] # "idle"
  /\ \A r \in Requests : tx[r].access = NoRow
  /\ access' = [source |-> IF access = NoRow THEN "ADMIN" ELSE access.source,
                granted |-> adm[a] = "grant", by |-> "ADMIN"]
  /\ adm' = [adm EXCEPT ![a] = "idle"]
  /\ UNCHANGED <<reg, tx>>

-----------------------------------------------------------------------------
InitStep(r) ==
  \/ InitStart(r) \/ InitRead(r) \/ InitInsert(r) \/ InitUpdate(r)
  \/ GrantRead(r) \/ GrantCreate(r) \/ GrantUpdate(r)

CancelStep(r) == CancelRead(r) \/ CancelWrite(r) \/ Revoke(r)

AdminStep(a) == AdminUpsert(a) \/ (\E g \in BOOLEAN : AdminRead(a, g))

Next ==
  \/ \E r \in Requests : InitStep(r) \/ CancelStep(r) \/ Commit(r) \/ Rollback(r)
  \/ \E a \in Admins : AdminStep(a)

Spec == Init /\ [][Next]_vars

-----------------------------------------------------------------------------
(* Properties                                                               *)

Statuses == {"NONE", "FREE_CONFIRMED", "CANCELLED"}
Phases   == {"idle", "read", "insert", "update", "entitle", "create", "regrant",
             "cancel", "revoke", "commit", "exhausted"}

TxLocals == [pc : Phases, attempt : 0..MaxRetries, reg : Statuses,
             access : Entitlement!Rows]

\* Committed and pending rows have the values of the schema, locals their type.
TypeOK ==
  /\ reg \in Statuses /\ access \in Entitlement!Rows
  /\ tx \in [Requests -> TxLocals]
  /\ adm \in [Admins -> {"idle", "grant", "revoke"}]

\* What is committed is always entitled: whatever requests and administrators
\* interleave, a confirmed registration has its access row, and an access row
\* last written by sync.ts is granted exactly while the registration is live.
Entitled == Entitlement!Entitled

\* "ParticipantAccess.source=ADMIN rows are NEVER mutated" (sync.ts): a row
\* whose source is ADMIN changes only in an administrator's upsert, although
\* the registration's update has no condition on the source it read earlier.
AdminRowsKept ==
  [][access.source = "ADMIN" /\ access' # access
       => access'.by = "ADMIN" /\ \E a \in Admins : adm[a] # adm'[a]]_vars

\* MAX_RETRIES = 2 is enough: no interleaving makes initRegistration fail for
\* having met a unique violation once too often.
RetriesSuffice == \A r \in Requests : tx[r].pc # "exhausted"

\* Every commit and every upsert is one atomic operation of RoomEntitlement.
Implements == Entitlement!Spec
=============================================================================
