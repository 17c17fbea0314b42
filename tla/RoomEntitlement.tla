-------------------------- MODULE RoomEntitlement --------------------------
(***************************************************************************)
(* What lib/room-registration promises about one participant and one room: *)
(* the RoomRegistration row and the ParticipantAccess row of the pair, and *)
(* four operations on them, each in one step.  Module RoomAccess, where    *)
(* they are transactions and separate statements, implements it.           *)
(***************************************************************************)

VARIABLES
  reg,    \* RoomRegistration.status, "NONE" without a row
  access  \* the ParticipantAccess row; source is "NONE" without one

vars == <<reg, access>>

NoRow == [source |-> "NONE", granted |-> FALSE, by |-> "NONE"]

\* by: whom grantedById (or, revoked, revokedById) names; null is REGISTRATION.
Rows ==
  {NoRow} \cup [source : {"ADMIN", "REGISTRATION"}, granted : BOOLEAN,
                by : {"ADMIN", "REGISTRATION"}]

ByRegistration(g) == [source |-> "REGISTRATION", granted |-> g, by |-> "REGISTRATION"]

Init == reg = "NONE" /\ access = NoRow

\* An administrator wrote the row last: the registration may leave it as it is.
AdminWrote == access.by = "ADMIN" /\ UNCHANGED access

Register ==
  /\ reg' = "FREE_CONFIRMED"
  /\ \/ AdminWrote
     \/ access.source # "ADMIN" /\ access' = ByRegistration(TRUE)
     \/ reg = "FREE_CONFIRMED" /\ UNCHANGED access

Cancel ==
  /\ reg = "FREE_CONFIRMED" /\ reg' = "CANCELLED"
  /\ \/ AdminWrote
     \/ access.source = "REGISTRATION" /\ access' = ByRegistration(FALSE)

Decide(g) ==
  /\ access' = [source |-> IF access.source = "NONE" THEN "ADMIN" ELSE access.source,
                granted |-> g, by |-> "ADMIN"]
  /\ UNCHANGED reg

Next == Register \/ Cancel \/ (\E g \in BOOLEAN : Decide(g))

Spec == Init /\ [][Next]_vars

\* Both rows have the values of the schema.
TypeOK == reg \in {"NONE", "FREE_CONFIRMED", "CANCELLED"} /\ access \in Rows

\* The entitlement follows the registration wherever no administrator decided
\* otherwise: a confirmed registration has its access row, and a row last
\* written by the registration grants access exactly while it is confirmed.
Entitled ==
  /\ reg = "FREE_CONFIRMED" => access # NoRow
  /\ access.by = "REGISTRATION" => (access.granted <=> reg = "FREE_CONFIRMED")

\* Only an administrator's decision gives a row to the administrators, and such
\* a row is theirs.
AdminRowsAreTheirs == access.source = "ADMIN" => access.by = "ADMIN"
=============================================================================
