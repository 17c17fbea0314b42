------------------------- MODULE RoleAuthorityProofs -------------------------
(***************************************************************************)
(* Machine-checked facts about RoleAuthority, for any number of            *)
(* administrators, of requests and of acts.  What the role editor promises *)
(* of its transaction rests on the advisory lock, as far as the lock goes: *)
(* the badge settings write without it.  That somebody can manage the      *)
(* others rests on what each request knows of its own account.             *)
(***************************************************************************)
EXTENDS RoleAuthority, TLAPS

Phases == {"idle", "create", "update", "delete", "edit", "write", "badges", "survey", "tick"}

Locals ==
  [pc : Phases, me : Admins \cup {"none"}, role : Roles \cup {"none"},
   on : Admins \cup Roles \cup {"none"}, perm : Perms \cup {"none"},
   grant : BOOLEAN, before : BOOLEAN, crossed : SUBSET Roles,
   sel : SUBSET Roles, seen : [Roles -> {"none", "yes", "no"}]]

Rows == [Admins -> {Absent} \cup [role : Roles, active : BOOLEAN]]

Overrides == [Roles \X Perms -> {"none", "yes", "no"}]

\* A request that is idle is well typed.
LEMMA NoReqTyped == NoReq \in Locals
<1>1. [role \in Roles |-> "none"] \in [Roles -> {"none", "yes", "no"}]
  OBVIOUS
<1> QED
  BY <1>1 DEF NoReq, Locals, Phases

\* The rows, the overrides and the locals, by their names here.
LEMMA TypesNamed ==
  TypeOK <=> /\ staff \in Rows /\ override \in Overrides /\ lock \in Requests \cup {Free}
             /\ req \in [Requests -> Locals] /\ acts \in 0..MaxActs /\ deposed \in BOOLEAN
BY DEF TypeOK, Locals, Phases, Rows, Overrides

\* What a session has when its request starts.
LEMMA SessionTyped ==
  ASSUME TypeOK, NEW r \in Requests, NEW me \in Admins, NEW p, Authorized(r, me, p)
  PROVE  /\ acts' \in 0..MaxActs /\ staff[me].role \in Roles
         /\ req[r].pc = "idle" /\ staff[me].active /\ Holds(staff[me].role, p)
<1>1. staff[me] \in {Absent} \cup [role : Roles, active : BOOLEAN] /\ acts \in 0..MaxActs
  BY TypesNamed DEF Rows
<1> QED
  BY <1>1, RoleAssumption DEF Authorized, Absent

\* What a commit of the badge settings leaves of a request.
CrossedBy(x, wrote) == [x EXCEPT !.crossed = @ \cup wrote]

\* A commit of the badge settings leaves the requests well typed.
LEMMA CrossingTyped ==
  ASSUME NEW x \in Locals, NEW wrote \in SUBSET Roles
  PROVE  CrossedBy(x, wrote) \in Locals
<1>1. x.crossed \cup wrote \in SUBSET Roles
  BY DEF Locals
<1> QED
  BY <1>1 DEF CrossedBy, Locals

\* What a commit of the badge settings does.
LEMMA BadgesEffect ==
  ASSUME TypeOK, NEW r \in Requests, BadgesCommit(r)
  PROVE  /\ req[r].pc = "tick" /\ UNCHANGED <<staff, lock, acts, deposed>>
         /\ Ticked(r) \in SUBSET (Roles \ {"SUPER_ADMIN"})
         /\ override' \in Overrides /\ req' \in [Requests -> Locals] /\ req'[r] = NoReq
         /\ \A role \in Roles, p \in Perms :
              IF p # "badge.regenerate" \/ role \notin Ticked(r)
                THEN override'[<<role, p>>] = override[<<role, p>>]
                ELSE /\ override'[<<role, p>>] # "none"
                     /\ override'[<<role, p>>] = "yes" => role \in req[r].sel
         /\ \A q \in Requests \ {r} :
              req'[q] = IF req[q].pc = "write" THEN CrossedBy(req[q], Ticked(r)) ELSE req[q]
<1>1. Ticked(r) \in SUBSET (Roles \ {"SUPER_ADMIN"})
  BY DEF Ticked
<1> DEFINE wrote == Ticked(r)
<1>2. /\ req[r].pc = "tick" /\ UNCHANGED <<staff, lock, acts, deposed>>
      /\ override' = [x \in Roles \X Perms |->
           IF x[2] # "badge.regenerate" \/ x[1] \notin wrote THEN override[x]
           ELSE IF x[1] \in req[r].sel THEN "yes" ELSE "no"]
      /\ req' = [q \in Requests |->
           IF q = r THEN NoReq
           ELSE IF req[q].pc = "write" THEN CrossedBy(req[q], wrote) ELSE req[q]]
  BY DEF BadgesCommit, CrossedBy
<1>3. wrote \in SUBSET Roles
  BY <1>1
<1> HIDE DEF wrote
<1>4. override' \in Overrides
  BY <1>2, TypesNamed DEF Overrides
<1>5. req' \in [Requests -> Locals] /\ req'[r] = NoReq
  <2>1. \A q \in Requests : req[q] \in Locals /\ CrossedBy(req[q], wrote) \in Locals
    BY <1>3, TypesNamed, CrossingTyped
  <2> QED
    BY <1>2, <2>1, NoReqTyped
<1>6. ASSUME NEW role \in Roles, NEW p \in Perms
      PROVE  override'[<<role, p>>] =
               IF p # "badge.regenerate" \/ role \notin wrote THEN override[<<role, p>>]
               ELSE IF role \in req[r].sel THEN "yes" ELSE "no"
  BY <1>2
<1> QED
  BY <1>1, <1>2, <1>4, <1>5, <1>6 DEF wrote

\* Every variable stays within the values the code and the schema allow; a row is not
\* active without a role.
THEOREM TypeCorrect == Spec => []TypeOK
<1>1. Init => TypeOK
  <2> SUFFICES ASSUME Init PROVE TypeOK
    OBVIOUS
  <2>1. staff \in Rows
    BY DEF Init, Roles, Rows
  <2>2. 0 \in 0..MaxActs
    BY RoleAssumption
  <2>3. req \in [Requests -> Locals] /\ override \in Overrides
    BY NoReqTyped DEF Init, Overrides
  <2> QED
    BY <2>1, <2>2, <2>3, TypesNamed DEF Init
<1>2. TypeOK /\ [Next]_vars => TypeOK'
  <2> SUFFICES ASSUME TypeOK, [Next]_vars PROVE TypeOK'
    OBVIOUS
  <2>0. /\ staff \in Rows /\ override \in Overrides /\ lock \in Requests \cup {Free}
        /\ req \in [Requests -> Locals] /\ acts \in 0..MaxActs /\ deposed \in BOOLEAN
    BY TypesNamed
  <2>a. ASSUME req' \in [Requests -> Locals], lock' \in Requests \cup {Free}, staff' \in Rows,
               override' \in Overrides, acts' \in 0..MaxActs, deposed' \in BOOLEAN
        PROVE  TypeOK'
    BY <2>a DEF TypeOK, Locals, Phases, Rows, Overrides
  <2>b. ASSUME NEW r \in Requests, Over(r) PROVE req' \in [Requests -> Locals]
    BY <2>0, <2>b, NoReqTyped DEF Over
  <2>c. ASSUME NEW r \in Requests, NEW p, Act(r, p)
        PROVE  req' \in [Requests -> Locals] /\ deposed' \in BOOLEAN
    BY <2>0, <2>b, <2>c DEF Act
  <2>1. ASSUME NEW r \in Requests, EditCheck(r) PROVE TypeOK'
    <3>1. Explicit(req[r].on, req[r].perm) \in BOOLEAN
      BY DEF Explicit, Holds
    <3>2. req' \in [Requests -> Locals]
      BY <2>0, <2>b, <2>1, <3>1 DEF EditCheck, Locals, Phases
    <3> QED
      BY <2>0, <2>1, <2>a, <3>2 DEF EditCheck, Locked
  <2>2. ASSUME NEW r \in Requests, EditCommit(r) PROVE TypeOK'
    <3>1. override' \in Overrides
      BY <2>0, <2>2 DEF EditCommit, Overrides
    <3> QED
      BY <2>0, <2>2, <2>a, <2>c, <3>1 DEF EditCommit
  <2>3. ASSUME NEW r \in Requests, DeleteUser(r) PROVE TypeOK'
    <3>1. staff' \in Rows
      BY <2>0, <2>3 DEF DeleteUser, Rows
    <3> QED
      BY <2>0, <2>3, <2>a, <2>b, <2>c, <3>1 DEF DeleteUser
  <2>4. ASSUME NEW r \in Requests, Fail(r) PROVE TypeOK'
    BY <2>0, <2>4, <2>a, <2>b DEF Fail
  <2>5. ASSUME NEW r \in Requests, NEW role \in Roles, CreateUser(r, role) PROVE TypeOK'
    <3>1. staff' \in Rows
      <4>1. [role |-> role, active |-> TRUE] \in [role : Roles, active : BOOLEAN]
        OBVIOUS
      <4> QED
        BY <2>0, <2>5, <4>1 DEF CreateUser, Rows
    <3> QED
      BY <2>0, <2>5, <2>a, <2>b, <2>c, <3>1 DEF CreateUser
  <2>6. ASSUME NEW r \in Requests, NEW role \in Roles, NEW active \in BOOLEAN,
               UpdateUser(r, role, active)
        PROVE  TypeOK'
    <3>1. staff' \in Rows
      BY <2>0, <2>6 DEF UpdateUser, Rows
    <3> QED
      BY <2>0, <2>6, <2>a, <2>b, <2>c, <3>1 DEF UpdateUser
  <2>7. ASSUME NEW r \in Requests, NEW me \in Admins, NEW a \in Admins,
               NEW phase \in {"create", "update", "delete"}, StartUser(r, me, phase, a)
        PROVE  TypeOK'
    <3>1. acts' \in 0..MaxActs /\ staff[me].role \in Roles
      BY <2>7, SessionTyped DEF StartUser
    <3>2. [NoReq EXCEPT !.pc = phase, !.me = me, !.role = staff[me].role, !.on = a] \in Locals
      BY <3>1, NoReqTyped DEF Locals, Phases
    <3>3. req' \in [Requests -> Locals]
      BY <2>0, <2>7, <3>2 DEF StartUser
    <3> QED
      BY <2>0, <2>7, <2>a, <3>1, <3>3 DEF StartUser
  <2>8. ASSUME NEW r \in Requests, NEW me \in Admins, NEW role \in Roles, NEW p \in Perms,
               NEW g \in BOOLEAN, StartEdit(r, me, role, p, g)
        PROVE  TypeOK'
    <3>1. acts' \in 0..MaxActs /\ staff[me].role \in Roles
      BY <2>8, SessionTyped DEF StartEdit
    <3>2. [NoReq EXCEPT !.pc = "edit", !.me = me, !.role = staff[me].role,
                        !.on = role, !.perm = p, !.grant = g] \in Locals
      BY <3>1, NoReqTyped DEF Locals, Phases
    <3>3. req' \in [Requests -> Locals]
      BY <2>0, <2>8, <3>2 DEF StartEdit
    <3> QED
      BY <2>0, <2>8, <2>a, <3>1, <3>3 DEF StartEdit
  <2>9. ASSUME NEW r \in Requests, NEW me \in Admins, NEW sel \in SUBSET Roles,
               StartBadges(r, me, sel)
        PROVE  TypeOK'
    <3>1. acts' \in 0..MaxActs /\ staff[me].role \in Roles
      BY <2>9, SessionTyped DEF StartBadges
    <3>2. [NoReq EXCEPT !.pc = "badges", !.me = me, !.role = staff[me].role, !.sel = sel] \in Locals
      BY <3>1, NoReqTyped DEF Locals, Phases
    <3>3. req' \in [Requests -> Locals]
      BY <2>0, <2>9, <3>2 DEF StartBadges
    <3> QED
      BY <2>0, <2>9, <2>a, <3>1, <3>3 DEF StartBadges
  <2>10. ASSUME NEW r \in Requests, BadgesCheck(r) PROVE TypeOK'
    <3>1. req' \in [Requests -> Locals]
      BY <2>0, <2>b, <2>10 DEF BadgesCheck, Locals, Phases
    <3> QED
      BY <2>0, <2>10, <2>a, <3>1 DEF BadgesCheck
  <2>11. ASSUME NEW r \in Requests, BadgesRead(r) PROVE TypeOK'
    <3> DEFINE seen == [role \in Roles |-> override[<<role, "badge.regenerate">>]]
    <3>1. seen \in [Roles -> {"none", "yes", "no"}]
      BY <2>0 DEF Overrides, Perms
    <3>2. req' = [req EXCEPT ![r].pc = "tick", ![r].seen = seen]
      BY <2>11 DEF BadgesRead
    <3> HIDE DEF seen
    <3>3. req' \in [Requests -> Locals]
      <4>1. [req[r] EXCEPT !.pc = "tick", !.seen = seen] \in Locals
        <5>1. req[r] \in Locals
          BY <2>0
        <5> QED
          BY <3>1, <5>1 DEF Locals, Phases
      <4> QED
        BY <2>0, <3>2, <4>1
    <3> QED
      BY <2>0, <2>11, <2>a, <3>3 DEF BadgesRead
  <2>12. ASSUME NEW r \in Requests, BadgesCommit(r) PROVE TypeOK'
    <3>1. /\ override' \in Overrides /\ req' \in [Requests -> Locals]
          /\ UNCHANGED <<staff, lock, acts, deposed>>
      BY <2>12, BadgesEffect
    <3> QED
      BY <2>0, <2>a, <3>1
  <2>13. CASE UNCHANGED vars
    BY <2>13 DEF vars, TypeOK
  <2> QED
    BY <2>1, <2>2, <2>3, <2>4, <2>5, <2>6, <2>7, <2>8, <2>9, <2>10, <2>11, <2>12, <2>13 DEF Next
<1> QED
  BY <1>1, <1>2, PTL DEF Spec

-----------------------------------------------------------------------------
(* The role editor                                                          *)

\* Whoever writes holds the lock.
LockHeld == \A r \in Requests : lock = r <=> req[r].pc = "write"

\* What a request is about has been admitted when it started.
Admitted(x) ==
  /\ x.pc # "idle" => x.me \in Admins /\ x.role \in Roles
  /\ x.pc \in {"edit", "write"} => x.on \in Roles /\ x.perm \in Perms /\ Editable(x.role, x.on)
  /\ x.pc \in {"badges", "survey", "tick"} =>
       \A role \in x.sel : ~ForbiddenGrant(role, "badge.regenerate")

AllAdmitted == \A r \in Requests : Admitted(req[r])

\* What the transaction has read under the lock is still so: the state before, and the
\* authority of the caller, as far as the badge settings have not crossed it.
ReadsStand ==
  \A r \in Requests : req[r].pc = "write" =>
    /\ (Explicit(req[r].on, req[r].perm) <=> req[r].before) \/ Crossed(r, req[r].on)
    /\ Holds(req[r].role, "roles.manage")
    /\ req[r].role # "SUPER_ADMIN" =>
         /\ req[r].perm \notin SuperOnly
         /\ Holds(req[r].role, req[r].perm) \/ Crossed(r, req[r].role)
    /\ req[r].grant => ~ForbiddenGrant(req[r].on, req[r].perm)

EditInv == LockHeld /\ AllAdmitted /\ ReadsStand /\ OverridesSound

\* The requests other than r are as they were.
OthersStay(r) == \A q \in Requests \ {r} : req'[q] = req[q]

\* A request that is over, or acts, leaves the others as they were.
LEMMA OthersUntouched ==
  ASSUME TypeOK, NEW r \in Requests, Over(r)
  PROVE  OthersStay(r) /\ req'[r] = NoReq
BY TypesNamed DEF Over, OthersStay

\* An idle request is admitted.
LEMMA IdleAdmitted == Admitted(NoReq) /\ NoReq.pc = "idle"
BY DEF Admitted, NoReq

\* While no override is written, nobody's permissions change.
LEMMA AuthorityKept ==
  ASSUME UNCHANGED override
  PROVE  \A role, p : /\ (Holds(role, p)' <=> Holds(role, p))
                      /\ (Explicit(role, p)' <=> Explicit(role, p))
BY DEF Holds, Explicit

\* A step of a request that neither writes nor comes to write leaves what the others
\* rely on.
LEMMA Elsewhere ==
  ASSUME EditInv, NEW r \in Requests, OthersStay(r), UNCHANGED <<override, lock>>,
         req[r].pc # "write", req'[r].pc # "write", Admitted(req'[r])
  PROVE  EditInv'
<1>1. LockHeld'
  BY DEF EditInv, LockHeld, OthersStay
<1>2. AllAdmitted'
  BY DEF EditInv, AllAdmitted, OthersStay, Admitted
<1>3. ReadsStand'
  <2>1. ASSUME NEW q \in Requests, req'[q].pc = "write" PROVE req'[q] = req[q] /\ q # r
    BY <2>1 DEF OthersStay
  <2> QED
    BY <2>1, AuthorityKept DEF EditInv, ReadsStand, Crossed
<1>4. OverridesSound'
  BY DEF EditInv, OverridesSound
<1> QED
  BY <1>1, <1>2, <1>3, <1>4 DEF EditInv

\* An edit takes the lock, and what it reads is so.
LEMMA LockTaken ==
  ASSUME TypeOK, EditInv, NEW r \in Requests, EditCheck(r), lock' = r, ~Over(r)
  PROVE  EditInv'
<1>1. /\ req[r].pc = "edit" /\ override' = override /\ lock = Free
      /\ MayChange(req[r].role, req[r].on, req[r].perm, req[r].grant)
      /\ req' = [req EXCEPT ![r].pc = "write", ![r].before = Explicit(req[r].on, req[r].perm)]
  BY DEF EditCheck, Locked
<1>2. PICK before : before = Explicit(req[r].on, req[r].perm)
  OBVIOUS
<1>3. req[r] \in Locals /\ Free \notin Requests
  BY TypesNamed, RoleAssumption
<1>4. /\ req'[r] = [req[r] EXCEPT !.pc = "write", !.before = before]
      /\ OthersStay(r)
  BY <1>1, <1>2, TypesNamed DEF OthersStay
<1>5. /\ req'[r].pc = "write" /\ req'[r].before = before /\ req'[r].me = req[r].me
      /\ req'[r].role = req[r].role /\ req'[r].on = req[r].on
      /\ req'[r].perm = req[r].perm /\ req'[r].grant = req[r].grant
  BY <1>3, <1>4 DEF Locals
<1>6. \A q \in Requests : req[q].pc # "write"
  BY <1>1, <1>3 DEF EditInv, LockHeld
<1>7. LockHeld'
  BY <1>5, <1>4, <1>6 DEF LockHeld, OthersStay
<1>8. AllAdmitted'
  BY <1>1, <1>4, <1>5 DEF EditInv, AllAdmitted, OthersStay, Admitted
<1>9. ReadsStand'
  <2>1. \A q \in Requests : req'[q].pc = "write" => q = r
    BY <1>4, <1>6 DEF OthersStay
  <2>2. Explicit(req[r].on, req[r].perm)' <=> before
    <3>1. PICK on, p : on = req[r].on /\ p = req[r].perm
      OBVIOUS
    <3>2. on = req'[r].on /\ p = req'[r].perm
      BY <1>5, <3>1
    <3>3. Explicit(on, p)' = Explicit(on, p)
      BY <1>1 DEF Explicit, Holds
    <3>4. Explicit(on, p)' = before
      BY <1>2, <3>1, <3>3
    <3> QED
      BY <3>2, <3>4
  <2>3. /\ Holds(req[r].role, "roles.manage")'
        /\ req[r].role # "SUPER_ADMIN" => req[r].perm \notin SuperOnly /\ Holds(req[r].role, req[r].perm)'
        /\ req[r].grant => ~ForbiddenGrant(req[r].on, req[r].perm)
    BY <1>1, <1>5 DEF Holds, MayChange
  <2> QED
    BY <1>5, <2>1, <2>2, <2>3 DEF ReadsStand
<1>10. OverridesSound'
  BY <1>1 DEF EditInv, OverridesSound
<1> QED
  BY <1>7, <1>8, <1>9, <1>10 DEF EditInv

\* The lock is free again, and nobody writes.
LEMMA LockFreed ==
  ASSUME TypeOK, EditInv, NEW r \in Requests, Over(r), lock = r, lock' = Free
  PROVE  LockHeld' /\ AllAdmitted' /\ ReadsStand'
<1>1. OthersStay(r) /\ req'[r] = NoReq
  BY OthersUntouched
<1>2. \A q \in Requests : req'[q].pc # "write"
  BY <1>1, IdleAdmitted DEF EditInv, LockHeld, OthersStay
<1>3. AllAdmitted'
  BY <1>1, IdleAdmitted DEF EditInv, AllAdmitted, OthersStay
<1> QED
  BY <1>2, <1>3, RoleAssumption DEF LockHeld, ReadsStand

\* The badge settings change their own permission only, and leave word of it with
\* whoever writes.
LEMMA BadgesCross ==
  ASSUME TypeOK, EditInv, NEW r \in Requests, BadgesCommit(r)
  PROVE  EditInv'
<1> DEFINE wrote == Ticked(r)
<1>1. PICK w : w = wrote
  OBVIOUS
<1> HIDE DEF wrote
<1>2. /\ req[r].pc = "tick" /\ UNCHANGED <<staff, lock, acts, deposed>>
      /\ w \in SUBSET (Roles \ {"SUPER_ADMIN"}) /\ req'[r] = NoReq
      /\ \A role \in Roles, p \in Perms :
           IF p # "badge.regenerate" \/ role \notin w
             THEN override'[<<role, p>>] = override[<<role, p>>]
             ELSE /\ override'[<<role, p>>] # "none"
                  /\ override'[<<role, p>>] = "yes" => role \in req[r].sel
      /\ \A q \in Requests \ {r} :
           req'[q] = IF req[q].pc = "write" THEN CrossedBy(req[q], w) ELSE req[q]
  BY <1>1, BadgesEffect DEF wrote
<1>3. ASSUME NEW q \in Requests, req[q].pc = "write"
      PROVE  /\ q # r /\ req'[q].pc = "write" /\ req'[q].me = req[q].me
             /\ req'[q].role = req[q].role /\ req'[q].on = req[q].on /\ req'[q].perm = req[q].perm
             /\ req'[q].grant = req[q].grant /\ req'[q].before = req[q].before
             /\ req'[q].crossed = req[q].crossed \cup w
  <2>1. q # r /\ req[q] \in Locals /\ req'[q] = CrossedBy(req[q], w)
    BY <1>2, <1>3, TypesNamed
  <2> QED
    BY <1>3, <2>1 DEF CrossedBy, Locals
<1>4. ASSUME NEW q \in Requests, q # r, req[q].pc # "write" PROVE req'[q] = req[q]
  BY <1>2, <1>4
<1>5. LockHeld'
  BY <1>2, <1>3, <1>4, IdleAdmitted DEF EditInv, LockHeld
<1>6. AllAdmitted'
  <2>1. ASSUME NEW q \in Requests PROVE Admitted(req'[q])
    <3>1. CASE req[q].pc = "write"
      BY <1>3, <3>1 DEF EditInv, AllAdmitted, Admitted
    <3>2. CASE req[q].pc # "write"
      BY <1>2, <1>4, <3>2, IdleAdmitted DEF EditInv, AllAdmitted
    <3> QED
      BY <3>1, <3>2
  <2> QED
    BY <2>1 DEF AllAdmitted
<1>7. ASSUME NEW role \in Roles, NEW p \in Perms, p # "badge.regenerate" \/ role \notin w
      PROVE  (Holds(role, p)' <=> Holds(role, p)) /\ (Explicit(role, p)' <=> Explicit(role, p))
  <2>1. override'[<<role, p>>] = override[<<role, p>>]
    BY <1>2, <1>7
  <2> QED
    BY <2>1 DEF Holds, Explicit
<1>8. ReadsStand'
  <2>1. ASSUME NEW q \in Requests, req'[q].pc = "write"
        PROVE  /\ (Explicit(req[q].on, req[q].perm)' <=> req'[q].before) \/ Crossed(q, req[q].on)'
               /\ Holds(req[q].role, "roles.manage")'
               /\ req'[q].role # "SUPER_ADMIN" =>
                    /\ req'[q].perm \notin SuperOnly
                    /\ Holds(req[q].role, req[q].perm)' \/ Crossed(q, req[q].role)'
               /\ req'[q].grant => ~ForbiddenGrant(req'[q].on, req'[q].perm)
    <3>1. req[q].pc = "write"
      BY <1>2, <1>4, <2>1, IdleAdmitted
    <3>2. req[q].role \in Roles /\ req[q].on \in Roles /\ req[q].perm \in Perms
      BY <3>1 DEF EditInv, AllAdmitted, Admitted
    <3>3. PICK role \in Roles, on \in Roles, p \in Perms :
            role = req[q].role /\ on = req[q].on /\ p = req[q].perm
      BY <3>2
    <3>4. role = req'[q].role /\ on = req'[q].on /\ p = req'[q].perm
      BY <1>3, <3>1, <3>3
    <3>5. Holds(role, "roles.manage")'
      BY <1>7, <3>1, <3>3 DEF EditInv, ReadsStand, Perms
    <3>6. (Explicit(on, p)' <=> req'[q].before) \/ Crossed(q, on)'
      <4>1. CASE p = "badge.regenerate" /\ on \in w
        BY <1>3, <3>1, <3>4, <4>1 DEF Crossed
      <4>2. CASE ~(p = "badge.regenerate" /\ on \in w)
        BY <1>3, <1>7, <3>1, <3>3, <3>4, <4>2 DEF EditInv, ReadsStand, Crossed
      <4> QED
        BY <4>1, <4>2
    <3>7. role # "SUPER_ADMIN" => Holds(role, p)' \/ Crossed(q, role)'
      <4>1. CASE p = "badge.regenerate" /\ role \in w
        BY <1>3, <3>1, <3>4, <4>1 DEF Crossed
      <4>2. CASE ~(p = "badge.regenerate" /\ role \in w)
        BY <1>3, <1>7, <3>1, <3>3, <3>4, <4>2 DEF EditInv, ReadsStand, Crossed
      <4> QED
        BY <4>1, <4>2
    <3>8. /\ role # "SUPER_ADMIN" => p \notin SuperOnly
          /\ req'[q].grant => ~ForbiddenGrant(on, p)
      BY <1>3, <3>1, <3>3 DEF EditInv, ReadsStand
    <3> QED
      BY <3>4, <3>5, <3>6, <3>7, <3>8
  <2> QED
    BY <2>1 DEF ReadsStand
<1>9. OverridesSound'
  <2>1. ASSUME NEW role \in Roles, NEW p \in Perms, override'[<<role, p>>] # "none"
        PROVE  role # "SUPER_ADMIN" /\ (override'[<<role, p>>] = "yes" => ~ForbiddenGrant(role, p))
    <3>1. CASE p # "badge.regenerate" \/ role \notin w
      BY <1>2, <2>1, <3>1 DEF EditInv, OverridesSound
    <3>2. CASE p = "badge.regenerate" /\ role \in w
      BY <1>2, <3>2 DEF EditInv, AllAdmitted, Admitted
    <3> QED
      BY <3>1, <3>2
  <2> QED
    BY <2>1 DEF OverridesSound
<1> QED
  BY <1>5, <1>6, <1>8, <1>9 DEF EditInv

\* A request that starts is admitted, and is not writing.
LEMMA StartsAdmitted ==
  ASSUME TypeOK, NEW r \in Requests, NEW me \in Admins,
         \/ \E phase \in {"create", "update", "delete"}, a \in Admins : StartUser(r, me, phase, a)
         \/ \E role \in Roles, p \in Perms, g \in BOOLEAN : StartEdit(r, me, role, p, g)
         \/ \E sel \in SUBSET Roles : StartBadges(r, me, sel)
  PROVE  /\ OthersStay(r) /\ UNCHANGED <<staff, override, lock, deposed>>
         /\ req[r].pc = "idle" /\ req'[r].pc # "write" /\ Admitted(req'[r])
<1>0. req \in [Requests -> Locals]
  BY TypesNamed
<1>a. ASSUME NEW x, req' = [req EXCEPT ![r] = x] PROVE req'[r] = x /\ OthersStay(r)
  BY <1>0, <1>a DEF OthersStay
<1>1. ASSUME NEW phase \in {"create", "update", "delete"}, NEW a \in Admins,
             StartUser(r, me, phase, a)
      PROVE  /\ OthersStay(r) /\ UNCHANGED <<staff, override, lock, deposed>>
             /\ req[r].pc = "idle" /\ req'[r].pc # "write" /\ Admitted(req'[r])
  <2> DEFINE x == [NoReq EXCEPT !.pc = phase, !.me = me, !.role = staff[me].role, !.on = a]
  <2>1. staff[me].role \in Roles /\ req[r].pc = "idle"
    BY <1>1, SessionTyped DEF StartUser
  <2>2. x.pc = phase /\ x.me = me /\ x.role = staff[me].role
    BY DEF NoReq
  <2>3. req' = [req EXCEPT ![r] = x] /\ UNCHANGED <<staff, override, lock, deposed>>
    BY <1>1 DEF StartUser
  <2> HIDE DEF x
  <2> QED
    BY <1>a, <2>1, <2>2, <2>3 DEF Admitted
<1>2. ASSUME NEW role \in Roles, NEW p \in Perms, NEW g \in BOOLEAN, StartEdit(r, me, role, p, g)
      PROVE  /\ OthersStay(r) /\ UNCHANGED <<staff, override, lock, deposed>>
             /\ req[r].pc = "idle" /\ req'[r].pc # "write" /\ Admitted(req'[r])
  <2> DEFINE x == [NoReq EXCEPT !.pc = "edit", !.me = me, !.role = staff[me].role, !.on = role,
                                !.perm = p, !.grant = g]
  <2>1. staff[me].role \in Roles /\ req[r].pc = "idle"
    BY <1>2, SessionTyped DEF StartEdit
  <2>2. x.pc = "edit" /\ x.me = me /\ x.role = staff[me].role /\ x.on = role /\ x.perm = p
    BY DEF NoReq
  <2>3. /\ req' = [req EXCEPT ![r] = x] /\ UNCHANGED <<staff, override, lock, deposed>>
        /\ Editable(staff[me].role, role)
    BY <1>2 DEF StartEdit
  <2> HIDE DEF x
  <2> QED
    BY <1>a, <2>1, <2>2, <2>3 DEF Admitted
<1>3. ASSUME NEW sel \in SUBSET Roles, StartBadges(r, me, sel)
      PROVE  /\ OthersStay(r) /\ UNCHANGED <<staff, override, lock, deposed>>
             /\ req[r].pc = "idle" /\ req'[r].pc # "write" /\ Admitted(req'[r])
  <2> DEFINE x == [NoReq EXCEPT !.pc = "badges", !.me = me, !.role = staff[me].role, !.sel = sel]
  <2>1. staff[me].role \in Roles /\ req[r].pc = "idle"
    BY <1>3, SessionTyped DEF StartBadges
  <2>2. x.pc = "badges" /\ x.me = me /\ x.role = staff[me].role /\ x.sel = sel
    BY DEF NoReq
  <2>3. /\ req' = [req EXCEPT ![r] = x] /\ UNCHANGED <<staff, override, lock, deposed>>
        /\ \A role \in sel : ~ForbiddenGrant(role, "badge.regenerate")
    BY <1>3 DEF StartBadges
  <2> HIDE DEF x
  <2> QED
    BY <1>a, <2>1, <2>2, <2>3 DEF Admitted
<1> QED
  BY <1>1, <1>2, <1>3

\* What the badge settings do before they commit.
LEMMA BadgesProceed ==
  ASSUME TypeOK, AllAdmitted, NEW r \in Requests, BadgesCheck(r) \/ BadgesRead(r)
  PROVE  /\ OthersStay(r) /\ UNCHANGED <<staff, override, lock, deposed>>
         /\ req[r].pc # "write" /\ req'[r].pc # "write" /\ Admitted(req'[r])
<1>0. req \in [Requests -> Locals] /\ req[r] \in Locals /\ Admitted(req[r])
  BY TypesNamed DEF AllAdmitted
<1>1. CASE Over(r)
  BY <1>1, OthersUntouched, IdleAdmitted DEF BadgesCheck, BadgesRead
<1>2. CASE BadgesCheck(r) /\ ~Over(r)
  <2>1. req' = [req EXCEPT ![r].pc = "survey"]
    BY <1>2 DEF BadgesCheck
  <2>2. /\ OthersStay(r) /\ req'[r].pc = "survey" /\ req'[r].me = req[r].me
        /\ req'[r].role = req[r].role /\ req'[r].sel = req[r].sel
    BY <1>0, <2>1 DEF OthersStay, Locals
  <2> QED
    BY <1>0, <1>2, <2>2 DEF BadgesCheck, Admitted
<1>3. CASE BadgesRead(r)
  <2>1. PICK seen : req' = [req EXCEPT ![r].pc = "tick", ![r].seen = seen]
    BY <1>3 DEF BadgesRead
  <2>2. req'[r] = [req[r] EXCEPT !.pc = "tick", !.seen = seen] /\ OthersStay(r)
    BY <1>0, <2>1 DEF OthersStay
  <2>3. /\ req'[r].pc = "tick" /\ req'[r].me = req[r].me
        /\ req'[r].role = req[r].role /\ req'[r].sel = req[r].sel
    BY <1>0, <2>2 DEF Locals
  <2> QED
    BY <1>0, <1>3, <2>2, <2>3 DEF BadgesRead, Admitted
<1> QED
  BY <1>1, <1>2, <1>3

\* Creating, changing and deleting accounts ends the request.
LEMMA StaffEffect ==
  ASSUME NEW r \in Requests,
         \/ DeleteUser(r)
         \/ \E role \in Roles : CreateUser(r, role)
         \/ \E role \in Roles, active \in BOOLEAN : UpdateUser(r, role, active)
  PROVE  Over(r) /\ UNCHANGED <<override, lock>> /\ req[r].pc \in {"create", "update", "delete"}
BY DEF DeleteUser, CreateUser, UpdateUser, Act

\* Every step keeps what the editor relies on.
LEMMA EditStep ==
  ASSUME TypeOK, EditInv, [Next]_vars
  PROVE  EditInv'
\* A request that is over and holds no lock.
<1>a. ASSUME NEW r \in Requests, Over(r), UNCHANGED <<override, lock>>, req[r].pc # "write"
      PROVE  EditInv'
  BY <1>a, OthersUntouched, IdleAdmitted, Elsewhere
<1>1. ASSUME NEW r \in Requests, EditCheck(r) PROVE EditInv'
  <2>1. CASE Over(r)
    <3>1. lock' # r \/ req' # [req EXCEPT ![r].pc = "write",
                                         ![r].before = Explicit(req[r].on, req[r].perm)]
      <4>1. req'[r].pc = "idle"
        BY <2>1, OthersUntouched, IdleAdmitted
      <4> QED
        BY <4>1, TypesNamed DEF Locals
    <3>2. UNCHANGED <<override, lock>> /\ req[r].pc = "edit"
      BY <1>1, <3>1 DEF EditCheck, Locked
    <3> QED
      BY <1>a, <2>1, <3>2
  <2>2. CASE ~Over(r)
    BY <1>1, <2>2, LockTaken DEF EditCheck, Locked
  <2> QED
    BY <2>1, <2>2
<1>2. ASSUME NEW r \in Requests, EditCommit(r) PROVE EditInv'
  <2>1. /\ req[r].pc = "write" /\ lock = r /\ Over(r) /\ lock' = Free
        /\ override' = [override EXCEPT ![<<req[r].on, req[r].perm>>] =
                          IF req[r].grant THEN "yes" ELSE "no"]
    BY <1>2 DEF EditCommit, EditInv, LockHeld, Act
  <2>2. /\ req[r].on \in Roles /\ req[r].perm \in Perms /\ Editable(req[r].role, req[r].on)
        /\ req[r].grant => ~ForbiddenGrant(req[r].on, req[r].perm)
    BY <2>1 DEF EditInv, AllAdmitted, Admitted, ReadsStand
  <2>3. OverridesSound'
    <3>1. req[r].on # "SUPER_ADMIN"
      BY <2>2 DEF Editable
    <3>2. ASSUME NEW role \in Roles, NEW p \in Perms, override'[<<role, p>>] # "none"
          PROVE  role # "SUPER_ADMIN" /\ (override'[<<role, p>>] = "yes" => ~ForbiddenGrant(role, p))
      <4>1. CASE role = req[r].on /\ p = req[r].perm
        BY <2>1, <2>2, <3>1, <4>1, TypesNamed DEF Overrides
      <4>2. CASE ~(role = req[r].on /\ p = req[r].perm)
        <5>1. override'[<<role, p>>] = override[<<role, p>>]
          BY <2>1, <4>2, TypesNamed DEF Overrides
        <5> QED
          BY <3>2, <5>1 DEF EditInv, OverridesSound
      <4> QED
        BY <4>1, <4>2
    <3> QED
      BY <3>2 DEF OverridesSound
  <2> QED
    BY <2>1, <2>3, LockFreed DEF EditInv
<1>3. ASSUME NEW r \in Requests, Fail(r) PROVE EditInv'
  <2>1. CASE lock = r
    BY <1>3, <2>1, LockFreed DEF Fail, EditInv, OverridesSound
  <2>2. CASE lock # r
    BY <1>3, <1>a, <2>2 DEF Fail, EditInv, LockHeld
  <2> QED
    BY <2>1, <2>2
<1>4. ASSUME NEW r \in Requests,
             \/ DeleteUser(r)
             \/ \E role \in Roles : CreateUser(r, role)
             \/ \E role \in Roles, active \in BOOLEAN : UpdateUser(r, role, active)
      PROVE  EditInv'
  BY <1>4, <1>a, StaffEffect
<1>5. ASSUME NEW r \in Requests, BadgesCheck(r) \/ BadgesRead(r) PROVE EditInv'
  BY <1>5, BadgesProceed, Elsewhere DEF EditInv
<1>6. ASSUME NEW r \in Requests, BadgesCommit(r) PROVE EditInv'
  BY <1>6, BadgesCross
<1>7. ASSUME NEW r \in Requests, NEW me \in Admins,
             \/ \E phase \in {"create", "update", "delete"}, a \in Admins :
                  StartUser(r, me, phase, a)
             \/ \E role \in Roles, p \in Perms, g \in BOOLEAN : StartEdit(r, me, role, p, g)
             \/ \E sel \in SUBSET Roles : StartBadges(r, me, sel)
      PROVE  EditInv'
  <2>1. /\ OthersStay(r) /\ UNCHANGED <<staff, override, lock, deposed>>
        /\ req[r].pc = "idle" /\ req'[r].pc # "write" /\ Admitted(req'[r])
    BY <1>7, StartsAdmitted
  <2> QED
    BY <2>1, Elsewhere
<1>8. CASE UNCHANGED vars
  BY <1>8 DEF vars, EditInv, LockHeld, AllAdmitted, ReadsStand, OverridesSound, Holds, Explicit,
              Crossed
<1> QED
  BY <1>1, <1>2, <1>3, <1>4, <1>5, <1>6, <1>7, <1>8 DEF Next

\* What the editor relies on holds always.
LEMMA EditInvariant == Spec => []EditInv
<1>1. Init => EditInv
  BY RoleAssumption
  DEF Init, EditInv, LockHeld, AllAdmitted, Admitted, ReadsStand, OverridesSound, NoReq
<1>2. TypeOK /\ EditInv /\ [Next]_vars => EditInv'
  BY EditStep
<1> QED
  BY <1>1, <1>2, TypeCorrect, PTL DEF Spec

\* The state before an edit, as its audit row has it, is the state it replaces, unless the
\* badge settings have written that very permission of that very role in between.
THEOREM AuditIsExact == Spec => []AuditExact
<1>1. EditInv => AuditExact
  BY DEF EditInv, ReadsStand, AuditExact, Writes
<1> QED
  BY <1>1, EditInvariant, PTL

\* The authority of whoever edits a role lasts until the edit is committed: no other edit
\* takes it, and the badge settings take badge.regenerate at most.
THEOREM AuthorityLasts == Spec => []AuthorityHeld
<1>1. EditInv => AuthorityHeld
  BY DEF EditInv, ReadsStand, AuthorityHeld, Writes
<1> QED
  BY <1>1, EditInvariant, PTL

\* No sequence of edits and badge settings takes anything from SUPER_ADMIN or gives an
\* operational role a badge permission.
THEOREM OverridesStaySound == Spec => []OverridesSound
<1>1. EditInv => OverridesSound
  BY DEF EditInv
<1> QED
  BY <1>1, EditInvariant, PTL

-----------------------------------------------------------------------------
(* The last account that manages the others                                 *)

\* While neither the staff nor an override of users.manage is written, whoever manages
\* the others still does.
LEMMA ManagersKept ==
  ASSUME TypeOK, UNCHANGED <<staff, deposed>>, Administrable,
         \A role \in Roles : override'[<<role, "users.manage">>] = override[<<role, "users.manage">>]
  PROVE  Administrable'
<1>1. CASE deposed
  BY <1>1 DEF Administrable
<1>2. CASE ~deposed
  <2>1. PICK a \in Admins : Manages(a)
    BY <1>2 DEF Administrable
  <2>2. PICK role \in Roles : role = staff[a].role
    BY <2>1, TypesNamed DEF Manages, Rows, Absent
  <2>3. Holds(role, "users.manage")'
    BY <2>1, <2>2 DEF Manages, Holds
  <2> QED
    BY <2>1, <2>2, <2>3 DEF Manages, Administrable
<1> QED
  BY <1>1, <1>2

\* Whoever changes the staff, and still is who the session said, keeps the account that
\* entitles them.
LEMMA AuthorStays ==
  ASSUME TypeOK, AllAdmitted, NEW r \in Requests, req[r].pc # "idle", Act(r, "users.manage"),
         UNCHANGED override,
         Founded(r, "users.manage") => staff'[req[r].me] = staff[req[r].me]
  PROVE  Administrable'
<1>1. CASE ~Founded(r, "users.manage")
  BY <1>1 DEF Act, Administrable
<1>2. CASE Founded(r, "users.manage")
  <2>1. PICK me \in Admins, role \in Roles : me = req[r].me /\ role = req[r].role
    BY DEF AllAdmitted, Admitted
  <2>2. staff'[me] = [role |-> role, active |-> TRUE] /\ Holds(role, "users.manage")
    BY <1>2, <2>1 DEF Founded
  <2>3. Holds(role, "users.manage")'
    BY <2>2, AuthorityKept
  <2>4. staff'[me].active /\ staff'[me].role = role
    BY <2>2
  <2> QED
    BY <2>3, <2>4 DEF Manages, Administrable
<1> QED
  BY <1>1, <1>2

\* Every step leaves somebody who manages the others, or was made by a deposed request.
LEMMA AdministrableStep ==
  ASSUME TypeOK, EditInv, Administrable, [Next]_vars
  PROVE  Administrable'
<1>0. staff \in Rows /\ override \in Overrides
  BY TypesNamed
<1>a. ASSUME UNCHANGED <<staff, override, deposed>> PROVE Administrable'
  BY <1>a, ManagersKept
<1>1. ASSUME NEW r \in Requests, NEW role \in Roles, CreateUser(r, role) PROVE Administrable'
  <2>1. CASE UNCHANGED <<staff, deposed>>
    BY <1>1, <1>a, <2>1 DEF CreateUser
  <2>2. CASE /\ staff[req[r].on] = Absent /\ Act(r, "users.manage")
             /\ staff' = [staff EXCEPT ![req[r].on] = [role |-> role, active |-> TRUE]]
    <3>1. Founded(r, "users.manage") => req[r].on # req[r].me
      BY <2>2 DEF Founded, Absent
    <3>2. Founded(r, "users.manage") => staff'[req[r].me] = staff[req[r].me]
      BY <2>2, <3>1
    <3> QED
      BY <1>1, <2>2, <3>2, AuthorStays DEF CreateUser, EditInv
  <2> QED
    BY <1>1, <2>1, <2>2 DEF CreateUser
<1>2. ASSUME NEW r \in Requests, NEW role \in Roles, NEW active \in BOOLEAN,
             UpdateUser(r, role, active)
      PROVE  Administrable'
  <2>1. CASE UNCHANGED <<staff, deposed>>
    BY <1>2, <1>a, <2>1 DEF UpdateUser
  <2>2. CASE /\ Own(r, role, active) /\ Act(r, "users.manage")
             /\ staff' = [staff EXCEPT ![req[r].on] = [role |-> role, active |-> active]]
    <3>1. ASSUME Founded(r, "users.manage") PROVE staff'[req[r].me] = staff[req[r].me]
      <4>1. CASE req[r].on = req[r].me
        <5>1. role = req[r].role /\ active = TRUE
          BY <2>2, <4>1 DEF Own
        <5>2. req[r].me \in Admins
          BY <1>2 DEF UpdateUser, EditInv, AllAdmitted, Admitted
        <5> QED
          BY <1>0, <2>2, <3>1, <4>1, <5>1, <5>2 DEF Founded, Rows
      <4>2. CASE req[r].on # req[r].me
        BY <2>2, <4>2
      <4> QED
        BY <4>1, <4>2
    <3> QED
      BY <1>2, <2>2, <3>1, AuthorStays DEF UpdateUser, EditInv
  <2> QED
    BY <1>2, <2>1, <2>2 DEF UpdateUser
<1>3. ASSUME NEW r \in Requests, DeleteUser(r) PROVE Administrable'
  <2>1. CASE UNCHANGED <<staff, deposed>>
    BY <1>3, <1>a, <2>1 DEF DeleteUser
  <2>2. CASE /\ req[r].on # req[r].me /\ Act(r, "users.manage")
             /\ staff' = [staff EXCEPT ![req[r].on] = Absent]
    <3>1. staff'[req[r].me] = staff[req[r].me]
      BY <2>2
    <3> QED
      BY <1>3, <2>2, <3>1, AuthorStays DEF DeleteUser, EditInv
  <2> QED
    BY <1>3, <2>1, <2>2 DEF DeleteUser
<1>4. ASSUME NEW r \in Requests, NEW me \in Admins,
             \/ \E phase \in {"create", "update", "delete"}, a \in Admins :
                  StartUser(r, me, phase, a)
             \/ \E role \in Roles, p \in Perms, g \in BOOLEAN : StartEdit(r, me, role, p, g)
             \/ \E sel \in SUBSET Roles : StartBadges(r, me, sel)
      PROVE  Administrable'
  <2>1. UNCHANGED <<staff, override, lock, deposed>>
    BY <1>4, StartsAdmitted
  <2> QED
    BY <1>a, <2>1
<1>5. ASSUME NEW r \in Requests, EditCheck(r) \/ Fail(r) \/ BadgesCheck(r) \/ BadgesRead(r)
      PROVE  Administrable'
  BY <1>5, <1>a DEF EditCheck, Fail, BadgesCheck, BadgesRead
\* An editor below the super administrators does not touch what makes an account manage
\* the others; a super administrator does not touch its own role.
<1>6. ASSUME NEW r \in Requests, EditCommit(r) PROVE Administrable'
  <2>0. /\ req[r].pc = "write" /\ Act(r, "roles.manage") /\ UNCHANGED staff
        /\ override' = [override EXCEPT ![<<req[r].on, req[r].perm>>] =
                          IF req[r].grant THEN "yes" ELSE "no"]
        /\ Editable(req[r].role, req[r].on)
        /\ req[r].role # "SUPER_ADMIN" => req[r].perm \notin SuperOnly
        /\ req[r].me \in Admins
    BY <1>6 DEF EditCommit, EditInv, AllAdmitted, Admitted, ReadsStand
  <2>1. CASE deposed \/ ~Founded(r, "roles.manage")
    BY <2>0, <2>1 DEF Act, Administrable
  <2>2. CASE Founded(r, "roles.manage") /\ req[r].role = "SUPER_ADMIN"
    <3>1. PICK me \in Admins : me = req[r].me
      BY <2>0
    <3>2. <<"SUPER_ADMIN", "users.manage">> # <<req[r].on, req[r].perm>>
      BY <2>0, <2>2 DEF Editable
    <3>3. override[<<"SUPER_ADMIN", "users.manage">>] = "none"
      BY DEF EditInv, OverridesSound, Roles, Perms
    <3>4. override'[<<"SUPER_ADMIN", "users.manage">>] = "none"
      BY <1>0, <2>0, <3>2, <3>3 DEF Roles, Perms, Overrides
    <3>5. Holds("SUPER_ADMIN", "users.manage")'
      BY <3>4 DEF Holds, ForbiddenGrant, Baseline, Perms
    <3>6. staff'[me].active /\ staff'[me].role = "SUPER_ADMIN"
      BY <2>0, <2>2, <3>1 DEF Founded
    <3> QED
      BY <3>5, <3>6 DEF Manages, Administrable
  <2>3. CASE ~deposed /\ Founded(r, "roles.manage") /\ req[r].role # "SUPER_ADMIN"
    <3>1. req[r].perm # "users.manage"
      BY <2>0, <2>3 DEF SuperOnly
    <3>2. ASSUME NEW role \in Roles
          PROVE  override'[<<role, "users.manage">>] = override[<<role, "users.manage">>]
      <4>1. <<role, "users.manage">> # <<req[r].on, req[r].perm>>
        BY <3>1
      <4> QED
        BY <1>0, <2>0, <4>1 DEF Perms, Overrides
    <3>3. deposed' = deposed
      BY <2>0, <2>3, TypesNamed DEF Act
    <3> QED
      BY <2>0, <3>2, <3>3, ManagersKept
  <2> QED
    BY <2>1, <2>2, <2>3
<1>7. ASSUME NEW r \in Requests, BadgesCommit(r) PROVE Administrable'
  <2>1. /\ UNCHANGED <<staff, deposed>>
        /\ \A role \in Roles : override'[<<role, "users.manage">>] = override[<<role, "users.manage">>]
    BY <1>7, BadgesEffect DEF Perms
  <2> QED
    BY <2>1, ManagersKept
<1>8. CASE UNCHANGED vars
  BY <1>8, <1>a DEF vars
<1> QED
  BY <1>1, <1>2, <1>3, <1>4, <1>5, <1>6, <1>7, <1>8 DEF Next

\* "Prevent self-deletion", "self-deactivation" and the rules of the role editor are
\* enough together, however requests overlap: some account manages the others, unless
\* somebody acted whose own account or role had been changed since the session check.
THEOREM SomebodyManages == Spec => []Administrable
<1>1. Init => Administrable
  <2> SUFFICES ASSUME Init PROVE Administrable
    OBVIOUS
  <2>1. PICK a \in Admins :
          staff = [b \in Admins |-> IF b = a THEN [role |-> "SUPER_ADMIN", active |-> TRUE]
                                    ELSE Absent]
    BY DEF Init
  <2>2. Holds("SUPER_ADMIN", "users.manage")
    BY DEF Init, Holds, ForbiddenGrant, Baseline, Roles, Perms
  <2>3. Manages(a)
    BY <2>1, <2>2 DEF Manages
  <2> QED
    BY <2>3 DEF Administrable
<1>2. TypeOK /\ EditInv /\ Administrable /\ [Next]_vars => Administrable'
  BY AdministrableStep
<1> QED
  BY <1>1, <1>2, TypeCorrect, EditInvariant, PTL DEF Spec
=============================================================================
