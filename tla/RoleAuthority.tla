---------------------------- MODULE RoleAuthority ----------------------------
(***************************************************************************)
(* Who may do what in the administration: the staff accounts               *)
(* (app/actions/create-user.ts, update-user.ts, delete-user.ts) and the    *)
(* permissions of their roles (lib/admin/rbac.ts,                          *)
(* app/actions/update-role-permissions.ts, and for badge.regenerate also   *)
(* app/admin/(protected)/settings/badges/actions.ts).                      *)
(*                                                                         *)
(* A request reads its session, its user and the permission it needs, and  *)
(* then acts; the role editor works in a transaction under one advisory    *)
(* lock, which the badge settings do not take.  Anything may change        *)
(* between the reads and the act.                                          *)
(***************************************************************************)
EXTENDS Naturals, FiniteSets

CONSTANTS
  Admins,    \* AdminUser ids
  Requests,
  Free,      \* nobody holds the lock
  MaxActs    \* bound: requests authorised

ASSUME RoleAssumption == MaxActs \in Nat /\ Free \notin Requests

\* Four roles and four permissions stand for the ten and the fifty of rbac.ts.
Roles == {"SUPER_ADMIN", "ADMIN", "REGISTRATION_MANAGER", "CHECKIN_OPERATOR"}
Perms == {"roles.manage", "users.manage", "badge.regenerate", "access.manage"}

SuperOnly == {"roles.manage", "users.manage"}

ForbiddenGrant(role, p) == role = "CHECKIN_OPERATOR" /\ p = "badge.regenerate"

Baseline(role) ==
  CASE role = "SUPER_ADMIN" -> Perms
    [] role = "ADMIN"       -> Perms \ SuperOnly
    [] OTHER                -> {}

VARIABLES
  staff,     \* the AdminUser rows: role "none" when there is no such row
  override,  \* RolePermissionOverride rows: "none", or what is granted
  lock,      \* the request that holds the advisory lock of the role editor, or Free
  req,       \* locals of each request
  acts,
  deposed    \* a request has acted whose account or role would no longer have let it start

vars == <<staff, override, lock, req, acts, deposed>>

\* before, of an edit: what its audit row will say; crossed: the roles whose
\* badge.regenerate the badge settings have written since the edit read.
\* sel, seen, of the badge settings: the roles ticked, the overrides they have read.
NoReq == [pc |-> "idle", me |-> "none", role |-> "none", on |-> "none", perm |-> "none",
          grant |-> FALSE, before |-> FALSE, crossed |-> {},
          sel |-> {}, seen |-> [role \in Roles |-> "none"]]

Absent == [role |-> "none", active |-> FALSE]

Init ==
  /\ \E a \in Admins :
       staff = [b \in Admins |-> IF b = a THEN [role |-> "SUPER_ADMIN", active |-> TRUE]
                                 ELSE Absent]
  /\ override = [x \in Roles \X Perms |-> "none"]
  /\ lock = Free
  /\ req = [r \in Requests |-> NoReq]
  /\ acts = 0 /\ deposed = FALSE

\* canWithOverrides: the exclusions, then the override, then the role's own list.
Holds(role, p) ==
  /\ ~ForbiddenGrant(role, p)
  /\ IF override[<<role, p>>] = "none" THEN p \in Baseline(role) ELSE override[<<role, p>>] = "yes"

\* What an edit calls the state before: the override, else what the role has of itself.
Explicit(role, p) ==
  IF override[<<role, p>>] = "none" THEN Holds(role, p) ELSE override[<<role, p>>] = "yes"

Over(r) == req' = [req EXCEPT ![r] = NoReq]

\* requirePermission: a session of an active user whose role holds p.
Authorized(r, me, p) ==
  /\ req[r].pc = "idle" /\ acts < MaxActs /\ acts' = acts + 1
  /\ staff[me].active /\ Holds(staff[me].role, p)

\* The account is what the session read, and its role still has p.
Founded(r, p) ==
  staff[req[r].me] = [role |-> req[r].role, active |-> TRUE] /\ Holds(req[r].role, p)

\* A request acts, on what it read when it started.
Act(r, p) == Over(r) /\ deposed' = (deposed \/ ~Founded(r, p))

-----------------------------------------------------------------------------
(* The staff accounts                                                       *)

StartUser(r, me, phase, target) ==
  /\ Authorized(r, me, "users.manage")
  /\ req' = [req EXCEPT ![r] = [NoReq EXCEPT !.pc = phase, !.me = me, !.role = staff[me].role,
                                             !.on = target]]
  /\ UNCHANGED <<staff, override, lock, deposed>>

CreateUser(r, role) ==
  LET a == req[r].on
  IN  /\ req[r].pc = "create"
      /\ IF staff[a] = Absent
           THEN /\ staff' = [staff EXCEPT ![a] = [role |-> role, active |-> TRUE]]
                /\ Act(r, "users.manage")
           ELSE Over(r) /\ UNCHANGED <<staff, deposed>>
      /\ UNCHANGED <<override, lock, acts>>

\* Mutant: nobody is kept from changing their own account.
OwnAny(r, role, active) == TRUE

\* One's own status and role stay what the session read.
Own(r, role, active) == req[r].on = req[r].me => role = req[r].role /\ active

UpdateUser(r, role, active) ==
  LET a == req[r].on
  IN  /\ req[r].pc = "update"
      /\ IF Own(r, role, active) /\ staff[a] # Absent
           THEN /\ staff' = [staff EXCEPT ![a] = [role |-> role, active |-> active]]
                /\ Act(r, "users.manage")
           ELSE Over(r) /\ UNCHANGED <<staff, deposed>>
      /\ UNCHANGED <<override, lock, acts>>

DeleteUser(r) ==
  LET a == req[r].on
  IN  /\ req[r].pc = "delete"
      /\ IF a # req[r].me /\ staff[a] # Absent
           THEN staff' = [staff EXCEPT ![a] = Absent] /\ Act(r, "users.manage")
           ELSE Over(r) /\ UNCHANGED <<staff, deposed>>
      /\ UNCHANGED <<override, lock, acts>>

-----------------------------------------------------------------------------
(* updateRolePermissions, of one permission                                 *)

\* The SUPER_ADMIN role is a super administrator's, one's own role is nobody's, and
\* ADMIN stands above whoever has been given roles.manage.
Editable(mine, role) ==
  /\ role # mine
  /\ mine # "SUPER_ADMIN" => role \notin {"SUPER_ADMIN", "ADMIN"}

StartEdit(r, me, role, p, grant) ==
  /\ Authorized(r, me, "roles.manage")
  /\ Editable(staff[me].role, role)
  /\ req' = [req EXCEPT ![r] = [NoReq EXCEPT !.pc = "edit", !.me = me, !.role = staff[me].role,
                                             !.on = role, !.perm = p, !.grant = grant]]
  /\ UNCHANGED <<staff, override, lock, deposed>>

\* Mutant: no lock is taken.
Unlocked(r) == UNCHANGED lock

\* pg_advisory_xact_lock
Locked(r) == lock = Free /\ lock' = r

\* Mutant: whoever has roles.manage changes any permission.
MayChangeAny(role, on, p, grant) ==
  /\ Holds(role, "roles.manage")
  /\ grant => ~ForbiddenGrant(on, p)

\* Read again in the transaction.
MayChange(role, on, p, grant) ==
  /\ Holds(role, "roles.manage")
  /\ role # "SUPER_ADMIN" => p \notin SuperOnly /\ Holds(role, p)
  /\ grant => ~ForbiddenGrant(on, p)

EditCheck(r) ==
  LET e == req[r]
  IN  /\ e.pc = "edit"
      /\ IF MayChange(e.role, e.on, e.perm, e.grant) /\ Explicit(e.on, e.perm) # e.grant
           THEN /\ Locked(r)
                /\ req' = [req EXCEPT ![r].pc = "write", ![r].before = Explicit(e.on, e.perm)]
           ELSE lock = Free /\ UNCHANGED lock /\ Over(r)
      /\ UNCHANGED <<staff, override, acts, deposed>>

\* The override and its audit row are committed together.
EditCommit(r) ==
  LET e == req[r]
  IN  /\ e.pc = "write"
      /\ override' = [override EXCEPT ![<<e.on, e.perm>>] = IF e.grant THEN "yes" ELSE "no"]
      /\ lock' = Free
      /\ Act(r, "roles.manage")
      /\ UNCHANGED <<staff, acts>>

-----------------------------------------------------------------------------
(* setBadgeRegenerateRolesAction: a transaction without the lock            *)

\* No role that may never have the permission is ticked.
StartBadges(r, me, sel) ==
  /\ Authorized(r, me, "roles.manage")
  /\ \A role \in sel : ~ForbiddenGrant(role, "badge.regenerate")
  /\ req' = [req EXCEPT ![r] = [NoReq EXCEPT !.pc = "badges", !.me = me, !.role = staff[me].role,
                                             !.sel = sel]]
  /\ UNCHANGED <<staff, override, lock, deposed>>

\* "you cannot grant a permission you do not hold yourself"
BadgesCheck(r) ==
  /\ req[r].pc = "badges"
  /\ IF req[r].sel = {} \/ Explicit(req[r].role, "badge.regenerate")
       THEN req' = [req EXCEPT ![r].pc = "survey"]
       ELSE Over(r)
  /\ UNCHANGED <<staff, override, lock, acts, deposed>>

BadgesRead(r) ==
  /\ req[r].pc = "survey"
  /\ req' = [req EXCEPT ![r].pc = "tick",
                        ![r].seen = [role \in Roles |-> override[<<role, "badge.regenerate">>]]]
  /\ UNCHANGED <<staff, override, lock, acts, deposed>>

\* Roles whose state changes: by the override that was read, else by what the role has now.
Ticked(r) ==
  LET b == req[r]
      current(role) == IF b.seen[role] = "none" THEN Holds(role, "badge.regenerate")
                       ELSE b.seen[role] = "yes"
  IN  {role \in Roles \ {"SUPER_ADMIN", b.role} : current(role) # (role \in b.sel)}

BadgesCommit(r) ==
  LET wrote == Ticked(r)
  IN  /\ req[r].pc = "tick"
      /\ override' = [x \in Roles \X Perms |->
           IF x[2] # "badge.regenerate" \/ x[1] \notin wrote THEN override[x]
           ELSE IF x[1] \in req[r].sel THEN "yes" ELSE "no"]
      /\ req' = [q \in Requests |->
           IF q = r THEN NoReq
           ELSE IF req[q].pc = "write" THEN [req[q] EXCEPT !.crossed = @ \cup wrote]
           ELSE req[q]]
      /\ UNCHANGED <<staff, lock, acts, deposed>>

\* The request fails: the transaction is rolled back.
Fail(r) ==
  /\ req[r].pc # "idle" /\ Over(r)
  /\ lock' = IF lock = r THEN Free ELSE lock
  /\ UNCHANGED <<staff, override, acts, deposed>>

Next ==
  \E r \in Requests :
    \/ EditCheck(r) \/ EditCommit(r)
    \/ DeleteUser(r) \/ Fail(r)
    \/ BadgesCheck(r) \/ BadgesRead(r) \/ BadgesCommit(r)
    \/ \E me \in Admins, sel \in SUBSET Roles : StartBadges(r, me, sel)
    \/ \E role \in Roles : CreateUser(r, role) \/ \E active \in BOOLEAN : UpdateUser(r, role, active)
    \/ \E me, a \in Admins, phase \in {"create", "update", "delete"} : StartUser(r, me, phase, a)
    \/ \E me \in Admins, role \in Roles, p \in Perms, g \in BOOLEAN : StartEdit(r, me, role, p, g)

Spec == Init /\ [][Next]_vars

-----------------------------------------------------------------------------
(* Properties                                                               *)

\* Every variable stays within the values the code and the schema allow; a row is not
\* active without a role.
TypeOK ==
  /\ staff \in [Admins -> {Absent} \cup [role : Roles, active : BOOLEAN]]
  /\ override \in [Roles \X Perms -> {"none", "yes", "no"}]
  /\ lock \in Requests \cup {Free}
  /\ req \in [Requests ->
       [pc : {"idle", "create", "update", "delete", "edit", "write", "badges", "survey", "tick"},
        me : Admins \cup {"none"}, role : Roles \cup {"none"},
        on : Admins \cup Roles \cup {"none"}, perm : Perms \cup {"none"},
        grant : BOOLEAN, before : BOOLEAN, crossed : SUBSET Roles,
        sel : SUBSET Roles, seen : [Roles -> {"none", "yes", "no"}]]]
  /\ acts \in 0..MaxActs /\ deposed \in BOOLEAN

Manages(a) == staff[a].active /\ Holds(staff[a].role, "users.manage")

\* However requests overlap, nobody takes the last account that manages the others away,
\* be it by deleting it, by deactivating or demoting it, or by editing its role; only
\* somebody can whose own account or role has been changed between the session check and
\* the act ("Prevent self-deletion", "self-deactivation").
Administrable == (\E a \in Admins : Manages(a)) \/ deposed

\* What the table of overrides never says: anything of SUPER_ADMIN, and a badge
\* permission for an operational role, whoever edits and whatever has been edited before.
OverridesSound ==
  \A role \in Roles, p \in Perms :
    override[<<role, p>>] # "none" =>
      /\ role # "SUPER_ADMIN"
      /\ (override[<<role, p>>] = "yes" => ~ForbiddenGrant(role, p))

Writes(r) == req[r].pc = "write"

\* "no concurrent edit can interleave, so `before` in the audit row is exact": so it is
\* under the lock.  The badge settings write without it, and do make it untrue.
AuditAlwaysExact ==
  \A r \in Requests : Writes(r) => (Explicit(req[r].on, req[r].perm) <=> req[r].before)

\* The badge settings have written badge.regenerate of the role since the edit read it.
Crossed(r, role) == req[r].perm = "badge.regenerate" /\ role \in req[r].crossed

\* What an edit calls the state before is the state it replaces: no edit gets in between,
\* and nothing but the badge settings does, for their own permission and role.
AuditExact ==
  \A r \in Requests :
    Writes(r) => (Explicit(req[r].on, req[r].perm) <=> req[r].before) \/ Crossed(r, req[r].on)

\* "the authority re-checks below cannot go stale mid-flight": until the change is
\* committed, whoever is below a super administrator holds roles.manage and the
\* permission that is changed, which is none of the super administrators' own; only the
\* badge settings take theirs, and only badge.regenerate.
AuthorityHeld ==
  \A r \in Requests :
    Writes(r) /\ req[r].role # "SUPER_ADMIN" =>
      /\ Holds(req[r].role, "roles.manage")
      /\ Holds(req[r].role, req[r].perm) \/ Crossed(r, req[r].role)
      /\ req[r].perm \notin SuperOnly
=============================================================================
