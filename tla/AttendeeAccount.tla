--------------------------- MODULE AttendeeAccount ---------------------------
(***************************************************************************)
(* The account of one person, known by one address (lib/account/*.ts and   *)
(* app/actions/account.ts): sign-up and log-in, the verification link and  *)
(* the claim of an earlier registration, "this wasn't me", the password    *)
(* reset, the registration to the event with its badge                     *)
(* (lib/register/participant.ts), and the deletion of the account.         *)
(*                                                                         *)
(* A server action is a sequence of statements; the transactions of the    *)
(* reset and of the deletion are split where another statement can run     *)
(* between what they read and what they commit.                            *)
(***************************************************************************)
EXTENDS Naturals, Sequences, FiniteSets

CONSTANTS
  Requests,   \* requests under way at once
  MaxUsers,   \* bound: accounts opened with the address, one after the other
  MaxLinks,   \* bound: verification links
  MaxResets,  \* bound: password reset links
  MaxRows,    \* bound: registrations to the event
  MaxPw       \* bound: passwords of an account

ASSUME AccountAssumption ==
  {MaxUsers, MaxLinks, MaxResets} \subseteq Nat /\ {MaxRows, MaxPw} \subseteq Nat \ {0}

VARIABLES
  users,    \* AccountUser rows in the order they were created: pw numbers the password,
            \* proven remembers that the address has been verified once
  sessions, \* AccountSession rows
  links,    \* EmailVerificationToken rows
  resets,   \* PasswordResetToken rows
  row,      \* the Participant row of the address at the event, and its badge
  req       \* locals of each request

vars == <<users, sessions, links, resets, row, req>>

Live == {u \in DOMAIN users : users[u].live}

\* owner: 0 is no account.  The first row, if there is one, is an anonymous one of an
\* earlier form.  byAdmin: an administrator has given it its first badge.
Row(n, owner) ==
  [n |-> n, exists |-> n > 0, owner |-> owner, badge |-> "none", byAdmin |-> FALSE]

\* doomed, seen: the sessions and the reset links that a reset has met.  late: the
\* password has been replaced during this log-in.  seen, row, of a deletion: the row
\* listed as its account's, and the one listed as unclaimed.
NoReq == [pc |-> "idle", user |-> 0, tok |-> 0, pw |-> 0, row |-> 0, late |-> FALSE,
          doomed |-> {}, seen |-> 0]

Init ==
  /\ users = <<>> /\ sessions = {} /\ links = <<>> /\ resets = <<>>
  /\ row \in {Row(0, 0), Row(1, 0)}
  /\ req = [r \in Requests |-> NoReq]

Goto(r, phase) == req' = [req EXCEPT ![r].pc = phase]
Over(r)        == req' = [req EXCEPT ![r] = NoReq]
Begin(r, local) == req[r].pc = "idle" /\ req' = [req EXCEPT ![r] = local]

\* No transaction has updated the user's row and not committed yet.
Unheld(u) == \A r \in Requests : req[r].pc = "resetCommit" => req[r].user # u

-----------------------------------------------------------------------------
(* Sign-up, log-in, log-out                                                 *)

\* A link that has been issued; its e-mail may be lost.
Link(u) == [user |-> u, state |-> "live"]

\* The unique address refuses a second account.  Failing to issue the link is not
\* fatal.
RegisterAccount(r) ==
  /\ Live = {} /\ Len(users) < MaxUsers
  /\ users' = Append(users, [live |-> TRUE, verified |-> FALSE, proven |-> FALSE, pw |-> 1])
  /\ links' \in {links} \cup IF Len(links) < MaxLinks THEN {Append(links, Link(Len(users) + 1))} ELSE {}
  /\ Begin(r, [NoReq EXCEPT !.pc = "open", !.user = Len(users) + 1, !.pw = 1])
  /\ UNCHANGED <<sessions, resets, row>>

\* loginAccount: the password is compared with the hash that was read.
LoginRead(r) ==
  \E u \in Live :
    /\ Begin(r, [NoReq EXCEPT !.pc = "stamp", !.user = u, !.pw = users[u].pw])
    /\ UNCHANGED <<users, sessions, links, resets, row>>

\* lastLoginAt: an update of the user's row.
LoginStamp(r) ==
  /\ req[r].pc = "stamp" /\ Unheld(req[r].user)
  /\ IF req[r].user \in Live THEN Goto(r, "open") ELSE Over(r)
  /\ UNCHANGED <<users, sessions, links, resets, row>>

\* createAccountSession: the foreign key wants the user.
OpenSession(r) ==
  /\ req[r].pc = "open" /\ Over(r)
  /\ sessions' = sessions \cup (IF req[r].user \in Live
                                  THEN {[user |-> req[r].user, pw |-> req[r].pw, late |-> req[r].late]}
                                  ELSE {})
  /\ UNCHANGED <<users, links, resets, row>>

\* logoutAccount, or a session found to have expired.
EndSession(s) ==
  /\ sessions' = sessions \ {s}
  /\ UNCHANGED <<users, links, resets, row, req>>

ResendVerification(s) ==
  /\ ~users[s.user].verified /\ Len(links) < MaxLinks
  /\ links' = Append(links, Link(s.user))
  /\ UNCHANGED <<users, sessions, resets, row, req>>

-----------------------------------------------------------------------------
(* consumeEmailVerificationToken                                            *)

VerifyPhases == {"verifyClaim", "verify", "claim", "ensure", "badge", "issue"}

VerifyRead(r, t) ==
  /\ links[t].state = "live"
  /\ Begin(r, [NoReq EXCEPT !.pc = "verifyClaim", !.user = links[t].user, !.tok = t])
  /\ UNCHANGED <<users, sessions, links, resets, row>>

\* updateMany where usedAt is null, whatever has expired since.
VerifyClaim(r) ==
  /\ req[r].pc = "verifyClaim"
  /\ IF links[req[r].tok].state \in {"live", "expired"}
       THEN links' = [links EXCEPT ![req[r].tok].state = "justUsed"] /\ Goto(r, "verify")
       ELSE Over(r) /\ UNCHANGED links
  /\ UNCHANGED <<users, sessions, resets, row>>

Verify(r) ==
  LET u == req[r].user
  IN  /\ req[r].pc = "verify" /\ Unheld(u)
      /\ IF u \in Live THEN users' = [users EXCEPT ![u].verified = TRUE, ![u].proven = TRUE] /\ Goto(r, "claim")
         ELSE Over(r) /\ UNCHANGED users
      /\ UNCHANGED <<sessions, links, resets, row>>

\* The participants without an account are bound; the foreign key wants the user.
ClaimParticipant(r) ==
  LET u == req[r].user
  IN  /\ req[r].pc = "claim"
      /\ IF row.exists /\ row.owner = 0
           THEN IF u \in Live THEN row' = [row EXCEPT !.owner = u] /\ Goto(r, "ensure")
                ELSE Over(r) /\ UNCHANGED row
           ELSE Goto(r, "ensure") /\ UNCHANGED row
      /\ UNCHANGED <<users, sessions, links, resets>>

-----------------------------------------------------------------------------
(* ensureParticipantForAccount and ensureActiveBadge: after a verification, *)
(* a role's form, or a visit of the badge page                              *)

RegisterToEvent(r, s) ==
  /\ Begin(r, [NoReq EXCEPT !.pc = "ensure", !.user = s.user])
  /\ UNCHANGED <<users, sessions, links, resets, row>>

\* Mutant: a row of the same address is taken for the account's.
EnsureByEmail(r) ==
  LET u == req[r].user
  IN  /\ req[r].pc = "ensure"
      /\ \/ row.exists /\ row' = [row EXCEPT !.owner = u]
            /\ req' = [req EXCEPT ![r].pc = "badge", ![r].row = row.n]
         \/ ~row.exists /\ u \in Live /\ row.n < MaxRows
            /\ row' = Row(row.n + 1, u) /\ req' = [req EXCEPT ![r].pc = "badge", ![r].row = row.n + 1]
         \/ ~row.exists /\ u \notin Live /\ Over(r) /\ UNCHANGED row
      /\ UNCHANGED <<users, sessions, links, resets>>

\* The account's participant, or a new one; the row of somebody else is a conflict.
Ensure(r) ==
  LET u == req[r].user
  IN  /\ req[r].pc = "ensure"
      /\ \/ row.exists /\ row.owner = u /\ UNCHANGED row
            /\ req' = [req EXCEPT ![r].pc = "badge", ![r].row = row.n]
         \/ ~row.exists /\ u \in Live /\ row.n < MaxRows
            /\ row' = Row(row.n + 1, u) /\ req' = [req EXCEPT ![r].pc = "badge", ![r].row = row.n + 1]
         \/ (IF row.exists THEN row.owner # u ELSE u \notin Live) /\ Over(r) /\ UNCHANGED row
      /\ UNCHANGED <<users, sessions, links, resets>>

\* The participant read by its id.
Same(r) == row.exists /\ row.n = req[r].row

\* Mutant: an unverified account gets its badge.
BadgeCheckAny(r) ==
  /\ req[r].pc = "badge"
  /\ IF Same(r) /\ row.badge # "active" THEN Goto(r, "issue") ELSE Over(r)
  /\ UNCHANGED <<users, sessions, links, resets, row>>

BadgeCheck(r) ==
  /\ req[r].pc = "badge"
  /\ IF Same(r) /\ (row.owner # 0 => users[row.owner].verified) /\ row.badge # "active"
       THEN Goto(r, "issue") ELSE Over(r)
  /\ UNCHANGED <<users, sessions, links, resets, row>>

\* issueBadgeCredential (BadgeCredential): the first one only.
Issue(r) ==
  /\ req[r].pc = "issue" /\ Over(r)
  /\ row' = IF Same(r) /\ row.badge = "none" THEN [row EXCEPT !.badge = "active"] ELSE row
  /\ UNCHANGED <<users, sessions, links, resets>>

\* regenerateBadgeCredential, by an administrator who saw the badge as it is: whoever the
\* row belongs to, and whether there was a badge or not.
RegenerateBadge ==
  /\ row.exists
  /\ row' = [row EXCEPT !.badge = "active", !.byAdmin = @ \/ row.badge = "none"]
  /\ UNCHANGED <<users, sessions, links, resets, req>>

-----------------------------------------------------------------------------
\* The log-ins of u that have read the password which is being replaced.
Overtaken(locals, u) ==
  [r \in Requests |-> IF locals[r].pc \in {"stamp", "open"} /\ locals[r].user = u
                        THEN [locals[r] EXCEPT !.late = TRUE] ELSE locals[r]]

\* neutralizeUnexpectedSignup, one transaction: with the link whose verification has
\* just ended, and answered.
Neutralize(t) ==
  LET u == links[t].user
  IN  /\ links[t].state = "justUsed" /\ u \in Live /\ users[u].proven
      /\ Unheld(u) /\ users[u].pw < MaxPw
      /\ \A r \in Requests : req[r].pc \in VerifyPhases => req[r].tok # t
      /\ sessions' = {s \in sessions : s.user # u}
      /\ users' = [users EXCEPT ![u].pw = @ + 1, ![u].verified = FALSE]
      /\ links' = [l \in DOMAIN links |->
                     IF links[l].user = u /\ links[l].state \in {"live", "expired"}
                       THEN [links[l] EXCEPT !.state = "used"] ELSE links[l]]
      /\ row' = IF row.exists /\ row.owner = u
                  THEN [row EXCEPT !.owner = 0, !.badge = IF @ = "active" THEN "revoked" ELSE @]
                  ELSE row
      /\ req' = Overtaken(req, u)
      /\ UNCHANGED resets

-----------------------------------------------------------------------------
(* The password reset                                                       *)

\* stale: a password has been set since through another link.
RequestReset(u) ==
  /\ u \in Live /\ Len(resets) < MaxResets
  /\ resets' = Append(resets, [user |-> u, state |-> "live", stale |-> FALSE])
  /\ UNCHANGED <<users, sessions, links, row, req>>

\* The link is good, and claimed: what another transaction has claimed or cancelled
\* waits for its end.
ResetClaim(r, t) ==
  /\ resets[t].state = "live"
  /\ \A q \in Requests : /\ (req[q].pc \in {"reset", "resetCommit"} => req[q].tok # t)
                          /\ ((req[q].pc = "resetCommit" /\ req[q].user = resets[t].user) => t > req[q].seen)
  /\ Begin(r, [NoReq EXCEPT !.pc = "reset", !.user = resets[t].user, !.tok = t])
  /\ UNCHANGED <<users, sessions, links, resets, row>>

\* The password, the sessions and the other links of this moment.  Two that have
\* claimed a link each wait for one another, until the database aborts one (Fail).
ResetWork(r) ==
  LET u == req[r].user
  IN  /\ req[r].pc = "reset" /\ Unheld(u)
      /\ IF u \in Live
           THEN /\ users[u].pw < MaxPw
                /\ \A q \in Requests \ {r} : req[q].pc = "reset" => req[q].user # u
                /\ req' = [Overtaken(req, u) EXCEPT
                             ![r] = [@ EXCEPT !.pc = "resetCommit", !.seen = Len(resets),
                                              !.doomed = {s \in sessions : s.user = u}]]
           ELSE Over(r)
      /\ UNCHANGED <<users, sessions, links, resets, row>>

\* The links that user u had been sent when the password was changed.
Outstanding(u, n) == {l \in 1..n : resets[l].user = u}

\* Mutant: the other links are left as they are.
BurnOne(u, n, t) ==
  [l \in DOMAIN resets |-> IF l \in Outstanding(u, n)
                             THEN [resets[l] EXCEPT !.stale = TRUE, !.state = IF l = t THEN "used" ELSE @]
                             ELSE resets[l]]

Burn(u, n, t) ==
  [l \in DOMAIN resets |-> IF l \in Outstanding(u, n)
                             THEN [resets[l] EXCEPT !.stale = TRUE, !.state = "used"] ELSE resets[l]]

\* Mutant: the sessions are kept.
NoneDoomed(r) == {}

Doomed(r) == req[r].doomed

ResetCommit(r) ==
  LET u == req[r].user
  IN  /\ req[r].pc = "resetCommit"
      /\ users' = [users EXCEPT ![u].pw = @ + 1]
      /\ sessions' = sessions \ Doomed(r)
      /\ resets' = Burn(u, req[r].seen, req[r].tok)
      /\ req' = [Overtaken(req, u) EXCEPT ![r] = NoReq]
      /\ UNCHANGED <<links, row>>

-----------------------------------------------------------------------------
(* The deletion of the account                                              *)

\* deleteMyAccount: a session, and the password once more.
DeleteStart(r, s) ==
  /\ Begin(r, [NoReq EXCEPT !.pc = "find", !.user = s.user])
  /\ UNCHANGED <<users, sessions, links, resets, row>>

\* Mutant: an address that nobody has proven counts as the account's.
ListingsAny(u) == "own+"

\* What there is to list: the participants the account owns and, if its address is
\* verified, then the unclaimed ones of that address.
Listings(u) == IF users[u].verified THEN "own+" ELSE "own"

\* deleteAccountData reads the account, then the one and the other listing: a transaction
\* that takes no snapshot.
DeleteFind(r) ==
  LET u == req[r].user
  IN  /\ req[r].pc = "find"
      /\ IF u \in Live THEN Goto(r, Listings(u)) ELSE Over(r)
      /\ UNCHANGED <<users, sessions, links, resets, row>>

DeleteOwn(r) ==
  LET own == row.exists /\ row.owner = req[r].user
  IN  /\ req[r].pc \in {"own", "own+"}
      /\ req' = [req EXCEPT ![r].pc = IF @ = "own" THEN "delete" ELSE "unclaimed",
                             ![r].seen = IF own THEN row.n ELSE 0]
      /\ UNCHANGED <<users, sessions, links, resets, row>>

DeleteUnclaimed(r) ==
  LET unclaimed == row.exists /\ row.owner = 0
  IN  /\ req[r].pc = "unclaimed"
      /\ req' = [req EXCEPT ![r].pc = "delete", ![r].row = IF unclaimed THEN row.n ELSE 0]
      /\ UNCHANGED <<users, sessions, links, resets, row>>

Gone(tokens, u) ==
  [t \in DOMAIN tokens |-> IF tokens[t].user = u THEN [tokens[t] EXCEPT !.state = "gone"] ELSE tokens[t]]

Found(r) == row.exists /\ row.n \in {req[r].seen, req[r].row}

\* The participants that were found, and the user with its sessions and links; the
\* foreign key of a participant that was not found becomes null.
DeleteCommit(r) ==
  LET u == req[r].user
  IN  /\ req[r].pc = "delete" /\ Unheld(u) /\ Over(r)
      /\ IF u \in Live
           THEN /\ row' = IF Found(r) THEN [Row(row.n, 0) EXCEPT !.exists = FALSE]
                          ELSE IF row.exists /\ row.owner = u THEN [row EXCEPT !.owner = 0] ELSE row
                /\ users' = [users EXCEPT ![u].live = FALSE, ![u].verified = FALSE]
                /\ sessions' = {s \in sessions : s.user # u}
                /\ links' = Gone(links, u) /\ resets' = Gone(resets, u)
           ELSE UNCHANGED <<users, sessions, links, resets, row>>

\* deleteRegistrant, by an administrator.
DeleteRegistrant ==
  /\ row.exists
  /\ row' = [Row(row.n, 0) EXCEPT !.exists = FALSE]
  /\ UNCHANGED <<users, sessions, links, resets, req>>

-----------------------------------------------------------------------------
\* A statement fails or the process dies: what was committed stays, a transaction is
\* rolled back.
Fail(r) ==
  /\ req[r].pc # "idle" /\ Over(r)
  /\ UNCHANGED <<users, sessions, links, resets, row>>

\* 24 hours and 1 hour.  The 5 minutes in which a verification can be reported are not
\* timed: Neutralize is taken at any time after it, or never.
LinkAges(t) ==
  /\ links[t].state = "live"
  /\ links' = [links EXCEPT ![t].state = "expired"]
  /\ UNCHANGED <<users, sessions, resets, row, req>>

ResetAges(t) ==
  /\ resets[t].state = "live"
  /\ resets' = [resets EXCEPT ![t].state = "expired"]
  /\ UNCHANGED <<users, sessions, links, row, req>>

Next ==
  \/ \E r \in Requests :
       \/ RegisterAccount(r) \/ LoginRead(r) \/ LoginStamp(r) \/ OpenSession(r)
       \/ VerifyClaim(r) \/ Verify(r) \/ ClaimParticipant(r) \/ Ensure(r) \/ BadgeCheck(r) \/ Issue(r)
       \/ ResetWork(r) \/ ResetCommit(r) \/ Fail(r)
       \/ DeleteFind(r) \/ DeleteOwn(r) \/ DeleteUnclaimed(r) \/ DeleteCommit(r)
       \/ \E t \in DOMAIN links : VerifyRead(r, t)
       \/ \E t \in DOMAIN resets : ResetClaim(r, t)
       \/ \E s \in sessions : RegisterToEvent(r, s) \/ DeleteStart(r, s)
  \/ \E s \in sessions : EndSession(s) \/ ResendVerification(s)
  \/ \E t \in DOMAIN links : Neutralize(t) \/ LinkAges(t)
  \/ \E t \in DOMAIN resets : ResetAges(t)
  \/ \E u \in Live : RequestReset(u)
  \/ DeleteRegistrant \/ RegenerateBadge

Spec == Init /\ [][Next]_vars

-----------------------------------------------------------------------------
(* Properties                                                               *)

Phases == VerifyPhases \cup {"idle", "stamp", "open", "reset", "resetCommit",
                             "find", "own", "own+", "unclaimed", "delete"}

Ids == 0..MaxUsers

\* Rows and locals have the values of the schema and the code; one account of the address
\* is alive at most, and sessions, links and the registration are of an account that is.
TypeOK ==
  /\ users \in Seq([live : BOOLEAN, verified : BOOLEAN, proven : BOOLEAN, pw : 1..MaxPw])
  /\ Len(users) <= MaxUsers /\ Cardinality(Live) <= 1
  /\ sessions \subseteq [user : Live, pw : 1..MaxPw, late : BOOLEAN]
  /\ links \in Seq([user : Ids, state : {"live", "expired", "justUsed", "used", "gone"}])
  /\ resets \in Seq([user : Ids, state : {"live", "expired", "used", "gone"}, stale : BOOLEAN])
  /\ \A t \in DOMAIN links : links[t].state # "gone" => links[t].user \in Live
  /\ row \in [n : 0..MaxRows, exists : BOOLEAN, owner : Live \cup {0},
              badge : {"none", "active", "revoked"}, byAdmin : BOOLEAN]
  /\ \A r \in Requests : req[r].pc \in Phases /\ req[r].user \in Ids /\ req[r].late \in BOOLEAN

\* "Kill every session for this user": a session is of the current password, unless
\* its log-in had compared the former one when it was replaced.
SessionsCurrent == \A s \in sessions : s.pw = users[s.user].pw \/ s.late

\* "Single-use is enforced atomically", and "a leaked older link cannot be redeemed after
\* this reset": a verification link and a reset link have one request that acts on them,
\* and no password is set by a reset link that was there when one was set by another.
LinksActOnce ==
  /\ \A q, r \in Requests :
       q # r => \/ req[q].tok # req[r].tok \/ req[q].tok = 0
                \/ ~({req[q].pc, req[r].pc} \subseteq VerifyPhases \ {"verifyClaim"}
                      \/ {req[q].pc, req[r].pc} \subseteq {"reset", "resetCommit"})
  /\ \A r \in Requests : req[r].pc = "resetCommit" => ~resets[req[r].tok].stale

\* "The QR is issued only AFTER the account's email is verified", whichever of the
\* account's requests issues it: an account with a badge has proven its address, or was
\* given its first badge by an administrator, who is not asked whether it has.
BadgeNeedsProof ==
  row.badge # "none" /\ row.owner # 0 => users[row.owner].proven \/ row.byAdmin

\* "Never matches on email alone": a registration without an account is bound only to
\* one whose address has been proven.
ClaimNeedsProof ==
  [][(row.exists /\ row.owner = 0 /\ row'.exists /\ row'.owner # 0) => users[row'.owner].proven]_vars

\* The deletion erases the registration of its account, or the unclaimed one of an
\* address that was proven; it leaves one that is bound to the account only if that was
\* claimed or made after the deletion had listed the account's own.
ErasesItsOwn ==
  [][\A u \in DOMAIN users : users[u].live /\ ~users'[u].live =>
       /\ ((row.exists /\ ~row'.exists) => (row.owner = u \/ users[u].proven))
       /\ ((row.owner = u /\ row'.exists) =>
             \E r \in Requests : req[r].pc = "delete" /\ req[r].user = u /\ req[r].seen # row.n)]_vars
=============================================================================
