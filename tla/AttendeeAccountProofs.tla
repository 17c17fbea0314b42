------------------------- MODULE AttendeeAccountProofs -------------------------
(***************************************************************************)
(* Machine-checked facts about AttendeeAccount, for any number of          *)
(* requests, accounts, links, registrations and passwords.                 *)
(***************************************************************************)
EXTENDS AttendeeAccount, FiniteSetTheorems, SequenceTheorems, TLAPS

-----------------------------------------------------------------------------
(* The inductive invariant                                                  *)

Users  == [live : BOOLEAN, verified : BOOLEAN, proven : BOOLEAN, pw : 1..MaxPw]
Links  == [user : Ids, state : {"live", "expired", "justUsed", "used", "gone"}]
Resets == [user : Ids, state : {"live", "expired", "used", "gone"}, stale : BOOLEAN]
Opened == [user : Ids, pw : Nat, late : BOOLEAN]
Locals == [pc : Phases, user : Ids, tok : Nat, pw : Nat, row : Nat, late : BOOLEAN,
           doomed : SUBSET Opened, seen : Nat]

\* What TypeOK says, and what it takes for granted of the locals: a request is about an
\* account that has been opened.
Shape ==
  /\ users \in Seq(Users) /\ Len(users) <= MaxUsers
  /\ \A u, v \in Live : u = v
  /\ sessions \subseteq [user : Live, pw : 1..MaxPw, late : BOOLEAN]
  /\ links \in Seq(Links) /\ resets \in Seq(Resets)
  /\ \A t \in DOMAIN links : links[t].state # "gone" => links[t].user \in Live
  /\ \A t \in DOMAIN resets : resets[t].user <= Len(users)
  /\ row \in [n : 0..MaxRows, exists : BOOLEAN, owner : Live \cup {0},
              badge : {"none", "active", "revoked"}, byAdmin : BOOLEAN]
  /\ req \in [Requests -> Locals]
  /\ \A r \in Requests : req[r].user <= Len(users)

\* A log-in knows the current password of its account or has been overtaken.
LoginOK(r) ==
  req[r].pc \in {"stamp", "open"} =>
    /\ req[r].pw \in 1..MaxPw
    /\ req[r].user \in Live => req[r].pw = users[req[r].user].pw \/ req[r].late

\* While a reset waits to commit, its user is its own: what it has not met cannot become
\* a session of the password it replaces.
HeldOK(q) ==
  req[q].pc = "resetCommit" =>
    /\ req[q].user \in Live /\ users[req[q].user].pw < MaxPw
    /\ \A s \in sessions : s.user = req[q].user => s.late \/ s \in req[q].doomed
    /\ \A r \in Requests : req[r].user = req[q].user =>
         /\ req[r].pc = "open" => req[r].late
         /\ req[r].pc = "resetCommit" => r = q

SessionsInv ==
  /\ SessionsCurrent
  /\ \A r \in Requests : LoginOK(r) /\ HeldOK(r)

\* A verification that goes on has used its link up.
Acting == VerifyPhases \ {"verifyClaim"}

LinkOK(r) ==
  /\ req[r].pc = "verifyClaim" => req[r].tok \in DOMAIN links
  /\ req[r].pc \in Acting /\ req[r].tok # 0 =>
       req[r].tok \in DOMAIN links /\ links[req[r].tok].state \notin {"live", "expired"}

LinksInv ==
  /\ \A r \in Requests : LinkOK(r)
  /\ \A q, r \in Requests : q # r /\ {req[q].pc, req[r].pc} \subseteq Acting =>
       req[q].tok # req[r].tok \/ req[q].tok = 0

\* A reset under way has a link that no other request has, and that no other reset has
\* made stale: what one that waits to commit will burn was there before.
ResetOK(r) ==
  req[r].pc \in {"reset", "resetCommit"} =>
    /\ req[r].tok \in DOMAIN resets /\ resets[req[r].tok].user = req[r].user
    /\ ~resets[req[r].tok].stale
    /\ \A q \in Requests \ {r} :
         /\ req[q].pc \in {"reset", "resetCommit"} => req[q].tok # req[r].tok
         /\ req[r].pc = "reset" /\ req[q].pc = "resetCommit" /\ req[q].user = req[r].user
              => req[r].tok > req[q].seen

ResetsInv ==
  /\ \A t \in DOMAIN resets : resets[t].stale => resets[t].state # "live"
  /\ \A r \in Requests : ResetOK(r)

\* The registration, and what the requests that will write to it have found.
Proven(u) == users[u].proven

RowOK(r) ==
  /\ req[r].row <= row.n
  /\ req[r].pc = "claim" /\ req[r].user \in Live => Proven(req[r].user)
  /\ req[r].pc = "issue" /\ Same(r) /\ row.owner # 0 => Proven(row.owner)

\* A deletion lists the unclaimed registrations of a proven address only.
Listed == {"unclaimed", "delete"}

ListingOK(r) ==
  /\ req[r].pc \in {"find", "own", "own+", "unclaimed"} => req[r].row = 0
  /\ req[r].pc \in {"own+", "unclaimed"} /\ req[r].user \in Live => Proven(req[r].user)
  /\ req[r].pc \in Listed => req[r].seen <= row.n
  /\ req[r].pc \in Listed /\ req[r].user \in Live /\ row.exists =>
       /\ req[r].seen = row.n => row.owner = req[r].user \/ Proven(req[r].user)
       /\ req[r].row = row.n => Proven(req[r].user)

RowInv ==
  /\ row.exists => row.n # 0
  /\ ~row.exists => row.owner = 0
  /\ \A u \in DOMAIN users : users[u].verified => users[u].proven
  /\ BadgeNeedsProof
  /\ \A r \in Requests : RowOK(r) /\ ListingOK(r)

\* Where a request waits that has found something about the registration.
Writing == {"claim", "issue", "find", "own", "own+", "unclaimed", "delete"}

IInv == Shape /\ SessionsInv /\ LinksInv /\ ResetsInv /\ RowInv

-----------------------------------------------------------------------------
(* Sequences and locals                                                     *)

\* A sequence that is rewritten in place.
LEMMA SameLength ==
  ASSUME NEW S, NEW s \in Seq(S), NEW T, NEW f \in [DOMAIN s -> T]
  PROVE  f \in Seq(T) /\ Len(f) = Len(s) /\ DOMAIN f = DOMAIN s
<1>1. Len(s) \in Nat /\ DOMAIN s = 1..Len(s)
  BY LenProperties
<1>2. f \in [1..Len(s) -> T]
  BY <1>1
<1>3. f \in Seq(T)
  BY <1>1, <1>2, SeqDef
<1>4. Len(f) \in Nat /\ DOMAIN f = 1..Len(f) /\ DOMAIN f = 1..Len(s)
  BY <1>2, <1>3, LenProperties
<1> QED
  BY <1>1, <1>3, <1>4

\* A sequence that is appended to.
LEMMA Longer ==
  ASSUME NEW S, NEW s \in Seq(S), NEW e \in S
  PROVE  /\ Append(s, e) \in Seq(S) /\ Len(Append(s, e)) = Len(s) + 1
         /\ Append(s, e)[Len(s) + 1] = e
         /\ DOMAIN Append(s, e) = 1..(Len(s) + 1) /\ DOMAIN s = 1..Len(s) /\ Len(s) \in Nat
         /\ \A i \in DOMAIN s : i \in DOMAIN Append(s, e) /\ Append(s, e)[i] = s[i]
<1>1. /\ Append(s, e) \in Seq(S) /\ Len(Append(s, e)) = Len(s) + 1
      /\ Append(s, e)[Len(s) + 1] = e
      /\ \A i \in 1..Len(s) : Append(s, e)[i] = s[i]
  BY AppendProperties
<1>2. DOMAIN s = 1..Len(s) /\ Len(s) \in Nat /\ DOMAIN Append(s, e) = 1..Len(Append(s, e))
  BY <1>1, LenProperties
<1> QED
  BY <1>1, <1>2

LEMMA Typing ==
  ASSUME Shape
  PROVE  /\ users \in [DOMAIN users -> Users] /\ DOMAIN users = 1..Len(users)
         /\ links \in [DOMAIN links -> Links] /\ DOMAIN links = 1..Len(links)
         /\ resets \in [DOMAIN resets -> Resets] /\ DOMAIN resets = 1..Len(resets)
         /\ Len(users) \in Nat /\ Len(links) \in Nat /\ Len(resets) \in Nat
         /\ Live \subseteq DOMAIN users /\ DOMAIN users \subseteq Ids \ {0} /\ 0 \in Ids
         /\ MaxUsers \in Nat /\ MaxPw \in Nat /\ 1 \in 1..MaxPw
<1>1. users \in Seq(Users) /\ links \in Seq(Links) /\ resets \in Seq(Resets)
      /\ Len(users) <= MaxUsers
  BY DEF Shape
<1>2. /\ users \in [1..Len(users) -> Users] /\ DOMAIN users = 1..Len(users)
      /\ links \in [1..Len(links) -> Links] /\ DOMAIN links = 1..Len(links)
      /\ resets \in [1..Len(resets) -> Resets] /\ DOMAIN resets = 1..Len(resets)
      /\ Len(users) \in Nat /\ Len(links) \in Nat /\ Len(resets) \in Nat
  BY <1>1, LenProperties
<1> QED
  BY <1>1, <1>2, AccountAssumption DEF Live, Ids

LEMMA Nobody ==
  /\ NoReq \in Locals /\ NoReq.pc = "idle" /\ NoReq.user = 0 /\ NoReq.tok = 0
  /\ NoReq.row = 0
BY AccountAssumption DEF NoReq, Locals, Phases, VerifyPhases, Ids, Opened

\* One request goes on, the others stand.
LEMMA Moves ==
  ASSUME Shape, NEW r \in Requests, NEW n \in Locals, req' = [req EXCEPT ![r] = n]
  PROVE  /\ req' \in [Requests -> Locals] /\ req'[r] = n
         /\ \A q \in Requests \ {r} : req'[q] = req[q]
BY DEF Shape

LEMMA OverEffect ==
  ASSUME Shape, NEW r \in Requests, Over(r)
  PROVE  /\ req' \in [Requests -> Locals] /\ req'[r] = NoReq
         /\ \A q \in Requests \ {r} : req'[q] = req[q]
BY Nobody, Moves DEF Over

LEMMA GotoEffect ==
  ASSUME Shape, NEW r \in Requests, NEW phase \in Phases, Goto(r, phase)
  PROVE  /\ req' \in [Requests -> Locals]
         /\ req'[r].pc = phase /\ req'[r].user = req[r].user /\ req'[r].tok = req[r].tok
         /\ req'[r].pw = req[r].pw /\ req'[r].row = req[r].row /\ req'[r].late = req[r].late
         /\ \A q \in Requests \ {r} : req'[q] = req[q]
<1> DEFINE n == [req[r] EXCEPT !.pc = phase]
<1>1. req[r] \in Locals
  BY DEF Shape
<1>2. /\ n \in Locals /\ n.pc = phase /\ n.user = req[r].user /\ n.tok = req[r].tok
      /\ n.pw = req[r].pw /\ n.row = req[r].row /\ n.late = req[r].late
  BY <1>1 DEF Locals
<1>3. req' = [req EXCEPT ![r] = n]
  BY DEF Goto
<1> HIDE DEF n
<1> QED
  BY <1>2, <1>3, Moves

\* A log-in that is overtaken stays where it is.
LEMMA OvertakenEffect ==
  ASSUME NEW u, NEW l \in [Requests -> Locals]
  PROVE  /\ Overtaken(l, u) \in [Requests -> Locals]
         /\ \A r \in Requests :
              /\ Overtaken(l, u)[r] = l[r] \/ l[r].pc \in {"stamp", "open"}
              /\ Overtaken(l, u)[r].pc = l[r].pc /\ Overtaken(l, u)[r].user = l[r].user
              /\ Overtaken(l, u)[r].pw = l[r].pw /\ Overtaken(l, u)[r].row = l[r].row
              /\ l[r].late => Overtaken(l, u)[r].late
              /\ l[r].pc \in {"stamp", "open"} /\ l[r].user = u => Overtaken(l, u)[r].late
<1> SUFFICES ASSUME NEW r \in Requests
    PROVE  /\ Overtaken(l, u)[r] \in Locals
           /\ Overtaken(l, u)[r] = l[r] \/ l[r].pc \in {"stamp", "open"}
           /\ Overtaken(l, u)[r].pc = l[r].pc /\ Overtaken(l, u)[r].user = l[r].user
           /\ Overtaken(l, u)[r].pw = l[r].pw /\ Overtaken(l, u)[r].row = l[r].row
           /\ l[r].late => Overtaken(l, u)[r].late
           /\ l[r].pc \in {"stamp", "open"} /\ l[r].user = u => Overtaken(l, u)[r].late
  BY DEF Overtaken
<1> DEFINE n == [l[r] EXCEPT !.late = TRUE]
<1>1. l[r] \in Locals
  OBVIOUS
<1>2. /\ n \in Locals /\ n.pc = l[r].pc /\ n.user = l[r].user /\ n.pw = l[r].pw
      /\ n.row = l[r].row /\ n.late
  BY <1>1 DEF Locals
<1>3. Overtaken(l, u)[r] = IF l[r].pc \in {"stamp", "open"} /\ l[r].user = u THEN n ELSE l[r]
  BY DEF Overtaken
<1> HIDE DEF n
<1> QED
  BY <1>1, <1>2, <1>3

-----------------------------------------------------------------------------
(* What the parts of the invariant do not notice                            *)

\* Accounts are opened and die, and what has been proven once stays proven.
UsersAge ==
  /\ Len(users) <= Len(users')
  /\ \A u \in DOMAIN users :
       /\ u \in DOMAIN users'
       /\ users'[u].live => users[u].live
       /\ users[u].proven => users'[u].proven

LEMMA UsersStand ==
  ASSUME Shape, UNCHANGED users
  PROVE  UsersAge /\ Live' = Live /\ DOMAIN users' = DOMAIN users /\ Len(users') = Len(users)
BY Typing DEF UsersAge, Live

LEMMA SessionsKept ==
  ASSUME Shape, Shape', SessionsInv, sessions' \subseteq sessions,
         \A u \in Live' : u \in Live /\ users'[u].pw = users[u].pw,
         \A r \in Requests :
           \/ req'[r] = req[r]
           \/ req'[r].pc \notin {"stamp", "open", "resetCommit"},
         \A r \in Requests : req'[r].pc = "resetCommit" => req'[r].user \in Live'
  PROVE  SessionsInv'
<1>1. SessionsCurrent'
  BY DEF SessionsInv, SessionsCurrent, Shape
<1>2. ASSUME NEW r \in Requests PROVE LoginOK(r)'
  BY DEF SessionsInv, LoginOK
<1>3. ASSUME NEW r \in Requests PROVE HeldOK(r)'
  BY DEF SessionsInv, HeldOK
<1> QED
  BY <1>1, <1>2, <1>3 DEF SessionsInv

LEMMA LinksKept ==
  ASSUME LinksInv, DOMAIN links \subseteq DOMAIN links',
         \A t \in DOMAIN links : links[t].state \notin {"live", "expired"} =>
           links'[t].state \notin {"live", "expired"},
         \A r \in Requests :
           \/ req'[r] = req[r]
           \/ req'[r].pc \notin VerifyPhases
           \/ req'[r].pc \in Acting /\ req'[r].tok = 0
           \/ {req[r].pc, req'[r].pc} \subseteq Acting /\ req'[r].tok = req[r].tok
  PROVE  LinksInv'
<1>1. ASSUME NEW r \in Requests PROVE LinkOK(r)'
  BY DEF LinksInv, LinkOK, Acting, VerifyPhases
<1>2. ASSUME NEW q \in Requests, NEW r \in Requests, q # r, {req'[q].pc, req'[r].pc} \subseteq Acting
      PROVE  req'[q].tok # req'[r].tok \/ req'[q].tok = 0
  BY <1>2 DEF LinksInv, Acting
<1> QED
  BY <1>1, <1>2 DEF LinksInv

LEMMA ResetsKept ==
  ASSUME ResetsInv, DOMAIN resets \subseteq DOMAIN resets',
         \A t \in DOMAIN resets :
           /\ resets'[t].user = resets[t].user /\ resets'[t].stale = resets[t].stale
           /\ resets[t].state # "live" => resets'[t].state # "live",
         \A t \in DOMAIN resets' : t \in DOMAIN resets \/ ~resets'[t].stale,
         \A r \in Requests : req'[r] = req[r] \/ req'[r].pc \notin {"reset", "resetCommit"}
  PROVE  ResetsInv'
<1>1. ASSUME NEW r \in Requests PROVE ResetOK(r)'
  BY DEF ResetsInv, ResetOK
<1> QED
  BY <1>1 DEF ResetsInv

LEMMA RowKept ==
  ASSUME Shape, Shape', RowInv, UNCHANGED row, UsersAge,
         \A u \in DOMAIN users' : users'[u].verified => users'[u].proven,
         \A r \in Requests :
           \/ req'[r] = req[r]
           \/ req'[r].row \in {0, req[r].row} /\ req'[r].pc \notin Writing
           \/ req'[r].row = 0 /\ req'[r].pc = "find"
  PROVE  RowInv'
<1>0. /\ \A r \in Requests : req[r].user \in Live' => req[r].user \in Live
      /\ row.owner # 0 => row.owner \in DOMAIN users
      /\ row.n \in Nat
  <2>1. \A r \in Requests : req[r].user \in Live' => req[r].user \in DOMAIN users
    <3>1. \A u \in Live' : u \in DOMAIN users' /\ u \in Nat \ {0} /\ users'[u].live
      BY Typing DEF Live, Shape, Locals, Ids
    <3> QED
      BY <3>1, Typing DEF Shape
  <2>2. row.owner \in Live \cup {0} /\ row.n \in Nat
    BY AccountAssumption DEF Shape
  <2> QED
    BY <2>1, <2>2 DEF UsersAge, Live
<1>1. BadgeNeedsProof'
  BY <1>0 DEF RowInv, BadgeNeedsProof, UsersAge
<1>2. ASSUME NEW r \in Requests PROVE RowOK(r)' /\ ListingOK(r)'
  <2>1. CASE req'[r] = req[r]
    <3>1. req[r].user \in Live' /\ Proven(req[r].user) => users'[req[r].user].proven
      BY <1>0 DEF Proven, UsersAge, Live
    <3>2. row.owner # 0 /\ Proven(row.owner) => users'[row.owner].proven
      BY <1>0 DEF Proven, UsersAge
    <3>3. Same(r)' = Same(r)
      BY <2>1 DEF Same
    <3>4. RowOK(r)'
      BY <1>0, <2>1, <3>1, <3>2, <3>3 DEF RowInv, RowOK, Proven
    <3> QED
      BY <1>0, <2>1, <3>1, <3>4 DEF RowInv, ListingOK, Proven
  <2>2. CASE req'[r].row \in {0, req[r].row} /\ req'[r].pc \notin Writing
    BY <1>0, <2>2 DEF RowInv, RowOK, ListingOK, Listed, Writing
  <2>3. CASE req'[r].row = 0 /\ req'[r].pc = "find"
    BY <1>0, <2>3 DEF RowOK, ListingOK, Listed
  <2> QED
    BY <2>1, <2>2, <2>3
<1> QED
  BY <1>1, <1>2 DEF RowInv

\* The steps that only a request's locals know of.
LEMMA ShapeKept ==
  ASSUME Shape, UNCHANGED <<users, sessions, links, resets, row>>,
         req' \in [Requests -> Locals],
         \A r \in Requests : req'[r].user <= Len(users)
  PROVE  Shape'
<1>1. Live' = Live /\ Len(users') = Len(users)
  BY UsersStand
<1> QED
  BY <1>1 DEF Shape

LEMMA ProvenStands ==
  ASSUME Shape, RowInv, UNCHANGED users
  PROVE  UsersAge /\ \A u \in DOMAIN users' : users'[u].verified => users'[u].proven
BY UsersStand DEF RowInv

\* A request whose step is about none of the parts.
LEMMA QuietStep ==
  ASSUME IInv, UNCHANGED <<users, sessions, links, resets, row>>, NEW r \in Requests,
         req' \in [Requests -> Locals], \A q \in Requests \ {r} : req'[q] = req[q],
         req'[r].user <= Len(users),
         req'[r].pc \notin {"stamp", "open", "resetCommit", "reset"},
         \/ req'[r].pc \notin VerifyPhases
         \/ req'[r].pc \in Acting /\ req'[r].tok = 0
         \/ {req[r].pc, req'[r].pc} \subseteq Acting /\ req'[r].tok = req[r].tok,
         \/ req'[r].row \in {0, req[r].row} /\ req'[r].pc \notin Writing
         \/ req'[r].row = 0 /\ req'[r].pc = "find"
  PROVE  IInv'
<1>1. Shape'
  BY ShapeKept DEF IInv, Shape
<1>2. Live' = Live
  BY UsersStand DEF IInv
<1>3. SessionsInv'
  BY <1>1, <1>2, SessionsKept DEF IInv, SessionsInv, HeldOK
<1>4. LinksInv'
  BY LinksKept DEF IInv
<1>5. ResetsInv'
  BY ResetsKept DEF IInv
<1>6. RowInv'
  BY <1>1, ProvenStands, RowKept DEF IInv
<1> QED
  BY <1>1, <1>3, <1>4, <1>5, <1>6 DEF IInv

LEMMA FailStep == ASSUME IInv, NEW r \in Requests, Fail(r) PROVE IInv'
<1>1. /\ UNCHANGED <<users, sessions, links, resets, row>>
      /\ req' \in [Requests -> Locals] /\ req'[r] = NoReq
      /\ \A q \in Requests \ {r} : req'[q] = req[q]
  BY OverEffect DEF IInv, Fail
<1>2. NoReq.user <= Len(users)
  BY Nobody, Typing DEF IInv
<1> QED
  BY <1>1, <1>2, Nobody, QuietStep DEF VerifyPhases, Writing

\* A request begins.
LEMMA BeginEffect ==
  ASSUME Shape, NEW r \in Requests, NEW n \in Locals, Begin(r, n)
  PROVE  /\ req' \in [Requests -> Locals] /\ req'[r] = n /\ req[r].pc = "idle"
         /\ \A q \in Requests \ {r} : req'[q] = req[q]
BY Moves DEF Begin

\* A visit of the event's form or of the deletion's.
LEMMA VisitStep ==
  ASSUME IInv, NEW r \in Requests, NEW s \in sessions, RegisterToEvent(r, s) \/ DeleteStart(r, s)
  PROVE  IInv'
<1>1. PICK phase \in {"ensure", "find"} : Begin(r, [NoReq EXCEPT !.pc = phase, !.user = s.user])
  BY DEF RegisterToEvent, DeleteStart
<1>2. UNCHANGED <<users, sessions, links, resets, row>>
  BY DEF RegisterToEvent, DeleteStart
<1>3. s.user \in Ids /\ s.user <= Len(users)
  BY Typing DEF IInv, Shape
<1> DEFINE n == [NoReq EXCEPT !.pc = phase, !.user = s.user]
<1>4. n \in Locals /\ n.pc = phase /\ n.user = s.user /\ n.tok = 0 /\ n.row = 0
  BY <1>3, Nobody DEF Locals, Phases, VerifyPhases
<1>5. Begin(r, n)
  BY <1>1
<1> HIDE DEF n
<1>6. /\ req' \in [Requests -> Locals] /\ req'[r] = n
      /\ \A q \in Requests \ {r} : req'[q] = req[q]
  BY <1>4, <1>5, BeginEffect DEF IInv
<1> QED
  BY <1>2, <1>3, <1>4, <1>6, QuietStep DEF VerifyPhases, Acting, Writing

LEMMA LoginReadStep == ASSUME IInv, NEW r \in Requests, LoginRead(r) PROVE IInv'
<1>0. UNCHANGED <<users, sessions, links, resets, row>>
  BY DEF LoginRead
<1>1. PICK u \in Live : Begin(r, [NoReq EXCEPT !.pc = "stamp", !.user = u, !.pw = users[u].pw])
  BY DEF LoginRead
<1>2. /\ u \in Ids /\ u <= Len(users) /\ users[u].pw \in 1..MaxPw /\ users[u].pw \in Nat
      /\ u \in DOMAIN users
  <2>1. u \in DOMAIN users /\ users[u] \in Users
    BY Typing DEF IInv
  <2> QED
    BY <2>1, Typing DEF IInv, Users
<1> DEFINE n == [NoReq EXCEPT !.pc = "stamp", !.user = u, !.pw = users[u].pw]
<1>3. n \in Locals /\ n.pc = "stamp" /\ n.user = u /\ n.tok = 0 /\ n.row = 0 /\ n.pw = users[u].pw
  BY <1>2, Nobody DEF Locals, Phases
<1>4. Begin(r, n)
  BY <1>1
<1> HIDE DEF n
<1>5. /\ req' \in [Requests -> Locals] /\ req'[r] = n
      /\ \A q \in Requests \ {r} : req'[q] = req[q]
  BY <1>3, <1>4, BeginEffect DEF IInv
<1>6. Shape' /\ Live' = Live
  BY <1>0, <1>2, <1>3, <1>5, ShapeKept, UsersStand DEF IInv, Shape
<1>7. SessionsInv'
  <2>1. SessionsCurrent'
    BY <1>0 DEF IInv, SessionsInv, SessionsCurrent
  <2>2. \A q \in Requests : LoginOK(q)'
    BY <1>0, <1>2, <1>3, <1>5, <1>6 DEF IInv, SessionsInv, LoginOK
  <2>3. \A q \in Requests : HeldOK(q)'
    BY <1>0, <1>3, <1>5, <1>6 DEF IInv, SessionsInv, HeldOK
  <2> QED
    BY <2>1, <2>2, <2>3 DEF SessionsInv
<1>8. LinksInv' /\ ResetsInv'
  BY <1>0, <1>3, <1>5, LinksKept, ResetsKept DEF IInv, VerifyPhases
<1>9. RowInv'
  BY <1>0, <1>3, <1>5, <1>6, ProvenStands, RowKept DEF IInv, Writing
<1> QED
  BY <1>6, <1>7, <1>8, <1>9 DEF IInv

\* The stamp waits for a reset of the user to end: a log-in goes on to its session only
\* with the password that it commits, or late.
LEMMA LoginStampStep == ASSUME IInv, NEW r \in Requests, LoginStamp(r) PROVE IInv'
<1>0. /\ UNCHANGED <<users, sessions, links, resets, row>>
      /\ req[r].pc = "stamp" /\ Unheld(req[r].user)
  BY DEF LoginStamp
<1>1. CASE Over(r)
  BY <1>0, <1>1, FailStep DEF Fail
<1>2. CASE Goto(r, "open")
  <2>1. /\ req' \in [Requests -> Locals]
        /\ req'[r].pc = "open" /\ req'[r].user = req[r].user /\ req'[r].pw = req[r].pw
        /\ req'[r].row = req[r].row /\ req'[r].late = req[r].late
        /\ \A q \in Requests \ {r} : req'[q] = req[q]
    BY <1>2, GotoEffect DEF IInv, Phases
  <2>2. Shape' /\ Live' = Live
    BY <1>0, <2>1, ShapeKept, UsersStand DEF IInv, Shape
  <2>3. SessionsInv'
    <3>1. SessionsCurrent'
      BY <1>0 DEF IInv, SessionsInv, SessionsCurrent
    <3>2. \A q \in Requests : LoginOK(q)'
      BY <1>0, <2>1, <2>2 DEF IInv, SessionsInv, LoginOK
    <3>3. \A q \in Requests : HeldOK(q)'
      BY <1>0, <2>1, <2>2 DEF IInv, SessionsInv, HeldOK, Unheld
    <3> QED
      BY <3>1, <3>2, <3>3 DEF SessionsInv
  <2>4. LinksInv' /\ ResetsInv'
    BY <1>0, <2>1, LinksKept, ResetsKept DEF IInv, VerifyPhases
  <2>5. RowInv'
    BY <1>0, <2>1, <2>2, ProvenStands, RowKept DEF IInv, Writing
  <2> QED
    BY <2>2, <2>3, <2>4, <2>5 DEF IInv
<1> QED
  BY <1>1, <1>2 DEF LoginStamp

LEMMA OpenSessionStep == ASSUME IInv, NEW r \in Requests, OpenSession(r) PROVE IInv'
<1> DEFINE u == req[r].user
           s == [user |-> u, pw |-> req[r].pw, late |-> req[r].late]
<1>0. /\ UNCHANGED <<users, links, resets, row>> /\ req[r].pc = "open"
      /\ sessions' = sessions \cup (IF u \in Live THEN {s} ELSE {})
      /\ req' \in [Requests -> Locals] /\ req'[r] = NoReq
      /\ \A q \in Requests \ {r} : req'[q] = req[q]
  BY OverEffect DEF IInv, OpenSession
<1>1. req[r] \in Locals /\ LoginOK(r) /\ Live' = Live /\ NoReq.user <= Len(users)
  BY <1>0, Nobody, Typing, UsersStand DEF IInv, Shape, SessionsInv
<1>2. Shape'
  <2>1. u \in Live => s \in [user : Live, pw : 1..MaxPw, late : BOOLEAN]
    BY <1>0, <1>1 DEF LoginOK, Locals
  <2>2. sessions' \subseteq [user : Live, pw : 1..MaxPw, late : BOOLEAN]
    BY <1>0, <2>1 DEF IInv, Shape
  <2> QED
    BY <1>0, <1>1, <2>2 DEF IInv, Shape
<1>3. SessionsInv'
  <2>1. SessionsCurrent'
    BY <1>0, <1>1 DEF IInv, SessionsInv, SessionsCurrent, LoginOK
  <2>2. \A q \in Requests : LoginOK(q)'
    BY <1>0, <1>1, Nobody DEF IInv, SessionsInv, LoginOK
  <2>3. \A q \in Requests : HeldOK(q)'
    BY <1>0, <1>1, Nobody DEF IInv, SessionsInv, HeldOK
  <2> QED
    BY <2>1, <2>2, <2>3 DEF SessionsInv
<1>4. LinksInv' /\ ResetsInv'
  BY <1>0, Nobody, LinksKept, ResetsKept DEF IInv, VerifyPhases
<1>5. RowInv'
  BY <1>0, <1>2, Nobody, ProvenStands, RowKept DEF IInv, Writing
<1> QED
  BY <1>2, <1>3, <1>4, <1>5 DEF IInv

-----------------------------------------------------------------------------
(* The tables on their own: links and sessions age, and rows are erased     *)

\* A statement that is no step of a request.
LEMMA TableStep ==
  ASSUME IInv, UNCHANGED <<users, req>>, Shape', sessions' \subseteq sessions,
         DOMAIN links \subseteq DOMAIN links',
         \A t \in DOMAIN links : links[t].state \notin {"live", "expired"} =>
           links'[t].state \notin {"live", "expired"},
         DOMAIN resets \subseteq DOMAIN resets',
         \A t \in DOMAIN resets :
           /\ resets'[t].user = resets[t].user /\ resets'[t].stale = resets[t].stale
           /\ resets[t].state # "live" => resets'[t].state # "live",
         \A t \in DOMAIN resets' : t \in DOMAIN resets \/ ~resets'[t].stale,
         row' = row \/ RowInv'
  PROVE  IInv'
<1>0. Live' = Live
  BY UsersStand DEF IInv
<1>1. SessionsInv'
  BY <1>0, SessionsKept DEF IInv, SessionsInv, HeldOK
<1>2. LinksInv'
  BY LinksKept DEF IInv
<1>3. ResetsInv'
  BY ResetsKept DEF IInv
<1>4. row' = row => RowInv'
  BY ProvenStands, RowKept DEF IInv
<1> QED
  BY <1>1, <1>2, <1>3, <1>4 DEF IInv

LEMMA EndSessionStep == ASSUME IInv, NEW s \in sessions, EndSession(s) PROVE IInv'
<1>1. /\ sessions' \subseteq sessions /\ UNCHANGED <<users, links, resets, row, req>>
  BY DEF EndSession
<1>2. Shape'
  BY <1>1, UsersStand DEF IInv, Shape
<1> QED
  BY <1>1, <1>2, TableStep

\* A link of an account that is alive.
LEMMA LinkTyped ==
  ASSUME Shape, NEW u \in Live
  PROVE  Link(u) \in Links /\ Link(u).user = u /\ u \in Ids
BY Typing DEF Link, Links

\* A link is sent, or time passes for one.
LEMMA LinkStep ==
  ASSUME IInv, \/ \E s \in sessions : ResendVerification(s)
               \/ \E t \in DOMAIN links : LinkAges(t)
  PROVE  IInv'
<1>0. UNCHANGED <<users, sessions, resets, row, req>> /\ links \in Seq(Links) /\ Live' = Live
  BY UsersStand DEF IInv, Shape, ResendVerification, LinkAges
<1>1. ASSUME NEW s \in sessions, ResendVerification(s)
      PROVE  /\ links' \in Seq(Links) /\ DOMAIN links \subseteq DOMAIN links'
             /\ \A t \in DOMAIN links' :
                  IF t \in DOMAIN links THEN links'[t] = links[t] ELSE links'[t].user \in Live
  <2>1. s.user \in Live
    BY DEF IInv, Shape
  <2>2. Link(s.user) \in Links /\ Link(s.user).user = s.user
    BY <2>1, LinkTyped DEF IInv
  <2>3. PICK e \in Links : e = Link(s.user)
    BY <2>2
  <2>4. links' = Append(links, e)
    BY <1>1, <2>3 DEF ResendVerification
  <2> QED
    BY <1>0, <2>1, <2>2, <2>3, <2>4, Longer
<1>2. ASSUME NEW t \in DOMAIN links, LinkAges(t)
      PROVE  /\ links' \in Seq(Links) /\ DOMAIN links' = DOMAIN links
             /\ \A l \in DOMAIN links :
                  /\ links'[l].user = links[l].user
                  /\ links[l].state = "gone" => links'[l].state = "gone"
                  /\ links[l].state \notin {"live", "expired"} =>
                       links'[l].state \notin {"live", "expired"}
  <2>1. links \in [DOMAIN links -> Links] /\ links[t] \in Links
    BY Typing DEF IInv
  <2> DEFINE n == [links[t] EXCEPT !.state = "expired"]
  <2>2. n \in Links /\ n.user = links[t].user /\ n.state = "expired"
        /\ links' = [links EXCEPT ![t] = n]
    BY <1>2, <2>1 DEF Links, LinkAges
  <2> HIDE DEF n
  <2>3. links' \in [DOMAIN links -> Links]
    BY <2>1, <2>2
  <2>4. links' \in Seq(Links)
    BY <1>0, <2>3, SameLength
  <2>5. links[t].state = "live"
    BY <1>2 DEF LinkAges
  <2> QED
    BY <2>1, <2>2, <2>3, <2>4, <2>5
<1>3. /\ links' \in Seq(Links) /\ DOMAIN links \subseteq DOMAIN links'
      /\ \A t \in DOMAIN links : links[t].state \notin {"live", "expired"} =>
           links'[t].state \notin {"live", "expired"}
      /\ \A t \in DOMAIN links' : links'[t].state # "gone" => links'[t].user \in Live
  BY <1>1, <1>2 DEF IInv, Shape
<1>4. Shape'
  BY <1>0, <1>3 DEF IInv, Shape
<1> QED
  BY <1>0, <1>3, <1>4, TableStep DEF IInv, ResetsInv

LEMMA ResetLinkStep ==
  ASSUME IInv, (\E u \in Live : RequestReset(u)) \/ \E t \in DOMAIN resets : ResetAges(t)
  PROVE  IInv'
<1>0. UNCHANGED <<users, sessions, links, row, req>> /\ resets \in Seq(Resets) /\ Live' = Live
  BY UsersStand DEF IInv, Shape, RequestReset, ResetAges
<1>1. ASSUME NEW u \in Live, RequestReset(u)
      PROVE  /\ resets' \in Seq(Resets) /\ DOMAIN resets \subseteq DOMAIN resets'
             /\ \A t \in DOMAIN resets : resets'[t] = resets[t]
             /\ \A t \in DOMAIN resets' :
                  t \in DOMAIN resets \/ (~resets'[t].stale /\ resets'[t].user <= Len(users))
  <2>1. u \in Ids /\ u <= Len(users)
    BY Typing DEF IInv
  <2>2. PICK e : e = [user |-> u, state |-> "live", stale |-> FALSE]
    OBVIOUS
  <2>3. e \in Resets /\ ~e.stale /\ e.user = u /\ resets' = Append(resets, e)
    BY <1>1, <2>1, <2>2 DEF Resets, RequestReset
  <2> QED
    BY <1>0, <2>1, <2>3, Longer
<1>2. ASSUME NEW t \in DOMAIN resets, ResetAges(t)
      PROVE  /\ resets' \in Seq(Resets) /\ DOMAIN resets' = DOMAIN resets
             /\ \A l \in DOMAIN resets :
                  /\ resets'[l].user = resets[l].user /\ resets'[l].stale = resets[l].stale
                  /\ resets[l].state # "live" => resets'[l].state # "live"
  <2>1. resets \in [DOMAIN resets -> Resets] /\ resets[t] \in Resets
    BY Typing DEF IInv
  <2> DEFINE n == [resets[t] EXCEPT !.state = "expired"]
  <2>2. n \in Resets /\ n.user = resets[t].user /\ n.stale = resets[t].stale
        /\ n.state = "expired" /\ resets' = [resets EXCEPT ![t] = n]
    BY <1>2, <2>1 DEF Resets, ResetAges
  <2> HIDE DEF n
  <2>3. resets' \in [DOMAIN resets -> Resets]
    BY <2>1, <2>2
  <2>4. resets' \in Seq(Resets)
    BY <1>0, <2>3, SameLength
  <2> QED
    BY <2>1, <2>2, <2>3, <2>4
<1>3. /\ resets' \in Seq(Resets) /\ DOMAIN resets \subseteq DOMAIN resets'
      /\ \A t \in DOMAIN resets :
           /\ resets'[t].user = resets[t].user /\ resets'[t].stale = resets[t].stale
           /\ resets[t].state # "live" => resets'[t].state # "live"
      /\ \A t \in DOMAIN resets' : t \in DOMAIN resets \/ ~resets'[t].stale
      /\ \A t \in DOMAIN resets' : resets'[t].user <= Len(users)
  BY <1>1, <1>2 DEF IInv, Shape
<1>4. Shape'
  BY <1>0, <1>3 DEF IInv, Shape
<1> QED
  BY <1>0, <1>3, <1>4, TableStep

\* A registration that is erased takes its badge with it, and its number is not used again.
RowOf(owners) ==
  [n : 0..MaxRows, exists : BOOLEAN, owner : owners, badge : {"none", "active", "revoked"},
   byAdmin : BOOLEAN]

LEMMA RowTyped ==
  ASSUME NEW owners, NEW o \in owners, NEW k \in 0..MaxRows
  PROVE  /\ Row(k, o) \in RowOf(owners) /\ Row(k, o).n = k /\ Row(k, o).owner = o
         /\ Row(k, o).badge = "none" 
         /\ (Row(k, o).exists => k # 0) /\ (k # 0 => Row(k, o).exists)
<1>1. (k > 0) \in BOOLEAN /\ (k > 0 <=> k # 0)
  OBVIOUS
<1>2. PICK e \in BOOLEAN : e = (k > 0)
  BY <1>1
<1>3. Row(k, o) = [n |-> k, exists |-> e, owner |-> o, badge |-> "none", byAdmin |-> FALSE]
  BY <1>2, Zenon DEF Row
<1>4. Row(k, o) \in RowOf(owners)
  BY <1>2, <1>3 DEF RowOf
<1>5. Row(k, o).n = k /\ Row(k, o).owner = o /\ Row(k, o).badge = "none"
  BY <1>3
<1>6. Row(k, o).exists <=> k # 0
  <2>1. Row(k, o).exists = e
    BY <1>3
  <2>2. e <=> k # 0
    BY <1>1, <1>2, Zenon
  <2> QED
    BY <2>1, <2>2, Zenon
<1> QED
  BY <1>4, <1>5, <1>6

LEMMA RowErased ==
  ASSUME NEW owners, 0 \in owners, NEW k \in 0..MaxRows, NEW e,
         e = [Row(k, 0) EXCEPT !.exists = FALSE]
  PROVE  e \in RowOf(owners) /\ e.n = k /\ ~e.exists /\ e.owner = 0 /\ e.badge = "none"
<1>1. PICK d : d = Row(k, 0)
  OBVIOUS
<1>2. d \in RowOf(owners) /\ d.n = k /\ d.owner = 0 /\ d.badge = "none"
  BY <1>1, RowTyped
<1>3. e = [d EXCEPT !.exists = FALSE]
  BY <1>1
<1> QED
  BY <1>2, <1>3 DEF RowOf

LEMMA RegistrantStep == ASSUME IInv, DeleteRegistrant PROVE IInv'
<1>0. /\ UNCHANGED <<users, sessions, links, resets, req>>
      /\ row' = [Row(row.n, 0) EXCEPT !.exists = FALSE]
  BY DEF DeleteRegistrant
<1>1. row' \in RowOf(Live \cup {0}) /\ row'.n = row.n /\ ~row'.exists /\ row'.owner = 0
  <2>1. row.n \in 0..MaxRows
    BY DEF IInv, Shape
  <2> QED
    BY <1>0, <2>1, RowErased
<1>2. Shape'
  BY <1>0, <1>1, UsersStand DEF IInv, Shape, RowOf
<1>3. RowInv'
  <2>1. BadgeNeedsProof'
    BY <1>1 DEF BadgeNeedsProof
  <2>2. ASSUME NEW r \in Requests PROVE RowOK(r)' /\ ListingOK(r)'
    BY <1>0, <1>1, UsersStand DEF IInv, RowInv, RowOK, ListingOK, Same, Proven
  <2> QED
    BY <1>0, <1>1, <2>1, <2>2 DEF IInv, RowInv
<1> QED
  BY <1>0, <1>2, <1>3, TableStep DEF IInv, ResetsInv

\* The badge of an administrator asks nobody for a proof, and says whose it is.
LEMMA RegenerateStep == ASSUME IInv, RegenerateBadge PROVE IInv'
<1> DEFINE first == row.byAdmin \/ row.badge = "none"
<1>0. /\ UNCHANGED <<users, sessions, links, resets, req>>
      /\ row' = [row EXCEPT !.badge = "active", !.byAdmin = first]
  BY DEF RegenerateBadge
<1>1. /\ row' \in RowOf(Live \cup {0}) /\ row'.n = row.n /\ row'.exists = row.exists
      /\ row'.owner = row.owner /\ row'.byAdmin = first
  <2>1. row \in RowOf(Live \cup {0})
    BY DEF IInv, Shape, RowOf
  <2>2. first \in BOOLEAN
    BY <2>1 DEF RowOf
  <2> HIDE DEF first
  <2> QED
    BY <1>0, <2>1, <2>2 DEF RowOf
<1>2. Shape'
  BY <1>0, <1>1, UsersStand DEF IInv, Shape, RowOf
<1>3. RowInv'
  <2>1. BadgeNeedsProof'
    BY <1>0, <1>1 DEF IInv, RowInv, BadgeNeedsProof
  <2>2. ASSUME NEW r \in Requests PROVE RowOK(r)' /\ ListingOK(r)'
    BY <1>0, <1>1, UsersStand DEF IInv, RowInv, RowOK, ListingOK, Same, Proven
  <2> QED
    BY <1>0, <1>1, <2>1, <2>2 DEF IInv, RowInv
<1> QED
  BY <1>0, <1>2, <1>3, TableStep DEF IInv, ResetsInv

-----------------------------------------------------------------------------
(* The verification link, the claim and the badge                           *)

LEMMA VerifyReadStep ==
  ASSUME IInv, NEW r \in Requests, NEW t \in DOMAIN links, VerifyRead(r, t)
  PROVE  IInv'
<1>0. /\ UNCHANGED <<users, sessions, links, resets, row>> /\ links[t].state = "live"
      /\ Begin(r, [NoReq EXCEPT !.pc = "verifyClaim", !.user = links[t].user, !.tok = t])
  BY DEF VerifyRead
<1>1. links[t].user \in Ids /\ links[t].user <= Len(users) /\ t \in Nat
  <2>1. links[t].user \in Live
    BY <1>0 DEF IInv, Shape
  <2> QED
    BY <2>1, Typing DEF IInv
<1> DEFINE n == [NoReq EXCEPT !.pc = "verifyClaim", !.user = links[t].user, !.tok = t]
<1>2. n \in Locals /\ n.pc = "verifyClaim" /\ n.user = links[t].user /\ n.tok = t /\ n.row = 0
  BY <1>1, Nobody DEF Locals, Phases, VerifyPhases
<1>3. Begin(r, n)
  BY <1>0
<1> HIDE DEF n
<1>4. /\ req' \in [Requests -> Locals] /\ req'[r] = n
      /\ \A q \in Requests \ {r} : req'[q] = req[q]
  BY <1>2, <1>3, BeginEffect DEF IInv
<1>5. Shape' /\ Live' = Live
  BY <1>0, <1>1, <1>2, <1>4, ShapeKept, UsersStand DEF IInv, Shape
<1>6. SessionsInv' /\ ResetsInv'
  BY <1>0, <1>2, <1>4, <1>5, SessionsKept, ResetsKept DEF IInv, SessionsInv, HeldOK
<1>7. LinksInv'
  BY <1>0, <1>2, <1>4 DEF IInv, LinksInv, LinkOK, Acting
<1>8. RowInv'
  BY <1>0, <1>2, <1>4, <1>5, ProvenStands, RowKept DEF IInv, Writing
<1> QED
  BY <1>5, <1>6, <1>7, <1>8 DEF IInv

\* Two that have read one link use it up once.
LEMMA VerifyClaimStep == ASSUME IInv, NEW r \in Requests, VerifyClaim(r) PROVE IInv'
<1>0. UNCHANGED <<users, sessions, resets, row>> /\ req[r].pc = "verifyClaim"
  BY DEF VerifyClaim
<1>1. CASE Over(r) /\ UNCHANGED links
  BY <1>0, <1>1, FailStep DEF Fail
<1>2. CASE /\ links[req[r].tok].state \in {"live", "expired"}
           /\ links' = [links EXCEPT ![req[r].tok].state = "justUsed"]
           /\ Goto(r, "verify")
  <2>1. PICK t \in DOMAIN links : t = req[r].tok
    BY <1>0 DEF IInv, LinksInv, LinkOK
  <2>2. /\ req' \in [Requests -> Locals]
        /\ req'[r].pc = "verify" /\ req'[r].user = req[r].user /\ req'[r].tok = t
        /\ req'[r].row = req[r].row
        /\ \A q \in Requests \ {r} : req'[q] = req[q]
    BY <1>2, <2>1, GotoEffect DEF IInv, Phases, VerifyPhases
  <2>3. links \in Seq(Links) /\ links \in [DOMAIN links -> Links] /\ links[t] \in Links
    BY Typing DEF IInv, Shape
  <2> DEFINE n == [links[t] EXCEPT !.state = "justUsed"]
  <2>4. n \in Links /\ n.user = links[t].user /\ n.state = "justUsed"
        /\ links' = [links EXCEPT ![t] = n]
    BY <1>2, <2>1, <2>3 DEF Links
  <2> HIDE DEF n
  <2>5. /\ links' \in [DOMAIN links -> Links] /\ links'[t] = n
        /\ \A l \in DOMAIN links \ {t} : links'[l] = links[l]
    BY <2>3, <2>4
  <2>6. links' \in Seq(Links) /\ DOMAIN links' = DOMAIN links
    BY <2>3, <2>5, SameLength
  <2>7. Live' = Live
    BY <1>0, UsersStand DEF IInv
  <2>8. Shape'
    <3>1. \A l \in DOMAIN links' : links'[l].state # "gone" => links'[l].user \in Live
      BY <1>2, <2>1, <2>4, <2>5, <2>6 DEF IInv, Shape
    <3> QED
      BY <1>0, <2>2, <2>6, <2>7, <3>1 DEF IInv, Shape
  <2>9. SessionsInv' /\ ResetsInv'
    BY <1>0, <2>2, <2>7, <2>8, SessionsKept, ResetsKept DEF IInv, SessionsInv, HeldOK
  <2>10. LinksInv'
    <3>1. ASSUME NEW q \in Requests \ {r}, req[q].pc \in Acting PROVE req[q].tok # t
      BY <1>2, <2>1, <3>1, Typing DEF IInv, LinksInv, LinkOK
    <3>2. \A q \in Requests : LinkOK(q)'
      BY <2>1, <2>2, <2>4, <2>5, <2>6 DEF IInv, LinksInv, LinkOK
    <3>3. ASSUME NEW p \in Requests, NEW q \in Requests, p # q,
                 {req'[p].pc, req'[q].pc} \subseteq Acting
          PROVE  req'[p].tok # req'[q].tok \/ req'[p].tok = 0
      BY <2>2, <3>1, <3>3 DEF IInv, LinksInv
    <3> QED
      BY <3>2, <3>3 DEF LinksInv
  <2>11. RowInv'
    BY <1>0, <2>2, <2>8, ProvenStands, RowKept DEF IInv, Writing
  <2> QED
    BY <2>8, <2>9, <2>10, <2>11 DEF IInv
<1> QED
  BY <1>1, <1>2 DEF VerifyClaim

\* The account is verified, and has proven its address for good.
LEMMA VerifyStep == ASSUME IInv, NEW r \in Requests, Verify(r) PROVE IInv'
<1>0. UNCHANGED <<sessions, links, resets, row>> /\ req[r].pc = "verify"
  BY DEF Verify
<1>1. CASE Over(r) /\ UNCHANGED users
  BY <1>0, <1>1, FailStep DEF Fail
<1>2. CASE /\ req[r].user \in Live
           /\ users' = [users EXCEPT ![req[r].user].verified = TRUE,
                                     ![req[r].user].proven = TRUE]
           /\ Goto(r, "claim")
  <2>1. PICK u \in Live : u = req[r].user
    BY <1>2
  <2>2. /\ req' \in [Requests -> Locals]
        /\ req'[r].pc = "claim" /\ req'[r].user = u /\ req'[r].tok = req[r].tok
        /\ req'[r].row = req[r].row
        /\ \A q \in Requests \ {r} : req'[q] = req[q]
    BY <1>2, <2>1, GotoEffect DEF IInv, Phases, VerifyPhases
  <2>3. /\ users \in Seq(Users) /\ users \in [DOMAIN users -> Users] /\ u \in DOMAIN users
        /\ users[u] \in Users
    BY Typing DEF IInv, Shape
  <2> DEFINE n == [users[u] EXCEPT !.verified = TRUE, !.proven = TRUE]
  <2>4. /\ n \in Users /\ n.live = users[u].live /\ n.proven /\ n.pw = users[u].pw
        /\ users' = [users EXCEPT ![u] = n]
    BY <1>2, <2>1, <2>3 DEF Users
  <2> HIDE DEF n
  <2>5. /\ users' \in [DOMAIN users -> Users] /\ users'[u] = n
        /\ \A v \in DOMAIN users \ {u} : users'[v] = users[v]
    BY <2>3, <2>4
  <2>6. users' \in Seq(Users) /\ DOMAIN users' = DOMAIN users /\ Len(users') = Len(users)
    BY <2>3, <2>5, SameLength
  <2>7. Live' = Live
    BY <2>4, <2>5, <2>6 DEF Live
  <2>8. Shape'
    BY <1>0, <2>2, <2>6, <2>7, <2>1 DEF IInv, Shape
  <2>9. SessionsInv'
    <3>1. \A v \in Live : users'[v].pw = users[v].pw
      BY <2>4, <2>5 DEF Live
    <3> QED
      BY <1>0, <2>2, <2>7, <2>8, <3>1, SessionsKept DEF IInv, SessionsInv, HeldOK
  <2>10. LinksInv' /\ ResetsInv'
    BY <1>0, <2>2, LinksKept, ResetsKept DEF IInv, VerifyPhases, Acting
  <2>11. RowInv'
    <3>1. UsersAge /\ \A v \in DOMAIN users' : users'[v].verified => users'[v].proven
      BY <2>4, <2>5, <2>6, Typing DEF IInv, RowInv, UsersAge
    <3>2. \A v \in DOMAIN users : Proven(v) => Proven(v)'
      BY <3>1 DEF UsersAge, Proven
    <3>3. row.owner # 0 => row.owner \in DOMAIN users
      BY Typing DEF IInv, Shape
    <3>4. BadgeNeedsProof'
      BY <1>0, <3>1, <3>3 DEF IInv, RowInv, BadgeNeedsProof, UsersAge
    <3>5. ASSUME NEW q \in Requests PROVE RowOK(q)' /\ ListingOK(q)'
      <4>1. CASE q = r
        BY <1>0, <2>1, <2>2, <2>4, <2>5, <4>1
        DEF IInv, RowInv, RowOK, ListingOK, Listed, Proven
      <4>2. CASE q # r
        <5>1. /\ req'[q] = req[q] /\ RowOK(q) /\ ListingOK(q)
              /\ req[q].user \in Live => req[q].user \in DOMAIN users
          BY <2>2, <4>2, Typing DEF IInv, RowInv
        <5>2. RowOK(q)'
          BY <1>0, <2>7, <3>1, <3>3, <5>1 DEF RowOK, Proven, Same, UsersAge
        <5> QED
          BY <1>0, <2>7, <3>1, <5>1, <5>2 DEF ListingOK, Proven, UsersAge
      <4> QED
        BY <4>1, <4>2
    <3> QED
      BY <1>0, <3>1, <3>4, <3>5 DEF IInv, RowInv
  <2> QED
    BY <2>8, <2>9, <2>10, <2>11 DEF IInv
<1> QED
  BY <1>1, <1>2 DEF Verify

\* A request that writes to the registration only.
LEMMA RowStep ==
  ASSUME IInv, UNCHANGED <<users, sessions, links, resets>>, NEW r \in Requests,
         req' \in [Requests -> Locals], \A q \in Requests \ {r} : req'[q] = req[q],
         req'[r].user <= Len(users),
         req'[r].pc \notin {"stamp", "open", "resetCommit", "reset"},
         \/ req'[r].pc \notin VerifyPhases
         \/ {req[r].pc, req'[r].pc} \subseteq Acting /\ req'[r].tok = req[r].tok,
         row' \in RowOf(Live \cup {0}), RowInv'
  PROVE  IInv'
<1>1. Live' = Live /\ Len(users') = Len(users)
  BY UsersStand DEF IInv
<1>2. Shape'
  BY <1>1 DEF IInv, Shape, RowOf
<1>3. SessionsInv'
  BY <1>1, <1>2, SessionsKept DEF IInv, SessionsInv, HeldOK
<1>4. LinksInv' /\ ResetsInv'
  BY LinksKept, ResetsKept DEF IInv
<1> QED
  BY <1>2, <1>3, <1>4 DEF IInv

\* A registration without an account is bound to one that has proven the address.
LEMMA ClaimStep == ASSUME IInv, NEW r \in Requests, ClaimParticipant(r) PROVE IInv'
<1>0. UNCHANGED <<users, sessions, links, resets>> /\ req[r].pc = "claim"
  BY DEF ClaimParticipant
<1>1. CASE Over(r) /\ UNCHANGED row
  BY <1>0, <1>1, FailStep DEF Fail
<1>2. CASE Goto(r, "ensure")
  <2>1. /\ req' \in [Requests -> Locals]
        /\ req'[r].pc = "ensure" /\ req'[r].user = req[r].user /\ req'[r].tok = req[r].tok
        /\ req'[r].row = req[r].row
        /\ \A q \in Requests \ {r} : req'[q] = req[q]
    BY <1>2, GotoEffect DEF IInv, Phases, VerifyPhases
  <2>2. CASE UNCHANGED row
    <3>1. req[r].user <= Len(users)
      BY DEF IInv, Shape
    <3> QED
      BY <1>0, <2>1, <2>2, <3>1, QuietStep DEF Acting, VerifyPhases, Writing
  <2>3. CASE /\ row.exists /\ row.owner = 0 /\ req[r].user \in Live
             /\ row' = [row EXCEPT !.owner = req[r].user]
    <3>1. PICK u \in Live : u = req[r].user
      BY <2>3
    <3>2. row \in RowOf(Live \cup {0}) /\ Proven(u) /\ u \in DOMAIN users
      BY <1>0, <3>1, Typing DEF IInv, Shape, RowOf, RowInv, RowOK
    <3>3. /\ row' \in RowOf(Live \cup {0}) /\ row'.n = row.n /\ row'.exists = row.exists
          /\ row'.owner = u
      BY <2>3, <3>1, <3>2 DEF RowOf
    <3>4. RowInv'
      <4>1. BadgeNeedsProof'
        BY <1>0, <3>2, <3>3 DEF BadgeNeedsProof, Proven
      <4>2. ASSUME NEW q \in Requests PROVE RowOK(q)' /\ ListingOK(q)'
        <5>1. Same(q)' => Same(q) \/ q = r
          BY <2>1, <3>3 DEF Same
        <5>2. 0 \notin Live /\ Live' = Live
          BY <1>0, Typing, UsersStand DEF IInv
        <5>3. RowOK(q)'
          BY <1>0, <2>1, <2>3, <3>2, <3>3, <5>1, <5>2 DEF IInv, RowInv, RowOK, Proven
        <5>4. ListingOK(q)'
          BY <1>0, <2>1, <2>3, <3>2, <3>3, <5>2
          DEF IInv, RowInv, ListingOK, Listed, Proven
        <5> QED
          BY <5>3, <5>4
      <4> QED
        BY <1>0, <2>3, <3>3, <4>1, <4>2 DEF IInv, RowInv
    <3>5. req[r].user <= Len(users)
      BY DEF IInv, Shape
    <3> QED
      BY <1>0, <2>1, <3>3, <3>4, <3>5, RowStep DEF Acting, VerifyPhases
  <2> QED
    BY <1>2, <2>2, <2>3 DEF ClaimParticipant
<1> QED
  BY <1>1, <1>2 DEF ClaimParticipant

\* The account's registration, or a new one with a number of its own.
LEMMA EnsureStep == ASSUME IInv, NEW r \in Requests, Ensure(r) PROVE IInv'
<1>0. UNCHANGED <<users, sessions, links, resets>> /\ req[r].pc = "ensure"
  BY DEF Ensure
<1>1. CASE Over(r) /\ UNCHANGED row
  BY <1>0, <1>1, FailStep DEF Fail
<1>2. ASSUME NEW k \in 0..MaxRows, req' = [req EXCEPT ![r].pc = "badge", ![r].row = k],
             row'.n = k, row' \in RowOf(Live \cup {0}),
             \/ row' = row
             \/ row'.badge = "none" /\ row'.n = row.n + 1 /\ row'.exists
      PROVE  IInv'
  <2> DEFINE n == [req[r] EXCEPT !.pc = "badge", !.row = k]
  <2>1. req[r] \in Locals /\ k \in Nat /\ req[r].user <= Len(users) /\ row.n \in Nat
    BY AccountAssumption DEF IInv, Shape
  <2>2. n \in Locals /\ n.pc = "badge" /\ n.row = k /\ n.user = req[r].user /\ n.tok = req[r].tok
    BY <2>1 DEF Locals, Phases, VerifyPhases
  <2>3. req' = [req EXCEPT ![r] = n]
    BY <1>2
  <2> HIDE DEF n
  <2>4. /\ req' \in [Requests -> Locals] /\ req'[r] = n
        /\ \A q \in Requests \ {r} : req'[q] = req[q]
    BY <2>2, <2>3, Moves DEF IInv
  <2>5. RowInv'
    <3>1. BadgeNeedsProof'
      BY <1>0, <1>2 DEF IInv, RowInv, BadgeNeedsProof
    <3>2. ASSUME NEW q \in Requests PROVE RowOK(q)' /\ ListingOK(q)'
      <4>1. CASE q = r
        BY <1>2, <2>1, <2>2, <2>4, <4>1 DEF RowOK, ListingOK, Listed
      <4>2. CASE q # r
        <5>1. /\ req'[q] = req[q] /\ req[q].row <= row.n /\ req[q].row \in Nat /\ Live' = Live
              /\ req[q].seen \in Nat /\ (req[q].pc \in Listed => req[q].seen <= row.n)
          BY <1>0, <2>4, <4>2, UsersStand
          DEF IInv, RowInv, RowOK, ListingOK, Shape, Locals
        <5>2. CASE row' = row
          BY <1>0, <5>1, <5>2 DEF IInv, RowInv, RowOK, ListingOK, Same, Proven
        <5>3. CASE row'.n = row.n + 1
          <6>1. ~Same(q)'
            BY <2>1, <5>1, <5>3 DEF Same
          <6>2. req[q].row <= row'.n
            BY <2>1, <5>1, <5>3
          <6>3. RowOK(q)'
            BY <1>0, <5>1, <6>1, <6>2 DEF IInv, RowInv, RowOK, Proven
          <6>4. /\ req[q].row # row'.n
                /\ req[q].pc \in Listed => req[q].seen <= row'.n /\ req[q].seen # row'.n
            BY <2>1, <5>1, <5>3
          <6> QED
            BY <1>0, <5>1, <6>3, <6>4 DEF IInv, RowInv, ListingOK, Proven
        <5> QED
          BY <1>2, <5>2, <5>3
      <4> QED
        BY <4>1, <4>2
    <3>3. (row'.exists => row'.n # 0) /\ (~row'.exists => row'.owner = 0)
      BY <1>2, <2>1 DEF IInv, RowInv
    <3> QED
      BY <1>0, <3>1, <3>2, <3>3 DEF IInv, RowInv
  <2> QED
    BY <1>0, <1>2, <2>1, <2>2, <2>4, <2>5, RowStep DEF Acting, VerifyPhases
<1>3. CASE UNCHANGED row /\ req' = [req EXCEPT ![r].pc = "badge", ![r].row = row.n]
  <2>1. row.n \in 0..MaxRows /\ row \in RowOf(Live \cup {0})
    BY DEF IInv, Shape, RowOf
  <2>2. PICK k \in 0..MaxRows : k = row.n
    BY <2>1
  <2> QED
    BY <1>2, <1>3, <2>1, <2>2
<1>4. CASE /\ row.n < MaxRows /\ req[r].user \in Live
           /\ row' = Row(row.n + 1, req[r].user)
           /\ req' = [req EXCEPT ![r].pc = "badge", ![r].row = row.n + 1]
  <2>1. row.n + 1 \in 0..MaxRows
    BY <1>4, AccountAssumption DEF IInv, Shape
  <2>2. PICK k \in 0..MaxRows : k = row.n + 1
    BY <2>1
  <2>3. row' \in RowOf(Live \cup {0}) /\ row'.n = k /\ row'.badge = "none" /\ row'.exists
    <3> PICK owners : owners = Live \cup {0}
      OBVIOUS
    <3>1. PICK o \in owners : o = req[r].user
      BY <1>4
    <3>2. row.n \in 0..MaxRows
      BY DEF IInv, Shape
    <3>3. k # 0
      BY <2>2, <3>2, AccountAssumption
    <3>4. row' = Row(k, o)
      BY <1>4, <2>2, <3>1
    <3>5. /\ Row(k, o) \in RowOf(owners) /\ Row(k, o).n = k
          /\ Row(k, o).badge = "none" /\ (k # 0 => Row(k, o).exists)
      BY RowTyped, Zenon
    <3>6. Row(k, o).exists
      BY <3>3, <3>5, Zenon
    <3> QED
      BY <3>4, <3>5, <3>6, Zenon
  <2> QED
    BY <1>2, <1>4, <2>2, <2>3
<1> QED
  BY <1>0, <1>1, <1>3, <1>4 DEF Ensure

\* The badge waits for the proof: who is given the registration later has proven it too.
LEMMA BadgeCheckStep == ASSUME IInv, NEW r \in Requests, BadgeCheck(r) PROVE IInv'
<1>0. UNCHANGED <<users, sessions, links, resets, row>> /\ req[r].pc = "badge"
  BY DEF BadgeCheck
<1>1. CASE Over(r)
  BY <1>0, <1>1, FailStep DEF Fail
<1>2. CASE (row.owner # 0 => users[row.owner].verified) /\ Goto(r, "issue")
  <2>1. /\ req' \in [Requests -> Locals]
        /\ req'[r].pc = "issue" /\ req'[r].user = req[r].user /\ req'[r].tok = req[r].tok
        /\ req'[r].row = req[r].row
        /\ \A q \in Requests \ {r} : req'[q] = req[q]
    BY <1>2, GotoEffect DEF IInv, Phases, VerifyPhases
  <2>2. RowInv'
    <3>1. row.owner # 0 => Proven(row.owner)
      BY <1>2, Typing DEF IInv, Shape, RowInv, Proven
    <3>2. ASSUME NEW q \in Requests PROVE RowOK(q)' /\ ListingOK(q)'
      <4>1. CASE q = r
        BY <1>0, <2>1, <3>1, <4>1 DEF IInv, RowInv, RowOK, ListingOK, Listed, Proven
      <4>2. CASE q # r
        BY <1>0, <2>1, <4>2, UsersStand DEF IInv, RowInv, RowOK, ListingOK, Proven, Same
      <4> QED
        BY <4>1, <4>2
    <3> QED
      BY <1>0, <3>2 DEF IInv, RowInv, BadgeNeedsProof
  <2>3. row' \in RowOf(Live \cup {0}) /\ req[r].user <= Len(users)
    BY <1>0 DEF IInv, Shape, RowOf
  <2> QED
    BY <1>0, <2>1, <2>2, <2>3, RowStep DEF Acting, VerifyPhases
<1> QED
  BY <1>1, <1>2 DEF BadgeCheck

LEMMA IssueStep == ASSUME IInv, NEW r \in Requests, Issue(r) PROVE IInv'
<1>0. /\ UNCHANGED <<users, sessions, links, resets>> /\ req[r].pc = "issue"
      /\ row' = IF Same(r) /\ row.badge = "none" THEN [row EXCEPT !.badge = "active"] ELSE row
      /\ req' \in [Requests -> Locals] /\ req'[r] = NoReq
      /\ \A q \in Requests \ {r} : req'[q] = req[q]
  BY OverEffect DEF IInv, Issue
<1>1. row \in RowOf(Live \cup {0}) /\ Live' = Live /\ NoReq.user <= Len(users)
  BY <1>0, Nobody, Typing, UsersStand DEF IInv, Shape, RowOf
<1>2. /\ row' \in RowOf(Live \cup {0}) /\ row'.n = row.n /\ row'.owner = row.owner
      /\ row'.exists = row.exists /\ row'.byAdmin = row.byAdmin
      /\ row'.badge = row.badge \/ Same(r)
  BY <1>0, <1>1 DEF RowOf
<1>3. RowInv'
  <2>1. BadgeNeedsProof'
    BY <1>0, <1>2 DEF IInv, RowInv, RowOK, BadgeNeedsProof, Proven
  <2>2. ASSUME NEW q \in Requests PROVE RowOK(q)' /\ ListingOK(q)'
    <3>1. CASE q = r
      BY <1>0, <1>1, <1>2, <3>1, Nobody, AccountAssumption DEF RowOK, ListingOK, Listed, RowOf
    <3>2. CASE q # r
      BY <1>0, <1>1, <1>2, <3>2 DEF IInv, RowInv, RowOK, ListingOK, Proven, Same
    <3> QED
      BY <3>1, <3>2
  <2> QED
    BY <1>0, <1>2, <2>1, <2>2 DEF IInv, RowInv
<1> QED
  BY <1>0, <1>1, <1>2, <1>3, Nobody, RowStep DEF VerifyPhases

-----------------------------------------------------------------------------
(* Accounts are opened, given back and reset                                *)

LEMMA UserBecomes ==
  ASSUME Shape, NEW u \in Live, NEW n \in Users, users' = [users EXCEPT ![u] = n]
  PROVE  /\ users' \in Seq(Users) /\ DOMAIN users' = DOMAIN users /\ Len(users') = Len(users)
         /\ users'[u] = n /\ \A v \in DOMAIN users \ {u} : users'[v] = users[v]
         /\ u \in DOMAIN users /\ Live = {u} /\ Live' = IF n.live THEN {u} ELSE {}
<1>1. users \in Seq(Users) /\ users \in [DOMAIN users -> Users] /\ u \in DOMAIN users
  BY Typing DEF Shape
<1>2. /\ users' \in [DOMAIN users -> Users]
      /\ users'[u] = n /\ \A v \in DOMAIN users \ {u} : users'[v] = users[v]
  BY <1>1
<1>3. users' \in Seq(Users) /\ DOMAIN users' = DOMAIN users /\ Len(users') = Len(users)
  BY <1>1, <1>2, SameLength
<1>4. Live = {u}
  BY DEF Shape
<1>5. Live' = IF n.live THEN {u} ELSE {}
  BY <1>1, <1>2, <1>3, <1>4 DEF Live
<1> QED
  BY <1>1, <1>2, <1>3, <1>4, <1>5

LEMMA RegisterStep == ASSUME IInv, NEW r \in Requests, RegisterAccount(r) PROVE IInv'
<1> DEFINE u == Len(users) + 1
           e == [live |-> TRUE, verified |-> FALSE, proven |-> FALSE, pw |-> 1]
           n == [NoReq EXCEPT !.pc = "open", !.user = u, !.pw = 1]
<1>0. /\ Live = {} /\ Len(users) < MaxUsers /\ users' = Append(users, e)
      /\ links' = links \/ links' = Append(links, Link(u))
      /\ Begin(r, n) /\ UNCHANGED <<sessions, resets, row>>
  BY DEF RegisterAccount
<1>1. /\ u \in Nat /\ u \in Ids /\ u # 0 /\ Len(users) \in Nat /\ DOMAIN users = 1..Len(users)
      /\ u <= MaxUsers /\ MaxPw \in Nat /\ 1 \in 1..MaxPw
  BY <1>0, Typing DEF IInv, Ids
<1>2. /\ users' \in Seq(Users) /\ Len(users') = u /\ users'[u] = e
      /\ DOMAIN users' = 1..u /\ \A v \in DOMAIN users : users'[v] = users[v]
  <2>1. e \in Users /\ users \in Seq(Users)
    BY <1>1 DEF Users, IInv, Shape
  <2> HIDE DEF e
  <2> QED
    BY <1>0, <2>1, Longer
<1>3. Live' = {u}
  <2>1. \A v \in DOMAIN users : ~users[v].live
    BY <1>0 DEF Live
  <2>2. \A v \in DOMAIN users' : v = u \/ v \in DOMAIN users
    BY <1>1, <1>2
  <2>3. u \in DOMAIN users' /\ users'[u].live
    BY <1>1, <1>2
  <2>4. Live' = {v \in DOMAIN users' : users'[v].live}
    BY DEF Live
  <2> QED
    BY <1>2, <2>1, <2>2, <2>3, <2>4
<1>4. n \in Locals /\ n.pc = "open" /\ n.user = u /\ n.pw = 1 /\ n.row = 0 /\ n.tok = 0
  BY <1>1, Nobody DEF Locals, Phases, VerifyPhases
<1> HIDE DEF n
<1>5. /\ req' \in [Requests -> Locals] /\ req'[r] = n
      /\ \A q \in Requests \ {r} : req'[q] = req[q]
  BY <1>0, <1>4, BeginEffect DEF IInv
<1>6. /\ links' \in Seq(Links) /\ DOMAIN links \subseteq DOMAIN links'
      /\ \A t \in DOMAIN links : links'[t] = links[t]
      /\ \A t \in DOMAIN links' : t \in DOMAIN links \/ links'[t].user = u
  <2>1. links \in Seq(Links)
    BY DEF IInv, Shape
  <2>2. PICK l : l = Link(u)
    OBVIOUS
  <2>3. l \in Links /\ l.user = u
    BY <1>1, <2>2 DEF Link, Links
  <2>4. CASE links' = Append(links, l)
    BY <2>1, <2>3, <2>4, Longer
  <2>5. CASE links' = links
    BY <2>1, <2>5
  <2> QED
    BY <1>0, <2>2, <2>4, <2>5
<1>7. Shape'
  <2>1. sessions' = {}
    BY <1>0 DEF IInv, Shape
  <2>2. \A t \in DOMAIN links' : links'[t].state # "gone" => links'[t].user \in Live'
    BY <1>0, <1>3, <1>6 DEF IInv, Shape
  <2>3. \A t \in DOMAIN resets : resets[t].user <= u
    <3>1. \A t \in DOMAIN resets : resets[t].user \in Nat /\ resets[t].user <= Len(users)
      BY Typing DEF IInv, Shape, Resets, Ids
    <3> QED
      BY <1>1, <3>1
  <2>4. \A q \in Requests : req'[q].user <= u
    <3>1. \A q \in Requests : req[q].user \in Nat /\ req[q].user <= Len(users)
      BY Typing DEF IInv, Shape, Locals, Ids
    <3> QED
      BY <1>1, <1>4, <1>5, <3>1
  <2>5. row' \in RowOf(Live' \cup {0})
    BY <1>0 DEF IInv, Shape, RowOf
  <2> QED
    BY <1>0, <1>1, <1>2, <1>3, <1>5, <1>6, <2>1, <2>2, <2>3, <2>4, <2>5 DEF IInv, Shape, RowOf
<1>8. SessionsInv'
  <2>1. SessionsCurrent'
    BY <1>0 DEF IInv, Shape, SessionsCurrent
  <2>2. ASSUME NEW q \in Requests PROVE LoginOK(q)'
    <3>1. CASE q = r
      BY <1>1, <1>2, <1>4, <1>5, <3>1 DEF LoginOK
    <3>2. CASE q # r
      <4>1. req'[q] = req[q] /\ req[q].user # u
        BY <1>1, <1>5, <3>2 DEF IInv, Shape
      <4> QED
        BY <1>3, <4>1 DEF IInv, SessionsInv, LoginOK
    <3> QED
      BY <3>1, <3>2
  <2>3. ASSUME NEW q \in Requests PROVE HeldOK(q)'
    BY <1>0, <1>4, <1>5 DEF IInv, SessionsInv, HeldOK
  <2> QED
    BY <2>1, <2>2, <2>3 DEF SessionsInv
<1>9. LinksInv' /\ ResetsInv'
  BY <1>0, <1>4, <1>5, <1>6, LinksKept, ResetsKept DEF IInv, ResetsInv, VerifyPhases
<1>10. RowInv'
  <2>1. UsersAge
    BY <1>1, <1>2 DEF UsersAge
  <2>2. \A v \in DOMAIN users' : users'[v].verified => users'[v].proven
    BY <1>1, <1>2 DEF IInv, RowInv
  <2> QED
    BY <1>0, <1>4, <1>5, <1>7, <2>1, <2>2, RowKept DEF IInv, Writing
<1> QED
  BY <1>7, <1>8, <1>9, <1>10 DEF IInv

\* Links of one account are rewritten in place.
LEMMA LinksRewritten ==
  ASSUME Shape, NEW f, f = [l \in DOMAIN links |-> f[l]],
         \A l \in DOMAIN links :
           f[l] = links[l] \/ \E st \in {"used", "gone"} : f[l] = [links[l] EXCEPT !.state = st]
  PROVE  /\ f \in Seq(Links) /\ DOMAIN f = DOMAIN links
         /\ \A l \in DOMAIN links :
              /\ f[l].user = links[l].user
              /\ links[l].state \notin {"live", "expired"} => f[l].state \notin {"live", "expired"}
<1>1. links \in Seq(Links) /\ links \in [DOMAIN links -> Links]
  BY Typing DEF Shape
<1>2. ASSUME NEW l \in DOMAIN links
      PROVE  /\ f[l] \in Links /\ f[l].user = links[l].user
             /\ f[l].state = links[l].state \/ f[l].state \in {"used", "gone"}
  <2>1. links[l] \in Links
    BY <1>1
  <2>2. CASE f[l] = links[l]
    BY <2>1, <2>2
  <2>3. ASSUME NEW st \in {"used", "gone"}, f[l] = [links[l] EXCEPT !.state = st]
        PROVE  f[l] \in Links /\ f[l].user = links[l].user /\ f[l].state = st
    BY <2>1, <2>3 DEF Links
  <2> QED
    BY <2>2, <2>3
<1>3. f \in [DOMAIN links -> Links]
  BY <1>2
<1>4. f \in Seq(Links) /\ DOMAIN f = DOMAIN links
  BY <1>1, <1>3, SameLength
<1> QED
  BY <1>2, <1>4

\* "This wasn't me": the address has been proven, the password and the sessions go.
LEMMA NeutralizeStep ==
  ASSUME IInv, NEW t \in DOMAIN links, Neutralize(t)
  PROVE  IInv'
<1>0. PICK u \in Live : u = links[t].user
  BY DEF Neutralize
<1>1. /\ users[u].proven /\ Unheld(u) /\ users[u].pw < MaxPw
      /\ sessions' = {s \in sessions : s.user # u}
      /\ users' = [users EXCEPT ![u].pw = @ + 1, ![u].verified = FALSE]
      /\ links' = [l \in DOMAIN links |->
                     IF links[l].user = u /\ links[l].state \in {"live", "expired"}
                       THEN [links[l] EXCEPT !.state = "used"] ELSE links[l]]
      /\ row' = IF row.exists /\ row.owner = u
                  THEN [row EXCEPT !.owner = 0,
                                   !.badge = IF @ = "active" THEN "revoked" ELSE @]
                  ELSE row
      /\ req' = Overtaken(req, u) /\ UNCHANGED resets
  BY <1>0 DEF Neutralize
<1>2. users[u] \in Users /\ users[u].pw + 1 \in 1..MaxPw
  <2>1. users[u] \in Users
    BY Typing DEF IInv
  <2> QED
    BY <1>1, <2>1, Typing DEF IInv, Users
<1> DEFINE n == [users[u] EXCEPT !.pw = @ + 1, !.verified = FALSE]
<1>3. n \in Users /\ n.live /\ n.proven /\ ~n.verified /\ users' = [users EXCEPT ![u] = n]
  BY <1>1, <1>2 DEF Users, Live
<1> HIDE DEF n
<1>4. /\ users' \in Seq(Users) /\ DOMAIN users' = DOMAIN users /\ Len(users') = Len(users)
      /\ users'[u] = n /\ \A v \in DOMAIN users \ {u} : users'[v] = users[v]
      /\ u \in DOMAIN users /\ Live = {u} /\ Live' = {u} /\ u # 0
  BY <1>3, UserBecomes, Typing DEF IInv
<1>5. /\ req' \in [Requests -> Locals]
      /\ \A q \in Requests :
           /\ req'[q] = req[q] \/ req[q].pc \in {"stamp", "open"}
           /\ req'[q].pc = req[q].pc /\ req'[q].user = req[q].user
           /\ req'[q].pw = req[q].pw /\ req'[q].row = req[q].row
           /\ req[q].pc \in {"stamp", "open"} /\ req[q].user = u => req'[q].late
  <2>1. req \in [Requests -> Locals] /\ req' = Overtaken(req, u)
    BY <1>1 DEF IInv, Shape
  <2> QED
    BY <2>1, OvertakenEffect
<1>6. /\ links' \in Seq(Links) /\ DOMAIN links' = DOMAIN links
      /\ \A l \in DOMAIN links :
           /\ links'[l].user = links[l].user
           /\ links[l].state = "gone" => links'[l].state = "gone"
           /\ links[l].state \notin {"live", "expired"} =>
                links'[l].state \notin {"live", "expired"}
  <2>1. PICK f : f = links'
    OBVIOUS
  <2>2. f = [l \in DOMAIN links |-> f[l]]
        /\ \A l \in DOMAIN links :
             f[l] = links[l] \/ \E st \in {"used", "gone"} : f[l] = [links[l] EXCEPT !.state = st]
    BY <1>1, <2>1
  <2>3. \A l \in DOMAIN links : links[l].state = "gone" => links'[l].state = "gone"
    BY <1>1
  <2> QED
    BY <2>1, <2>2, <2>3, LinksRewritten DEF IInv
<1>7. /\ row' \in RowOf(Live \cup {0}) /\ row'.n = row.n /\ row'.exists = row.exists
      /\ row'.owner = 0
  <2>1. row \in RowOf(Live \cup {0})
    BY DEF IInv, Shape, RowOf
  <2>2. CASE row.exists /\ row.owner = u
    <3> DEFINE m == [row EXCEPT !.owner = 0, !.badge = IF @ = "active" THEN "revoked" ELSE @]
    <3>1. m \in RowOf(Live \cup {0}) /\ m.n = row.n /\ m.exists = row.exists /\ m.owner = 0
      BY <2>1 DEF RowOf
    <3>2. row' = m
      BY <1>1, <2>2
    <3> HIDE DEF m
    <3> QED
      BY <3>1, <3>2
  <2>3. CASE ~(row.exists /\ row.owner = u)
    <3>1. row.owner = u \/ row.owner = 0
      BY <1>4, <2>1 DEF RowOf
    <3>2. row.owner = 0
      BY <2>3, <3>1, Zenon DEF IInv, RowInv
    <3> QED
      BY <1>1, <2>1, <2>3, <3>2
  <2> QED
    BY <2>2, <2>3
<1>8. sessions' = {}
  BY <1>1, <1>4 DEF IInv, Shape
<1>9. Shape'
  <2>1. \A l \in DOMAIN links' : links'[l].state # "gone" => links'[l].user \in Live'
    BY <1>4, <1>6 DEF IInv, Shape
  <2> QED
    BY <1>1, <1>4, <1>5, <1>6, <1>7, <1>8, <2>1 DEF IInv, Shape, RowOf
<1>10. SessionsInv'
  <2>1. SessionsCurrent'
    BY <1>8 DEF SessionsCurrent
  <2>2. ASSUME NEW q \in Requests PROVE LoginOK(q)'
    BY <1>4, <1>5 DEF IInv, SessionsInv, LoginOK
  <2>3. ASSUME NEW q \in Requests PROVE HeldOK(q)'
    <3>1. req'[q].pc # "resetCommit"
      BY <1>1, <1>4, <1>5 DEF IInv, SessionsInv, HeldOK, Unheld
    <3> QED
      BY <3>1 DEF HeldOK
  <2> QED
    BY <2>1, <2>2, <2>3 DEF SessionsInv
<1>11. LinksInv' /\ ResetsInv'
  <2>1. \A q \in Requests : req'[q] = req[q] \/ req'[q].pc \in {"stamp", "open"}
    BY <1>5
  <2> QED
    BY <1>1, <1>6, <2>1, LinksKept, ResetsKept DEF IInv, ResetsInv, VerifyPhases
<1>12. RowInv'
  <2>1. \A v \in DOMAIN users' : users'[v].verified => users'[v].proven
    BY <1>3, <1>4 DEF IInv, RowInv
  <2>2. BadgeNeedsProof'
    <3>1. row'.owner # 0 => row'.owner = u /\ users'[u].proven
      BY <1>3, <1>4, <1>7 DEF RowOf
    <3> QED
      BY <3>1 DEF BadgeNeedsProof
  <2>3. ASSUME NEW q \in Requests PROVE RowOK(q)' /\ ListingOK(q)'
    <3>1. users'[u].proven /\ (req'[q].user \in Live' => req'[q].user = u)
      BY <1>3, <1>4
    <3>2. CASE req'[q] = req[q]
      BY <1>7, <3>1, <3>2 DEF IInv, RowInv, RowOK, ListingOK, Proven, Same
    <3>3. CASE req'[q].pc \in {"stamp", "open"}
      BY <1>5, <1>7, <3>3 DEF IInv, RowInv, RowOK, ListingOK, Listed
    <3> QED
      BY <1>5, <3>2, <3>3
  <2> QED
    BY <1>7, <2>1, <2>2, <2>3 DEF IInv, RowInv
<1> QED
  BY <1>9, <1>10, <1>11, <1>12 DEF IInv

LEMMA ResetClaimStep ==
  ASSUME IInv, NEW r \in Requests, NEW t \in DOMAIN resets, ResetClaim(r, t)
  PROVE  IInv'
<1>0. /\ UNCHANGED <<users, sessions, links, resets, row>> /\ resets[t].state = "live"
      /\ \A q \in Requests :
           /\ req[q].pc \in {"reset", "resetCommit"} => req[q].tok # t
           /\ req[q].pc = "resetCommit" /\ req[q].user = resets[t].user => t > req[q].seen
      /\ Begin(r, [NoReq EXCEPT !.pc = "reset", !.user = resets[t].user, !.tok = t])
  BY DEF ResetClaim
<1>1. resets[t].user \in Ids /\ resets[t].user <= Len(users) /\ t \in Nat
  BY Typing DEF IInv, Shape, Resets
<1> DEFINE n == [NoReq EXCEPT !.pc = "reset", !.user = resets[t].user, !.tok = t]
<1>2. n \in Locals /\ n.pc = "reset" /\ n.user = resets[t].user /\ n.tok = t /\ n.row = 0
  BY <1>1, Nobody DEF Locals, Phases
<1>3. Begin(r, n)
  BY <1>0
<1> HIDE DEF n
<1>4. /\ req' \in [Requests -> Locals] /\ req'[r] = n
      /\ \A q \in Requests \ {r} : req'[q] = req[q]
  BY <1>2, <1>3, BeginEffect DEF IInv
<1>5. Shape' /\ Live' = Live
  BY <1>0, <1>1, <1>2, <1>4, ShapeKept, UsersStand DEF IInv, Shape
<1>6. SessionsInv' /\ LinksInv'
  BY <1>0, <1>2, <1>4, <1>5, SessionsKept, LinksKept DEF IInv, SessionsInv, HeldOK, VerifyPhases
<1>7. ResetsInv'
  <2>1. ~resets[t].stale
    BY <1>0 DEF IInv, ResetsInv
  <2>2. ASSUME NEW q \in Requests PROVE ResetOK(q)'
    BY <1>0, <1>2, <1>4, <2>1 DEF IInv, ResetsInv, ResetOK
  <2> QED
    BY <1>0, <2>2 DEF IInv, ResetsInv
<1>8. RowInv'
  BY <1>0, <1>2, <1>4, <1>5, ProvenStands, RowKept DEF IInv, Writing
<1> QED
  BY <1>5, <1>6, <1>7, <1>8 DEF IInv

\* The user is held, and what is there of sessions and links is doomed.
LEMMA ResetWorkStep == ASSUME IInv, NEW r \in Requests, ResetWork(r) PROVE IInv'
<1>0. /\ UNCHANGED <<users, sessions, links, resets, row>>
      /\ req[r].pc = "reset" /\ Unheld(req[r].user)
  BY DEF ResetWork
<1>1. CASE Over(r)
  BY <1>0, <1>1, FailStep DEF Fail
<1>2. ASSUME NEW u \in Live, u = req[r].user, users[u].pw < MaxPw,
             \A q \in Requests \ {r} : req[q].pc = "reset" => req[q].user # u,
             NEW doomed, doomed = {s \in sessions : s.user = u},
             req' = [Overtaken(req, u) EXCEPT
                       ![r] = [@ EXCEPT !.pc = "resetCommit", !.seen = Len(resets),
                                        !.doomed = doomed]]
      PROVE  IInv'
  <2>1. PICK l : l = Overtaken(req, u)
    OBVIOUS
  <2>2. /\ l \in [Requests -> Locals] /\ l[r] = req[r]
        /\ \A q \in Requests :
             /\ l[q] = req[q] \/ req[q].pc \in {"stamp", "open"}
             /\ l[q].pc = req[q].pc /\ l[q].user = req[q].user
             /\ l[q].pw = req[q].pw /\ l[q].row = req[q].row
             /\ req[q].late => l[q].late
             /\ req[q].pc \in {"stamp", "open"} /\ req[q].user = u => l[q].late
    BY <1>0, <2>1, OvertakenEffect DEF IInv, Shape
  <2> DEFINE n == [req[r] EXCEPT !.pc = "resetCommit", !.seen = Len(resets), !.doomed = doomed]
  <2>3. /\ n \in Locals /\ n.pc = "resetCommit" /\ n.user = u /\ n.tok = req[r].tok
        /\ n.doomed = doomed /\ n.row = req[r].row
    <3>1. req[r] \in Locals /\ Len(resets) \in Nat
      BY Typing DEF IInv, Shape
    <3>2. doomed \in SUBSET Opened
      <4>1. \A s \in sessions : s \in Opened
        BY Typing DEF IInv, Shape, Opened
      <4> QED
        BY <1>2, <4>1
    <3> QED
      BY <1>2, <3>1, <3>2 DEF Locals, Phases
  <2>4. req' = [l EXCEPT ![r] = n]
    BY <1>2, <2>1, <2>2
  <2> HIDE DEF n
  <2>5. /\ req' \in [Requests -> Locals] /\ req'[r] = n
        /\ \A q \in Requests \ {r} : req'[q] = l[q]
    BY <2>2, <2>3, <2>4
  <2>6. Shape' /\ Live' = Live /\ Live = {u}
    <3>0. req'[r].user = req[r].user
      BY <1>2, <2>3, <2>5
    <3>1. \A q \in Requests : req'[q].user = req[q].user
      BY <2>2, <2>5, <3>0
    <3> QED
      BY <1>0, <2>5, <3>1, ShapeKept, UsersStand DEF IInv, Shape
  <2>7. SessionsInv'
    <3>1. SessionsCurrent'
      BY <1>0 DEF IInv, SessionsInv, SessionsCurrent
    <3>2. ASSUME NEW q \in Requests PROVE LoginOK(q)'
      BY <1>0, <2>2, <2>3, <2>5, <2>6 DEF IInv, SessionsInv, LoginOK
    <3>3. \A q \in Requests \ {r} : req'[q].pc # "resetCommit"
      BY <1>0, <1>2, <2>2, <2>5, <2>6 DEF IInv, SessionsInv, HeldOK, Unheld
    <3>4. HeldOK(r)'
      <4>1. \A q \in Requests : req'[q].pc = "open" /\ req'[q].user = u => req'[q].late
        BY <2>2, <2>3, <2>5
      <4>2. \A s \in sessions : s.user = u => s \in req'[r].doomed
        BY <1>2, <2>3, <2>5
      <4>3. req'[r].user = u /\ users'[u].pw < MaxPw
        BY <1>0, <1>2, <2>3, <2>5
      <4> QED
        BY <1>0, <2>6, <3>3, <4>1, <4>2, <4>3 DEF HeldOK
    <3>5. ASSUME NEW q \in Requests PROVE HeldOK(q)'
      BY <3>3, <3>4 DEF HeldOK
    <3> QED
      BY <3>1, <3>2, <3>5 DEF SessionsInv
  <2>8. LinksInv'
    <3>1. \A q \in Requests : req'[q] = req[q] \/ req'[q].pc \notin VerifyPhases
      BY <2>2, <2>3, <2>5 DEF VerifyPhases
    <3> QED
      BY <1>0, <3>1, LinksKept DEF IInv
  <2>9. ResetsInv'
    <3>1. \A q \in Requests \ {r} :
            req'[q] = req[q] \/ req'[q].pc \notin {"reset", "resetCommit"}
      BY <2>2, <2>5
    <3>2. ASSUME NEW q \in Requests PROVE ResetOK(q)'
      <4>0. ResetOK(q) /\ ResetOK(r)
        BY DEF IInv, ResetsInv
      <4>1. CASE q = r
        <5>1. /\ req[r].tok \in DOMAIN resets /\ resets[req[r].tok].user = u
              /\ ~resets[req[r].tok].stale
              /\ \A p \in Requests \ {r} :
                   req[p].pc \in {"reset", "resetCommit"} => req[p].tok # req[r].tok
          BY <1>0, <1>2, <4>0 DEF ResetOK
        <5>2. \A p \in Requests \ {r} :
                req'[p].pc \in {"reset", "resetCommit"} => req'[p].tok # req[r].tok
          BY <3>1, <5>1
        <5> QED
          BY <1>0, <2>3, <2>5, <4>1, <5>1, <5>2 DEF ResetOK
      <4>2. CASE q # r /\ req'[q].pc \in {"reset", "resetCommit"}
        <5>1. req'[q] = req[q]
          BY <3>1, <4>2
        <5>2. /\ req[q].tok \in DOMAIN resets /\ resets[req[q].tok].user = req[q].user
              /\ ~resets[req[q].tok].stale
              /\ \A p \in Requests \ {q} :
                   req[p].pc \in {"reset", "resetCommit"} => req[p].tok # req[q].tok
          BY <4>0, <4>2, <5>1 DEF ResetOK
        <5>3. req'[q].pc = "reset" => req'[q].user # u
          BY <1>2, <4>2, <5>1
        <5>4. \A p \in Requests \ {q} :
                req'[p].pc \in {"reset", "resetCommit"} => req'[p].tok # req[q].tok
          BY <1>0, <2>3, <2>5, <3>1, <5>2
        <5>5. \A p \in Requests \ {q} :
                req'[q].pc = "reset" /\ req'[p].pc = "resetCommit" /\ req'[p].user = req'[q].user
                  => req'[q].tok > req'[p].seen
          <6> SUFFICES ASSUME NEW p \in Requests \ {q}, req'[q].pc = "reset",
                              req'[p].pc = "resetCommit", req'[p].user = req'[q].user
                       PROVE  req'[q].tok > req'[p].seen
            OBVIOUS
          <6>1. p # r
            BY <2>3, <2>5, <5>3
          <6> QED
            BY <3>1, <4>0, <5>1, <6>1 DEF ResetOK
        <5> QED
          BY <1>0, <5>1, <5>2, <5>4, <5>5 DEF ResetOK
      <4> QED
        BY <2>3, <2>5, <4>1, <4>2 DEF ResetOK
    <3> QED
      BY <1>0, <3>2 DEF IInv, ResetsInv
  <2>10. RowInv'
    <3>1. \A q \in Requests :
            \/ req'[q] = req[q]
            \/ req'[q].row \in {0, req[q].row} /\ req'[q].pc \notin Writing
      BY <2>2, <2>3, <2>5 DEF Writing
    <3> QED
      BY <1>0, <2>6, <3>1, ProvenStands, RowKept DEF IInv
  <2> QED
    BY <2>6, <2>7, <2>8, <2>9, <2>10 DEF IInv
<1>3. CASE /\ req[r].user \in Live /\ users[req[r].user].pw < MaxPw
           /\ \A q \in Requests \ {r} : req[q].pc = "reset" => req[q].user # req[r].user
           /\ req' = [Overtaken(req, req[r].user) EXCEPT
                        ![r] = [@ EXCEPT !.pc = "resetCommit", !.seen = Len(resets),
                                         !.doomed = {s \in sessions : s.user = req[r].user}]]
  <2>1. PICK u \in Live : u = req[r].user
    BY <1>3
  <2>2. PICK doomed : doomed = {s \in sessions : s.user = u}
    OBVIOUS
  <2> QED
    BY <1>2, <1>3, <2>1, <2>2
<1> QED
  BY <1>0, <1>1, <1>3 DEF ResetWork

\* The password is replaced: what was met goes, and what was not met is late.
LEMMA ResetCommitStep == ASSUME IInv, NEW r \in Requests, ResetCommit(r) PROVE IInv'
<1>1. PICK u \in Live : u = req[r].user
  BY DEF ResetCommit, IInv, SessionsInv, HeldOK
<1>2. PICK k : k = req[r].seen
  OBVIOUS
<1>3. /\ req[r].pc = "resetCommit" /\ users' = [users EXCEPT ![u].pw = @ + 1]
      /\ sessions' = sessions \ req[r].doomed
      /\ resets' = Burn(u, k, req[r].tok)
      /\ req' = [Overtaken(req, u) EXCEPT ![r] = NoReq]
      /\ UNCHANGED <<links, row>>
  BY <1>1, <1>2 DEF ResetCommit, Doomed
<1>4. users[u] \in Users /\ users[u].pw + 1 \in 1..MaxPw
  <2>1. users[u] \in Users /\ users[u].pw < MaxPw
    BY <1>1, <1>3, Typing DEF IInv, SessionsInv, HeldOK
  <2> QED
    BY <2>1, Typing DEF IInv, Users
<1> DEFINE n == [users[u] EXCEPT !.pw = @ + 1]
<1>5. /\ n \in Users /\ n.live /\ n.proven = users[u].proven /\ n.verified = users[u].verified
      /\ users' = [users EXCEPT ![u] = n]
  BY <1>3, <1>4 DEF Users, Live
<1> HIDE DEF n
<1>6. /\ users' \in Seq(Users) /\ DOMAIN users' = DOMAIN users /\ Len(users') = Len(users)
      /\ users'[u] = n /\ \A v \in DOMAIN users \ {u} : users'[v] = users[v]
      /\ u \in DOMAIN users /\ Live = {u} /\ Live' = {u} /\ u # 0
  BY <1>5, UserBecomes, Typing DEF IInv
<1>7. /\ req' \in [Requests -> Locals] /\ req'[r] = NoReq
      /\ \A q \in Requests \ {r} :
           /\ req'[q] = req[q] \/ req[q].pc \in {"stamp", "open"}
           /\ req'[q].pc = req[q].pc /\ req'[q].user = req[q].user
           /\ req'[q].pw = req[q].pw /\ req'[q].row = req[q].row
           /\ req[q].pc \in {"stamp", "open"} /\ req[q].user = u => req'[q].late
  <2>1. PICK l : l = Overtaken(req, u)
    OBVIOUS
  <2>2. l \in [Requests -> Locals] /\ req' = [l EXCEPT ![r] = NoReq]
    BY <1>3, <2>1, OvertakenEffect DEF IInv, Shape
  <2> QED
    BY <2>1, <2>2, Nobody, OvertakenEffect DEF IInv, Shape
<1>8. /\ resets' \in Seq(Resets) /\ DOMAIN resets' = DOMAIN resets
      /\ \A t \in DOMAIN resets :
           /\ resets'[t].user = resets[t].user
           /\ resets'[t] = resets[t] \/ resets'[t].state = "used"
           /\ resets'[t].stale => resets[t].stale \/ (t <= k /\ resets[t].user = u)
  <2>1. resets \in Seq(Resets) /\ resets \in [DOMAIN resets -> Resets]
    BY Typing DEF IInv, Shape
  <2>2. ASSUME NEW t \in DOMAIN resets
        PROVE  /\ resets'[t] \in Resets /\ resets'[t].user = resets[t].user
               /\ resets'[t] = resets[t] \/ resets'[t].state = "used"
               /\ resets'[t] = resets[t] \/ (t <= k /\ resets[t].user = u)
    <3>1. resets[t] \in Resets
      BY <2>1
    <3>2. resets'[t] = IF t \in Outstanding(u, k)
                         THEN [resets[t] EXCEPT !.stale = TRUE, !.state = "used"] ELSE resets[t]
      BY <1>3 DEF Burn
    <3>3. t \in Outstanding(u, k) => t <= k /\ resets[t].user = u
      <4>1. t \in Nat /\ k \in Nat
        BY <1>2, Typing DEF IInv, Shape, Locals
      <4> QED
        BY <4>1 DEF Outstanding
    <3>4. CASE t \in Outstanding(u, k)
      BY <3>1, <3>2, <3>3, <3>4 DEF Resets
    <3> QED
      BY <3>1, <3>2, <3>4
  <2>3. resets' \in [DOMAIN resets -> Resets]
    <3>1. DOMAIN resets' = DOMAIN resets /\ resets' = [t \in DOMAIN resets |-> resets'[t]]
      BY <1>3 DEF Burn
    <3> QED
      BY <2>2, <3>1
  <2>4. resets' \in Seq(Resets)
    BY <2>1, <2>3, SameLength
  <2> QED
    BY <2>2, <2>3, <2>4
<1>9. Shape'
  <2>1. \A q \in Requests : req'[q].user <= Len(users)
    <3>1. NoReq.user <= Len(users)
      BY Nobody, Typing DEF IInv
    <3> QED
      BY <1>7, <3>1 DEF IInv, Shape
  <2>2. sessions' \subseteq sessions
    BY <1>3
  <2> QED
    BY <1>3, <1>6, <1>7, <1>8, <2>1, <2>2 DEF IInv, Shape
<1>10. SessionsInv'
  <2>1. SessionsCurrent'
    <3>1. \A s \in sessions : s.user = u
      BY <1>6 DEF IInv, Shape
    <3> QED
      BY <1>1, <1>3, <3>1 DEF IInv, SessionsInv, HeldOK, SessionsCurrent
  <2>2. ASSUME NEW q \in Requests PROVE LoginOK(q)'
    BY <1>6, <1>7, Nobody DEF IInv, SessionsInv, LoginOK
  <2>3. ASSUME NEW q \in Requests PROVE HeldOK(q)'
    <3>1. req'[q].pc # "resetCommit"
      BY <1>1, <1>3, <1>6, <1>7, Nobody DEF IInv, SessionsInv, HeldOK
    <3> QED
      BY <3>1 DEF HeldOK
  <2> QED
    BY <2>1, <2>2, <2>3 DEF SessionsInv
<1>11. LinksInv'
  <2>1. \A q \in Requests : req'[q] = req[q] \/ req'[q].pc \notin VerifyPhases
    BY <1>7, Nobody DEF VerifyPhases
  <2> QED
    BY <1>3, <2>1, LinksKept DEF IInv
<1>12. ResetsInv'
  <2>1. \A t \in DOMAIN resets' : resets'[t].stale => resets'[t].state # "live"
    BY <1>8 DEF IInv, ResetsInv
  <2>2. ASSUME NEW q \in Requests PROVE ResetOK(q)'
    <3>1. CASE req'[q].pc \notin {"reset", "resetCommit"}
      BY <3>1 DEF ResetOK
    <3>2. CASE req'[q].pc \in {"reset", "resetCommit"}
      <4>1. q # r /\ req'[q] = req[q]
        BY <1>7, <3>2, Nobody
      <4>2. \A p \in Requests : req'[p].pc # "resetCommit"
        BY <1>1, <1>3, <1>6, <1>7, Nobody DEF IInv, SessionsInv, HeldOK
      <4>3. /\ req[q].tok \in DOMAIN resets /\ resets[req[q].tok].user = req[q].user
            /\ ~resets[req[q].tok].stale
            /\ \A p \in Requests \ {q} :
                 req[p].pc \in {"reset", "resetCommit"} => req[p].tok # req[q].tok
            /\ req[q].user = u => req[q].tok > k
        <5>1. ResetOK(q) /\ req[q].pc = "reset"
          BY <3>2, <4>1, <4>2 DEF IInv, ResetsInv
        <5> QED
          BY <1>1, <1>2, <1>3, <4>1, <5>1 DEF ResetOK
      <4>4. ~resets'[req[q].tok].stale
        <5>1. req[q].tok \in Nat /\ k \in Nat
          BY <1>2 DEF IInv, Shape, Locals
        <5> QED
          BY <1>8, <4>3, <5>1
      <4>5. \A p \in Requests \ {q} :
              req'[p].pc \in {"reset", "resetCommit"} => req'[p].tok # req'[q].tok
        BY <1>7, <4>1, <4>3, Nobody
      <4> QED
        BY <1>8, <4>1, <4>2, <4>3, <4>4, <4>5 DEF ResetOK
    <3> QED
      BY <3>1, <3>2
  <2> QED
    BY <2>1, <2>2 DEF ResetsInv
<1>13. RowInv'
  <2>1. UsersAge /\ \A v \in DOMAIN users' : users'[v].verified => users'[v].proven
    BY <1>5, <1>6, Typing DEF IInv, RowInv, UsersAge, Live
  <2>2. \A q \in Requests :
          \/ req'[q] = req[q]
          \/ req'[q].row \in {0, req[q].row} /\ req'[q].pc \notin Writing
    BY <1>7, Nobody DEF Writing
  <2> QED
    BY <1>3, <1>9, <2>1, <2>2, RowKept DEF IInv
<1> QED
  BY <1>9, <1>10, <1>11, <1>12, <1>13 DEF IInv

-----------------------------------------------------------------------------
(* The deletion of the account                                              *)

\* A deletion goes on to what its listings say of the registration as it is now.
LEMMA ListingStep ==
  ASSUME IInv, UNCHANGED <<users, sessions, links, resets, row>>, NEW r \in Requests,
         NEW n \in Locals, req' = [req EXCEPT ![r] = n], n.user = req[r].user,
         n.pc \in {"own", "own+"} \cup Listed, n.row <= row.n,
         n.pc \in {"own", "own+", "unclaimed"} => n.row = 0,
         n.pc \in {"own+", "unclaimed"} /\ n.user \in Live => Proven(n.user),
         n.pc \in Listed => n.seen <= row.n,
         n.pc \in Listed /\ n.user \in Live /\ row.exists =>
           /\ n.seen = row.n => row.owner = n.user \/ Proven(n.user)
           /\ n.row = row.n => Proven(n.user)
  PROVE  IInv'
<1>1. /\ req' \in [Requests -> Locals] /\ req'[r] = n
      /\ \A q \in Requests \ {r} : req'[q] = req[q]
  BY Moves DEF IInv
<1>2. RowInv'
  <2>1. BadgeNeedsProof'
    BY DEF IInv, RowInv, BadgeNeedsProof
  <2>2. Live' = Live
    BY UsersStand DEF IInv
  <2>3. ASSUME NEW q \in Requests PROVE RowOK(q)' /\ ListingOK(q)'
    <3>1. CASE q = r
      BY <1>1, <2>2, <3>1 DEF RowOK, ListingOK, Listed, Proven
    <3>2. CASE q # r
      BY <1>1, <2>2, <3>2 DEF IInv, RowInv, RowOK, ListingOK, Proven, Same
    <3> QED
      BY <3>1, <3>2
  <2> QED
    BY <2>1, <2>3 DEF IInv, RowInv
<1>3. row' \in RowOf(Live \cup {0}) /\ req'[r].user <= Len(users)
  BY <1>1 DEF IInv, Shape, RowOf
<1> QED
  BY <1>1, <1>2, <1>3, RowStep DEF VerifyPhases, Listed

\* The unclaimed ones are asked for only of an address that is proven.
LEMMA DeleteFindStep == ASSUME IInv, NEW r \in Requests, DeleteFind(r) PROVE IInv'
<1>0. UNCHANGED <<users, sessions, links, resets, row>> /\ req[r].pc = "find"
  BY DEF DeleteFind
<1>1. CASE Over(r)
  BY <1>0, <1>1, FailStep DEF Fail
<1>2. CASE req[r].user \in Live /\ Goto(r, Listings(req[r].user))
  <2>1. PICK phase \in {"own", "own+"} : phase = Listings(req[r].user)
    BY DEF Listings
  <2>2. phase = "own+" => Proven(req[r].user)
    BY <1>2, <2>1, Typing DEF IInv, RowInv, Listings, Proven
  <2> DEFINE n == [req[r] EXCEPT !.pc = phase]
  <2>3. n \in Locals /\ n.pc = phase /\ n.user = req[r].user /\ n.row = req[r].row
    <3>1. req[r] \in Locals
      BY DEF IInv, Shape
    <3> QED
      BY <3>1 DEF Locals, Phases
  <2>4. req' = [req EXCEPT ![r] = n]
    BY <1>2, <2>1 DEF Goto
  <2> HIDE DEF n
  <2>5. req[r].row = 0 /\ req[r].row <= row.n
    BY <1>0 DEF IInv, RowInv, RowOK, ListingOK
  <2> QED
    BY <1>0, <2>2, <2>3, <2>4, <2>5, ListingStep DEF Listed
<1> QED
  BY <1>0, <1>1, <1>2 DEF DeleteFind

\* What the first listing finds is the account's own.
LEMMA DeleteOwnStep == ASSUME IInv, NEW r \in Requests, DeleteOwn(r) PROVE IInv'
<1>1. PICK k : k = IF row.exists /\ row.owner = req[r].user THEN row.n ELSE 0
  OBVIOUS
<1>2. PICK phase : phase = IF req[r].pc = "own" THEN "delete" ELSE "unclaimed"
  OBVIOUS
<1> DEFINE n == [req[r] EXCEPT !.pc = phase, !.seen = k]
<1>3. /\ UNCHANGED <<users, sessions, links, resets, row>> /\ req[r].pc \in {"own", "own+"}
      /\ req' = [req EXCEPT ![r] = n]
  BY <1>1, <1>2 DEF DeleteOwn
<1>4. /\ row.n \in Nat /\ k \in Nat /\ k <= row.n /\ req[r] \in Locals
      /\ row.exists /\ k = row.n => row.owner = req[r].user
  BY <1>1, AccountAssumption DEF IInv, Shape, RowInv
<1>5. /\ n \in Locals /\ n.pc = phase /\ n.user = req[r].user /\ n.row = req[r].row
      /\ n.seen = k /\ phase \in Listed
  BY <1>2, <1>4 DEF Locals, Phases, Listed
<1> HIDE DEF n
<1>6. /\ req[r].row = 0 /\ req[r].row <= row.n /\ (row.exists => row.n # 0)
      /\ req[r].pc = "own+" /\ req[r].user \in Live => Proven(req[r].user)
  BY <1>3 DEF IInv, RowInv, RowOK, ListingOK
<1>7. phase = "unclaimed" => req[r].pc = "own+"
  BY <1>2, <1>3
<1> QED
  BY <1>3, <1>4, <1>5, <1>6, <1>7, ListingStep DEF Listed

\* What the second one finds is of an address that is proven.
LEMMA DeleteUnclaimedStep == ASSUME IInv, NEW r \in Requests, DeleteUnclaimed(r) PROVE IInv'
<1>1. PICK k : k = IF row.exists /\ row.owner = 0 THEN row.n ELSE 0
  OBVIOUS
<1> DEFINE n == [req[r] EXCEPT !.pc = "delete", !.row = k]
<1>2. /\ UNCHANGED <<users, sessions, links, resets, row>> /\ req[r].pc = "unclaimed"
      /\ req' = [req EXCEPT ![r] = n]
  BY <1>1 DEF DeleteUnclaimed
<1>3. /\ row.n \in Nat /\ k \in Nat /\ k <= row.n /\ req[r] \in Locals
  BY <1>1, AccountAssumption DEF IInv, Shape
<1>4. /\ n \in Locals /\ n.pc = "delete" /\ n.user = req[r].user /\ n.row = k
      /\ n.seen = req[r].seen
  BY <1>3 DEF Locals, Phases
<1> HIDE DEF n
<1>5. /\ req[r].user \in Live => Proven(req[r].user)
      /\ req[r].seen <= row.n
  BY <1>2 DEF IInv, RowInv, ListingOK, Listed
<1> QED
  BY <1>2, <1>3, <1>4, <1>5, ListingStep DEF Listed

\* The user goes with all that is its own.
LEMMA DeleteCommitStep == ASSUME IInv, NEW r \in Requests, DeleteCommit(r) PROVE IInv'
<1>0. /\ req[r].pc = "delete" /\ Unheld(req[r].user) /\ Over(r)
      /\ req' \in [Requests -> Locals] /\ req'[r] = NoReq
      /\ \A q \in Requests \ {r} : req'[q] = req[q]
  BY OverEffect DEF IInv, DeleteCommit
<1>1. CASE UNCHANGED <<users, sessions, links, resets, row>>
  BY <1>0, <1>1, FailStep DEF Fail
<1>2. CASE req[r].user \in Live
  <2>1. PICK u \in Live : u = req[r].user
    BY <1>2
  <2>2. /\ row' = IF Found(r) THEN [Row(row.n, 0) EXCEPT !.exists = FALSE]
                  ELSE IF row.exists /\ row.owner = u THEN [row EXCEPT !.owner = 0] ELSE row
        /\ users' = [users EXCEPT ![u].live = FALSE, ![u].verified = FALSE]
        /\ sessions' = {s \in sessions : s.user # u}
        /\ links' = Gone(links, u) /\ resets' = Gone(resets, u)
    BY <2>1 DEF DeleteCommit
  <2> DEFINE n == [users[u] EXCEPT !.live = FALSE, !.verified = FALSE]
  <2>3. /\ n \in Users /\ ~n.live /\ ~n.verified /\ n.proven = users[u].proven
        /\ users' = [users EXCEPT ![u] = n]
    <3>1. users[u] \in Users
      BY Typing DEF IInv
    <3> QED
      BY <2>2, <3>1 DEF Users
  <2> HIDE DEF n
  <2>4. /\ users' \in Seq(Users) /\ DOMAIN users' = DOMAIN users /\ Len(users') = Len(users)
        /\ users'[u] = n /\ \A v \in DOMAIN users \ {u} : users'[v] = users[v]
        /\ u \in DOMAIN users /\ Live = {u} /\ Live' = {} /\ u # 0
    BY <2>3, UserBecomes, Typing DEF IInv
  <2>5. sessions' = {}
    BY <2>2, <2>4 DEF IInv, Shape
  <2>6. /\ links' \in Seq(Links) /\ DOMAIN links' = DOMAIN links
        /\ \A l \in DOMAIN links :
             links[l].state \notin {"live", "expired"} => links'[l].state \notin {"live", "expired"}
        /\ \A l \in DOMAIN links' : links'[l].state = "gone"
    <3>1. PICK f : f = links'
      OBVIOUS
    <3>2. /\ f = [l \in DOMAIN links |-> f[l]]
          /\ \A l \in DOMAIN links :
               f[l] = links[l] \/ \E st \in {"used", "gone"} : f[l] = [links[l] EXCEPT !.state = st]
      BY <2>2, <3>1 DEF Gone
    <3>3. \A l \in DOMAIN links : f[l].state = "gone"
      <4> SUFFICES ASSUME NEW l \in DOMAIN links PROVE f[l].state = "gone"
        OBVIOUS
      <4>1. links[l] \in Links
        BY Typing DEF IInv
      <4>2. CASE links[l].user = u
        BY <2>2, <3>1, <4>1, <4>2 DEF Gone, Links
      <4>3. CASE links[l].user # u
        <5>1. links[l].state = "gone"
          BY <2>4, <4>3 DEF IInv, Shape
        <5> QED
          BY <2>2, <3>1, <4>3, <5>1 DEF Gone
      <4> QED
        BY <4>2, <4>3
    <3> QED
      BY <3>1, <3>2, <3>3, LinksRewritten DEF IInv
  <2>7. /\ resets' \in Seq(Resets) /\ DOMAIN resets' = DOMAIN resets
        /\ \A t \in DOMAIN resets :
             /\ resets'[t].user = resets[t].user /\ resets'[t].stale = resets[t].stale
             /\ resets[t].state # "live" => resets'[t].state # "live"
    <3>1. resets \in Seq(Resets) /\ resets \in [DOMAIN resets -> Resets]
      BY Typing DEF IInv, Shape
    <3>2. ASSUME NEW t \in DOMAIN resets
          PROVE  /\ resets'[t] \in Resets
                 /\ resets'[t].user = resets[t].user /\ resets'[t].stale = resets[t].stale
                 /\ resets[t].state # "live" => resets'[t].state # "live"
      <4>1. resets[t] \in Resets
        BY <3>1
      <4>2. CASE resets'[t] = resets[t]
        BY <4>1, <4>2
      <4>3. CASE resets'[t] = [resets[t] EXCEPT !.state = "gone"]
        BY <4>1, <4>3 DEF Resets
      <4> QED
        BY <2>2, <4>2, <4>3 DEF Gone
    <3>3. resets' \in [DOMAIN resets -> Resets]
      <4>1. DOMAIN resets' = DOMAIN resets /\ resets' = [t \in DOMAIN resets |-> resets'[t]]
        BY <2>2 DEF Gone
      <4> QED
        BY <3>2, <4>1
    <3>4. resets' \in Seq(Resets)
      BY <3>1, <3>3, SameLength
    <3> QED
      BY <3>2, <3>3, <3>4
  <2>8. row' \in RowOf({0}) /\ row'.n = row.n /\ (row'.exists => row.exists)
    <3>1. row \in RowOf({u, 0}) /\ row.n \in 0..MaxRows
      BY <2>4 DEF IInv, Shape, RowOf
    <3>2. CASE Found(r)
      BY <2>2, <3>1, <3>2, RowErased
    <3>3. CASE ~Found(r) /\ row.exists /\ row.owner = u
      <4> DEFINE m == [row EXCEPT !.owner = 0]
      <4>1. m \in RowOf({0}) /\ m.n = row.n /\ m.exists = row.exists
        BY <3>1 DEF RowOf
      <4>2. row' = m
        BY <2>2, <3>3
      <4> HIDE DEF m
      <4> QED
        BY <4>1, <4>2
    <3>4. CASE ~Found(r) /\ ~(row.exists /\ row.owner = u)
      <4>1. row' = row
        BY <2>2, <3>4
      <4>2. row.owner = u \/ row.owner = 0
        BY <3>1 DEF RowOf
      <4>3. row.owner = 0
        BY <3>4, <4>2, Zenon DEF IInv, RowInv
      <4> QED
        BY <3>1, <4>1, <4>3 DEF RowOf
    <3> QED
      BY <3>2, <3>3, <3>4
  <2>9. Shape'
    <3>1. \A q \in Requests : req'[q].user <= Len(users)
      <4>1. NoReq.user <= Len(users)
        BY Nobody, Typing DEF IInv
      <4> QED
        BY <1>0, <4>1 DEF IInv, Shape
    <3> QED
      BY <1>0, <2>4, <2>5, <2>6, <2>7, <2>8, <3>1 DEF IInv, Shape, RowOf
  <2>10. SessionsInv'
    <3>1. SessionsCurrent'
      BY <2>5 DEF SessionsCurrent
    <3>2. ASSUME NEW q \in Requests PROVE LoginOK(q)'
      BY <1>0, <2>4, Nobody DEF IInv, SessionsInv, LoginOK
    <3>3. ASSUME NEW q \in Requests PROVE HeldOK(q)'
      <4>1. req'[q].pc # "resetCommit"
        BY <1>0, <2>1, <2>4, Nobody DEF IInv, SessionsInv, HeldOK, Unheld
      <4> QED
        BY <4>1 DEF HeldOK
    <3> QED
      BY <3>1, <3>2, <3>3 DEF SessionsInv
  <2>11. LinksInv' /\ ResetsInv'
    <3>1. \A q \in Requests : req'[q] = req[q] \/ req'[q].pc \notin VerifyPhases \cup {"reset", "resetCommit"}
      BY <1>0, Nobody DEF VerifyPhases
    <3> QED
      BY <2>6, <2>7, <3>1, LinksKept, ResetsKept DEF IInv
  <2>12. RowInv'
    <3>1. \A v \in DOMAIN users' : users'[v].verified => users'[v].proven
      BY <2>3, <2>4 DEF IInv, RowInv
    <3>2. row'.owner = 0 /\ row.n \in Nat
      BY <2>8, AccountAssumption DEF RowOf, IInv, Shape
    <3>3. ASSUME NEW q \in Requests PROVE RowOK(q)' /\ ListingOK(q)'
      BY <1>0, <2>4, <2>8, <3>2, Nobody DEF IInv, RowInv, RowOK, ListingOK, Listed
    <3> QED
      BY <2>8, <3>1, <3>2, <3>3 DEF IInv, RowInv, BadgeNeedsProof
  <2> QED
    BY <2>9, <2>10, <2>11, <2>12 DEF IInv
<1> QED
  BY <1>1, <1>2 DEF DeleteCommit

-----------------------------------------------------------------------------
(* The invariant                                                            *)

LEMMA InitHolds == Init => IInv
<1> SUFFICES ASSUME Init PROVE IInv
  OBVIOUS
<1>0. /\ users = <<>> /\ sessions = {} /\ links = <<>> /\ resets = <<>>
      /\ \A r \in Requests : req[r] = NoReq
  BY DEF Init
<1>1. PICK k \in {0, 1} : row = Row(k, 0)
  BY DEF Init
<1>2. row \in RowOf({0}) /\ row.n = k /\ row.owner = 0 /\ row.badge = "none"
      /\ (row.exists => row.n # 0)
  <2>1. k \in 0..MaxRows /\ 0 \in {0}
    BY AccountAssumption
  <2>2. /\ Row(k, 0) \in RowOf({0}) /\ Row(k, 0).n = k /\ Row(k, 0).owner = 0
        /\ Row(k, 0).badge = "none" /\ (Row(k, 0).exists => k # 0)
    BY <2>1, RowTyped
  <2> QED
    BY <1>1, <2>2
<1>3. /\ users \in Seq(Users) /\ links \in Seq(Links) /\ resets \in Seq(Resets)
      /\ Len(users) = 0 /\ DOMAIN users = {} /\ DOMAIN links = {} /\ DOMAIN resets = {}
  BY <1>0, EmptySeq
<1>4. Live = {}
  BY <1>3 DEF Live
<1>5. Shape
  <2>1. req \in [Requests -> Locals] /\ \A r \in Requests : req[r].user <= Len(users)
    BY <1>0, <1>3, Nobody DEF Init
  <2>2. Len(users) <= MaxUsers
    BY <1>3, AccountAssumption
  <2> QED
    BY <1>0, <1>2, <1>3, <1>4, <2>1, <2>2 DEF Shape, RowOf
<1>6. SessionsInv
  BY <1>0, Nobody DEF SessionsInv, SessionsCurrent, LoginOK, HeldOK
<1>7. LinksInv /\ ResetsInv
  BY <1>0, <1>3, Nobody DEF LinksInv, LinkOK, ResetsInv, ResetOK, Acting, VerifyPhases
<1>8. RowInv
  <2>1. \A r \in Requests : RowOK(r) /\ ListingOK(r)
    BY <1>0, <1>1, <1>2, Nobody DEF RowOK, ListingOK, Listed
  <2> QED
    BY <1>2, <1>3, <2>1 DEF RowInv, BadgeNeedsProof
<1> QED
  BY <1>5, <1>6, <1>7, <1>8 DEF IInv

LEMMA StepKeeps == IInv /\ [Next]_vars => IInv'
<1> SUFFICES ASSUME IInv, [Next]_vars PROVE IInv'
  OBVIOUS
<1>1. ASSUME NEW r \in Requests,
             \/ RegisterAccount(r) \/ LoginRead(r) \/ LoginStamp(r) \/ OpenSession(r)
             \/ VerifyClaim(r) \/ Verify(r) \/ ClaimParticipant(r) \/ Ensure(r)
             \/ BadgeCheck(r) \/ Issue(r) \/ ResetWork(r) \/ ResetCommit(r)
             \/ DeleteFind(r) \/ DeleteOwn(r) \/ DeleteUnclaimed(r) \/ DeleteCommit(r)
             \/ Fail(r)
      PROVE  IInv'
  BY <1>1, RegisterStep, LoginReadStep, LoginStampStep, OpenSessionStep, VerifyClaimStep,
     VerifyStep, ClaimStep, EnsureStep, BadgeCheckStep, IssueStep, ResetWorkStep,
     ResetCommitStep, DeleteFindStep, DeleteOwnStep, DeleteUnclaimedStep, DeleteCommitStep,
     FailStep
<1>2. ASSUME NEW r \in Requests,
             \/ \E t \in DOMAIN links : VerifyRead(r, t)
             \/ \E t \in DOMAIN resets : ResetClaim(r, t)
             \/ \E s \in sessions : RegisterToEvent(r, s) \/ DeleteStart(r, s)
      PROVE  IInv'
  BY <1>2, VerifyReadStep, ResetClaimStep, VisitStep
<1>3. CASE \/ \E s \in sessions : EndSession(s) \/ ResendVerification(s)
           \/ \E t \in DOMAIN links : Neutralize(t) \/ LinkAges(t)
           \/ \E t \in DOMAIN resets : ResetAges(t)
           \/ \E u \in Live : RequestReset(u)
           \/ DeleteRegistrant \/ RegenerateBadge
  BY <1>3, EndSessionStep, LinkStep, NeutralizeStep, ResetLinkStep, RegistrantStep,
     RegenerateStep
<1>4. CASE UNCHANGED vars
  <2>1. UNCHANGED <<users, sessions, links, resets, row, req>>
    BY <1>4 DEF vars
  <2>2. Shape'
    BY <2>1, ShapeKept DEF IInv, Shape
  <2> QED
    BY <2>1, <2>2, TableStep DEF IInv, ResetsInv
<1> QED
  BY <1>1, <1>2, <1>3, <1>4 DEF Next

LEMMA Invariance == Spec => []IInv
BY InitHolds, StepKeeps, PTL DEF Spec


-----------------------------------------------------------------------------
(* The theorems                                                             *)

\* Rows and locals stay what the schema and the code make them, with one account of the
\* address alive at most: the unique address refuses a second one, and the deletion takes
\* the sessions, the links and the registration's owner with it.
THEOREM TypeCorrect == Spec => []TypeOK
<1>1. ASSUME IInv PROVE TypeOK
  <2>1. Shape
    BY <1>1 DEF IInv
  <2>2. Cardinality(Live) <= 1
    <3>1. CASE Live = {}
      BY <3>1, FS_EmptySet
    <3>2. ASSUME NEW u \in Live PROVE Cardinality(Live) <= 1
      <4>1. Live = {u}
        BY <2>1 DEF Shape
      <4> QED
        BY <4>1, FS_Singleton
    <3> QED
      BY <3>1, <3>2
  <2>3. ASSUME NEW r \in Requests
        PROVE  req[r].pc \in Phases /\ req[r].user \in Ids /\ req[r].late \in BOOLEAN
    <3>1. req[r] \in Locals
      BY <2>1 DEF Shape
    <3> QED
      BY <3>1 DEF Locals
  <2> QED
    BY <2>1, <2>2, <2>3 DEF Shape, TypeOK, Users, Links, Resets
<1> QED
  BY <1>1, Invariance, PTL

\* "Kill every session for this user": whatever log-in, reset and give-back do to one
\* another, a session is of the current password of its account, unless its log-in had
\* compared the former one when it was replaced.
THEOREM SessionsCorrect == Spec => []SessionsCurrent
<1>1. IInv => SessionsCurrent
  BY DEF IInv, SessionsInv
<1> QED
  BY <1>1, Invariance, PTL

\* "Single-use is enforced atomically": a verification link and a reset link have one
\* request at most that acts on them, and a reset that waits to commit has a link that no
\* other reset has made stale.
THEOREM LinksCorrect == Spec => []LinksActOnce
<1>1. ASSUME IInv PROVE LinksActOnce
  <2>1. ASSUME NEW q \in Requests, NEW r \in Requests, q # r,
               {req[q].pc, req[r].pc} \subseteq VerifyPhases \ {"verifyClaim"}
        PROVE  req[q].tok # req[r].tok \/ req[q].tok = 0
    BY <1>1, <2>1 DEF IInv, LinksInv, Acting
  <2>2. ASSUME NEW q \in Requests, NEW r \in Requests, q # r,
               {req[q].pc, req[r].pc} \subseteq {"reset", "resetCommit"}
        PROVE  req[q].tok # req[r].tok
    BY <1>1, <2>2 DEF IInv, ResetsInv, ResetOK
  <2>3. ASSUME NEW r \in Requests, req[r].pc = "resetCommit"
        PROVE  ~resets[req[r].tok].stale
    BY <1>1, <2>3 DEF IInv, ResetsInv, ResetOK
  <2> QED
    BY <2>1, <2>2, <2>3 DEF LinksActOnce
<1> QED
  BY <1>1, Invariance, PTL

\* "The QR is issued only AFTER the account's email is verified": whichever of the
\* account's requests a badge is of, and whoever the registration is given to later, its
\* account has proven its address, unless an administrator has given the badge.
THEOREM BadgeCorrect == Spec => []BadgeNeedsProof
<1>1. IInv => BadgeNeedsProof
  BY DEF IInv, RowInv
<1> QED
  BY <1>1, Invariance, PTL


\* Who writes to the registration.
LEMMA RowStands ==
  ASSUME [Next]_vars,
         \A r \in Requests : ~(ClaimParticipant(r) \/ Ensure(r) \/ Issue(r) \/ DeleteCommit(r)),
         \A t \in DOMAIN links : ~Neutralize(t), ~DeleteRegistrant, ~RegenerateBadge
  PROVE  UNCHANGED row
<1>1. CASE UNCHANGED vars
  BY <1>1 DEF vars
<1>2. ASSUME NEW r \in Requests,
             \/ RegisterAccount(r) \/ LoginRead(r) \/ LoginStamp(r) \/ OpenSession(r)
             \/ VerifyClaim(r) \/ Verify(r) \/ BadgeCheck(r) \/ ResetWork(r) \/ ResetCommit(r)
             \/ DeleteFind(r) \/ DeleteOwn(r) \/ DeleteUnclaimed(r) \/ Fail(r)
             \/ \E t \in DOMAIN links : VerifyRead(r, t)
             \/ \E t \in DOMAIN resets : ResetClaim(r, t)
             \/ \E s \in sessions : RegisterToEvent(r, s) \/ DeleteStart(r, s)
      PROVE  UNCHANGED row
  BY <1>2 DEF RegisterAccount, LoginRead, LoginStamp, OpenSession, VerifyClaim, Verify,
     BadgeCheck, ResetWork, ResetCommit, DeleteFind, DeleteOwn, DeleteUnclaimed, Fail,
     VerifyRead, ResetClaim, RegisterToEvent, DeleteStart
<1>3. CASE \/ \E s \in sessions : EndSession(s) \/ ResendVerification(s)
           \/ \E t \in DOMAIN links : LinkAges(t)
           \/ \E t \in DOMAIN resets : ResetAges(t)
           \/ \E u \in Live : RequestReset(u)
  BY <1>3 DEF EndSession, ResendVerification, LinkAges, ResetAges, RequestReset
<1> QED
  BY <1>1, <1>2, <1>3 DEF Next

\* Only the claim gives an owner to a registration that has none.
LEMMA BoundToProven ==
  ASSUME IInv, [Next]_vars, row.exists, row.owner = 0, row'.exists, row'.owner # 0
  PROVE  users[row'.owner].proven
<1>0. row \in RowOf(Live \cup {0}) /\ 0 \notin Live
  BY Typing DEF IInv, Shape, RowOf
<1>1. row' # row
  BY Zenon
<1>2. ASSUME NEW r \in Requests, ClaimParticipant(r) PROVE users[row'.owner].proven
  <2>1. row' = [row EXCEPT !.owner = req[r].user] /\ req[r].pc = "claim" /\ req[r].user \in Live
    BY <1>1, <1>2 DEF ClaimParticipant
  <2>2. row'.owner = req[r].user
    BY <1>0, <2>1 DEF RowOf
  <2> QED
    BY <2>1, <2>2 DEF IInv, RowInv, RowOK, Proven
<1>3. ASSUME NEW r \in Requests, Ensure(r) PROVE FALSE
  BY <1>1, <1>3 DEF Ensure
<1>4. ASSUME NEW r \in Requests, Issue(r) PROVE FALSE
  <2>1. row' = [row EXCEPT !.badge = "active"]
    BY <1>1, <1>4 DEF Issue
  <2> QED
    BY <1>0, <2>1 DEF RowOf
<1>5. ASSUME NEW k \in 0..MaxRows, row' = [Row(k, 0) EXCEPT !.exists = FALSE] PROVE FALSE
  <2>1. 0 \in {0}
    OBVIOUS
  <2> QED
    BY <1>5, <2>1, RowErased
<1>6. row.n \in 0..MaxRows
  BY <1>0 DEF RowOf
<1>7. ASSUME NEW r \in Requests, DeleteCommit(r) PROVE FALSE
  <2>1. row.owner # req[r].user \/ req[r].user \notin Live
    BY <1>0
  <2> QED
    BY <1>1, <1>5, <1>6, <1>7, <2>1 DEF DeleteCommit
<1>8. ASSUME NEW t \in DOMAIN links, Neutralize(t) PROVE FALSE
  BY <1>0, <1>1, <1>8 DEF Neutralize
<1>9. ASSUME DeleteRegistrant PROVE FALSE
  BY <1>5, <1>6, <1>9 DEF DeleteRegistrant
<1>10. ASSUME RegenerateBadge PROVE FALSE
  <2>1. row' = [row EXCEPT !.badge = "active", !.byAdmin = row.byAdmin \/ row.badge = "none"]
    BY <1>10 DEF RegenerateBadge
  <2> QED
    BY <1>0, <2>1 DEF RowOf
<1> QED
  BY <1>1, <1>2, <1>3, <1>4, <1>7, <1>8, <1>9, <1>10, RowStands

\* "Never matches on email alone": whatever has happened since the link was followed, a
\* registration without an account is bound only to one whose address has been proven.
THEOREM ClaimCorrect == Spec => ClaimNeedsProof
<1> DEFINE Proves ==
      (row.exists /\ row.owner = 0 /\ row'.exists /\ row'.owner # 0)
        => users[row'.owner].proven
<1>1. IInv /\ [Next]_vars => [Proves]_vars
  BY BoundToProven
<1>2. ClaimNeedsProof <=> [][Proves]_vars
  BY DEF ClaimNeedsProof
<1> HIDE DEF Proves
<1> QED
  BY <1>1, <1>2, Invariance, PTL DEF Spec


\* An account dies of its deletion only.
LEMMA AccountLives ==
  ASSUME IInv, [Next]_vars, NEW u \in DOMAIN users,
         \A r \in Requests : ~DeleteCommit(r) \/ req[r].user # u
  PROVE  users'[u].live = users[u].live
<1>0. users \in [DOMAIN users -> Users] /\ users[u] \in Users /\ users \in Seq(Users)
  BY Typing DEF IInv, Shape
<1>1. CASE UNCHANGED users
  BY <1>1
<1>2. ASSUME NEW r \in Requests, RegisterAccount(r) PROVE users'[u].live = users[u].live
  <2> DEFINE e == [live |-> TRUE, verified |-> FALSE, proven |-> FALSE, pw |-> 1]
  <2>1. e \in Users /\ users' = Append(users, e)
    BY <1>2, Typing DEF IInv, RegisterAccount, Users
  <2> HIDE DEF e
  <2> QED
    BY <1>0, <2>1, Longer
<1>3. ASSUME NEW v, NEW e \in Users, e.live = users[v].live, users' = [users EXCEPT ![v] = e]
      PROVE  users'[u].live = users[u].live
  BY <1>0, <1>3
<1>4. ASSUME NEW r \in Requests, Verify(r) PROVE users'[u].live = users[u].live
  <2>1. CASE users' # users
    <3>1. PICK v \in Live : v = req[r].user
      BY <2>1, <1>4 DEF Verify
    <3> DEFINE e == [users[v] EXCEPT !.verified = TRUE, !.proven = TRUE]
    <3>2. e \in Users /\ e.live = users[v].live /\ users' = [users EXCEPT ![v] = e]
      <4>1. users[v] \in Users
        BY <1>0 DEF Live
      <4> QED
        BY <1>4, <3>1, <4>1 DEF Verify, Users
    <3> HIDE DEF e
    <3> QED
      BY <1>3, <3>2
  <2> QED
    BY <1>1, <2>1
<1>5. ASSUME NEW v \in Live, users[v].pw < MaxPw, NEW e,
             \/ e = [users[v] EXCEPT !.pw = @ + 1]
             \/ e = [users[v] EXCEPT !.pw = @ + 1, !.verified = FALSE],
             users' = [users EXCEPT ![v] = e]
      PROVE  users'[u].live = users[u].live
  <2>1. users[v] \in Users
    BY <1>0 DEF Live
  <2>2. users[v].pw + 1 \in 1..MaxPw
    <3>1. users[v].pw \in 1..MaxPw
      BY <2>1 DEF Users
    <3> QED
      BY <1>5, <3>1, Typing DEF IInv
  <2>3. e \in Users /\ e.live = users[v].live
    BY <1>5, <2>1, <2>2 DEF Users
  <2> QED
    BY <1>3, <1>5, <2>3
<1>6. ASSUME NEW r \in Requests, ResetCommit(r) PROVE users'[u].live = users[u].live
  <2>1. PICK v \in Live : v = req[r].user /\ users[v].pw < MaxPw
    BY <1>6 DEF IInv, SessionsInv, HeldOK, ResetCommit
  <2> DEFINE e == [users[v] EXCEPT !.pw = @ + 1]
  <2>2. users' = [users EXCEPT ![v] = e]
    BY <1>6, <2>1 DEF ResetCommit
  <2> QED
    BY <1>5, <2>1, <2>2
<1>7. ASSUME NEW t \in DOMAIN links, Neutralize(t) PROVE users'[u].live = users[u].live
  <2>1. PICK v \in Live : v = links[t].user /\ users[v].pw < MaxPw
    BY <1>7 DEF Neutralize
  <2> DEFINE e == [users[v] EXCEPT !.pw = @ + 1, !.verified = FALSE]
  <2>2. users' = [users EXCEPT ![v] = e]
    BY <1>7, <2>1 DEF Neutralize
  <2> QED
    BY <1>5, <2>1, <2>2
<1>8. ASSUME NEW r \in Requests, DeleteCommit(r) PROVE users'[u].live = users[u].live
  <2>1. CASE users' # users
    <3>1. users' = [users EXCEPT ![req[r].user].live = FALSE, ![req[r].user].verified = FALSE]
          /\ u # req[r].user
      BY <1>8, <2>1 DEF DeleteCommit
    <3> QED
      BY <1>0, <3>1
  <2> QED
    BY <1>1, <2>1
<1>9. ASSUME NEW r \in Requests,
             \/ LoginRead(r) \/ LoginStamp(r) \/ OpenSession(r) \/ VerifyClaim(r)
             \/ ClaimParticipant(r) \/ Ensure(r) \/ BadgeCheck(r) \/ Issue(r)
             \/ ResetWork(r) \/ DeleteFind(r) \/ DeleteOwn(r) \/ DeleteUnclaimed(r) \/ Fail(r)
             \/ \E t \in DOMAIN links : VerifyRead(r, t)
             \/ \E t \in DOMAIN resets : ResetClaim(r, t)
             \/ \E s \in sessions : RegisterToEvent(r, s) \/ DeleteStart(r, s)
      PROVE  UNCHANGED users
  BY <1>9 DEF LoginRead, LoginStamp, OpenSession, VerifyClaim, ClaimParticipant, Ensure,
     BadgeCheck, Issue, ResetWork, DeleteFind, DeleteOwn, DeleteUnclaimed, Fail, VerifyRead,
     ResetClaim, RegisterToEvent, DeleteStart
<1>10. CASE \/ \E s \in sessions : EndSession(s) \/ ResendVerification(s)
            \/ \E t \in DOMAIN links : LinkAges(t)
            \/ \E t \in DOMAIN resets : ResetAges(t)
            \/ \E v \in Live : RequestReset(v)
            \/ DeleteRegistrant \/ RegenerateBadge
            \/ UNCHANGED vars
  <2>1. UNCHANGED users
    BY <1>10 DEF EndSession, ResendVerification, LinkAges, ResetAges, RequestReset,
       DeleteRegistrant, RegenerateBadge, vars
  <2> QED
    BY <2>1, <1>1
<1> QED
  BY <1>1, <1>2, <1>4, <1>6, <1>7, <1>8, <1>9, <1>10 DEF Next

\* What the deletion of u does to the registration that it finds.
LEMMA ErasedWasOwn ==
  ASSUME IInv, NEW r \in Requests, DeleteCommit(r), req[r].user \in Live
  PROVE  /\ row.exists /\ ~row'.exists =>
              row.owner = req[r].user \/ users[req[r].user].proven
         /\ row.owner = req[r].user /\ row'.exists => req[r].seen # row.n
<1>0. /\ req[r].pc = "delete" /\ ListingOK(r) /\ row.n \in 0..MaxRows
      /\ row \in RowOf(Live \cup {0})
      /\ row' = IF Found(r) THEN [Row(row.n, 0) EXCEPT !.exists = FALSE]
                ELSE IF row.exists /\ row.owner = req[r].user THEN [row EXCEPT !.owner = 0]
                ELSE row
  BY DEF DeleteCommit, IInv, RowInv, Shape, RowOf
<1>1. CASE Found(r)
  <2>1. ~row'.exists
    <3>1. 0 \in {0}
      OBVIOUS
    <3> QED
      BY <1>0, <1>1, <3>1, RowErased
  <2>2. row.owner = req[r].user \/ users[req[r].user].proven
    BY <1>0, <1>1 DEF ListingOK, Listed, Found, Proven
  <2> QED
    BY <2>1, <2>2, Zenon
<1>2. CASE ~Found(r)
  <2>1. row'.exists <=> row.exists
    <3>1. CASE row' = row
      BY <3>1
    <3>2. CASE row' = [row EXCEPT !.owner = 0]
      BY <1>0, <3>2 DEF RowOf
    <3> QED
      BY <1>0, <1>2, <3>1, <3>2
  <2>2. ASSUME row.exists PROVE req[r].seen # row.n
    BY <1>2, <2>2 DEF Found
  <2> QED
    BY <2>1, <2>2
<1> QED
  BY <1>1, <1>2

\* The deletion erases the registration of its account, or the unclaimed one of an address
\* that was proven, whatever came between its listings and its commit; it leaves one that
\* is bound to the account only if it was claimed or made after the account's were listed.
THEOREM ErasesCorrect == Spec => ErasesItsOwn
<1> DEFINE Own ==
      \A u \in DOMAIN users : users[u].live /\ ~users'[u].live =>
        /\ ((row.exists /\ ~row'.exists) => (row.owner = u \/ users[u].proven))
        /\ ((row.owner = u /\ row'.exists) =>
              \E r \in Requests : req[r].pc = "delete" /\ req[r].user = u /\ req[r].seen # row.n)
<1>1. ASSUME IInv, [Next]_vars PROVE Own
  <2> SUFFICES ASSUME NEW u \in DOMAIN users, users[u].live, ~users'[u].live
      PROVE  /\ ((row.exists /\ ~row'.exists) => (row.owner = u \/ users[u].proven))
             /\ ((row.owner = u /\ row'.exists) =>
                   \E r \in Requests :
                     req[r].pc = "delete" /\ req[r].user = u /\ req[r].seen # row.n)
    OBVIOUS
  <2>1. PICK r \in Requests : DeleteCommit(r) /\ req[r].user = u
    BY <1>1, AccountLives
  <2>2. u \in Live /\ req[r].pc = "delete"
    BY <2>1 DEF Live, DeleteCommit
  <2> QED
    BY <1>1, <2>1, <2>2, ErasedWasOwn
<1>2. IInv /\ [Next]_vars => [Own]_vars
  BY <1>1
<1>3. ErasesItsOwn <=> [][Own]_vars
  BY DEF ErasesItsOwn
<1> HIDE DEF Own
<1> QED
  BY <1>2, <1>3, Invariance, PTL DEF Spec
=============================================================================
