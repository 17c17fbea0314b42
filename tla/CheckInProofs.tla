---------------------------- MODULE CheckInProofs ----------------------------
(***************************************************************************)
(* Machine-checked facts about CheckIn and the BadgeCredential it          *)
(* contains, for any number of scanners and operators, of credentials,     *)
(* scans and edits.                                                        *)
(***************************************************************************)
EXTENDS CheckIn, TLAPS

Creds == [status : {"ACTIVE", "REVOKED"}, exp : {"none", "set", "past"},
          by : {"old", "system", "admin", "cutover"}]

Ops == [pc : BadgePhases, expected : Nat, prev : Nat]

-----------------------------------------------------------------------------
(* The badge                                                                *)

\* A credential that opens nothing any more.
Dead(i) == creds[i].status = "REVOKED" \/ creds[i].exp = "past"

\* The credential that is ACTIVE is the latest one, so that there is one at most.
LatestActive == \A i \in Actives : i = Len(creds)

\* What an operation has found under the lock, or before, is still so.
FoundStands ==
  \A o \in Operators :
    /\ (op[o].pc = "issueWrite" => creds = <<>>)
    /\ (op[o].pc \in {"regenerate", "cutover"} =>
          op[o].prev \in DOMAIN creds \cup {0} /\ \A i \in Actives : i = op[o].prev)
    /\ (op[o].pc = "cutover" => op[o].prev \in Actives)
    /\ (op[o].pc = "revoke" => op[o].prev \in DOMAIN creds)

\* A text code is dead only with the latest credential.
CodeDies ==
  /\ deadCodes \subseteq 0..code
  /\ code \in deadCodes => creds # <<>> /\ Dead(Len(creds))

BadgeInv == BadgeTypeOK /\ LatestActive /\ SystemIssuesFirst /\ FoundStands /\ CodeDies

\* The credentials only age: none disappears, none that is dead comes back, and neither
\* does a code.
Ages ==
  /\ \A i \in DOMAIN creds : i \in DOMAIN creds' /\ (Dead(i) => Dead(i)')
  /\ deadCodes \subseteq deadCodes'

LEMMA ActiveIsActive ==
  ASSUME creds \in Seq(Creds)
  PROVE  /\ Actives \subseteq DOMAIN creds
         /\ Active \in Actives \cup {0} /\ Active \in Nat
         /\ (Active = 0 <=> Actives = {})
<1>1. DOMAIN creds = 1..Len(creds) /\ Len(creds) \in Nat
  OBVIOUS
<1> QED
  BY <1>1 DEF Actives, Active

LEMMA RevokedRows ==
  ASSUME creds \in Seq(Creds), NEW i \in DOMAIN creds \cup {0}
  PROVE  /\ Revoked(i) \in Seq(Creds)
         /\ Len(Revoked(i)) = Len(creds) /\ DOMAIN Revoked(i) = DOMAIN creds
         /\ \A j \in DOMAIN creds :
              /\ Revoked(i)[j].exp = creds[j].exp /\ Revoked(i)[j].by = creds[j].by
              /\ j # i => Revoked(i)[j] = creds[j]
              /\ j = i => Revoked(i)[j].status = "REVOKED"
<1>1. CASE i = 0
  BY <1>1 DEF Revoked
<1>2. CASE i \in DOMAIN creds /\ i # 0
  <2>0. creds[i] \in Creds
    BY <1>2
  <2>1. [creds[i] EXCEPT !.status = "REVOKED"] \in Creds
    BY <2>0 DEF Creds
  <2>2. /\ [creds[i] EXCEPT !.status = "REVOKED"].exp = creds[i].exp
        /\ [creds[i] EXCEPT !.status = "REVOKED"].by = creds[i].by
        /\ [creds[i] EXCEPT !.status = "REVOKED"].status = "REVOKED"
    BY <2>0 DEF Creds
  <2>3. Revoked(i) = [creds EXCEPT ![i] = [creds[i] EXCEPT !.status = "REVOKED"]]
    BY <1>2 DEF Revoked
  <2> QED
    BY <1>2, <2>1, <2>2, <2>3
<1> QED
  BY <1>1, <1>2

\* A step that changes what an operator holds in hand and nothing else of the badge.
LEMMA OpStep ==
  ASSUME BadgeInv, NEW o \in Operators, NEW x \in Ops, UNCHANGED <<creds, code, deadCodes>>,
         op' = [op EXCEPT ![o] = x],
         x.pc = "issueWrite" => creds = <<>>,
         x.pc \in {"regenerate", "cutover"} =>
           x.prev \in DOMAIN creds \cup {0} /\ \A i \in Actives : i = x.prev,
         x.pc = "cutover" => x.prev \in Actives,
         x.pc = "revoke" => x.prev \in DOMAIN creds,
         \/ /\ lock = Free /\ lock' = o
            /\ x.pc \in {"issueWrite", "regenerate", "cutover"}
         \/ /\ lock' = lock /\ lock # o
            /\ x.pc \notin {"issueWrite", "regenerate", "cutover"}
         \/ /\ lock = o /\ lock' = Free
            /\ x.pc \notin {"issueWrite", "regenerate", "cutover"}
  PROVE  BadgeInv' /\ Ages
<1>0. op \in [Operators -> Ops] /\ Free \notin Operators
  BY BadgeAssumption DEF BadgeInv, BadgeTypeOK, Ops
<1>1. op'[o] = x /\ \A q \in Operators \ {o} : op'[q] = op[q]
  BY <1>0
<1>2. op' \in [Operators -> Ops] /\ lock' \in Operators \cup {Free}
  BY <1>0 DEF BadgeInv, BadgeTypeOK
<1>3. \A q \in Operators : lock' = q <=> op'[q].pc \in {"issueWrite", "regenerate", "cutover"}
  BY <1>0, <1>1 DEF BadgeInv, BadgeTypeOK
<1>4. BadgeTypeOK'
  BY <1>2, <1>3 DEF BadgeInv, BadgeTypeOK, Ops
<1>5. LatestActive' /\ SystemIssuesFirst' /\ CodeDies'
  BY DEF BadgeInv, LatestActive, Actives, SystemIssuesFirst, CodeDies, Dead
<1>6. FoundStands'
  BY <1>1 DEF BadgeInv, FoundStands, Actives
<1> QED
  BY <1>4, <1>5, <1>6 DEF BadgeInv, Ages, Dead

LEMMA Idle ==
  /\ NoOp \in Ops /\ NoOp.pc = "idle"
  /\ \A phase \in BadgePhases, e, p \in Nat :
       /\ [pc |-> phase, expected |-> e, prev |-> p] \in Ops
       /\ [pc |-> phase, expected |-> e, prev |-> p].pc = phase
       /\ [pc |-> phase, expected |-> e, prev |-> p].prev = p
BY DEF NoOp, Ops, BadgePhases

\* A transaction that inserts the next credential, revoking the one it has found.
LEMMA WriteStep ==
  ASSUME BadgeInv, NEW o \in Operators, lock = o, lock' = Free,
         op' = [op EXCEPT ![o] = NoOp],
         NEW prev \in DOMAIN creds \cup {0}, \A i \in Actives : i = prev,
         NEW c \in Creds, c.by = "system" => creds = <<>>,
         creds' = Insert(Revoked(prev), c), deadCodes \subseteq deadCodes',
         code' \in Nat, deadCodes' \subseteq 0..code',
         code' \in deadCodes' => c.exp = "past"
  PROVE  BadgeInv' /\ Ages
<1>0. /\ op \in [Operators -> Ops] /\ Free \notin Operators /\ creds \in Seq(Creds)
      /\ DOMAIN creds = 1..Len(creds) /\ Len(creds) \in Nat
  BY BadgeAssumption DEF BadgeInv, BadgeTypeOK, Ops, Creds
<1> DEFINE n == Len(creds) + 1
<1>1. /\ creds' \in Seq(Creds) /\ Len(creds') = n /\ DOMAIN creds' = 1..n
      /\ creds'[n] = c
      /\ \A i \in DOMAIN creds :
           /\ creds'[i].exp = creds[i].exp /\ creds'[i].by = creds[i].by
           /\ creds[i].status = "REVOKED" => creds'[i].status = "REVOKED"
           /\ i = prev => creds'[i].status = "REVOKED"
           /\ i # prev => creds'[i] = creds[i]
  <2>1. Revoked(prev) \in Seq(Creds) /\ Len(Revoked(prev)) = Len(creds)
    BY <1>0, RevokedRows
  <2>2. /\ creds' \in Seq(Creds) /\ Len(creds') = n /\ DOMAIN creds' = 1..n
        /\ creds'[n] = c
        /\ \A i \in 1..Len(creds) : creds'[i] = Revoked(prev)[i]
    <3> DEFINE rows == Revoked(prev)
    <3>1. rows \in Seq(Creds) /\ Len(rows) = Len(creds) /\ creds' = Insert(rows, c)
      BY <2>1
    <3> HIDE DEF rows
    <3>2. /\ creds' \in Seq(Creds) /\ Len(creds') = Len(rows) + 1
          /\ DOMAIN creds' = 1..(Len(rows) + 1) /\ creds'[Len(rows) + 1] = c
          /\ \A i \in 1..Len(rows) : creds'[i] = rows[i]
      BY <3>1 DEF Insert
    <3> QED
      BY <3>1, <3>2 DEF rows
  <2> QED
    BY <1>0, <2>2, RevokedRows
<1>2. LatestActive'
  <2> SUFFICES ASSUME NEW i \in 1..n, creds'[i].status = "ACTIVE", i # n PROVE FALSE
    BY <1>1 DEF LatestActive, Actives
  <2>1. i \in DOMAIN creds
    BY <1>0
  <2>2. i # prev
    BY <1>1, <2>1
  <2>3. i \in Actives
    BY <1>1, <2>1, <2>2 DEF Actives
  <2> QED
    BY <2>2, <2>3
<1>3. SystemIssuesFirst'
  <2> SUFFICES ASSUME NEW i \in 1..n, creds'[i].by = "system" PROVE i = 1
    BY <1>1 DEF SystemIssuesFirst
  <2>1. CASE i = n
    BY <1>0, <1>1, <2>1
  <2>2. CASE i # n
    BY <1>0, <1>1, <2>2 DEF BadgeInv, SystemIssuesFirst
  <2> QED
    BY <2>1, <2>2
<1>4. \A q \in Operators : /\ (q = o => op'[q] = NoOp) /\ (q # o => op'[q] = op[q])
                          /\ op'[q].pc \notin {"issueWrite", "regenerate", "cutover"}
  BY <1>0, Idle DEF BadgeInv, BadgeTypeOK
<1>5. BadgeTypeOK'
  <2>1. op' \in [Operators -> Ops]
    BY <1>0, Idle
  <2>2. \A q \in Operators :
          lock' = q <=> op'[q].pc \in {"issueWrite", "regenerate", "cutover"}
    BY <1>0, <1>4
  <2>3. deadCodes' \subseteq Nat
    OBVIOUS
  <2> QED
    BY <1>1, <2>1, <2>2, <2>3 DEF BadgeTypeOK, Ops, Creds
<1>6. FoundStands'
  <2>1. DOMAIN creds \subseteq DOMAIN creds'
    BY <1>0, <1>1
  <2> QED
    BY <1>4, <2>1, Idle DEF BadgeInv, FoundStands
<1>7. CodeDies'
  <2>1. creds' # <<>>
    BY <1>0, <1>1
  <2> QED
    BY <1>1, <2>1 DEF CodeDies, Dead
<1>8. Ages
  <2> SUFFICES ASSUME NEW i \in DOMAIN creds
               PROVE  i \in DOMAIN creds' /\ (Dead(i) => Dead(i)')
    BY DEF Ages
  <2> QED
    BY <1>0, <1>1 DEF Dead
<1> QED
  BY <1>2, <1>3, <1>5, <1>6, <1>7, <1>8 DEF BadgeInv

\* One row dies where it is, by revocation or by its date.
LEMMA DieStep ==
  ASSUME BadgeInv, creds' \in Seq(Creds), Len(creds') = Len(creds),
         NEW i \in DOMAIN creds, Dead(i)', \A j \in DOMAIN creds : j # i => creds'[j] = creds[j],
         creds'[i].by = creds[i].by, creds'[i].status \in {creds[i].status, "REVOKED"},
         creds[i].exp = "past" => creds'[i].exp = "past",
         deadCodes' = IF i = Len(creds) THEN deadCodes \cup {code} ELSE deadCodes,
         UNCHANGED <<code, lock>>,
         \/ op' = op /\ (lock = Free \/ creds'[i].status = creds[i].status)
         \/ /\ lock = Free
            /\ \E o \in Operators : op[o].pc = "revoke" /\ op' = [op EXCEPT ![o] = NoOp]
  PROVE  BadgeInv' /\ Ages
<1>0. /\ op \in [Operators -> Ops] /\ Free \notin Operators /\ creds \in Seq(Creds)
      /\ DOMAIN creds = 1..Len(creds) /\ Len(creds) \in Nat
      /\ DOMAIN creds' = DOMAIN creds
  BY BadgeAssumption DEF BadgeInv, BadgeTypeOK, Ops, Creds
<1>1. \A j \in DOMAIN creds : /\ creds'[j].by = creds[j].by
                             /\ creds'[j].status \in {creds[j].status, "REVOKED"}
                             /\ creds[j].exp = "past" => creds'[j].exp = "past"
  OBVIOUS
<1>2. Ages
  BY <1>0, <1>1 DEF Ages, Dead
<1>3. Actives' \subseteq Actives
  BY <1>0, <1>1 DEF Actives
<1>4. LatestActive' /\ SystemIssuesFirst'
  BY <1>0, <1>1, <1>3 DEF BadgeInv, LatestActive, SystemIssuesFirst
<1>5. CodeDies'
  <2>1. creds' # <<>>
    BY <1>0
  <2>2. deadCodes' \subseteq 0..code'
    BY DEF BadgeInv, CodeDies, BadgeTypeOK
  <2>3. CASE i = Len(creds)
    BY <2>1, <2>2, <2>3 DEF CodeDies
  <2>4. CASE i # Len(creds)
    BY <1>0, <2>1, <2>2, <2>4 DEF BadgeInv, CodeDies, Dead
  <2> QED
    BY <2>3, <2>4
<1>6. /\ op' \in [Operators -> Ops]
      /\ \A q \in Operators : op'[q] = op[q] \/ (op[q].pc = "revoke" /\ op'[q] = NoOp)
  BY <1>0, Idle
<1>7. BadgeTypeOK'
  <2>1. \A q \in Operators :
          lock' = q <=> op'[q].pc \in {"issueWrite", "regenerate", "cutover"}
    BY <1>0, <1>6, Idle DEF BadgeInv, BadgeTypeOK
  <2> QED
    BY <1>6, <2>1 DEF BadgeInv, BadgeTypeOK, Ops, Creds
<1>8. FoundStands'
  <2>1. \A q \in Operators : op'[q].pc = "issueWrite" => creds' = <<>>
    BY <1>0, <1>6, Idle DEF BadgeInv, FoundStands
  <2>2. ASSUME NEW q \in Operators, op'[q].pc = "cutover" PROVE op'[q].prev \in Actives'
    <3>1. op'[q] = op[q] /\ op[q].prev \in Actives /\ lock = q
      BY <2>2, <1>6, Idle DEF BadgeInv, FoundStands, BadgeTypeOK
    <3>2. creds'[i].status = creds[i].status
      BY <1>0, <3>1
    <3> QED
      BY <1>0, <3>1, <3>2 DEF Actives
  <2>3. \A q \in Operators : op'[q].pc = "revoke" => op'[q].prev \in DOMAIN creds'
    BY <1>0, <1>6, Idle DEF BadgeInv, FoundStands
  <2>4. \A q \in Operators : op'[q].pc \in {"regenerate", "cutover"} =>
          op'[q].prev \in DOMAIN creds' \cup {0} /\ \A j \in Actives' : j = op'[q].prev
    BY <1>0, <1>3, <1>6, Idle DEF BadgeInv, FoundStands
  <2> QED
    BY <2>1, <2>2, <2>3, <2>4 DEF FoundStands
<1> QED
  BY <1>2, <1>4, <1>5, <1>7, <1>8 DEF BadgeInv

\* Code that has not been printed yet, and the codes that are dead.
LEMMA AssignStep ==
  ASSUME BadgeInv, AssignCode
  PROVE  BadgeInv' /\ Ages
<1>1. /\ UNCHANGED <<creds, op, lock>> /\ code = 0 /\ code' = 1 /\ deadCodes \subseteq 0..0
      /\ deadCodes \subseteq deadCodes' /\ deadCodes' \subseteq 0..1
      /\ 1 \in deadCodes' => creds # <<>> /\ Dead(Len(creds))
  BY DEF AssignCode, BadgeInv, CodeDies, Dead
<1>2. BadgeTypeOK'
  BY <1>1 DEF BadgeInv, BadgeTypeOK
<1>3. LatestActive' /\ SystemIssuesFirst' /\ FoundStands'
  BY <1>1 DEF BadgeInv, LatestActive, Actives, SystemIssuesFirst, FoundStands
<1>4. CodeDies' /\ Ages
  BY <1>1 DEF CodeDies, Ages, Dead
<1> QED
  BY <1>2, <1>3, <1>4 DEF BadgeInv

\* Every operation on the badge keeps the invariant, and ages the badge.
LEMMA BadgeStepKeeps ==
  ASSUME BadgeInv, BadgeNext
  PROVE  BadgeInv' /\ Ages
<1>0. /\ op \in [Operators -> Ops] /\ Free \notin Operators /\ creds \in Seq(Creds)
      /\ DOMAIN creds = 1..Len(creds) /\ Len(creds) \in Nat
      /\ code \in Nat /\ deadCodes \subseteq 0..code
      /\ \A o \in Operators :
           lock = o <=> op[o].pc \in {"issueWrite", "regenerate", "cutover"}
  BY BadgeAssumption DEF BadgeInv, BadgeTypeOK, Ops, Creds, CodeDies
<1>1. /\ Active \in Actives \cup {0} /\ Active \in Nat /\ Actives \subseteq DOMAIN creds
      /\ Active = 0 => Actives = {}
      /\ \A i \in Actives : i = Active
  BY <1>0, ActiveIsActive DEF BadgeInv, LatestActive
\* An operation that writes nothing.
<1>2. ASSUME NEW o \in Operators, Over(o), UNCHANGED <<creds, code, deadCodes>>,
             (lock' = lock /\ lock # o) \/ (lock = o /\ lock' = Free)
      PROVE  BadgeInv' /\ Ages
  BY <1>2, Idle, OpStep DEF Over
<1>3. ASSUME NEW o \in Operators, NEW phase \in BadgePhases, NEW e \in Nat, NEW p \in Nat,
             Ready(o, phase, e, p), UNCHANGED <<creds, code, deadCodes>>,
             phase = "issueWrite" => creds = <<>>,
             phase \in {"regenerate", "cutover"} => p = Active,
             phase = "cutover" => Active # 0,
             phase = "revoke" => p \in DOMAIN creds,
             IF phase \in {"issueWrite", "regenerate", "cutover"}
               THEN lock = Free /\ lock' = o ELSE lock' = lock /\ lock # o
      PROVE  BadgeInv' /\ Ages
  <2> DEFINE x == [pc |-> phase, expected |-> e, prev |-> p]
  <2>1. x \in Ops /\ x.pc = phase /\ x.prev = p /\ op' = [op EXCEPT ![o] = x]
    BY <1>3, Idle DEF Ready
  <2>2. p = Active => p \in DOMAIN creds \cup {0} /\ \A i \in Actives : i = p
    BY <1>1
  <2> HIDE DEF x
  <2> QED
    BY <1>1, <1>3, <2>1, <2>2, OpStep
<1>4. ASSUME NEW o \in Operators, IssueStart(o) \/ AdminView(o) PROVE BadgeInv' /\ Ages
  BY <1>0, <1>1, <1>3, <1>4 DEF IssueStart, AdminView, BadgePhases
<1>5. ASSUME NEW o \in Operators, IssueCheck(o) PROVE BadgeInv' /\ Ages
  <2>1. lock # o
    BY <1>0, <1>5 DEF IssueCheck
  <2>2. CASE creds = <<>>
    BY <1>0, <1>3, <1>5, <2>2 DEF IssueCheck, Lock, BadgePhases
  <2>3. CASE creds # <<>>
    BY <1>2, <1>5, <2>1, <2>3 DEF IssueCheck
  <2> QED
    BY <2>2, <2>3
<1>6. ASSUME NEW o \in Operators, RegenerateCheck(o) PROVE BadgeInv' /\ Ages
  <2>1. lock # o
    BY <1>0, <1>6 DEF RegenerateCheck
  <2>2. CASE Active = op[o].expected
    BY <1>0, <1>1, <1>3, <1>6, <2>2 DEF RegenerateCheck, Lock, BadgePhases
  <2>3. CASE Active # op[o].expected
    BY <1>2, <1>6, <2>1, <2>3 DEF RegenerateCheck
  <2> QED
    BY <2>2, <2>3
<1>7. ASSUME NEW o \in Operators, RevokeStart(o) PROVE BadgeInv' /\ Ages
  <2>1. lock # o
    BY <1>0, <1>7 DEF RevokeStart
  <2>2. CASE Active # 0 /\ Active = op[o].expected
    BY <1>0, <1>1, <1>3, <1>7, <2>1, <2>2 DEF RevokeStart, BadgePhases
  <2>3. CASE ~(Active # 0 /\ Active = op[o].expected)
    <3>1. Over(o) /\ UNCHANGED <<creds, code, deadCodes>> /\ UNCHANGED lock
      BY <1>7, <2>3 DEF RevokeStart
    <3> QED
      BY Idle, OpStep, <2>1, <3>1 DEF Over
  <2> QED
    BY <2>2, <2>3
<1>8. ASSUME NEW o \in Operators, CutoverCheck(o) PROVE BadgeInv' /\ Ages
  BY <1>0, <1>1, <1>3, <1>8 DEF CutoverCheck, Lock, BadgePhases
<1>9. ASSUME NEW o \in Operators, Rollback(o) PROVE BadgeInv' /\ Ages
  BY <1>2, <1>9 DEF Rollback
<1>10. ASSUME NEW o \in Operators, IssueWrite(o) PROVE BadgeInv' /\ Ages
  <2>1. /\ creds = <<>> /\ lock = o /\ Revoked(0) = creds
        /\ Cred("none", "system") \in Creds /\ code \notin deadCodes
    BY <1>0, <1>10 DEF IssueWrite, BadgeInv, FoundStands, CodeDies, Revoked, Cred, Creds
  <2>2. \A i \in Actives : i = 0
    BY <2>1 DEF Actives
  <2> QED
    BY <1>0, <1>10, <2>1, <2>2, WriteStep DEF IssueWrite, Over
<1>11. ASSUME NEW o \in Operators, Regenerate(o) PROVE BadgeInv' /\ Ages
  <2>1. /\ lock = o /\ op[o].prev \in DOMAIN creds \cup {0}
        /\ \A i \in Actives : i = op[o].prev
        /\ Cred("none", "admin") \in Creds /\ Cred("none", "admin").by # "system"
    BY <1>0, <1>11 DEF Regenerate, BadgeInv, FoundStands, Cred, Creds
  <2>2. /\ code' \in Nat /\ deadCodes \subseteq deadCodes' /\ deadCodes' \subseteq 0..code'
        /\ code' \notin deadCodes'
    BY <1>0, <1>11 DEF Regenerate
  <2> QED
    BY <1>11, <2>1, <2>2, WriteStep DEF Regenerate, Over
<1>12. ASSUME NEW o \in Operators, Cutover(o) PROVE BadgeInv' /\ Ages
  <2> DEFINE c == Cred(creds[op[o].prev].exp, "cutover")
  <2>1. /\ lock = o /\ op[o].prev \in Actives /\ op[o].prev \in DOMAIN creds
        /\ \A i \in Actives : i = op[o].prev
    BY <1>0, <1>1, <1>12 DEF Cutover, BadgeInv, FoundStands
  <2>2. creds[op[o].prev] \in Creds
    BY <1>0, <2>1
  <2>3. c \in Creds /\ c.by # "system" /\ c.exp = creds[op[o].prev].exp
    BY <2>2 DEF Cred, Creds
  <2>4. code \in deadCodes => c.exp = "past"
    BY <2>1, <2>3 DEF BadgeInv, CodeDies, LatestActive, Dead, Actives
  <2>5. /\ creds' = Insert(Revoked(op[o].prev), c) /\ UNCHANGED <<code, deadCodes>>
        /\ lock' = Free /\ op' = [op EXCEPT ![o] = NoOp]
    BY <1>12 DEF Cutover, Over
  <2> HIDE DEF c
  <2> QED
    BY <1>0, <2>1, <2>3, <2>4, <2>5, WriteStep
<1>13. ASSUME NEW o \in Operators, Revoke(o) PROVE BadgeInv' /\ Ages
  <2> DEFINE i == op[o].prev
  <2>1. /\ i \in DOMAIN creds /\ lock = Free /\ creds' = Revoked(i)
        /\ op[o].pc = "revoke" /\ op' = [op EXCEPT ![o] = NoOp] /\ UNCHANGED <<code, lock>>
        /\ deadCodes' = IF i = Len(creds) THEN deadCodes \cup {code} ELSE deadCodes
    BY <1>13 DEF Revoke, Over, BadgeInv, FoundStands
  <2> HIDE DEF i
  <2>2. /\ creds' \in Seq(Creds) /\ Len(creds') = Len(creds)
        /\ creds'[i].status = "REVOKED" /\ creds'[i].by = creds[i].by
        /\ creds'[i].exp = creds[i].exp
        /\ \A j \in DOMAIN creds : j # i => creds'[j] = creds[j]
    BY <1>0, <2>1, RevokedRows
  <2> QED
    BY <2>1, <2>2, DieStep DEF Dead
<1>14. ASSUME NEW i \in DOMAIN creds, Expire(i) PROVE BadgeInv' /\ Ages
  <2>0. creds[i] \in Creds
    BY <1>0
  <2> DEFINE c == [creds[i] EXCEPT !.exp = "past"]
  <2>1. /\ c \in Creds /\ c.exp = "past" /\ c.by = creds[i].by
        /\ c.status = creds[i].status
    BY <2>0 DEF Creds
  <2>2. creds' = [creds EXCEPT ![i] = c]
    BY <1>14 DEF Expire
  <2> HIDE DEF c
  <2>3. /\ creds' \in Seq(Creds) /\ Len(creds') = Len(creds)
        /\ creds'[i] = c /\ \A j \in DOMAIN creds : j # i => creds'[j] = creds[j]
    BY <1>0, <2>1, <2>2
  <2> QED
    BY <1>14, <2>1, <2>3, DieStep DEF Expire, Dead
<1> QED
  BY <1>4, <1>5, <1>6, <1>7, <1>8, <1>9, <1>10, <1>11, <1>12, <1>13, <1>14, AssignStep
  DEF BadgeNext

-----------------------------------------------------------------------------
(* The scans                                                                *)

Bars == {"badge", "status", "access"}

Locals ==
  [pc : {"idle", "find", "gates", "claim", "record"}, how : {"qr", "text", "manual"},
   point : {"main", "room"}, item : Nat, bars : SUBSET Bars, first : BOOLEAN]

ScanTypeOK ==
  /\ {cancelled, here, wrongly, lost} \subseteq BOOLEAN
  /\ allowed \in [{"main", "room"} -> BOOLEAN]
  /\ scan \in [Scanners -> Locals]
  /\ entries \in [{"FIRST_SCAN", "REPEAT_SCAN"} -> Nat]
  /\ scans \in 0..MaxScans /\ edits \in 0..MaxEdits

\* Only the entrance has a claim and a manual check-in.
AtEntrance(x) == x.pc = "claim" \/ x.how = "manual" => x.point = "main"

\* At most one request has won the claim, and its row is either written, about to be
\* written or lost.
OneWinner ==
  /\ \A s \in Scanners : scan[s].first =>
       /\ scan[s].pc = "record" /\ scan[s].point = "main"
       /\ here /\ ~lost /\ entries["FIRST_SCAN"] = 0
  /\ \A s, t \in Scanners : scan[s].first /\ scan[t].first => s = t
  /\ \A s \in Scanners : scan[s].pc = "record" /\ scan[s].point = "main" => here
  /\ \A s \in Scanners : AtEntrance(scan[s])
  /\ lost => here /\ entries["FIRST_SCAN"] = 0

\* What has barred the scan x since it began still does, and is gone once the scan is
\* past the statement that would have seen it.
BarsStand(x) ==
  /\ ("status" \in x.bars => cancelled)
  /\ ("access" \in x.bars => ~allowed[x.point] /\ x.how # "manual")
  /\ ("badge" \in x.bars => \/ x.how = "qr" /\ x.item \in DOMAIN creds /\ Dead(x.item)
                            \/ x.how = "text" /\ x.item \in deadCodes)
  /\ (x.pc = "gates" =>
        /\ "status" \notin x.bars /\ (x.how = "qr" => "badge" \notin x.bars)
        /\ ("badge" \in x.bars => x.item = code))
  /\ (x.pc \in {"claim", "record"} => x.bars = {})

BarsInv == ~wrongly /\ \A s \in Scanners : BarsStand(scan[s])

ScanInv == ScanTypeOK /\ OneWinner /\ OneFirstEntry /\ BarsInv

LEMMA NoScanTyped ==
  /\ NoScan \in Locals /\ NoScan.pc = "idle" /\ NoScan.bars = {} /\ ~NoScan.first
  /\ AtEntrance(NoScan)
BY DEF NoScan, Locals, Bars, AtEntrance

\* A scan that has not won goes to another phase, with nothing recorded.
LEMMA QuietStep ==
  ASSUME BadgeInv, ScanInv, NEW s \in Scanners, NEW x \in Locals,
         scan' = [scan EXCEPT ![s] = x], ~scan[s].first, ~x.first,
         x.pc = "record" => x.point = "room", AtEntrance(x),
         BarsStand(x),
         scans' \in 0..MaxScans, UNCHANGED edits,
         UNCHANGED <<badgeVars, cancelled, here, allowed, entries, wrongly, lost>>
  PROVE  ScanInv'
<1>0. scan \in [Scanners -> Locals]
  BY DEF ScanInv, ScanTypeOK
<1>1. scan'[s] = x /\ \A q \in Scanners \ {s} : scan'[q] = scan[q]
  BY <1>0
<1>2. ScanTypeOK'
  BY <1>0 DEF ScanInv, ScanTypeOK
<1>3. OneWinner'
  BY <1>1 DEF ScanInv, OneWinner
<1>4. OneFirstEntry'
  BY <1>1 DEF ScanInv, OneFirstEntry
<1>5. BarsInv'
  <2> SUFFICES ASSUME NEW q \in Scanners PROVE BarsStand(scan[q])'
    BY DEF ScanInv, BarsInv
  <2>1. CASE q = s
    BY <1>1, <2>1 DEF BarsStand, Dead, badgeVars
  <2>2. CASE q # s
    BY <1>1, <2>2 DEF ScanInv, BarsInv, BarsStand, Dead, badgeVars
  <2> QED
    BY <2>1, <2>2
<1> QED
  BY <1>2, <1>3, <1>4, <1>5 DEF ScanInv

\* A scan that is denied, with nothing recorded.
LEMMA DeniedStep ==
  ASSUME BadgeInv, ScanInv, NEW s \in Scanners, Denied(s), ~scan[s].first,
         UNCHANGED <<badgeVars, cancelled, here, allowed, entries, wrongly, lost, scans, edits>>
  PROVE  ScanInv'
<1>1. scans' \in 0..MaxScans /\ BarsStand(NoScan)
  BY NoScanTyped DEF ScanInv, ScanTypeOK, BarsStand
<1> QED
  BY <1>1, NoScanTyped, QuietStep DEF Denied

LEMMA PresentKeeps ==
  ASSUME BadgeInv, ScanInv, NEW s \in Scanners, Present(s)
  PROVE  ScanInv'
<1>0. creds \in Seq(Creds) /\ code \in Nat /\ DOMAIN creds = 1..Len(creds) /\ Len(creds) \in Nat
  BY DEF BadgeInv, BadgeTypeOK, Creds
<1>a. PICK k \in Kinds : \E i \in Items(k[1]) :
        scan' = [scan EXCEPT ![s] = [pc |-> "find", how |-> k[1], point |-> k[2], item |-> i,
                                     bars |-> BarsOf(k[1], k[2], i), first |-> FALSE]]
  BY DEF Present
<1>1. PICK i \in Items(k[1]) :
        scan' = [scan EXCEPT ![s] = [pc |-> "find", how |-> k[1], point |-> k[2], item |-> i,
                                     bars |-> BarsOf(k[1], k[2], i), first |-> FALSE]]
  BY <1>a
<1>2. /\ k[1] \in {"qr", "text", "manual"} /\ k[2] \in {"main", "room"}
      /\ (k[1] = "manual" => k[2] = "main")
  BY DEF Kinds
<1>3. /\ i \in Nat
      /\ (k[1] = "qr" => i \in DOMAIN creds)
  BY <1>0, <1>2 DEF Items
<1>4. BarsOf(k[1], k[2], i) \in SUBSET Bars
  BY DEF BarsOf, Bars
<1> DEFINE x == [pc |-> "find", how |-> k[1], point |-> k[2], item |-> i,
                 bars |-> BarsOf(k[1], k[2], i), first |-> FALSE]
<1>5. /\ x \in Locals /\ x.pc = "find" /\ ~x.first /\ x.bars = BarsOf(k[1], k[2], i)
      /\ x.how = k[1] /\ x.point = k[2] /\ x.item = i
  BY <1>2, <1>3, <1>4 DEF Locals
<1>6. BarsStand(x) /\ AtEntrance(x)
  <2> HIDE DEF x
  <2> QED
    BY <1>2, <1>3, <1>5 DEF BarsStand, BarsOf, Dead, AtEntrance
<1>7. ~scan[s].first /\ scans' \in 0..MaxScans
  BY CheckInAssumption DEF Present, ScanInv, ScanTypeOK, OneWinner, Locals
<1>8. UNCHANGED <<badgeVars, cancelled, here, allowed, entries, wrongly, lost, edits>>
  BY DEF Present
<1> HIDE DEF x
<1> QED
  BY <1>1, <1>5, <1>6, <1>7, <1>8, QuietStep DEF x

LEMMA FindKeeps ==
  ASSUME BadgeInv, ScanInv, NEW s \in Scanners, Find(s)
  PROVE  ScanInv'
<1>0. scan \in [Scanners -> Locals] /\ scan[s] \in Locals /\ scan[s].pc = "find"
      /\ ~scan[s].first /\ BarsStand(scan[s]) /\ AtEntrance(scan[s]) /\ scans \in 0..MaxScans
  BY DEF Find, ScanInv, ScanTypeOK, OneWinner, BarsInv
<1>1. UNCHANGED <<badgeVars, cancelled, here, allowed, entries, wrongly, lost, scans, edits>>
  BY DEF Find
<1>2. CASE ~Found(s)
  BY <1>0, <1>1, <1>2, DeniedStep DEF Find
<1>3. CASE Found(s)
  <2> DEFINE to == IF scan[s].how = "manual" THEN "claim" ELSE "gates"
             x  == [scan[s] EXCEPT !.pc = to]
  <2>1. scan' = [scan EXCEPT ![s] = x]
    BY <1>3 DEF Find, Goto
  <2>2. /\ x \in Locals /\ x.pc = to /\ ~x.first /\ x.bars = scan[s].bars
        /\ x.how = scan[s].how /\ x.point = scan[s].point /\ x.item = scan[s].item
    BY <1>0 DEF Locals
  <2>3. BarsStand(x)
    <3>1. ~cancelled /\ "status" \notin scan[s].bars
      BY <1>0, <1>3 DEF Found, BarsStand, Locals
    <3>2. CASE scan[s].how = "qr"
      <4>1. "badge" \notin scan[s].bars
        BY <1>0, <1>3, <3>2 DEF Found, BarsStand, Dead
      <4> HIDE DEF x
      <4> QED
        BY <1>0, <2>2, <3>1, <3>2, <4>1 DEF BarsStand
    <3>3. CASE scan[s].how = "text"
      <4>1. scan[s].item = code
        BY <1>3, <3>3 DEF Found
      <4> HIDE DEF x
      <4> QED
        BY <1>0, <2>2, <3>1, <3>3, <4>1 DEF BarsStand
    <3>4. CASE scan[s].how = "manual"
      <4>1. scan[s].bars = {}
        BY <1>0, <3>1, <3>4 DEF BarsStand, Locals, Bars
      <4> HIDE DEF x
      <4> QED
        BY <1>0, <2>2, <3>4, <4>1 DEF BarsStand
    <3> QED
      BY <1>0, <3>2, <3>3, <3>4 DEF Locals
  <2>4. AtEntrance(x) /\ x.pc # "record"
    BY <1>0, <2>2 DEF AtEntrance
  <2> HIDE DEF x
  <2> QED
    BY <1>0, <1>1, <2>1, <2>2, <2>3, <2>4, QuietStep
<1> QED
  BY <1>2, <1>3

LEMMA GatesKeeps ==
  ASSUME BadgeInv, ScanInv, NEW s \in Scanners, Gates(s)
  PROVE  ScanInv'
<1>0. scan \in [Scanners -> Locals] /\ scan[s] \in Locals /\ scan[s].pc = "gates"
      /\ ~scan[s].first /\ BarsStand(scan[s]) /\ AtEntrance(scan[s]) /\ scans \in 0..MaxScans
  BY DEF Gates, ScanInv, ScanTypeOK, OneWinner, BarsInv
<1>1. UNCHANGED <<badgeVars, cancelled, here, allowed, entries, wrongly, lost, scans, edits>>
  BY DEF Gates
<1>2. CASE ~Passes(s)
  BY <1>0, <1>1, <1>2, DeniedStep DEF Gates
<1>3. CASE Passes(s)
  <2> DEFINE to == IF scan[s].point = "main" THEN "claim" ELSE "record"
             x  == [scan[s] EXCEPT !.pc = to]
  <2>1. scan' = [scan EXCEPT ![s] = x]
    BY <1>3 DEF Gates, Goto
  <2>2. /\ x \in Locals /\ x.pc = to /\ ~x.first /\ x.bars = scan[s].bars
        /\ x.point = scan[s].point /\ (to = "record" => x.point = "room")
        /\ x.how = scan[s].how
    BY <1>0 DEF Locals
  <2>3. "access" \notin scan[s].bars /\ "status" \notin scan[s].bars
    BY <1>0, <1>3 DEF Passes, BarsStand
  <2>4. "badge" \notin scan[s].bars
    <3> SUFFICES ASSUME "badge" \in scan[s].bars PROVE FALSE
      OBVIOUS
    <3>1. scan[s].how = "text" /\ code \in deadCodes
      BY <1>0 DEF BarsStand
    <3> QED
      BY <1>3, <3>1 DEF Passes, BadgeInv, CodeDies, Dead
  <2>5. x.bars = {}
    BY <1>0, <2>2, <2>3, <2>4 DEF Locals, Bars
  <2>6. BarsStand(x)
    <3> HIDE DEF x
    <3> QED
      BY <2>2, <2>5 DEF BarsStand
  <2>7. AtEntrance(x)
    BY <1>0, <2>2 DEF AtEntrance
  <2> HIDE DEF x
  <2> QED
    BY <1>0, <1>1, <2>1, <2>2, <2>6, <2>7, QuietStep
<1> QED
  BY <1>2, <1>3

LEMMA ClaimKeeps ==
  ASSUME BadgeInv, ScanInv, NEW s \in Scanners, Claim(s)
  PROVE  ScanInv'
<1>0. scan \in [Scanners -> Locals] /\ scan[s] \in Locals /\ scan[s].pc = "claim"
      /\ ~scan[s].first /\ BarsStand(scan[s]) /\ scan[s].point = "main" /\ here \in BOOLEAN
  BY DEF Claim, ScanInv, ScanTypeOK, OneWinner, BarsInv, AtEntrance
<1> DEFINE x == [scan[s] EXCEPT !.pc = "record", !.first = ~here]
<1>1. /\ scan' = [scan EXCEPT ![s] = x] /\ here'
      /\ UNCHANGED <<badgeVars, cancelled, allowed, entries, wrongly, lost, scans, edits>>
  BY DEF Claim
<1>2. /\ x \in Locals /\ x.pc = "record" /\ x.first = ~here /\ x.bars = {}
      /\ x.point = scan[s].point
  BY <1>0 DEF Locals, BarsStand
<1> HIDE DEF x
<1>3. scan'[s] = x /\ \A q \in Scanners \ {s} : scan'[q] = scan[q]
  BY <1>0, <1>1
<1>4. ScanTypeOK'
  BY <1>0, <1>1, <1>2 DEF ScanInv, ScanTypeOK, Claim
<1>5. BarsInv'
  <2> SUFFICES ASSUME NEW q \in Scanners PROVE BarsStand(scan[q])'
    BY <1>1 DEF ScanInv, BarsInv
  <2>1. CASE q = s
    BY <1>2, <1>3, <2>1 DEF BarsStand
  <2>2. CASE q # s
    BY <1>1, <1>3, <2>2 DEF ScanInv, BarsInv, BarsStand, Dead, badgeVars
  <2> QED
    BY <2>1, <2>2
<1>6. entries["FIRST_SCAN"] \in Nat /\ entries["REPEAT_SCAN"] \in Nat
  BY DEF ScanInv, ScanTypeOK
<1>7. ~here => /\ ~lost /\ entries["FIRST_SCAN"] = 0 /\ entries["REPEAT_SCAN"] = 0
              /\ \A q \in Scanners : ~scan[q].first
  BY <1>6 DEF ScanInv, OneWinner, OneFirstEntry
<1>8. CASE here
  <2>1. OneWinner'
    <3>1. \A q \in Scanners : AtEntrance(scan[q])'
      BY <1>0, <1>2, <1>3 DEF ScanInv, OneWinner, AtEntrance
    <3> QED
      BY <1>1, <1>2, <1>3, <1>8, <3>1 DEF ScanInv, OneWinner
  <2>2. OneFirstEntry'
    BY <1>0, <1>1, <1>3, <1>8 DEF ScanInv, OneFirstEntry
  <2> QED
    BY <1>4, <1>5, <2>1, <2>2 DEF ScanInv
<1>9. CASE ~here
  <2>1. \A q \in Scanners : scan'[q].first => q = s /\ scan'[q].pc = "record"
    BY <1>2, <1>3, <1>7, <1>9
  <2>2. \A q \in Scanners : AtEntrance(scan[q])'
    BY <1>0, <1>2, <1>3 DEF ScanInv, OneWinner, AtEntrance
  <2>3. OneWinner'
    BY <1>0, <1>1, <1>2, <1>3, <1>7, <1>9, <2>1, <2>2 DEF OneWinner
  <2>4. OneFirstEntry'
    <3>1. scan'[s].pc = "record" /\ scan'[s].first = TRUE
      BY <1>2, <1>3, <1>9
    <3>2. entries'["FIRST_SCAN"] = 0 /\ entries'["REPEAT_SCAN"] = 0
      BY <1>1, <1>7, <1>9
    <3> QED
      BY <1>1, <3>1, <3>2 DEF OneFirstEntry
  <2> QED
    BY <1>4, <1>5, <2>3, <2>4 DEF ScanInv
<1> QED
  BY <1>0, <1>8, <1>9

LEMMA RecordKeeps ==
  ASSUME BadgeInv, ScanInv, NEW s \in Scanners, Record(s) \/ Die(s)
  PROVE  ScanInv'
<1>0. scan \in [Scanners -> Locals] /\ scan[s] \in Locals /\ scan[s].bars = {}
      /\ scan[s].pc \in {"claim", "record"}
      /\ entries["FIRST_SCAN"] \in Nat /\ entries["REPEAT_SCAN"] \in Nat
      /\ lost \in BOOLEAN /\ wrongly = FALSE
  BY DEF Record, Die, ScanInv, ScanTypeOK, BarsInv, BarsStand
<1>1. /\ scan' = [scan EXCEPT ![s] = NoScan]
      /\ UNCHANGED <<badgeVars, cancelled, here, allowed, scans, edits>>
  BY DEF Record, Die, Denied
<1>2. scan'[s] = NoScan /\ \A q \in Scanners \ {s} : scan'[q] = scan[q]
  BY <1>0, <1>1
<1>3. wrongly' = FALSE
  BY <1>0 DEF Record, Die
<1>4. BarsInv'
  <2> SUFFICES ASSUME NEW q \in Scanners PROVE BarsStand(scan[q])'
    BY <1>3 DEF BarsInv
  <2>1. CASE q = s
    BY <1>2, <2>1, NoScanTyped DEF BarsStand
  <2>2. CASE q # s
    BY <1>1, <1>2, <2>2 DEF ScanInv, BarsInv, BarsStand, Dead, badgeVars
  <2> QED
    BY <2>1, <2>2
<1>5. \A q \in Scanners : AtEntrance(scan[q])'
  BY <1>2, NoScanTyped DEF ScanInv, OneWinner, AtEntrance
\* What the other scans are in, whatever this one leaves.
<1>6. \A q \in Scanners : scan'[q].first => q # s /\ scan[q].first /\ scan'[q] = scan[q]
  BY <1>2, NoScanTyped
<1>7. CASE Record(s) /\ scan[s].first
  <2>1. /\ scan[s].point = "main" /\ here /\ ~lost /\ entries["FIRST_SCAN"] = 0 /\ lost' = lost
        /\ entries' = [entries EXCEPT !["FIRST_SCAN"] = @ + 1]
        /\ entries \in [{"FIRST_SCAN", "REPEAT_SCAN"} -> Nat]
    BY <1>7 DEF Record, Reason, ScanInv, OneWinner, ScanTypeOK
  <2>2. entries'["FIRST_SCAN"] = 1
        /\ entries' \in [{"FIRST_SCAN", "REPEAT_SCAN"} -> Nat]
    BY <2>1
  <2>3. \A q \in Scanners : ~scan'[q].first
    BY <1>6, <1>7 DEF ScanInv, OneWinner
  <2>4. OneFirstEntry'
    BY <1>1, <2>1, <2>2 DEF OneFirstEntry
  <2>5. OneWinner'
    BY <1>1, <1>5, <2>1, <2>3 DEF OneWinner
  <2>6. ScanTypeOK'
    BY <1>0, <1>1, <1>3, <2>1, <2>2, NoScanTyped DEF ScanInv, ScanTypeOK
  <2> QED
    BY <1>4, <2>4, <2>5, <2>6 DEF ScanInv
<1>8. CASE Record(s) /\ ~scan[s].first
  <2>1. /\ lost' = lost
        /\ entries' \in {entries, [entries EXCEPT !["REPEAT_SCAN"] = @ + 1]}
        /\ (entries' # entries => scan[s].point = "main" /\ scan[s].pc = "record")
        /\ entries \in [{"FIRST_SCAN", "REPEAT_SCAN"} -> Nat]
    BY <1>0, <1>8 DEF Record, Reason, ScanInv, ScanTypeOK, Locals
  <2>2. /\ entries' \in [{"FIRST_SCAN", "REPEAT_SCAN"} -> Nat]
        /\ entries'["FIRST_SCAN"] = entries["FIRST_SCAN"]
        /\ entries'["REPEAT_SCAN"] \in Nat
        /\ (entries'["REPEAT_SCAN"] = entries["REPEAT_SCAN"] \/ here)
    BY <2>1 DEF ScanInv, OneWinner
  <2>3. OneFirstEntry'
    <3>1. \A q \in Scanners : scan[q].pc = "record" /\ scan[q].first =>
            scan'[q].pc = "record" /\ scan'[q].first
      BY <1>2, <1>8
    <3>2. here' = here /\ lost' = lost
      BY <1>1, <2>1
    <3>3. entries'["FIRST_SCAN"] + entries'["REPEAT_SCAN"] > 0 => here
      BY <1>0, <2>2 DEF ScanInv, OneFirstEntry
    <3> QED
      BY <2>2, <3>1, <3>2, <3>3 DEF ScanInv, OneFirstEntry
  <2>4. OneWinner'
    BY <1>1, <1>2, <1>5, <1>6, <2>1, <2>2, NoScanTyped DEF ScanInv, OneWinner
  <2>5. ScanTypeOK'
    BY <1>0, <1>1, <1>3, <2>1, <2>2, NoScanTyped DEF ScanInv, ScanTypeOK
  <2> QED
    BY <1>4, <2>3, <2>4, <2>5 DEF ScanInv
<1>9. CASE Die(s)
  <2>1. lost' = (lost \/ scan[s].first) /\ entries' = entries /\ scan[s].first \in BOOLEAN
    BY <1>0, <1>9 DEF Die, Locals
  <2>2. OneWinner'
    BY <1>1, <1>2, <1>5, <1>6, <2>1, NoScanTyped DEF ScanInv, OneWinner
  <2>3. OneFirstEntry'
    <3>1. CASE scan[s].first
      BY <1>1, <2>1, <3>1 DEF ScanInv, OneFirstEntry
    <3>2. CASE ~scan[s].first
      <4>1. \A q \in Scanners : scan[q].pc = "record" /\ scan[q].first =>
              scan'[q].pc = "record" /\ scan'[q].first
        BY <1>2, <3>2
      <4> QED
        BY <1>1, <2>1, <3>2, <4>1 DEF ScanInv, OneFirstEntry
    <3> QED
      BY <3>1, <3>2
  <2>4. ScanTypeOK'
    BY <1>0, <1>1, <1>3, <2>1, NoScanTyped DEF ScanInv, ScanTypeOK
  <2> QED
    BY <1>4, <2>2, <2>3, <2>4 DEF ScanInv
<1> QED
  BY <1>7, <1>8, <1>9

\* An edit, or an operation on the badge, takes bars away from scans and changes nothing
\* else of them.
BarsTaken ==
  /\ scan' \in [Scanners -> Locals]
  /\ \A s \in Scanners :
       /\ scan'[s].pc = scan[s].pc /\ scan'[s].how = scan[s].how
       /\ scan'[s].point = scan[s].point /\ scan'[s].item = scan[s].item
       /\ scan'[s].first = scan[s].first /\ scan'[s].bars \subseteq scan[s].bars

Without(s, b) == [scan[s] EXCEPT !.bars = @ \ {b}]

LEMMA OneBarTaken ==
  ASSUME ScanInv, NEW b, NEW s \in Scanners
  PROVE  /\ scan[s] \in Locals /\ Without(s, b) \in Locals
         /\ Without(s, b).pc = scan[s].pc /\ Without(s, b).how = scan[s].how
         /\ Without(s, b).point = scan[s].point /\ Without(s, b).item = scan[s].item
         /\ Without(s, b).first = scan[s].first /\ Without(s, b).bars = scan[s].bars \ {b}
<1>1. scan[s] \in Locals
  BY DEF ScanInv, ScanTypeOK
<1> QED
  BY <1>1 DEF Locals, Without

LEMMA SomeBarsTaken ==
  ASSUME ScanInv, NEW b, scan' = [s \in Scanners |-> scan'[s]],
         \A s \in Scanners : scan'[s] \in {scan[s], Without(s, b)}
  PROVE  BarsTaken
<1>1. \A s \in Scanners : scan'[s] \in Locals
  BY OneBarTaken
<1>2. scan' \in [Scanners -> Locals]
  BY <1>1
<1> QED
  BY <1>2, OneBarTaken DEF BarsTaken

\* The scans of some points lose a bar.
LEMMA LiftedTakes ==
  ASSUME ScanInv, NEW b, NEW points, Lifted(b, points)
  PROVE  BarsTaken /\ \A s \in Scanners : scan[s].point \in points => b \notin scan'[s].bars
<1>1. /\ scan' = [s \in Scanners |-> scan'[s]]
      /\ \A s \in Scanners : scan'[s] = IF scan[s].point \in points THEN Without(s, b)
                                        ELSE scan[s]
  BY DEF Lifted, Without
<1>2. BarsTaken
  BY <1>1, SomeBarsTaken
<1> QED
  BY <1>1, <1>2, OneBarTaken

LEMMA TakenKeeps ==
  ASSUME ScanInv, BarsTaken, UNCHANGED <<here, entries, wrongly, lost, scans>>,
         edits' \in 0..MaxEdits, cancelled' \in BOOLEAN,
         allowed' \in [{"main", "room"} -> BOOLEAN],
         \A s \in Scanners : BarsStand(scan[s])'
  PROVE  ScanInv'
<1>1. ScanTypeOK'
  BY DEF ScanInv, ScanTypeOK, BarsTaken
<1>2. OneWinner'
  BY DEF ScanInv, OneWinner, BarsTaken, AtEntrance
<1>3. OneFirstEntry'
  BY DEF ScanInv, OneFirstEntry, BarsTaken
<1>4. BarsInv'
  BY DEF ScanInv, BarsInv
<1> QED
  BY <1>1, <1>2, <1>3, <1>4 DEF ScanInv

LEMMA EditKeeps ==
  ASSUME BadgeInv, ScanInv, UpdateRegistrant \/ \E p \in {"main", "room"} : SetAccess(p)
  PROVE  ScanInv'
<1>0. /\ scan \in [Scanners -> Locals] /\ cancelled \in BOOLEAN
      /\ allowed \in [{"main", "room"} -> BOOLEAN] /\ edits \in 0..MaxEdits
      /\ \A s \in Scanners : BarsStand(scan[s])
  BY DEF ScanInv, ScanTypeOK, BarsInv
<1>a. UNCHANGED scan => BarsTaken
  BY <1>0 DEF BarsTaken
<1>1. CASE UpdateRegistrant
  <2>1. /\ cancelled' = ~cancelled /\ edits' \in 0..MaxEdits
        /\ UNCHANGED <<badgeVars, here, allowed, entries, wrongly, lost, scans>>
    BY <1>0, <1>1, CheckInAssumption DEF UpdateRegistrant, Edit
  <2>2. BarsTaken /\ (cancelled => \A s \in Scanners : "status" \notin scan'[s].bars)
    <3>1. CASE cancelled
      BY <1>0, <1>1, <3>1, LiftedTakes DEF UpdateRegistrant, Locals
    <3>2. CASE ~cancelled
      BY <1>1, <1>a, <3>2 DEF UpdateRegistrant
    <3> QED
      BY <3>1, <3>2
  <2>3. ASSUME NEW s \in Scanners PROVE BarsStand(scan[s])'
    BY <1>0, <2>1, <2>2 DEF BarsStand, BarsTaken, Dead, badgeVars
  <2> QED
    BY <1>0, <2>1, <2>2, <2>3, TakenKeeps
<1>2. ASSUME NEW p \in {"main", "room"}, SetAccess(p) PROVE ScanInv'
  <2>1. /\ allowed' = [allowed EXCEPT ![p] = ~allowed[p]] /\ edits' \in 0..MaxEdits
        /\ UNCHANGED <<badgeVars, cancelled, here, entries, wrongly, lost, scans>>
    BY <1>0, <1>2, CheckInAssumption DEF SetAccess, Edit
  <2>2. allowed' \in [{"main", "room"} -> BOOLEAN] /\ allowed'[p] = ~allowed[p]
        /\ \A q \in {"main", "room"} \ {p} : allowed'[q] = allowed[q]
    BY <1>0, <2>1
  <2>3. BarsTaken /\ (~allowed[p] => \A s \in Scanners :
                                     scan[s].point = p => "access" \notin scan'[s].bars)
    <3>1. CASE ~allowed[p]
      BY <1>2, <3>1, LiftedTakes DEF SetAccess
    <3>2. CASE allowed[p]
      BY <1>2, <1>a, <3>2 DEF SetAccess
    <3> QED
      BY <3>1, <3>2
  <2>4. ASSUME NEW s \in Scanners PROVE BarsStand(scan[s])'
    <3>1. scan[s].point \in {"main", "room"}
      BY <1>0 DEF Locals
    <3> QED
      BY <1>0, <2>1, <2>2, <2>3, <3>1 DEF BarsStand, BarsTaken, Dead, badgeVars
  <2> QED
    BY <1>0, <2>1, <2>2, <2>3, <2>4, TakenKeeps
<1> QED
  BY <1>1, <1>2

LEMMA BadgeStepScans ==
  ASSUME BadgeInv, ScanInv, BadgeStep
  PROVE  ScanInv'
<1>0. /\ scan \in [Scanners -> Locals] /\ cancelled \in BOOLEAN
      /\ allowed \in [{"main", "room"} -> BOOLEAN] /\ edits \in 0..MaxEdits
      /\ \A s \in Scanners : BarsStand(scan[s])
  BY DEF ScanInv, ScanTypeOK, BarsInv
<1>1. Ages
  BY BadgeStepKeeps DEF BadgeStep
<1>2. /\ BarsTaken
      /\ \A s \in Scanners : scan[s].how = "text" /\ code' # code =>
                              "badge" \notin scan'[s].bars
  <2>1. /\ scan' = [s \in Scanners |-> scan'[s]]
        /\ \A s \in Scanners :
             scan'[s] = IF scan[s].how = "text" /\ code' # code THEN Without(s, "badge")
                        ELSE scan[s]
    BY DEF BadgeStep, Without
  <2>2. BarsTaken
    BY <2>1, SomeBarsTaken
  <2> QED
    BY <2>1, <2>2, OneBarTaken
<1>3. UNCHANGED <<cancelled, here, allowed, entries, wrongly, lost, scans, edits>>
  BY DEF BadgeStep
<1>4. ASSUME NEW s \in Scanners PROVE BarsStand(scan[s])'
  BY <1>0, <1>1, <1>2, <1>3 DEF BarsStand, BarsTaken, Ages, Dead
<1> QED
  BY <1>0, <1>2, <1>3, <1>4, TakenKeeps

-----------------------------------------------------------------------------
(* The theorems                                                             *)

LEMMA BadgeStarts == BadgeInit => BadgeInv
<1> SUFFICES ASSUME BadgeInit PROVE BadgeInv
  OBVIOUS
<1>1. Cred("set", "old") \in Creds /\ ~(Cred("set", "old").by = "system")
  BY DEF Cred, Creds
<1>2. /\ creds \in Seq(Creds) /\ Len(creds) \in {0, 1} /\ DOMAIN creds = 1..Len(creds)
      /\ \A i \in DOMAIN creds : creds[i] = Cred("set", "old")
  <2> DEFINE c == Cred("set", "old")
  <2>1. c \in Creds /\ creds \in {<<>>, <<c>>}
    BY <1>1 DEF BadgeInit
  <2> HIDE DEF c
  <2>2. /\ creds \in Seq(Creds) /\ Len(creds) \in {0, 1} /\ DOMAIN creds = 1..Len(creds)
        /\ \A i \in DOMAIN creds : creds[i] = c
    <3>1. CASE creds = <<>>
      BY <3>1
    <3>2. CASE creds = <<c>>
      BY <2>1, <3>2
    <3> QED
      BY <2>1, <3>1, <3>2
  <2> QED
    BY <2>2 DEF c
<1>3. \A o \in Operators : op[o] = NoOp
  BY DEF BadgeInit
<1>4. BadgeTypeOK
  BY <1>2, <1>3, Idle, BadgeAssumption DEF BadgeInit, BadgeTypeOK, Ops, Creds
<1>5. LatestActive /\ SystemIssuesFirst
  BY <1>1, <1>2 DEF LatestActive, Actives, SystemIssuesFirst
<1>6. FoundStands /\ CodeDies
  BY <1>3, Idle DEF FoundStands, CodeDies, BadgeInit
<1> QED
  BY <1>4, <1>5, <1>6 DEF BadgeInv

LEMMA Invariant == Spec => [](BadgeInv /\ ScanInv)
<1>1. Init => BadgeInv /\ ScanInv
  <2> SUFFICES ASSUME Init PROVE BadgeInv /\ ScanInv
    OBVIOUS
  <2>1. \A s \in Scanners : scan[s] = NoScan
    BY DEF Init
  <2>2. ScanTypeOK
    <3>1. 0 \in 0..MaxScans /\ 0 \in 0..MaxEdits
      BY CheckInAssumption
    <3>2. allowed \in [{"main", "room"} -> BOOLEAN]
      BY DEF Init
    <3>3. entries \in [{"FIRST_SCAN", "REPEAT_SCAN"} -> Nat]
      BY DEF Init
    <3> QED
      BY <3>1, <3>2, <3>3, NoScanTyped DEF Init, ScanTypeOK
  <2>3. OneWinner /\ OneFirstEntry
    BY <2>1, NoScanTyped DEF Init, OneWinner, OneFirstEntry
  <2>4. BarsInv
    BY <2>1, NoScanTyped DEF Init, BarsInv, BarsStand
  <2> QED
    BY <2>2, <2>3, <2>4, BadgeStarts DEF Init, ScanInv
<1>2. BadgeInv /\ ScanInv /\ [Next]_vars => BadgeInv' /\ ScanInv'
  <2> SUFFICES ASSUME BadgeInv, ScanInv, [Next]_vars PROVE BadgeInv' /\ ScanInv'
    OBVIOUS
  <2>0. UNCHANGED badgeVars => BadgeInv'
    BY DEF badgeVars, BadgeInv, BadgeTypeOK, LatestActive, Actives, SystemIssuesFirst,
           FoundStands, CodeDies, Dead
  <2>1. CASE ScanNext
    <3>1. UNCHANGED badgeVars
      BY <2>1 DEF ScanNext, Present, Find, Gates, Claim, Record, Die, UpdateRegistrant, SetAccess
    <3>2. ScanInv'
      BY <2>1, PresentKeeps, FindKeeps, GatesKeeps, ClaimKeeps, RecordKeeps, EditKeeps
      DEF ScanNext
    <3> QED
      BY <2>0, <3>1, <3>2
  <2>2. CASE BadgeStep
    BY <2>2, BadgeStepKeeps, BadgeStepScans DEF BadgeStep
  <2>3. CASE UNCHANGED vars
    <3>1. UNCHANGED badgeVars /\ UNCHANGED scanVars
      BY <2>3 DEF vars
    <3>2. ScanInv'
      BY <3>1 DEF scanVars, badgeVars, ScanInv, ScanTypeOK, OneWinner, OneFirstEntry, BarsInv,
                  BarsStand, Dead, AtEntrance
    <3> QED
      BY <2>0, <3>1, <3>2
  <2> QED
    BY <2>1, <2>2, <2>3 DEF Next
<1> QED
  BY <1>1, <1>2, PTL DEF Spec

\* Every variable stays within the values the code and the schema allow.
THEOREM TypeCorrect == Spec => []TypeOK
<1>1. BadgeInv /\ ScanInv => TypeOK
  BY DEF BadgeInv, ScanInv, ScanTypeOK, TypeOK, Locals, Bars
<1> QED
  BY <1>1, Invariant, PTL

\* A participant has one credential that opens doors, whoever issues, regenerates, revokes
\* and cuts over.
THEOREM OneCredential == Spec => []OneActive
<1>1. BadgeInv => OneActive
  BY DEF BadgeInv, LatestActive, OneActive
<1> QED
  BY <1>1, Invariant, PTL

\* Revocation is durable: the system issues the first credential and no other.
THEOREM RevocationIsDurable == Spec => []SystemIssuesFirst
<1>1. BadgeInv => SystemIssuesFirst
  BY DEF BadgeInv
<1> QED
  BY <1>1, Invariant, PTL

\* However the scans of one participant overlap, one of them is the first entry.
THEOREM FirstEntryOnce == Spec => []OneFirstEntry
<1>1. ScanInv => OneFirstEntry
  BY DEF ScanInv
<1> QED
  BY <1>1, Invariant, PTL

\* Nobody enters on what has been dead, cancelled or refused from the beginning of the
\* scan to its end.
THEOREM EntriesAreRightful == Spec => []NeverWrongly
<1>1. ScanInv => NeverWrongly
  BY DEF ScanInv, BarsInv, NeverWrongly
<1> QED
  BY <1>1, Invariant, PTL
=============================================================================
