-------------------------- MODULE RoomAccessProofs --------------------------
(***************************************************************************)
(* Proofs about RoomAccess, for any sets of requests and administrators.   *)
(***************************************************************************)
EXTENDS RoomAccess, TLAPS

\* A uniqueness of writers: the row lock on the registration is exclusive.
OneWriter == \A q, r \in Requests : q # r => tx[q].reg = "NONE" \/ tx[r].reg = "NONE"

Reading  == {"idle", "read", "insert", "update", "cancel", "exhausted"}
Granting == {"entitle", "create", "regrant"}

\* What a request has written and what it may rely on, phase by phase.
Pending(r) ==
  /\ tx[r].pc \in Reading => tx[r].reg = "NONE"
  /\ tx[r].pc \in Granting => tx[r].reg = "FREE_CONFIRMED"
  /\ tx[r].pc = "revoke" => tx[r].reg = "CANCELLED"
  /\ tx[r].pc = "commit" => tx[r].reg # "NONE"
  /\ tx[r].pc # "commit" => tx[r].access = NoRow
  /\ tx[r].reg = "CANCELLED" => reg = "FREE_CONFIRMED"
  /\ tx[r].pc = "regrant" => access.source = "REGISTRATION"

\* A transaction about to commit grants or revokes exactly a row that is not
\* the administrators', or an administrator wrote the row last, or there was
\* nothing to change.
Settles(r) ==
  tx[r].pc = "commit" =>
    \/ tx[r].access = NoRow /\ access.by = "ADMIN"
    \/ /\ tx[r].access = NoRow /\ tx[r].reg = "FREE_CONFIRMED"
       /\ reg = "FREE_CONFIRMED" /\ access # NoRow
    \/ /\ tx[r].reg = "FREE_CONFIRMED" /\ access.source # "ADMIN"
       /\ tx[r].access = Entitlement!ByRegistration(TRUE)
    \/ /\ tx[r].reg = "CANCELLED" /\ access.source = "REGISTRATION"
       /\ tx[r].access = Entitlement!ByRegistration(FALSE)

\* Each conflict is the creation of one of the two rows.
Counted(r) ==
  /\ tx[r].attempt = 1 => reg # "NONE" \/ access # NoRow
  /\ tx[r].attempt = 2 => reg # "NONE" /\ access # NoRow
  /\ tx[r].pc = "insert" /\ tx[r].attempt = 1 => access # NoRow
  /\ tx[r].pc = "create" /\ tx[r].attempt = 1 => reg # "NONE"
  /\ tx[r].pc \in {"insert", "create"} => tx[r].attempt # 2
  /\ tx[r].pc # "exhausted"

IInv ==
  /\ TypeOK
  /\ OneWriter
  /\ Entitled
  /\ Entitlement!AdminRowsAreTheirs
  /\ \A r \in Requests : Pending(r) /\ Settles(r) /\ Counted(r)

-----------------------------------------------------------------------------
LEMMA RowShape ==
  ASSUME NEW row \in Entitlement!Rows
  PROVE  /\ row.source \in {"NONE", "ADMIN", "REGISTRATION"}
         /\ row.by \in {"NONE", "ADMIN", "REGISTRATION"}
         /\ row.granted \in BOOLEAN
         /\ (row.source = "NONE") = (row = NoRow)
         /\ (row.by = "NONE") = (row = NoRow)
         /\ row = NoRow => ~row.granted
<1>1. CASE row = NoRow
  BY <1>1 DEF NoRow, Entitlement!NoRow
<1>2. CASE row \in [source : {"ADMIN", "REGISTRATION"}, granted : BOOLEAN,
                    by : {"ADMIN", "REGISTRATION"}]
  BY <1>2 DEF NoRow, Entitlement!NoRow
<1>3. QED
  BY <1>1, <1>2 DEF Entitlement!Rows, NoRow

LEMMA RowMade ==
  ASSUME NEW s \in {"ADMIN", "REGISTRATION"}, NEW b \in {"ADMIN", "REGISTRATION"},
         NEW g \in BOOLEAN
  PROVE  /\ [source |-> s, granted |-> g, by |-> b] \in Entitlement!Rows
         /\ [source |-> s, granted |-> g, by |-> b] # NoRow
  BY DEF Entitlement!Rows, NoRow, Entitlement!NoRow

LEMMA ByRegistrationIsARow ==
  \A g \in BOOLEAN : Entitlement!ByRegistration(g) # NoRow
  BY DEF Entitlement!ByRegistration, NoRow, Entitlement!NoRow

LEMMA NoTxTyped == NoTx \in TxLocals /\ NoRow \in Entitlement!Rows
  BY DEF NoTx, TxLocals, Phases, MaxRetries, Statuses, NoRow,
         Entitlement!Rows, Entitlement!NoRow

-----------------------------------------------------------------------------
(* How a step changes the locals of one request                             *)

Became(r, p, n, s, row) ==
  /\ tx' \in [Requests -> TxLocals]
  /\ tx'[r].pc = p /\ tx'[r].attempt = n /\ tx'[r].reg = s /\ tx'[r].access = row
  /\ \A q \in Requests \ {r} : tx'[q] = tx[q]

LEMMA Typed ==
  ASSUME TypeOK, NEW r \in Requests
  PROVE  /\ tx[r] \in TxLocals
         /\ tx[r].pc \in Phases /\ tx[r].attempt \in 0..2
         /\ tx[r].reg \in Statuses /\ tx[r].access \in Entitlement!Rows
  BY DEF TypeOK, TxLocals, MaxRetries

LEMMA BecameGoto ==
  ASSUME TypeOK, NEW r \in Requests, NEW p \in Phases, Goto(r, p)
  PROVE  Became(r, p, tx[r].attempt, tx[r].reg, tx[r].access)
<1>1. tx[r] \in TxLocals
  BY Typed
<1>2. [tx[r] EXCEPT !.pc = p] \in TxLocals
  BY <1>1 DEF TxLocals
<1>3. tx' = [tx EXCEPT ![r] = [tx[r] EXCEPT !.pc = p]]
  BY DEF Goto, TypeOK
<1>4. tx' \in [Requests -> TxLocals]
  BY <1>2, <1>3 DEF TypeOK
<1>5. tx'[r] = [tx[r] EXCEPT !.pc = p]
  BY <1>3 DEF TypeOK
<1>6. QED
  BY <1>1, <1>3, <1>4, <1>5 DEF Became, TypeOK, TxLocals

LEMMA BecameNoTx ==
  ASSUME TypeOK, NEW r \in Requests, tx' = [tx EXCEPT ![r] = NoTx]
  PROVE  Became(r, "idle", 0, "NONE", NoRow)
<1>1. tx' \in [Requests -> TxLocals]
  BY NoTxTyped DEF TypeOK
<1>2. tx'[r] = NoTx
  BY DEF TypeOK
<1>3. QED
  BY <1>1, <1>2 DEF Became, TypeOK, NoTx

LEMMA BecameWriteReg ==
  ASSUME TypeOK, NEW r \in Requests, NEW p \in Phases, NEW s \in Statuses,
         WriteReg(r, s, p)
  PROVE  Became(r, p, tx[r].attempt, s, tx[r].access)
<1>1. tx[r] \in TxLocals
  BY Typed
<1>2. [tx[r] EXCEPT !.pc = p, !.reg = s] \in TxLocals
  BY <1>1 DEF TxLocals
<1>3. tx' \in [Requests -> TxLocals]
  BY <1>2 DEF TypeOK, WriteReg
<1>4. tx'[r] = [tx[r] EXCEPT !.pc = p, !.reg = s]
  BY DEF TypeOK, WriteReg
<1>5. QED
  BY <1>1, <1>3, <1>4 DEF Became, TypeOK, TxLocals, WriteReg

LEMMA BecamePending ==
  ASSUME TypeOK, NEW r \in Requests, NEW row \in Entitlement!Rows,
         tx' = [tx EXCEPT ![r] = [@ EXCEPT !.pc = "commit", !.access = row]]
  PROVE  Became(r, "commit", tx[r].attempt, tx[r].reg, row)
<1>1. tx[r] \in TxLocals
  BY Typed
<1>2. [tx[r] EXCEPT !.pc = "commit", !.access = row] \in TxLocals
  BY <1>1 DEF TxLocals, Phases
<1>3. tx' \in [Requests -> TxLocals]
  BY <1>2 DEF TypeOK
<1>4. tx'[r] = [tx[r] EXCEPT !.pc = "commit", !.access = row]
  BY DEF TypeOK
<1>5. QED
  BY <1>1, <1>3, <1>4 DEF Became, TypeOK, TxLocals

LEMMA BecameRetry ==
  ASSUME TypeOK, NEW r \in Requests, Conflict(r), tx[r].attempt # 2
  PROVE  Became(r, "read", tx[r].attempt + 1, "NONE", NoRow)
<1> DEFINE retry == [NoTx EXCEPT !.pc = "read", !.attempt = tx[r].attempt + 1]
<1>1. tx[r].attempt \in 0..1
  BY Typed
<1>2. tx[r].attempt < MaxRetries /\ tx[r].attempt + 1 \in 0..MaxRetries
  BY <1>1 DEF MaxRetries
<1>3. retry \in TxLocals
  BY <1>2, NoTxTyped DEF TxLocals, Phases
<1>4. tx' = [tx EXCEPT ![r] = retry]
  BY <1>2 DEF Conflict
<1>5. tx' \in [Requests -> TxLocals]
  BY <1>3, <1>4 DEF TypeOK
<1>6. tx'[r] = retry
  BY <1>4 DEF TypeOK
<1>7. QED
  BY <1>4, <1>5, <1>6 DEF Became, TypeOK, NoTx

-----------------------------------------------------------------------------
(* A step that commits nothing                                              *)

LEMMA LocalStep ==
  ASSUME IInv, NEW r \in Requests, NEW p, NEW n, NEW s, NEW row,
         Became(r, p, n, s, row), UNCHANGED <<reg, access, adm>>,
         s = "NONE" \/ s = tx[r].reg \/ RegFree(r),
         Pending(r)', Settles(r)', Counted(r)'
  PROVE  IInv'
<1>1. \A q \in Requests \ {r} : tx'[q] = tx[q]
  BY DEF Became
<1>2. TypeOK'
  BY DEF IInv, TypeOK, Became
<1>3. OneWriter'
  BY <1>1 DEF IInv, OneWriter, Became, RegFree
<1>4. Entitled' /\ (Entitlement!AdminRowsAreTheirs)'
  BY DEF IInv, Entitled, Entitlement!Entitled, Entitlement!AdminRowsAreTheirs,
         Entitlement!NoRow
<1>5. ASSUME NEW q \in Requests
      PROVE  (Pending(q) /\ Settles(q) /\ Counted(q))'
  <2>1. CASE q = r
    BY <2>1
  <2>2. CASE q # r
    <3>1. tx'[q] = tx[q]
      BY <1>1, <2>2
    <3>2. Pending(q) /\ Settles(q) /\ Counted(q)
      BY DEF IInv
    <3>3. QED
      BY <3>1, <3>2 DEF Pending, Settles, Counted
  <2>3. QED
    BY <2>1, <2>2
<1>6. QED
  BY <1>2, <1>3, <1>4, <1>5 DEF IInv

-----------------------------------------------------------------------------
(* One lemma per kind of step                                               *)

\* What every step lemma knows of the rows and of the request it is about.
LEMMA Known ==
  ASSUME IInv, NEW r \in Requests
  PROVE  /\ TypeOK /\ Pending(r) /\ Settles(r) /\ Counted(r)
         /\ reg \in Statuses /\ access \in Entitlement!Rows
         /\ access.source \in {"NONE", "ADMIN", "REGISTRATION"}
         /\ access.by \in {"NONE", "ADMIN", "REGISTRATION"}
         /\ access.granted \in BOOLEAN
         /\ (access.source = "NONE") = (access = NoRow)
         /\ (access.by = "NONE") = (access = NoRow)
         /\ access = NoRow => ~access.granted
         /\ access.source = "ADMIN" => access.by = "ADMIN"
         /\ reg = "FREE_CONFIRMED" => access # NoRow
         /\ access.by = "REGISTRATION" => (access.granted <=> reg = "FREE_CONFIRMED")
<1>1. TypeOK /\ access \in Entitlement!Rows /\ reg \in Statuses
  BY DEF IInv, TypeOK
<1>2. Pending(r) /\ Settles(r) /\ Counted(r)
  BY DEF IInv
<1>3. Entitled /\ Entitlement!AdminRowsAreTheirs
  BY DEF IInv
<1>4. QED
  BY <1>1, <1>2, <1>3, RowShape DEF Entitled, Entitlement!Entitled,
     Entitlement!AdminRowsAreTheirs, NoRow

LEMMA InitReadStep ==
  ASSUME IInv, NEW r \in Requests, InitRead(r)
  PROVE  IInv'
<1>1. UNCHANGED <<reg, access, adm>>
  BY DEF InitRead
<1>2. CASE reg = "FREE_CONFIRMED"
  <2>1. Became(r, "idle", 0, "NONE", NoRow)
    BY <1>2, Known, Typed, BecameNoTx DEF InitRead
  <2>2. Pending(r)'
    BY <1>1, <1>2, <2>1, Known DEF Pending, Became, Reading, Granting, InitRead
  <2>3. Settles(r)'
    BY <1>1, <1>2, <2>1, Known DEF Settles, Pending, Became, Granting,
       Entitlement!ByRegistration, InitRead
  <2>4. Counted(r)'
    BY <1>1, <1>2, <2>1, Known, Typed DEF Counted, Became, InitRead
  <2>5. QED
    BY <1>1, <1>2, <2>1, <2>2, <2>3, <2>4, LocalStep, Known DEF Pending,
       Reading, Granting, InitRead
<1>3. CASE reg = "CANCELLED"
  <2>1. Became(r, "update", tx[r].attempt, tx[r].reg, tx[r].access)
    BY <1>3, Known, Typed, BecameGoto DEF InitRead, Phases
  <2>2. Pending(r)'
    BY <1>1, <1>3, <2>1, Known DEF Pending, Became, Reading, Granting, InitRead
  <2>3. Settles(r)'
    BY <1>1, <1>3, <2>1, Known DEF Settles, Pending, Became, Granting,
       Entitlement!ByRegistration, InitRead
  <2>4. Counted(r)'
    BY <1>1, <1>3, <2>1, Known, Typed DEF Counted, Became, InitRead
  <2>5. QED
    BY <1>1, <1>3, <2>1, <2>2, <2>3, <2>4, LocalStep, Known DEF Pending,
       Reading, Granting, InitRead
<1>4. CASE reg = "NONE"
  <2>1. Became(r, "insert", tx[r].attempt, tx[r].reg, tx[r].access)
    BY <1>4, Known, Typed, BecameGoto DEF InitRead, Phases
  <2>2. Pending(r)'
    BY <1>1, <1>4, <2>1, Known DEF Pending, Became, Reading, Granting, InitRead
  <2>3. Settles(r)'
    BY <1>1, <1>4, <2>1, Known DEF Settles, Pending, Became, Granting,
       Entitlement!ByRegistration, InitRead
  <2>4. Counted(r)'
    BY <1>1, <1>4, <2>1, Known, Typed DEF Counted, Became, InitRead
  <2>5. QED
    BY <1>1, <1>4, <2>1, <2>2, <2>3, <2>4, LocalStep, Known DEF Pending,
       Reading, Granting, InitRead
<1>5. QED
  BY <1>2, <1>3, <1>4, Known DEF InitRead, Statuses

LEMMA InitInsertStep ==
  ASSUME IInv, NEW r \in Requests, InitInsert(r)
  PROVE  IInv'
<1>1. UNCHANGED <<reg, access, adm>>
  BY DEF InitInsert
<1>2. CASE reg = "NONE"
  <2>1. Became(r, "entitle", tx[r].attempt, "FREE_CONFIRMED", tx[r].access)
    BY <1>2, Known, Typed, BecameWriteReg DEF InitInsert, Phases, Statuses
  <2>2. Pending(r)'
    BY <1>1, <1>2, <2>1, Known DEF Pending, Became, Reading, Granting, InitInsert
  <2>3. Settles(r)'
    BY <1>1, <1>2, <2>1, Known DEF Settles, Pending, Became, Granting,
       Entitlement!ByRegistration, InitInsert
  <2>4. Counted(r)'
    BY <1>1, <1>2, <2>1, Known, Typed DEF Counted, Became, InitInsert
  <2>5. QED
    BY <1>1, <1>2, <2>1, <2>2, <2>3, <2>4, LocalStep, Known DEF Pending,
       Reading, Granting, InitInsert
<1>3. CASE reg # "NONE"
  <2>1. Became(r, "read", tx[r].attempt + 1, "NONE", NoRow)
    BY <1>3, Known, Typed, BecameRetry DEF InitInsert, Counted
  <2>2. Pending(r)'
    BY <1>1, <1>3, <2>1, Known DEF Pending, Became, Reading, Granting, InitInsert
  <2>3. Settles(r)'
    BY <1>1, <1>3, <2>1, Known DEF Settles, Pending, Became, Granting,
       Entitlement!ByRegistration, InitInsert
  <2>4. Counted(r)'
    BY <1>1, <1>3, <2>1, Known, Typed DEF Counted, Became, InitInsert
  <2>5. QED
    BY <1>1, <1>3, <2>1, <2>2, <2>3, <2>4, LocalStep, Known DEF Pending,
       Reading, Granting, InitInsert
<1>4. QED
  BY <1>2, <1>3, Known DEF InitInsert, Statuses

LEMMA InitUpdateStep ==
  ASSUME IInv, NEW r \in Requests, InitUpdate(r)
  PROVE  IInv'
<1>1. UNCHANGED <<reg, access, adm>>
  BY DEF InitUpdate
<1>2. Became(r, "entitle", tx[r].attempt, "FREE_CONFIRMED", tx[r].access)
  BY Known, Typed, BecameWriteReg DEF InitUpdate, Phases, Statuses
<1>3. Pending(r)'
  BY <1>1, <1>2, Known DEF Pending, Became, Reading, Granting, InitUpdate
<1>4. Settles(r)'
  BY <1>1, <1>2, Known DEF Settles, Pending, Became, Granting,
     Entitlement!ByRegistration, InitUpdate
<1>5. Counted(r)'
  BY <1>1, <1>2, Known, Typed DEF Counted, Became, InitUpdate
<1>6. QED
  BY <1>1, <1>2, <1>3, <1>4, <1>5, LocalStep, Known DEF Pending, Reading,
     Granting, InitUpdate

LEMMA GrantReadStep ==
  ASSUME IInv, NEW r \in Requests, GrantRead(r)
  PROVE  IInv'
<1>1. UNCHANGED <<reg, access, adm>>
  BY DEF GrantRead
<1>2. CASE access.source = "ADMIN" \/ (access.source = "REGISTRATION" /\ access.granted)
  <2>1. Became(r, "commit", tx[r].attempt, tx[r].reg, tx[r].access)
    BY <1>2, Known, Typed, BecameGoto DEF GrantRead, Phases
  <2>2. Pending(r)'
    BY <1>1, <1>2, <2>1, Known DEF Pending, Became, Reading, Granting, GrantRead
  <2>3. Settles(r)'
    BY <1>1, <1>2, <2>1, Known DEF Settles, Pending, Became, Granting,
       Entitlement!ByRegistration, GrantRead
  <2>4. Counted(r)'
    BY <1>1, <1>2, <2>1, Known, Typed DEF Counted, Became, GrantRead
  <2>5. QED
    BY <1>1, <1>2, <2>1, <2>2, <2>3, <2>4, LocalStep, Known DEF Pending,
       Reading, Granting, GrantRead
<1>3. CASE access = NoRow
  <2>1. Became(r, "create", tx[r].attempt, tx[r].reg, tx[r].access)
    BY <1>3, Known, Typed, BecameGoto DEF GrantRead, Phases
  <2>2. Pending(r)'
    BY <1>1, <1>3, <2>1, Known DEF Pending, Became, Reading, Granting, GrantRead
  <2>3. Settles(r)'
    BY <1>1, <1>3, <2>1, Known DEF Settles, Pending, Became, Granting,
       Entitlement!ByRegistration, GrantRead
  <2>4. Counted(r)'
    BY <1>1, <1>3, <2>1, Known, Typed DEF Counted, Became, GrantRead
  <2>5. QED
    BY <1>1, <1>3, <2>1, <2>2, <2>3, <2>4, LocalStep, Known DEF Pending,
       Reading, Granting, GrantRead
<1>4. CASE access.source = "REGISTRATION" /\ ~access.granted
  <2>1. Became(r, "regrant", tx[r].attempt, tx[r].reg, tx[r].access)
    BY <1>4, Known, Typed, BecameGoto DEF GrantRead, Phases
  <2>2. Pending(r)'
    BY <1>1, <1>4, <2>1, Known DEF Pending, Became, Reading, Granting, GrantRead
  <2>3. Settles(r)'
    BY <1>1, <1>4, <2>1, Known DEF Settles, Pending, Became, Granting,
       Entitlement!ByRegistration, GrantRead
  <2>4. Counted(r)'
    BY <1>1, <1>4, <2>1, Known, Typed DEF Counted, Became, GrantRead
  <2>5. QED
    BY <1>1, <1>4, <2>1, <2>2, <2>3, <2>4, LocalStep, Known DEF Pending,
       Reading, Granting, GrantRead
<1>5. QED
  BY <1>2, <1>3, <1>4, Known DEF GrantRead, Statuses

LEMMA GrantCreateStep ==
  ASSUME IInv, NEW r \in Requests, GrantCreate(r)
  PROVE  IInv'
<1>1. UNCHANGED <<reg, access, adm>>
  BY DEF GrantCreate
<1>2. CASE access = NoRow
  <2>1. Became(r, "commit", tx[r].attempt, tx[r].reg, Entitlement!ByRegistration(TRUE))
    BY <1>2, Known, Typed, BecamePending, RowMade DEF GrantCreate,
       WriteAccess, Entitlement!ByRegistration
  <2>2. Pending(r)'
    BY <1>1, <1>2, <2>1, Known DEF Pending, Became, Reading, Granting, GrantCreate
  <2>3. Settles(r)'
    BY <1>1, <1>2, <2>1, Known DEF Settles, Pending, Became, Granting,
       Entitlement!ByRegistration, GrantCreate
  <2>4. Counted(r)'
    BY <1>1, <1>2, <2>1, Known, Typed DEF Counted, Became, GrantCreate
  <2>5. QED
    BY <1>1, <1>2, <2>1, <2>2, <2>3, <2>4, LocalStep, Known DEF Pending,
       Reading, Granting, GrantCreate
<1>3. CASE access # NoRow
  <2>1. Became(r, "read", tx[r].attempt + 1, "NONE", NoRow)
    BY <1>3, Known, Typed, BecameRetry DEF GrantCreate, Counted
  <2>2. Pending(r)'
    BY <1>1, <1>3, <2>1, Known DEF Pending, Became, Reading, Granting, GrantCreate
  <2>3. Settles(r)'
    BY <1>1, <1>3, <2>1, Known DEF Settles, Pending, Became, Granting,
       Entitlement!ByRegistration, GrantCreate
  <2>4. Counted(r)'
    BY <1>1, <1>3, <2>1, Known, Typed DEF Counted, Became, GrantCreate
  <2>5. QED
    BY <1>1, <1>3, <2>1, <2>2, <2>3, <2>4, LocalStep, Known DEF Pending,
       Reading, Granting, GrantCreate
<1>4. QED
  BY <1>2, <1>3, Known DEF GrantCreate, Statuses

LEMMA GrantUpdateStep ==
  ASSUME IInv, NEW r \in Requests, GrantUpdate(r)
  PROVE  IInv'
<1>1. UNCHANGED <<reg, access, adm>>
  BY DEF GrantUpdate
<1>2. Became(r, "commit", tx[r].attempt, tx[r].reg, Entitlement!ByRegistration(TRUE))
  BY Known, Typed, BecamePending, RowMade DEF GrantUpdate, Pending,
     Entitlement!ByRegistration
<1>3. Pending(r)'
  BY <1>1, <1>2, Known DEF Pending, Became, Reading, Granting, GrantUpdate
<1>4. Settles(r)'
  BY <1>1, <1>2, Known DEF Settles, Pending, Became, Granting,
     Entitlement!ByRegistration, GrantUpdate
<1>5. Counted(r)'
  BY <1>1, <1>2, Known, Typed DEF Counted, Became, GrantUpdate
<1>6. QED
  BY <1>1, <1>2, <1>3, <1>4, <1>5, LocalStep, Known DEF Pending, Reading,
     Granting, GrantUpdate

LEMMA CancelReadStep ==
  ASSUME IInv, NEW r \in Requests, CancelRead(r)
  PROVE  IInv'
<1>1. UNCHANGED <<reg, access, adm>>
  BY DEF CancelRead
<1>2. Became(r, "cancel", tx[r].attempt, tx[r].reg, tx[r].access)
  BY Known, Typed, BecameGoto DEF CancelRead, Phases
<1>3. Pending(r)'
  BY <1>1, <1>2, Known DEF Pending, Became, Reading, Granting, CancelRead
<1>4. Settles(r)'
  BY <1>1, <1>2, Known DEF Settles, Pending, Became, Granting,
     Entitlement!ByRegistration, CancelRead
<1>5. Counted(r)'
  BY <1>1, <1>2, Known, Typed DEF Counted, Became, CancelRead
<1>6. QED
  BY <1>1, <1>2, <1>3, <1>4, <1>5, LocalStep, Known DEF Pending, Reading,
     Granting, CancelRead

LEMMA CancelWriteStep ==
  ASSUME IInv, NEW r \in Requests, CancelWrite(r)
  PROVE  IInv'
<1>1. UNCHANGED <<reg, access, adm>>
  BY DEF CancelWrite
<1>2. CASE reg = "FREE_CONFIRMED"
  <2>1. Became(r, "revoke", tx[r].attempt, "CANCELLED", tx[r].access)
    BY <1>2, Known, Typed, BecameWriteReg DEF CancelWrite, Phases, Statuses
  <2>2. Pending(r)'
    BY <1>1, <1>2, <2>1, Known DEF Pending, Became, Reading, Granting, CancelWrite
  <2>3. Settles(r)'
    BY <1>1, <1>2, <2>1, Known DEF Settles, Pending, Became, Granting,
       Entitlement!ByRegistration, CancelWrite
  <2>4. Counted(r)'
    BY <1>1, <1>2, <2>1, Known, Typed DEF Counted, Became, CancelWrite
  <2>5. QED
    BY <1>1, <1>2, <2>1, <2>2, <2>3, <2>4, LocalStep, Known DEF Pending,
       Reading, Granting, CancelWrite
<1>3. CASE reg # "FREE_CONFIRMED"
  <2>1. Became(r, "idle", 0, "NONE", NoRow)
    BY <1>3, Known, Typed, BecameNoTx DEF CancelWrite
  <2>2. Pending(r)'
    BY <1>1, <1>3, <2>1, Known DEF Pending, Became, Reading, Granting, CancelWrite
  <2>3. Settles(r)'
    BY <1>1, <1>3, <2>1, Known DEF Settles, Pending, Became, Granting,
       Entitlement!ByRegistration, CancelWrite
  <2>4. Counted(r)'
    BY <1>1, <1>3, <2>1, Known, Typed DEF Counted, Became, CancelWrite
  <2>5. QED
    BY <1>1, <1>3, <2>1, <2>2, <2>3, <2>4, LocalStep, Known DEF Pending,
       Reading, Granting, CancelWrite
<1>4. QED
  BY <1>2, <1>3, Known DEF CancelWrite, Statuses

LEMMA RevokeStep ==
  ASSUME IInv, NEW r \in Requests, Revoke(r)
  PROVE  IInv'
<1>1. UNCHANGED <<reg, access, adm>>
  BY DEF Revoke
<1>2. CASE access.source = "REGISTRATION" /\ access.granted
  <2>1. Became(r, "commit", tx[r].attempt, tx[r].reg, Entitlement!ByRegistration(FALSE))
    BY <1>2, Known, Typed, BecamePending, RowMade DEF Revoke, WriteAccess,
       Entitlement!ByRegistration
  <2>2. Pending(r)'
    BY <1>1, <1>2, <2>1, Known DEF Pending, Became, Reading, Granting, Revoke
  <2>3. Settles(r)'
    BY <1>1, <1>2, <2>1, Known DEF Settles, Pending, Became, Granting,
       Entitlement!ByRegistration, Revoke
  <2>4. Counted(r)'
    BY <1>1, <1>2, <2>1, Known, Typed DEF Counted, Became, Revoke
  <2>5. QED
    BY <1>1, <1>2, <2>1, <2>2, <2>3, <2>4, LocalStep, Known DEF Pending,
       Reading, Granting, Revoke
<1>3. CASE ~(access.source = "REGISTRATION" /\ access.granted)
  <2>1. Became(r, "commit", tx[r].attempt, tx[r].reg, tx[r].access)
    BY <1>3, Known, Typed, BecameGoto DEF Revoke, Phases
  <2>2. Pending(r)'
    BY <1>1, <1>3, <2>1, Known DEF Pending, Became, Reading, Granting, Revoke
  <2>3. Settles(r)'
    BY <1>1, <1>3, <2>1, Known DEF Settles, Pending, Became, Granting,
       Entitlement!ByRegistration, Revoke
  <2>4. Counted(r)'
    BY <1>1, <1>3, <2>1, Known, Typed DEF Counted, Became, Revoke
  <2>5. QED
    BY <1>1, <1>3, <2>1, <2>2, <2>3, <2>4, LocalStep, Known DEF Pending,
       Reading, Granting, Revoke
<1>4. QED
  BY <1>2, <1>3, Known DEF Revoke, Statuses

LEMMA InitStartStep ==
  ASSUME IInv, NEW r \in Requests, InitStart(r)
  PROVE  IInv'
<1>1. UNCHANGED <<reg, access, adm>>
  BY DEF InitStart
<1>2. Became(r, "read", tx[r].attempt, tx[r].reg, tx[r].access)
  BY Known, Typed, BecameGoto DEF InitStart, Phases
<1>3. Pending(r)'
  BY <1>1, <1>2, Known DEF Pending, Became, Reading, Granting, InitStart
<1>4. Settles(r)'
  BY <1>1, <1>2, Known DEF Settles, Pending, Became, Granting,
     Entitlement!ByRegistration, InitStart
<1>5. Counted(r)'
  BY <1>1, <1>2, Known, Typed DEF Counted, Became, InitStart
<1>6. QED
  BY <1>1, <1>2, <1>3, <1>4, <1>5, LocalStep, Known DEF Pending, Reading,
     Granting, InitStart

LEMMA RollbackStep ==
  ASSUME IInv, NEW r \in Requests, Rollback(r)
  PROVE  IInv'
<1>1. UNCHANGED <<reg, access, adm>>
  BY DEF Rollback
<1>2. Became(r, "idle", 0, "NONE", NoRow)
  BY Known, Typed, BecameNoTx DEF Rollback
<1>3. Pending(r)'
  BY <1>1, <1>2, Known DEF Pending, Became, Reading, Granting, Rollback
<1>4. Settles(r)'
  BY <1>1, <1>2, Known DEF Settles, Pending, Became, Granting,
     Entitlement!ByRegistration, Rollback
<1>5. Counted(r)'
  BY <1>1, <1>2, Known, Typed DEF Counted, Became, Rollback
<1>6. QED
  BY <1>1, <1>2, <1>3, <1>4, <1>5, LocalStep, Known DEF Pending, Reading,
     Granting, Rollback

LEMMA CommitEffect ==
  ASSUME IInv, NEW r \in Requests, Commit(r)
  PROVE  /\ Became(r, "idle", 0, "NONE", NoRow)
         /\ reg' = tx[r].reg /\ reg' # "NONE" /\ reg' \in Statuses
         /\ adm' = adm
         /\ access' = access \/ (access' = tx[r].access /\ access' # NoRow)
         /\ access' \in Entitlement!Rows
         /\ \A q \in Requests \ {r} : tx[q].reg = "NONE"
<1>1. Became(r, "idle", 0, "NONE", NoRow)
  BY BecameNoTx, Known DEF Commit
<1>2. tx[r].reg # "NONE"
  BY Known DEF Pending, Commit
<1>3. \A q \in Requests \ {r} : tx[q].reg = "NONE"
  BY <1>2 DEF IInv, OneWriter
<1>4. QED
  BY <1>1, <1>2, <1>3, Known, Typed DEF Commit

LEMMA CommitRows ==
  ASSUME IInv, NEW r \in Requests, Commit(r)
  PROVE  Entitled' /\ (Entitlement!AdminRowsAreTheirs)' /\ (access # NoRow => access' # NoRow)
<1> USE Known, CommitEffect
<1> USE DEF Entitled, Entitlement!Entitled, Entitlement!AdminRowsAreTheirs,
            Entitlement!ByRegistration, NoRow, Entitlement!NoRow
<1>1. tx[r].reg \in {"FREE_CONFIRMED", "CANCELLED"}
  BY Typed DEF Statuses
<1>2. CASE tx[r].access = NoRow /\ access.by = "ADMIN"
  BY <1>1, <1>2 DEF Commit
<1>3. CASE /\ tx[r].access = NoRow /\ tx[r].reg = "FREE_CONFIRMED"
           /\ reg = "FREE_CONFIRMED" /\ access # NoRow
  BY <1>3 DEF Commit
<1>4. CASE /\ tx[r].reg = "FREE_CONFIRMED"
           /\ tx[r].access = Entitlement!ByRegistration(TRUE)
  BY <1>4 DEF Commit
<1>5. CASE /\ tx[r].reg = "CANCELLED"
           /\ tx[r].access = Entitlement!ByRegistration(FALSE)
  BY <1>5 DEF Commit
<1>6. QED
  BY <1>2, <1>3, <1>4, <1>5 DEF Settles, Commit

LEMMA CommitStep ==
  ASSUME IInv, NEW r \in Requests, Commit(r)
  PROVE  IInv'
<1>1. TypeOK'
  BY CommitEffect DEF IInv, TypeOK, Became
<1>2. OneWriter'
  BY CommitEffect DEF OneWriter, Became
<1>3. ASSUME NEW q \in Requests
      PROVE  (Pending(q) /\ Settles(q) /\ Counted(q))'
  <2>1. CASE q = r
    <3>1. /\ tx'[q].pc = "idle" /\ tx'[q].attempt = 0
          /\ tx'[q].reg = "NONE" /\ tx'[q].access = NoRow
      BY <2>1, CommitEffect DEF Became
    <3>2. QED
      BY <3>1 DEF Pending, Settles, Counted, Granting
  <2>2. CASE q # r
    <3>1. tx'[q] = tx[q] /\ tx[q].reg = "NONE"
      BY <2>2, CommitEffect DEF Became
    <3>2. tx[q].pc \notin Granting \cup {"commit", "revoke"}
      BY <3>1, Known DEF Pending
    <3>3. Pending(q)' /\ Settles(q)'
      BY <3>1, <3>2, Known DEF Pending, Settles, Granting
    <3>4. Counted(q)'
      BY <3>1, Known, CommitEffect, CommitRows DEF Counted
    <3>5. QED
      BY <3>3, <3>4
  <2>3. QED
    BY <2>1, <2>2
<1>4. QED
  BY <1>1, <1>2, <1>3, CommitRows DEF IInv

LEMMA AdminReadStep ==
  ASSUME IInv, NEW a \in Admins, NEW g \in BOOLEAN, AdminRead(a, g)
  PROVE  IInv'
<1>1. UNCHANGED <<reg, access, tx>>
  BY DEF AdminRead
<1>2. TypeOK'
  BY DEF IInv, TypeOK, AdminRead
<1>3. QED
  BY <1>1, <1>2 DEF IInv, OneWriter, Entitled, Entitlement!Entitled,
     Entitlement!AdminRowsAreTheirs, Entitlement!NoRow, Pending, Settles, Counted

LEMMA UpsertEffect ==
  ASSUME IInv, NEW a \in Admins, AdminUpsert(a)
  PROVE  /\ UNCHANGED <<reg, tx>> /\ access' \in Entitlement!Rows /\ access' # NoRow
         /\ access'.by = "ADMIN" /\ access'.granted \in BOOLEAN
         /\ access'.source = IF access = NoRow THEN "ADMIN" ELSE access.source
<1>1. access \in Entitlement!Rows /\ access.source \in {"NONE", "ADMIN", "REGISTRATION"}
      /\ (access.source = "NONE") = (access = NoRow)
  BY RowShape DEF IInv, TypeOK
<1>2. QED
  BY <1>1, RowMade DEF AdminUpsert

LEMMA AdminUpsertStep ==
  ASSUME IInv, NEW a \in Admins, AdminUpsert(a)
  PROVE  IInv'
<1>1. TypeOK'
  BY UpsertEffect DEF IInv, TypeOK, AdminUpsert
<1>2. OneWriter' /\ Entitled' /\ (Entitlement!AdminRowsAreTheirs)'
  BY UpsertEffect DEF IInv, OneWriter, Entitled, Entitlement!Entitled,
     Entitlement!AdminRowsAreTheirs, NoRow
<1>3. ASSUME NEW q \in Requests
      PROVE  (Pending(q) /\ Settles(q) /\ Counted(q))'
  <2>1. Pending(q) /\ Counted(q) /\ tx[q].access = NoRow
    BY Known DEF AdminUpsert
  <2>2. access.source = "REGISTRATION" => access # NoRow
    BY Known
  <2>3. QED
    BY <2>1, <2>2, UpsertEffect DEF Pending, Settles, Counted
<1>4. QED
  BY <1>1, <1>2, <1>3 DEF IInv

-----------------------------------------------------------------------------
(* Theorems                                                                 *)

LEMMA InitHolds == Init => IInv
<1> SUFFICES ASSUME Init PROVE IInv
  OBVIOUS
<1>1. TypeOK
  BY NoTxTyped DEF Init, TypeOK, Statuses
<1>2. \A r \in Requests : /\ tx[r].pc = "idle" /\ tx[r].attempt = 0
                         /\ tx[r].reg = "NONE" /\ tx[r].access = NoRow
  BY DEF Init, NoTx
<1>3. OneWriter
  BY <1>2 DEF OneWriter
<1>4. ASSUME NEW r \in Requests
      PROVE  Pending(r) /\ Settles(r) /\ Counted(r)
  <2>1. /\ tx[r].pc = "idle" /\ tx[r].attempt = 0
        /\ tx[r].reg = "NONE" /\ tx[r].access = NoRow
    BY <1>2
  <2>2. QED
    BY <2>1 DEF Pending, Settles, Counted, Granting
<1>5. Entitled /\ Entitlement!AdminRowsAreTheirs
  BY DEF Init, Entitled, Entitlement!Entitled, Entitlement!AdminRowsAreTheirs,
     NoRow, Entitlement!NoRow
<1>6. QED
  BY <1>1, <1>3, <1>4, <1>5 DEF IInv

LEMMA StepKeeps == IInv /\ [Next]_vars => IInv'
<1> SUFFICES ASSUME IInv, [Next]_vars PROVE IInv'
  OBVIOUS
<1>1. ASSUME NEW r \in Requests, InitStep(r) PROVE IInv'
  BY <1>1, InitStartStep, InitReadStep, InitInsertStep, InitUpdateStep,
     GrantReadStep, GrantCreateStep, GrantUpdateStep DEF InitStep
<1>2. ASSUME NEW r \in Requests, CancelStep(r) PROVE IInv'
  BY <1>2, CancelReadStep, CancelWriteStep, RevokeStep DEF CancelStep
<1>3. ASSUME NEW a \in Admins, AdminStep(a) PROVE IInv'
  BY <1>3, AdminReadStep, AdminUpsertStep DEF AdminStep
<1>4. CASE UNCHANGED vars
  BY <1>4 DEF vars, IInv, TypeOK, OneWriter, Entitled, Entitlement!Entitled,
     Entitlement!AdminRowsAreTheirs, Entitlement!NoRow, Pending, Settles, Counted
<1>5. QED
  BY <1>1, <1>2, <1>3, <1>4, CommitStep, RollbackStep DEF Next

THEOREM Invariance == Spec => []IInv
  BY InitHolds, StepKeeps, PTL DEF Spec

\* Rows and locals are always well typed.
THEOREM TypeCorrect == Spec => []TypeOK
<1>1. IInv => TypeOK
  BY DEF IInv
<1>2. QED
  BY <1>1, Invariance, PTL

\* The committed entitlement always follows the committed registration, unless
\* an administrator wrote the access row last: for any number of concurrent
\* initRegistration, cancel, grant and revoke calls.
THEOREM EntitlementFollows == Spec => []Entitled
<1>1. IInv => Entitled
  BY DEF IInv
<1>2. QED
  BY <1>1, Invariance, PTL

\* MAX_RETRIES = 2 is enough for any number of concurrent calls: a call loses
\* at most two races, one for each row that can come into being.
THEOREM RetriesAreEnough == Spec => []RetriesSuffice
<1>1. IInv => RetriesSuffice
  BY DEF IInv, RetriesSuffice, Counted
<1>2. QED
  BY <1>1, Invariance, PTL

\* "ParticipantAccess.source=ADMIN rows are NEVER mutated" by sync.ts: only an
\* administrator's upsert changes such a row, whatever was read before it.
THEOREM AdminRowsStay == Spec => AdminRowsKept
<1> DEFINE Kept == access.source = "ADMIN" /\ access' # access
                   => access'.by = "ADMIN" /\ \E a \in Admins : adm[a] # adm'[a]
<1>1. ASSUME IInv, Next PROVE Kept
  <2>1. ASSUME NEW r \in Requests, Commit(r) PROVE Kept
    <3>1. Settles(r) /\ access' = IF tx[r].access = NoRow THEN access ELSE tx[r].access
      BY <1>1, <2>1, Known DEF Commit
    <3>2. QED
      BY <2>1, <3>1 DEF Commit, Settles
  <2>2. ASSUME NEW a \in Admins, AdminUpsert(a) PROVE Kept
    <3>1. adm[a] # adm'[a]
      BY <1>1, <2>2 DEF IInv, TypeOK, AdminUpsert
    <3>2. QED
      BY <1>1, <2>2, <3>1, UpsertEffect
  <2>3. ASSUME NEW r \in Requests, InitStep(r) \/ CancelStep(r) \/ Rollback(r)
        PROVE  Kept
    BY <2>3 DEF InitStep, CancelStep, Rollback, InitStart, InitRead, InitInsert,
       InitUpdate, GrantRead, GrantCreate, GrantUpdate, CancelRead, CancelWrite, Revoke
  <2>4. ASSUME NEW a \in Admins, NEW g \in BOOLEAN, AdminRead(a, g) PROVE Kept
    BY <2>4 DEF AdminRead
  <2>5. QED
    BY <1>1, <2>1, <2>2, <2>3, <2>4 DEF Next, AdminStep
<1>2. IInv /\ [Next]_vars => [Kept]_vars
  BY <1>1
<1>3. QED
  BY <1>2, Invariance, PTL DEF Spec, AdminRowsKept

\* The transactions of lib/room-registration and the administrators' statements
\* implement the atomic operations of RoomEntitlement.
THEOREM Refinement == Spec => Implements
<1>1. Init => Entitlement!Init
  BY DEF Init, Entitlement!Init, NoRow
<1>2. ASSUME IInv, Next PROVE [Entitlement!Next]_(Entitlement!vars)
  <2>1. ASSUME NEW r \in Requests, Commit(r) PROVE Entitlement!Next
    <3>1. /\ Settles(r) /\ Pending(r)
          /\ reg' = tx[r].reg
          /\ access' = IF tx[r].access = NoRow THEN access ELSE tx[r].access
          /\ tx[r].reg \in {"FREE_CONFIRMED", "CANCELLED"}
      BY <1>2, <2>1, Known, CommitEffect DEF Commit, Statuses
    <3>2. CASE tx[r].reg = "FREE_CONFIRMED"
      <4>1. \/ access.by = "ADMIN" /\ access' = access
            \/ reg = "FREE_CONFIRMED" /\ access' = access
            \/ access.source # "ADMIN" /\ access' = Entitlement!ByRegistration(TRUE)
        BY <2>1, <3>1, <3>2, ByRegistrationIsARow DEF Commit, Settles
      <4>2. Entitlement!Register
        BY <3>1, <3>2, <4>1 DEF Entitlement!Register, Entitlement!AdminWrote
      <4>3. QED
        BY <4>2 DEF Entitlement!Next
    <3>3. CASE tx[r].reg = "CANCELLED"
      <4>1. \/ access.by = "ADMIN" /\ access' = access
            \/ /\ access.source = "REGISTRATION"
               /\ access' = Entitlement!ByRegistration(FALSE)
        BY <2>1, <3>1, <3>3, ByRegistrationIsARow DEF Commit, Settles
      <4>2. Entitlement!Cancel
        BY <3>1, <3>3, <4>1 DEF Pending, Entitlement!Cancel, Entitlement!AdminWrote
      <4>3. QED
        BY <4>2 DEF Entitlement!Next
    <3>4. QED
      BY <3>1, <3>2, <3>3
  <2>2. ASSUME NEW a \in Admins, AdminUpsert(a) PROVE Entitlement!Next
    <3>1. (access.source = "NONE") = (access = NoRow)
      BY <1>2, RowShape DEF IInv, TypeOK
    <3>2. Entitlement!Decide(adm[a] = "grant")
      BY <2>2, <3>1 DEF AdminUpsert, Entitlement!Decide
    <3>3. QED
      BY <3>2 DEF Entitlement!Next
  <2>3. ASSUME NEW r \in Requests, InitStep(r) \/ CancelStep(r) \/ Rollback(r)
        PROVE  UNCHANGED Entitlement!vars
    BY <2>3 DEF InitStep, CancelStep, Rollback, InitStart, InitRead, InitInsert,
       InitUpdate, GrantRead, GrantCreate, GrantUpdate, CancelRead, CancelWrite,
       Revoke, Entitlement!vars
  <2>4. ASSUME NEW a \in Admins, NEW g \in BOOLEAN, AdminRead(a, g)
        PROVE  UNCHANGED Entitlement!vars
    BY <2>4 DEF AdminRead, Entitlement!vars
  <2>5. QED
    BY <1>2, <2>1, <2>2, <2>3, <2>4 DEF Next, AdminStep
<1>3. UNCHANGED vars => UNCHANGED Entitlement!vars
  BY DEF vars, Entitlement!vars
<1>4. IInv /\ [Next]_vars => [Entitlement!Next]_(Entitlement!vars)
  BY <1>2, <1>3
<1>5. QED
  BY <1>1, <1>4, Invariance, PTL DEF Spec, Implements, Entitlement!Spec
=============================================================================
