------------------------ MODULE BackupRetentionProofs ------------------------
(***************************************************************************)
(* Machine-checked facts about BackupRetention, for any catalogue, any     *)
(* sweepers, administrators, dumps, restores and verifications running at  *)
(* once, and any retention policy.  Pruners may die, updates may be        *)
(* rejected and unlinks may fail.                                          *)
(*                                                                         *)
(* What a pruner has read about its candidate is several statements old    *)
(* when it acts on it.  It lasts, because a row whose dump is over goes    *)
(* back in flight only when it was verified before that end: such a row is *)
(* in doubt (Over).  A count lasts only while no good row goes: the        *)
(* pruners whose count a loss has outdated are in lost (FloorInv).         *)
(***************************************************************************)
EXTENDS BackupRetention, FiniteSetTheorems, TLAPS

DumpingPhases   == {"start", "publish", "complete"}
RowPhases       == DumpingPhases \cup {"verify", "record", "decode"}
CandidatePhases == {"floor", "restores", "fresh", "unlink", "mark"}

\* Whoever works on a row knows its id, and a restore whose safety backup is being
\* verified does nothing else.
KnowsRow ==
  /\ \A w \in Writers : dump[w].pc \in RowPhases => dump[w].id \in Ids
  /\ \A p \in Pruners : prune[p].pc \in CandidatePhases => prune[p].cur \in Ids
  /\ \A c \in Checkers : verify[c].pc = "persist" => verify[c].id \in Ids
  /\ \A r \in Restorers : verify[r].pc = "persist" => dump[r].pc = "verify"

TypeInv == TypeOK /\ KnowsRow

\* Locals and rows stay typed, and nobody loses track of its row.
LEMMA TypeInvariant == Spec => []TypeInv
<1>1. Init => TypeInv
  <2> SUFFICES ASSUME Init PROVE TypeInv
    OBVIOUS
  <2>1. NoPrune \in PruneLocals /\ NoDump \in DumpLocals /\ NoVerify \in VerifyLocals
    BY DEF NoPrune, NoDump, NoVerify, PruneLocals, DumpLocals, VerifyLocals,
           PrunePhases, DumpPhases
  <2>2. 0 \in 0..MaxMishaps
    BY CatalogueAssumption
  <2>3. TypeOK
    BY <2>1, <2>2 DEF Init, TypeOK, GoodIds
  <2>4. KnowsRow
    BY DEF Init, KnowsRow, NoDump, NoPrune, NoVerify, RowPhases, DumpingPhases,
           CandidatePhases, Writers, Checkers
  <2> QED
    BY <2>3, <2>4 DEF TypeInv
<1>2. TypeInv /\ [Next]_vars => TypeInv'
  <2> SUFFICES ASSUME TypeInv, [Next]_vars PROVE TypeInv'
    OBVIOUS
  <2>0. /\ status \in [Ids -> Settled \cup InFlight] /\ disk \subseteq Ids
        /\ prune \in [Pruners -> PruneLocals] /\ dump \in [Writers -> DumpLocals]
        /\ verify \in [Checkers -> VerifyLocals]
        /\ doubt \subseteq Ids /\ revived \subseteq Ids /\ lost \subseteq Pruners
        /\ mishaps \in 0..MaxMishaps /\ MaxMishaps \in Nat
    BY CatalogueAssumption DEF TypeInv, TypeOK
  <2>t. \A i \in Ids : Losing(i) \subseteq Pruners
    BY <2>0 DEF Losing, Counted
  \* The pruners' steps: their own locals are typed and they know their candidate.
  <2> DEFINE Typed(p, l) == l \in PruneLocals /\ (l.pc \in CandidatePhases => l.cur \in Ids)
             PruneOnly == UNCHANGED <<status, disk, dump, verify, doubt, revived, mishaps>>
  <2>a. ASSUME NEW p \in Pruners, NEW l, Typed(p, l), prune' = [prune EXCEPT ![p] = l]
        PROVE  /\ prune' \in [Pruners -> PruneLocals]
               /\ \A q \in Pruners : prune'[q].pc \in CandidatePhases => prune'[q].cur \in Ids
    BY <2>0, <2>a DEF TypeInv, KnowsRow
  <2>b. ASSUME NEW p \in Pruners, NEW l, Typed(p, l), prune' = [prune EXCEPT ![p] = l],
               UNCHANGED <<dump, verify, revived>>,
               status' \in [Ids -> Settled \cup InFlight], disk' \subseteq Ids,
               doubt' \subseteq Ids, lost' \subseteq Pruners, mishaps' \in 0..MaxMishaps
        PROVE  TypeInv'
    BY <2>0, <2>a, <2>b DEF TypeInv, TypeOK, KnowsRow
  <2>c. \A p \in Pruners : /\ prune[p] \in PruneLocals
                           /\ prune[p].pc \in CandidatePhases => prune[p].cur \in Ids
                           /\ Typed(p, NoPrune)
    BY <2>0 DEF TypeInv, KnowsRow, NoPrune, PruneLocals, PrunePhases, CandidatePhases
  <2>d. \A p \in Pruners : Typed(p, [prune[p] EXCEPT !.pc = "next"])
    BY <2>c DEF PruneLocals, PrunePhases, CandidatePhases
  <2>e. ASSUME NEW p \in Pruners, prune[p].pc \in CandidatePhases,
               NEW phase \in CandidatePhases
        PROVE  Typed(p, [prune[p] EXCEPT !.pc = phase])
    BY <2>c, <2>e DEF PruneLocals, PrunePhases, CandidatePhases
  <2>f. ASSUME NEW p \in Pruners, PruneNext(p)
        PROVE  \E l : Typed(p, l) /\ prune' = [prune EXCEPT ![p] = l]
    <3>1. CASE p \in Sweepers
      <4>1. prune' = [prune EXCEPT ![p] = [prune[p] EXCEPT !.pc = "next"]]
        BY <2>0, <2>f, <3>1 DEF PruneNext
      <4> QED
        BY <2>d, <4>1
    <3>2. CASE p \notin Sweepers
      BY <2>c, <2>f, <3>2 DEF PruneNext
    <3> QED
      BY <3>1, <3>2
  <2>g. ASSUME NEW p \in Pruners, NEW phase \in CandidatePhases, PruneGoto(p, phase),
               prune[p].pc \in CandidatePhases
        PROVE  \E l : Typed(p, l) /\ prune' = [prune EXCEPT ![p] = l]
    <3>1. prune' = [prune EXCEPT ![p] = [prune[p] EXCEPT !.pc = phase]]
      BY <2>0, <2>g DEF PruneGoto
    <3> QED
      BY <2>e, <2>g, <3>1
  <2> HIDE DEF Typed
  <2>1. ASSUME NEW s \in Sweepers, SweepStep(s) PROVE TypeInv'
    <3>0. s \in Pruners /\ prune[s] \in PruneLocals
      BY <2>c DEF Pruners
    <3>s. \E l : Typed(s, l) /\ prune' = [prune EXCEPT ![s] = l]
      <4>1. CASE SweepAnchor(s)
        <5>1. PICK n \in Ids \cup {None} :
                prune' = [prune EXCEPT ![s] = [@ EXCEPT !.pc = "retained", !.newest = n]]
          BY <4>1 DEF SweepAnchor, GoodIds, NewestOf
        <5>2. Typed(s, [prune[s] EXCEPT !.pc = "retained", !.newest = n])
          BY <3>0 DEF PruneLocals, PrunePhases, CandidatePhases, Typed
        <5> QED
          BY <5>1, <5>2
      <4>2. CASE SweepRetained(s)
        <5>1. NewestOf(GoodIds, Keep) \subseteq Ids
          BY DEF NewestOf, GoodIds
        <5>2. Typed(s, [prune[s] EXCEPT !.pc = "scan", !.retained = NewestOf(GoodIds, Keep)])
          BY <3>0, <5>1 DEF PruneLocals, PrunePhases, CandidatePhases, Typed
        <5> QED
          BY <4>2, <5>2 DEF SweepRetained
      <4>3. CASE SweepScan(s)
        <5> DEFINE todo == {i \in Prunable(s) : status[i] \in Scannable}
        <5>1. todo \subseteq Ids
          BY DEF Prunable
        <5> HIDE DEF todo
        <5>2. Typed(s, [prune[s] EXCEPT !.pc = "next", !.todo = todo])
          BY <3>0, <5>1 DEF PruneLocals, PrunePhases, CandidatePhases, Typed
        <5> QED
          BY <4>3, <5>2 DEF SweepScan, todo
      <4>4. CASE SweepTake(s)
        <5>1. PICK i \in prune[s].todo :
                prune' = [prune EXCEPT ![s] = [@ EXCEPT !.pc = "floor", !.cur = i,
                                                        !.todo = prune[s].todo \ {i}]]
          BY <4>4 DEF SweepTake, NewestOf
        <5>2. Typed(s, [prune[s] EXCEPT !.pc = "floor", !.cur = i,
                                        !.todo = prune[s].todo \ {i}])
          BY <3>0 DEF PruneLocals, PrunePhases, Typed
        <5> QED
          BY <5>1, <5>2
      <4>5. CASE SweepEnd(s)
        BY <2>c, <3>0, <4>5 DEF SweepEnd
      <4>6. CASE SweepFresh(s)
        BY <2>f, <2>g, <3>0, <4>6 DEF SweepFresh, CandidatePhases
      <4> QED
        BY <2>1, <4>1, <4>2, <4>3, <4>4, <4>5, <4>6 DEF SweepStep
    <3>u. PruneOnly /\ lost' \subseteq lost
      <4>1. CASE SweepFresh(s)
        BY <4>1 DEF SweepFresh
      <4>2. CASE ~SweepFresh(s)
        BY <2>1, <4>2 DEF SweepStep, SweepAnchor, SweepRetained, SweepScan, SweepTake,
           SweepEnd, history
      <4> QED
        BY <4>1, <4>2
    <3> QED
      BY <2>0, <2>b, <3>0, <3>s, <3>u
  <2>2. ASSUME NEW d \in Deleters, NEW i \in Ids, DeleteRead(d, i) PROVE TypeInv'
    <3>0. d \in Pruners /\ prune[d] \in PruneLocals
      BY <2>c DEF Pruners
    <3>1. Typed(d, [prune[d] EXCEPT !.pc = "restores", !.cur = i])
      BY <3>0 DEF PruneLocals, PrunePhases, Typed
    <3> QED
      BY <2>0, <2>2, <2>b, <3>0, <3>1 DEF DeleteRead, history
  <2>3. ASSUME NEW p \in Pruners, PruneStep(p) \/ MarkFails(p) \/ PrunerCrash(p)
        PROVE  TypeInv'
    <3>s. \E l : Typed(p, l) /\ prune' = [prune EXCEPT ![p] = l]
      <4>1. CASE Floor(p)
        BY <2>f, <2>g, <4>1 DEF Floor, CandidatePhases
      <4>2. CASE RestoreGuard(p)
        BY <2>f, <2>g, <4>2 DEF RestoreGuard, CandidatePhases
      <4>3. CASE Unlink(p)
        BY <2>g, <4>3 DEF Unlink, CandidatePhases
      <4>4. CASE MarkDeleted(p) \/ MarkFails(p)
        BY <2>f, <4>4 DEF MarkDeleted, MarkFails
      <4>5. CASE PrunerCrash(p)
        BY <2>c, <4>5 DEF PrunerCrash
      <4> QED
        BY <2>3, <4>1, <4>2, <4>3, <4>4, <4>5 DEF PruneStep
    <3>u. /\ UNCHANGED <<dump, verify, revived>>
          /\ status' \in [Ids -> Settled \cup InFlight] /\ disk' \subseteq Ids
          /\ doubt' \subseteq Ids /\ lost' \subseteq Pruners /\ mishaps' \in 0..MaxMishaps
      <4>0. prune[p].pc \in {"unlink", "mark"} => prune[p].cur \in Ids
        BY <2>c DEF CandidatePhases
      <4>1. CASE Floor(p) \/ RestoreGuard(p)
        BY <2>0, <4>1 DEF Floor, RestoreGuard, history
      <4>3. CASE Unlink(p)
        BY <2>0, <4>0, <4>3 DEF Unlink
      <4>4. CASE MarkDeleted(p)
        <5>1. Losing(prune[p].cur) \subseteq Pruners
          BY <2>t, <4>0, <4>4 DEF MarkDeleted
        <5> QED
          BY <2>0, <4>0, <4>4, <5>1 DEF MarkDeleted, Settled
      <4>5. CASE MarkFails(p) \/ PrunerCrash(p)
        BY <2>0, <4>0, <4>5 DEF MarkFails, PrunerCrash
      <4> QED
        BY <2>3, <4>1, <4>3, <4>4, <4>5 DEF PruneStep
    <3> QED
      BY <2>b, <3>s, <3>u
  \* The writers': the same of their row, and nobody's verification is disturbed.
  <2> DEFINE Owning(l) == l \in DumpLocals /\ (l.pc \in RowPhases => l.id \in Ids)
  <2>h. ASSUME NEW w \in Writers, NEW l, Owning(l), dump' = [dump EXCEPT ![w] = l],
               w \in Restorers => verify[w].pc # "persist", UNCHANGED <<prune, verify>>,
               status' \in [Ids -> Settled \cup InFlight], disk' \subseteq Ids,
               doubt' \subseteq Ids, revived' \subseteq Ids, lost' \subseteq Pruners,
               mishaps' \in 0..MaxMishaps
        PROVE  TypeInv'
    <3>1. dump' \in [Writers -> DumpLocals]
      BY <2>0, <2>h
    <3>2. \A v \in Writers : dump'[v].pc \in RowPhases => dump'[v].id \in Ids
      BY <2>0, <2>h DEF TypeInv, KnowsRow
    <3>3. \A r \in Restorers : verify[r].pc = "persist" => dump'[r].pc = "verify"
      BY <2>0, <2>h DEF TypeInv, KnowsRow, Writers
    <3> QED
      BY <2>0, <2>h, <3>1, <3>2, <3>3 DEF TypeInv, TypeOK, KnowsRow
  <2>i. \A w \in Writers : /\ dump[w] \in DumpLocals
                           /\ dump[w].pc \in RowPhases => dump[w].id \in Ids
                           /\ Owning(NoDump)
                           /\ w \in Restorers /\ dump[w].pc # "verify"
                                => verify[w].pc # "persist"
    BY <2>0 DEF TypeInv, KnowsRow, NoDump, DumpLocals, DumpPhases, OpPhases, RowPhases,
                DumpingPhases
  <2>j. ASSUME NEW w \in Writers, NEW phase \in RowPhases, dump[w].pc \in RowPhases
        PROVE  Owning([dump[w] EXCEPT !.pc = phase])
    BY <2>i, <2>j DEF DumpLocals, DumpPhases, OpPhases, RowPhases, DumpingPhases
  <2>k. ASSUME NEW w \in Writers, NEW phase \in {"open", "race", "insert"}
        PROVE  Owning([dump[w] EXCEPT !.pc = phase])
    BY <2>i DEF DumpLocals, DumpPhases, OpPhases, RowPhases, DumpingPhases
  <2>l. ASSUME NEW i \in Ids, NEW new \in Settled \cup InFlight, SetStatus(i, new)
        PROVE  status' \in [Ids -> Settled \cup InFlight] /\ lost' \subseteq Pruners
    BY <2>0, <2>l, <2>t DEF SetStatus
  <2> HIDE DEF Owning
  <2>4. ASSUME NEW w \in Writers, WriteStep(w) PROVE TypeInv'
    <3>1. ASSUME NEW i \in Ids, DumpInsert(w, i) PROVE TypeInv'
      <4>1. Owning([dump[w] EXCEPT !.pc = "start", !.id = i])
        BY <2>i DEF DumpLocals, DumpPhases, OpPhases, RowPhases, DumpingPhases, Owning
      <4>2. dump[w].pc # "verify"
        BY <3>1 DEF DumpInsert
      <4>3. status' \in [Ids -> Settled \cup InFlight]
        BY <2>0, <3>1 DEF DumpInsert, InFlight
      <4> QED
        BY <2>0, <2>h, <2>i, <3>1, <4>1, <4>2, <4>3 DEF DumpInsert, history
    <3>2. CASE DumpStart(w)
      <4>1. dump[w].id \in Ids /\ dump[w].pc # "verify"
        BY <2>i, <3>2 DEF DumpStart, RowPhases, DumpingPhases
      <4>2. Owning([dump[w] EXCEPT !.pc = "publish"])
        BY <2>j, <3>2 DEF DumpStart, RowPhases, DumpingPhases
      <4>3. status' \in [Ids -> Settled \cup InFlight] /\ lost' \subseteq Pruners
        BY <2>l, <3>2, <4>1 DEF DumpStart, InFlight
      <4>4. dump' = [dump EXCEPT ![w] = [dump[w] EXCEPT !.pc = "publish"]]
        BY <3>2 DEF DumpStart, DumpGoto
      <4> QED
        BY <2>0, <2>h, <2>i, <3>2, <4>1, <4>2, <4>3, <4>4 DEF DumpStart
    <3>3. CASE DumpPublish(w)
      <4>1. dump[w].id \in Ids /\ dump[w].pc # "verify"
        BY <2>i, <3>3 DEF DumpPublish, RowPhases, DumpingPhases
      <4>2. Owning([dump[w] EXCEPT !.pc = "complete"])
        BY <2>j, <3>3 DEF DumpPublish, RowPhases, DumpingPhases
      <4>3. dump' = [dump EXCEPT ![w] = [dump[w] EXCEPT !.pc = "complete"]]
        BY <3>3 DEF DumpPublish, DumpGoto
      <4> QED
        BY <2>0, <2>h, <2>i, <3>3, <4>1, <4>2, <4>3 DEF DumpPublish, history
    <3>4. CASE DumpComplete(w)
      <4>1. dump[w].id \in Ids /\ dump[w].pc # "verify"
        BY <2>i, <3>4 DEF DumpComplete, RowPhases, DumpingPhases
      <4>2. Owning([dump[w] EXCEPT !.pc = "verify"])
        BY <2>j, <3>4 DEF DumpComplete, RowPhases, DumpingPhases
      <4>3. status' \in [Ids -> Settled \cup InFlight] /\ lost' \subseteq Pruners
        BY <2>l, <3>4, <4>1 DEF DumpComplete, Settled, Good
      <4>4. \/ dump' = [dump EXCEPT ![w] = [dump[w] EXCEPT !.pc = "verify"]]
            \/ dump' = [dump EXCEPT ![w] = NoDump]
        BY <3>4 DEF DumpComplete
      <4>5. UNCHANGED <<disk, prune, verify, doubt, revived, mishaps>>
        BY <3>4 DEF DumpComplete
      <4>6. w \in Restorers => verify[w].pc # "persist"
        BY <2>i, <4>1
      <4>7. Owning(NoDump)
        BY <2>i
      <4> QED
        BY <2>0, <2>h, <4>2, <4>3, <4>4, <4>5, <4>6, <4>7
    <3>5. CASE DumpFail(w)
      <4>1. dump[w].id \in Ids /\ dump[w].pc # "verify"
        BY <2>i, <3>5 DEF DumpFail, RowPhases, DumpingPhases
      <4>2. status' \in [Ids -> Settled \cup InFlight] /\ lost' \subseteq Pruners
        BY <2>l, <3>5, <4>1 DEF DumpFail, Settled
      <4> QED
        BY <2>0, <2>h, <2>i, <3>5, <4>1, <4>2 DEF DumpFail
    <3> QED
      BY <2>4, <3>1, <3>2, <3>3, <3>4, <3>5 DEF WriteStep
  \* Verifications.
  <2>m. ASSUME NEW c \in Checkers, NEW i \in Ids, Check(c, i),
               c \in Restorers => dump[c].pc = "verify",
               UNCHANGED <<status, disk, prune, dump, revived, lost, mishaps>>
        PROVE  TypeInv'
    <3>1. PICK f \in {"VERIFIED", "FAILED", "MISSING"} :
            verify' = [verify EXCEPT ![c] = [pc |-> "persist", id |-> i, found |-> f]]
      BY <2>m DEF Check, Verdicts
    <3>2. [pc |-> "persist", id |-> i, found |-> f] \in VerifyLocals
      BY DEF VerifyLocals
    <3>3. verify' \in [Checkers -> VerifyLocals] /\ doubt' \subseteq Ids
      BY <2>0, <2>m, <3>1, <3>2 DEF Check
    <3>4. /\ \A b \in Checkers : verify'[b].pc = "persist" => verify'[b].id \in Ids
          /\ \A r \in Restorers : verify'[r].pc = "persist" => dump[r].pc = "verify"
      BY <2>0, <2>m, <3>1 DEF TypeInv, KnowsRow, Checkers
    <3> QED
      BY <2>0, <2>m, <3>3, <3>4 DEF TypeInv, TypeOK, KnowsRow
  <2>n. ASSUME NEW c \in Checkers, Persist(c)
        PROVE  /\ status' \in [Ids -> Settled \cup InFlight] /\ lost' \subseteq Pruners
               /\ doubt' \subseteq Ids /\ revived' \subseteq Ids /\ mishaps' \in 0..MaxMishaps
               /\ verify' = [verify EXCEPT ![c] = NoVerify]
               /\ verify[c].id \in Ids
    <3>1. verify[c] \in VerifyLocals /\ verify[c].id \in Ids
      BY <2>0, <2>n DEF Persist, TypeInv, KnowsRow
    <3>2. verify[c].found \in Settled
      BY <3>1 DEF VerifyLocals, Settled, Good
    <3>p. PICK i \in Ids, f \in Settled : i = verify[c].id /\ f = verify[c].found
      BY <3>1, <3>2
    <3>u. /\ doubt' \subseteq Ids /\ revived' \subseteq Ids
          /\ mishaps' = mishaps \/ (mishaps < MaxMishaps /\ mishaps' = mishaps + 1)
      BY <2>0, <2>n, <3>1 DEF Persist, history
    <3>v. mishaps' \in 0..MaxMishaps
      BY <2>0, <3>u
    <3>3. CASE SetStatus(i, f)
      BY <2>l, <2>n, <3>1, <3>3, <3>u, <3>v DEF Persist
    <3>4. CASE UNCHANGED <<status, history>>
      BY <2>0, <2>n, <3>1, <3>4, <3>u, <3>v DEF Persist, history
    <3> QED
      BY <2>n, <3>p, <3>3, <3>4 DEF Persist
  <2>o. NoVerify \in VerifyLocals
    BY DEF NoVerify, VerifyLocals
  <2>5. ASSUME NEW r \in Restorers, RestoreStep(r) PROVE TypeInv'
    <3>0. r \in Writers /\ r \in Checkers /\ dump[r] \in DumpLocals
      BY <2>i DEF Writers, Checkers
    <3>a. ASSUME NEW l, Owning(l), dump' = [dump EXCEPT ![r] = l], dump[r].pc # "verify",
                 UNCHANGED <<status, disk, prune, verify, doubt, revived, lost, mishaps>>
          PROVE  TypeInv'
      BY <2>0, <2>h, <2>i, <3>0, <3>a
    <3>1. ASSUME NEW i \in Ids, RestorePreflight(r, i) PROVE TypeInv'
      <4>1. Owning([dump[r] EXCEPT !.pc = "open", !.source = i])
        BY <3>0 DEF DumpLocals, DumpPhases, RowPhases, DumpingPhases, Owning
      <4> QED
        BY <3>1, <3>a, <4>1 DEF RestorePreflight, history
    <3>2. CASE RestoreOpen(r)
      BY <2>k, <3>0, <3>2, <3>a DEF RestoreOpen, DumpGoto, history
    <3>3. CASE RestoreRaceCheck(r)
      BY <2>i, <2>k, <3>0, <3>3, <3>a DEF RestoreRaceCheck, DumpGoto, history
    <3>4. CASE SafetyRead(r)
      BY <2>i, <2>m, <3>0, <3>4 DEF SafetyRead, RowPhases
    <3>5. CASE SafetyPersist(r)
      <4>1. dump[r].pc = "verify"
        BY <3>5 DEF SafetyPersist, Persist, TypeInv, KnowsRow
      <4>2. Owning([dump[r] EXCEPT !.pc = "record"])
        BY <2>j, <3>0, <4>1 DEF RowPhases
      <4>3. PICK l : Owning(l) /\ dump' = [dump EXCEPT ![r] = l]
        BY <2>i, <3>0, <3>5, <4>2 DEF SafetyPersist, DumpGoto
      <4>4. dump' \in [Writers -> DumpLocals]
            /\ \A v \in Writers : dump'[v].pc \in RowPhases => dump'[v].id \in Ids
        BY <2>0, <3>0, <4>3 DEF Owning, TypeInv, KnowsRow
      <4>5. /\ verify' = [verify EXCEPT ![r] = NoVerify] /\ UNCHANGED <<disk, prune>>
            /\ verify' \in [Checkers -> VerifyLocals]
        BY <2>0, <2>n, <2>o, <3>0, <3>5 DEF SafetyPersist
      <4>6. /\ \A b \in Checkers : verify'[b].pc = "persist" => verify'[b].id \in Ids
            /\ \A q \in Restorers : verify'[q].pc = "persist" => dump'[q].pc = "verify"
        BY <2>0, <3>0, <4>3, <4>5 DEF TypeInv, KnowsRow, NoVerify, Checkers, Writers
      <4>7. KnowsRow'
        BY <4>4, <4>5, <4>6 DEF TypeInv, KnowsRow
      <4>8. /\ status' \in [Ids -> Settled \cup InFlight] /\ lost' \subseteq Pruners
            /\ doubt' \subseteq Ids /\ revived' \subseteq Ids /\ mishaps' \in 0..MaxMishaps
        BY <2>n, <3>0, <3>5 DEF SafetyPersist
      <4>9. TypeOK'
        BY <2>0, <4>4, <4>5, <4>8 DEF TypeOK
      <4> QED
        BY <4>7, <4>9 DEF TypeInv
    <3>6. CASE SafetyRecord(r)
      <4>1. dump[r].pc = "record" /\ dump[r].id \in Ids
        BY <2>i, <3>0, <3>6 DEF SafetyRecord, RowPhases
      <4>2. Owning([dump[r] EXCEPT !.pc = "decode", !.recorded = dump[r].id])
        BY <3>0, <4>1 DEF DumpLocals, DumpPhases, OpPhases, Owning
      <4> QED
        BY <3>6, <3>a, <4>1, <4>2 DEF SafetyRecord, history
    <3>7. CASE RestoreDecode(r)
      BY <2>i, <3>0, <3>7, <3>a DEF RestoreDecode, history
    <3> QED
      BY <2>5, <3>1, <3>2, <3>3, <3>4, <3>5, <3>6, <3>7 DEF RestoreStep
  <2>6. ASSUME NEW v \in Verifiers, VerifyPersist(v) \/ (\E i \in Ids : VerifyRead(v, i))
        PROVE  TypeInv'
    <3>0. v \in Checkers /\ v \notin Restorers
      BY ActorAssumption DEF Checkers
    <3>1. CASE VerifyPersist(v)
      <4>1. /\ UNCHANGED <<disk, prune, dump>>
            /\ verify' = [verify EXCEPT ![v] = NoVerify]
        BY <2>n, <3>0, <3>1 DEF VerifyPersist
      <4>2. /\ verify' \in [Checkers -> VerifyLocals]
            /\ \A b \in Checkers : verify'[b].pc = "persist" =>
                 verify'[b].id \in Ids /\ verify[b].pc = "persist"
        BY <2>0, <2>o, <4>1 DEF TypeInv, KnowsRow, NoVerify
      <4>3. TypeOK'
        BY <2>0, <2>n, <3>0, <3>1, <4>1, <4>2 DEF VerifyPersist, TypeOK
      <4>4. KnowsRow'
        BY <4>1, <4>2 DEF TypeInv, KnowsRow, Checkers
      <4> QED
        BY <4>3, <4>4 DEF TypeInv
    <3>2. CASE \E i \in Ids : VerifyRead(v, i)
      BY <2>m, <3>0, <3>2 DEF VerifyRead
    <3> QED
      BY <2>6, <3>1, <3>2
  <2>7. CASE UNCHANGED vars
    BY <2>7 DEF vars, history, TypeInv, TypeOK, KnowsRow
  <2> QED
    BY <2>1, <2>2, <2>3, <2>4, <2>5, <2>6, <2>7 DEF Next
<1> QED
  BY <1>1, <1>2, PTL DEF Spec

\* Every row status is one the schema has, and every local has its type,
\* whoever runs and whoever dies.
THEOREM TypeCorrect == Spec => []TypeOK
<1>1. TypeInv => TypeOK
  BY DEF TypeInv
<1> QED
  BY <1>1, TypeInvariant, PTL

-----------------------------------------------------------------------------
(* What the steps of each actor do to the rows and the files                *)

\* A pruner moves among its candidates; it removes files before it marks their row, and
\* whatever stops it in between leaves the row in doubt.
PrunerMoves(p) ==
  LET cur == prune[p].cur
      pc == prune[p].pc
  IN  /\ UNCHANGED <<dump, verify, revived>>
      /\ \A q \in Pruners \ {p} : prune'[q] = prune[q]
      /\ doubt \subseteq doubt' /\ lost \ {p} \subseteq lost'
      /\ \/ UNCHANGED status
         \/ /\ pc = "mark" /\ status' = [status EXCEPT ![cur] = "DELETED"]
            /\ status[cur] \in Good => Counted \ {p} \subseteq lost'
      /\ UNCHANGED disk \/ (disk' = disk \ {cur} /\ pc = "unlink")
      /\ pc = "unlink" => prune'[p].pc \in {"mark", "idle"}
      /\ pc = "unlink" /\ prune'[p].pc = "idle" => UNCHANGED disk
      /\ pc = "mark" => /\ prune'[p].pc \notin CandidatePhases
                        /\ cur \in doubt' \/ status'[cur] = "DELETED"
      /\ \A i \in prune'[p].todo : i \in prune[p].todo \/ status[i] \in Scannable
      /\ prune'[p].pc \in CandidatePhases =>
           \/ pc \in CandidatePhases /\ prune'[p].cur = cur
           \/ prune'[p].cur \in prune[p].todo
           \/ status[prune'[p].cur] \notin InFlight \cup {"NONE"}
      /\ prune'[p].pc = "mark" => /\ pc = "unlink" /\ prune'[p].cur = cur
                                  /\ cur \notin disk' \/ cur \in doubt'
      /\ p \in Counted' => /\ prune'[p].cur = cur
                           /\ \/ p \in Counted /\ (p \in lost => p \in lost')
                              \/ GoodIds \ {cur} # {}

\* A dump under way moves and with it the row i it has, or takes.
WriterMoves(w, i) ==
  /\ UNCHANGED <<prune, verify, doubt, revived>>
  /\ \A v \in Writers \ {w} : dump'[v] = dump[v]
  /\ \A j \in Ids \ {i} : status'[j] = status[j]
  /\ disk \ {i} \subseteq disk' /\ disk' \subseteq disk \cup {i}
  /\ \/ status[i] = "NONE" /\ status'[i] = "PENDING"
     \/ dump[w].pc \in DumpingPhases /\ dump[w].id = i
  /\ dump'[w].pc \in {"start", "publish", "complete", "verify"} => dump'[w].id = i
  /\ dump'[w].pc = "complete" => i \in disk'
  /\ \/ UNCHANGED status
     \/ status'[i] \in InFlight
     \/ status'[i] \in {"COMPLETED", "FAILED"} /\ dump'[w].pc \notin DumpingPhases
  /\ status'[i] = "COMPLETED" =>
       UNCHANGED status \/ (dump[w].pc = "complete" /\ UNCHANGED disk)
  /\ lost \subseteq lost'
  /\ status[i] \in Good /\ status'[i] \notin Good => Counted \subseteq lost'

\* A restore moves outside its safety dump.
RestorerMoves(r) ==
  /\ UNCHANGED <<status, disk, prune, verify, doubt, revived, lost>>
  /\ \A v \in Writers \ {r} : dump'[v] = dump[v]
  /\ dump'[r].pc \notin {"start", "publish", "complete", "verify"}

\* Row i is looked at for a verdict.
CheckerReads(c, i) ==
  /\ UNCHANGED <<status, disk, prune, dump, revived, lost>>
  /\ \A b \in Checkers \ {c} : verify'[b] = verify[b]
  /\ verify'[c].id = i /\ status[i] # "NONE"
  /\ verify'[c].found = "VERIFIED" => i \in disk
  /\ doubt \subseteq doubt' /\ (status[i] \in InFlight => i \in doubt')

\* The verdict is written, or its update is rejected.
CheckerWrites(c) ==
  LET i == verify[c].id
      found == verify[c].found
  IN  /\ UNCHANGED <<disk, prune>>
      /\ verify[c].pc = "persist" /\ i \in Ids /\ found \in {"VERIFIED", "FAILED", "MISSING"}
      /\ verify'[c].pc # "persist"
      /\ \A b \in Checkers \ {c} : verify'[b] = verify[b]
      /\ \A v \in Writers :
           dump'[v] = dump[v] \/ dump'[v].pc \notin {"start", "publish", "complete", "verify"}
      /\ doubt \subseteq doubt' /\ revived \subseteq revived' /\ lost \subseteq lost'
      /\ \A j \in Ids \ {i} : status'[j] = status[j]
      /\ \/ UNCHANGED status
         \/ /\ status'[i] = found
            /\ status[i] = "DELETED" => i \in doubt'
            /\ status[i] \notin Good /\ found \in Good => i \in revived'
            /\ status[i] \in Good /\ found \notin Good => Counted \subseteq lost'

\* Every step is one of these.
LEMMA StepEffects ==
  ASSUME TypeInv, [Next]_vars,
         \A w \in Writers : dump[w].pc = "verify" => status[dump[w].id] # "NONE"
  PROVE  \/ \E p \in Pruners : PrunerMoves(p)
         \/ \E w \in Writers, i \in Ids : WriterMoves(w, i)
         \/ \E r \in Writers : RestorerMoves(r)
         \/ \E c \in Checkers, i \in Ids : CheckerReads(c, i)
         \/ \E c \in Checkers : CheckerWrites(c)
         \/ UNCHANGED <<status, disk, prune, dump, verify, doubt, revived, lost>>
<1>0. /\ prune \in [Pruners -> PruneLocals] /\ dump \in [Writers -> DumpLocals]
      /\ verify \in [Checkers -> VerifyLocals] /\ status \in [Ids -> Settled \cup InFlight]
      /\ \A w \in Writers : dump[w].pc \in RowPhases => dump[w].id \in Ids
      /\ \A p \in Pruners : prune[p].pc \in CandidatePhases => prune[p].cur \in Ids
      /\ \A c \in Checkers : verify[c].pc = "persist" => verify[c].id \in Ids
      /\ \A r \in Restorers : verify[r].pc = "persist" => dump[r].pc = "verify"
      /\ Sweepers \subseteq Pruners /\ Deleters \subseteq Pruners
      /\ Restorers \subseteq Writers /\ Restorers \subseteq Checkers
      /\ Verifiers \subseteq Checkers
  BY DEF TypeInv, TypeOK, KnowsRow, Pruners, Writers, Checkers
\* Most pruners' steps touch nothing but their own locals.
<1>a. ASSUME NEW p \in Pruners,
             UNCHANGED <<status, disk, dump, verify, doubt, revived>>, lost \ {p} \subseteq lost',
             \A q \in Pruners \ {p} : prune'[q] = prune[q],
             prune[p].pc \notin {"unlink", "mark"},
             \A i \in prune'[p].todo : i \in prune[p].todo \/ status[i] \in Scannable,
             prune'[p].pc # "mark",
             prune'[p].pc \in CandidatePhases =>
               \/ prune[p].pc \in CandidatePhases /\ prune'[p].cur = prune[p].cur
               \/ prune'[p].cur \in prune[p].todo
               \/ status[prune'[p].cur] \notin InFlight \cup {"NONE"},
             p \in Counted' =>
               /\ prune'[p].cur = prune[p].cur
               /\ \/ p \in Counted /\ (p \in lost => p \in lost')
                  \/ GoodIds \ {prune[p].cur} # {}
      PROVE  PrunerMoves(p)
  BY <1>a DEF PrunerMoves
<1>1. ASSUME NEW s \in Sweepers, SweepStep(s) PROVE PrunerMoves(s)
  <2>0. /\ \A q \in Pruners \ {s} : prune'[q] = prune[q]
        /\ UNCHANGED <<status, disk, dump, verify, doubt, revived>> /\ lost \ {s} \subseteq lost'
    <3>1. CASE SweepFresh(s)
      BY <1>0, <3>1 DEF SweepFresh, PruneNext, PruneGoto
    <3>2. CASE ~SweepFresh(s)
      BY <1>0, <1>1, <3>2 DEF SweepStep, SweepAnchor, SweepRetained, SweepScan, SweepTake,
         SweepEnd, history
    <3> QED
      BY <3>1, <3>2
  <2>1. CASE SweepAnchor(s) \/ SweepRetained(s)
    <3>1. prune'[s].pc \in {"retained", "scan"} /\ prune'[s].todo = prune[s].todo
      <4>1. CASE SweepAnchor(s)
        <5>1. PICK n \in Ids \cup {None} :
                prune' = [prune EXCEPT ![s] = [@ EXCEPT !.pc = "retained", !.newest = n]]
          BY <4>1 DEF SweepAnchor, GoodIds, NewestOf
        <5> QED
          BY <1>0, <5>1 DEF PruneLocals
      <4>2. CASE SweepRetained(s)
        BY <1>0, <4>2 DEF SweepRetained, PruneLocals
      <4> QED
        BY <2>1, <4>1, <4>2
    <3> QED
      BY <1>0, <1>a, <2>0, <2>1, <3>1
      DEF SweepAnchor, SweepRetained, CandidatePhases, Counted
  <2>3. CASE SweepScan(s)
    <3>1. prune'[s].pc = "next" /\ \A i \in prune'[s].todo : status[i] \in Scannable
      BY <1>0, <2>3 DEF SweepScan, PruneLocals
    <3> QED
      BY <1>0, <1>a, <2>0, <2>3, <3>1 DEF SweepScan, CandidatePhases, Counted
  <2>4. CASE SweepTake(s)
    <3>1. PICK i \in prune[s].todo :
            prune' = [prune EXCEPT ![s] = [@ EXCEPT !.pc = "floor", !.cur = i,
                                                    !.todo = prune[s].todo \ {i}]]
      BY <2>4 DEF SweepTake, NewestOf
    <3>2. prune'[s].pc = "floor" /\ prune'[s].cur = i /\ prune'[s].todo = prune[s].todo \ {i}
      BY <1>0, <3>1 DEF PruneLocals
    <3> QED
      BY <1>0, <1>a, <2>0, <2>4, <3>2 DEF SweepTake, CandidatePhases, Counted
  <2>5. CASE SweepEnd(s)
    <3>1. prune'[s].pc = "idle" /\ prune'[s].todo = {}
      BY <1>0, <2>5 DEF SweepEnd, NoPrune
    <3> QED
      BY <1>0, <1>a, <2>0, <2>5, <3>1 DEF SweepEnd, CandidatePhases, Counted
  <2>6. CASE SweepFresh(s)
    <3>1. /\ prune'[s].todo = prune[s].todo /\ prune'[s].cur = prune[s].cur
          /\ \/ prune'[s].pc = "next"
             \/ prune'[s].pc = "unlink" /\ UNCHANGED lost
      BY <1>0, <2>6 DEF SweepFresh, PruneNext, PruneGoto, PruneLocals
    <3>2. prune[s].pc = "fresh"
      BY <2>6 DEF SweepFresh
    <3> QED
      BY <1>0, <1>a, <2>0, <3>1, <3>2 DEF CandidatePhases, Counted
  <2> QED
    BY <1>1, <2>1, <2>3, <2>4, <2>5, <2>6 DEF SweepStep
<1>2. ASSUME NEW d \in Deleters, NEW i \in Ids, DeleteRead(d, i) PROVE PrunerMoves(d)
  <2>1. /\ prune'[d].pc = "restores" /\ prune'[d].cur = i /\ prune'[d].todo = prune[d].todo
        /\ \A q \in Pruners \ {d} : prune'[q] = prune[q]
    BY <1>0, <1>2 DEF DeleteRead, PruneLocals
  <2> QED
    BY <1>0, <1>2, <1>a, <2>1, ActorAssumption
    DEF DeleteRead, CandidatePhases, Counted, history
<1>3. ASSUME NEW p \in Pruners, PruneStep(p) \/ MarkFails(p) \/ PrunerCrash(p)
      PROVE  PrunerMoves(p)
  <2>n. ASSUME PruneNext(p)
        PROVE  /\ \A q \in Pruners \ {p} : prune'[q] = prune[q]
               /\ prune'[p].pc \in {"next", "idle"}
               /\ prune'[p].todo \subseteq prune[p].todo
    BY <1>0, <2>n DEF PruneNext, NoPrune, PruneLocals
  <2>g. ASSUME NEW phase \in PrunePhases, PruneGoto(p, phase)
        PROVE  /\ \A q \in Pruners \ {p} : prune'[q] = prune[q]
               /\ prune'[p].pc = phase /\ prune'[p].cur = prune[p].cur
               /\ prune'[p].todo = prune[p].todo
    BY <1>0, <2>g DEF PruneGoto, PruneLocals
  <2>1. CASE Floor(p)
    <3>0. /\ prune[p].pc = "floor"
          /\ UNCHANGED <<status, disk, dump, verify, doubt, revived, lost>>
      BY <2>1 DEF Floor, history
    <3>1. CASE PruneNext(p)
      BY <1>a, <2>n, <3>0, <3>1 DEF CandidatePhases, Counted
    <3>2. CASE ~PruneNext(p)
      <4>1. /\ GoodIds \ {prune[p].cur} # {}
            /\ prune'[p].pc \in {"restores", "unlink"} /\ prune'[p].cur = prune[p].cur
            /\ prune'[p].todo = prune[p].todo
            /\ \A q \in Pruners \ {p} : prune'[q] = prune[q]
        BY <2>1, <2>g, <3>2 DEF Floor, PrunePhases
      <4> QED
        BY <1>a, <3>0, <4>1 DEF CandidatePhases
    <3> QED
      BY <3>1, <3>2
  <2>2. CASE RestoreGuard(p)
    <3>0. /\ prune[p].pc = "restores"
          /\ UNCHANGED <<status, disk, dump, verify, doubt, revived>> /\ lost \ {p} \subseteq lost'
      BY <2>2 DEF RestoreGuard
    <3>1. CASE PruneNext(p)
      BY <1>a, <2>n, <3>0, <3>1 DEF CandidatePhases, Counted
    <3>2. CASE ~PruneNext(p)
      <4>1. /\ UNCHANGED lost
            /\ prune'[p].pc = (IF p \in Sweepers THEN "fresh" ELSE "floor")
            /\ prune'[p].cur = prune[p].cur /\ prune'[p].todo = prune[p].todo
            /\ \A q \in Pruners \ {p} : prune'[q] = prune[q]
        BY <2>2, <2>g, <3>2 DEF RestoreGuard, PrunePhases
      <4> QED
        BY <1>a, <3>0, <4>1 DEF CandidatePhases, Counted
    <3> QED
      BY <3>1, <3>2
  <2>3. CASE Unlink(p)
    <3>0. /\ prune[p].pc = "unlink" /\ UNCHANGED <<status, dump, verify, revived, lost>>
          /\ \/ disk' = disk \ {prune[p].cur} /\ UNCHANGED doubt
             \/ /\ disk' \in {disk, disk \ {prune[p].cur}}
                /\ doubt' = doubt \cup {prune[p].cur}
      BY <2>3 DEF Unlink
    <3>1. /\ prune'[p].pc = "mark" /\ prune'[p].cur = prune[p].cur
          /\ prune'[p].todo = prune[p].todo
          /\ \A q \in Pruners \ {p} : prune'[q] = prune[q]
      BY <2>3, <2>g DEF Unlink, PrunePhases
    <3> QED
      BY <3>0, <3>1 DEF PrunerMoves, CandidatePhases, Counted
  <2>4. CASE MarkDeleted(p)
    <3>0. /\ prune[p].pc = "mark" /\ UNCHANGED <<disk, dump, verify, doubt, revived>>
          /\ status' = [status EXCEPT ![prune[p].cur] = "DELETED"]
          /\ lost' = (IF status[prune[p].cur] \in Good THEN lost \cup Counted ELSE lost) \ {p}
      BY <2>4 DEF MarkDeleted, Losing
    <3>1. PruneNext(p) /\ prune[p].cur \in Ids
      BY <1>0, <2>4 DEF MarkDeleted, CandidatePhases
    <3> QED
      BY <1>0, <2>n, <3>0, <3>1 DEF PrunerMoves, CandidatePhases, Counted
  <2>5. CASE MarkFails(p)
    BY <2>5, <2>n DEF MarkFails, PrunerMoves, CandidatePhases, Counted
  <2>6. CASE PrunerCrash(p)
    <3>1. /\ \A q \in Pruners \ {p} : prune'[q] = prune[q]
          /\ prune'[p].pc = "idle" /\ prune'[p].todo = {}
      BY <1>0, <2>6 DEF PrunerCrash, NoPrune
    <3> QED
      BY <2>6, <3>1 DEF PrunerCrash, PrunerMoves, CandidatePhases, Counted
  <2> QED
    BY <1>3, <2>1, <2>2, <2>3, <2>4, <2>5, <2>6 DEF PruneStep
<1>l. ASSUME NEW i \in Ids, NEW new \in Settled \cup InFlight, SetStatus(i, new)
      PROVE  /\ status'[i] = new /\ \A j \in Ids \ {i} : status'[j] = status[j]
             /\ lost \subseteq lost'
             /\ status[i] \in Good /\ new \notin Good => Counted \subseteq lost'
  BY <1>0, <1>l DEF SetStatus, Losing
<1>4. ASSUME NEW w \in Writers, WriteStep(w) PROVE \E i \in Ids : WriterMoves(w, i)
  <2>1. ASSUME NEW i \in Ids, DumpInsert(w, i) PROVE WriterMoves(w, i)
    <3>1. /\ \A j \in Ids \ {i} : status'[j] = status[j]
          /\ status'[i] = "PENDING" /\ status[i] = "NONE"
          /\ UNCHANGED <<prune, verify, doubt, revived, disk, lost>>
      BY <1>0, <2>1 DEF DumpInsert, history
    <3>2. /\ dump'[w].pc = "start" /\ dump'[w].id = i
          /\ \A v \in Writers \ {w} : dump'[v] = dump[v]
      BY <1>0, <2>1 DEF DumpInsert, DumpLocals
    <3> QED
      BY <3>1, <3>2 DEF WriterMoves, InFlight, Good
  <2>2. CASE DumpStart(w) \/ DumpPublish(w) \/ DumpComplete(w) \/ DumpFail(w)
    <3>0. dump[w].pc \in DumpingPhases
      BY <2>2 DEF DumpStart, DumpPublish, DumpComplete, DumpFail, DumpingPhases
    <3>i. PICK i \in Ids : i = dump[w].id
      BY <1>0, <3>0 DEF RowPhases
    <3>1. /\ \A v \in Writers \ {w} : dump'[v] = dump[v]
          /\ UNCHANGED <<prune, verify, doubt, revived>>
      BY <1>0, <2>2 DEF DumpStart, DumpPublish, DumpComplete, DumpFail, DumpGoto, history
    <3>2. CASE DumpStart(w)
      <4>1. dump'[w].pc = "publish" /\ dump'[w].id = i
        BY <1>0, <3>2, <3>i DEF DumpStart, DumpGoto, DumpLocals
      <4>2. SetStatus(i, "RUNNING") /\ UNCHANGED disk
        BY <3>2, <3>i DEF DumpStart
      <4> QED
        BY <1>l, <3>0, <3>1, <3>i, <4>1, <4>2 DEF WriterMoves, InFlight
    <3>3. CASE DumpPublish(w)
      <4>1. dump'[w].pc = "complete" /\ dump'[w].id = i
        BY <1>0, <3>3, <3>i DEF DumpPublish, DumpGoto, DumpLocals
      <4>2. UNCHANGED <<status, lost>> /\ disk' = disk \cup {i}
        BY <3>3, <3>i DEF DumpPublish, history
      <4> QED
        BY <3>0, <3>1, <3>i, <4>1, <4>2 DEF WriterMoves
    <3>4. CASE DumpComplete(w)
      <4>1. dump'[w].pc = "idle" \/ (dump'[w].pc = "verify" /\ dump'[w].id = i)
        BY <1>0, <3>4, <3>i DEF DumpComplete, DumpLocals, NoDump
      <4>2. SetStatus(i, "COMPLETED") /\ UNCHANGED disk /\ dump[w].pc = "complete"
        BY <3>4, <3>i DEF DumpComplete
      <4>3. "COMPLETED" \in Settled \cup InFlight
        BY DEF Settled, Good
      <4> QED
        BY <1>l, <3>0, <3>1, <3>i, <4>1, <4>2, <4>3 DEF WriterMoves, DumpingPhases
    <3>5. CASE DumpFail(w)
      <4>1. dump'[w].pc = "idle"
        BY <1>0, <3>5 DEF DumpFail, NoDump
      <4>2. SetStatus(i, "FAILED") /\ disk' = disk \ {i}
        BY <3>5, <3>i DEF DumpFail
      <4>3. "FAILED" \in Settled \cup InFlight
        BY DEF Settled
      <4> QED
        BY <1>l, <3>0, <3>1, <3>i, <4>1, <4>2, <4>3 DEF WriterMoves, DumpingPhases
    <3> QED
      BY <2>2, <3>2, <3>3, <3>4, <3>5
  <2> QED
    BY <1>4, <2>1, <2>2 DEF WriteStep
<1>c. ASSUME NEW c \in Checkers, NEW i \in Ids, Check(c, i), status[i] # "NONE",
             UNCHANGED <<status, disk, prune, dump, revived, lost, mishaps>>
      PROVE  CheckerReads(c, i)
  <2>1. PICK f \in Verdicts(i) :
          verify' = [verify EXCEPT ![c] = [pc |-> "persist", id |-> i, found |-> f]]
    BY <1>c DEF Check
  <2>2. f = "VERIFIED" => i \in disk
    BY DEF Verdicts
  <2>3. doubt \subseteq doubt' /\ (status[i] \in InFlight => i \in doubt')
    BY <1>c DEF Check
  <2> QED
    BY <1>0, <1>c, <2>1, <2>2, <2>3 DEF CheckerReads
<1>p. ASSUME NEW c \in Checkers, Persist(c), UNCHANGED <<disk, prune>>,
             \A v \in Writers :
               dump'[v] = dump[v] \/ dump'[v].pc \notin {"start", "publish", "complete", "verify"}
      PROVE  CheckerWrites(c)
  <2>1. /\ verify[c].pc = "persist" /\ verify[c].id \in Ids
        /\ verify[c].found \in {"VERIFIED", "FAILED", "MISSING"}
        /\ verify'[c].pc # "persist" /\ \A b \in Checkers \ {c} : verify'[b] = verify[b]
    BY <1>0, <1>p DEF Persist, VerifyLocals, NoVerify
  <2>2. PICK i \in Ids, f \in {"VERIFIED", "FAILED", "MISSING"} :
          i = verify[c].id /\ f = verify[c].found
    BY <2>1
  <2>3. f \in Settled \cup InFlight
    BY DEF Settled, Good
  <2>4. CASE UNCHANGED <<status, history>>
    BY <1>p, <2>1, <2>4 DEF CheckerWrites, history
  <2>5. CASE ~UNCHANGED <<status, history>>
    <3>1. /\ SetStatus(i, f)
          /\ doubt' = (IF status[i] = "DELETED" THEN doubt \cup {i} ELSE doubt)
          /\ revived' = (IF status[i] \notin Good /\ f \in Good THEN revived \cup {i}
                                                               ELSE revived)
      BY <1>p, <2>2, <2>5 DEF Persist
    <3>2. /\ status'[i] = f /\ \A j \in Ids \ {i} : status'[j] = status[j]
          /\ lost \subseteq lost'
          /\ status[i] \in Good /\ f \notin Good => Counted \subseteq lost'
      BY <1>l, <2>3, <3>1
    <3>3. /\ doubt \subseteq doubt' /\ revived \subseteq revived'
          /\ status[i] = "DELETED" => i \in doubt'
          /\ status[i] \notin Good /\ f \in Good => i \in revived'
      BY <3>1
    <3> QED
      BY <1>p, <2>1, <2>2, <3>2, <3>3 DEF CheckerWrites
  <2> QED
    BY <2>4, <2>5
<1>5. ASSUME NEW r \in Restorers, RestoreStep(r)
      PROVE  \/ RestorerMoves(r)
             \/ \E i \in Ids : CheckerReads(r, i)
             \/ CheckerWrites(r)
  <2>1. CASE SafetyRead(r)
    <3>1. dump[r].pc = "verify" /\ dump[r].id \in Ids /\ status[dump[r].id] # "NONE"
      BY <1>0, <2>1 DEF SafetyRead, RowPhases
    <3>2. PICK i \in Ids : i = dump[r].id
      BY <3>1
    <3> QED
      BY <1>0, <1>c, <2>1, <3>1, <3>2 DEF SafetyRead
  <2>2. CASE SafetyPersist(r)
    <3>1. \A v \in Writers :
            dump'[v] = dump[v] \/ dump'[v].pc \notin {"start", "publish", "complete", "verify"}
      BY <1>0, <2>2 DEF SafetyPersist, DumpGoto, NoDump, DumpLocals
    <3> QED
      BY <1>0, <1>p, <2>2, <3>1 DEF SafetyPersist
  <2>3. CASE ~SafetyRead(r) /\ ~SafetyPersist(r)
    <3> USE <1>0 DEF DumpGoto, NoDump, DumpLocals
    <3>1. CASE \E i \in Ids : RestorePreflight(r, i)
      BY <3>1 DEF RestorePreflight, RestorerMoves, history
    <3>2. CASE RestoreOpen(r)
      BY <3>2 DEF RestoreOpen, RestorerMoves, history
    <3>3. CASE RestoreRaceCheck(r)
      BY <3>3 DEF RestoreRaceCheck, RestorerMoves, history
    <3>4. CASE SafetyRecord(r)
      BY <3>4 DEF SafetyRecord, RestorerMoves, history
    <3>5. CASE RestoreDecode(r)
      BY <3>5 DEF RestoreDecode, RestorerMoves, history
    <3> QED
      BY <1>5, <2>3, <3>1, <3>2, <3>3, <3>4, <3>5 DEF RestoreStep
  <2> QED
    BY <2>1, <2>2, <2>3
<1>6. ASSUME NEW v \in Verifiers, VerifyPersist(v) \/ (\E i \in Ids : VerifyRead(v, i))
      PROVE  CheckerWrites(v) \/ \E i \in Ids : CheckerReads(v, i)
  BY <1>0, <1>6, <1>c, <1>p DEF VerifyPersist, VerifyRead
<1>7. CASE UNCHANGED vars
  BY <1>7 DEF vars, history
<1> QED
  BY <1>0, <1>1, <1>2, <1>3, <1>4, <1>5, <1>6, <1>7 DEF Next

-----------------------------------------------------------------------------
(* Claims: the row of a dump is the dump's, and a candidate is nobody's     *)

\* The row exists, and its dump is over unless the row is in doubt.  No step takes a
\* row out of this set, so what a pruner read about its candidate lasts.
Over(i) == status[i] # "NONE" /\ (status[i] \in InFlight => i \in doubt)

\* The row of a dump under way is in flight, or in doubt, and nobody else's.
WriterRows ==
  \A w \in Writers :
    /\ dump[w].pc \in DumpingPhases =>
         /\ status[dump[w].id] \in InFlight \/ dump[w].id \in doubt
         /\ \A v \in Writers \ {w} : dump[v].pc \in DumpingPhases => dump[v].id # dump[w].id
    /\ dump[w].pc = "complete" => dump[w].id \in disk \cup doubt
    /\ dump[w].pc \in {"start", "publish", "complete", "verify"} => status[dump[w].id] # "NONE"

\* A pruner's candidates are over, and so is a row that awaits a verdict.
CandidateRows ==
  \A p \in Pruners :
    /\ \A i \in prune[p].todo : Over(i)
    /\ prune[p].pc \in CandidatePhases => Over(prune[p].cur)
VerdictRows == \A c \in Checkers : verify[c].pc = "persist" => Over(verify[c].id)

ClaimInv == WriterRows /\ CandidateRows /\ VerdictRows

\* What is over stays over, whatever step is taken.
LEMMA OverLasts ==
  ASSUME TypeInv, ClaimInv, [Next]_vars, NEW i \in Ids, Over(i)
  PROVE  Over(i)'
<1> DEFINE Lasts == /\ doubt \subseteq doubt' /\ status'[i] # "NONE"
                    /\ i \notin doubt' => status'[i] \notin InFlight
<1>1. Lasts
  <2>0. /\ status \in [Ids -> Settled \cup InFlight]
        /\ \A w \in Writers : dump[w].pc = "verify" => status[dump[w].id] # "NONE"
    BY DEF TypeInv, TypeOK, ClaimInv, WriterRows
  <2>1. ASSUME NEW p \in Pruners, PrunerMoves(p) PROVE Lasts
    BY <2>0, <2>1 DEF PrunerMoves, Over, InFlight
  <2>2. ASSUME NEW w \in Writers, NEW j \in Ids, WriterMoves(w, j) PROVE Lasts
    <3>1. CASE i # j \/ UNCHANGED status
      BY <2>0, <2>2, <3>1 DEF WriterMoves, Over
    <3>2. CASE i = j /\ ~UNCHANGED status
      <4>1. dump[w].pc \in DumpingPhases /\ dump[w].id = i
        BY <2>2, <3>2 DEF WriterMoves, Over
      <4>2. i \in doubt \/ status[i] \in InFlight
        BY <4>1 DEF ClaimInv, WriterRows
      <4>3. i \in doubt /\ UNCHANGED doubt
        BY <2>2, <4>2 DEF Over, WriterMoves
      <4> QED
        BY <2>2, <3>2, <4>3 DEF WriterMoves, InFlight
    <3> QED
      BY <3>1, <3>2
  <2>3. ASSUME NEW r \in Writers, RestorerMoves(r) PROVE Lasts
    BY <2>3 DEF RestorerMoves, Over
  <2>4. ASSUME NEW c \in Checkers, NEW j \in Ids, CheckerReads(c, j) PROVE Lasts
    BY <2>4 DEF CheckerReads, Over
  <2>5. ASSUME NEW c \in Checkers, CheckerWrites(c) PROVE Lasts
    <3>1. CASE i # verify[c].id \/ UNCHANGED status
      BY <2>0, <2>5, <3>1 DEF CheckerWrites, Over
    <3>2. CASE i = verify[c].id /\ ~UNCHANGED status
      BY <2>5, <3>2 DEF CheckerWrites, InFlight
    <3> QED
      BY <3>1, <3>2
  <2>6. CASE UNCHANGED <<status, disk, prune, dump, verify, doubt, revived, lost>>
    BY <2>6 DEF Over
  <2> QED
    BY <2>0, <2>1, <2>2, <2>3, <2>4, <2>5, <2>6, StepEffects
<1> QED
  BY <1>1 DEF Over

LEMMA ClaimStep ==
  ASSUME TypeInv, TypeInv', ClaimInv, [Next]_vars
  PROVE  ClaimInv'
<1>0. /\ status \in [Ids -> Settled \cup InFlight] /\ disk \subseteq Ids
      /\ prune \in [Pruners -> PruneLocals] /\ prune' \in [Pruners -> PruneLocals]
      /\ \A w \in Writers : dump[w].pc \in RowPhases => dump[w].id \in Ids
      /\ \A w \in Writers : dump'[w].pc \in RowPhases => dump'[w].id \in Ids
      /\ \A p \in Pruners : prune[p].pc \in CandidatePhases => prune[p].cur \in Ids
      /\ \A p \in Pruners : prune'[p].pc \in CandidatePhases => prune'[p].cur \in Ids
      /\ \A c \in Checkers : verify[c].pc = "persist" => verify[c].id \in Ids
      /\ \A c \in Checkers : verify'[c].pc = "persist" => verify'[c].id \in Ids
      /\ \A w \in Writers : dump[w].pc = "verify" => status[dump[w].id] # "NONE"
      /\ {"start", "publish", "complete", "verify"} \subseteq RowPhases
      /\ DumpingPhases = {"start", "publish", "complete"}
  BY DEF TypeInv, TypeOK, KnowsRow, ClaimInv, WriterRows, RowPhases, DumpingPhases
<1>o. \A i \in Ids : Over(i) => Over(i)'
  BY OverLasts
\* The candidates: they were over when they were taken.
<1>a. ASSUME UNCHANGED prune PROVE CandidateRows'
  <2> SUFFICES ASSUME NEW p \in Pruners
               PROVE  /\ \A i \in prune'[p].todo : Over(i)'
                      /\ prune'[p].pc \in CandidatePhases => Over(prune[p].cur)'
    BY <1>a DEF CandidateRows
  <2>1. prune[p].todo \subseteq Ids /\ prune'[p] = prune[p]
    BY <1>0, <1>a DEF PruneLocals
  <2>2. \A i \in prune'[p].todo : Over(i)'
    BY <1>o, <2>1 DEF ClaimInv, CandidateRows, VerdictRows
  <2>3. ASSUME prune'[p].pc \in CandidatePhases PROVE Over(prune[p].cur)'
    <3>1. PICK i \in Ids : i = prune[p].cur
      BY <1>0, <2>1, <2>3
    <3>2. Over(i)
      BY <2>1, <2>3, <3>1 DEF ClaimInv, CandidateRows, VerdictRows
    <3>3. Over(i)'
      BY <1>o, <3>2
    <3> QED
      BY <2>1, <3>1, <3>3 DEF Over
  <2> QED
    BY <2>2, <2>3
<1>b. ASSUME UNCHANGED verify PROVE VerdictRows'
  <2> SUFFICES ASSUME NEW c \in Checkers, verify[c].pc = "persist" PROVE Over(verify[c].id)'
    BY <1>b DEF VerdictRows
  <2>1. PICK i \in Ids : i = verify[c].id
    BY <1>0
  <2>2. Over(i)'
    BY <1>o, <2>1 DEF ClaimInv, CandidateRows, VerdictRows
  <2> QED
    BY <1>b, <2>1, <2>2 DEF Over
\* The rows of the writers that stay where they are.
<1>c. ASSUME UNCHANGED dump, doubt \subseteq doubt',
             \A w \in Writers : dump[w].pc = "complete" => dump[w].id \in disk' \cup doubt',
             \A i \in Ids : \/ status'[i] = status[i]
                            \/ Over(i) /\ status'[i] # "NONE"
      PROVE  WriterRows'
  <2> SUFFICES ASSUME NEW w \in Writers
               PROVE  /\ dump[w].pc \in DumpingPhases =>
                           status'[dump[w].id] \in InFlight \/ dump[w].id \in doubt'
                      /\ dump[w].pc \in {"start", "publish", "complete", "verify"}
                           => status'[dump[w].id] # "NONE"
    BY <1>c DEF ClaimInv, WriterRows
  <2>1. dump[w].pc \in {"start", "publish", "complete", "verify"} =>
          /\ status[dump[w].id] # "NONE"
          /\ \/ status'[dump[w].id] = status[dump[w].id]
             \/ Over(dump[w].id) /\ status'[dump[w].id] # "NONE"
    BY <1>0, <1>c DEF ClaimInv, WriterRows
  <2> QED
    BY <1>0, <1>c, <2>1 DEF ClaimInv, WriterRows, Over
<1>1. ASSUME NEW p \in Pruners, PrunerMoves(p) PROVE ClaimInv'
  <2>1. CandidateRows'
    <3> SUFFICES ASSUME NEW q \in Pruners
                 PROVE  /\ \A i \in prune'[q].todo : Over(i)'
                        /\ prune'[q].pc \in CandidatePhases => Over(prune[q].cur)'
      BY DEF CandidateRows
    <3>0. /\ prune[q].todo \subseteq Ids /\ prune'[q].todo \subseteq Ids
          /\ \A i \in prune[q].todo : Over(i)
          /\ prune[q].pc \in CandidatePhases => Over(prune[q].cur)
      BY <1>0 DEF ClaimInv, CandidateRows, VerdictRows, PruneLocals
    <3>1. \A i \in prune'[q].todo : i \in prune[q].todo \/ Over(i)
      BY <1>1 DEF PrunerMoves, Scannable, Good, InFlight, Over
    <3>2. ASSUME prune'[q].pc \in CandidatePhases PROVE Over(prune[q].cur)'
      <4>1. PICK i \in Ids : i = prune'[q].cur
        BY <1>0, <3>2
      <4>2. Over(i)
        <5>1. CASE q # p
          BY <1>1, <3>0, <3>2, <4>1, <5>1 DEF PrunerMoves
        <5>2. CASE q = p
          <6>1. \/ prune[q].pc \in CandidatePhases /\ prune'[q].cur = prune[q].cur
                \/ prune'[q].cur \in prune[q].todo
                \/ status[prune'[q].cur] \notin InFlight \cup {"NONE"}
            BY <1>1, <3>2, <5>2 DEF PrunerMoves
          <6> QED
            BY <3>0, <4>1, <6>1 DEF Over
        <5> QED
          BY <5>1, <5>2
      <4>3. Over(i)'
        BY <1>o, <4>2
      <4> QED
        BY <4>1, <4>3 DEF Over
    <3> QED
      BY <1>o, <3>0, <3>1, <3>2
  <2>2. VerdictRows'
    BY <1>1, <1>b DEF PrunerMoves
  <2>3. WriterRows'
    <3>1. /\ UNCHANGED dump /\ doubt \subseteq doubt'
          /\ prune[p].pc \in {"unlink", "mark"} => prune[p].cur \in Ids /\ Over(prune[p].cur)
      BY <1>0, <1>1 DEF PrunerMoves, ClaimInv, CandidateRows, VerdictRows, CandidatePhases
    <3>2. \A w \in Writers : dump[w].pc = "complete" => dump[w].id \in disk' \cup doubt'
      BY <1>0, <1>1, <3>1 DEF PrunerMoves, ClaimInv, WriterRows, Over
    <3>3. \A i \in Ids : status'[i] = status[i] \/ (Over(i) /\ status'[i] # "NONE")
      BY <1>0, <1>1, <3>1 DEF PrunerMoves
    <3> QED
      BY <1>c, <3>1, <3>2, <3>3
  <2> QED
    BY <2>1, <2>2, <2>3 DEF ClaimInv, CandidateRows, VerdictRows
<1>2. ASSUME NEW w \in Writers, NEW i \in Ids, WriterMoves(w, i) PROVE ClaimInv'
  <2>0. /\ \A v \in Writers \ {w} : dump'[v] = dump[v]
        /\ \A j \in Ids \ {i} : status'[j] = status[j]
        /\ UNCHANGED <<prune, verify, doubt>> /\ disk \ {i} \subseteq disk'
        /\ dump'[w].pc \in {"start", "publish", "complete", "verify"} => dump'[w].id = i
        /\ dump'[w].pc = "complete" => i \in disk'
    BY <1>2 DEF WriterMoves
  <2>1. \A v \in Writers \ {w} : dump[v].pc \in {"start", "publish", "complete"} =>
          dump[v].id # i
    BY <1>0, <1>2 DEF WriterMoves, ClaimInv, WriterRows
  <2>2. dump'[w].pc \in DumpingPhases => status'[i] \in InFlight \/ i \in doubt'
    BY <1>0, <1>2, <2>0 DEF WriterMoves, ClaimInv, WriterRows, InFlight
  <2>3. status'[i] # "NONE"
    BY <1>0, <1>2 DEF WriterMoves, ClaimInv, WriterRows, InFlight
  <2>4. ASSUME NEW v \in Writers
        PROVE  /\ dump'[v].pc \in DumpingPhases =>
                    /\ status'[dump'[v].id] \in InFlight \/ dump'[v].id \in doubt'
                    /\ \A u \in Writers \ {v} :
                         dump'[u].pc \in DumpingPhases => dump'[u].id # dump'[v].id
               /\ dump'[v].pc = "complete" => dump'[v].id \in disk' \cup doubt'
               /\ dump'[v].pc \in {"start", "publish", "complete", "verify"}
                    => status'[dump'[v].id] # "NONE"
    <3>1. CASE v = w
      BY <1>0, <2>0, <2>1, <2>2, <2>3, <3>1
    <3>2. CASE v # w
      <4>1. dump'[v] = dump[v]
        BY <2>0, <3>2
      <4>2. dump[v].pc \in {"start", "publish", "complete", "verify"} =>
              status[dump[v].id] # "NONE" /\ dump[v].id \in Ids
        BY <1>0 DEF ClaimInv, WriterRows
      <4>3. dump[v].pc \in {"start", "publish", "complete", "verify"} =>
              status'[dump[v].id] # "NONE"
        BY <2>0, <2>3, <4>2
      <4>4. dump[v].pc \in DumpingPhases =>
              /\ status'[dump[v].id] \in InFlight \/ dump[v].id \in doubt'
              /\ dump[v].pc = "complete" => dump[v].id \in disk' \cup doubt'
        BY <1>0, <2>0, <2>1, <3>2, <4>2 DEF ClaimInv, WriterRows
      <4>5. dump[v].pc \in DumpingPhases =>
              \A u \in Writers \ {v} : dump'[u].pc \in DumpingPhases => dump'[u].id # dump[v].id
        BY <1>0, <2>0, <2>1, <3>2 DEF ClaimInv, WriterRows
      <4> QED
        BY <1>0, <4>1, <4>3, <4>4, <4>5
    <3> QED
      BY <3>1, <3>2
  <2>5. WriterRows'
    BY <2>4 DEF WriterRows
  <2> QED
    BY <1>a, <1>b, <2>0, <2>5 DEF ClaimInv, CandidateRows, VerdictRows
<1>3. ASSUME NEW r \in Writers, RestorerMoves(r) PROVE ClaimInv'
  <2>1. WriterRows'
    BY <1>0, <1>3 DEF RestorerMoves, ClaimInv, WriterRows
  <2> QED
    BY <1>3, <1>a, <1>b, <2>1 DEF ClaimInv, CandidateRows, VerdictRows, RestorerMoves
<1>4. ASSUME NEW c \in Checkers, NEW i \in Ids, CheckerReads(c, i) PROVE ClaimInv'
  <2>1. WriterRows'
    <3>1. /\ UNCHANGED <<status, disk, dump>> /\ doubt \subseteq doubt'
      BY <1>4 DEF CheckerReads
    <3> QED
      BY <1>c, <3>1 DEF ClaimInv, WriterRows
  <2>2. VerdictRows'
    <3> SUFFICES ASSUME NEW b \in Checkers, verify'[b].pc = "persist"
                 PROVE  Over(verify[b].id)'
      BY DEF VerdictRows
    <3>1. CASE b = c
      <4>1. UNCHANGED status /\ status[i] # "NONE" /\ (status[i] \in InFlight => i \in doubt')
            /\ verify'[c].id = i
        BY <1>4 DEF CheckerReads
      <4> QED
        BY <3>1, <4>1 DEF Over
    <3>2. CASE b # c
      <4>1. PICK j \in Ids : j = verify[b].id /\ j = verify'[b].id /\ Over(j)
        BY <1>0, <1>4, <3>2 DEF CheckerReads, ClaimInv, CandidateRows, VerdictRows
      <4>2. Over(j)'
        BY <1>o, <4>1
      <4> QED
        BY <4>1, <4>2 DEF Over
    <3> QED
      BY <3>1, <3>2
  <2> QED
    BY <1>4, <1>a, <2>1, <2>2 DEF ClaimInv, CandidateRows, VerdictRows, CheckerReads
<1>5. ASSUME NEW c \in Checkers, CheckerWrites(c) PROVE ClaimInv'
  <2>0. /\ verify[c].pc = "persist" /\ UNCHANGED <<disk, prune>> /\ doubt \subseteq doubt'
        /\ \A b \in Checkers : verify'[b].pc = "persist" => b # c
        /\ \A b \in Checkers \ {c} : verify'[b] = verify[b]
        /\ \A v \in Writers :
             \/ dump'[v] = dump[v]
             \/ dump'[v].pc \notin {"start", "publish", "complete", "verify"}
    BY <1>5 DEF CheckerWrites
  <2>1. \A j \in Ids : status'[j] = status[j] \/ (Over(j) /\ status'[j] # "NONE")
    <3>1. Over(verify[c].id)
      BY <2>0 DEF ClaimInv, CandidateRows, VerdictRows
    <3> QED
      BY <1>5, <3>1 DEF CheckerWrites
  <2>2. WriterRows'
    <3> SUFFICES ASSUME NEW v \in Writers
                 PROVE  /\ dump'[v].pc \in DumpingPhases =>
                             /\ status'[dump'[v].id] \in InFlight \/ dump'[v].id \in doubt'
                             /\ \A u \in Writers \ {v} :
                                  dump'[u].pc \in DumpingPhases => dump'[u].id # dump'[v].id
                        /\ dump'[v].pc = "complete" => dump'[v].id \in disk' \cup doubt'
                        /\ dump'[v].pc \in {"start", "publish", "complete", "verify"}
                             => status'[dump'[v].id] # "NONE"
      BY DEF WriterRows
    <3>1. CASE dump'[v].pc \in {"start", "publish", "complete", "verify"}
      <4>1. dump'[v] = dump[v]
        BY <2>0, <3>1
      <4>2. /\ status[dump[v].id] # "NONE" /\ dump[v].id \in Ids
            /\ status'[dump[v].id] = status[dump[v].id]
               \/ (Over(dump[v].id) /\ status'[dump[v].id] # "NONE")
        BY <1>0, <2>1, <3>1, <4>1 DEF ClaimInv, WriterRows
      <4>3. dump[v].pc \in DumpingPhases =>
              \A u \in Writers \ {v} : dump'[u].pc \in DumpingPhases => dump'[u].id # dump[v].id
        BY <1>0, <2>0 DEF ClaimInv, WriterRows
      <4> QED
        BY <2>0, <4>1, <4>2, <4>3 DEF ClaimInv, WriterRows, Over
    <3>2. CASE dump'[v].pc \notin {"start", "publish", "complete", "verify"}
      BY <1>0, <3>2
    <3> QED
      BY <3>1, <3>2
  <2>3. VerdictRows'
    <3> SUFFICES ASSUME NEW b \in Checkers, verify'[b].pc = "persist"
                 PROVE  Over(verify[b].id)'
      BY DEF VerdictRows
    <3>1. PICK j \in Ids : j = verify[b].id /\ j = verify'[b].id /\ Over(j)
      BY <1>0, <2>0 DEF ClaimInv, CandidateRows, VerdictRows
    <3>2. Over(j)'
      BY <1>o, <3>1
    <3> QED
      BY <3>1, <3>2 DEF Over
  <2> QED
    BY <1>a, <2>0, <2>2, <2>3 DEF ClaimInv, CandidateRows, VerdictRows
<1>6. CASE UNCHANGED <<status, disk, prune, dump, verify, doubt, revived, lost>>
  BY <1>6 DEF ClaimInv, WriterRows, CandidateRows, VerdictRows, Over
<1> QED
  BY <1>0, <1>1, <1>2, <1>3, <1>4, <1>5, <1>6, StepEffects

LEMMA ClaimInvariant == Spec => [](TypeInv /\ ClaimInv)
<1>1. Init => ClaimInv
  BY DEF Init, ClaimInv, WriterRows, CandidateRows, VerdictRows, NoPrune, NoDump, NoVerify,
         DumpingPhases, CandidatePhases
<1>2. TypeInv /\ TypeInv' /\ ClaimInv /\ [Next]_vars => ClaimInv'
  BY ClaimStep
<1> QED
  BY <1>1, <1>2, TypeInvariant, PTL DEF Spec

\* "never delete an in-progress dump" (deleteBackupService): whatever sweeps, deletes,
\* dumps, restores and verifies at once, the row a pruner works on is not in flight
\* when its files are removed, unless it was verified before its dump had ended.
THEOREM InFlightSafe == Spec => []InFlightUntouched
<1>1. ClaimInv => InFlightUntouched
  BY DEF ClaimInv, CandidateRows, VerdictRows, Over, InFlightUntouched, CandidatePhases
<1> QED
  BY <1>1, ClaimInvariant, PTL

-----------------------------------------------------------------------------
(* Files and rows                                                           *)

\* Once a pruner is past the unlinks its candidate has no files, and neither has any
\* deleted row, unless it is in doubt.
ErasedInv ==
  /\ \A p \in Pruners :
       prune[p].pc = "mark" => prune[p].cur \notin disk \/ prune[p].cur \in doubt
  /\ DeletedHasNoFiles

LEMMA ErasedStep ==
  ASSUME TypeInv, TypeInv', ClaimInv, ErasedInv, [Next]_vars
  PROVE  ErasedInv'
<1>0. /\ status \in [Ids -> Settled \cup InFlight] /\ disk \subseteq Ids
      /\ disk' \subseteq Ids
      /\ \A p \in Pruners :
           prune[p].pc = "mark" => prune[p].cur \in Ids /\ Over(prune[p].cur)
      /\ \A w \in Writers :
           dump[w].pc \in DumpingPhases =>
             /\ dump[w].id \in Ids
             /\ status[dump[w].id] \in InFlight \/ dump[w].id \in doubt
      /\ \A w \in Writers : dump[w].pc = "verify" => status[dump[w].id] # "NONE"
  BY DEF TypeInv, TypeOK, KnowsRow, RowPhases, CandidatePhases, ClaimInv, CandidateRows,
         WriterRows
<1>1. ASSUME NEW p \in Pruners, PrunerMoves(p) PROVE ErasedInv'
  <2>1. /\ doubt \subseteq doubt' /\ disk' \subseteq disk
        /\ \A q \in Pruners \ {p} : prune'[q] = prune[q]
        /\ prune'[p].pc = "mark" => prune'[p].cur \notin disk' \/ prune'[p].cur \in doubt'
    BY <1>1 DEF PrunerMoves
  <2>2. DeletedHasNoFiles'
    <3> SUFFICES ASSUME NEW i \in disk' \ doubt', status'[i] = "DELETED" PROVE FALSE
      BY DEF DeletedHasNoFiles
    <3>1. i \in disk \ doubt /\ status[i] # "DELETED"
      BY <2>1 DEF ErasedInv, DeletedHasNoFiles
    <3>2. prune[p].pc = "mark" /\ prune[p].cur = i
      BY <1>0, <1>1, <3>1 DEF PrunerMoves
    <3> QED
      BY <3>1, <3>2 DEF ErasedInv
  <2> QED
    BY <2>1, <2>2 DEF ErasedInv
<1>2. ASSUME NEW w \in Writers, NEW i \in Ids, WriterMoves(w, i) PROVE ErasedInv'
  <2>1. /\ UNCHANGED <<prune, doubt>> /\ disk' \subseteq disk \cup {i}
        /\ status[i] = "NONE" \/ status[i] \in InFlight \/ i \in doubt
    BY <1>0, <1>2 DEF WriterMoves
  <2>2. \A p \in Pruners :
          prune'[p].pc = "mark" => prune'[p].cur \notin disk' \/ prune'[p].cur \in doubt'
    BY <1>0, <2>1 DEF ErasedInv, Over
  <2>3. i \notin doubt => status'[i] # "DELETED"
    BY <1>2, <2>1 DEF WriterMoves, InFlight
  <2>4. DeletedHasNoFiles'
    BY <1>0, <1>2, <2>1, <2>3 DEF ErasedInv, DeletedHasNoFiles, WriterMoves
  <2> QED
    BY <2>2, <2>4 DEF ErasedInv
<1>3. ASSUME NEW r \in Writers, RestorerMoves(r) PROVE ErasedInv'
  BY <1>3 DEF RestorerMoves, ErasedInv, DeletedHasNoFiles
<1>4. ASSUME NEW c \in Checkers, NEW i \in Ids, CheckerReads(c, i) PROVE ErasedInv'
  BY <1>4 DEF CheckerReads, ErasedInv, DeletedHasNoFiles
<1>5. ASSUME NEW c \in Checkers, CheckerWrites(c) PROVE ErasedInv'
  BY <1>0, <1>5 DEF CheckerWrites, ErasedInv, DeletedHasNoFiles
<1>6. CASE UNCHANGED <<status, disk, prune, dump, verify, doubt, revived, lost>>
  BY <1>6 DEF ErasedInv, DeletedHasNoFiles
<1> QED
  BY <1>0, <1>1, <1>2, <1>3, <1>4, <1>5, <1>6, StepEffects

\* A deleted row leaves no files behind, though unlinks fail, updates are rejected and
\* pruners die, but for the rows this happened to and those given a verdict afterwards.
THEOREM DeletedIsGone == Spec => []DeletedHasNoFiles
<1>1. Init => ErasedInv
  BY DEF Init, ErasedInv, DeletedHasNoFiles, GoodIds, Good, NoPrune
<1>2. TypeInv /\ TypeInv' /\ ClaimInv /\ ErasedInv /\ [Next]_vars => ErasedInv'
  BY ErasedStep
<1>3. ErasedInv => DeletedHasNoFiles
  BY DEF ErasedInv
<1> QED
  BY <1>1, <1>2, <1>3, ClaimInvariant, PTL DEF Spec

\* The row has its files, or is losing them to a pruner, or is in doubt.
Held(i) ==
  i \in disk \cup doubt \/ \E p \in Pruners : prune[p].pc = "mark" /\ prune[p].cur = i

\* Besides the good rows, those about to be called VERIFIED.
VerdictHeld ==
  \A c \in Checkers :
    verify[c].pc = "persist" /\ verify[c].found = "VERIFIED" =>
      Held(verify[c].id) \/ status[verify[c].id] = "DELETED"
FilesInv == (\A i \in GoodIds : Held(i)) /\ VerdictHeld

\* Files are removed by a pruner, which then marks the row, or by a dump that fails.
LEMMA HeldLasts ==
  ASSUME TypeInv, ClaimInv, [Next]_vars, NEW i \in Ids, Over(i), Held(i)
  PROVE  Held(i)' \/ status'[i] = "DELETED"
<1>0. /\ disk \subseteq Ids
      /\ \A w \in Writers :
           dump[w].pc \in DumpingPhases =>
             status[dump[w].id] \in InFlight \/ dump[w].id \in doubt
      /\ \A w \in Writers : dump[w].pc = "verify" => status[dump[w].id] # "NONE"
  BY DEF TypeInv, TypeOK, ClaimInv, WriterRows
<1>1. ASSUME NEW p \in Pruners, PrunerMoves(p) PROVE Held(i)' \/ status'[i] = "DELETED"
  <2>1. CASE i \in disk \cup doubt
    <3>1. CASE i \in disk' \cup doubt'
      BY <3>1 DEF Held
    <3>2. CASE i \notin disk' \cup doubt'
      <4>1. prune[p].pc = "unlink" /\ prune[p].cur = i /\ prune'[p].pc = "mark"
        BY <1>1, <2>1, <3>2 DEF PrunerMoves
      <4>2. prune'[p].cur = i
        BY <1>1, <4>1 DEF PrunerMoves
      <4> QED
        BY <4>1, <4>2 DEF Held
    <3> QED
      BY <3>1, <3>2
  <2>2. CASE \E q \in Pruners : prune[q].pc = "mark" /\ prune[q].cur = i
    BY <1>1, <2>2 DEF PrunerMoves, Held
  <2> QED
    BY <2>1, <2>2 DEF Held
<1>2. ASSUME NEW w \in Writers, NEW j \in Ids, WriterMoves(w, j) PROVE Held(i)'
  <2>1. i = j => i \in doubt
    BY <1>0, <1>2 DEF WriterMoves, Over
  <2> QED
    BY <1>2, <2>1 DEF WriterMoves, Held
<1>3. ASSUME NEW r \in Writers, RestorerMoves(r) PROVE Held(i)'
  BY <1>3 DEF RestorerMoves, Held
<1>4. ASSUME NEW c \in Checkers, NEW j \in Ids, CheckerReads(c, j) PROVE Held(i)'
  BY <1>4 DEF CheckerReads, Held
<1>5. ASSUME NEW c \in Checkers, CheckerWrites(c) PROVE Held(i)'
  BY <1>5 DEF CheckerWrites, Held
<1>6. CASE UNCHANGED <<status, disk, prune, dump, verify, doubt, revived, lost>>
  BY <1>6 DEF Held
<1> QED
  BY <1>0, <1>1, <1>2, <1>3, <1>4, <1>5, <1>6, StepEffects

LEMMA FilesStep ==
  ASSUME TypeInv, TypeInv', ClaimInv, FilesInv, [Next]_vars
  PROVE  FilesInv'
<1>0. /\ status \in [Ids -> Settled \cup InFlight] /\ disk \subseteq Ids
      /\ \A c \in Checkers :
           verify[c].pc = "persist" => verify[c].id \in Ids /\ Over(verify[c].id)
      /\ \A w \in Writers :
           dump[w].pc \in DumpingPhases =>
             status[dump[w].id] \in InFlight \/ dump[w].id \in doubt
      /\ \A w \in Writers : dump[w].pc = "complete" => dump[w].id \in disk \cup doubt
      /\ \A w \in Writers : dump[w].pc = "verify" => status[dump[w].id] # "NONE"
      /\ Good \cap (InFlight \cup {"NONE", "DELETED", "FAILED", "MISSING"}) = {}
      /\ InFlight = {"PENDING", "RUNNING"}
  BY DEF TypeInv, TypeOK, KnowsRow, ClaimInv, VerdictRows, WriterRows, DumpingPhases, Good,
         InFlight
\* The rows that were good, or looked it, and still do.
<1>a. \A i \in GoodIds : i \in GoodIds' => Held(i)'
  <2> SUFFICES ASSUME NEW i \in GoodIds, i \in GoodIds' PROVE Held(i)'
    OBVIOUS
  <2>1. i \in Ids /\ Over(i) /\ Held(i) /\ status'[i] # "DELETED"
    BY <1>0 DEF GoodIds, Over, FilesInv
  <2> QED
    BY <2>1, HeldLasts
<1>b. ASSUME NEW i \in Ids, Over(i), Held(i) PROVE Held(i)' \/ status'[i] = "DELETED"
  BY <1>b, HeldLasts
<1>c. ASSUME UNCHANGED verify,
             \A i \in Ids : status[i] = "DELETED" => status'[i] = "DELETED" \/ i \in doubt'
      PROVE  VerdictHeld'
  <2> SUFFICES ASSUME NEW c \in Checkers, verify[c].pc = "persist",
                      verify[c].found = "VERIFIED"
               PROVE  Held(verify[c].id)' \/ status'[verify[c].id] = "DELETED"
    BY <1>c DEF VerdictHeld
  <2>1. PICK i \in Ids : i = verify[c].id
    BY <1>0
  <2>2. Over(i) /\ (Held(i) \/ status[i] = "DELETED")
    BY <1>0, <2>1 DEF FilesInv, VerdictHeld
  <2>3. Held(i)' \/ status'[i] = "DELETED"
    BY <1>b, <1>c, <2>2 DEF Held
  <2>4. UNCHANGED verify[c].id
    BY <1>c
  <2> QED
    BY <2>1, <2>3, <2>4 DEF Held
<1>1. ASSUME NEW p \in Pruners, PrunerMoves(p) PROVE FilesInv'
  <2>1. /\ GoodIds' \subseteq GoodIds /\ UNCHANGED verify
        /\ \A i \in Ids : status[i] = "DELETED" => status'[i] = "DELETED" \/ i \in doubt'
    BY <1>0, <1>1 DEF PrunerMoves, GoodIds
  <2> QED
    BY <1>a, <1>c, <2>1 DEF FilesInv
<1>2. ASSUME NEW w \in Writers, NEW i \in Ids, WriterMoves(w, i) PROVE FilesInv'
  <2>0. UNCHANGED <<verify, doubt>> /\ (status[i] = "DELETED" => i \in doubt)
    BY <1>0, <1>2 DEF WriterMoves
  <2>1. VerdictHeld'
    <3>1. \A j \in Ids : status[j] = "DELETED" => status'[j] = "DELETED" \/ j \in doubt'
      BY <1>2, <2>0 DEF WriterMoves
    <3> QED
      BY <1>c, <2>0, <3>1
  <2>2. ASSUME i \in GoodIds', i \notin GoodIds PROVE Held(i)'
    <3>1. dump[w].pc = "complete" /\ dump[w].id = i /\ UNCHANGED <<disk, doubt>>
      <4>1. status'[i] = "COMPLETED" /\ ~UNCHANGED status
        BY <1>0, <1>2, <2>2 DEF WriterMoves, GoodIds
      <4> QED
        BY <1>2, <4>1 DEF WriterMoves
    <3> QED
      BY <1>0, <3>1 DEF Held
  <2>3. GoodIds' \subseteq GoodIds \cup {i}
    BY <1>2 DEF WriterMoves, GoodIds
  <2> QED
    BY <1>a, <2>1, <2>2, <2>3 DEF FilesInv
<1>3. ASSUME NEW r \in Writers, RestorerMoves(r) PROVE FilesInv'
  BY <1>3, <1>a, <1>c DEF RestorerMoves, FilesInv, GoodIds
<1>4. ASSUME NEW c \in Checkers, NEW i \in Ids, CheckerReads(c, i) PROVE FilesInv'
  <2>1. UNCHANGED <<status, disk, prune>> /\ doubt \subseteq doubt' /\ GoodIds' = GoodIds
    BY <1>4 DEF CheckerReads, GoodIds
  <2>2. \A j \in Ids : Held(j) => Held(j)'
    BY <2>1 DEF Held
  <2>3. VerdictHeld'
    <3> SUFFICES ASSUME NEW b \in Checkers, verify'[b].pc = "persist",
                        verify'[b].found = "VERIFIED"
                 PROVE  Held(verify[b].id)' \/ status'[verify'[b].id] = "DELETED"
      BY DEF VerdictHeld
    <3>1. CASE b = c
      <4>1. verify'[b].id = i /\ i \in disk'
        BY <1>4, <3>1 DEF CheckerReads
      <4> QED
        BY <4>1 DEF Held
    <3>2. CASE b # c
      <4>1. PICK j \in Ids : /\ j = verify[b].id /\ j = verify'[b].id
                             /\ Held(j) \/ status[j] = "DELETED"
        BY <1>0, <1>4, <3>2 DEF CheckerReads, FilesInv, VerdictHeld
      <4>2. Held(j)' \/ status'[j] = "DELETED"
        BY <2>1, <2>2, <4>1
      <4> QED
        BY <4>1, <4>2 DEF Held
    <3> QED
      BY <3>1, <3>2
  <2> QED
    BY <1>a, <2>1, <2>3 DEF FilesInv
<1>5. ASSUME NEW c \in Checkers, CheckerWrites(c) PROVE FilesInv'
  <2>0. /\ UNCHANGED <<disk, prune>> /\ doubt \subseteq doubt'
        /\ verify[c].pc = "persist" /\ verify[c].id \in Ids
        /\ \A b \in Checkers : verify'[b].pc = "persist" => b # c /\ verify'[b] = verify[b]
        /\ \A j \in Ids : status[j] = "DELETED" => status'[j] = "DELETED" \/ j \in doubt'
    BY <1>5 DEF CheckerWrites
  <2>1. \A j \in Ids : Held(j) => Held(j)'
    BY <2>0 DEF Held
  <2>2. ASSUME NEW i \in GoodIds', i \notin GoodIds PROVE Held(i)'
    <3>1. /\ i = verify[c].id /\ verify[c].found = "VERIFIED"
          /\ status[i] = "DELETED" => i \in doubt'
      BY <1>0, <1>5, <2>2 DEF CheckerWrites, GoodIds
    <3>2. PICK j \in Ids : j = verify[c].id /\ j = i
      BY <2>0, <3>1
    <3>3. Held(j) \/ status[j] = "DELETED"
      BY <2>0, <3>1, <3>2 DEF FilesInv, VerdictHeld
    <3>4. Held(j)'
      BY <2>0, <2>1, <3>1, <3>2, <3>3 DEF Held
    <3> QED
      BY <3>2, <3>4
  <2>3. VerdictHeld'
    <3> SUFFICES ASSUME NEW b \in Checkers, verify'[b].pc = "persist",
                        verify'[b].found = "VERIFIED"
                 PROVE  Held(verify[b].id)' \/ status'[verify'[b].id] = "DELETED"
      BY DEF VerdictHeld
    <3>1. PICK j \in Ids : /\ j = verify[b].id /\ j = verify'[b].id
                           /\ Held(j) \/ status[j] = "DELETED"
      BY <1>0, <2>0 DEF FilesInv, VerdictHeld
    <3>2. Held(j)' \/ status'[j] = "DELETED"
      BY <2>0, <2>1, <3>1 DEF Held
    <3> QED
      BY <3>1, <3>2 DEF Held
  <2> QED
    BY <1>a, <2>2, <2>3 DEF FilesInv
<1>6. CASE UNCHANGED <<status, disk, prune, dump, verify, doubt, revived, lost>>
  BY <1>6, <1>a, <1>c DEF FilesInv, GoodIds
<1> QED
  BY <1>0, <1>1, <1>2, <1>3, <1>4, <1>5, <1>6, StepEffects

\* A row that says COMPLETED or VERIFIED has its files, whoever prunes, dumps, restores
\* and verifies at once, except in the middle of its own deletion and after a deletion
\* or a verdict that left it in doubt.
THEOREM FilesKept == Spec => []GoodHasFiles
<1>1. Init => FilesInv
  BY DEF Init, FilesInv, VerdictHeld, Held, NoVerify
<1>2. TypeInv /\ TypeInv' /\ ClaimInv /\ FilesInv /\ [Next]_vars => FilesInv'
  BY FilesStep
<1>3. FilesInv => GoodHasFiles
  BY DEF FilesInv, GoodHasFiles, Held
<1> QED
  BY <1>1, <1>2, <1>3, ClaimInvariant, PTL DEF Spec

-----------------------------------------------------------------------------
(* The floor of one good backup                                             *)

\* A pruner past its count still has the row it counted, unless good rows have gone.
FloorInv == \A p \in Counted \ lost : GoodIds \ {prune[p].cur} # {}

\* Either no good row goes, or every pruner past its count is told, but the one whose
\* deletion takes the row.
LEMMA GoodLoss ==
  ASSUME TypeInv, ClaimInv, [Next]_vars
  PROVE  \/ GoodIds \subseteq GoodIds'
         \/ Counted' \subseteq lost'
<1>0. /\ status \in [Ids -> Settled \cup InFlight]
      /\ \A w \in Writers : dump[w].pc = "verify" => status[dump[w].id] # "NONE"
      /\ CandidatePhases \cap {"idle", "next"} = {}
      /\ Sweepers \subseteq Pruners
  BY DEF TypeInv, TypeOK, ClaimInv, WriterRows, CandidatePhases, Pruners
<1> DEFINE Told == GoodIds \subseteq GoodIds' \/ Counted' \subseteq lost'
<1>a. ASSUME UNCHANGED prune PROVE Counted' = Counted
  BY <1>a DEF Counted
<1>1. ASSUME NEW p \in Pruners, PrunerMoves(p) PROVE Told
  <2>1. CASE UNCHANGED status
    BY <2>1 DEF GoodIds
  <2>2. CASE ~UNCHANGED status
    <3>1. /\ prune[p].pc = "mark" /\ status' = [status EXCEPT ![prune[p].cur] = "DELETED"]
          /\ status[prune[p].cur] \in Good => Counted \ {p} \subseteq lost'
          /\ prune'[p].pc \notin CandidatePhases
          /\ \A q \in Pruners \ {p} : prune'[q] = prune[q]
      BY <1>1, <2>2 DEF PrunerMoves
    <3>2. CASE status[prune[p].cur] \in Good
      <4>1. Counted' \subseteq Counted \ {p}
        BY <1>0, <3>1 DEF Counted, CandidatePhases
      <4> QED
        BY <3>1, <3>2, <4>1
    <3>3. CASE status[prune[p].cur] \notin Good
      BY <1>0, <3>1, <3>3 DEF GoodIds
    <3> QED
      BY <3>2, <3>3
  <2> QED
    BY <2>1, <2>2
<1>2. ASSUME NEW w \in Writers, NEW i \in Ids, WriterMoves(w, i) PROVE Told
  <2>1. \A j \in GoodIds \ {i} : j \in GoodIds'
    BY <1>2 DEF WriterMoves, GoodIds
  <2>2. i \in GoodIds /\ i \notin GoodIds' => Counted \subseteq lost'
    BY <1>2 DEF WriterMoves, GoodIds
  <2>3. Counted' = Counted
    BY <1>2, <1>a DEF WriterMoves
  <2> QED
    BY <2>1, <2>2, <2>3
<1>3. ASSUME NEW r \in Writers, RestorerMoves(r) PROVE Told
  BY <1>3 DEF RestorerMoves, GoodIds
<1>4. ASSUME NEW c \in Checkers, NEW i \in Ids, CheckerReads(c, i) PROVE Told
  BY <1>4 DEF CheckerReads, GoodIds
<1>5. ASSUME NEW c \in Checkers, CheckerWrites(c) PROVE Told
  <2>1. PICK i \in Ids : i = verify[c].id
    BY <1>5 DEF CheckerWrites
  <2>2. \A j \in GoodIds \ {i} : j \in GoodIds'
    BY <1>5, <2>1 DEF CheckerWrites, GoodIds
  <2>3. i \in GoodIds /\ i \notin GoodIds' => Counted \subseteq lost'
    BY <1>5, <2>1 DEF CheckerWrites, GoodIds
  <2>4. Counted' = Counted
    BY <1>5, <1>a DEF CheckerWrites
  <2> QED
    BY <2>2, <2>3, <2>4
<1>6. CASE UNCHANGED <<status, disk, prune, dump, verify, doubt, revived, lost>>
  BY <1>6 DEF GoodIds
<1> QED
  BY <1>0, <1>1, <1>2, <1>3, <1>4, <1>5, <1>6, StepEffects

LEMMA FloorStep ==
  ASSUME TypeInv, ClaimInv, FloorInv, [Next]_vars
  PROVE  FloorInv'
<1>0. \A w \in Writers : dump[w].pc = "verify" => status[dump[w].id] # "NONE"
  BY DEF ClaimInv, WriterRows
<1>a. ASSUME UNCHANGED prune, lost \subseteq lost' PROVE FloorInv'
  <2>1. Counted' = Counted
    BY <1>a DEF Counted
  <2> QED
    BY <1>a, <2>1, GoodLoss DEF FloorInv
<1>1. ASSUME NEW p \in Pruners, PrunerMoves(p) PROVE FloorInv'
  <2> SUFFICES ASSUME NEW q \in Pruners, q \in Counted', q \notin lost',
                      GoodIds \subseteq GoodIds'
               PROVE  GoodIds' \ {prune'[q].cur} # {}
    BY GoodLoss DEF FloorInv, Counted
  <2>1. CASE q = p
    BY <1>1, <2>1 DEF PrunerMoves, FloorInv
  <2>2. CASE q # p
    <3>1. q \in Counted /\ q \notin lost /\ prune'[q] = prune[q]
      BY <1>1, <2>2 DEF PrunerMoves, Counted
    <3> QED
      BY <3>1 DEF FloorInv
  <2> QED
    BY <2>1, <2>2
<1>2. ASSUME NEW w \in Writers, NEW i \in Ids, WriterMoves(w, i) PROVE FloorInv'
  BY <1>2, <1>a DEF WriterMoves
<1>3. ASSUME NEW r \in Writers, RestorerMoves(r) PROVE FloorInv'
  BY <1>3, <1>a DEF RestorerMoves
<1>4. ASSUME NEW c \in Checkers, NEW i \in Ids, CheckerReads(c, i) PROVE FloorInv'
  BY <1>4, <1>a DEF CheckerReads
<1>5. ASSUME NEW c \in Checkers, CheckerWrites(c) PROVE FloorInv'
  BY <1>5, <1>a DEF CheckerWrites
<1>6. CASE UNCHANGED <<status, disk, prune, dump, verify, doubt, revived, lost>>
  BY <1>6, <1>a
<1> QED
  BY <1>0, <1>1, <1>2, <1>3, <1>4, <1>5, <1>6, StepEffects

\* What the count keeps of "retention MUST NEVER leave zero valid backups", with any
\* number of sweeps and deletions at once: a call takes the last good row only when a
\* good row has gone since it counted.
THEOREM FloorKept == Spec => LastGoodKept
<1> DEFINE Step ==
      \A p \in Pruners :
        prune[p].pc = "mark" /\ prune'[p].pc # "mark" /\ GoodIds # {} /\ GoodIds' = {}
          => p \in lost
<1>1. Init => FloorInv
  BY DEF Init, FloorInv, Counted, NoPrune
<1>2. TypeInv /\ ClaimInv /\ FloorInv /\ [Next]_vars => FloorInv'
  BY FloorStep
<1>3. TypeInv /\ ClaimInv /\ FloorInv /\ [Next]_vars => Step
  <2> SUFFICES ASSUME TypeInv, ClaimInv, FloorInv, [Next]_vars, NEW p \in Pruners,
                      prune[p].pc = "mark", prune'[p].pc # "mark", p \notin lost
               PROVE  GoodIds' # {}
    OBVIOUS
  <2>0. /\ \A w \in Writers : dump[w].pc = "verify" => status[dump[w].id] # "NONE"
        /\ status \in [Ids -> Settled \cup InFlight]
    BY DEF ClaimInv, WriterRows, TypeInv, TypeOK
  <2>1. PICK j \in GoodIds : j # prune[p].cur
    BY DEF FloorInv, Counted
  <2>2. ASSUME NEW q \in Pruners, PrunerMoves(q) PROVE j \in GoodIds'
    <3>1. q = p
      BY <2>2 DEF PrunerMoves
    <3> QED
      BY <2>0, <2>1, <2>2, <3>1 DEF PrunerMoves, GoodIds
  <2>3. ~UNCHANGED prune
    OBVIOUS
  <2>4. \E q \in Pruners : PrunerMoves(q)
    BY <2>0, <2>3, StepEffects DEF WriterMoves, RestorerMoves, CheckerReads, CheckerWrites
  <2> QED
    BY <2>2, <2>4
<1>4. [][Step]_vars => LastGoodKept
  BY PTL DEF LastGoodKept
<1> QED
  BY <1>1, <1>2, <1>3, <1>4, ClaimInvariant, PTL DEF Spec, LastGoodKept

-----------------------------------------------------------------------------
(* The newest good row                                                      *)

\* A row older than retentionAgeDays existed before any dump under way began.
FreshInv ==
  /\ \A i \in Aged : status[i] # "NONE"
  /\ \A w \in Writers :
       dump[w].pc \in {"start", "publish", "complete", "verify"} => dump[w].id \notin Aged

\* What a sweep knows from its first statement on: the newest good row it saw is as
\* young as any aged good row but those a verdict has revived, and is not a candidate.
Anchored(s) ==
  /\ prune[s].pc = "idle" => prune[s].todo = {}
  /\ prune[s].pc # "idle" =>
       /\ \A i \in GoodIds \cap Aged :
            i \in revived \/ (prune[s].newest \in Ids /\ i <= prune[s].newest)
       /\ prune[s].todo \subseteq Aged \ {prune[s].newest}
  /\ prune[s].pc \in CandidatePhases => prune[s].cur \in Aged \ {prune[s].newest}

NewestInv == FreshInv /\ \A s \in Sweepers : Anchored(s)

\* Dumps and restores write to rows younger than the age rule's: an aged row turns good
\* by a verdict alone, and none ceases to exist.
LEMMA FreshStep ==
  ASSUME TypeInv, ClaimInv, FreshInv, [Next]_vars
  PROVE  FreshInv' /\ GoodIds' \cap Aged \subseteq GoodIds \cup revived'
                   /\ revived \subseteq revived'
<1>0. /\ status \in [Ids -> Settled \cup InFlight] /\ Aged \subseteq Ids
      /\ \A w \in Writers : dump[w].pc \in DumpingPhases => dump[w].id \in Ids
      /\ \A w \in Writers : dump[w].pc = "verify" => status[dump[w].id] # "NONE"
      /\ DumpingPhases = {"start", "publish", "complete"}
      /\ Good \cap {"DELETED", "NONE", "FAILED", "MISSING"} = {}
  BY CatalogueAssumption
  DEF TypeInv, TypeOK, KnowsRow, RowPhases, ClaimInv, WriterRows, DumpingPhases, Good
<1> DEFINE Stays == /\ FreshInv' /\ GoodIds' \cap Aged \subseteq GoodIds \cup revived'
                    /\ revived \subseteq revived'
<1>1. ASSUME NEW p \in Pruners, PrunerMoves(p) PROVE Stays
  BY <1>0, <1>1 DEF PrunerMoves, FreshInv, GoodIds
<1>2. ASSUME NEW w \in Writers, NEW i \in Ids, WriterMoves(w, i) PROVE Stays
  <2>1. i \notin Aged
    BY <1>0, <1>2 DEF WriterMoves, FreshInv
  <2> QED
    BY <1>0, <1>2, <2>1 DEF WriterMoves, FreshInv, GoodIds
<1>3. ASSUME NEW r \in Writers, RestorerMoves(r) PROVE Stays
  BY <1>3 DEF RestorerMoves, FreshInv, GoodIds
<1>4. ASSUME NEW c \in Checkers, NEW i \in Ids, CheckerReads(c, i) PROVE Stays
  BY <1>4 DEF CheckerReads, FreshInv, GoodIds
<1>5. ASSUME NEW c \in Checkers, CheckerWrites(c) PROVE Stays
  <2>1. FreshInv'
    BY <1>0, <1>5 DEF CheckerWrites, FreshInv
  <2>2. GoodIds' \cap Aged \subseteq GoodIds \cup revived' /\ revived \subseteq revived'
    BY <1>0, <1>5 DEF CheckerWrites, GoodIds
  <2> QED
    BY <2>1, <2>2
<1>6. CASE UNCHANGED <<status, disk, prune, dump, verify, doubt, revived, lost>>
  BY <1>6 DEF FreshInv, GoodIds
<1> QED
  BY <1>0, <1>1, <1>2, <1>3, <1>4, <1>5, <1>6, StepEffects

\* The one row of NewestOf(S, 1) is the greatest of S.
LEMMA NewestIsGreatest ==
  ASSUME IsFiniteSet(Ids), NEW S \in SUBSET Ids, NEW n \in NewestOf(S, 1)
  PROVE  n \in S /\ \A i \in S : i <= n
<1> DEFINE Younger == {j \in S : j > n}
<1>1. n \in S /\ Cardinality(Younger) < 1
  BY DEF NewestOf
<1>2. IsFiniteSet(Younger)
  <2>1. Younger \in SUBSET Ids
    OBVIOUS
  <2> QED
    BY <2>1, FS_Subset
<1>3. Cardinality(Younger) \in Nat
  BY <1>2, FS_CardinalityType
<1>4. Cardinality(Younger) = 0
  BY <1>1, <1>3
<1>5. Younger = {}
  BY <1>2, <1>4, FS_EmptySet
<1> QED
  BY <1>1, <1>5, CatalogueAssumption

LEMMA NewestStep ==
  ASSUME AgeRule, IsFiniteSet(Ids), TypeInv, TypeInv', ClaimInv, NewestInv, [Next]_vars
  PROVE  NewestInv'
<1>0. /\ FreshInv' /\ GoodIds' \cap Aged \subseteq GoodIds \cup revived'
      /\ revived \subseteq revived'
      /\ prune \in [Pruners -> PruneLocals] /\ prune' \in [Pruners -> PruneLocals]
      /\ Sweepers \subseteq Pruners /\ GoodIds \subseteq Ids /\ Aged \subseteq Ids
      /\ \A i \in Ids : i # None /\ i \in Nat
  BY FreshStep, CatalogueAssumption DEF NewestInv, TypeInv, TypeOK, Pruners, GoodIds
<1> SUFFICES ASSUME NEW s \in Sweepers PROVE Anchored(s)'
  BY <1>0 DEF NewestInv
<1>a. Anchored(s) /\ s \in Pruners
  BY <1>0 DEF NewestInv
\* The sweep goes on among the candidates it has.
<1>c. ASSUME prune[s].pc # "idle", prune'[s].newest = prune[s].newest,
             prune'[s].pc # "idle",
             prune'[s].todo \subseteq Aged \ {prune[s].newest},
             prune'[s].pc \in CandidatePhases =>
               prune'[s].cur \in Aged \ {prune[s].newest}
      PROVE  Anchored(s)'
  <2>1. \A i \in GoodIds' \cap Aged :
          i \in revived' \/ (prune[s].newest \in Ids /\ i <= prune[s].newest)
    BY <1>0, <1>a, <1>c DEF Anchored
  <2> QED
    BY <1>c, <2>1 DEF Anchored
<1>d. ASSUME prune'[s] = prune[s] PROVE Anchored(s)'
  <2>1. CASE prune[s].pc = "idle"
    BY <1>a, <1>d, <2>1 DEF Anchored, CandidatePhases
  <2>2. CASE prune[s].pc # "idle"
    BY <1>a, <1>c, <1>d, <2>2 DEF Anchored
  <2> QED
    BY <2>1, <2>2
<1>e. ASSUME prune'[s] = NoPrune PROVE Anchored(s)'
  BY <1>e DEF Anchored, NoPrune, CandidatePhases
<1>1. CASE SweepAnchor(s)
  <2>1. PICK n \in IF GoodIds = {} THEN {None} ELSE NewestOf(GoodIds, 1) :
          prune' = [prune EXCEPT ![s] = [@ EXCEPT !.pc = "retained", !.newest = n]]
    BY <1>1 DEF SweepAnchor
  <2>2. /\ prune'[s].pc = "retained" /\ prune'[s].newest = n
        /\ prune'[s].todo = {} /\ GoodIds' = GoodIds
    <3>1. prune'[s] = [prune[s] EXCEPT !.pc = "retained", !.newest = n]
      BY <1>0, <1>a, <2>1
    <3>2. prune[s].pc = "idle" /\ prune[s].todo = {} /\ UNCHANGED status
      BY <1>1, <1>a DEF SweepAnchor, Anchored
    <3> QED
      BY <1>0, <1>a, <3>1, <3>2 DEF PruneLocals, GoodIds
  <2>3. CASE GoodIds = {}
    BY <2>2, <2>3 DEF Anchored, CandidatePhases
  <2>4. CASE GoodIds # {}
    <3>1. n \in GoodIds /\ \A i \in GoodIds : i <= n
      BY <1>0, <2>1, <2>4, NewestIsGreatest
    <3> QED
      BY <1>0, <2>2, <3>1 DEF Anchored, CandidatePhases
  <2> QED
    BY <2>3, <2>4
<1>2. CASE SweepRetained(s)
  <2>1. /\ prune[s].pc = "retained" /\ prune'[s].pc = "scan"
        /\ prune'[s].newest = prune[s].newest /\ prune'[s].todo = prune[s].todo
    BY <1>0, <1>2 DEF SweepRetained, PruneLocals
  <2> QED
    BY <1>a, <1>c, <2>1 DEF Anchored, CandidatePhases
<1>3. CASE SweepScan(s)
  <2>1. /\ prune[s].pc = "scan" /\ prune'[s].pc = "next"
        /\ prune'[s].newest = prune[s].newest
        /\ prune'[s].todo \subseteq Prunable(s)
    BY <1>0, <1>3 DEF SweepScan, PruneLocals
  <2> QED
    BY <1>c, <2>1 DEF Prunable, CandidatePhases
<1>4. CASE SweepTake(s)
  <2>1. PICK i \in prune[s].todo :
          prune' = [prune EXCEPT ![s] = [@ EXCEPT !.pc = "floor", !.cur = i,
                                                  !.todo = prune[s].todo \ {i}]]
    BY <1>4 DEF SweepTake, NewestOf
  <2>2. /\ prune[s].pc = "next" /\ prune'[s].pc = "floor"
        /\ prune'[s].newest = prune[s].newest /\ prune'[s].cur = i
        /\ prune'[s].todo \subseteq prune[s].todo
    BY <1>0, <1>4, <2>1 DEF SweepTake, PruneLocals
  <2> QED
    BY <1>a, <1>c, <2>1, <2>2 DEF Anchored
<1>5. CASE SweepEnd(s) \/ PrunerCrash(s)
  BY <1>0, <1>5, <1>e DEF SweepEnd, PrunerCrash
\* The other statements stay with the candidate or go on to the next.
<1>6. CASE SweepFresh(s) \/ PruneStep(s) \/ MarkFails(s)
  <2>1. /\ prune[s].pc \in CandidatePhases
        /\ prune'[s].newest = prune[s].newest /\ prune'[s].todo = prune[s].todo
        /\ prune'[s].pc = "next" \/ prune'[s].cur = prune[s].cur
        /\ prune'[s].pc # "idle"
    <3> USE <1>0, <1>a DEF PruneNext, PruneGoto, PruneLocals, CandidatePhases
    <3>1. CASE SweepFresh(s)
      BY <3>1 DEF SweepFresh
    <3>2. CASE Floor(s)
      BY <3>2 DEF Floor
    <3>3. CASE RestoreGuard(s)
      BY <3>3 DEF RestoreGuard
    <3>4. CASE Unlink(s)
      BY <3>4 DEF Unlink
    <3>5. CASE MarkDeleted(s) \/ MarkFails(s)
      BY <3>5 DEF MarkDeleted, MarkFails
    <3> QED
      BY <1>6, <3>1, <3>2, <3>3, <3>4, <3>5 DEF PruneStep
  <2> QED
    BY <1>a, <1>c, <2>1 DEF Anchored, CandidatePhases
\* Whatever another pruner does leaves this sweep where it is.
<1>7. ASSUME NEW q \in Pruners, q # s,
             \/ q \in Sweepers /\ SweepStep(q)
             \/ PruneStep(q) \/ MarkFails(q) \/ PrunerCrash(q)
             \/ \E i \in Ids : DeleteRead(q, i)
      PROVE  prune'[s] = prune[s]
  <2> USE <1>0, <1>a, <1>7 DEF PruneNext, PruneGoto
  <2>1. CASE q \in Sweepers /\ SweepStep(q)
    BY <2>1 DEF SweepStep, SweepAnchor, SweepRetained, SweepScan, SweepTake, SweepEnd,
                SweepFresh
  <2>2. CASE PruneStep(q) \/ MarkFails(q) \/ PrunerCrash(q)
    BY <2>2 DEF PruneStep, Floor, RestoreGuard, Unlink, MarkDeleted, MarkFails, PrunerCrash
  <2>3. CASE \E i \in Ids : DeleteRead(q, i)
    BY <2>3 DEF DeleteRead
  <2> QED
    BY <2>1, <2>2, <2>3
<1>8. CASE \E w \in Writers : WriteStep(w)
  BY <1>8, <1>d DEF WriteStep, DumpInsert, DumpStart, DumpPublish, DumpComplete, DumpFail
<1>9. CASE \E r \in Restorers : RestoreStep(r)
  BY <1>9, <1>d DEF RestoreStep, RestorePreflight, RestoreOpen, RestoreRaceCheck,
     SafetyRead, SafetyPersist, SafetyRecord, RestoreDecode
<1>10. CASE \E v \in Verifiers : VerifyPersist(v) \/ (\E i \in Ids : VerifyRead(v, i))
  BY <1>10, <1>d DEF VerifyPersist, VerifyRead
<1>11. CASE UNCHANGED vars
  BY <1>11, <1>d DEF vars
<1>12. \A d \in Deleters : d # s /\ d \in Pruners
  BY ActorAssumption DEF Pruners
<1>13. ASSUME NEW q \in Sweepers, SweepStep(q) PROVE Anchored(s)'
  <2>1. q \in Pruners
    BY <1>0
  <2>2. CASE q # s
    BY <1>13, <1>7, <1>d, <2>1, <2>2
  <2>3. CASE q = s
    BY <1>13, <1>1, <1>2, <1>3, <1>4, <1>5, <1>6, <2>3 DEF SweepStep
  <2> QED
    BY <2>2, <2>3
<1>14. ASSUME NEW q \in Pruners, PruneStep(q) \/ MarkFails(q) \/ PrunerCrash(q)
       PROVE  Anchored(s)'
  <2>1. CASE q # s
    BY <1>14, <1>7, <1>d, <2>1
  <2>2. CASE q = s
    BY <1>14, <1>5, <1>6, <2>2
  <2> QED
    BY <2>1, <2>2
<1>15. ASSUME NEW d \in Deleters, NEW i \in Ids, DeleteRead(d, i) PROVE Anchored(s)'
  BY <1>7, <1>12, <1>15, <1>d
<1> QED
  BY <1>8, <1>9, <1>10, <1>11, <1>13, <1>14, <1>15 DEF Next

\* "newest known-good": where the age rule is on, a sweep deletes the newest good row
\* only if a verdict made it good or the newest row the sweep saw has been taken away,
\* whoever prunes, dumps, restores and verifies meanwhile.
THEOREM NewestKept ==
  ASSUME AgeRule, IsFiniteSet(Ids)
  PROVE  Spec => NewestGoodKept
<1> DEFINE Step ==
      \A s \in Sweepers :
        LET cur == prune[s].cur
            newest == prune[s].newest
        IN  prune[s].pc = "mark" /\ prune'[s].pc # "mark" /\ status[cur] \in Good
              => \/ \E i \in GoodIds : i > cur
                 \/ cur \in revived
                 \/ newest \in Ids \ GoodIds
<1>1. Init => NewestInv
  <2> SUFFICES ASSUME Init PROVE NewestInv
    OBVIOUS
  <2>1. FreshInv
    BY DEF Init, FreshInv, NoDump
  <2>2. \A s \in Sweepers : Anchored(s)
    BY DEF Init, Anchored, NoPrune, Pruners, CandidatePhases
  <2> QED
    BY <2>1, <2>2 DEF NewestInv
<1>2. TypeInv /\ TypeInv' /\ ClaimInv /\ NewestInv /\ [Next]_vars => NewestInv'
  BY NewestStep
<1>3. NewestInv => Step
  <2> SUFFICES ASSUME NewestInv, NEW s \in Sweepers, prune[s].pc = "mark",
                      status[prune[s].cur] \in Good, prune[s].cur \notin revived,
                      prune[s].newest \notin Ids \ GoodIds
               PROVE  \E i \in GoodIds : i > prune[s].cur
    OBVIOUS
  <2>1. prune[s].cur \in Aged \ {prune[s].newest} /\ Aged \subseteq Ids /\ Ids \subseteq Nat
    BY CatalogueAssumption DEF NewestInv, Anchored, CandidatePhases
  <2>2. prune[s].cur \in GoodIds \cap Aged
    BY <2>1 DEF GoodIds
  <2>3. prune[s].newest \in GoodIds /\ prune[s].cur <= prune[s].newest
    BY <2>2 DEF NewestInv, Anchored
  <2>4. prune[s].newest \in Nat /\ prune[s].cur \in Nat
    BY <2>1, <2>3 DEF GoodIds
  <2>5. prune[s].newest > prune[s].cur
    BY <2>1, <2>3, <2>4
  <2> QED
    BY <2>3, <2>5
<1> QED
  BY <1>1, <1>2, <1>3, ClaimInvariant, PTL DEF Spec, NewestGoodKept
=============================================================================
