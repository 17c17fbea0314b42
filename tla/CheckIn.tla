------------------------------- MODULE CheckIn -------------------------------
(***************************************************************************)
(* Scanning one participant at the main entrance and at one room           *)
(* (lib/admin/main-entrance-validator.ts, room-validator.ts,               *)
(* text-checkin-validator.ts and app/admin/.../check-in/actions.ts), while *)
(* the badge is issued, replaced and revoked (BadgeCredential) and the     *)
(* administrators change the registration and its access rows.             *)
(*                                                                         *)
(* A scanner's request is a sequence of statements without a transaction.  *)
(***************************************************************************)
EXTENDS BadgeCredential, FiniteSets

CONSTANTS
  Scanners,
  MaxScans,   \* bound: scans
  MaxEdits    \* bound: changes of the registration and of its access rows

ASSUME CheckInAssumption == {MaxScans, MaxEdits} \subseteq Nat

VARIABLES
  cancelled, \* Participant.status is CANCELLED
  here,      \* Participant.checkedInAt is set
  allowed,   \* the ParticipantAccess row of each point lets the participant in
  scan,      \* locals of each scanner's request
  entries,   \* CheckIn rows of the entrance: FIRST_SCAN and REPEAT_SCAN
  wrongly,   \* an entry was recorded for a scan that had been barred all along
  lost,      \* a request died between the claim and its CheckIn row
  scans, edits

scanVars == <<cancelled, here, allowed, scan, entries, wrongly, lost, scans, edits>>
vars     == <<badgeVars, scanVars>>

\* The validators: by QR or by the printed text code, at either point, and the manual
\* check-in by ticket code, at the entrance only.
Kinds == {"qr", "text"} \X {"main", "room"} \cup {<<"manual", "main">>}

\* item: the credential or the code presented.  bars: what has kept this scan from
\* being admissible ever since it began.
NoScan == [pc |-> "idle", how |-> "manual", point |-> "main", item |-> 0, bars |-> {},
           first |-> FALSE]

Init ==
  /\ BadgeInit
  /\ cancelled = FALSE /\ here = FALSE
  /\ allowed = [p \in {"main", "room"} |-> p = "main"]
  /\ scan = [s \in Scanners |-> NoScan]
  /\ entries = [reason \in {"FIRST_SCAN", "REPEAT_SCAN"} |-> 0]
  /\ wrongly = FALSE /\ lost = FALSE
  /\ scans = 0 /\ edits = 0

Goto(s, phase) == scan' = [scan EXCEPT ![s].pc = phase]
Denied(s)      == scan' = [scan EXCEPT ![s] = NoScan]

\* Credentials and codes that a participant may hold up: those that were shown once.
Items(how) == CASE how = "qr" -> DOMAIN creds [] how = "text" -> 1..code [] OTHER -> {0}

\* A badge that is dead stays dead; the manual check-in looks at neither the badge
\* nor the access rows.
BarsOf(how, point, item) ==
  {b \in {"badge", "status", "access"} :
     \/ b = "badge" /\ how = "qr" /\ (creds[item].status = "REVOKED" \/ creds[item].exp = "past")
     \/ b = "badge" /\ how = "text" /\ item \in deadCodes
     \/ b = "status" /\ cancelled
     \/ b = "access" /\ how # "manual" /\ ~allowed[point]}

\* A scan of a point that is active and of the right type.
Present(s) ==
  /\ scan[s].pc = "idle" /\ scans < MaxScans
  /\ \E k \in Kinds : \E i \in Items(k[1]) :
       scan' = [scan EXCEPT ![s] = [pc |-> "find", how |-> k[1], point |-> k[2], item |-> i,
                                    bars |-> BarsOf(k[1], k[2], i), first |-> FALSE]]
  /\ scans' = scans + 1
  /\ UNCHANGED <<badgeVars, cancelled, here, allowed, entries, wrongly, lost, edits>>

\* verifyBadgeToken; the participant of a text code or of a ticket code.
Found(s) ==
  LET i == scan[s].item
  IN  CASE scan[s].how = "qr" ->
             creds[i].status = "ACTIVE" /\ creds[i].exp # "past" /\ ~cancelled
        [] scan[s].how = "text" -> i = code /\ ~cancelled
        [] OTHER                -> ~cancelled

Find(s) ==
  /\ scan[s].pc = "find"
  /\ IF Found(s)
       THEN Goto(s, IF scan[s].how = "manual" THEN "claim" ELSE "gates")
       ELSE Denied(s)
  /\ UNCHANGED <<badgeVars, cancelled, here, allowed, entries, wrongly, lost, scans, edits>>

\* The text code is refused with the latest credential; the QR's participant is read
\* again.
Passes(s) ==
  /\ allowed[scan[s].point]
  /\ scan[s].how = "qr" => ~cancelled
  /\ scan[s].how = "text" /\ creds # <<>> =>
       creds[Len(creds)].status = "ACTIVE" /\ creds[Len(creds)].exp # "past"

Gates(s) ==
  /\ scan[s].pc = "gates"
  /\ IF Passes(s) THEN Goto(s, IF scan[s].point = "main" THEN "claim" ELSE "record")
     ELSE Denied(s)
  /\ UNCHANGED <<badgeVars, cancelled, here, allowed, entries, wrongly, lost, scans, edits>>

\* Mutant: the claim does not ask whether somebody has come first.
ClaimBlindly(s) ==
  /\ scan[s].pc = "claim"
  /\ here' = TRUE
  /\ scan' = [scan EXCEPT ![s] = [@ EXCEPT !.pc = "record", !.first = TRUE]]
  /\ UNCHANGED <<badgeVars, cancelled, allowed, entries, wrongly, lost, scans, edits>>

\* updateMany where checkedInAt is null: the first one wins.
Claim(s) ==
  /\ scan[s].pc = "claim"
  /\ here' = TRUE
  /\ scan' = [scan EXCEPT ![s] = [@ EXCEPT !.pc = "record", !.first = ~here]]
  /\ UNCHANGED <<badgeVars, cancelled, allowed, entries, wrongly, lost, scans, edits>>

Reason(s) == IF scan[s].first THEN "FIRST_SCAN" ELSE "REPEAT_SCAN"

\* The CheckIn row; those of a room are not counted.
Record(s) ==
  /\ scan[s].pc = "record" /\ Denied(s)
  /\ entries' = IF scan[s].point = "room" THEN entries ELSE [entries EXCEPT ![Reason(s)] = @ + 1]
  /\ wrongly' = (wrongly \/ scan[s].bars # {})
  /\ UNCHANGED <<badgeVars, cancelled, here, allowed, lost, scans, edits>>

\* The request dies, or the insertion of its row fails.
Die(s) ==
  /\ scan[s].pc \in {"claim", "record"} /\ Denied(s)
  /\ lost' = (lost \/ scan[s].first)
  /\ UNCHANGED <<badgeVars, cancelled, here, allowed, entries, wrongly, scans, edits>>

-----------------------------------------------------------------------------
(* The administrators                                                       *)

Edit == edits < MaxEdits /\ edits' = edits + 1

\* No longer b for the scans that are under way.
Lifted(b, points) ==
  scan' = [s \in Scanners |-> IF scan[s].point \in points
                                THEN [scan[s] EXCEPT !.bars = @ \ {b}] ELSE scan[s]]

\* updateRegistrant: the status of the form, cancelled or not.
UpdateRegistrant ==
  /\ Edit
  /\ cancelled' = ~cancelled
  /\ IF cancelled THEN Lifted("status", {"main", "room"}) ELSE UNCHANGED scan
  /\ UNCHANGED <<badgeVars, here, allowed, entries, wrongly, lost, scans>>

\* A grant, a revocation or a registration to the room (RoomAccess).
SetAccess(p) ==
  /\ Edit
  /\ allowed' = [allowed EXCEPT ![p] = ~@]
  /\ IF allowed[p] THEN UNCHANGED scan ELSE Lifted("access", {p})
  /\ UNCHANGED <<badgeVars, cancelled, here, entries, wrongly, lost, scans>>

-----------------------------------------------------------------------------
ScanNext ==
  \/ \E s \in Scanners :
       Present(s) \/ Find(s) \/ Gates(s) \/ Claim(s) \/ Record(s) \/ Die(s)
  \/ UpdateRegistrant \/ \E p \in {"main", "room"} : SetAccess(p)

\* A text code that has been found keeps its place while the badge is regenerated: the
\* scan then meets the new credential.
BadgeStep ==
  /\ BadgeNext
  /\ scan' = [s \in Scanners |-> IF scan[s].how = "text" /\ code' # code
                                  THEN [scan[s] EXCEPT !.bars = @ \ {"badge"}] ELSE scan[s]]
  /\ UNCHANGED <<cancelled, here, allowed, entries, wrongly, lost, scans, edits>>

Next == ScanNext \/ BadgeStep

Spec == Init /\ [][Next]_vars

-----------------------------------------------------------------------------
(* Properties                                                               *)

\* The badge's state, and the scans under way with the reasons that have lasted through
\* each of them.
TypeOK ==
  /\ BadgeTypeOK
  /\ {cancelled, here, wrongly, lost} \subseteq BOOLEAN
  /\ allowed \in [{"main", "room"} -> BOOLEAN]
  /\ scan \in [Scanners ->
       [pc : {"idle", "find", "gates", "claim", "record"},
        how : {"qr", "text", "manual"}, point : {"main", "room"}, item : Nat,
        bars : SUBSET {"badge", "status", "access"}, first : BOOLEAN]]
  /\ entries \in [{"FIRST_SCAN", "REPEAT_SCAN"} -> Nat]
  /\ scans \in 0..MaxScans /\ edits \in 0..MaxEdits

\* "exactly ONE concurrent caller sees count === 1": QR, text and manual scans of one
\* participant, however they overlap, record one first entry.  checkedInAt and the CheckIn
\* rows agree: nobody has an entry without being in, and whoever is in has a first entry,
\* unless the request that let them in is about to write it or has died.
OneFirstEntry ==
  /\ entries["FIRST_SCAN"] <= 1
  /\ entries["FIRST_SCAN"] + entries["REPEAT_SCAN"] > 0 => here
  /\ here => \/ entries["FIRST_SCAN"] = 1 \/ lost
             \/ \E s \in Scanners : scan[s].pc = "record" /\ scan[s].first

\* Nobody enters on a badge that was dead, a registration that was cancelled or an
\* access that was refused from the beginning of the scan to its end: not by the code
\* of a badge revoked and replaced since, nor by one that a cutover has renewed.
NeverWrongly == ~wrongly
=============================================================================
