---------------------------- MODULE AbsenceCover ----------------------------
(***************************************************************************)
(* Cover while somebody is away: src/absenceCover over dbo.CoverActions,   *)
(* dbo.CoverDelegates and dbo.LeaveRequests, and the work it moves.        *)
(*                                                                         *)
(* A run (the timer's, or a manager's decision on one item) reads who is   *)
(* away, what waits on them and who may take it, and then applies its      *)
(* entries one by one, each in a transaction that looks at the item again; *)
(* anything may happen in between.  Two kinds of work stand for the six:   *)
(* a job has one holder (so have an e-mail and an escalation), a question  *)
(* has the people asked.  Approvals and leave are only told about, and an  *)
(* escalation with nobody to take it goes up its own ladder; both are left *)
(* out, as are dates: whether an item falls due before the return is open. *)
(***************************************************************************)
EXTENDS Naturals, FiniteSets, Sequences

CONSTANTS
  Staff, CoverJobs, Questions, Nobody,
  AskedFirst,  \* [Questions -> the people a question was first put to]
  RaisedBy,    \* [Questions -> who asked it]
  Pairs,       \* who may nominate whom: bounds the nominations
  MaxMoves, MaxLeaves  \* moves not taken back, absences: bound the run

ASSUME CoverConstants ==
  /\ Nobody \notin Staff /\ CoverJobs \cap Questions = {}
  /\ \A q \in Questions : AskedFirst[q] \subseteq Staff \ {RaisedBy[q]}

Items == CoverJobs \cup Questions
NoAction == [act |-> "none"]

VARIABLES
  away,      \* [Staff -> the leave or the silence that makes them absent (AbsenceRef), 0 when in]
  leaves,    \* absences so far
  quiet,     \* who is away only because they have not signed in
  nominated, \* dbo.CoverDelegates: {<<person, who covers>>}
  work,      \* [Items -> [open, holder, asked, ver]]
  byHand,    \* jobs reassigned by hand since cover last moved them (history)
  lastRow,   \* [Items -> the newest of its dbo.CoverActions, NoAction when none]
  moves,     \* the moves of dbo.CoverActions that were not taken back
  told,      \* [Items -> who the newest move or take-back gave it to] (history)
  plans      \* [{"timer", "desk"} -> entries that run still has to apply]

acVars == <<away, leaves, quiet, nominated, work, byHand, lastRow, moves, told, plans>>

AcInit ==
  /\ away = [p \in Staff |-> 0] /\ leaves = 0 /\ quiet = {} /\ nominated = {}
  /\ work \in [Items -> [open : BOOLEAN, holder : Staff \cup {Nobody}, asked : SUBSET Staff, ver : {0}]]
  /\ \A j \in CoverJobs : work[j].holder # Nobody /\ work[j].asked = {}
  /\ \A q \in Questions : work[q].holder = Nobody /\ work[q].asked = AskedFirst[q]
  /\ byHand = {} /\ moves = {}
  /\ lastRow = [i \in Items |-> NoAction] /\ told = [i \in Items |-> Nobody]
  /\ plans = [r \in {"timer", "desk"} |-> {}]

(* ---- who is away: detectAbsences, the leave requests, nominations ---- *)

Away == {p \in Staff : away[p] # 0}
\* createLeaveRequest: no other pending or approved leave over the same days
NoOverlap(p) == away[p] = 0 /\ leaves < MaxLeaves
\* An agreed leave (decideLeaveRequest) reaches its first day.
LeaveStarts(p) ==
  /\ NoOverlap(p)
  /\ leaves' = leaves + 1 /\ away' = [away EXCEPT ![p] = leaves + 1]
  /\ UNCHANGED <<quiet, nominated, work, byHand, lastRow, moves, told, plans>>
GoesQuiet(p) ==
  /\ NoOverlap(p)
  /\ leaves' = leaves + 1 /\ away' = [away EXCEPT ![p] = leaves + 1]
  /\ quiet' = quiet \cup {p}
  /\ UNCHANGED <<nominated, work, byHand, lastRow, moves, told, plans>>
\* The last day passes, the leave is withdrawn, or they sign in.
Returns(p) ==
  /\ away[p] # 0
  /\ away' = [away EXCEPT ![p] = 0] /\ quiet' = quiet \ {p}
  /\ UNCHANGED <<leaves, nominated, work, byHand, lastRow, moves, told, plans>>
Nominate(p, d) ==
  /\ p # d /\ <<p, d>> \in Pairs
  /\ nominated' = nominated \cup {<<p, d>>}
  /\ UNCHANGED <<away, leaves, quiet, work, byHand, lastRow, moves, told, plans>>
ArchiveNomination(p, d) ==
  /\ <<p, d>> \in nominated /\ nominated' = nominated \ {<<p, d>>}
  /\ UNCHANGED <<away, leaves, quiet, work, byHand, lastRow, moves, told, plans>>

(* ---- the plan: loadLiveView, planCover, resolveCover ---- *)

\* A question waits on somebody away only when everybody asked is away.
OneIsAway(q) == work[q].asked \cap Away # {}
AllAreAway(q) == work[q].asked # {} /\ work[q].asked \subseteq Away
\* loadJobItems, loadDecisionItems: what waits, and on whom
Stranded == {x \in CoverJobs \X Away : work[x[1]].open /\ work[x[1]].holder = x[2]}
       \cup {x \in Questions \X Away : work[x[1]].open /\ AllAreAway(x[1]) /\ x[2] \in work[x[1]].asked}

\* recorded under this absence, about this person
SameAbsence(i, p) ==
  lastRow[i] # NoAction /\ lastRow[i].ref = away[p] /\ p \in {lastRow[i].from, lastRow[i].to}
AlreadyHandled(i, p) == SameAbsence(i, p) /\ lastRow[i].act \in {"kept", "taken_back"}
AlreadySuggested(i, p) == SameAbsence(i, p) /\ lastRow[i].act = "suggested"

\* ineligibleReason
Eligible(i, p) == {c \in Staff \ (Away \cup {p}) : i \in Questions => c # RaisedBy[i]}
DelegatesFor(p) == {c \in Staff : <<p, c>> \in nominated}
\* The delegates first, then the managers and the ladder.
Resolved(i, p) ==
  LET delegates == Eligible(i, p) \cap DelegatesFor(p)
  IN IF delegates # {} THEN delegates ELSE Eligible(i, p)

\* decideMove: a silence only suggests; what is due before the return moves.
DecideMove(p) == IF p \in quiet THEN {"suggested"} ELSE {"moved", "suggested"}
\* writeFor: with nobody to take it, the row says so.
Entries(i, p) ==
  {[item |-> i, from |-> p, to |-> c, ref |-> away[p], ver |-> work[i].ver, act |-> a] :
     c \in Resolved(i, p), a \in DecideMove(p)}
  \cup (IF Resolved(i, p) = {}
        THEN {[item |-> i, from |-> p, to |-> Nobody, ref |-> away[p], ver |-> work[i].ver, act |-> "suggested"]} ELSE {})
ToPlan == {x \in Stranded : ~AlreadyHandled(x[1], x[2])}
\* One entry per item: a question is its first asked person's.
PlanOver(todo) ==
  {S \in SUBSET UNION {Entries(x[1], x[2]) : x \in todo} :
     \A i \in Items : Cardinality({e \in S : e.item = i}) = IF \E x \in todo : x[1] = i THEN 1 ELSE 0}

TimerLoads ==
  /\ plans["timer"] = {} /\ ToPlan # {}
  /\ \E S \in PlanOver(ToPlan) : plans' = [plans EXCEPT !["timer"] = S]
  /\ UNCHANGED <<away, leaves, quiet, nominated, work, byHand, lastRow, moves, told>>
\* decideCoverItem: the manager keeps the item where it is, or moves it, to anybody eligible.
DeskLoads(i) ==
  /\ plans["desk"] = {}
  /\ \E p \in Away :
       /\ <<i, p>> \in ToPlan
       /\ \E act \in {"kept", "moved"} : \E c \in IF act = "kept" THEN {Nobody} ELSE Eligible(i, p) :
            plans' = [plans EXCEPT !["desk"] =
              {[item |-> i, from |-> p, to |-> c, ref |-> away[p], ver |-> work[i].ver, act |-> act]}]
  /\ UNCHANGED <<away, leaves, quiet, nominated, work, byHand, lastRow, moves, told>>

(* ---- applying: applyCoverAction and the movers ---- *)

Row(e, act) == [item |-> e.item, act |-> act, from |-> e.from, to |-> e.to, ref |-> e.ref]
Applied(r, e) == plans' = [plans EXCEPT ![r] = @ \ {e}]

\* moveJob: it is still theirs and open.  moveDecision: still pending, they are asked, and nobody
\* has changed it since it was read (a job's version is not looked at).
CanMove(i, from, ver) ==
  /\ work[i].open
  /\ IF i \in CoverJobs THEN work[i].holder = from ELSE from \in work[i].asked /\ work[i].ver = ver
MovedWork(i, from, to, takeBack) ==
  IF i \in CoverJobs THEN [work EXCEPT ![i].holder = to]
  ELSE [work EXCEPT ![i].asked = (IF takeBack THEN @ \ {from} ELSE @) \cup {to}, ![i].ver = @ + 1]

Recorded(e, act) == lastRow' = [lastRow EXCEPT ![e.item] = Row(e, act)]
\* The move and its row are one transaction: what cannot be moved any more leaves no row.
NoRow(e) == UNCHANGED <<lastRow, told>>
ApplyMove(r, e) ==
  /\ e \in plans[r] /\ e.act = "moved" /\ CanMove(e.item, e.from, e.ver)
  /\ Cardinality(moves) < MaxMoves /\ Row(e, "moved") \notin moves
  /\ work' = MovedWork(e.item, e.from, e.to, FALSE)
  /\ byHand' = byHand \ {e.item}
  /\ Recorded(e, "moved") /\ moves' = moves \cup {Row(e, "moved")} /\ told' = [told EXCEPT ![e.item] = e.to]
  /\ Applied(r, e)
  /\ UNCHANGED <<away, leaves, quiet, nominated>>
ApplyRefused(r, e) ==
  /\ e \in plans[r] /\ e.act = "moved" /\ ~CanMove(e.item, e.from, e.ver)
  /\ NoRow(e) /\ Applied(r, e)
  /\ UNCHANGED <<away, leaves, quiet, nominated, work, byHand, moves>>
\* A suggestion or a decision to keep only writes its row, a suggestion once an absence.
ApplyNote(r, e) ==
  /\ e \in plans[r] /\ e.act \in {"suggested", "kept"}
  /\ IF e.act = "suggested" /\ AlreadySuggested(e.item, e.from) THEN UNCHANGED lastRow
     ELSE Recorded(e, e.act)
  /\ Applied(r, e)
  /\ UNCHANGED <<away, leaves, quiet, nominated, work, byHand, moves, told>>

\* takeBackItem: only who it was taken from, once, and only while the cover still has it.
TakeBack(row) ==
  /\ CanMove(row.item, row.to, work[row.item].ver)
  /\ work' = MovedWork(row.item, row.to, row.from, TRUE)
  /\ byHand' = byHand \ {row.item}
  /\ lastRow' = [lastRow EXCEPT ![row.item] = [row EXCEPT !.act = "taken_back", !.from = row.to, !.to = row.from]]
  /\ moves' = moves \ {row} /\ told' = [told EXCEPT ![row.item] = row.from]
  /\ UNCHANGED <<away, leaves, quiet, nominated, plans>>

(* ---- the rest of the system (external to the engine) ---- *)

Reassign(j, to) ==
  /\ work[j].open /\ work[j].holder # to
  /\ work' = [work EXCEPT ![j].holder = to] /\ byHand' = byHand \cup {j}
  /\ UNCHANGED <<away, leaves, quiet, nominated, lastRow, moves, told, plans>>
Finish(i) ==
  /\ work[i].open /\ work' = [work EXCEPT ![i].open = FALSE]
  /\ UNCHANGED <<away, leaves, quiet, nominated, byHand, lastRow, moves, told, plans>>

AcNext ==
  \/ \E p \in Staff : LeaveStarts(p) \/ GoesQuiet(p) \/ Returns(p)
  \/ \E p, d \in Staff : Nominate(p, d) \/ ArchiveNomination(p, d)
  \/ TimerLoads \/ \E i \in Items : DeskLoads(i)
  \/ \E r \in {"timer", "desk"} : \E e \in plans[r] : ApplyMove(r, e) \/ ApplyRefused(r, e) \/ ApplyNote(r, e)
  \/ \E row \in moves : TakeBack(row)
  \/ \E j \in CoverJobs, to \in Staff : Reassign(j, to)
  \/ \E i \in Items : Finish(i)

AcSpec == AcInit /\ [][AcNext]_acVars

(* ---- properties ---- *)

(* "the person who is away stays named, so the record of who was asked is   *)
(* whole" (moveDecision.ts): however covers join and leave a question, and  *)
(* whoever takes it back, everybody it was first put to can still answer.   *)
AskedStayAsked == \A q \in Questions : AskedFirst[q] \subseteq work[q].asked

(* The last move cover recorded for a job says who has it, unless somebody  *)
(* reassigned it by hand since: the timer, a manager and a returning owner  *)
(* acting on what they read earlier never leave a record of a move that did *)
(* not happen, nor move work no record tells of.                            *)
LogTellsTheHolder == \A j \in CoverJobs \ byHand : told[j] # Nobody => work[j].holder = told[j]

(* Cover keeps the record straight: of who was asked and of who has a job. *)
CoverIsOnRecord == AskedStayAsked /\ LogTellsTheHolder
=============================================================================
