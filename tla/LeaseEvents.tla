---------------------------- MODULE LeaseEvents ----------------------------
(***************************************************************************)
(* The end of one lease: option notices and renewals (dbo.LeaseEvents).    *)
(* src/leaseEventMachine.ts, src/leaseEvents, the handlers that record,    *)
(* reject and approve an option notice and decide a renewal, the daily     *)
(* generator, and the register edits that move the expiry under them.      *)
(*                                                                         *)
(* Days are numbers; an option's window is the WindowDays days up to       *)
(* NoticeDays before the expiry.  A handler locks the event and the        *)
(* tenancy in one transaction and is one action.  The generator reads the  *)
(* tenancy, then the events, then writes each planned action on its own.   *)
(* The escalations raised and ended after a commit are the raise and the   *)
(* concludeForSubject of Escalations and are left out here.                *)
(***************************************************************************)
EXTENDS Integers, FiniteSets

CONSTANTS
  EventIds,      \* rows of dbo.LeaseEvents that can be made: bounds the run
  Staff, NoOne,  \* the people who use the register
  Approvers,     \* accounts manager, CFO, director
  Directors,
  FirstExpiry,   \* the expiry of the lease as it is signed
  TermDays,      \* the term of an option
  Options,       \* Tenants.OptionsTotal
  Expiries,      \* the dates a register edit can give the lease
  NoticeDays, WindowDays, HorizonDays, RenewalDays, WarningDays,
  LastDay,       \* the last day looked at
  MaxRegisterEdits  \* edits of the register and generator runs lost: bounds the run

ASSUME LeaseConstants ==
  /\ Directors \subseteq Approvers /\ Approvers \subseteq Staff /\ NoOne \notin Staff
  /\ {FirstExpiry, TermDays, NoticeDays, RenewalDays, LastDay} \subseteq Nat \ {0}
  /\ {Options, WindowDays, HorizonDays, WarningDays, MaxRegisterEdits} \subseteq Nat

VARIABLES
  lse,      \* the lease fields of the dbo.Tenants row
  evts,     \* [EventIds -> event row]
  gen,      \* what a run of the generator has read and still has to write
  day       \* today in Darwin

leaseVars == <<lse, evts, gen, day>>

OpenOption == {"window_not_open", "window_open", "notice_received", "awaiting_approval"}
OpenLease == OpenOption \cup {"referred"}
NoEvent == [type |-> "none", state |-> "none", expiry |-> 0, notice |-> 0, recorder |-> NoOne,
            approver |-> NoOne]
GenIdle == [pc |-> "idle", expiry |-> 0, remaining |-> 0, day |-> 0, todo |-> {}]

LeaseInit ==
  /\ lse = [expiry |-> FirstExpiry, remaining |-> Options, status |-> "current", closed |-> FALSE,
            signed |-> TRUE, steps |-> {0}, review |-> FALSE, draft |-> FALSE, edits |-> 0]
  /\ evts = [e \in EventIds |-> NoEvent]
  /\ gen = GenIdle /\ day = 0

(* optionNoticeWindow and optionTermDates. *)
Deadline(expiry) == expiry - NoticeDays
OpensAt(expiry) == Deadline(expiry) - WindowDays
InWindow(expiry, d) == OpensAt(expiry) <= d /\ d <= Deadline(expiry)
OptionStart(expiry) == expiry + 1
NewExpiry(expiry) == expiry + TermDays

OfType(rows, type) == {e \in EventIds : rows[e].type = type}
OpenOf(rows, type) == {e \in OfType(rows, type) : rows[e].state \in OpenLease}
ForExpiry(rows, type, expiry) == {e \in OfType(rows, type) : rows[e].expiry = expiry}
\* Nothing reads more than this of an event that is over.
EventOver(row, state) == [NoEvent EXCEPT !.type = row.type, !.state = state, !.expiry = row.expiry]
SetEvent(e, row) == evts' = [evts EXCEPT ![e] = row]
LeaseEdit(row) == lse.edits < MaxRegisterEdits /\ lse' = [row EXCEPT !.edits = @ + 1]

(* ---- the generator ---- *)

GenReadsTenancy ==
  /\ gen.pc = "idle" /\ ~lse.closed
  /\ gen' = [GenIdle EXCEPT !.pc = "read", !.expiry = lse.expiry, !.remaining = lse.remaining, !.day = day]
  /\ UNCHANGED <<lse, evts, day>>

Planned(kind, e) == [kind |-> kind, event |-> e]
OptionPlan(rows, expiry, remaining, today) ==
  LET open == OpenOf(rows, "option")
      early == {"window_not_open", "window_open"}
      due(e) == IF rows[e].state \in early /\ today > Deadline(expiry) THEN {Planned("lapse", e)}
                ELSE {Planned("open_window", x) : x \in {e} \cap {y \in EventIds :
                        rows[y].state = "window_not_open" /\ today >= OpensAt(expiry)}}
                     \cup {Planned("deadline_warning", x) : x \in {e} \cap {y \in EventIds :
                        /\ rows[y].state = "window_open" \/ today >= OpensAt(expiry)
                        /\ Deadline(expiry) - today <= WarningDays}}
  IN IF open # {}
     THEN UNION {due(e) : e \in {f \in open : rows[f].expiry = expiry}}
     ELSE IF /\ ForExpiry(rows, "option", expiry) = {} /\ remaining >= 1
             /\ today <= Deadline(expiry) /\ today >= OpensAt(expiry) - HorizonDays
          THEN {Planned("open_option", NoOne)} ELSE {}

\* first is the event for this expiry that the unordered query happens to return first.
OptionStillLive(rows, expiry, remaining, today, first) ==
  \/ OpenOf(rows, "option") # {}
  \/ IF first # NoOne THEN rows[first].state = "exercised"
     ELSE remaining > 0 /\ today <= Deadline(expiry)
AnyRenewal(rows, expiry) == OfType(rows, "renewal") # {}
RenewalThere(rows, expiry) ==
  OpenOf(rows, "renewal") # {} \/ ForExpiry(rows, "renewal", expiry) # {}
RenewalPlan(rows, expiry, remaining, today, first) ==
  IF \/ expiry - today > RenewalDays \/ RenewalThere(rows, expiry)
     \/ OptionStillLive(rows, expiry, remaining, today, first)
  THEN {} ELSE {Planned("refer_renewal", NoOne)}

GenReadsEvents ==
  /\ gen.pc = "read"
  /\ LET own == ForExpiry(evts, "option", gen.expiry) IN
     \E first \in IF own = {} THEN {NoOne} ELSE own :
       gen' = [gen EXCEPT !.pc = "write",
                 !.todo = OptionPlan(evts, gen.expiry, gen.remaining, gen.day)
                          \cup RenewalPlan(evts, gen.expiry, gen.remaining, gen.day, first)]
  /\ UNCHANGED <<lse, evts, day>>

\* writeAction: a move is guarded by the state it was planned from, an insert by
\* UX_LeaseEvents_OpenPerType; either can be raced.
MoveFrom(kind) ==
  IF kind = "lapse" THEN {"window_not_open", "window_open"} ELSE {"window_not_open"}
WriteMove(a) ==
  /\ a.kind \in {"lapse", "open_window"}
  /\ IF evts[a.event].state \in MoveFrom(a.kind)
     THEN /\ SetEvent(a.event, [evts[a.event] EXCEPT !.state = IF a.kind = "lapse" THEN "lapsed" ELSE "window_open"])
          /\ gen' = [gen EXCEPT !.todo = @ \ {a}]
     ELSE gen' = [gen EXCEPT !.todo = @ \ {a}] /\ UNCHANGED evts
WriteInsert(a) ==
  LET type == IF a.kind = "open_option" THEN "option" ELSE "renewal"
      state == IF type = "renewal" THEN "referred"
               ELSE IF gen.day >= OpensAt(gen.expiry) THEN "window_open" ELSE "window_not_open"
  IN /\ a.kind \in {"open_option", "refer_renewal"}
     /\ \/ /\ OpenOf(evts, type) # {}
           /\ gen' = [gen EXCEPT !.todo = @ \ {a}] /\ UNCHANGED evts
        \/ \E e \in EventIds :
             /\ OpenOf(evts, type) = {} /\ evts[e] = NoEvent
             /\ SetEvent(e, [NoEvent EXCEPT !.type = type, !.state = state, !.expiry = gen.expiry])
             /\ gen' = [gen EXCEPT !.todo = @ \ {a}]
GenWrites(a) ==
  /\ gen.pc = "write"
  /\ \/ WriteMove(a) \/ WriteInsert(a)
     \/ a.kind = "deadline_warning" /\ gen' = [gen EXCEPT !.todo = @ \ {a}] /\ UNCHANGED evts
  /\ UNCHANGED <<lse, day>>
GenEnds ==
  /\ gen.pc = "write" /\ gen.todo = {}
  /\ gen' = GenIdle
  /\ UNCHANGED <<lse, evts, day>>
\* The host goes down, or the database refuses: the rest of the plan is lost.
GenDies ==
  /\ gen.pc # "idle" /\ gen' = GenIdle
  /\ LeaseEdit(lse)
  /\ UNCHANGED <<evts, day>>

(* ---- option notices ---- *)

\* eventToRecordOn: the open option, else the one that lapsed for this expiry.
ToRecordOn ==
  IF OpenOf(evts, "option") # {} THEN OpenOf(evts, "option")
  ELSE {e \in ForExpiry(evts, "option", lse.expiry) : evts[e].state = "lapsed"}
NoticeRow(u, notice) ==
  [type |-> "option", state |-> IF InWindow(lse.expiry, notice) THEN "awaiting_approval" ELSE "notice_received",
   expiry |-> lse.expiry, notice |-> notice, recorder |-> u, approver |-> NoOne]
RecordOptionNotice(u, notice) ==
  /\ ~lse.closed /\ lse.remaining >= 1
  /\ \E e \in IF ToRecordOn # {} THEN ToRecordOn ELSE {f \in EventIds : evts[f] = NoEvent} :
       /\ evts[e].state \in {"none", "window_not_open", "window_open", "lapsed"}
       /\ SetEvent(e, NoticeRow(u, notice))
  /\ UNCHANGED <<lse, gen, day>>

RejectOptionNotice(u, e) ==
  /\ evts[e].state \in {"notice_received", "awaiting_approval"} /\ u \in Directors
  /\ SetEvent(e, EventOver(evts[e], "rejected"))
  /\ UNCHANGED <<lse, gen, day>>

\* applyOptionExercise refuses what is dated for another expiry, and a schedule
\* that already has rows in the option's term.
AnyExpiry(e) == TRUE
SameExpiry(e) == evts[e].expiry = lse.expiry
CanExercise(e) ==
  /\ ~lse.closed /\ SameExpiry(e) /\ lse.remaining >= 1
  /\ \A d \in lse.steps : d < OptionStart(lse.expiry)
Exercised(market) ==
  LET new == NewExpiry(lse.expiry) IN
  [lse EXCEPT !.expiry = new, !.remaining = @ - 1, !.steps = @ \cup {OptionStart(lse.expiry)},
              !.review = @ \/ market,
              !.status = IF @ = "holdover" /\ new >= day THEN "current" ELSE @]
ApproveOptionExercise(u, e, market) ==
  /\ evts[e].state \in {"notice_received", "awaiting_approval"} /\ u \in Approvers
  /\ u = evts[e].recorder => u \in Directors
  /\ evts[e].state = "notice_received" \/ ~lse.signed => u \in Directors
  /\ CanExercise(e)
  /\ lse' = Exercised(market)
  /\ evts' = [f \in EventIds |-> IF f = e THEN [EventOver(evts[e], "exercised") EXCEPT !.approver = u]
                ELSE IF evts[f].state = "referred" THEN EventOver(evts[f], "cancelled") ELSE evts[f]]
  /\ UNCHANGED <<gen, day>>

(* ---- renewals ---- *)

\* recordRenewalOutcome: on a referred renewal, or on one it opens itself.
Decidable(e) ==
  \/ evts[e].state = "referred" /\ evts[e].expiry = lse.expiry
  \/ /\ evts[e] = NoEvent /\ OpenOf(evts, "option") = {}
     /\ OpenOf(evts, "renewal") = {} /\ ForExpiry(evts, "renewal", lse.expiry) = {}
LeaseRenewed(start, options) ==
  LET new == start + TermDays - 1 IN
  [lse EXCEPT !.expiry = new, !.steps = @ \cup {start},
              !.remaining = IF options = NoOne THEN @ ELSE options,
              !.status = IF @ = "holdover" /\ new >= day THEN "current" ELSE @]
DecideRenewal(u, e, outcome) ==
  /\ u \in Directors /\ ~lse.closed /\ Decidable(e)
  /\ \/ /\ outcome = "renewed"
        /\ \E d \in lse.steps : d <= day
        /\ \A d \in lse.steps : d < OptionStart(lse.expiry)
        /\ \E options \in {Options, NoOne} : lse' = LeaseRenewed(OptionStart(lse.expiry), options)
     \/ outcome = "vacating" /\ lse' = [lse EXCEPT !.draft = TRUE]
     \/ outcome = "holdover" /\ lse' = [lse EXCEPT !.status = IF lse.expiry < day THEN "holdover" ELSE @]
  /\ SetEvent(e, [evts[e] EXCEPT !.type = "renewal", !.state = outcome, !.expiry = lse.expiry])
  /\ UNCHANGED <<gen, day>>

(* ---- the register ---- *)

HoldoverReset ==
  /\ lse.status = "holdover" /\ lse.expiry >= day
  /\ lse' = [lse EXCEPT !.status = "current"]
  /\ UNCHANGED <<evts, gen, day>>
CorrectOptionsRemaining(u, wanted) ==
  /\ u \in Directors /\ ~lse.closed /\ wanted # lse.remaining /\ wanted <= Options
  /\ LeaseEdit([lse EXCEPT !.remaining = wanted])
  /\ UNCHANGED <<evts, gen, day>>
DatedFor(e) == evts[e].state \in OpenLease /\ evts[e].expiry = lse.expiry
\* The register's edit of the expiry; closeEventsForEditedExpiry ends what is open for the old one.
EditExpiry(expiry) ==
  /\ expiry # lse.expiry /\ ~lse.closed
  /\ LeaseEdit([lse EXCEPT !.expiry = expiry])
  /\ evts' = [e \in EventIds |-> IF DatedFor(e) THEN EventOver(evts[e], "cancelled") ELSE evts[e]]
  /\ UNCHANGED <<gen, day>>
\* Sign-off, schedule edits, vacating or archiving: other modules' handlers.
RegisterMoves ==
  /\ \/ LeaseEdit([lse EXCEPT !.signed = ~@])
     \/ LeaseEdit([lse EXCEPT !.steps = @ \cup {OptionStart(lse.expiry)}, !.signed = FALSE])
     \/ LeaseEdit([lse EXCEPT !.closed = ~@])
  /\ UNCHANGED <<evts, gen, day>>
NextDay == day < LastDay /\ day' = day + 1 /\ UNCHANGED <<lse, evts, gen>>

GenStep ==
  \/ GenReadsTenancy \/ GenReadsEvents \/ GenEnds
  \/ (\E a \in gen.todo : GenWrites(a))
LeaseNext ==
  \/ GenStep \/ GenDies
  \/ \E u \in Staff :
       \/ \E notice \in 0..day : RecordOptionNotice(u, notice)
       \/ \E wanted \in 0..Options : CorrectOptionsRemaining(u, wanted)
       \/ \E e \in EventIds :
            \/ RejectOptionNotice(u, e)
            \/ \E market \in BOOLEAN : ApproveOptionExercise(u, e, market)
            \/ \E outcome \in {"renewed", "vacating", "holdover"} : DecideRenewal(u, e, outcome)
  \/ HoldoverReset \/ (\E x \in Expiries : EditExpiry(x))
  \/ RegisterMoves \/ NextDay

LeaseSpec == LeaseInit /\ [][LeaseNext]_leaseVars /\ WF_leaseVars(GenStep)

(* An option was exercised on a notice that lay in the window of the very
   expiry it extended and was approved by somebody who had not recorded it, or
   a director stands behind it - through lapses, late notices, edits of the
   expiry and renewals decided meanwhile (applyOptionExercise,
   approveOptionExercise, closeEventsForEditedExpiry).  The step that extends
   the lease is looked at, since the event keeps only the expiry it was
   recorded for. *)
ExercisedInTime ==
  [][\A e \in EventIds : evts[e].state # "exercised" /\ evts'[e].state = "exercised" =>
       LET u == evts'[e].approver IN
       \/ u \in Directors
       \/ InWindow(lse.expiry, evts[e].notice) /\ u # evts[e].recorder /\ u \in Approvers]_leaseVars

(* A lease that comes within RenewalDays of its expiry is taken up: a renewal
   for that expiry, an option still to be settled, or an option exercised - unless the expiry moves or
   the tenancy closes, or the model is out of rows; an open event for an older
   expiry is for a person to clear (renewalPlan, optionStillLive). *)
Nearing(x) == lse.expiry = x /\ ~lse.closed /\ x - day <= RenewalDays
TakenUp(x) ==
  \/ ~Nearing(x) \/ OpenOf(evts, "option") # {}
  \/ \E e \in OfType(evts, "renewal") : evts[e].expiry = x \/ evts[e].state = "referred"
  \/ \E e \in ForExpiry(evts, "option", x) : evts[e].state = "exercised"
  \/ lse.remaining > 0 /\ day <= Deadline(x)
  \/ \A e \in EventIds : evts[e] # NoEvent
ExpiryIsTakenUp ==
  \A x \in {e + n * TermDays : e \in Expiries \cup {FirstExpiry}, n \in 0..Options} : Nearing(x) ~> TakenUp(x)
=============================================================================
