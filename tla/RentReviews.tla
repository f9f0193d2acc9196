---------------------------- MODULE RentReviews ----------------------------
(***************************************************************************)
(* The rent reviews of one tenancy: src/rentReviewMachine.ts, the handlers *)
(* that commence, calculate, submit, approve, return, waive, cancel and    *)
(* revert a review, the generator that schedules the next one, the CPI     *)
(* timer, the rent cache, and the manual edits of the rent schedule that   *)
(* move under them.                                                        *)
(*                                                                         *)
(* Dates are the lease's anniversaries 1..MaxDate; the commencement row is *)
(* date 0.  A rent is the sum of the changes settled so far (Rates stands  *)
(* for the percentages).  Each handler is one transaction that locks the   *)
(* review and then the tenancy, so it is one action; the generator and the *)
(* follow-up of a decision read the tenancy, then the open reviews, then   *)
(* write, with anything in between.                                        *)
(***************************************************************************)
EXTENDS Integers, FiniteSets, FiniteSetsExt

CONSTANTS
  Reviews,      \* rows of dbo.RentReviews that can be made: bounds the run
  NoReview,
  Users,        \* the people who use the register
  NoUser,
  Rank,         \* approverRank: 1 accounts manager, 2 CFO, 3 director, 0 none
  Admins,       \* users who manage reviews without approving them
  MaxDate,      \* the last anniversary looked at
  LeaseRatchet, \* Tenants.ReviewRatchet
  Rates,        \* the changes a review can come to; OutOfBand: beyond the sanity band
  OutOfBand,
  Methods,      \* the review methods the lease can name
  Bases,        \* the review's own terms: [ratchet, departs (from the lease)]
  Planners,     \* workers that can be planning at once
  MaxEdits      \* edits of the schedule, the tenancy and a basis, decisions taken
                \* back and workers lost: bounds the run

ASSUME RentReviewConstants ==
  /\ NoReview \notin Reviews /\ NoUser \notin Users /\ Admins \subseteq Users
  /\ Rank \in [Users -> 0..3] /\ MaxDate \in Nat \ {0} /\ LeaseRatchet \in BOOLEAN
  /\ Rates \subseteq Int /\ OutOfBand \subseteq Rates
  /\ Methods \subseteq {"cpi", "fixed", "market", "other"} /\ MaxEdits \in Nat
  /\ Bases \subseteq [ratchet : BOOLEAN, departs : BOOLEAN]

VARIABLES
  lease,        \* the review method the lease names
  reviews,      \* [Reviews -> ReviewRow]
  steps,        \* Tenants.ScheduledRateSteps, by date
  tenancy,      \* the review fields of the dbo.Tenants row
  today,
  published,    \* dbo.CpiIndex has both quarters of every date up to this one
  plans         \* what the generator, and a decision's follow-up, have read

rentVars == <<lease, reviews, steps, tenancy, today, published, plans>>

Dates == 1..MaxDate
OpenStates == {"scheduled", "due", "in_progress", "awaiting_index", "referred", "awaiting_approval"}
DecidedStates == {"approved", "completed", "waived"}

Manages(u) == u \in Admins \/ Rank[u] > 0
Director(u) == Rank[u] = 3
\* Who owns a review matters only when they do not manage reviews, and who had a
\* part in one only when they are not a director: no more is kept.
Owner(u) == IF Manages(u) THEN NoUser ELSE u
Part(u) == IF Director(u) THEN NoUser ELSE u

NoStep == [set |-> "none", by |-> NoReview, rate |-> 0, end |-> 0]
Exists(sched, d) == d = 0 \/ sched[d].set # "none"
Settled(sched, d) == sched[d].set \in {"applied", "waived"}
RentAt(sched, d) == MapThenSumSet(LAMBDA e : sched[e].rate,
                                  {e \in Dates : e <= d /\ sched[e].set = "applied"})

NoCalc == [base |-> 0, rate |-> 0, chosen |-> 0, fresh |-> FALSE, keyed |-> NoUser, waives |-> {}]
NewRent(c) == c.base + c.chosen

\* What the ledger's rent_review.apply row and the change log keep of an application.
NoRecord == [was |-> <<>>, now |-> <<>>, last |-> 0, lastAfter |-> 0, cache |-> "none", cacheWas |-> 0]

LeaseBasis == [ratchet |-> LeaseRatchet, departs |-> FALSE]
NoRow == [state |-> "none", date |-> 0, owner |-> NoUser, basis |-> LeaseBasis, calc |-> NoCalc, prepared |-> NoUser, editors |-> {}, rung |-> 0,
          approver |-> NoUser, record |-> NoRecord]
Idle == [pc |-> "idle", date |-> 0, review |-> NoReview]

RentInit ==
  /\ lease \in Methods
  /\ reviews = [r \in Reviews |-> NoRow]
  /\ steps = [d \in 0..MaxDate |-> NoStep]
  /\ tenancy = [status |-> "current", archived |-> FALSE, signed |-> FALSE, last |-> 0, cache |-> 0, edits |-> 0]
  /\ today = 0 /\ published = 0
  /\ plans = [p \in Planners |-> Idle]

OpenReviews == {r \in Reviews : reviews[r].state \in OpenStates}
Closed == tenancy.archived \/ tenancy.status = "vacated"
Resolved == {reviews[r].date : r \in {s \in Reviews : reviews[s].state \in DecidedStates}}

(* nextReviewDate.ts, with REVIEW_WORKFLOW_LIVE_FROM before the first date: the
   first unsettled row after the last review, else the anniversary after all
   that is settled; 0 when it lies past MaxDate. *)
DeriveNext(sched, last, resolved) ==
  LET open == {d \in Dates : d > last /\ sched[d].set = "open" /\ d \notin resolved}
      done == {0, last} \cup resolved \cup {d \in Dates : sched[d].set # "none" /\ d \notin open}
  IN IF open # {} THEN Min(open)
     ELSE IF Max(done) < MaxDate THEN Max(done) + 1 ELSE 0

\* A write of the schedule bumps ScheduleVersion: no calculation is fresh after it.
Stale(rs) == [r \in Reviews |-> [rs[r] EXCEPT !.calc.fresh = FALSE]]
CountEdit(row) == tenancy.edits < MaxEdits /\ tenancy' = [row EXCEPT !.edits = @ + 1]
SetReview(r, row) == reviews' = [reviews EXCEPT ![r] = row]

(* ---- the generator ---- *)

\* runReviewGenerator (daily) and scheduleNextReview (due: after a decision) read
\* the tenancies first ...
PlanReads(p) ==
  /\ plans[p].pc \in {"idle", "due"}
  /\ ~Closed
  /\ plans' = [plans EXCEPT ![p] = [pc |-> "derived", review |-> NoReview,
                                    date |-> DeriveNext(steps, tenancy.last, Resolved)]]
  /\ UNCHANGED <<reviews, steps, tenancy, today, published>>

\* ... and then the open reviews, and plan: schedule one, open a window, or nothing.
WithinWindow(d) == d <= today + 1
PlanActs(p) ==
  /\ plans[p].pc = "derived"
  /\ plans' = [plans EXCEPT ![p] =
       IF plans[p].date = 0 THEN Idle
       ELSE IF OpenReviews = {} THEN [@ EXCEPT !.pc = "schedule"]
       ELSE LET r == CHOOSE s \in OpenReviews : TRUE
            IN IF reviews[r].state = "scheduled" /\ WithinWindow(reviews[r].date)
               THEN [pc |-> "window", date |-> reviews[r].date, review |-> r] ELSE Idle]
  /\ UNCHANGED <<reviews, steps, tenancy, today, published>>

\* The insert: UX_RentReviews_OpenPerTenant refuses a second open review (raced).
ScheduleNext(p) ==
  /\ plans[p].pc = "schedule"
  /\ \/ /\ OpenReviews # {}
        /\ plans' = [plans EXCEPT ![p] = Idle]
        /\ UNCHANGED reviews
     \/ \E r \in Reviews :
          /\ OpenReviews = {} /\ reviews[r].state = "none"
          /\ SetReview(r, [NoRow EXCEPT !.state = "scheduled", !.date = plans[p].date])
          /\ plans' = [plans EXCEPT ![p] = IF WithinWindow(plans[p].date)
                         THEN [pc |-> "window", date |-> plans[p].date, review |-> r] ELSE Idle]
  /\ UNCHANGED <<steps, tenancy, today, published>>

\* markWindowOpen: only a review that is still scheduled.
OpenWindow(p) ==
  LET r == plans[p].review IN
  /\ plans[p].pc = "window"
  /\ reviews' = [reviews EXCEPT ![r].state = IF @ = "scheduled" THEN "due" ELSE @]
  /\ plans' = [plans EXCEPT ![p] = Idle]
  /\ UNCHANGED <<steps, tenancy, today, published>>

\* A worker dies, or the database refuses: what was read is lost.
PlanIsLost(p) ==
  /\ plans[p].pc # "idle"
  /\ plans' = [plans EXCEPT ![p] = Idle]
  /\ CountEdit(tenancy)
  /\ UNCHANGED <<reviews, steps, today, published>>

\* afterReviewDecision with scheduleNext: the follow-up is its own transaction,
\* and nothing repeats it when the worker dies first.
FollowUp ==
  \/ \E p \in Planners : plans[p].pc = "idle" /\ plans' = [plans EXCEPT ![p] = [Idle EXCEPT !.pc = "due"]]
  \/ UNCHANGED plans

(* ---- commence, calculate, the index ---- *)

CommenceRentReview(u, r) ==
  /\ reviews[r].state \in {"scheduled", "due"} /\ ~Closed
  /\ OpenReviews \subseteq {r}
  /\ SetReview(r, [reviews[r] EXCEPT !.state = "in_progress", !.owner = Owner(u), !.basis = LeaseBasis,
                                     !.editors = {}])
  /\ UNCHANGED <<steps, tenancy, today, published, plans>>

OwnsOrManages(u, r) == reviews[r].owner = u \/ Manages(u)
StepSettled(r) == LET d == reviews[r].date IN Settled(steps, d) /\ steps[d].by # r
EarlierPending(r) == \E d \in Dates : d < reviews[r].date /\ steps[d].set = "open"

\* calc.scheduleVersion is still the tenancy's.
OnAnySchedule(c) == TRUE
OnThisSchedule(c) == c.fresh

\* calculateReview: what it refuses, and the figure it works out.
Calculated(u, r, rate) ==
  [NoCalc EXCEPT !.rate = rate, !.chosen = rate, !.fresh = TRUE, !.base = RentAt(steps, reviews[r].date - 1),
                 !.keyed = IF lease = "other" THEN Part(u) ELSE NoUser]
CanWorkOut(r, rate) ==
  /\ ~StepSettled(r) /\ ~EarlierPending(r)
  /\ lease # "other" /\ reviews[r].basis.ratchet => rate >= 0

CalculateRentReview(u, r) ==
  /\ reviews[r].state = "in_progress" /\ OwnsOrManages(u, r) /\ ~Closed
  /\ lease # "market"
  /\ ~StepSettled(r) /\ ~EarlierPending(r)
  /\ IF lease = "cpi" /\ reviews[r].date > published
     THEN SetReview(r, [reviews[r] EXCEPT !.state = "awaiting_index", !.calc = NoCalc])
     ELSE \E rate \in Rates : CanWorkOut(r, rate) /\
            SetReview(r, [reviews[r] EXCEPT !.calc = Calculated(u, r, rate)])
  /\ UNCHANGED <<steps, tenancy, today, published, plans>>

\* tenancyCpiSyncTimer: the quarter is published, the review goes back to work,
\* and is worked out in a second transaction if nothing has moved.
IndexArrives ==
  /\ published < MaxDate /\ published <= today
  /\ published' = published + 1
  /\ UNCHANGED <<reviews, steps, tenancy, today, plans>>
ResumeAwaitingIndex(r) ==
  /\ reviews[r].state = "awaiting_index" /\ reviews[r].date <= published
  /\ SetReview(r, [reviews[r] EXCEPT !.state = "in_progress"])
  /\ UNCHANGED <<steps, tenancy, today, published, plans>>
CalculateResumed(r) ==
  /\ reviews[r].state = "in_progress" /\ lease = "cpi" /\ reviews[r].date <= published
  /\ reviews[r].calc = NoCalc /\ ~Closed
  /\ \E rate \in Rates : CanWorkOut(r, rate) /\
       SetReview(r, [reviews[r] EXCEPT !.calc = Calculated(NoUser, r, rate)])
  /\ UNCHANGED <<steps, tenancy, today, published, plans>>

\* updateRentReviewBasis: the stored calculation goes with the old basis.
BasisChanges(r, basis) == basis # reviews[r].basis
UpdateRentReviewBasis(u, r, basis) ==
  /\ reviews[r].state \in {"in_progress", "awaiting_index"}
  /\ ~tenancy.archived /\ OwnsOrManages(u, r)
  /\ BasisChanges(r, basis)
  /\ SetReview(r, [reviews[r] EXCEPT !.basis = basis, !.calc = NoCalc,
                                     !.editors = @ \cup {Part(u)}])
  /\ CountEdit(tenancy)
  /\ UNCHANGED <<steps, today, published, plans>>

(* ---- placing a row, and applying a review ---- *)

\* closeOpenPredecessor and upsertStep: a new row ends where the next begins,
\* and an open row before it ends where it begins.
PlaceStep(sched, d, row) ==
  IF Exists(sched, d) THEN [sched EXCEPT ![d] = [row EXCEPT !.end = sched[d].end]]
  ELSE LET later == {e \in Dates : e > d /\ Exists(sched, e)}
           before == Max({e \in 0..MaxDate : e < d /\ Exists(sched, e)})
           ended == IF later = {} THEN 0 ELSE Min(later)
       IN [sched EXCEPT ![d] = [row EXCEPT !.end = ended],
                        ![before].end = IF @ = 0 THEN d ELSE @]
ReviewStep(r, set, rate) ==
  PlaceStep(steps, reviews[r].date, [set |-> set, by |-> r, rate |-> rate, end |-> 0])
ChangedOnly(before, after) == {d \in 0..MaxDate : Exists(before, d) /\ before[d] # after[d]}
Changed(before, after) == {d \in 0..MaxDate : before[d] # after[d]}
Rows(sched, dates) == [d \in dates |-> sched[d]]

\* applyReview: calculation c of review r becomes a row of the schedule; who took
\* part is not read again.  now holds the checks the approving director overrides.
CanApply(r, c, now) ==
  /\ ~Closed /\ OnThisSchedule(c) /\ ~StepSettled(r)
  /\ tenancy.signed \/ "not_signed_off" \in c.waives \cup now
  /\ c.chosen < 0 /\ LeaseRatchet => "ratchet" \in c.waives \cup now
ApplyReview(u, r, c) ==
  LET after == ReviewStep(r, "applied", c.chosen)
      d == reviews[r].date
      moves == d >= tenancy.last
      arrived == d <= today
  IN /\ steps' = after
     /\ tenancy' = [tenancy EXCEPT !.last = IF moves THEN d ELSE @,
                                   !.cache = IF arrived THEN NewRent(c) ELSE @]
     /\ reviews' = Stale([reviews EXCEPT ![r] =
          [@ EXCEPT !.state = "approved", !.calc = [NoCalc EXCEPT !.base = c.base, !.chosen = c.chosen],
                    !.prepared = NoUser, !.rung = 0, !.approver = u,
                    !.record = [was |-> Rows(steps, Changed(steps, after)),
                                now |-> Rows(after, Changed(steps, after)),
                                last |-> tenancy.last, lastAfter |-> IF moves THEN d ELSE tenancy.last,
                                cache |-> IF arrived THEN "written" ELSE "deferred",
                                cacheWas |-> tenancy.cache]]])
     /\ FollowUp
     /\ UNCHANGED <<today, published>>

(* ---- submit, approve, return ---- *)

\* The reasons a submission needs an approval, and the checks it must pass.
Reasons(r, c, checks) ==
  (IF c.chosen # c.rate THEN {"override"} ELSE {})
  \cup (IF c.chosen \in OutOfBand /\ "out_of_band" \notin checks THEN {"out_of_band"} ELSE {})
  \cup (IF lease = "other" THEN {"manual_method"} ELSE {})
  \cup (IF reviews[r].basis.departs /\ lease # "other" THEN {"basis_departs_from_lease"} ELSE {})
  \cup (IF c.chosen < 0 THEN {"reduction"} ELSE {})
  \cup (IF c.chosen < 0 /\ LeaseRatchet /\ "ratchet" \notin checks THEN {"ratchet"} ELSE {})

\* The figure submitted: the calculated one, or one the submitter gives.
Submitted(r, rate, checks) ==
  LET c == reviews[r].calc IN
  [c EXCEPT !.chosen = rate,
            !.waives = {x \in checks \cap {"not_signed_off", "ratchet"} :
                          CASE x = "not_signed_off" -> ~tenancy.signed
                            [] OTHER -> rate < 0 /\ (LeaseRatchet \/ reviews[r].basis.ratchet)}]
MaySubmit(u, r, rate, checks) ==
  LET c == reviews[r].calc IN
  /\ reviews[r].state = "in_progress" /\ OwnsOrManages(u, r) /\ c # NoCalc
  /\ checks # {} => Director(u)
  /\ ~Closed /\ OnThisSchedule(c) /\ ~StepSettled(r)
  /\ tenancy.signed \/ "not_signed_off" \in checks
  /\ rate < 0 /\ reviews[r].basis.ratchet /\ ~LeaseRatchet =>
       "ratchet" \in checks \/ (rate # c.rate /\ Director(u))

SubmitRentReview(u, r, rate, checks) ==
  LET c == Submitted(r, rate, checks) IN
  /\ MaySubmit(u, r, rate, checks)
  /\ IF Reasons(r, c, checks) = {}
     THEN ApplyReview(u, r, c)
     ELSE /\ SetReview(r, [reviews[r] EXCEPT !.state = "awaiting_approval", !.calc = c,
                                             !.prepared = Part(u), !.rung = 1])
          /\ UNCHANGED <<steps, tenancy, today, published, plans>>

\* The escalation sweep moves the waiting approval up its ladder; rung 1 stands
\* for no escalation too, and what was reached is forgotten when it is returned.
ApprovalRungRises(r) ==
  /\ reviews[r].state = "awaiting_approval" /\ reviews[r].rung < 3
  /\ SetReview(r, [reviews[r] EXCEPT !.rung = @ + 1])
  /\ UNCHANGED <<steps, tenancy, today, published, plans>>

\* dutiesOf and requiredApprovalRoleOf.
HadAPart(u, r) == u \in {reviews[r].prepared, reviews[r].calc.keyed} \cup reviews[r].editors
RequiredRank(r) ==
  IF reviews[r].calc.chosen < 0 THEN 3 ELSE reviews[r].rung
ApproveRentReview(u, r, now) ==
  /\ reviews[r].state = "awaiting_approval" /\ Rank[u] > 0
  /\ now # {} => Director(u)
  /\ HadAPart(u, r) => Director(u)
  /\ Rank[u] >= RequiredRank(r)
  /\ CanApply(r, reviews[r].calc, now)
  /\ ApplyReview(u, r, reviews[r].calc)

ReturnRentReview(u, r) ==
  /\ reviews[r].state = "awaiting_approval" /\ Rank[u] > 0 /\ ~Closed
  /\ SetReview(r, [reviews[r] EXCEPT !.state = "in_progress", !.prepared = NoUser, !.rung = 0,
                                     !.calc.chosen = reviews[r].calc.rate, !.calc.waives = {}])
  /\ CountEdit(tenancy)
  /\ UNCHANGED <<steps, today, published, plans>>

(* ---- waive, cancel, revert ---- *)

\* Nothing reads more than this of a review that has been waived or cancelled.
Over(state, row) == [NoRow EXCEPT !.state = state, !.date = row.date]

WaiveRentReview(u, r) ==
  /\ reviews[r].state \in OpenStates /\ Rank[u] > 0 /\ ~Closed
  /\ lease = "market" => Director(u)
  /\ ~StepSettled(r)
  /\ steps' = ReviewStep(r, "waived", 0)
  /\ reviews' = Stale([reviews EXCEPT ![r] = Over("waived", @)])
  /\ FollowUp
  /\ UNCHANGED <<tenancy, today, published>>

CancelRentReview(u, r) ==
  /\ reviews[r].state \in OpenStates /\ Manages(u) /\ ~tenancy.archived
  /\ SetReview(r, Over("cancelled", reviews[r]))
  /\ IF tenancy.status = "vacated" THEN UNCHANGED plans ELSE FollowUp
  /\ UNCHANGED <<steps, tenancy, today, published>>

\* revertReview: only while what it wrote is still there; the next review, if it
\* has not been started, is cancelled in the same transaction.
CanRevert(r) ==
  LET was == reviews[r].record IN
  /\ reviews[r].state = "approved" /\ ~Closed
  /\ \A d \in DOMAIN was.now : steps[d] = was.now[d]
  /\ tenancy.last = was.lastAfter
  /\ was.cache = "written" => tenancy.cache = NewRent(reviews[r].calc)
  /\ \A s \in OpenReviews : reviews[s].state \in {"scheduled", "due"} /\ reviews[s].date > reviews[r].date
RevertRentReview(u, r) ==
  LET was == reviews[r].record IN
  /\ Rank[u] > 0 /\ CanRevert(r)
  /\ steps' = [d \in 0..MaxDate |-> IF d \in DOMAIN was.was THEN was.was[d] ELSE steps[d]]
  /\ CountEdit([tenancy EXCEPT !.last = was.last, !.cache = IF was.cache = "written" THEN was.cacheWas ELSE @])
  /\ reviews' = Stale([s \in Reviews |->
       IF s = r THEN [reviews[s] EXCEPT !.state = "in_progress", !.calc = NoCalc,
                                        !.approver = NoUser, !.record = NoRecord]
       ELSE IF s \in OpenReviews THEN Over("cancelled", reviews[s]) ELSE reviews[s]])
  /\ UNCHANGED <<today, published, plans>>

\* writeDueRentCaches: the date of an approved review has come.
WriteDueRentCache(r) ==
  LET rent == RentAt(steps, today)
      inForce == Max({0} \cup {d \in Dates : d <= today /\ steps[d].set # "none"})
  IN /\ reviews[r].state = "approved" /\ reviews[r].record.cache = "deferred"
     /\ reviews[r].date <= today /\ ~Closed
     /\ inForce > 0 /\ steps[inForce].set = "applied" /\ steps[inForce].by = r
     /\ ~\E d \in Dates : d <= today /\ steps[d].set = "open"
     /\ rent = NewRent(reviews[r].calc)
     /\ tenancy' = [tenancy EXCEPT !.cache = rent]
     /\ reviews' = [reviews EXCEPT ![r].record = [@ EXCEPT !.cache = "written", !.cacheWas = tenancy.cache]]
     /\ UNCHANGED <<steps, today, published, plans>>

(* ---- the schedule by hand, and the tenancy ---- *)

\* runScheduleWrite: any edit bumps the version and clears the sign-off.
ScheduleWrite(sched) ==
  /\ steps' = sched
  /\ reviews' = Stale(reviews)
  /\ CountEdit([tenancy EXCEPT !.signed = FALSE])
  /\ UNCHANGED <<today, published, plans>>
UpsertScheduledRateStep(d, rate) ==
  /\ steps[d].set = "none" \/ steps[d].rate # rate
  /\ ScheduleWrite(IF Exists(steps, d) THEN [steps EXCEPT ![d].rate = rate]
                   ELSE PlaceStep(steps, d, [NoStep EXCEPT !.set = "open", !.rate = rate]))
DeleteScheduledRateStep(d) ==
  /\ Exists(steps, d)
  /\ ScheduleWrite([steps EXCEPT ![d] = NoStep])

SetTenancy(row) ==
  /\ CountEdit(row)
  /\ UNCHANGED <<reviews, steps, today, published, plans>>
SignOffTenancySchedule(u) ==
  /\ Rank[u] > 0 /\ ~Closed /\ ~tenancy.signed
  /\ tenancy' = [tenancy EXCEPT !.signed = TRUE]
  /\ UNCHANGED <<reviews, steps, today, published, plans>>
RevokeTenancyScheduleSignOff(u) ==
  /\ Rank[u] > 0 /\ ~tenancy.archived /\ tenancy.signed
  /\ SetTenancy([tenancy EXCEPT !.signed = FALSE])
SetTenancyArchived == SetTenancy([tenancy EXCEPT !.archived = ~@])
TenancyVacates == tenancy.status = "current" /\ SetTenancy([tenancy EXCEPT !.status = "vacated"])

DayPasses ==
  /\ today < MaxDate /\ today' = today + 1
  /\ UNCHANGED <<reviews, steps, tenancy, published, plans>>

PlannerStep == \E p \in Planners :
  PlanReads(p) \/ PlanActs(p) \/ ScheduleNext(p) \/ OpenWindow(p) \/ PlanIsLost(p)
ReviewStepOf(r) ==
  \/ \E u \in Users :
       \/ CommenceRentReview(u, r) \/ CalculateRentReview(u, r)
       \/ \E basis \in Bases : UpdateRentReviewBasis(u, r, basis)
       \/ \E rate \in Rates, checks \in SUBSET {"not_signed_off", "out_of_band", "ratchet"} :
            SubmitRentReview(u, r, rate, checks)
       \/ \E now \in SUBSET {"not_signed_off", "ratchet"} : ApproveRentReview(u, r, now)
       \/ ReturnRentReview(u, r) \/ WaiveRentReview(u, r) \/ CancelRentReview(u, r)
       \/ RevertRentReview(u, r)
  \/ ResumeAwaitingIndex(r) \/ CalculateResumed(r) \/ ApprovalRungRises(r) \/ WriteDueRentCache(r)
TenancyStep ==
  \/ \E u \in Users : SignOffTenancySchedule(u) \/ RevokeTenancyScheduleSignOff(u)
  \/ \E d \in Dates : \/ \E rate \in Rates : UpsertScheduledRateStep(d, rate)
                      \/ DeleteScheduledRateStep(d)
  \/ IndexArrives \/ SetTenancyArchived \/ TenancyVacates \/ DayPasses

RentNext ==
  /\ PlannerStep \/ (\E r \in Reviews : ReviewStepOf(r)) \/ TenancyStep
  /\ UNCHANGED lease
(* A row the schedule holds as applied, or waived, is the row of a review in that
   state and of that date, whatever was reverted, deleted, rescheduled by a
   planner that read before the decision, or edited by hand in between
   (apply.ts, revert.ts, generator.ts). *)
SettledRowHasItsReview ==
  \A d \in Dates : Settled(steps, d) =>
    LET r == steps[d].by IN
    /\ r \in Reviews /\ reviews[r].date = d
    /\ reviews[r].state = IF steps[d].set = "waived" THEN "waived" ELSE "approved"

(* The rent the schedule gives when a review is approved is the rent its
   approver was shown, whatever happened to the schedule since it was worked
   out (applyReview's check of ScheduleVersion). *)
AppliedRentIsTheOneSeen ==
  [][\A r \in Reviews : reviews[r].state # "approved" /\ reviews'[r].state = "approved" =>
       RentAt(steps', reviews[r].date) = NewRent(reviews'[r].calc)]_rentVars

(* Whichever of the two routes approved it, and whatever was overridden on the
   way, a rent that went down was a director's decision (submitRentReview's
   reasons, requiredApprovalRoleOf). *)
CutsAreADirectors ==
  \A r \in Reviews : reviews[r].state = "approved" /\ reviews[r].calc.chosen < 0 =>
    Director(reviews[r].approver)

(* What is settled was settled by right: its review stands, and a cut is a
   director's. *)
SettledByRight == SettledRowHasItsReview /\ CutsAreADirectors

RentSpec == RentInit /\ [][RentNext]_rentVars
=============================================================================
