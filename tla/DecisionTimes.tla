--------------------------- MODULE DecisionTimes ---------------------------
(***************************************************************************)
(* When a question on a job is due, reminded and moved up:                 *)
(* src/jobDecisions/tiers.ts and followUp.ts over the working-time         *)
(* arithmetic of src/escalation/businessTime.ts.                           *)
(*                                                                         *)
(* Time is local (Darwin has one offset all year) and counted in half      *)
(* hours, the grain of every constant here: a day is 48 of them, work runs *)
(* from 08:30 (the 17th) to 17:00 (the 34th).  Day 0 is a Thursday, as day *)
(* 0 of the code is.  A search for a working day that gives up after        *)
(* MAX_SKIPPED_DAYS throws: CalendarAssumption leaves such calendars out.   *)
(***************************************************************************)
EXTENDS Integers, FiniteSets

CONSTANTS
  Moments,      \* the half hours somebody asks or answers at
  HolidaySets,  \* calendars looked at: sets of days
  Weeks, Hours  \* weeks a routine request is given, hours a policy waits

DAY == 48
START == 17
END == 34
MAX_SKIPPED_DAYS == 3660
MAX_AHEAD == 366

VARIABLES
  hols,  \* ESCALATION_HOLIDAYS
  asked, \* [tier, auto, weeks, date, now]: the request last scheduled
  plan,  \* its schedule: [due, remind, escalate], NoTime where there is none
  waits  \* [from, hours, until]: a wait of the policies' business clock

dtVars == <<hols, asked, plan, waits>>
NoTime == -1

(* ---- businessTime.ts ---- *)

DayOf(t) == t \div DAY
IsWorkDay(d, H) == (d + 4) % 7 \in 1..5 /\ d \notin H
Skipped(d, step, H) ==
  CHOOSE k \in 0..MAX_SKIPPED_DAYS :
    IsWorkDay(d + step * k, H) /\ \A j \in 0..(k - 1) : ~IsWorkDay(d + step * j, H)
NextWorkDay(d, H) == d + Skipped(d, 1, H)
PrevWorkDay(d, H) == d - Skipped(d, -1, H)
DayStart(d) == d * DAY + START
DayEnd(d) == d * DAY + END
AtWork(t, H) == IsWorkDay(DayOf(t), H) /\ t % DAY >= START /\ t % DAY < END

\* nextBusinessHoursInstant
NextAtWork(t, H) ==
  IF AtWork(t, H) THEN t
  ELSE IF IsWorkDay(DayOf(t), H) /\ t % DAY < START THEN DayStart(DayOf(t))
  ELSE DayStart(NextWorkDay(DayOf(t) + 1, H))

\* addBusinessHours: the rest of the first day, then whole days, then what is left.
PastTheDay(left, room) == left < room
Fits(left, room) == left <= room
Room(at) == DayEnd(DayOf(at)) - at
NextMorning(at, H) == DayStart(NextWorkDay(DayOf(at) + 1, H))
WorkTimes(H) == {t \in Int : AtWork(t, H)}
AddHours(t, halves, H) ==
  LET spend[left \in 0..halves] ==
        [at \in WorkTimes(H) |-> IF Fits(left, Room(at)) THEN at + left
                                ELSE spend[left - Room(at)][NextMorning(at, H)]]
  IN IF halves = 0 THEN t ELSE spend[halves][NextAtWork(t, H)]

\* Holidays end, both ways, before a search gives up; the entries are dates.
ASSUME CalendarAssumption ==
  \A H \in HolidaySets : \A h \in H :
    /\ h \in Int
    /\ \E k \in 1..(MAX_SKIPPED_DAYS - 7) : IsWorkDay(h + k, H)
    /\ \E k \in 1..(MAX_SKIPPED_DAYS - 7) : IsWorkDay(h - k, H)

ASSUME TimesAssumption == Moments \subseteq Nat /\ Weeks \subseteq Nat \ {0} /\ Hours \subseteq Nat

(* ---- tiers.ts ---- *)

Timed(now, due, remind, escalate) ==
  [due |-> DayEnd(due), remind |-> {r \in remind : r > now}, escalate |-> escalate]

Urgent(now, auto, H) ==
  LET due == NextWorkDay(DayOf(now) + 1, H)
      mark == now + DAY
      remind == IF mark >= DayStart(due) /\ mark < DayEnd(due) THEN mark ELSE DayStart(due)
  IN Timed(now, due, {remind}, IF auto THEN NextAtWork(DayEnd(due) + 24, H) ELSE NoTime)

\* soon and routine: so many days on, reminded before
InDays(now, days, before, H) ==
  LET due == NextWorkDay(DayOf(now) + days, H)
  IN Timed(now, due, {DayStart(PrevWorkDay(due - before, H))}, DayEnd(due))

Fixed(now, date, H) ==
  Timed(now, date, {DayStart(PrevWorkDay(date - b, H)) : b \in {4, 2, 1}} \cup {DayStart(date)}, DayEnd(date))
FixedAllowed(now, date, H) ==
  IsWorkDay(date, H) /\ DayEnd(date) > now /\ date <= DayOf(now) + MAX_AHEAD

\* scheduleFor; a request that is refused has no schedule
ScheduleFor(a, H) ==
  CASE a.tier = "emergency" -> [due |-> NoTime, remind |-> {}, escalate |-> NoTime]
    [] a.tier = "urgent" -> Urgent(a.now, a.auto, H)
    [] a.tier = "soon" -> InDays(a.now, 7, 1, H)
    [] a.tier = "routine" -> InDays(a.now, 7 * a.weeks, 7, H)
    [] a.tier = "fixed" -> Fixed(a.now, a.date, H)

\* parseTierRequest: weeks and a date go with their tier, and only an urgent request may opt out.
Requests(now, H) ==
  {a \in [tier : {"emergency", "urgent", "soon", "routine", "fixed"}, auto : BOOLEAN,
          weeks : Weeks \cup {0}, date : {NoTime} \cup {DayOf(m) : m \in Moments}, now : {now}] :
     /\ a.tier = "routine" <=> a.weeks # 0
     /\ a.tier = "fixed" <=> a.date # NoTime
     /\ ~a.auto => a.tier \in {"urgent", "emergency"}
     /\ a.tier = "fixed" => FixedAllowed(now, a.date, H)}

\* followUpTier: the next step, or the question asked again, takes the question's own pace;
\* a fixed date that has gone makes it urgent.
UrgentAsk(now, auto) == [tier |-> "urgent", auto |-> auto, weeks |-> 0, date |-> NoTime, now |-> now]
FollowUp(a, purpose, now, H) ==
  CASE a.tier \in {"soon", "routine"} -> [a EXCEPT !.now = now]
    [] a.tier = "urgent" -> UrgentAsk(now, purpose = "next_step" \/ a.auto)
    [] a.tier = "emergency" -> UrgentAsk(now, TRUE)
    [] a.tier = "fixed" -> IF IsWorkDay(a.date, H) /\ DayEnd(a.date) > now THEN [a EXCEPT !.now = now]
                           ELSE UrgentAsk(now, TRUE)

DtInit ==
  /\ hols \in HolidaySets
  /\ \E now \in Moments :
       /\ asked \in Requests(now, hols)
       /\ waits \in {[from |-> now, hours |-> h, until |-> AddHours(now, 2 * h, hols)] : h \in Hours}
  /\ plan = ScheduleFor(asked, hols)

\* The question is answered, or deferred and asked again.
Follow(now, purpose) ==
  /\ now > asked.now
  /\ asked' = FollowUp(asked, purpose, now, hols)
  /\ plan' = ScheduleFor(asked', hols)
  /\ waits' = [waits EXCEPT !.from = now, !.until = AddHours(now, 2 * waits.hours, hols)]
  /\ UNCHANGED hols
DtNext == \E now \in Moments, purpose \in {"next_step", "reask"} : Follow(now, purpose)
DtSpec == DtInit /\ [][DtNext]_dtVars

(* ---- properties ---- *)

(* Every reminder comes after the asking and no later than the deadline, at *)
(* an hour somebody is at work; and nothing moves up before its deadline    *)
(* has passed: whatever weekends and holidays lie in between, and for a     *)
(* question asked again or a next step as for the question itself.          *)
RemindersComeInTime ==
  /\ \A r \in plan.remind : r > asked.now /\ r <= plan.due /\ AtWork(r, hols)
  /\ plan.escalate # NoTime => plan.escalate >= plan.due
  /\ plan.due # NoTime => plan.due > asked.now /\ IsWorkDay(DayOf(plan.due), hols)

(* addBusinessHours adds exactly that many working half hours: counting the *)
(* half hours at work from the start to the answer gives the hours asked.   *)
AddedHoursAreWorked ==
  waits.hours > 0 =>
    /\ Cardinality({t \in waits.from..(waits.until - 1) : AtWork(t, hols)}) = 2 * waits.hours
    /\ IsWorkDay(DayOf(waits.until), hols) /\ AtWork(waits.until - 1, hols)

(* Both halves of the working-hours arithmetic: the times of a decision and *)
(* the hours a wait adds.                                                   *)
WorkingHoursAreKept == RemindersComeInTime /\ AddedHoursAreWorked
=============================================================================
