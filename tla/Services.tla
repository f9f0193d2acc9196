------------------------------ MODULE Services ------------------------------
(***************************************************************************)
(* Recurring servicing: the schedules of a building, the run rows that     *)
(* close their due dates, the daily facilities scheduler that turns a due  *)
(* date into a job, and the defects periods that hand a service back to    *)
(* the builder.                                                            *)
(*                                                                         *)
(* A schedule waits on one date, NextDue.  Four writers move it: the       *)
(* scheduler (a date inside a blocking defects period), the completion of  *)
(* the job, a manager who records an outcome, and an edit.  Only the last  *)
(* two lock the schedule's row; the scheduler works from rows it read at   *)
(* the start of its run and the completion from a read without a lock, and *)
(* both rest on the compare-and-set of advanceNextDue and on the unique    *)
(* index (schedule, due date) of the run rows.                             *)
(*                                                                         *)
(* Days are numbers and a series is anchored on day 1 and steps by 1 or 2  *)
(* days: the calendar (weeks, months, month ends) is abstracted to "the    *)
(* dates of the series".                                                   *)
(***************************************************************************)
EXTENDS Integers, FiniteSetsExt

CONSTANTS
    Schedules,      \* rows of dbo.ServiceSchedules
    Managers,       \* people with a schedule open on their screen
    Steps,          \* interval lengths, in days
    LeadDays,       \* days before its date that a job is created
    MaxDay          \* bound on the clock

ASSUME ServicesAssumption ==
    /\ Steps \subseteq 1 .. 2 /\ Steps # {}
    /\ LeadDays \in Nat /\ MaxDay \in Nat \ {0}

VARIABLES
    serviceDay,          \* todayInDarwin()
    sched,          \* schedule -> its row
    runs,           \* schedule -> date -> what its run row says
    period,         \* the building's defects period
    screens,        \* manager -> the row as the page shows it
    batch,          \* rows the scheduler has read and not yet dealt with
    completing,     \* a completion between its read and its update
    left            \* history: dates advanceNextDue has moved a schedule off

serviceVars == <<serviceDay, sched, runs, period, screens, batch, completing, left>>

Days == 1 .. MaxDay
LastDate == MaxDay + LeadDays + 2
Dates == 1 .. LastDate

Blank == "none"
NoSchedule == [state |-> Blank, step |-> 1, next |-> 1]
NoPeriod == [state |-> Blank, to |-> 0, block |-> FALSE]
NoScreen == [sched |-> Blank, due |-> 0, fresh |-> FALSE]
NoCompletion == [sched |-> Blank, due |-> 0, step |-> 1, waits |-> FALSE]

(* A run row says of its due date "job" or "done" (job_created, its job    *)
(* open or completed), "binned" (its job archived), "skipped_defects",     *)
(* "recorded" or "skipped".                                                *)

\* A live row the scheduler looks at: neither archived nor paused.
Live(s) == sched[s].state = "live"

ServicesInit ==
    /\ serviceDay = 1
    /\ sched = [s \in Schedules |-> NoSchedule]
    /\ runs = [s \in Schedules |-> [d \in Dates |-> Blank]]
    /\ period = NoPeriod
    /\ screens = [m \in Managers |-> NoScreen]
    /\ batch = {}
    /\ completing = NoCompletion
    /\ left = {}

-----------------------------------------------------------------------------
(* The series of a schedule.                                               *)

\* seriesDate: the dates of a series anchored on day 1.
SeriesDates(step) == {d \in Dates : (d - 1) % step = 0}

\* firstDueOnOrAfter
FirstDueOnOrAfter(step, date) == Min({d \in SeriesDates(step) : d >= date})

\* nextDueAfter
NextDueAfter(step, date) == Min({d \in SeriesDates(step) : d > date})

\* isGenerationDue: the job is created LeadDays ahead, or late.
GenerationOnTheDay(due) == due - LeadDays = serviceDay
IsGenerationDue(due) == due - LeadDays <= serviceDay

\* The bound on dates: a schedule far ahead of the clock is left alone.
InRange(d) == d <= MaxDay

-----------------------------------------------------------------------------
(* Rows.                                                                   *)

\* Any UPDATE of the row gives it a new RowVersion: open pages are stale.
Stale(s) ==
    [m \in Managers |-> IF screens[m].sched = s
                          THEN [screens[m] EXCEPT !.fresh = FALSE]
                          ELSE screens[m]]

\* insertRun: the unique index admits one row for a schedule's date.
RunUnclosed(s, due) == runs[s][due] = Blank
RunWith(s, due, what) == [runs EXCEPT ![s][due] = what]

\* advanceNextDue compares NextDue with the date it is moving off.
StillDueAny(s, due) == sched[s].state # Blank
StillDue(s, due) == sched[s].next = due

AdvanceNextDue(s, due, next) ==
    IF StillDue(s, due)
      THEN /\ sched' = [sched EXCEPT ![s].next = next]
           /\ screens' = Stale(s)
           /\ left' = left \union {<<s, sched[s].next>>}
      ELSE UNCHANGED <<sched, screens, left>>

-----------------------------------------------------------------------------
(* The managers' pages.                                                    *)

\* insertSchedule through upsertServiceSchedule: planNextDue without a row.
CreateSchedule(s, step) ==
    /\ sched[s].state = Blank
    /\ sched' = [sched EXCEPT ![s] =
                   [state |-> "live", step |-> step,
                    next |-> FirstDueOnOrAfter(step, serviceDay)]]
    /\ UNCHANGED <<serviceDay, runs, period, screens, batch, completing, left>>

\* loadScheduleNaturalKeys: a live schedule that says the same is not imported again.
NoTwin(step) ==
    \A x \in Schedules : sched[x].state \in {"live", "paused"} => sched[x].step # step

(* importServiceSchedules: the rows are created under the import's lock,   *)
(* and the spreadsheet's last service becomes a recorded run on its date.  *)
ImportSchedule(s, step, last) ==
    /\ sched[s].state = Blank /\ NoTwin(step)
    /\ last <= serviceDay
    /\ sched' = [sched EXCEPT ![s] =
                   [state |-> "live", step |-> step,
                    next |-> FirstDueOnOrAfter(step, serviceDay)]]
    /\ runs' = RunWith(s, last, "recorded")
    /\ UNCHANGED <<serviceDay, period, screens, batch, completing, left>>

OpenSchedule(m, s) ==
    /\ sched[s].state # Blank
    /\ screens[m] = NoScreen
    /\ screens' = [screens EXCEPT ![m] =
                     [sched |-> s, due |-> sched[s].next, fresh |-> TRUE]]
    /\ UNCHANGED <<serviceDay, sched, runs, period, batch, completing, left>>

CloseSchedule(m) ==
    /\ screens[m] # NoScreen
    /\ screens' = [screens EXCEPT ![m] = NoScreen]
    /\ UNCHANGED <<serviceDay, sched, runs, period, batch, completing, left>>

(* planNextDue on an existing row: a new date must be one of the series;   *)
(* without one, the same series keeps NextDue, and another starts from     *)
(* NextDue or serviceDay, whichever is earlier.                                 *)
PlanNextDue(row, step, date) ==
    IF date # row.next THEN date
    ELSE IF step = row.step THEN row.next
    ELSE FirstDueOnOrAfter(step, Min({row.next, serviceDay}))

UpsertSchedule(m, step, date, state) ==
    LET s == screens[m].sched
        row == sched[s]
    IN /\ screens[m].sched \in Schedules
       /\ screens[m].fresh
       /\ row.state # "archived"
       /\ date # row.next => date \in SeriesDates(step) /\ InRange(date)
       /\ sched' = [sched EXCEPT ![s] =
                      [state |-> state, step |-> step,
                       next |-> PlanNextDue(row, step, date)]]
       /\ screens' = [Stale(s) EXCEPT ![m] = NoScreen]
       /\ UNCHANGED <<serviceDay, runs, period, batch, completing, left>>

ArchiveSchedule(s) ==
    /\ sched[s].state \in {"live", "paused"}
    /\ sched' = [sched EXCEPT ![s].state = "archived"]
    /\ screens' = Stale(s)
    /\ UNCHANGED <<serviceDay, runs, period, batch, completing, left>>

RestoreSchedule(s) ==
    /\ sched[s].state = "archived"
    /\ sched' = [sched EXCEPT ![s].state = "live"]
    /\ screens' = Stale(s)
    /\ UNCHANGED <<serviceDay, runs, period, batch, completing, left>>

\* The date a person closes is the one the page showed.
MovedOn(s, due) == sched[s].next # due

(* recordServiceOutcome, on the locked row: refused when the schedule has  *)
(* moved on or its job is open; the run row is written or noted, and the   *)
(* schedule moves to the next date of its series.                          *)
RecordServiceOutcome(m, outcome) ==
    LET s == screens[m].sched
        due == sched[s].next
    IN /\ screens[m].sched \in Schedules
       /\ sched[s].state # "archived"
       /\ ~MovedOn(s, screens[m].due)
       /\ runs[s][due] # "job"
       /\ InRange(due)
       /\ runs' = IF RunUnclosed(s, due) THEN RunWith(s, due, outcome) ELSE runs
       /\ sched' = [sched EXCEPT ![s].next = NextDueAfter(sched[s].step, due)]
       /\ left' = left \union {<<s, due>>}
       /\ screens' = [Stale(s) EXCEPT ![m] = NoScreen]
       /\ UNCHANGED <<serviceDay, period, batch, completing>>

-----------------------------------------------------------------------------
(* The job of a due date.                                                  *)

(* markServiceJobCompleted, inside addJobEvent's transaction, on the move  *)
(* to Done or to the invoice's approval: the run and its schedule are read *)
(* without a lock ...                                                      *)
ReadForCompletion(s, due) ==
    /\ completing = NoCompletion
    /\ runs[s][due] = "job"
    /\ completing' = [sched |-> s, due |-> due, step |-> sched[s].step,
                      waits |-> StillDue(s, due)]
    /\ UNCHANGED <<serviceDay, sched, runs, period, screens, batch, left>>

\* ... the run is stamped and, if the read saw it waiting, NextDue moves on.
MarkServiceJobCompleted ==
    /\ completing # NoCompletion
    /\ LET c == completing
       IN /\ runs' = RunWith(c.sched, c.due, "done")
          /\ IF c.waits
               THEN AdvanceNextDue(c.sched, c.due, NextDueAfter(c.step, c.due))
               ELSE UNCHANGED <<sched, screens, left>>
    /\ completing' = NoCompletion
    /\ UNCHANGED <<serviceDay, period, batch>>

\* A job archived unfinished leaves its run, and NextDue, where they are.
ArchiveServiceJob(s, due) ==
    /\ runs[s][due] = "job"
    /\ completing.sched # s
    /\ runs' = RunWith(s, due, "binned")
    /\ UNCHANGED <<serviceDay, sched, period, screens, batch, completing, left>>

UnarchiveServiceJob(s, due) ==
    /\ runs[s][due] = "binned"
    /\ runs' = RunWith(s, due, "job")
    /\ UNCHANGED <<serviceDay, sched, period, screens, batch, completing, left>>

-----------------------------------------------------------------------------
(* Defects periods.                                                        *)

\* upsertDefectsPeriod; practical completion lies before the first day.
SavePeriod(to, block) ==
    /\ period.state # "archived"
    /\ period' = [state |-> "live", to |-> to, block |-> block]
    /\ UNCHANGED <<serviceDay, sched, runs, screens, batch, completing, left>>

ArchivePeriod ==
    /\ period.state = "live"
    /\ period' = [period EXCEPT !.state = "archived"]
    /\ UNCHANGED <<serviceDay, sched, runs, screens, batch, completing, left>>

RestorePeriod ==
    /\ period.state = "archived"
    /\ period' = [period EXCEPT !.state = "live"]
    /\ UNCHANGED <<serviceDay, sched, runs, screens, batch, completing, left>>

\* livePeriodsForBuilding, coveringPeriods and the enforcement filter.
Covered(due) ==
    /\ period.state = "live" /\ period.block
    /\ due <= period.to

-----------------------------------------------------------------------------
(* The facilities scheduler's service jobs: runServiceJobs.                *)

\* DUE_SCHEDULES: live, within its lead, and no run for its date.
DueSchedules ==
    {s \in Schedules : /\ Live(s)
                       /\ IsGenerationDue(sched[s].next)
                       /\ RunUnclosed(s, sched[s].next)}

StartRun ==
    /\ batch = {} /\ DueSchedules # {}
    /\ batch' = {[sched |-> s, due |-> sched[s].next, step |-> sched[s].step,
                  covered |-> "unread"] : s \in DueSchedules}
    /\ UNCHANGED <<serviceDay, sched, runs, period, screens, completing, left>>

\* generateOne first reads the periods that cover the date ...
ReadCover(b) ==
    /\ b.covered = "unread"
    /\ batch' = (batch \ {b})
                \union {[b EXCEPT !.covered = IF Covered(b.due) THEN "yes"
                                                                ELSE "no"]}
    /\ UNCHANGED <<serviceDay, sched, runs, period, screens, completing, left>>

\* The job, its event, its asset link and its run, in one transaction.
CreateScheduledJob(s, due) == runs' = RunWith(s, due, "job")

(* ... and writes in one transaction: the builder owes it (a skipped run,  *)
(* NextDue on) or the job and its run.  A run already there makes the      *)
(* insert fail, and the transaction leaves nothing.                        *)
GenerateOne(b) ==
    /\ b.covered # "unread"
    /\ batch' = batch \ {b}
    /\ \/ /\ ~RunUnclosed(b.sched, b.due)
          /\ UNCHANGED <<sched, runs, screens, left>>
       \/ /\ RunUnclosed(b.sched, b.due) /\ b.covered = "yes"
          /\ runs' = RunWith(b.sched, b.due, "skipped_defects")
          /\ AdvanceNextDue(b.sched, b.due, NextDueAfter(b.step, b.due))
       \/ /\ RunUnclosed(b.sched, b.due) /\ b.covered = "no"
          /\ CreateScheduledJob(b.sched, b.due)
          /\ UNCHANGED <<sched, screens, left>>
    /\ UNCHANGED <<serviceDay, period, completing>>

ServiceDayPasses ==
    /\ serviceDay < MaxDay
    /\ serviceDay' = serviceDay + 1
    /\ UNCHANGED <<sched, runs, period, screens, batch, completing, left>>

-----------------------------------------------------------------------------
SchedulerStep ==
    \/ StartRun
    \/ \E b \in batch : ReadCover(b) \/ GenerateOne(b)

ServicesNext ==
    \/ SchedulerStep \/ MarkServiceJobCompleted \/ ArchivePeriod
    \/ RestorePeriod \/ ServiceDayPasses
    \/ \E s \in Schedules :
         \/ \E step \in Steps : CreateSchedule(s, step)
         \/ \E step \in Steps, last \in Days : ImportSchedule(s, step, last)
         \/ ArchiveSchedule(s) \/ RestoreSchedule(s)
         \/ \E d \in Dates : \/ ReadForCompletion(s, d)
                            \/ ArchiveServiceJob(s, d) \/ UnarchiveServiceJob(s, d)
    \/ \E m \in Managers :
         \/ \E s \in Schedules : OpenSchedule(m, s)
         \/ CloseSchedule(m)
         \/ \E step \in Steps, d \in Dates, st \in {"live", "paused"} :
              UpsertSchedule(m, step, d, st)
         \/ \E o \in {"recorded", "skipped"} : RecordServiceOutcome(m, o)
    \/ \E to \in Days, block \in BOOLEAN : SavePeriod(to, block)

(* The timer calls the scheduler every day and a run it starts goes to its *)
(* end; people need do nothing.                                            *)
ServicesFairness == WF_serviceVars(SchedulerStep)

ServicesSpec == ServicesInit /\ [][ServicesNext]_serviceVars
ServicesLiveSpec == ServicesSpec /\ ServicesFairness

-----------------------------------------------------------------------------
(* Every date that a completion, an outcome or the scheduler has moved a   *)
(* schedule off has its run row: no service drops out of the series        *)
(* unrecorded, whichever of the stale writers gets there last.             *)
PassedDatesAreRecorded == \A x \in left : runs[x[1]][x[2]] # Blank

(* A live schedule inside its lead gets its run, or somebody edits or      *)
(* closes it, even when the clock went past the day the job was due to be  *)
(* created.                                                                *)
DueIsTakenUp ==
    \A s \in Schedules, d \in Days :
      (Live(s) /\ sched[s].next = d /\ serviceDay >= d)
        ~> (runs[s][d] # Blank \/ ~Live(s) \/ sched[s].next # d)
=============================================================================
