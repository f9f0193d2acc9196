------------------------------ MODULE Planner ------------------------------
(***************************************************************************)
(* Tasks in Microsoft Planner that follow conditions of jobs, leases and   *)
(* keys: src/jobPlannerSync.ts, keyPlannerSync.ts, planner.ts and the      *)
(* nightly functions/plannerSyncTimer.ts, over dbo.PlannerTasks.           *)
(*                                                                         *)
(* A condition key stands for one entity and trigger (and lead time).      *)
(* The handlers change the condition and then, after their commit and      *)
(* without waiting, run a sync of it; the timer visits every key at night. *)
(* No lock is held from reading the condition to writing the row, and the  *)
(* row is written by its id alone.  PLANNER_SYNC_ENABLED is on; titles,    *)
(* descriptions and assignees of tasks are left out.                       *)
(***************************************************************************)
EXTENDS Naturals, FiniteSets

CONSTANTS
  JobConds,    \* the five triggers the reconcilers follow, in handlers and at night
  DueConds,    \* job_update_due: made at night, ended by handlers and by its date
  LeaseConds,  \* lease_expiry, option_notice, rent_review in their windows
  KeyConds,    \* lost_key_reported: only its handlers run a sync
  Tasks, NoTask,
  Syncs,       \* fire-and-forget syncs that can be under way
  MaxSyncs,    \* syncs and resolves the handlers start, and errors of Graph: bounds the run
  Holdback     \* PLANNER_UNSIGNED_HOLDBACK_ENABLED

Conds == JobConds \cup DueConds \cup LeaseConds \cup KeyConds
Night == "timer"

ASSUME PlannerConstants ==
  /\ NoTask \notin Tasks /\ Night \notin Syncs
  /\ MaxSyncs \in Nat /\ Holdback \in BOOLEAN

VARIABLES
  cond,     \* [Conds -> does the condition hold; "unsigned": it would, for a lease not signed off]
  ptasks,   \* [Conds -> row of dbo.PlannerTasks]
  planner,  \* [Tasks -> the task in Planner]
  syncing,  \* [Syncs \cup {Night} -> where a reconcile is and what it has read]
  night,    \* the timer's section and what it still has to visit
  started   \* syncs started and errors so far

plannerVars == <<cond, ptasks, planner, syncing, night, started>>

NoRow == [status |-> "none", task |-> NoTask, over |-> FALSE]
NotSyncing == [pc |-> "idle", cond |-> "none", want |-> FALSE, row |-> NoRow, strict |-> FALSE]
NightIdle == [pc |-> "idle", todo |-> {}, rows |-> [c \in {} |-> NoRow], hold |-> {}, ended |-> {}]

PlannerInit ==
  /\ cond = [c \in Conds |-> "no"]
  /\ ptasks = [c \in Conds |-> NoRow]
  /\ planner = [t \in Tasks |-> "none"]
  /\ syncing = [p \in Syncs \cup {Night} |-> NotSyncing]
  /\ night = NightIdle /\ started = 0

Named == {ptasks[c].task : c \in Conds} \cup {syncing[p].row.task : p \in Syncs \cup {Night}}
         \cup {night.rows[c].task : c \in DOMAIN night.rows}
FreeTasks == {t \in Tasks \ Named : planner[t] # "open"}  \* ids are used again: bounds the run
Exists(t) == t \in Tasks /\ planner[t] # "none"
At(p, pc) == syncing[p].pc = pc
Go(p, rec) == syncing' = [syncing EXCEPT ![p] = rec]
Spend == started < MaxSyncs /\ started' = started + 1

(* A handler changes the condition, then starts a reconcile of it                *)
(* (syncJobActionTriggersStandalone, syncKeyLostReportedStandalone), ends what is *)
(* active (resolveActivePlannerTasks), or does neither.                          *)
ConditionChanges(c) ==
  /\ Spend
  /\ \E v \in {"yes", "no"} \cup (IF c \in LeaseConds THEN {"unsigned"} ELSE {}) :
       v # cond[c] /\ cond' = [cond EXCEPT ![c] = v]
  /\ UNCHANGED <<ptasks, planner, syncing, night>>

SyncStarts(p, c) ==
  /\ Spend /\ At(p, "idle") /\ c \in JobConds \cup KeyConds
  /\ Go(p, [NotSyncing EXCEPT !.pc = "read", !.cond = c])
  /\ UNCHANGED <<cond, ptasks, planner, night>>

\* resolveActivePlannerTasks: a task that cannot be completed keeps its row active.
ResolveStarts(p, c) ==
  /\ Spend /\ At(p, "idle") /\ ptasks[c].status = "active"
  /\ c \notin KeyConds
  /\ Go(p, [NotSyncing EXCEPT !.pc = "act", !.cond = c, !.row = ptasks[c], !.strict = TRUE])
  /\ UNCHANGED <<cond, ptasks, planner, night>>

\* syncJobOnchargePending, ...AwaitingAccounts, ...FacilitiesApproval, ...Stalled and
\* ...DirectorApproval read the job's facts; syncKeyLostReported those of the key.
WantsTask(c) == cond[c] = "yes"
ReadsJob(p) ==
  /\ At(p, "read") /\ syncing[p].cond \in JobConds
  /\ Go(p, [syncing[p] EXCEPT !.pc = "row", !.want = WantsTask(syncing[p].cond)])
  /\ UNCHANGED <<cond, ptasks, planner, night, started>>

ReadsKey(p) ==
  /\ At(p, "read") /\ syncing[p].cond \in KeyConds
  /\ Go(p, [syncing[p] EXCEPT !.pc = "row", !.want = WantsTask(syncing[p].cond)])
  /\ UNCHANGED <<cond, ptasks, planner, night, started>>

ReadsRow(p) ==
  /\ At(p, "row")
  /\ Go(p, [syncing[p] EXCEPT !.pc = "act", !.row = ptasks[syncing[p].cond]])
  /\ UNCHANGED <<cond, ptasks, planner, night, started>>

(* reconcileTask with a task wanted: one that is there stays, and a row that is  *)
(* missing, resolved, or whose task is gone from Planner gets a new one.         *)
HasAnyTask(row) == row.status # "none" /\ Exists(row.task)
HasTask(row) == row.status = "active" /\ Exists(row.task)
KeepsTask(p) ==
  /\ At(p, "act") /\ syncing[p].want /\ HasTask(syncing[p].row)
  /\ Go(p, NotSyncing)
  /\ UNCHANGED <<cond, ptasks, planner, night, started>>

CreatesTask(p) ==
  /\ At(p, "act") /\ syncing[p].want
  /\ ~HasTask(syncing[p].row) /\ FreeTasks # {}
  /\ LET t == CHOOSE u \in FreeTasks : TRUE IN
       /\ planner' = [planner EXCEPT ![t] = "open"]
       /\ Go(p, [syncing[p] EXCEPT !.pc = "write", !.row.task = t])
  /\ UNCHANGED <<cond, ptasks, night, started>>

\* An insert meets the unique key when another reconcile was first; its task stays
\* in Planner with no row.  The timer's own update of an active row leaves Status.
WritesRow(p) ==
  LET c == syncing[p].cond
      was == syncing[p].row.status
      own == p = Night /\ c \notin JobConds /\ was = "active"
      row == [status |-> IF own THEN ptasks[c].status ELSE "active", task |-> syncing[p].row.task, over |-> FALSE]
  IN /\ At(p, "write")
     /\ ptasks' = IF was = "none" /\ ptasks[c].status # "none" THEN ptasks ELSE [ptasks EXCEPT ![c] = row]
     /\ Go(p, NotSyncing)
     /\ UNCHANGED <<cond, planner, night, started>>

\* With no task wanted: complete it, and resolve the row whether or not that worked.
Completed(t, ok) == IF ok /\ Exists(t) THEN [planner EXCEPT ![t] = "done"] ELSE planner
CompletesTask(p) ==
  /\ At(p, "act") /\ ~syncing[p].want
  /\ IF syncing[p].row.status = "active"
     THEN /\ planner' = Completed(syncing[p].row.task, TRUE)
          /\ Go(p, [syncing[p] EXCEPT !.pc = "resolve"])
     ELSE UNCHANGED planner /\ Go(p, NotSyncing)
  /\ UNCHANGED <<cond, ptasks, night, started>>

ResolvesRow(p) ==
  /\ At(p, "resolve")
  /\ ptasks' = [ptasks EXCEPT ![syncing[p].cond].status = "resolved"]
  /\ Go(p, NotSyncing)
  /\ UNCHANGED <<cond, planner, night, started>>

\* A call of Graph fails: reconcileTask still resolves what it could not complete,
\* resolveActivePlannerTasks does not, and nothing else is written but the error.
GraphFails(p) ==
  /\ Spend /\ At(p, "act")
  /\ IF ~syncing[p].want /\ syncing[p].row.status = "active" /\ ~syncing[p].strict
     THEN Go(p, [syncing[p] EXCEPT !.pc = "resolve"])
     ELSE Go(p, NotSyncing)
  /\ UNCHANGED <<cond, ptasks, planner, night>>

(* ---- plannerSyncTimer ---- *)

\* computeEventDate and isInWindow over what the section read.
InItsWindow(c) == cond[c] = "yes"
\* leaseTaskPlan: the eligible ones, and those whose tasks are taken down.
LeasePlan ==
  {c \in LeaseConds :
     \/ InItsWindow(c)
     \/ Holdback /\ cond[c] = "unsigned" /\ ptasks[c].status = "active"}
TimerStarts ==
  /\ night.pc = "idle"
  /\ night' = [NightIdle EXCEPT !.pc = "leases", !.todo = LeasePlan, !.rows = [c \in LeasePlan |-> ptasks[c]],
                                !.hold = {c \in LeasePlan : cond[c] = "unsigned"}]
  /\ UNCHANGED <<cond, ptasks, planner, syncing, started>>

\* A task is made, kept or replaced from the row as it was listed.
Visit(c, section) ==
  /\ night.pc = section /\ c \in night.todo /\ At(Night, "idle")
  /\ night' = [night EXCEPT !.todo = @ \ {c}]
  /\ Go(Night, [NotSyncing EXCEPT !.pc = "act", !.cond = c, !.want = c \notin night.hold,
                                  !.row = night.rows[c], !.strict = TRUE])
  /\ UNCHANGED <<cond, ptasks, planner, started>>
VisitsLease(c) == Visit(c, "leases")
VisitsDue(c) == Visit(c, "due")

SectionOver(pc) == night.pc = pc /\ night.todo = {} /\ At(Night, "idle")
TimerListsDue ==
  LET list == {c \in DueConds : cond[c] = "yes"} IN
  /\ SectionOver("leases")
  /\ night' = [NightIdle EXCEPT !.pc = "due", !.todo = list, !.rows = [c \in list |-> ptasks[c]]]
  /\ UNCHANGED <<cond, ptasks, planner, syncing, started>>

\* The five lists: jobs that meet the condition and jobs with an active task.
JobsListed == {c \in JobConds : cond[c] = "yes" \/ ptasks[c].status = "active"}
TimerListsJobs ==
  /\ SectionOver("due")
  /\ night' = [NightIdle EXCEPT !.pc = "jobs", !.todo = JobsListed]
  /\ UNCHANGED <<cond, ptasks, planner, syncing, started>>

VisitsJob(c) ==
  /\ night.pc = "jobs" /\ c \in night.todo /\ At(Night, "idle")
  /\ night' = [night EXCEPT !.todo = @ \ {c}]
  /\ Go(Night, [NotSyncing EXCEPT !.pc = "read", !.cond = c])
  /\ UNCHANGED <<cond, ptasks, planner, started>>

TimerListsOverdue ==
  LET list == {c \in Conds : ptasks[c].status = "active" /\ ptasks[c].over} IN
  /\ SectionOver("jobs")
  /\ night' = [NightIdle EXCEPT !.pc = "overdue", !.todo = list, !.rows = [c \in list |-> ptasks[c]]]
  /\ UNCHANGED <<cond, ptasks, planner, syncing, started>>

EndsOverdue(c) ==
  /\ night.pc = "overdue" /\ c \in night.todo
  /\ \/ /\ planner' = Completed(night.rows[c].task, TRUE)
        /\ night' = [night EXCEPT !.todo = @ \ {c}, !.ended = @ \cup {c}]
        /\ UNCHANGED started
     \/ Spend /\ night' = [night EXCEPT !.todo = @ \ {c}] /\ UNCHANGED planner
  /\ UNCHANGED <<cond, ptasks, syncing>>

TimerEnds ==
  /\ night.pc = "overdue" /\ night.todo = {}
  /\ ptasks' = [c \in Conds |-> IF c \in night.ended THEN [ptasks[c] EXCEPT !.status = "resolved"] ELSE ptasks[c]]
  /\ night' = NightIdle
  /\ UNCHANGED <<cond, planner, syncing, started>>

\* The due date of an active task passes; a lease's is the date its window ends with.
DuePasses(c) ==
  /\ ptasks[c].status = "active" /\ ~ptasks[c].over
  /\ c \in LeaseConds => cond[c] = "no"
  /\ ptasks' = [ptasks EXCEPT ![c].over = TRUE]
  /\ UNCHANGED <<cond, planner, syncing, night, started>>

\* Someone ticks a task off in Planner, or deletes it.
PersonEnds(t) ==
  /\ Spend /\ planner[t] = "open"
  /\ \E v \in {"done", "none"} : planner' = [planner EXCEPT ![t] = v]
  /\ UNCHANGED <<cond, ptasks, syncing, night>>

ReconcileStep(p) ==
  ReadsJob(p) \/ ReadsKey(p) \/ ReadsRow(p) \/ KeepsTask(p) \/ CreatesTask(p) \/ WritesRow(p)
  \/ CompletesTask(p) \/ ResolvesRow(p)
NightStep ==
  \/ TimerStarts \/ TimerListsDue \/ TimerListsJobs \/ TimerListsOverdue \/ TimerEnds
  \/ \E c \in Conds : VisitsLease(c) \/ VisitsDue(c) \/ VisitsJob(c) \/ EndsOverdue(c)

PlannerNext ==
  \/ \E c \in Conds : ConditionChanges(c) \/ DuePasses(c)
  \/ \E p \in Syncs, c \in Conds : SyncStarts(p, c) \/ ResolveStarts(p, c)
  \/ \E p \in Syncs \cup {Night} : ReconcileStep(p) \/ GraphFails(p)
  \/ NightStep
  \/ \E t \in Tasks : PersonEnds(t)

PlannerFairness ==
  /\ \A p \in Syncs \cup {Night} : WF_plannerVars(ReconcileStep(p))
  /\ WF_plannerVars(NightStep)
  /\ \A c \in Conds : WF_plannerVars(DuePasses(c))

PlannerSpec == PlannerInit /\ [][PlannerNext]_plannerVars /\ PlannerFairness

(* ---- properties ---- *)

\* Whatever races, errors of Graph and tasks ticked off by hand came before: a job
\* condition that holds for good keeps getting a task that is open and on record, and
\* the row of one that is gone for good is resolved for good (plannerSyncTimer.ts).
JobTasksFollow ==
  \A c \in JobConds \cup DueConds :
    /\ <>[](cond[c] = "yes") =>
         []<>(ptasks[c].status = "active" /\ ptasks[c].task \in Tasks /\ planner[ptasks[c].task] = "open")
    /\ <>[](cond[c] = "no") => <>[](ptasks[c].status # "active")
=============================================================================
