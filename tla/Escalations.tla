---------------------------- MODULE Escalations ----------------------------
(***************************************************************************)
(* The escalation engine (src/src/escalation): the rows of dbo.Escalations, *)
(* the HTTP requests and the half-hourly sweep that move them, the email    *)
(* each move owes, and the flag a job carries while somebody is waited for. *)
(*                                                                         *)
(* An escalation belongs to a key, a <<subject, policy>> pair.  A process   *)
(* (one of Requests, or the Sweep) works in steps: what it reads outside a  *)
(* transaction, the transaction itself, and the email afterwards are        *)
(* separate steps, and it may die between any two of them.                  *)
(***************************************************************************)
EXTENDS Integers, FiniteSets

CONSTANTS
  Jobs,         \* subjects that are jobs: they carry the EscalatedAt flag
  Mailed,       \* the jobs that email can arrive about
  Keys,         \* the <<subject, policy>> pairs that can be escalated
  Requests,     \* HTTP requests that can be in flight together
  Top,          \* the highest level of every ladder
  Staffings,    \* what the directory can look like: sets of staffed levels
  MaxRows,      \* bound: rows ever written
  MaxAttempts,  \* MAX_NOTIFICATION_ATTEMPTS
  SweepTries,   \* SEND_ATTEMPTS of the sweep
  MaxActions,   \* ESCALATION_SWEEP_MAX_ACTIONS
  MaxFaults     \* bound: crashes and lost bookkeeping writes in a behaviour

Sweep == "sweep"
Procs == Requests \cup {Sweep}
Ids   == 1..MaxRows
Levels == 1..Top
NoRow == 0
NoKey == <<"none", "none">>

\* dbo.EscalationPolicies as seeded, one policy for each way a policy can differ.
AuthorityPolicies == {"decision_pending", "ratification"}
WithinPolicies    == {"decision_pending", "next_step"}
OwnPolicies       == {"manual"}
SweepPolicies     == {"stalled", "unassigned", "invoice_waiting"}
MovingEpoch       == {"stalled", "invoice_waiting"}
NeverMovesUp      == {"health"}
RepeatsOnly       == {"ratification"}
UrgentPolicies    == {"critical"}
SystemSubjects    == {"notification_config", "notifications", "sweep_run"}

Subject(k) == k[1]
Policy(k)  == k[2]
IsAttention(k) == Policy(k) \notin AuthorityPolicies
KeysOf(policies) == {k \in Keys : Policy(k) \in policies}

ASSUME ConstantsAssumption ==
  /\ MaxRows \in Nat /\ MaxAttempts \in Nat /\ SweepTries \in Nat \ {0}
  /\ MaxActions \in Nat /\ MaxFaults \in Nat /\ Top \in Nat \ {0}
  /\ Staffings \subseteq SUBSET Levels /\ Staffings # {}
  /\ Mailed \subseteq Jobs
  /\ NoKey \notin Keys /\ Sweep \notin Requests
  /\ KeysOf({"health"}) \subseteq SystemSubjects \X {"health"}

Statuses == {"open", "acknowledged", "resolved", "superseded", "withdrawn"}
LiveStatuses == {"open", "acknowledged"}
SweepCodes == {"sla_breach", "reminder", "follow_up"}
Codes == SweepCodes \cup
         {"live", "escalated", "action_taken", "withdrawn", "condition_cleared", "decided"}

\* A row of dbo.Escalations.  overdue, waited, remind and mail stand for the
\* comparison of a stored time with the clock: DueAt has passed, the back-off
\* since LastNotificationAttemptAt is over, a scheduled reminder has come since
\* the people were last told, an email came after followUpSince(row).
Row == [key : Keys \cup {NoKey}, status : Statuses \cup {"unused"}, level : Levels,
        flagged : BOOLEAN, parent : Ids \cup {NoRow}, claimed : BOOLEAN, code : Codes,
        notif : {"none", "pending", "sent", "failed"}, attempts : 0..MaxAttempts,
        told : BOOLEAN, overdue : BOOLEAN, waited : BOOLEAN, remind : BOOLEAN,
        mail : BOOLEAN]

NewRow(k, level, flagged, parent) ==
  [key |-> k, status |-> "open", level |-> level, flagged |-> flagged,
   parent |-> parent, claimed |-> FALSE, code |-> "live", notif |-> "pending",
   attempts |-> 0, told |-> FALSE, overdue |-> FALSE, waited |-> FALSE,
   remind |-> FALSE, mail |-> FALSE]
\* Once a row is no longer open nothing reads its clock or its notification
\* columns again (isRetryDue, dueReminder, followUpSince, onChange): they rest.
Rest(r) == [r EXCEPT !.notif = "none", !.attempts = 0, !.told = FALSE, !.overdue = FALSE,
                     !.waited = FALSE, !.remind = FALSE, !.mail = FALSE]
UnusedRow == Rest([NewRow(NoKey, 1, FALSE, NoRow) EXCEPT !.status = "unused"])

\* What one process is in the middle of, and the sweep's place in its run.
Work == [pc : {"idle", "loaded", "asked", "raising", "moving", "sending", "flagging",
               "deciding", "concluding"},
         id : Ids \cup {NoRow}, key : Keys \cup {NoKey}, level : Levels, flagged : BOOLEAN,
         code : Codes, seen : Statuses]
Idle == [pc |-> "idle", id |-> NoRow, key |-> NoKey, level |-> 1, flagged |-> FALSE,
         code |-> "live", seen |-> "open"]

\* sweep.ts runSweep: the steps of a run, in order; 0 is "not running".
NotRunning == 0
ClearStep  == 1
OverdueStep == 2
RemindStep == 3
RaiseStep  == 4
FollowStep == 5
RetryStep  == 6
HealthStep == 7
ReportStep == 8
PacedSteps == ClearStep..FollowStep
VersionedSteps == {ClearStep, OverdueStep, FollowStep, ReportStep}
Run == [step : NotRunning..ReportStep, todo : SUBSET Ids, wanted : SUBSET Keys,
        left : 0..MaxActions, errs : BOOLEAN]
NoRun == [step |-> NotRunning, todo |-> {}, wanted |-> {}, left |-> 0, errs |-> FALSE]

VARIABLES
  rows,       \* dbo.Escalations
  nextId,     \* the next EscalationId
  flag,       \* Jobs.EscalatedAt is set
  active,     \* per key: the condition holds; for a domain's own: it is undecided
  decided,    \* after-commit domains: the keys whose decision has been made
  handled,    \* per key: a row was created since the condition's epoch
  chased,     \* per key: an email came after its last escalation ended
  staffed,    \* levels of the ladder with somebody eligible
  configured, \* no notification setting is missing
  work,       \* per process
  fresh,      \* per process: rows whose RowVersion is still the one it read
  late,       \* per process: jobs an email came for since the process took its clock
  sweep,      \* the sweep's run: step, rows and keys still to do, allowance left
  faults      \* faults still to come

world == <<staffed, configured, faults>>
vars  == <<rows, nextId, flag, active, decided, handled, chased, work, fresh, late,
           sweep, staffed, configured, faults>>

-----------------------------------------------------------------------------
Live(r) == r.status \in LiveStatuses
LiveRows(k) == {i \in Ids : rows[i].key = k /\ Live(rows[i])}
AllLive == {i \in Ids : Live(rows[i])}
Lowest(S) == CHOOSE i \in S : \A j \in S : i <= j

\* ladder.ts resolveTarget: the first level from `from` upwards with somebody
\* eligible; when there is none, the top, flagged as having nobody independent.
Staffed(from) == {l \in staffed : l >= from}
TargetLevel(from) == IF Staffed(from) = {} THEN Top ELSE Lowest(Staffed(from))

\* adapters: whether the condition behind a key still holds.
Exhausted == {i \in Ids : /\ rows[i].status = "open" /\ rows[i].notif = "failed"
                          /\ rows[i].attempts >= MaxAttempts}
Condition(k) ==
  CASE Subject(k) = "notification_config" -> ~configured
    [] Subject(k) = "notifications"       -> Exhausted # {}
    [] Subject(k) = "sweep_run"           -> TRUE
    [] OTHER                              -> active[k]

\* adapters/job.ts onChange: the flag of subject s after the rows have become r.
\* A question or a next step counts only once it has been moved up.
Waiting(r, s) == {i \in Ids : /\ r[i].status = "open" /\ Subject(r[i].key) = s
                              /\ Policy(r[i].key) \in WithinPolicies => r[i].parent # NoRow}
\* Mutant: a flag that nothing takes down again.
FlagAfterSticky(r, s) ==
  [j \in Jobs |-> flag[j] \/ (j = s /\ \E i \in Waiting(r, s) : r[i].told)]
FlagAfter(r, s) ==
  [j \in Jobs |-> IF j # s THEN flag[j]
                  ELSE Waiting(r, s) # {} /\ (flag[s] \/ \E i \in Waiting(r, s) : r[i].told)]

\* Every UPDATE of a row gives it a new RowVersion: nobody's copy is current.
Touched(i) == [p \in Procs |-> fresh[p] \ {i}]

Closed(r, status, code, claim) ==
  [Rest(r) EXCEPT !.status = status, !.code = code, !.claimed = r.claimed \/ claim]
Acknowledged(r) == [Rest(r) EXCEPT !.status = "acknowledged", !.claimed = TRUE]
Superseded(r, code) == [Rest(r) EXCEPT !.status = "superseded", !.code = code]

\* Ending row i: its status, its code, the job's flag, the ledger row, one commit.
EndRow(p, i, status, code, claim) ==
  /\ rows' = [rows EXCEPT ![i] = Closed(rows[i], status, code, claim)]
  /\ flag' = FlagAfter(rows', Subject(rows[i].key))
  /\ fresh' = Touched(i)
  /\ chased' = [chased EXCEPT ![rows[i].key] = @ /\ Subject(rows[i].key) \in late[p]]

\* A request's clock is done with when its send is; the sweep keeps its own.
ClockDone(p) == IF p = Sweep THEN late ELSE [late EXCEPT ![p] = {}]

Become(p, w) == work' = [work EXCEPT ![p] = w]
Finish(p) == Become(p, Idle)
Forget(p) ==
  /\ Finish(p)
  /\ fresh' = [fresh EXCEPT ![p] = {}]
  /\ late' = [late EXCEPT ![p] = {}]

\* After a write the process owes the email; a request's send takes its clock now,
\* the sweep's was taken when its run began.
StartSend(p, i) ==
  /\ Become(p, [Idle EXCEPT !.pc = "sending", !.id = i, !.key = rows'[i].key])

Init ==
  /\ rows = [i \in Ids |-> UnusedRow]
  /\ nextId = 1
  /\ flag = [j \in Jobs |-> FALSE]
  /\ active = [k \in Keys |-> FALSE]
  /\ decided = {}
  /\ handled = [k \in Keys |-> FALSE]
  /\ chased = [k \in Keys |-> FALSE]
  /\ staffed \in Staffings
  /\ configured = TRUE
  /\ work = [p \in Procs |-> Idle]
  /\ fresh = [p \in Procs |-> {}]
  /\ late = [p \in Procs |-> {}]
  /\ sweep = NoRun
  /\ faults = MaxFaults

-----------------------------------------------------------------------------
(* raise: planRaise reads, writeRaise writes under the unique live index.    *)

Room == nextId <= MaxRows

InsertRow(k, level, flagged, parent, base) ==
  /\ rows' = [base EXCEPT ![nextId] = NewRow(k, level, flagged, parent)]
  /\ nextId' = nextId + 1
  /\ handled' = [handled EXCEPT ![k] = Policy(k) \in SweepPolicies]
  /\ flag' = FlagAfter(rows', Subject(k))

\* planRaise: nothing is live for the key, and the ladder says where it goes.
Planned(k) == [Idle EXCEPT !.pc = "raising", !.key = k, !.level = TargetLevel(1),
                           !.flagged = Staffed(1) = {}]

\* raiseEscalation and the job save: a person, or the write path, raises.
RequestRaise(p, k) ==
  /\ work[p].pc = "idle"
  /\ k \in KeysOf(OwnPolicies \cup UrgentPolicies)
  /\ Condition(k)
  /\ LiveRows(k) = {}
  /\ Become(p, Planned(k))
  /\ UNCHANGED <<rows, nextId, flag, active, decided, handled, chased, fresh, late, sweep, world>>

\* Mutant: no unique index stands behind the check planRaise made earlier.
WriteRaiseNoIndex(p) ==
  /\ work[p].pc = "raising" /\ Room
  /\ InsertRow(work[p].key, work[p].level, work[p].flagged, NoRow, rows)
  /\ StartSend(p, nextId)
  /\ UNCHANGED <<active, decided, chased, fresh, late, sweep, world>>

\* raise: the row, the job's flag and the ledger row in one transaction.  The
\* index refuses a second live row for the key: the winner is the answer.
WriteRaise(p) ==
  /\ work[p].pc = "raising"
  /\ IF LiveRows(work[p].key) = {} /\ Room
     THEN /\ InsertRow(work[p].key, work[p].level, work[p].flagged, NoRow, rows)
          /\ StartSend(p, nextId)
     ELSE /\ Finish(p)
          /\ UNCHANGED <<rows, nextId, flag, handled>>
  /\ UNCHANGED <<active, decided, chased, fresh, late, sweep, world>>

-----------------------------------------------------------------------------
(* A person acts on a row they loaded: the version they read must be current. *)

Load(p, i) ==
  /\ work[p].pc = "idle"
  /\ Live(rows[i])
  /\ Become(p, [Idle EXCEPT !.pc = "loaded", !.id = i, !.key = rows[i].key])
  /\ fresh' = [fresh EXCEPT ![p] = {i}]
  /\ UNCHANGED <<rows, nextId, flag, active, decided, handled, chased, late, sweep, world>>

\* lockRow: the row is read again under a lock, and refused if it has changed.
Unchanged(p, i) == i \in fresh[p]

\* A decision is answered and a next step is done, on the job: never from here.
DomainEnds(k) == Policy(k) \in WithinPolicies

Acknowledge(p) ==
  LET i == work[p].id IN
  /\ work[p].pc = "loaded"
  /\ Unchanged(p, i) /\ rows[i].status = "open" /\ ~DomainEnds(rows[i].key)
  /\ rows' = [rows EXCEPT ![i] = Acknowledged(rows[i])]
  /\ flag' = FlagAfter(rows', Subject(rows[i].key))
  /\ fresh' = Touched(i)
  /\ Finish(p)
  /\ UNCHANGED <<nextId, active, decided, handled, chased, late, sweep, world>>

Resolve(p) ==
  LET i == work[p].id IN
  /\ work[p].pc = "loaded"
  /\ Unchanged(p, i) /\ Live(rows[i])
  /\ ~DomainEnds(rows[i].key) /\ IsAttention(rows[i].key)
  /\ EndRow(p, i, "resolved", "action_taken", TRUE)
  /\ Finish(p)
  /\ UNCHANGED <<nextId, active, decided, handled, late, sweep, world>>

\* Not one only its subject's decision ends (permissions.ts isWithdrawable).
Withdraw(p) ==
  LET i == work[p].id IN
  /\ work[p].pc = "loaded"
  /\ Unchanged(p, i) /\ rows[i].status = "open"
  /\ ~DomainEnds(rows[i].key) /\ Policy(rows[i].key) # "ratification"
  /\ EndRow(p, i, "withdrawn", "withdrawn", FALSE)
  /\ Finish(p)
  /\ UNCHANGED <<nextId, active, decided, handled, late, sweep, world>>

\* Mutant: only what somebody was told of is moved.
CanMoveTold(p, i, from, repeat) ==
  Unchanged(p, i) /\ rows[i].told /\ (Staffed(from) # {} \/ (repeat /\ rows[i].flagged))
\* escalateFurther before its transaction: row i is live, current, and the ladder
\* has somebody at or above `from`; a flagged row that is repeated stays flagged.
CanMove(p, i, from, repeat) ==
  /\ Unchanged(p, i)
  /\ Staffed(from) # {} \/ (repeat /\ rows[i].flagged)
Moving(i, from, code) ==
  [Idle EXCEPT !.pc = "moving", !.id = i, !.key = rows[i].key, !.level = TargetLevel(from),
               !.flagged = Staffed(from) = {}, !.code = code, !.seen = rows[i].status]

PushUp(p) ==
  LET i == work[p].id IN
  /\ work[p].pc = "loaded"
  /\ Live(rows[i])
  /\ CanMove(p, i, rows[i].level + 1, FALSE)
  /\ Become(p, Moving(i, rows[i].level + 1, "escalated"))
  /\ UNCHANGED <<rows, nextId, flag, active, decided, handled, chased, fresh, late, sweep, world>>

\* Mutants: nothing is read again under the lock; only that the row is live is.
StillHoldsUnlocked(p, i) == TRUE
StillHoldsLive(p, i) == Live(rows[i])
\* What the target was resolved from must still hold under the lock.
StillHolds(p, i) ==
  /\ Unchanged(p, i)
  /\ rows[i].status = work[p].seen
  /\ rows[i].status \in IF p = Sweep THEN {"open"} ELSE LiveStatuses

\* escalateFurther's transaction: the old row leaves the live set, its successor
\* takes its place under the index, with a fresh clock and nobody told yet.
Supersede(p) ==
  LET i == work[p].id  k == rows[i].key IN
  /\ work[p].pc = "moving"
  /\ IF StillHolds(p, i) /\ Room
     THEN /\ InsertRow(k, work[p].level, work[p].flagged, i,
                       [rows EXCEPT ![i] = Superseded(rows[i], work[p].code)])
          /\ fresh' = Touched(i)
          /\ StartSend(p, nextId)
     ELSE /\ Finish(p)
          /\ UNCHANGED <<rows, nextId, flag, handled, fresh>>
  /\ UNCHANGED <<active, decided, chased, late, sweep, world>>

\* 404, 409, 422, or the caller does nothing with what it loaded.
GiveUp(p) ==
  /\ work[p].pc = "loaded"
  /\ Finish(p)
  /\ fresh' = [fresh EXCEPT ![p] = {}]
  /\ UNCHANGED <<rows, nextId, flag, active, decided, handled, chased, late, sweep, world>>

-----------------------------------------------------------------------------
(* The subject's own domain.  A question and a next step are raised and ended *)
(* inside the domain's transaction (raiseWithin, resolveWithin,               *)
(* withdrawWithin); a schedule change is raised and ended after its commit    *)
(* (raiseRatification, settleRatification).                                   *)

AskWithin(p, k) ==
  /\ work[p].pc = "idle"
  /\ k \in KeysOf(WithinPolicies)
  /\ ~active[k] /\ LiveRows(k) = {} /\ Room
  /\ active' = [active EXCEPT ![k] = TRUE]
  /\ InsertRow(k, TargetLevel(1), Staffed(1) = {}, NoRow, rows)
  /\ StartSend(p, nextId)
  /\ UNCHANGED <<decided, chased, fresh, late, sweep, world>>

AnswerWithin(p, i) ==
  /\ work[p].pc = "idle"
  /\ Live(rows[i]) /\ DomainEnds(rows[i].key)
  /\ active' = [active EXCEPT ![rows[i].key] = FALSE]
  /\ \E status \in {"resolved", "withdrawn"} : EndRow(p, i, status, "decided", FALSE)
  /\ UNCHANGED <<nextId, decided, handled, work, late, sweep, world>>

\* requestScheduleChange commits, then raises: an authority raise checks no condition.
AskThenRaise(p, k) ==
  /\ work[p].pc = "idle"
  /\ k \in KeysOf({"ratification"}) \ decided /\ ~active[k]
  /\ active' = [active EXCEPT ![k] = TRUE]
  /\ Become(p, [Idle EXCEPT !.pc = "asked", !.key = k])
  /\ UNCHANGED <<rows, nextId, flag, decided, handled, chased, fresh, late, sweep, world>>

RaiseAsked(p) ==
  LET k == work[p].key IN
  /\ work[p].pc = "asked"
  /\ Become(p, IF LiveRows(k) = {} THEN Planned(k) ELSE Idle)
  /\ UNCHANGED <<rows, nextId, flag, active, decided, handled, chased, fresh, late, sweep, world>>

\* ratify, reject or withdraw commits, then concludeForSubject lists what is live ...
DecideThenConclude(p, k) ==
  /\ work[p].pc = "idle"
  /\ k \in KeysOf({"ratification"}) /\ active[k]
  /\ active' = [active EXCEPT ![k] = FALSE]
  /\ decided' = decided \cup {k}
  /\ Become(p, [Idle EXCEPT !.pc = "deciding", !.key = k])
  /\ UNCHANGED <<rows, nextId, flag, handled, chased, fresh, late, sweep, world>>

ConcludeList(p) ==
  LET found == LiveRows(work[p].key) IN
  /\ work[p].pc = "deciding"
  /\ Become(p, IF found = {} THEN Idle
               ELSE [work[p] EXCEPT !.pc = "concluding", !.id = Lowest(found),
                                    !.seen = rows[Lowest(found)].status])
  /\ UNCHANGED <<rows, nextId, flag, active, decided, handled, chased, fresh, late, sweep, world>>

\* ... and ends each row it listed; one that is no longer live is skipped.
ConcludeRow(p) ==
  LET i == work[p].id IN
  /\ work[p].pc = "concluding"
  /\ IF Live(rows[i])
     THEN \E status \in {"resolved", "withdrawn"} :
            /\ status = "withdrawn" => work[p].seen = "open" /\ rows[i].status = "open"
            /\ EndRow(p, i, status, "decided", FALSE)
     ELSE UNCHANGED <<rows, flag, fresh, chased>>
  /\ Finish(p)
  /\ UNCHANGED <<nextId, active, decided, handled, late, sweep, world>>

-----------------------------------------------------------------------------
(* notifier.ts: the email a row owes, and how it went.                        *)

Tries(p) == IF p = Sweep THEN SweepTries ELSE 1

\* notifyTargets: what can come back, with the attempts it counts.  An alert can
\* tell everybody without an email; a thrown error counts no attempt.
Outcomes(p) ==
  IF ~configured THEN {<<"pending", 0>>}
  ELSE {<<"none", 0>>, <<"failed", 0>>, <<"failed", Tries(p)>>}
       \cup {<<"sent", n>> : n \in 0..Tries(p)}

\* A scheduled reminder that goes through costs the row no attempts.
Counted(p, outcome) == IF work[p].code = "reminder" /\ outcome[1] = "sent" THEN 0 ELSE outcome[2]

\* recordNotification: no version is checked, and the row gets a new one.
AttemptsAfter(r, n) == IF r.attempts + n > MaxAttempts THEN MaxAttempts ELSE r.attempts + n
Tell(r, stillMail) == [r EXCEPT !.told = TRUE, !.remind = FALSE, !.mail = r.mail /\ stillMail]
Recorded(r, state, n, stillMail) ==
  IF r.status # "open" THEN r ELSE
  [(IF state = "sent" THEN Tell(r, stillMail) ELSE r)
     EXCEPT !.notif = state, !.attempts = AttemptsAfter(r, n), !.waited = FALSE]

\* A scheduled reminder that fails is an error of the sweep's run.
RunErred(p, outcome) ==
  sweep.errs \/ (p = Sweep /\ work[p].code = "reminder" /\ outcome[1] = "failed")

Notify(p) ==
  LET i == work[p].id IN
  /\ work[p].pc = "sending"
  /\ \E outcome \in Outcomes(p) :
       /\ rows' = [rows EXCEPT ![i] = Recorded(rows[i], outcome[1], Counted(p, outcome),
                                               Subject(rows[i].key) \in late[p])]
       /\ Become(p, IF outcome[1] = "sent" THEN [work[p] EXCEPT !.pc = "flagging"] ELSE Idle)
       /\ sweep' = [sweep EXCEPT !.errs = RunErred(p, outcome)]
  /\ fresh' = Touched(i)
  /\ late' = ClockDone(p)
  /\ UNCHANGED <<nextId, flag, active, decided, handled, chased, world>>

\* remember: once a send is on record the job's flag is brought in step.
FlagSubject(p) ==
  /\ work[p].pc = "flagging"
  /\ flag' = FlagAfter(rows, Subject(work[p].key))
  /\ Finish(p)
  /\ UNCHANGED <<rows, nextId, active, decided, handled, chased, fresh, late, sweep, world>>

\* Bookkeeping that can't be written is logged and dropped; a request can die
\* anywhere, and so can the sweep's run.
Fault ==
  /\ faults > 0
  /\ faults' = faults - 1
  /\ UNCHANGED <<rows, nextId, flag, active, decided, handled, chased, staffed, configured>>
LoseBookkeeping(p) ==
  /\ work[p].pc \in {"sending", "flagging"}
  /\ Finish(p)
  /\ late' = ClockDone(p)
  /\ Fault /\ UNCHANGED <<fresh, sweep>>
CrashRequest(p) ==
  /\ work[p].pc # "idle"
  /\ Forget(p)
  /\ Fault /\ UNCHANGED sweep
CrashSweep ==
  /\ sweep.step # NotRunning
  /\ Forget(Sweep)
  /\ sweep' = NoRun
  /\ Fault

-----------------------------------------------------------------------------
(* sweep.ts: one run.  Each step lists the rows (or keys) it is about, then   *)
(* takes them one at a time.                                                  *)

\* Mutant: a send that never reported back is not tried again.
RetryDueFailed(r) ==
  r.status = "open" /\ r.waited /\ r.notif = "failed" /\ r.attempts < MaxAttempts
RetryDue(r) ==
  /\ r.status = "open" /\ r.waited
  /\ r.notif = "pending" \/ (r.notif = "failed" /\ r.attempts < MaxAttempts)
Restartable(r) ==
  /\ r.status = "open" /\ Subject(r.key) \in Jobs /\ IsAttention(r.key)
  /\ Policy(r.key) \notin UrgentPolicies \cup {"next_step"}
SweepHealthRows == LiveRows(<<"sweep_run", "health">>)

Listed(step) ==
  CASE step = ClearStep   -> {i \in AllLive : IsAttention(rows[i].key)}
    [] step = OverdueStep -> {i \in AllLive : /\ rows[i].status = "open" /\ rows[i].overdue
                                              /\ Policy(rows[i].key) \notin NeverMovesUp}
    [] step = RemindStep  -> {i \in AllLive : rows[i].parent = NoRow /\ rows[i].remind}
    [] step = FollowStep  -> {i \in AllLive : Restartable(rows[i]) /\ rows[i].mail}
    [] step = RetryStep   -> {i \in AllLive : configured /\ RetryDue(rows[i])}
    [] step = ReportStep  -> IF sweep.errs THEN {} ELSE SweepHealthRows
    [] OTHER              -> {}

\* Mutant: the sweep forgets that somebody already closed it.
ToRaiseAgain(k) == active[k] /\ LiveRows(k) = {}
\* raiseForJobs: the condition holds, nothing is live, and nobody has dealt with
\* this stretch of it; a stalled job comes back when mail has come since.
ToRaise(k) == /\ active[k] /\ LiveRows(k) = {}
              /\ ~handled[k] \/ (Policy(k) = "stalled" /\ chased[k])

\* Mutant: the live health row is looked up by policy instead of by subject.
WantedOneHealthRow(step) ==
  CASE step = RaiseStep  -> {k \in KeysOf(SweepPolicies) : ToRaise(k)}
    [] step = HealthStep -> {k \in KeysOf({"health"}) :
                              /\ Subject(k) # "sweep_run" /\ Condition(k)
                              /\ \A h \in KeysOf({"health"}) : LiveRows(h) = {}}
    [] step = ReportStep -> {k \in KeysOf({"health"}) : /\ Subject(k) = "sweep_run"
                                                        /\ sweep.errs /\ LiveRows(k) = {}}
    [] OTHER             -> {}
Wanted(step) ==
  CASE step = RaiseStep  -> {k \in KeysOf(SweepPolicies) : ToRaise(k)}
    [] step = HealthStep -> {k \in KeysOf({"health"}) : /\ Subject(k) # "sweep_run"
                                                        /\ Condition(k) /\ LiveRows(k) = {}}
    [] step = ReportStep -> {k \in KeysOf({"health"}) : /\ Subject(k) = "sweep_run"
                                                        /\ sweep.errs /\ LiveRows(k) = {}}
    [] OTHER             -> {}

Doing(step) == sweep.step = step /\ work[Sweep].pc = "idle"
NothingLeft == sweep.todo = {} /\ sweep.wanted = {}

BeginStep(step, run) ==
  /\ sweep' = [run EXCEPT !.step = step, !.todo = Listed(step), !.wanted = Wanted(step)]
  /\ fresh' = [fresh EXCEPT ![Sweep] = IF step \in VersionedSteps THEN Listed(step) ELSE {}]

SweepBegin ==
  /\ Doing(NotRunning)
  /\ BeginStep(ClearStep, [NoRun EXCEPT !.left = MaxActions])
  /\ UNCHANGED <<rows, nextId, flag, active, decided, handled, chased, work, late, world>>

SweepNextStep ==
  /\ sweep.step \in ClearStep..HealthStep /\ Doing(sweep.step) /\ NothingLeft
  /\ BeginStep(sweep.step + 1, sweep)
  /\ UNCHANGED <<rows, nextId, flag, active, decided, handled, chased, work, late, world>>

SweepEnd ==
  /\ Doing(ReportStep) /\ NothingLeft
  /\ sweep' = NoRun
  /\ Forget(Sweep)
  /\ UNCHANGED <<rows, nextId, flag, active, decided, handled, chased, world>>

\* Mutant: the allowance is not looked at.
TakeAlways(i) == sweep' = [sweep EXCEPT !.todo = @ \ {i}, !.left = @ - 1]
\* take(): one write from the run's allowance.  Out of it, the step returns and
\* the rest waits for the next run.
Take(i) ==
  /\ sweep.left > 0
  /\ sweep' = [sweep EXCEPT !.todo = @ \ {i}, !.left = @ - 1]
SweepOutOfActions ==
  /\ sweep.step \in PacedSteps /\ Doing(sweep.step) /\ ~NothingLeft
  /\ sweep.left = 0
  /\ sweep.step = ClearStep => ~Condition(rows[Lowest(sweep.todo)].key)
  /\ sweep' = [sweep EXCEPT !.todo = {}, !.wanted = {}]
  /\ fresh' = [fresh EXCEPT ![Sweep] = {}]
  /\ UNCHANGED <<rows, nextId, flag, active, decided, handled, chased, work, late, world>>

\* autoResolve: the version listed is still current and the row still live, or the
\* race is lost and skipped.
AutoResolve(i) ==
  /\ IF Unchanged(Sweep, i) /\ Live(rows[i])
     THEN EndRow(Sweep, i, IF rows[i].status = "open" THEN "withdrawn" ELSE "resolved",
                 "condition_cleared", FALSE)
     ELSE fresh' = [fresh EXCEPT ![Sweep] = @ \ {i}] /\ UNCHANGED <<rows, flag, chased>>
  /\ UNCHANGED <<nextId, active, decided, handled, work, late, world>>

SweepClear ==
  LET i == Lowest(sweep.todo) IN
  /\ Doing(ClearStep) /\ sweep.todo # {}
  /\ ~Condition(rows[i].key)
  /\ Take(i)
  /\ AutoResolve(i)
SweepStillHolds ==
  LET i == Lowest(sweep.todo) IN
  /\ Doing(ClearStep) /\ sweep.todo # {}
  /\ Condition(rows[i].key)
  /\ sweep' = [sweep EXCEPT !.todo = @ \ {i}]
  /\ fresh' = [fresh EXCEPT ![Sweep] = @ \ {i}]
  /\ UNCHANGED <<rows, nextId, flag, active, decided, handled, chased, work, late, world>>
SweepReport ==
  LET i == Lowest(sweep.todo) IN
  /\ Doing(ReportStep) /\ sweep.todo # {}
  /\ sweep' = [sweep EXCEPT !.todo = @ \ {i}]
  /\ AutoResolve(i)

\* moveUpOverdue and restartOnFollowUps: escalateFurther with onlyIfOpen, up to the
\* next level while there is one, else again at this one.
SweepMove(step, from, repeat, code) ==
  LET i == Lowest(sweep.todo) IN
  /\ Doing(step) /\ sweep.todo # {}
  /\ Take(i)
  /\ Become(Sweep, IF CanMove(Sweep, i, from, repeat) /\ rows[i].status = "open"
                   THEN Moving(i, from, code) ELSE Idle)
  /\ UNCHANGED <<rows, nextId, flag, active, decided, handled, chased, fresh, late, world>>
SweepOverdue ==
  LET r == rows[Lowest(sweep.todo)]
      up == Policy(r.key) \notin RepeatsOnly /\ Staffed(r.level + 1) # {}
  IN /\ Doing(OverdueStep) /\ sweep.todo # {}
     /\ IF up THEN SweepMove(OverdueStep, r.level + 1, FALSE, "sla_breach")
        ELSE SweepMove(OverdueStep, r.level, TRUE, "reminder")
SweepFollow ==
  SweepMove(FollowStep, rows[Lowest(sweep.todo)].level, TRUE, "follow_up")

\* sendScheduledReminders takes from the allowance; retryNotifications does not.
SweepSend(step, code) ==
  LET i == Lowest(sweep.todo) IN
  /\ Doing(step) /\ sweep.todo # {}
  /\ Become(Sweep, [Idle EXCEPT !.pc = "sending", !.id = i, !.key = rows[i].key, !.code = code])
  /\ UNCHANGED <<rows, nextId, flag, active, decided, handled, chased, fresh, late, world>>
SweepRemind == SweepSend(RemindStep, "reminder") /\ Take(Lowest(sweep.todo))
SweepRetry ==
  /\ SweepSend(RetryStep, "live")
  /\ sweep' = [sweep EXCEPT !.todo = @ \ {Lowest(sweep.todo)}]

\* raiseForJobs is paced; ensureHealth is not.
SweepRaise(k) ==
  /\ Doing(sweep.step) /\ k \in sweep.wanted
  /\ sweep.step \in PacedSteps => sweep.left > 0
  /\ sweep' = [sweep EXCEPT !.wanted = @ \ {k},
                            !.left = IF sweep.step \in PacedSteps THEN @ - 1 ELSE @]
  /\ Become(Sweep, IF LiveRows(k) = {} THEN Planned(k) ELSE Idle)
  /\ UNCHANGED <<rows, nextId, flag, active, decided, handled, chased, fresh, late, world>>

-----------------------------------------------------------------------------
(* The world.  Only the sweep reads the clock, and it reads it once, when its *)
(* run starts: time passes for the rows between runs.                         *)

TimePasses(i, past) ==
  /\ sweep.step = NotRunning
  /\ rows[i].status = "open"
  /\ rows' = [rows EXCEPT ![i] = past]
  /\ UNCHANGED <<nextId, flag, active, decided, handled, chased, work, fresh, late, sweep, world>>
DuePasses(i) == ~rows[i].overdue /\ TimePasses(i, [rows[i] EXCEPT !.overdue = TRUE])
BackoffPasses(i) ==
  /\ ~rows[i].waited /\ rows[i].notif \in {"pending", "failed"}
  /\ TimePasses(i, [rows[i] EXCEPT !.waited = TRUE])
ReminderPasses(i) ==
  /\ ~rows[i].remind /\ Policy(rows[i].key) = "decision_pending"
  /\ TimePasses(i, [rows[i] EXCEPT !.remind = TRUE])

\* Email about a job: a send or a run under way took its clock before it.
MailComes(r, j) ==
  [r EXCEPT !.mail = r.mail \/ (Restartable(r) /\ Subject(r.key) = j)]
EmailArrives(j) ==
  /\ rows' = [i \in Ids |-> MailComes(rows[i], j)]
  /\ chased' = [k \in Keys |-> chased[k] \/ (Policy(k) = "stalled" /\ Subject(k) = j)]
  /\ late' = [p \in Procs |->
                IF work[p].pc = "sending" \/ (p = Sweep /\ sweep.step # NotRunning)
                THEN late[p] \cup {j} ELSE late[p]]
  /\ UNCHANGED <<nextId, flag, active, decided, handled, work, fresh, sweep, world>>

\* jobRules.ts: a job comes to meet a policy, or stops meeting it; where the
\* window is measured from something that moves, it may move with it.
ConditionKeys == {k \in Keys : IsAttention(k) /\ Subject(k) \notin SystemSubjects}
ConditionHolds(k) ==
  /\ k \in ConditionKeys /\ Policy(k) # "next_step"
  /\ ~active[k]
  /\ active' = [active EXCEPT ![k] = TRUE]
  /\ UNCHANGED <<rows, nextId, flag, decided, handled, chased, work, fresh, late, sweep, world>>
ConditionClears(k) ==
  /\ k \in ConditionKeys
  /\ active[k]
  /\ active' = [active EXCEPT ![k] = FALSE]
  /\ \/ UNCHANGED handled
     \/ Policy(k) \in MovingEpoch /\ handled' = [handled EXCEPT ![k] = FALSE]
  /\ UNCHANGED <<rows, nextId, flag, decided, chased, work, fresh, late, sweep, world>>

DirectoryChanges ==
  /\ staffed' \in Staffings \ {staffed}
  /\ UNCHANGED <<rows, nextId, flag, active, decided, handled, chased, work, fresh, late, sweep,
                 configured, faults>>
SettingsChange ==
  /\ KeysOf({"health"}) # {}
  /\ configured' = ~configured
  /\ UNCHANGED <<rows, nextId, flag, active, decided, handled, chased, work, fresh, late, sweep,
                 staffed, faults>>

-----------------------------------------------------------------------------
RequestStep(p) ==
  \/ \E k \in Keys : RequestRaise(p, k) \/ AskWithin(p, k) \/ AskThenRaise(p, k)
                     \/ DecideThenConclude(p, k)
  \/ \E i \in Ids : Load(p, i) \/ AnswerWithin(p, i)
  \/ Acknowledge(p) \/ Resolve(p) \/ Withdraw(p) \/ PushUp(p) \/ GiveUp(p)
  \/ RaiseAsked(p) \/ ConcludeList(p) \/ ConcludeRow(p)

\* What requests and the sweep do alike: the writes and the email after them.
ProcStep(p) == WriteRaise(p) \/ Supersede(p) \/ Notify(p) \/ FlagSubject(p)

SweepStep ==
  \/ SweepBegin \/ SweepNextStep \/ SweepEnd \/ SweepOutOfActions
  \/ SweepClear \/ SweepStillHolds \/ SweepOverdue \/ SweepRemind \/ SweepFollow
  \/ SweepRetry \/ SweepReport \/ \E k \in Keys : SweepRaise(k)

FaultStep ==
  \/ \E p \in Procs : LoseBookkeeping(p)
  \/ \E p \in Requests : CrashRequest(p)
  \/ CrashSweep

WorldStep ==
  \/ \E i \in Ids : DuePasses(i) \/ BackoffPasses(i) \/ ReminderPasses(i)
  \/ \E j \in Mailed : EmailArrives(j)
  \/ \E k \in Keys : ConditionHolds(k) \/ ConditionClears(k)
  \/ DirectoryChanges \/ SettingsChange

Next ==
  \/ \E p \in Requests : RequestStep(p)
  \/ \E p \in Procs : ProcStep(p)
  \/ SweepStep \/ FaultStep \/ WorldStep

Spec == Init /\ [][Next]_vars

\* The timer fires every 30 minutes and a run it starts goes on to its end; a
\* request that has begun goes on to its end; waiting times pass between runs.
Fairness ==
  /\ WF_vars(SweepStep) /\ WF_vars(ProcStep(Sweep))
  /\ \A p \in Requests : WF_vars(ProcStep(p)) /\ WF_vars(ConcludeList(p) \/ ConcludeRow(p))
  /\ \A i \in Ids : SF_vars(BackoffPasses(i))
FairSpec == Spec /\ Fairness

-----------------------------------------------------------------------------
TypeOK ==
  /\ rows \in [Ids -> Row]
  /\ nextId \in 1..(MaxRows + 1)
  /\ flag \in [Jobs -> BOOLEAN]
  /\ active \in [Keys -> BOOLEAN] /\ handled \in [Keys -> BOOLEAN] /\ chased \in [Keys -> BOOLEAN]
  /\ decided \subseteq Keys
  /\ staffed \in Staffings /\ configured \in BOOLEAN
  /\ work \in [Procs -> Work]
  /\ fresh \in [Procs -> SUBSET Ids]
  /\ late \in [Procs -> SUBSET Jobs]
  /\ sweep \in Run
  /\ faults \in 0..MaxFaults

\* The engine as its callers may rely on it: see EscalationChains.  The mapping
\* forgets the clock, the email and the callers.
Core(r) == [key |-> r.key, status |-> r.status, level |-> r.level, parent |-> r.parent,
            claimed |-> r.claimed, code |-> r.code]
cores == [i \in Ids |-> Core(rows[i])]
Chains == INSTANCE EscalationChains WITH chain <- cores

\* Every interleaving of requests, sweep, email bookkeeping and crashes changes the
\* rows only as raise, acknowledge, resolve/withdraw and escalateFurther promise to,
\* one committed transaction at a time.
ImplementsChains == Chains!Spec

\* One live escalation per subject and policy (migration 098, UX_Escalations_Live),
\* and every chain is whole: a superseded row has exactly one successor, of the
\* same key and no lower a level, and only a superseded row has one.
ChainsWhole == Chains!ChainsWhole

\* What somebody has claimed, time does not take from them: a row the sweep moved
\* up, repeated or restarted was never acknowledged (engine.ts onlyIfOpen).
ClaimStopsTheClock == Chains!ClaimStopsTheClock

\* A job is flagged only while some escalation on it waits for somebody to pick it
\* up (adapters/job.ts onChange), whatever order its rows changed in.
FlagMeansWaiting == \A j \in Jobs : flag[j] => Waiting(rows, j) # {}

\* A question is pending exactly while one live row chases it: both are written in
\* one transaction, and moving the row up keeps the chase alive.
QuestionIsChased ==
  \A k \in KeysOf({"decision_pending"}) : active[k] <=> LiveRows(k) # {}

\* An authority row is closed only by a decision on its subject: nobody resolves or
\* withdraws it and the sweep never clears it (permissions.ts, autoResolve).
OnlyADecisionEndsIt ==
  \A i \in Ids : /\ Policy(rows[i].key) = "ratification"
                 /\ rows[i].status \in {"resolved", "withdrawn"}
                 => rows[i].key \in decided

\* The rows and what they are about agree: the job's flag, the pending question and the
\* schedule change, each written by other transactions than some of the rows' own.
RowsFitTheirSubject == FlagMeansWaiting /\ QuestionIsChased /\ OnlyADecisionEndsIt

\* What a person closed the sweep does not raise again until the condition's clock
\* moves, or, for a stalled job, new mail comes (sweep.ts step 3).
ClosedStaysClosed ==
  [][\A k \in KeysOf(SweepPolicies) :
       LiveRows(k) = {} /\ LiveRows(k)' # {} =>
         ~handled[k] \/ (Policy(k) = "stalled" /\ chased[k])]_vars

\* An ended row is final: no late request, sweep step or email bookkeeping brings
\* it back, re-codes it or re-levels it.
EndedIsFinal == Chains!EndedIsFinal

\* An open row past its due moment is moved up, repeated or ends: the sweep gets to
\* it in the end, unless its level has lost everybody or the table is full.
Stuck(i) == ~Room \/ (Staffed(rows[i].level) = {} /\ ~rows[i].flagged)
OverdueIsMoved ==
  \A i \in Ids : (rows[i].status = "open" /\ rows[i].overdue)
                   ~> (rows[i].status # "open" \/ Stuck(i))

\* A row whose email never left is tried again: a crash between the commit and the
\* send, or bookkeeping that was lost, leaves nobody untold for good.
PendingIsSettled ==
  \A i \in Ids : (rows[i].status = "open" /\ rows[i].notif = "pending")
                   ~> (rows[i].status # "open" \/ rows[i].notif # "pending" \/ ~configured)

\* An attention row whose condition has cleared ends, whoever holds it.
ClearedIsEnded ==
  \A i \in Ids : (Live(rows[i]) /\ IsAttention(rows[i].key) /\ ~Condition(rows[i].key))
                   ~> (~Live(rows[i]) \/ Condition(rows[i].key))

\* The sweep leaves nothing hanging: no email untold and no row without its cause.
NothingIsLeftHanging == PendingIsSettled /\ ClearedIsEnded

\* An open row whose notification has used up its attempts is reported to the
\* administrators as a fault of its own (sweep.ts ensureHealth).
ExhaustedIsReported ==
  (Exhausted # {}) ~> (Exhausted = {} \/ LiveRows(<<"notifications", "health">>) # {} \/ ~Room)

-----------------------------------------------------------------------------
(* What a comment says and the code does not do.                              *)

\* scheduleChange/escalation.ts: "a decision ends whatever is live".
DecisionEndsIt == \A k \in Keys : (k \in decided) ~> (LiveRows(k) = {})
=============================================================================
