# TLA+ models of the Floorplan back end

This directory holds TLA+ specifications of the program under `src/` (the
Azure Functions back end of Floorplan: jobs, money, leases and email of a
property manager), TLC configurations that check them on small instances, and
TLAPS proofs of the results that hold for every instance. Each definition that
models code is listed in `PROJECT.json` (`map`) with the lines it stands for.

## 1. The system

The program is a set of stateless HTTP handlers (about 200), timers and one
storage queue, all over one SQL Server database. There is no shared memory that
matters across requests: every interaction goes through rows, and a handler is
a sequence of statements, some of them inside one transaction, with awaits
between them. Concurrency is therefore between handlers, timers and queue
messages at the granularity of a statement or a transaction, and "failure" is a
handler that stops between two of its steps (an exception, a host restart, the
ten minutes of `host.json`), or an external call (Microsoft Graph, Planner,
MYOB, blob storage) that fails, or succeeds and loses its answer.

### Components, their state and their operations

| component | state | operations | correct when |
|---|---|---|---|
| escalation engine (`escalation/engine.ts`, `store.ts`, `ladder.ts`, `permissions.ts`) | `dbo.Escalations`, `EscalationEvents`, policies | raise, acknowledge, resolve, withdraw, escalate further, conclude, auto-resolve | one live row per subject and policy; superseded rows form whole chains; ended rows never change |
| escalation sweep (`escalation/sweep.ts`) | the run's allowance and lists | eight steps: critical, raise, repeat/move overdue, clear, retry, health, questions, report | acts only on what still holds; overdue rows are moved; nothing a person closed comes back by itself |
| escalation notifier (`escalation/notifier.ts`) | `NotificationState`, attempts | send after commit, record, retry with a rest | a notification is sent in the end or reported |
| escalation adapters (`escalation/adapters`) | `Jobs.EscalatedAt`, health subjects | on change of a row, conditions | the flag of a job says that somebody is asked |
| job decisions (`jobDecisions`) | `dbo.JobDecisionRequests`, next steps | request, respond, withdraw, defer, complete | a question has one answer, by who was asked |
| email send queue (`comms`) | `Correspondence`, `CorrespondenceRecipients` | queue, approve, cancel, run | nobody gets a message twice, nothing goes unapproved, every job ends |
| inbound email (`email/mail-sync.ts`, `functions/emails.ts`, `parseEmails.ts`) | `Emails`, `EmailSyncState`, queue messages | webhook, sync page by page, parse under a lease, archive, promote, record a reply | no message is stepped over, a reading is final, an answer counts once |
| inbound triage (`inboundTriage`) | routing sets and outcomes | rank, assign, hand over | the log tells who has had an email |
| job life cycle (`functions/jobs.ts`, `jobStatusMachine.ts`, `jobTransitionGuard.ts`) | `dbo.Jobs` | create, move, reopen, close | only the transitions of the machine, with their conditions |
| money chain (`functions/quotes.ts`, `purchaseOrders.ts`, `invoices.ts`, `payments.ts`, `moneyRules.ts`, `moneyGate.ts`, `approvalAuthority.ts`) | quotes, POs, invoices, payments, approvals | add, approve, send, record, void | no payment without an approved invoice; nobody exceeds their limit; edits reset approvals |
| MYOB (`myob`, `functions/*Myob*.ts`) | proposals, controls, read-back | propose, approve and send, read back, pause | one record is posted once; a pause stops posting |
| rent reviews (`rentReview`, `rentReviewMachine.ts`, `functions/*RentReview*.ts`) | `RentReviews`, rate steps | calculate, submit, approve, return, commence, revert, waive | a new rent takes effect only when approved, once |
| lease events (`leaseEvents`, `leaseEventMachine.ts`) | `LeaseEvents` | generate, notice, exercise, reject, outcome | an option is exercised once, in its window |
| schedule changes (`scheduleChange`) | `ScheduleChangeRequests` | request, ratify, reject, withdraw | applied only when ratified, to the schedule it was asked for |
| tenancy schedule (`tenancySchedule`, `functions/tenancy.ts`) | schedules, sign-off | edit, sign off, revoke | an edit ends the sign-off |
| absence cover (`absenceCover`) | leave, cover items, delegates | request, decide, sweep, take back | work of somebody away has exactly one holder |
| decision ledger (`ledger`) | `DecisionLedger` hash chain, fallback | record, verify | append-only, in one chain |
| keys (`functions/keys.ts`) | keys, checkouts | check out and in, report lost, delete, restore, import | who holds a key is on record |
| inspections (`functions/inspections.ts`) | levels, rooms, findings, operation log, removal ledger | offline operations, merge, raise jobs, delete | no finding is lost, each is one job at most |
| vacancies (`functions/vacancies.ts`) | rows, pictures, posts on the website | publish, unpublish, upload, delete | the rows tell what is outside |
| files and documents (`functions/attachments.ts`, `document-register.ts`, `major-events.ts`) | rows and blobs | upload, claim, attach, remove, archive | a row has its file |
| tenancies, areas, car parks (`functions/tenants.ts`, `tenancy.ts`, `tenancy-records.ts`) | tenancies, areas with history, bays, notes | make, move, archive, delete a draft | who held an area stays on record |
| services and defects periods (`facilitiesScheduler.ts`, `serviceSchedule*.ts`) | schedules, runs, periods | plan, generate, complete, record, skip | no service drops out of its series |
| asset register (`assetRegister*.ts`, `functions/upsertAsset.ts`) | assets, places, types | edit, verify, archive, restore | a verified asset is as it was seen |
| procedures (`functions/*Procedure*.ts`) | documents, versions, endorsement policy | draft, ask, publish, classify | a procedure in force stays in force |
| Planner sync (`jobPlannerSync.ts`, `functions/plannerSyncTimer.ts`) | `PlannerTasks`, tasks in Planner | reconcile after a change and at night | a task follows its condition |
| timesheets | rows | create, edit | one person's own rows |
| access and usage (`access`, `usage`, `auth.ts`, `jwt.ts`, `rateLimit.ts`) | profiles, counters | check, record | role gates; not a concurrent protocol |
| reports, PDF, AI (`pdf`, `complianceReport`, `maintenanceSpend`, `digest`, `ai`) | none or caches | render, summarise | pure output |

### How they interact

Handlers call the engine inside their own transaction (`raiseWithin`,
`withdrawWithin`, `resolveWithin`) or after committing their own change
(`raise`, `concludeForSubject`): the second order is where most of the hazards
are. Timers pick work up by status (`queued`, overdue, unsent) and guard every
write with the status they expect (`WHERE Status IN (...)`), so a lost race is a
write of no rows. Email and Planner are called after the commit, and their
outcome is recorded by a separate statement.

### What is hard here

Steps of two handlers or of a handler and a timer in an order no test has;
values read before an await and used after it; a run that dies between a commit
and what follows it; answers of Graph that are lost; retries; timers that find
work by a list read earlier; limits (allowance, budget, attempts) at their
edge; something that must happen in the end and nobody waits for. `PROJECT.json`
lists each one (`hazards`) at its line with the properties that would catch it.

## 2. Modules and how they follow the code

| module | models | composes |
|---|---|---|
| `EscalationChains` | the promise of the engine about its rows: four transactions | |
| `Escalations` | engine, sweep, notifier, adapters and their callers | implements `EscalationChains` |
| `EscalationChains_proofs`, `Escalations_proofs` | theorems | |
| `MCEscalations` | instances | |
| `CommsQueue` | the email send queue and Microsoft Graph | |
| `MCCommsQueue` | its instances | |
| `MailSync`, `MailReading`, `MailDesk` | inbound mail: intake, classification, what people and triage do with it | |
| `Mail_proofs` | theorems about `CommsQueue` and the three | |
| `MCMail` | the send queue and inbound mail | `CommsQueue` and the three |
| `Services` | service schedules, defects periods, the facilities scheduler | |
| `MCTimers` | the two workers under fairness | `CommsQueue`, `Services` |
| `JobMachine` | a job's states, moves and guard, as operators | |
| `MoneyChain` | quotes, purchase orders, invoices, payments and the job's moves | uses `JobMachine` |
| `Sums` | lemmas: what a sum over a finite set comes to | |
| `MoneyChain_proofs` | theorems | uses `Sums` |
| `MCMoneyChain` | instances | |
| `LeaseEvents` | option notices, renewals, the generator | |
| `Planner` | Planner tasks that follow conditions | |
| `JobDecisions` | questions, decisions, deferrals of one job | |
| `MCTracking` | the three under fairness | those three |
| `RentReviews` | the reviews of one tenancy and its rent schedule | |
| `Vacancies` | advertised vacancies, the website, the picture store | |
| `Inspections` | inspections and the phones' operations | |
| `Files` | uploaded files, blobs and rows | |
| `TenancyParts` | areas, car parks, notes, drafts of a tenancy | |
| `MCProperty` | instances | those five |
| `Property_proofs` | theorems about the five | uses `Sums` |
| `Followups_proofs` | theorems about `JobDecisions`, `Services`, `LeaseEvents` | |
| `AbsenceCover` | cover while somebody is away | |
| `TenancySchedule` | versioned edits, sign-off and reliefs of one tenancy | |
| `Keys` | the key register | |
| `DecisionTimes` | working-hours arithmetic of due times | |
| `Assets` | the asset register and its verification | |
| `Procedures` | the versions of a controlled document | |
| `MCDesk` | instances | those six |
| `Desk_proofs` | theorems about `Keys`, `Assets`, `Procedures`, `TenancySchedule` and `AbsenceCover` | |

### Escalations

State: `rows` is `dbo.Escalations` (a row keeps its key, that is its subject and
policy, its status, level, parent, whether somebody has claimed it, its resolution
code and the state of its notification); `flag` is `Jobs.EscalatedAt`; `active`,
`decided`, `handled` and `chased` are what the adapters read of the domain (does the
condition hold, was the change decided, is the closed row newer than the
condition's epoch, has mail come since); `work` is where each process (a request, or
the sweep) is between two awaits; `sweep` is the run's step, list and allowance.

A request that changes a row is two or three steps of a process: the read
(`Load`), the transaction (`Acknowledge`, `Resolve`, `Withdraw`, `PushUp` with
`Supersede`), then the email (`Notify`) and the flag. The transaction checks again
what the code checks again inside it, and no more, so everything read before it may
be stale. The sweep lists its rows at the start of a step and then acts on one at a
time (`SweepClear`, `SweepOverdue`, `SweepRetry`, ...), each with the check of the
engine's transaction (`StillHolds`). A fault ends a request or a run between any two
steps, or loses the bookkeeping of a send.

What is abstracted: people are levels of a ladder that are staffed or not; times
are truth values (`overdue`, `waited`, `remind`) that turn true between runs, since
the sweep reads its clock once; wording and recipients of emails are left out.

`EscalationChains` is the abstract specification: `Raise`, `Claim`, `Close`,
`MoveUp` on rows without clock, email or callers. `Escalations` implements it by the
mapping `cores` (a row without its notification and clock). What other code relies on
is stated there: one live row per key, whole chains, ended rows final.

### CommsQueue

State: `jobs` is `dbo.Correspondence`, `rcpts` `dbo.CorrespondenceRecipients`, `run`
where each run of the timer is, with what it has read; `drafts` and `arrived` are
Graph's side. `refused` says whether the merge or the server's records would refuse a
recipient: it can change between queueing and sending, and both look it up.

One action per statement or transaction of `runCommsQueue` and `handle`: recover and
start, count, read, then per recipient block / would-send / claim, mark the job,
make the draft, keep its ids, send, record; then settle job by job. A run can die
anywhere (`RunDies`); Graph can do what it was asked and lose the answer (`SendDraft`
with an error after it). `StalePasses` needs the run that claimed to be gone:
`functionTimeout` is ten minutes, and so is `STALE_SENDING_MINUTES`.

Abstracted: the three comparisons of a stored time with the clock are truth values
of the row; the order of the queue is left open; `QueueMail` is one step because
`writeJob` holds the key's application lock and a range lock over the person's jobs.
A job never has the status `draft`: no code writes it.

### JobMachine and MoneyChain

One job and everything of money on it. `job` is the `Jobs` row (status with side, the
state it was held at, the two flags, archived, `ApprovedQuoteID`); `quotes`, `pos`,
`invoices` and `payments` are the tables; `variances` the rises above the quote that
were accepted; `sends` and `previews` the requests that are not one transaction.

Every handler that works in one transaction is one action, because it locks the row it
decides on (`UPDLOCK, HOLDLOCK`), and the job's row where it depends on the job
(`loadJobForMoney`, `loadJobForTransition`). Where a handler reads other rows without a
lock (the invoices when a job is closed) the writers it could race with either take the
job's lock or do not look at the job, so that the outcome is one of an order of whole
transactions. `sendPurchaseOrder` is seven steps, as it holds no lock from its read to
its stamp: read, gate, check and record the rise, claim, mail, record; `previewPurchaseOrder`
is a read and an upload to the one blob name of the order.

`JobMachine` has no state: the transition table, the targets of a manual pick and the
guard on the facts `FactsAt` collects.

Abstracted: amounts are a few numbers above zero (a create refuses others); a
decision reads any of `Thresholds`, because the threshold is a setting that can change
between two decisions and is never read twice in one (zero would stand for "always the
director"); an approver within their limit or not is a choice of the outcome; a rise
is accepted or the request refused, without margin and rationale. An edit to the
amount a row has stands for an edit of its payee. The residence route is absent:
`loadApprovalFacts` passes `isResidence: false`. One preview of an order at a time.

### MailSync, MailReading, MailDesk

Mail comes in in three stages that meet only in the row of `dbo.Emails`, on columns of
their own. `MailSync`: `delivered` is Graph's side (when a message reached a mailbox),
`mailRows` the table, `watermark` `EmailSyncState`, `syncs` where each run of
`processEmailSync` is: it reads the watermark and the ids already stored, fetches a page,
stores its messages one statement each, advances the watermark, and goes on to the extra
mailbox. `SyncFails` ends a run anywhere; another may be under way. `first` remembers
where the reading of a mailbox began. `MailReading`: `mails` are the AI columns; a run
gives up what is spent, claims one email under its lease, and writes what the classifier
answered. A lease lapses only when nobody reads under it, since it is as long as
`functionTimeout`. `MailDesk`: `letters` is the status and owner, `handed`
`EmailRoutingOutcomes`; a request is its read and its guarded write, a triage run a list
and one transaction per email.

### Services

`sched` are the schedules, `runs` the rows of `ServiceScheduleRuns` (unique per schedule
and date), `period` the building's defects period, `screens` a manager's page with its row
version, `batch` what the scheduler has read. The scheduler lists, reads the cover of each
date and writes in a transaction of its own; a completion reads and then updates if
`NextDue` is still the date it read; an outcome typed on a page needs its row version.

### LeaseEvents, Planner, JobDecisions

`LeaseEvents` is one lease: the handlers lock the event and the tenancy and are one action;
the generator reads the tenancy, then the events, and writes its plan one action at a
time, while register edits move the expiry. `Planner` has conditions, rows and
tasks; a sync reads the condition, the row and the task and writes with no lock, in the
handlers' syncs and the timer's visits alike. `JobDecisions` is one job: everything locks
it but the sweep's list of deferrals.

### RentReviews, TenancySchedule, TenancyParts

Three views of a tenancy that share the row and no field. `RentReviews`: dates are
anniversaries, a rent the sum of what was settled; the states are those of
`rentReviewMachine.ts`, the schedule's rows belong to reviews, and the generator plans from
what it read. `TenancySchedule`: a field holds the number of the save that wrote it; pages
are opened from the process's cache or the rows, and a save is refused when the version it
names has moved. `TenancyParts`: areas with the history every write adds to, bays read and
then written outside a transaction, and the deletion of a draft with the cascades of its keys.

### AbsenceCover, DecisionTimes, Keys, Inspections, Vacancies, Files, Assets, Procedures

`AbsenceCover`: a run (timer or desk) reads who is away and who may take what, then applies
its entries one by one, each looking at its item again. `DecisionTimes` is the arithmetic
itself, as operators over half hours, checked against a count of the half hours at work; a
search for a working day (`Skipped`) gives up where the code throws, and calendars on which
that happens are left out (`CalendarAssumption`).
`Keys`: every write locks the keys and is one action; moments are what a restore goes by.
`Inspections`: an operation of a phone arrives any number of times; delete and raise decide
on what they read before. `Vacancies`: each handler step by step around its calls to the
website and the picture store, any of which may fail. `Files`: the blob is stored before the
row is written and taken after it is gone, and either half may fail or lose its answer.
`Assets`: a call is its reads and its commit, with only its own row locked. `Procedures`:
one document, acted on from screens that may be old.

## 3. Runs

Bounds are named as constants of each module; each was chosen so that the case the
property is about occurs, and each property has a mutant of the code that breaks it
on the same bounds (`mutants`).

| run | question | bounds |
|---|---|---|
| `escalation_races` | two requests and the sweep on one key | 2 rows, 2 levels |
| `escalation_domain` | the job's flag and its question against the rows | 2 rows, 2 levels, five scenes (below) |
| `escalation_health` | exhausted notifications are reported | three health subjects, fairness |
| `escalation_liveness` | overdue, pending, cleared rows get on | one key, one fault, fairness |
| `mail` | no message twice; intake steps over nothing; a reading is final; the desk's books are right | send: 2 recipients, 2 attempts, both modes, two scenes; sync: 2 messages (1 at most reaches the mailbox triage reads), pages of 1, 2 syncs, 2 clock values; reading: 2 emails, 2 runs, 3 attempts, 1 reset; desk: 2 emails, 2 people, 2 requests, 1 triage run |
| `timers` | cancels and endings with two send runs under way; service dates recorded and taken up | send: 1 recipient, 2 runs, 2 attempts, no fault; services: 1 schedule, intervals of 1 and 2 days, days 0 to 2; fairness |
| `money_orders` | the approved quote, an order's sends, starting work | 2 quotes, 1 order, 2 sends, amounts 1 and 2, threshold 1 |
| `money_invoices` | approvals, MYOB, payments, closing | 1 quote, 2 invoices, 2 payments, amounts and thresholds 1 and 2 |
| `tracking` | options, expiries, Planner tasks and deferrals are taken up, and nothing is asked in vain | 2 lease events, 1 option, days 0 to 4; one condition of each kind, 4 tasks, 2 syncs; 2 questions, 2 people; fairness |
| `property_registers` | settled rents, posts and pictures, findings, files and holdings stay accounted for | 2 reviews, 2 dates; 1 vacancy, 2 requests, 2 posts; 3 inspections, 2 rooms, 1 finding, 5 operations; 2 files, 1 email blob; 2 tenancies, 2 areas, 2 cells |
| `desk` | cover, schedule edits, key holders, working hours, verification, publishing | 3 people, 2 absences, 1 move; 2 editors, 2 saves, 2 reliefs; 2 keys, 2 checkouts, 3 moments; 48 moments, 4 calendars; 2 assets, 1 overlapping call; 2 writers, 2 versions |

The runs `mail`, `timers`, `tracking`, `property_registers` and `desk` each hold
several parts that share no state. A behaviour exercises one of them (`scene`, chosen
at the start) while the others rest, so one run explores each part in full and never
their product. Nothing is lost: an interleaving of parts that share no variable adds no
state of any one of them. Where identifiers are interchangeable the parts take them from
the same sets, so that one permutation acts on every part at once.

Four properties are conjunctions of named parts, one question each: `MailGoesAsMeant`
(once, as recorded, one per submit, approved, within threshold and budget), `OverIsOver`
(cancelled sends stop, ended jobs stay ended), `RowsFitTheirSubject` (the job's flag, the
question, the schedule change) and `NothingIsLeftHanging` (pending email, cleared rows).

Two runs also carry a state constraint (`WithinAScene`) that keeps a behaviour within one
of several scenes of one part: `escalation_domain` has a manual escalation with a question on one job, a stalled job
with mail, a reminder that fails and the row about it, a schedule change and a next step (the last two with a level that loses
its people); the send queue in `mail` has one send with a dying run and lost answers, or two
sends by two people with one draft in all, and its sync at most one message in the mailbox
triage reads (`WithinMail`; the main mailbox, read by the same code, has two). The constraint only prunes; what it
keeps is explored in full. `IndexMatters` in `property_registers` leaves out the
publication of the index for a lease that never reads it.

The two money runs are bounded by `WithinLoad`: the rows made and the sends in flight,
with a second quote, invoice or send, a deleted or rejected row, and a job that is held
or archived counting double, weigh at most four. That keeps an order on a quoted job with a send, two
sends of an order on a contract job, two invoices and a payment, and an invoice on a quote with two payments;
what it drops is several of those at once. Row ids are interchangeable, so their
symmetry is sound. Amounts 1 and 2 are below and above every quote and threshold that
matters, and two thresholds let it move between an approval and what follows.

Two send attempts stand for the code's three: one that is retried and one that is the
last; the readers of mail have the code's own three. A page of one message makes every
message the edge of a page, and two clock values let two messages share a time or not.
Three inspections are what a chain of two merges needs. Four days and a term of two let
an option move the expiry past the day the generator read. The moments of `desk` are the
edges of the working day over eight days around a weekend, under four calendars with
single and long holidays.

### Disagreements between comments and code

Runs with expectation `violation` check what a comment says and show an execution of
the code that does otherwise; `findings` quotes each.

| run | said | done |
|---|---|---|
| `decision_ends_it` | a decision ends whatever is live | a row the sweep writes in between stays live |

Other disagreements met while modelling, without a run of their own:

- `comms/worker.ts` says a retry never makes a second message; two runs that overlap past
  the stale limit can make two drafts of one recipient.
- `functions/quotes.ts` says full approval of a quote moves the job to Work; the
  director's approval leaves it at the quote decision.
- the check in `sendPurchaseOrder` says an order above its quote never goes out without
  the rise accepted; the PDF of an earlier preview does, because it is mailed by its one
  blob name.
- `functions/uploadAssetAttachment.ts:149` deletes the blob on every error, while
  `document-register.ts:426` and `attachments.ts:663` say a row whose file is gone is the
  one thing to avoid; `RowsHaveTheirFile` excepts asset files.
- `assetParentWouldCycle` walks rows it does not lock: two edits at once can make two
  assets each other's parent.
- `functions/emails.ts:1472` says a copy that also reached a triage mailbox moves there;
  the sync's skip set drops that copy when the main mailbox stored it within the window.
- `functions/parseEmails.ts:631` writes the flag a reading asks for over the one a person
  set while it was under way.
- `promoteEmailToJob` inserts the job and then marks the email without a condition: two
  clicks make two jobs from one email.
- `functions/publishProcedure.ts` compares the version's id only, so text saved after the
  director read the draft is published; `saveProcedureDraft` compares save times by the
  second, so two saves within one are not told apart; `requestProcedureApproval` stamps a
  request after a save has withdrawn it.
- the task the first of two crossing Planner syncs made stays open with no row.
- `escalation/store.ts:336` says a stale writer cannot undo a send that succeeded;
  `recordNotification` sets the state whatever it was, so a late failure overwrites
  `sent` (the time of the send is kept by `COALESCE`).
- `escalation/sweep.ts:12` says a job that meets a policy and has no live row gets one;
  for `job.unassigned` and `job.quote_not_back` `conditionEpoch` never moves, so not
  after the sweep itself ended the last row.
- `escalation/sweep.ts:28` says a run makes at most so many writes;
  `retryNotifications`, `ensureHealth` and `reportRun` write without `take()`.
- `comms/worker.ts:5` says overlapping runs share one budget; each counts before the
  other claims.
- `comms/queueStore.ts:1` says a job with nothing left waiting is completed; when a
  run dies after the last outcome and before it settles, no later run touches the job
  (`EveryJobEnds` with one fault fails).

- `functions/purchaseOrders.ts:1034` says the mail did not go when the call fails; Graph
  may have taken it, and the claim that would stop a second one is given back.
- `functions/purchaseOrders.ts:1117` says a sent order does not vanish; the delete looks at
  `SentAt`, which a send sets after the mail is out.
- `functions/invoices.ts:885` says a contractor's invoice above the quote is approved only
  within the margin; one approved as on-charge and then redirected has not met that check.

### Fairness

`Escalations`: the sweep's steps and those of a request that has begun are weakly
fair (the timer fires every 30 minutes, a handler that is running goes on), and the
wait before a retry passes (strongly, because acknowledging a row in between disables
it). Nothing is assumed of people. `CommsQueue`: the timer fires every minute, a run goes on,
and the waiting times pass. `tracking`: the lease generator (daily), the
sweep that asks deferrals again (every 30 minutes) and the nightly Planner timer go on, a
sync that has begun goes on, and a due date passes. `timers` adds the facilities
scheduler (daily). `MoneyChain` and the registers have no fairness: their steps are people's. Liveness of the queue is checked without runs that
die; with one that dies it fails (above).

## 4. Proofs

Checked by TLAPS for every value of the constants.

`EscalationChains_proofs`: `ChainInv` is inductive. One live row per key and whole
chains are not inductive alone: that a row beyond `nextId` is blank (`Contiguous`) is
needed for the row a step writes to have no children and no twin, and that open rows
are unclaimed and live rows carry no code (`ClaimsOnRecord`) is needed for the claim
to stop the clock. `EndedRowsAreFinal` is the action property.

`Escalations_proofs`: `TypeCorrect`; then the invariant
`IInv == TypeOK /\ WorkInv /\ ChainInv of the mapped rows`. `WorkInv` says that what a
process carries between two steps is about a row that exists, with that row's key,
and that a move by the clock is planned with a clock's code: without it a
`Supersede` planned earlier could map to no abstract step. From `IInv` every step
maps to one transaction of `EscalationChains` or to a stutter
(`EngineImplementsChains`), and `ChainsAreWhole`, `ClaimedRowsKeepTheirOwner` and
`EndedRowsStayEnded` follow from the abstract theorems.

What relates the rows to their subjects is a second invariant on top of it, `DInv`.
`PlansOK`: whoever is about to conclude a schedule change has its row, and the change is
decided; whoever is about to raise raises no question and no next step, and a swept key is
raised by the sweep only, while nobody has dealt with it. `WantedOK` and `TodoOK` say the
same of what a run has listed and not yet taken, which is what makes an old list harmless:
what a sweep step decided when it listed a key still holds when it takes it, because nobody
else raises swept keys. `StepEffect` sorts every step by what it does to the rows - nothing, a
row claimed, ended, moved up or raised - and one lemma for each kind gives
`RowsFitTheirSubject` and the step of `ClosedStaysClosed`.

`MoneyChain_proofs`: `Inv` joins `TypeOK`, the properties of the two money runs other than
`NeverOverpaid` (below), `CompletedIsInMyob` and `InternalHasNoMoney` with three facts they rest on. `SendsHaveOrders` (a send under way is of
an order that was made): without it `SendClaims` and the two endings could write outside
the table, and an id that is used again would lose the claim. `PaymentsHaveInvoices`: a
payment is of an invoice, so that `PaymentsRestOnApproval` says something of a row.
`DirectorOnRecord` (the status `director_approved` has the director's stamp): closing a job
goes by the status, `DoneOnlyWhenSettled` by the stamp. `Inv` was model-checked on both
money runs' instances before it was proved.

The argument goes table by table. `Untouched` says which tables each kind of step leaves
alone. For invoices `InvoiceRowHolds` shows that each handler leaves the row `Sound`, and
`Payable` if it was and has payments, which is where the refusals "once anything is paid"
are needed. `InternalHasNoMoney` rests on `PaymentsRestOnApproval`: a job that is made
internal has no invoice, hence no payment. For sends, `OrdersGoOn` says that nobody but a send touches a claim, and `SendStepHolds` that a
send gives back only its own. The two action properties rest on `JobMoves`, the six ways a
job's status changes, and `MoveObeys`, which reads the guard's facts. The theorems assume
`AmountsAssumption` (amounts are above zero, as every create requires) and
`RowsAssumption` (no id is `None`; orders and invoices are told apart, as `SubjectType`
does); nothing of the sets is assumed finite, but the payments, which are summed.

That no invoice is overpaid is proved on top of `Inv`. The model adds payments up with
`MapThenSumSet`, which is a fold, as the code does with a query; what a fold comes to is an
induction over data, and the library's induction theorems cannot be applied here. `Sums`
goes another way: the strict subsets of a finite set are well founded, so a claim that
fails of some subset fails of a smallest one, and there it is refuted. In that way the
recursive function of the fold is shown to exist (`SumExists`) and to be the only one
(`AddsUpOneWay`), and then a sum to change by the amount of the row that changes.
`PaidHolds` reads each handler of payments with these: what it lets through is the amount
of the invoice less the other payments, and an invoice with payments keeps its amount.

The assumptions of the escalation proofs are `ConstantsAssumption` of `Escalations` (at least one level, a
finite number of rows, the keys' policies) and `ChainAssumption` of the abstract
module, which `ChainsAssume` derives from it.

`Mail_proofs`, the send queue: `Inv` says that rows not in use are blank and a recipient's send exists
(`RowsInUse`); that a run that has claimed a recipient has it alone until it has recorded the
outcome, so that neither another run nor the recovery of stale sends writes that row
(`Owned`); that what is going, in flight or gone has the leave of a manager where it needs
one (`LeaveGiven`); and that an outcome a run is about to record is true (`OutcomeIsTrue`).
Nothing is said of `attempts <= MaxAttempts`: overlapping runs can pass it. `EveryStep`
sorts the steps into those that make a new send and those that keep what the rows are
about; `EveryStatusMoves` says how a recipient's status may move and `Arrivals` when a
message goes out, and each conjunct of `Inv` follows from these three, not from the steps.
That mail goes once and within the minute's budget (`AloneInv`) is proved for one run at a
time (`RunsAlone`, one worker): with overlapping runs two of them can read the same budget,
and `mail`, which checks `MailGoesAsMeant`, has one worker for that reason. What does not
depend on it is proved for any number (`MailGoesByTheRules`, `WhatIsOverStaysOver`).

The inbound part of `Mail_proofs`, module by module. `MailReading`: a reader holds the lease of what it
reads and reads it alone (`ReadingInv`); a final reading is written by nobody. `MailDesk`:
hand-overs of an email follow one another, its answer counts once and what was counted is
handled (`DeskInv`), which holds because every handler reads the row under the lock it
writes it with. `MailSync`: nothing older than a mailbox's watermark is missing. Not
inductive alone: `SyncInv` adds that a watermark is not beyond the clock, and that a run that
is between two pages has stored all that lies before the page it asks for next
(`PagesInOrder`); `PageIsOldest` is the fact that a page of the oldest messages leaves nothing
older behind. Messages are a finite set; page size and clock are any.

`Property_proofs`, module by module; they share no state.
`Files`: a row is made once, after its blob, and names that blob or an email's.
`TenancyParts`: whoever holds an area now, or held it, is in its log.
`Vacancies`: a post and a picture are one vacancy's (`PostsOfOne`, `PicsOfOne`), and what a
handler that has a vacancy to itself read still stands (`UncrossedIsSound`); where two
handlers crossed on a vacancy nothing is claimed of it, and it stays out of the others.
`Inspections`: what was sent is in the log of its inspection while there is one, so an
operation is applied once (`SentIsLogged`); what was raised from a finding is linked to the
inspection the finding is in now, through merges (`RaisedOnce`); and what somebody is about
to raise is that inspection's, unless it was merged meanwhile (`RaisesItsOwn`), which is why
the second look under the lock is enough. `RentReviews`: what a reversal would put back
settles nothing that is not settled (`RecordPutsBack`): at the review's own date there was
an open row or none, and elsewhere the application only moved the end of a row
(`PlacedRow`). With the check that what was written still stands, a reversal cannot bring
back the row of another review that is over. The rent that is applied is the one that was
seen, by three more invariants: `Figures` (a calculation marked fresh has for its base what
the schedule says now for the day before the review: every write to the schedule, a
reversal and a mark on the timeline included, makes the calculations of the tenancy stale),
`LastIsADate` and `PlansHaveDates` (what is looked up is a date of the lease). `FiguresStay`
sorts the steps by what they do to the calculations, and at the application `RentAt` of the
schedule just written is shown, with `Sums` and the latest of a set of dates, to be that
base and the change of rent on top.

`Desk_proofs`, likewise. `Keys`: a checkout ended without a check-in was ended by the report
or the deletion of its key. `Assets`: what a call decided of the stamp fits the row it has
locked, and two calls hold two rows (`CallsHoldTheirRows`). `Procedures`: an edition is in
force from the first publication on. `TenancySchedule`: a page, a cached answer and one being
read are the row as it was, no newer, and the same where the version is (`IsOld`); from that
a save with a version check replaces nothing its page did not show. `AbsenceCover`: a move
that a run has planned and not applied is of a question to somebody who was not asked, unless
the question's version moved since (`EntryIsSound`), in which case applying it is refused.
`DecisionTimes`: a request that is followed up stays one that can be scheduled (`Sound`), so
that each tier's schedule can be taken by itself (`ScheduleInTime`). That the hours added are
hours worked (`AddedAreWorked`) is about a recursion, `spend`, and is proved as the sums
are: the smallest number of half hours for which no such function exists, or for which it
comes to something else, is refuted. `WorkAddsUp` is the step: a day's rest, a gap in which
nobody works, and what was spent from the next morning on.

`Followups_proofs`, likewise. `JobDecisions`: a decision is of a question that was put, and a
job its next step closed is closed (`JdInv`); without the first the next question's number
would say nothing of a deferral's. `Services`: a job for a date is for one the scheduler can
reach (`JobsAreWithinReach`), so that a series always goes on within the dates
(`SeriesGoesOn`, which needs the step and the lead only). `LeaseEvents`: what awaits approval
was recorded within the window of its own expiry (`LeaseInv`); that the lease still ends then
is what `approveOptionExercise` looks at.

The theorems rest on the assumptions named in the modules: the name of nothing is not the
name of something (`NothingIsNamedNothing`, `InspConstants`, `FilesConstants`,
`PartsConstants`, ...), ranks and spans are numbers, counts and limits are naturals, and
where a sum or a page is counted the rows are a finite set. TLC evaluates all of them.

Holidays end before a search for a working day gives up (`CalendarAssumption`; the code
throws otherwise). Every invariant and every action property that a run checks is the
statement of a theorem or a part of one's.

Only model-checked: the liveness properties `OverdueIsMoved`, `NothingIsLeftHanging`,
`ExhaustedIsReported`, `EveryJobEnds`, `DueIsTakenUp`, `ExpiryIsTakenUp`, `JobTasksFollow`
and `DeferralComesBack`, since fairness and ENABLED are out of the prover's reach. And
`MailGoesAsMeant` is proved, as it is checked, for one run of the timer at a time.

## 5. Plan

Modelled, in the order they were taken: escalations; the send queue; the money chain and
the job's moves; job decisions, lease events, Planner; rent reviews, vacancies,
inspections; absence cover, tenancy schedule, keys, decision times; inbound mail; services,
assets, files, tenancy parts, procedures.

Next: approval limits and attribution disputes on top of the money chain; MYOB (proposals,
posting, read-back, pause); the decision ledger's chain and its fallback; timesheets.

Theorems worth proving next, beside those of section 4: the safety properties of what is
modelled next; those of what is modelled now are proved.

## 6. Not modelled

Each part is in `PROJECT.json` under `components` with its reason. In short: pure
reads and reports (PDF, spend and compliance reports, digest, search), the wording of
email and letters, language-model calls, authentication and role gates as such (a gate
is a guard here only where a property depends on who acts), the browser, Azure's own
behaviour beyond what `host.json` sets, and SQL Server's isolation below the level
of a transaction: a transaction is one step where it locks what it read or guards its
writes by status, and two steps where it does not.
