----------------------------- MODULE CommsQueue -----------------------------
(***************************************************************************)
(* The email send queue (src/src/comms): people queue, approve and cancel   *)
(* sends; every minute a run of commsSendTimer takes recipients, makes a     *)
(* Graph draft for each, sends it and records how it went.  Runs can overlap *)
(* and can die anywhere, and Graph can fail, or do what it was asked and     *)
(* lose the answer.                                                         *)
(***************************************************************************)
EXTENDS Integers, FiniteSets

CONSTANTS
  Jobs,          \* bound: sends ever queued
  Rcpts,         \* bound: recipients ever written
  People,        \* who may queue and approve
  SubmitKeys,    \* the idempotency keys a screen sends
  Workers,       \* runs of the timer that can be under way together
  Modes,         \* the modes a run can find the settings in
  MaxPerMinute,  \* COMMS_MAX_PER_MINUTE
  MaxAttempts,   \* MAX_ATTEMPTS
  Threshold,     \* COMMS_APPROVAL_THRESHOLD
  MaxDrafts,     \* bound: drafts ever made
  MaxFaults      \* bound: runs that die

ASSUME CommsAssumption ==
  /\ MaxPerMinute \in Nat \ {0} /\ MaxAttempts \in Nat \ {0} /\ Threshold \in Nat
  /\ MaxDrafts \in Nat /\ MaxFaults \in Nat
  /\ IsFiniteSet(Jobs) /\ IsFiniteSet(Rcpts)
  /\ Modes \subseteq {"live", "dry-run"}

NoJob == "no job"
NoOne == "no one"
NoKey == "no key"
NoRcpt == "no recipient"
ASSUME NothingIsNamedNothing ==
  NoJob \notin Jobs /\ NoOne \notin People /\ NoKey \notin SubmitKeys /\ NoRcpt \notin Rcpts

NoDraft == 0
Drafts == 1..MaxDrafts

JobStatuses  == {"awaiting_approval", "queued", "sending", "sent", "failed", "cancelled"}
GoingStatuses == {"queued", "sending"}
OverStatuses == {"sent", "failed", "cancelled"}
Cancellable  == {"awaiting_approval", "queued", "sending"}
RcptStatuses == {"queued", "would_send", "sending", "sent", "failed", "blocked", "cancelled"}
WaitingStatuses == {"queued", "would_send"}
PendingStatuses == {"queued", "would_send", "sending"}

\* A row of dbo.Correspondence.
Job == [status : JobStatuses \cup {"unused"}, kind : {"mail", "system"}, by : People \cup {NoOne},
        key : SubmitKeys \cup {NoKey}, needs : BOOLEAN, approver : People \cup {NoOne}]
UnusedJob == [status |-> "unused", kind |-> "mail", by |-> NoOne, key |-> NoKey,
              needs |-> FALSE, approver |-> NoOne]

\* A row of dbo.CorrespondenceRecipients.  waits, recent and stale compare a stored
\* time with the clock: NextAttemptAt is still to come; LastAttemptAt is within the
\* last minute; it is more than STALE_SENDING_MINUTES ago.  attempts is not bounded by
\* MaxAttempts: runs that overlap can claim once more what another has used up.
Rcpt == [job : Jobs \cup {NoJob}, status : RcptStatuses \cup {"unused"}, attempts : Nat,
         draft : Drafts \cup {NoDraft}, waits : BOOLEAN, recent : BOOLEAN, stale : BOOLEAN]
UnusedRcpt == [job |-> NoJob, status |-> "unused", attempts |-> 0, draft |-> NoDraft,
               waits |-> FALSE, recent |-> FALSE, stale |-> FALSE]

\* What a run has read of a recipient, and where it is.
Item == [rcpt : Rcpts, status : WaitingStatuses, attempts : Nat,
         draft : Drafts \cup {NoDraft}]
Phases == {"idle", "counting", "reading", "items", "claimed", "drafting", "saving", "sending",
           "outcome", "settling"}
Run == [pc : Phases, mode : {"live", "dry-run"}, budget : 0..MaxPerMinute, items : SUBSET Item,
        at : Rcpts \cup {NoRcpt}, attempt : Nat, draft : Drafts \cup {NoDraft},
        result : {"none", "sent", "retry", "fail"}, touched : SUBSET Jobs]
NoRun == [pc |-> "idle", mode |-> "live", budget |-> 0, items |-> {}, at |-> NoRcpt,
          attempt |-> 0, draft |-> NoDraft, result |-> "none", touched |-> {}]

VARIABLES
  jobs,      \* dbo.Correspondence
  rcpts,     \* dbo.CorrespondenceRecipients
  refused,   \* recipients the server's records refuse, or whose merge has a blank
  run,       \* per worker
  drafts,    \* Graph: drafts made and not yet sent
  nextDraft, \* Graph: the next message id
  arrived,   \* Graph: per recipient, how many messages went out
  faults     \* faults still to come

graph == <<drafts, nextDraft, arrived>>
vars == <<jobs, rcpts, refused, run, drafts, nextDraft, arrived, faults>>

-----------------------------------------------------------------------------
RcptsOf(j) == {r \in Rcpts : rcpts[r].job = j}
Pending(j) == {r \in RcptsOf(j) : rcpts[r].status \in PendingStatuses}
Sent(j)    == {r \in RcptsOf(j) : rcpts[r].status = "sent"}
UnusedJobs == {j \in Jobs : jobs[j].status = "unused"}
UnusedRcpts == {r \in Rcpts : rcpts[r].status = "unused"}

Init ==
  /\ jobs = [j \in Jobs |-> UnusedJob]
  /\ rcpts = [r \in Rcpts |-> UnusedRcpt]
  /\ refused \in SUBSET Rcpts
  /\ run = [w \in Workers |-> NoRun]
  /\ drafts = {}
  /\ nextDraft = 1
  /\ arrived = [r \in Rcpts |-> 0]
  /\ faults = MaxFaults

-----------------------------------------------------------------------------
(* queueCorrespondence, sendTestCorrespondence: writeJob, one transaction.   *)
(* The locks it takes (the key's, and the range of this person's sends) make  *)
(* it one step; a wait of ten seconds for them ends in an error and no write. *)

\* findJobByKey, under the application lock on the person and the key.
FindByKey(p, key) == key # NoKey /\ \E j \in Jobs : jobs[j].by = p /\ jobs[j].key = key

\* recentRecipientCount: what this person has queued, cancelled sends and tests aside.
RecentRecipients(p) ==
  {r \in Rcpts : /\ rcpts[r].job \in Jobs
                 /\ LET j == jobs[rcpts[r].job]
                    IN j.by = p /\ j.kind = "mail" /\ j.status # "cancelled"}
\* approvalDecision: large itself, or with what went before it.
NeedsApproval(p, R) == Cardinality(R) + Cardinality(RecentRecipients(p)) > Threshold

WriteJob(j, job, R) ==
  /\ jobs' = [jobs EXCEPT ![j] = job]
  /\ rcpts' = [r \in Rcpts |->
                 IF r \in R
                 THEN [UnusedRcpt EXCEPT !.job = j,
                         !.status = IF r \in refused THEN "blocked" ELSE "queued"]
                 ELSE rcpts[r]]
  /\ UNCHANGED <<refused, run, graph, faults>>

QueueMail(p, key, R) ==
  /\ R # {} /\ R \subseteq UnusedRcpts
  /\ ~(R \subseteq refused)
  /\ ~FindByKey(p, key)
  /\ UnusedJobs # {}
  /\ WriteJob(CHOOSE j \in UnusedJobs : TRUE,
              [UnusedJob EXCEPT !.status = IF NeedsApproval(p, R) THEN "awaiting_approval" ELSE "queued",
                                !.by = p, !.key = key, !.needs = NeedsApproval(p, R)],
              R)

\* A test goes to the person asking: never counted, never waits for a manager.
SendTest(p, r) ==
  /\ r \in UnusedRcpts \ refused
  /\ UnusedJobs # {}
  /\ WriteJob(CHOOSE j \in UnusedJobs : TRUE,
              [UnusedJob EXCEPT !.status = "queued", !.kind = "system", !.by = p], {r})

Approve(p, j) ==
  /\ jobs[j].by # p
  /\ jobs[j].status = "awaiting_approval"
  /\ jobs' = [jobs EXCEPT ![j].status = "queued", ![j].approver = p]
  /\ UNCHANGED <<rcpts, refused, run, graph, faults>>

\* cancelWaitingRecipients.
WithWaitingCancelled(j) ==
  [r \in Rcpts |-> IF rcpts[r].job = j /\ rcpts[r].status \in WaitingStatuses
                   THEN [rcpts[r] EXCEPT !.status = "cancelled"] ELSE rcpts[r]]
Cancel(j) ==
  /\ jobs[j].status \in Cancellable
  /\ jobs' = [jobs EXCEPT ![j].status = "cancelled"]
  /\ rcpts' = WithWaitingCancelled(j)
  /\ UNCHANGED <<refused, run, graph, faults>>

-----------------------------------------------------------------------------
(* runCommsQueue: one run.                                                    *)

Become(w, state) == run' = [run EXCEPT ![w] = state]

\* recoverStale: with no draft it can go again while it has attempts left; with one
\* the send may have happened, and a person has to look.
Recovered(r) ==
  IF ~(rcpts[r].status = "sending" /\ rcpts[r].stale) THEN rcpts[r]
  ELSE [rcpts[r] EXCEPT !.stale = FALSE,
          !.status = IF rcpts[r].draft = NoDraft /\ rcpts[r].attempts < MaxAttempts
                     THEN "queued" ELSE "failed"]
StaleJobs == {rcpts[r].job : r \in {x \in Rcpts : rcpts[x].status = "sending" /\ rcpts[x].stale}}

RunStarts(w, mode) ==
  /\ run[w].pc = "idle"
  /\ mode \in Modes
  /\ rcpts' = IF mode = "live" THEN [r \in Rcpts |-> Recovered(r)] ELSE rcpts
  /\ Become(w, [NoRun EXCEPT !.pc = "counting", !.mode = mode,
                             !.touched = IF mode = "live" THEN StaleJobs ELSE {}])
  /\ UNCHANGED <<jobs, refused, graph, faults>>

RecentAttempts == Cardinality({r \in Rcpts : rcpts[r].recent})
Budget == IF RecentAttempts > MaxPerMinute THEN 0 ELSE MaxPerMinute - RecentAttempts
RunCounts(w) ==
  /\ run[w].pc = "counting"
  /\ Become(w, [run[w] EXCEPT !.pc = "reading", !.budget = Budget])
  /\ UNCHANGED <<jobs, rcpts, refused, graph, faults>>

\* readQueue: at most the budget, of what is due.  Which of them come first is
\* left open: it depends on QueuedAt, which approval can put in any order.
Due(mode) ==
  {r \in Rcpts : /\ rcpts[r].job \in Jobs /\ jobs[rcpts[r].job].status \in GoingStatuses
                 /\ rcpts[r].status = "queued" \/ (mode = "live" /\ rcpts[r].status = "would_send")
                 /\ ~rcpts[r].waits}
AsRead(r) == [rcpt |-> r, status |-> rcpts[r].status, attempts |-> rcpts[r].attempts,
              draft |-> rcpts[r].draft]
Least(m, n) == IF m < n THEN m ELSE n
RunReads(w) ==
  /\ run[w].pc = "reading"
  /\ \E S \in SUBSET Due(run[w].mode) :
       /\ Cardinality(S) = Least(run[w].budget, Cardinality(Due(run[w].mode)))
       /\ Become(w, [run[w] EXCEPT !.pc = "items", !.items = {AsRead(r) : r \in S},
                                   !.touched = @ \cup {rcpts[r].job : r \in S}])
  /\ UNCHANGED <<jobs, rcpts, refused, graph, faults>>

\* The item is dealt with: on to the next.
Done(w, item) == [run[w] EXCEPT !.items = @ \ {item}]
NextItem(w) == [run[w] EXCEPT !.pc = "items", !.at = NoRcpt, !.attempt = 0, !.draft = NoDraft,
                              !.result = "none"]

\* setRecipientOutcome before the claim: only if the recipient is still as it was read.
MarkAsRead(w, item, status) ==
  /\ run[w].pc = "items" /\ item \in run[w].items
  /\ rcpts' = IF rcpts[item.rcpt].status = item.status
              THEN [rcpts EXCEPT ![item.rcpt].status = status, ![item.rcpt].waits = FALSE,
                                 ![item.rcpt].recent = @ \/ status = "would_send"]
              ELSE rcpts
  /\ Become(w, Done(w, item))
  /\ UNCHANGED <<jobs, refused, graph, faults>>
\* The merge, the records, the address or the sender refuse it.
Block(w, item) == item.rcpt \in refused /\ MarkAsRead(w, item, "blocked")
WouldSend(w, item) ==
  /\ item.rcpt \notin refused /\ run[w].mode = "dry-run"
  /\ MarkAsRead(w, item, "would_send")

\* Mutant: the claim does not look at the job.
CanClaimAnyJob(r) == rcpts[r].status \in WaitingStatuses /\ rcpts[r].attempts < MaxAttempts
\* claimRecipient: one statement; a cancelled job's recipient is not taken.
CanClaim(r) ==
  /\ rcpts[r].status \in WaitingStatuses
  /\ jobs[rcpts[r].job].status \in GoingStatuses
Claim(w, item) ==
  LET r == item.rcpt IN
  /\ run[w].pc = "items" /\ item \in run[w].items
  /\ r \notin refused /\ run[w].mode = "live"
  /\ IF CanClaim(r)
     THEN /\ rcpts' = [rcpts EXCEPT ![r].status = "sending", ![r].attempts = @ + 1,
                                    ![r].waits = FALSE, ![r].recent = TRUE]
          /\ Become(w, [Done(w, item) EXCEPT !.pc = "claimed", !.at = r, !.draft = item.draft,
                                             !.attempt = item.attempts + 1])
     ELSE /\ Become(w, Done(w, item))
          /\ UNCHANGED rcpts
  /\ UNCHANGED <<jobs, refused, graph, faults>>

\* markJobSending: only from queued.  A draft made by an earlier attempt is used again.
MarkJobSending(w) ==
  LET j == rcpts[run[w].at].job IN
  /\ run[w].pc = "claimed"
  /\ jobs' = IF jobs[j].status = "queued" THEN [jobs EXCEPT ![j].status = "sending"] ELSE jobs
  /\ Become(w, [run[w] EXCEPT !.pc = IF run[w].draft = NoDraft THEN "drafting" ELSE "sending"])
  /\ UNCHANGED <<rcpts, refused, graph, faults>>

\* Mutant: the worker tries again at once, with a message of its own.
AfterErrorAgain(w) == Become(w, [run[w] EXCEPT !.pc = "drafting"])
\* classifyStatus, toSendError: a failure is worth another attempt, or it is not.
AfterError(w) ==
  \E retryable \in BOOLEAN :
    Become(w, [run[w] EXCEPT !.pc = "outcome",
                 !.result = IF retryable /\ run[w].attempt < MaxAttempts THEN "retry" ELSE "fail"])

CreateDraft(w) ==
  /\ run[w].pc = "drafting" /\ nextDraft \in Drafts
  /\ drafts' = drafts \cup {nextDraft}
  /\ nextDraft' = nextDraft + 1
  /\ Become(w, [run[w] EXCEPT !.pc = "saving", !.draft = nextDraft])
  /\ UNCHANGED <<jobs, rcpts, refused, arrived, faults>>
CreateDraftFails(w) ==
  /\ run[w].pc = "drafting"
  /\ AfterError(w)
  /\ UNCHANGED <<jobs, rcpts, refused, graph, faults>>

SaveDraft(w) ==
  /\ run[w].pc = "saving"
  /\ rcpts' = [rcpts EXCEPT ![run[w].at].draft = run[w].draft]
  /\ Become(w, [run[w] EXCEPT !.pc = "sending"])
  /\ UNCHANGED <<jobs, refused, graph, faults>>

\* Losing them is an error like any other: the next attempt makes another draft.
SaveDraftFails(w) ==
  /\ run[w].pc = "saving" /\ faults > 0
  /\ faults' = faults - 1
  /\ Become(w, [run[w] EXCEPT !.pc = "outcome",
                              !.result = IF run[w].attempt < MaxAttempts THEN "retry" ELSE "fail"])
  /\ UNCHANGED <<jobs, rcpts, refused, graph>>

\* sendDraft: Graph sends the draft, and its answer arrives or is lost.
SendDraft(w) ==
  /\ run[w].pc = "sending" /\ run[w].draft \in drafts
  /\ drafts' = drafts \ {run[w].draft}
  /\ arrived' = [arrived EXCEPT ![run[w].at] = @ + 1]
  /\ \/ Become(w, [run[w] EXCEPT !.pc = "outcome", !.result = "sent"])
     \/ AfterError(w)
  /\ UNCHANGED <<jobs, rcpts, refused, nextDraft, faults>>
\* Or it sends nothing.  A draft that has gone is answered 404: never again.
SendDraftFails(w) ==
  /\ run[w].pc = "sending"
  /\ \/ run[w].draft \in drafts /\ AfterError(w)
     \/ run[w].draft \notin drafts /\ Become(w, [run[w] EXCEPT !.pc = "outcome", !.result = "fail"])
  /\ UNCHANGED <<jobs, rcpts, refused, graph, faults>>

\* outcome: only if the recipient is still in sending.
OutcomeStatus(result) ==
  CASE result = "sent" -> "sent" [] result = "retry" -> "queued" [] OTHER -> "failed"
RecordOutcome(w) ==
  LET r == run[w].at IN
  /\ run[w].pc = "outcome"
  /\ rcpts' = IF rcpts[r].status # "sending" THEN rcpts
              ELSE [rcpts EXCEPT ![r].status = OutcomeStatus(run[w].result),
                                 ![r].waits = run[w].result = "retry",
                                 ![r].draft = IF run[w].result = "sent" THEN run[w].draft ELSE @]
  /\ Become(w, NextItem(w))
  /\ UNCHANGED <<jobs, refused, graph, faults>>

ItemsDone(w) ==
  /\ run[w].pc = "items" /\ run[w].items = {}
  /\ Become(w, [run[w] EXCEPT !.pc = "settling"])
  /\ UNCHANGED <<jobs, rcpts, refused, graph, faults>>

\* Mutant: a job of which nothing went is left.
CanCompleteSent(j) == jobs[j].status \in GoingStatuses /\ Sent(j) # {}
CanComplete(j) == jobs[j].status \in GoingStatuses
\* settleJob: what a retry put back into a cancelled job is cancelled; a job with
\* nothing waiting is completed.
Settle(w, j) ==
  /\ run[w].pc = "settling" /\ j \in run[w].touched
  /\ rcpts' = IF jobs[j].status = "cancelled" THEN WithWaitingCancelled(j) ELSE rcpts
  /\ jobs' = IF Pending(j) = {} /\ CanComplete(j)
             THEN [jobs EXCEPT ![j].status = IF Sent(j) # {} THEN "sent" ELSE "failed"]
             ELSE jobs
  /\ Become(w, [run[w] EXCEPT !.touched = @ \ {j}])
  /\ UNCHANGED <<refused, graph, faults>>

RunEnds(w) ==
  /\ run[w].pc = "settling" /\ run[w].touched = {}
  /\ Become(w, NoRun)
  /\ UNCHANGED <<jobs, rcpts, refused, graph, faults>>

\* A statement fails, the host restarts or the function times out: the run is gone.
RunDies(w) ==
  /\ faults > 0 /\ run[w].pc # "idle"
  /\ faults' = faults - 1
  /\ Become(w, NoRun)
  /\ UNCHANGED <<jobs, rcpts, refused, graph>>

-----------------------------------------------------------------------------
(* Time, and the records behind the recipients.                               *)

\* host.json gives a run ten minutes, and a recipient is stale ten minutes after its
\* claim: by then the run that claimed it is gone.
Orphan(r) == rcpts[r].status = "sending" /\ \A w \in Workers : run[w].at # r
StalePasses(r) ==
  /\ Orphan(r) /\ ~rcpts[r].stale
  /\ rcpts' = [rcpts EXCEPT ![r].stale = TRUE, ![r].recent = FALSE]
  /\ UNCHANGED <<jobs, refused, run, graph, faults>>
MinutePasses(r) ==
  /\ rcpts[r].recent
  /\ rcpts' = [rcpts EXCEPT ![r].recent = FALSE]
  /\ UNCHANGED <<jobs, refused, run, graph, faults>>
WaitPasses(r) ==
  /\ rcpts[r].waits
  /\ rcpts' = [rcpts EXCEPT ![r].waits = FALSE]
  /\ UNCHANGED <<jobs, refused, run, graph, faults>>
RecordChanges(r) ==
  /\ refused' = IF r \in refused THEN refused \ {r} ELSE refused \cup {r}
  /\ UNCHANGED <<jobs, rcpts, run, graph, faults>>

-----------------------------------------------------------------------------
RequestStep ==
  \/ \E p \in People :
       \/ \E key \in SubmitKeys \cup {NoKey}, R \in SUBSET Rcpts : QueueMail(p, key, R)
       \/ \E r \in Rcpts : SendTest(p, r)
       \/ \E j \in Jobs : Approve(p, j)
  \/ \E j \in Jobs : Cancel(j)

RunStep(w) ==
  \/ RunCounts(w) \/ RunReads(w)
  \/ \E item \in run[w].items : Block(w, item) \/ WouldSend(w, item) \/ Claim(w, item)
  \/ MarkJobSending(w) \/ CreateDraft(w) \/ CreateDraftFails(w) \/ SaveDraft(w)
  \/ SendDraft(w) \/ SendDraftFails(w) \/ RecordOutcome(w)
  \/ ItemsDone(w) \/ (\E j \in Jobs : Settle(w, j)) \/ RunEnds(w)

TimeStep == \E r \in Rcpts : StalePasses(r) \/ MinutePasses(r) \/ WaitPasses(r)

Next ==
  \/ RequestStep
  \/ \E w \in Workers : \/ RunStep(w) \/ SaveDraftFails(w) \/ RunDies(w)
                        \/ \E mode \in Modes : RunStarts(w, mode)
  \/ TimeStep
  \/ \E r \in Rcpts : RecordChanges(r)

Spec == Init /\ [][Next]_vars

\* The timer fires every minute and a run it starts goes on; times pass.
Fairness ==
  /\ \A w \in Workers : WF_vars(RunStep(w)) /\ WF_vars(RunStarts(w, "live"))
  /\ \A r \in Rcpts : WF_vars(StalePasses(r)) /\ WF_vars(MinutePasses(r)) /\ WF_vars(WaitPasses(r))
FairSpec == Spec /\ Fairness

-----------------------------------------------------------------------------
TypeOK ==
  /\ jobs \in [Jobs -> Job] /\ rcpts \in [Rcpts -> Rcpt]
  /\ refused \subseteq Rcpts
  /\ run \in [Workers -> Run]
  /\ drafts \subseteq Drafts /\ nextDraft \in 1..(MaxDrafts + 1)
  /\ arrived \in [Rcpts -> Nat]
  /\ faults \in 0..MaxFaults

\* Nobody gets the same email twice, whatever was retried after whichever failure
\* (graphSend.ts: "retry a failed send without making a second message").
SentAtMostOnce == \A r \in Rcpts : arrived[r] <= 1

\* What is recorded as sent did go out (worker.ts records the outcome after the send).
SentMeansGone == \A r \in Rcpts : rcpts[r].status = "sent" => arrived[r] > 0

\* Nothing of a send that needs a manager goes before somebody else has approved it
\* (decide.ts: nobody approves what they queued).
NothingGoesUnapproved ==
  \A r \in Rcpts : arrived[r] > 0 =>
    LET j == jobs[rcpts[r].job]
    IN j.needs => j.approver \in People \ {j.by}

\* Splitting a send does not get around the manager: what one person has sent without
\* one stays within the threshold (queueJob.ts).
WithinThreshold ==
  \A p \in People :
    Cardinality({r \in RecentRecipients(p) : ~jobs[rcpts[r].job].needs}) <= Threshold

\* A repeated submit makes no second send (idempotency.ts).
OneJobPerSubmit ==
  \A i, j \in Jobs : jobs[i].key # NoKey /\ jobs[i].key = jobs[j].key /\ jobs[i].by = jobs[j].by
                       => i = j

\* One run at a time starts at most MaxPerMinute messages in a minute (worker.ts).
WithinBudget == RecentAttempts <= MaxPerMinute

\* What arrives is what was meant: once, recorded as it went, by leave of a manager where
\* one is needed, of one submit and within the budget, under retries, lost answers and
\* runs that die.
MailGoesAsMeant ==
  /\ SentAtMostOnce /\ SentMeansGone /\ OneJobPerSubmit
  /\ NothingGoesUnapproved /\ WithinThreshold /\ WithinBudget

\* A cancel is a stop: only a recipient in flight when it landed can still go
\* (decide.ts), also when its retry had been put back.
CancelStops ==
  [][\A r \in Rcpts :
       rcpts[r].job \in Jobs /\ jobs[rcpts[r].job].status = "cancelled" /\ rcpts[r].status # "sending"
         => rcpts'[r].status # "sending" /\ arrived'[r] = arrived[r]]_vars

\* A job ends once: no approval, run or late outcome takes it up again (queueStore.ts).
JobEndsOnce ==
  [][\A j \in Jobs : jobs[j].status \in OverStatuses => jobs'[j].status = jobs[j].status]_vars

\* What is over stays over: a cancelled send stops, and no job ends twice, whatever a run
\* that read the queue before still does.
OverIsOver == CancelStops /\ JobEndsOnce

\* A job with nothing left waiting is completed (queueStore.ts), and nothing waits for ever.
EveryJobEnds ==
  \A j \in Jobs : (jobs[j].status \in GoingStatuses) ~> (jobs[j].status \in OverStatuses)
=============================================================================
