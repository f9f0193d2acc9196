----------------------------- MODULE Mail_proofs -----------------------------
(***************************************************************************)
(* What mail guarantees, going out and coming in, for any number of sends,  *)
(* recipients, people, runs, mailboxes and readers: CommsQueue, then         *)
(* MailReading, MailDesk and MailSync in turn.  They share no state.         *)
(*                                                                         *)
(* In CommsQueue a step either makes a new send or keeps what the rows are    *)
(* about (EveryStep); the invariants follow from that, from how the           *)
(* recipients' statuses move (EveryStatusMoves) and from when messages go out *)
(* (Arrivals). Two of the promises hold only while one run works at a time:   *)
(* its last section.                                                         *)
(***************************************************************************)
EXTENDS CommsQueue, MailSync, MailReading, MailDesk,
        NaturalsInduction, WellFoundedInduction, FiniteSetTheorems, TLAPS

-----------------------------------------------------------------------------
(* The inductive invariant.                                                   *)

\* Rows not in use are blank, and a recipient in use is of a send in use.
RowsInUse ==
  /\ \A j \in Jobs : jobs[j].status = "unused" => jobs[j] = UnusedJob
  /\ \A r \in Rcpts :
       IF rcpts[r].status = "unused" THEN rcpts[r] = UnusedRcpt /\ arrived[r] = 0
       ELSE rcpts[r].job \in Jobs /\ jobs[rcpts[r].job].status # "unused"

\* A run that has claimed a recipient has it alone, until it has recorded the outcome:
\* nobody else may take it meanwhile, not even the recovery of stale sends.
InHand == {"claimed", "drafting", "saving", "sending", "outcome"}
Owned ==
  /\ \A w \in Workers :
       IF run[w].pc \in InHand
       THEN /\ run[w].at \in Rcpts
            /\ rcpts[run[w].at].status = "sending" /\ ~rcpts[run[w].at].stale
       ELSE run[w].at = NoRcpt
  /\ \A v, w \in Workers : v # w /\ run[v].pc \in InHand => run[v].at # run[w].at
  /\ \A r \in Rcpts : rcpts[r].stale => rcpts[r].status = "sending"

\* What is going, in flight or gone has the leave of a manager where it needs one.
Leave(job) == job.needs => job.approver \in People \ {job.by}
LeaveGiven ==
  /\ \A j \in Jobs : jobs[j].status \in GoingStatuses => Leave(jobs[j])
  /\ \A r \in Rcpts : rcpts[r].status = "sending" \/ arrived[r] > 0 => Leave(jobs[rcpts[r].job])

\* A run that is about to record a message as sent has sent it.
OutcomeIsTrue ==
  \A w \in Workers : run[w].pc = "outcome" /\ run[w].result = "sent" => arrived[run[w].at] > 0

Inv ==
  /\ TypeOK /\ RowsInUse /\ Owned /\ LeaveGiven /\ OutcomeIsTrue
  /\ NothingGoesUnapproved /\ SentMeansGone /\ OneJobPerSubmit /\ WithinThreshold

-----------------------------------------------------------------------------
(* Types: what each write of a row leaves.                                    *)

LEMMA RcptRows ==
  /\ UnusedRcpt \in Rcpt
  /\ \A j \in Jobs : \A st \in RcptStatuses : [UnusedRcpt EXCEPT !.job = j, !.status = st] \in Rcpt
  /\ \A row \in Rcpt : \A st \in RcptStatuses : [row EXCEPT !.status = st] \in Rcpt
  /\ \A row \in Rcpt : \A st \in RcptStatuses : [row EXCEPT !.stale = FALSE, !.status = st] \in Rcpt
  /\ \A row \in Rcpt : \A st \in RcptStatuses : \A b \in BOOLEAN :
       [row EXCEPT !.status = st, !.waits = FALSE, !.recent = b] \in Rcpt
  /\ \A row \in Rcpt : [row EXCEPT !.status = "sending", !.attempts = @ + 1,
                                   !.waits = FALSE, !.recent = TRUE] \in Rcpt
  /\ \A row \in Rcpt : \A d \in Drafts \cup {NoDraft} : [row EXCEPT !.draft = d] \in Rcpt
  /\ \A row \in Rcpt : \A st \in RcptStatuses : \A b \in BOOLEAN : \A d \in Drafts \cup {NoDraft} :
       [row EXCEPT !.status = st, !.waits = b, !.draft = d] \in Rcpt
  /\ \A row \in Rcpt : [row EXCEPT !.stale = TRUE, !.recent = FALSE] \in Rcpt
  /\ \A row \in Rcpt : [row EXCEPT !.recent = FALSE] \in Rcpt
  /\ \A row \in Rcpt : [row EXCEPT !.waits = FALSE] \in Rcpt
<1> USE DEF Rcpt
<1>1. UnusedRcpt \in Rcpt
  BY DEF UnusedRcpt
<1>2. \A j \in Jobs : \A st \in RcptStatuses : [UnusedRcpt EXCEPT !.job = j, !.status = st] \in Rcpt
  BY DEF UnusedRcpt
<1>3. \A row \in Rcpt : \A st \in RcptStatuses : [row EXCEPT !.status = st] \in Rcpt
  OBVIOUS
<1>4. \A row \in Rcpt : \A st \in RcptStatuses : [row EXCEPT !.stale = FALSE, !.status = st] \in Rcpt
  OBVIOUS
<1>5. \A row \in Rcpt : \A st \in RcptStatuses : \A b \in BOOLEAN :
       [row EXCEPT !.status = st, !.waits = FALSE, !.recent = b] \in Rcpt
  OBVIOUS
<1>6. \A row \in Rcpt : [row EXCEPT !.status = "sending", !.attempts = @ + 1,
                                   !.waits = FALSE, !.recent = TRUE] \in Rcpt
  <2>1. "sending" \in RcptStatuses
    BY DEF RcptStatuses
  <2>2. \A row \in Rcpt : row.attempts \in Nat
    OBVIOUS
  <2>3. \A row \in Rcpt : \A n \in Nat : [row EXCEPT !.status = "sending", !.attempts = n,
                                                 !.waits = FALSE, !.recent = TRUE] \in Rcpt
    BY <2>1
  <2>4. \A n \in Nat : n + 1 \in Nat
    OBVIOUS
  <2> QED
    BY <2>2, <2>3, <2>4
<1>7. \A row \in Rcpt : \A d \in Drafts \cup {NoDraft} : [row EXCEPT !.draft = d] \in Rcpt
  OBVIOUS
<1>8. \A row \in Rcpt : \A st \in RcptStatuses : \A b \in BOOLEAN : \A d \in Drafts \cup {NoDraft} :
       [row EXCEPT !.status = st, !.waits = b, !.draft = d] \in Rcpt
  OBVIOUS
<1>9. \A row \in Rcpt : [row EXCEPT !.stale = TRUE, !.recent = FALSE] \in Rcpt
  OBVIOUS
<1>10. \A row \in Rcpt : [row EXCEPT !.recent = FALSE] \in Rcpt
  OBVIOUS
<1>11. \A row \in Rcpt : [row EXCEPT !.waits = FALSE] \in Rcpt
  OBVIOUS
<1> QED
  BY <1>1, <1>2, <1>3, <1>4, <1>5, <1>6, <1>7, <1>8, <1>9, <1>10, <1>11

LEMMA JobRows ==
  /\ UnusedJob \in Job
  /\ \A st \in JobStatuses : \A p \in People : \A key \in SubmitKeys \cup {NoKey} : \A b \in BOOLEAN :
       [UnusedJob EXCEPT !.status = st, !.by = p, !.key = key, !.needs = b] \in Job
  /\ \A p \in People : [UnusedJob EXCEPT !.status = "queued", !.kind = "system", !.by = p] \in Job
  /\ \A row \in Job : \A st \in JobStatuses : [row EXCEPT !.status = st] \in Job
  /\ \A row \in Job : \A st \in JobStatuses : \A p \in People :
       [row EXCEPT !.status = st, !.approver = p] \in Job
<1> USE DEF Job, UnusedJob, JobStatuses
<1>1. UnusedJob \in Job
  OBVIOUS
<1>2. \A st \in JobStatuses : \A p \in People : \A key \in SubmitKeys \cup {NoKey} : \A b \in BOOLEAN :
       [UnusedJob EXCEPT !.status = st, !.by = p, !.key = key, !.needs = b] \in Job
  OBVIOUS
<1>3. \A p \in People : [UnusedJob EXCEPT !.status = "queued", !.kind = "system", !.by = p] \in Job
  OBVIOUS
<1>4. \A row \in Job : \A st \in JobStatuses : [row EXCEPT !.status = st] \in Job
  OBVIOUS
<1>5. \A row \in Job : \A st \in JobStatuses : \A p \in People :
       [row EXCEPT !.status = st, !.approver = p] \in Job
  OBVIOUS
<1> QED
  BY <1>1, <1>2, <1>3, <1>4, <1>5

LEMMA RunRows ==
  /\ NoRun \in Run
  /\ \A mode \in {"live", "dry-run"} : \A S \in SUBSET Jobs :
       [NoRun EXCEPT !.pc = "counting", !.mode = mode, !.touched = S] \in Run
  /\ \A row \in Run : \A b \in 0..MaxPerMinute : [row EXCEPT !.pc = "reading", !.budget = b] \in Run
  /\ \A row \in Run : \A I \in SUBSET Item : \A S \in SUBSET Jobs :
       [row EXCEPT !.pc = "items", !.items = I, !.touched = S] \in Run
  /\ \A row \in Run : \A pc \in Phases : [row EXCEPT !.pc = pc] \in Run
  /\ \A row \in Run : \A I \in SUBSET Item : [row EXCEPT !.items = I] \in Run
  /\ \A row \in Run : \A pc \in Phases : \A result \in {"none", "sent", "retry", "fail"} :
       [row EXCEPT !.pc = pc, !.result = result] \in Run
  /\ \A row \in Run : \A d \in Drafts : [row EXCEPT !.pc = "saving", !.draft = d] \in Run
  /\ \A row \in Run : [row EXCEPT !.pc = "items", !.at = NoRcpt, !.attempt = 0, !.draft = NoDraft,
                                  !.result = "none"] \in Run
  /\ \A row \in Run : \A r \in Rcpts : \A d \in Drafts \cup {NoDraft} : \A n \in Nat :
       [row EXCEPT !.pc = "claimed", !.at = r, !.draft = d, !.attempt = n] \in Run
  /\ \A row \in Run : \A S \in SUBSET Jobs : [row EXCEPT !.touched = S] \in Run
<1> USE CommsAssumption DEF Run, Phases
<1>1. NoRun \in Run
  BY DEF NoRun
<1>2. \A mode \in {"live", "dry-run"} : \A S \in SUBSET Jobs :
       [NoRun EXCEPT !.pc = "counting", !.mode = mode, !.touched = S] \in Run
  BY <1>1 DEF NoRun
<1>3. \A row \in Run : \A b \in 0..MaxPerMinute : [row EXCEPT !.pc = "reading", !.budget = b] \in Run
  OBVIOUS
<1>4. \A row \in Run : \A I \in SUBSET Item : \A S \in SUBSET Jobs :
       [row EXCEPT !.pc = "items", !.items = I, !.touched = S] \in Run
  OBVIOUS
<1>5. \A row \in Run : \A pc \in Phases : [row EXCEPT !.pc = pc] \in Run
  OBVIOUS
<1>6. \A row \in Run : \A I \in SUBSET Item : [row EXCEPT !.items = I] \in Run
  OBVIOUS
<1>7. \A row \in Run : \A pc \in Phases : \A result \in {"none", "sent", "retry", "fail"} :
       [row EXCEPT !.pc = pc, !.result = result] \in Run
  BY ZenonT(60)
<1>8. \A row \in Run : \A d \in Drafts : [row EXCEPT !.pc = "saving", !.draft = d] \in Run
  OBVIOUS
<1>9. \A row \in Run : [row EXCEPT !.pc = "items", !.at = NoRcpt, !.attempt = 0, !.draft = NoDraft,
                                  !.result = "none"] \in Run
  BY ZenonT(60)
<1>10. \A row \in Run : \A r \in Rcpts : \A d \in Drafts \cup {NoDraft} : \A n \in Nat :
       [row EXCEPT !.pc = "claimed", !.at = r, !.draft = d, !.attempt = n] \in Run
  <2> SUFFICES ASSUME NEW row \in Run, NEW r \in Rcpts, NEW d \in Drafts \cup {NoDraft}, NEW n \in Nat
               PROVE  [row EXCEPT !.pc = "claimed", !.at = r, !.draft = d, !.attempt = n] \in Run
    OBVIOUS
  <2>1. [row EXCEPT !.pc = "claimed", !.at = r] \in Run
    OBVIOUS
  <2>2. PICK x : x = [row EXCEPT !.pc = "claimed", !.at = r]
    OBVIOUS
  <2>3. [x EXCEPT !.draft = d, !.attempt = n] \in Run
    BY <2>1, <2>2
  <2>4. [row EXCEPT !.pc = "claimed", !.at = r, !.draft = d, !.attempt = n] = [x EXCEPT !.draft = d, !.attempt = n]
    BY <2>2
  <2> QED
    BY <2>3, <2>4
<1>11. \A row \in Run : \A S \in SUBSET Jobs : [row EXCEPT !.touched = S] \in Run
  OBVIOUS
<1> QED
  BY <1>1, <1>2, <1>3, <1>4, <1>5, <1>6, <1>7, <1>8, <1>9, <1>10, <1>11

(* A run's next state is what it becomes; the other runs stay. *)
LEMMA Becomes ==
  ASSUME TypeOK, NEW w \in Workers, NEW state, Become(w, state)
  PROVE  run' = [run EXCEPT ![w] = state] /\ run'[w] = state
           /\ \A v \in Workers \ {w} : run'[v] = run[v]
  BY DEF TypeOK, Become

(* A step that writes one run and leaves the refusals keeps the types when what it    *)
(* writes has them.                                                                  *)
LEMMA RunTyped ==
  ASSUME TypeOK, NEW w \in Workers, NEW state \in Run, Become(w, state), UNCHANGED refused,
         jobs' \in [Jobs -> Job], rcpts' \in [Rcpts -> Rcpt],
         drafts' \subseteq Drafts, nextDraft' \in 1..(MaxDrafts + 1), arrived' \in [Rcpts -> Nat],
         faults' \in 0..MaxFaults
  PROVE  TypeOK'
  BY DEF TypeOK, Become

(* A fault fewer is a number of faults. *)
LEMMA FaultsTyped ==
  ASSUME TypeOK, faults > 0 PROVE faults - 1 \in 0..MaxFaults
  BY CommsAssumption DEF TypeOK

LEMMA Rows ==
  ASSUME TypeOK
  PROVE  /\ \A j \in Jobs : jobs[j] \in Job
         /\ \A r \in Rcpts : rcpts[r] \in Rcpt
         /\ \A w \in Workers : run[w] \in Run
         /\ \A j \in Jobs : \A row \in Job : [jobs EXCEPT ![j] = row] \in [Jobs -> Job]
         /\ \A r \in Rcpts : \A row \in Rcpt : [rcpts EXCEPT ![r] = row] \in [Rcpts -> Rcpt]
  BY DEF TypeOK

LEMMA DecisionTypes ==
  ASSUME TypeOK, NEW j \in Jobs, Cancel(j) \/ \E p \in People : Approve(p, j) PROVE TypeOK'
<1>1. ASSUME NEW p \in People, Approve(p, j)
      PROVE  TypeOK'
  <2>1. "queued" \in JobStatuses
    BY DEF JobStatuses
  <2>2. [jobs[j] EXCEPT !.status = "queued", !.approver = p] \in Job
    BY <2>1, JobRows, Rows
  <2>3. jobs' = [jobs EXCEPT ![j] = [jobs[j] EXCEPT !.status = "queued", !.approver = p]]
    BY <1>1 DEF Approve
  <2>4. jobs' \in [Jobs -> Job]
    BY <2>2, <2>3, Rows
  <2> QED
    BY <1>1, <2>4 DEF Approve, TypeOK, graph
<1>2. WithWaitingCancelled(j) \in [Rcpts -> Rcpt]
  <2>1. "cancelled" \in RcptStatuses
    BY DEF RcptStatuses
  <2> QED
    BY <2>1, RcptRows, Rows DEF WithWaitingCancelled
<1>3. ASSUME Cancel(j)
      PROVE  TypeOK'
  <2>1. "cancelled" \in JobStatuses
    BY DEF JobStatuses
  <2>2. jobs' \in [Jobs -> Job]
    BY <1>3, <2>1, JobRows, Rows DEF Cancel
  <2> QED
    BY <1>2, <1>3, <2>2 DEF Cancel, TypeOK, graph
<1> QED
  BY <1>1, <1>3

-----------------------------------------------------------------------------
(* The steps, by what they write.                                             *)

\* A step that makes no send keeps what the rows are about, and takes no job out of an
\* end or past a manager.
JobsKept ==
  \A j \in Jobs :
    /\ jobs'[j].by = jobs[j].by /\ jobs'[j].kind = jobs[j].kind /\ jobs'[j].key = jobs[j].key
    /\ jobs'[j].needs = jobs[j].needs
    /\ jobs[j].status = "unused" => jobs'[j] = jobs[j]
    /\ jobs[j].status # "unused" => jobs'[j].status # "unused"
    /\ jobs[j].status \in OverStatuses => jobs'[j].status = jobs[j].status
    /\ Leave(jobs[j]) => Leave(jobs'[j])
    /\ jobs'[j].status \in GoingStatuses => jobs[j].status \in GoingStatuses \/ Leave(jobs'[j])
RcptsKept ==
  \A r \in Rcpts :
    /\ rcpts'[r].job = rcpts[r].job
    /\ rcpts[r].status = "unused" => rcpts'[r] = rcpts[r]
    /\ rcpts[r].status # "unused" => rcpts'[r].status # "unused"

LEMMA JobsUntouched == ASSUME TypeOK, jobs' = jobs PROVE JobsKept
  BY DEF JobsKept

LEMMA RcptsUntouched == ASSUME TypeOK, rcpts' = rcpts PROVE RcptsKept
  BY DEF RcptsKept

\* One recipient in use is written, and keeps its job.
LEMMA RcptWritten ==
  ASSUME TypeOK, NEW r \in Rcpts, NEW row \in Rcpt, rcpts' = [rcpts EXCEPT ![r] = row],
         rcpts[r].status # "unused", row.status # "unused", row.job = rcpts[r].job
  PROVE  RcptsKept
  BY DEF RcptsKept, TypeOK

\* One job in use is written: its status only.
LEMMA StatusWritten ==
  ASSUME TypeOK, NEW j \in Jobs, NEW st \in JobStatuses, jobs' = [jobs EXCEPT ![j].status = st],
         jobs[j].status \notin OverStatuses \cup {"unused"},
         st \in GoingStatuses => jobs[j].status \in GoingStatuses
  PROVE  JobsKept
<1>1. jobs'[j] = [jobs[j] EXCEPT !.status = st] /\ \A i \in Jobs \ {j} : jobs'[i] = jobs[i]
  BY DEF TypeOK
<1>2. /\ jobs'[j].by = jobs[j].by /\ jobs'[j].kind = jobs[j].kind /\ jobs'[j].key = jobs[j].key
      /\ jobs'[j].needs = jobs[j].needs /\ jobs'[j].approver = jobs[j].approver /\ jobs'[j].status = st
  BY <1>1, Rows DEF Job
<1>3. st # "unused"
  BY DEF JobStatuses
<1> QED
  BY <1>1, <1>2, <1>3 DEF JobsKept, Leave

\* The cancelling of what waits writes recipients in use.
LEMMA WaitingCancelled ==
  ASSUME TypeOK, NEW j \in Jobs, rcpts' = WithWaitingCancelled(j)
  PROVE  /\ rcpts' \in [Rcpts -> Rcpt] /\ RcptsKept
         /\ \A r \in Rcpts : \/ rcpts'[r] = rcpts[r]
                             \/ /\ rcpts[r].status \in WaitingStatuses
                                /\ rcpts'[r] = [rcpts[r] EXCEPT !.status = "cancelled"]
<1>1. \A r \in Rcpts : \/ rcpts'[r] = rcpts[r]
                       \/ /\ rcpts[r].status \in WaitingStatuses
                          /\ rcpts'[r] = [rcpts[r] EXCEPT !.status = "cancelled"]
  BY DEF WithWaitingCancelled
<1>2. rcpts' \in [Rcpts -> Rcpt]
  <2>1. "cancelled" \in RcptStatuses
    BY DEF RcptStatuses
  <2> QED
    BY <2>1, RcptRows, Rows DEF WithWaitingCancelled
<1>3. \A r \in Rcpts : /\ [rcpts[r] EXCEPT !.status = "cancelled"].job = rcpts[r].job
                       /\ [rcpts[r] EXCEPT !.status = "cancelled"].status = "cancelled"
  BY Rows DEF Rcpt
<1>4. RcptsKept
  BY <1>1, <1>3 DEF RcptsKept, WaitingStatuses
<1> QED
  BY <1>1, <1>2, <1>4

\* What runs have in hand stays theirs when one of them moves on.
LEMMA OwnedStays ==
  ASSUME TypeOK, Owned, NEW w \in Workers, NEW state, Become(w, state),
         \A v \in Workers \ {w} : run[v].pc \in InHand => rcpts'[run[v].at] = rcpts[run[v].at],
         IF state.pc \in InHand
         THEN /\ state.at \in Rcpts /\ rcpts'[state.at].status = "sending" /\ ~rcpts'[state.at].stale
              /\ \A v \in Workers \ {w} : run[v].pc \in InHand => run[v].at # state.at
         ELSE state.at = NoRcpt,
         \A r \in Rcpts : rcpts'[r].stale => rcpts'[r].status = "sending"
  PROVE  Owned'
<1>1. run'[w] = state /\ \A v \in Workers \ {w} : run'[v] = run[v]
  BY Becomes
<1>2. \A v \in Workers : IF run'[v].pc \in InHand
                         THEN /\ run'[v].at \in Rcpts
                              /\ rcpts'[run'[v].at].status = "sending" /\ ~rcpts'[run'[v].at].stale
                         ELSE run'[v].at = NoRcpt
  BY <1>1 DEF Owned
<1>3. \A v \in Workers : run'[v].pc \in InHand => run'[v].at # NoRcpt
  BY <1>2, NothingIsNamedNothing
<1>4. \A u, v \in Workers : u # v /\ run'[u].pc \in InHand => run'[u].at # run'[v].at
  <2> SUFFICES ASSUME NEW u \in Workers, NEW v \in Workers, u # v, run'[u].pc \in InHand
               PROVE  run'[u].at # run'[v].at
    OBVIOUS
  <2>1. CASE run'[v].pc \notin InHand
    BY <2>1, <1>2, <1>3
  <2>2. CASE run'[v].pc \in InHand
    BY <2>2, <1>1 DEF Owned
  <2> QED
    BY <2>1, <2>2
<1> QED
  BY <1>2, <1>4 DEF Owned

\* The same when the recipients are left alone, or those in hand are.
LEMMA InHandIsSending ==
  ASSUME TypeOK, Owned, NEW v \in Workers, run[v].pc \in InHand
  PROVE  run[v].at \in Rcpts /\ rcpts[run[v].at].status = "sending" /\ ~rcpts[run[v].at].stale
  BY DEF Owned

\* A recipient that is read to be waiting is in nobody's hand.
LEMMA WaitingIsFree ==
  ASSUME TypeOK, Owned, NEW r \in Rcpts, rcpts[r].status \in WaitingStatuses, NEW v \in Workers,
         run[v].pc \in InHand
  PROVE  run[v].at # r
  BY InHandIsSending DEF WaitingStatuses

\* A run that leaves recipients alone and takes none up.
LEMMA OwnedUntouched ==
  ASSUME TypeOK, Owned, NEW w \in Workers, NEW state, Become(w, state), rcpts' = rcpts,
         IF state.pc \in InHand THEN run[w].pc \in InHand /\ state.at = run[w].at ELSE state.at = NoRcpt
  PROVE  Owned'
<1>1. state.pc \in InHand =>
        /\ state.at \in Rcpts /\ rcpts'[state.at].status = "sending" /\ ~rcpts'[state.at].stale
        /\ \A v \in Workers \ {w} : run[v].pc \in InHand => run[v].at # state.at
  BY InHandIsSending DEF Owned
<1> QED
  BY <1>1, OwnedStays DEF Owned

\* What every step but a new send does.
RowsKept == TypeOK' /\ JobsKept /\ RcptsKept /\ Owned'

\* A run that moves on by itself.
LEMMA MovesOn ==
  ASSUME TypeOK, Owned, NEW w \in Workers, NEW state \in Run, Become(w, state),
         UNCHANGED <<jobs, rcpts, refused>>,
         drafts' \subseteq Drafts, nextDraft' \in 1..(MaxDrafts + 1), arrived' \in [Rcpts -> Nat],
         faults' \in 0..MaxFaults,
         IF state.pc \in InHand THEN run[w].pc \in InHand /\ state.at = run[w].at ELSE state.at = NoRcpt
  PROVE  RowsKept
<1>1. jobs' \in [Jobs -> Job] /\ rcpts' \in [Rcpts -> Rcpt]
  BY DEF TypeOK
<1>2. TypeOK'
  BY <1>1, RunTyped
<1>3. JobsKept /\ RcptsKept
  BY JobsUntouched, RcptsUntouched
<1>4. Owned'
  BY OwnedUntouched
<1> QED
  BY <1>2, <1>3, <1>4 DEF RowsKept

\* With Graph and the faults as they were.
LEMMA GraphTyped ==
  ASSUME TypeOK
  PROVE  drafts \subseteq Drafts /\ nextDraft \in 1..(MaxDrafts + 1) /\ arrived \in [Rcpts -> Nat]
           /\ faults \in 0..MaxFaults
  BY DEF TypeOK

\* The fields of a run.
LEMMA RunFields ==
  ASSUME NEW row \in Run
  PROVE  /\ row.pc \in Phases /\ row.mode \in {"live", "dry-run"} /\ row.items \subseteq Item
         /\ row.at \in Rcpts \cup {NoRcpt} /\ row.attempt \in Nat /\ row.draft \in Drafts \cup {NoDraft}
         /\ row.result \in {"none", "sent", "retry", "fail"} /\ row.touched \subseteq Jobs
         /\ row.budget \in 0..MaxPerMinute
  BY DEF Run

LEMMA CountingKeeps == ASSUME TypeOK, Owned, NEW w \in Workers, RunCounts(w) PROVE RowsKept
<1> DEFINE state == [run[w] EXCEPT !.pc = "reading", !.budget = Budget]
<1>1. Budget \in 0..MaxPerMinute
  <2>1. IsFiniteSet({r \in Rcpts : rcpts[r].recent})
    BY CommsAssumption, FS_Subset
  <2>2. RecentAttempts \in Nat
    BY <2>1, FS_CardinalityType DEF RecentAttempts
  <2> QED
    BY <2>2, CommsAssumption DEF Budget
<1>2. state \in Run
  BY <1>1, Rows, RunRows
<1>3. state.pc = "reading" /\ state.at = run[w].at
  BY Rows DEF Run
<1>4. run[w].at = NoRcpt
  BY DEF RunCounts, Owned, InHand
<1> QED
  BY <1>2, <1>3, <1>4, MovesOn, GraphTyped DEF RunCounts, graph, InHand

LEMMA ReadingKeeps == ASSUME TypeOK, Owned, NEW w \in Workers, RunReads(w) PROVE RowsKept
<1>1. PICK S \in SUBSET Due(run[w].mode) :
        Become(w, [run[w] EXCEPT !.pc = "items", !.items = {AsRead(r) : r \in S},
                                 !.touched = @ \cup {rcpts[r].job : r \in S}])
  BY DEF RunReads
<1> DEFINE items == {AsRead(r) : r \in S}
           touched == run[w].touched \cup {rcpts[r].job : r \in S}
           state == [run[w] EXCEPT !.pc = "items", !.items = items, !.touched = touched]
<1>2. \A r \in S : AsRead(r) \in Item
  <2> SUFFICES ASSUME NEW r \in S PROVE AsRead(r) \in Item
    OBVIOUS
  <2>1. r \in Rcpts /\ rcpts[r].status \in WaitingStatuses
    BY DEF Due, WaitingStatuses
  <2>2. rcpts[r].attempts \in Nat /\ rcpts[r].draft \in Drafts \cup {NoDraft}
    BY <2>1, Rows DEF Rcpt
  <2> QED
    BY <2>1, <2>2 DEF AsRead, Item
<1>3. items \in SUBSET Item
  BY <1>2
<1>4. touched \in SUBSET Jobs
  BY Rows, RunFields DEF Due
<1>5. state \in Run
  BY <1>3, <1>4, Rows, RunRows
<1>6. state.pc = "items" /\ state.at = run[w].at
  BY Rows DEF Run
<1>7. run[w].at = NoRcpt
  BY DEF RunReads, Owned, InHand
<1>8. Become(w, state)
  BY <1>1
<1> HIDE DEF state
<1> QED
  BY <1>5, <1>6, <1>7, <1>8, MovesOn, GraphTyped DEF RunReads, graph, InHand

LEMMA DoneFields ==
  ASSUME TypeOK, NEW w \in Workers, NEW item \in run[w].items
  PROVE  /\ item \in Item /\ item.rcpt \in Rcpts /\ item.status \in WaitingStatuses
         /\ item.attempts \in Nat /\ item.draft \in Drafts \cup {NoDraft}
         /\ Done(w, item) \in Run
         /\ Done(w, item).pc = run[w].pc /\ Done(w, item).at = run[w].at
         /\ Done(w, item).items = run[w].items \ {item}
<1>1. item \in Item
  BY Rows, RunFields
<1>2. item.rcpt \in Rcpts /\ item.status \in WaitingStatuses /\ item.attempts \in Nat
        /\ item.draft \in Drafts \cup {NoDraft}
  BY <1>1 DEF Item
<1>3. Done(w, item) \in Run
  <2>1. run[w].items \ {item} \in SUBSET Item
    BY Rows, RunFields
  <2> QED
    BY <2>1, Rows, RunRows DEF Done
<1>4. Done(w, item).pc = run[w].pc /\ Done(w, item).at = run[w].at
        /\ Done(w, item).items = run[w].items \ {item}
  BY Rows DEF Done, Run
<1> QED
  BY <1>1, <1>2, <1>3, <1>4

LEMMA MarkingKeeps ==
  ASSUME TypeOK, Owned, NEW w \in Workers, NEW item \in run[w].items,
         NEW st \in {"blocked", "would_send"}, MarkAsRead(w, item, st)
  PROVE  RowsKept
<1> DEFINE r == item.rcpt
           row == [rcpts[r] EXCEPT !.status = st, !.waits = FALSE,
                                   !.recent = @ \/ st = "would_send"]
<1>1. CASE rcpts[r].status = item.status
  <2>1. r \in Rcpts /\ rcpts[r].status \in WaitingStatuses
    BY <1>1, DoneFields
  <2>2. st \in RcptStatuses
    BY DEF RcptStatuses
  <2>3. rcpts[r].recent \in BOOLEAN /\ rcpts[r] \in Rcpt
    BY <2>1, Rows DEF Rcpt
  <2>4. row \in Rcpt
    BY <2>2, <2>3, RcptRows
  <2>5. row.status = st /\ row.job = rcpts[r].job /\ row.stale = rcpts[r].stale
    BY <2>3 DEF Rcpt
  <2>6. rcpts' = [rcpts EXCEPT ![r] = row]
    BY <1>1 DEF MarkAsRead
  <2>7. RcptsKept
    BY <2>1, <2>4, <2>5, <2>6, RcptWritten DEF WaitingStatuses
  <2>8. TypeOK'
    <3>1. rcpts' \in [Rcpts -> Rcpt]
      BY <2>1, <2>4, <2>6, Rows
    <3> QED
      BY <3>1, DoneFields, RunTyped, GraphTyped DEF MarkAsRead, graph, TypeOK
  <2>9. Owned'
    <3>1. \A v \in Workers \ {w} : run[v].pc \in InHand => rcpts'[run[v].at] = rcpts[run[v].at]
      BY <2>1, <2>6, WaitingIsFree, InHandIsSending DEF TypeOK
    <3>2. \A x \in Rcpts : rcpts'[x].stale => rcpts'[x].status = "sending"
      BY <2>1, <2>5, <2>6 DEF Owned, TypeOK, WaitingStatuses
    <3>3. Done(w, item).pc \notin InHand /\ Done(w, item).at = NoRcpt
      BY DoneFields DEF MarkAsRead, Owned, InHand
    <3>4. Become(w, Done(w, item))
      BY DEF MarkAsRead
    <3> QED
      BY <3>1, <3>2, <3>3, <3>4, OwnedStays
  <2>10. JobsKept
    BY JobsUntouched DEF MarkAsRead
  <2> QED
    BY <2>7, <2>8, <2>9, <2>10 DEF RowsKept
<1>2. CASE rcpts[r].status # item.status
  <2>1. Done(w, item).pc \notin InHand /\ Done(w, item).at = NoRcpt
    BY DoneFields DEF MarkAsRead, Owned, InHand
  <2> QED
    BY <1>2, <2>1, MovesOn, DoneFields, GraphTyped DEF MarkAsRead, graph
<1> QED
  BY <1>1, <1>2

LEMMA ClaimKeeps ==
  ASSUME TypeOK, RowsInUse, Owned, NEW w \in Workers, NEW item \in run[w].items, Claim(w, item)
  PROVE  RowsKept
<1> DEFINE r == item.rcpt
           row == [rcpts[r] EXCEPT !.status = "sending", !.attempts = @ + 1,
                                   !.waits = FALSE, !.recent = TRUE]
           state == [Done(w, item) EXCEPT !.pc = "claimed", !.at = r, !.draft = item.draft,
                                          !.attempt = item.attempts + 1]
<1>0. r \in Rcpts /\ rcpts[r] \in Rcpt
  BY DoneFields, Rows
<1>1. CASE CanClaim(r)
  <2>1. rcpts[r].status \in WaitingStatuses
    BY <1>1 DEF CanClaim
  <2>2. row \in Rcpt
    BY <1>0, RcptRows
  <2>3. row.status = "sending" /\ row.job = rcpts[r].job /\ row.stale = rcpts[r].stale
    BY <1>0 DEF Rcpt
  <2>4. rcpts' = [rcpts EXCEPT ![r] = row]
    BY <1>1 DEF Claim
  <2>5. state \in Run /\ state.pc = "claimed" /\ state.at = r
    <3>1. item.attempts + 1 \in Nat
      BY DoneFields
    <3> HIDE DEF r
    <3>2. state \in Run
      BY <1>0, <3>1, DoneFields, RunRows
    <3>3. Done(w, item) \in Run
      BY DoneFields
    <3> QED
      BY <3>2, <3>3 DEF Run
  <2>6. Become(w, state)
    BY <1>1 DEF Claim
  <2>7. RcptsKept
    BY <1>0, <2>1, <2>2, <2>3, <2>4, RcptWritten DEF WaitingStatuses
  <2>8. TypeOK'
    <3>1. rcpts' \in [Rcpts -> Rcpt]
      BY <1>0, <2>2, <2>4, Rows
    <3> HIDE DEF state
    <3> QED
      BY <3>1, <2>5, <2>6, RunTyped, GraphTyped DEF Claim, graph, TypeOK
  <2>9. Owned'
    <3>1. \A v \in Workers : run[v].pc \in InHand => run[v].at # r
      BY <1>0, <2>1, WaitingIsFree
    <3>2. \A v \in Workers \ {w} : run[v].pc \in InHand => rcpts'[run[v].at] = rcpts[run[v].at]
      BY <2>4, <3>1, InHandIsSending DEF TypeOK
    <3>3. rcpts'[r] = row
      BY <1>0, <2>4 DEF TypeOK
    <3>4. ~rcpts[r].stale
      BY <1>0, <2>1 DEF Owned, WaitingStatuses
    <3>5. \A x \in Rcpts : rcpts'[x].stale => rcpts'[x].status = "sending"
      BY <1>0, <2>3, <2>4, <3>3 DEF Owned, TypeOK
    <3>6. /\ state.at \in Rcpts /\ rcpts'[state.at].status = "sending" /\ ~rcpts'[state.at].stale
          /\ \A v \in Workers \ {w} : run[v].pc \in InHand => run[v].at # state.at
      BY <1>0, <2>3, <2>5, <3>1, <3>3, <3>4
    <3>7. state.pc \in InHand
      BY <2>5 DEF InHand
    <3> HIDE DEF state, r, row
    <3> QED
      BY <2>6, <3>2, <3>5, <3>6, <3>7, OwnedStays
  <2>10. JobsKept
    BY JobsUntouched DEF Claim
  <2> QED
    BY <2>7, <2>8, <2>9, <2>10 DEF RowsKept
<1>2. CASE ~CanClaim(r)
  <2>1. Done(w, item).pc \notin InHand /\ Done(w, item).at = NoRcpt
    BY DoneFields DEF Claim, Owned, InHand
  <2> QED
    BY <1>2, <2>1, MovesOn, DoneFields, GraphTyped DEF Claim, graph
<1> QED
  BY <1>1, <1>2

\* A run with a recipient in hand: its next states.
LEMMA InHandMoves ==
  ASSUME TypeOK, NEW w \in Workers
  PROVE  /\ \A pc \in Phases : /\ [run[w] EXCEPT !.pc = pc] \in Run
                               /\ [run[w] EXCEPT !.pc = pc].pc = pc
                               /\ [run[w] EXCEPT !.pc = pc].at = run[w].at
         /\ \A result \in {"none", "sent", "retry", "fail"} :
              /\ [run[w] EXCEPT !.pc = "outcome", !.result = result] \in Run
              /\ [run[w] EXCEPT !.pc = "outcome", !.result = result].pc = "outcome"
              /\ [run[w] EXCEPT !.pc = "outcome", !.result = result].result = result
              /\ [run[w] EXCEPT !.pc = "outcome", !.result = result].at = run[w].at
         /\ \A d \in Drafts : /\ [run[w] EXCEPT !.pc = "saving", !.draft = d] \in Run
                              /\ [run[w] EXCEPT !.pc = "saving", !.draft = d].pc = "saving"
                              /\ [run[w] EXCEPT !.pc = "saving", !.draft = d].at = run[w].at
<1>1. run[w] \in Run
  BY Rows
<1>2. "outcome" \in Phases
  BY DEF Phases
<1>3. \A pc \in Phases : [run[w] EXCEPT !.pc = pc] \in Run
  BY <1>1, RunRows
<1>4. \A result \in {"none", "sent", "retry", "fail"} :
        [run[w] EXCEPT !.pc = "outcome", !.result = result] \in Run
  BY <1>1, <1>2, RunRows
<1>5. \A d \in Drafts : [run[w] EXCEPT !.pc = "saving", !.draft = d] \in Run
  BY <1>1, RunRows
<1> QED
  BY ZenonT(60), <1>1, <1>3, <1>4, <1>5 DEF Run

LEMMA MarkJobKeeps ==
  ASSUME TypeOK, RowsInUse, Owned, NEW w \in Workers, MarkJobSending(w) PROVE RowsKept
<1> DEFINE j == rcpts[run[w].at].job
           state == [run[w] EXCEPT !.pc = IF run[w].draft = NoDraft THEN "drafting" ELSE "sending"]
<1>1. run[w].pc \in InHand
  BY DEF MarkJobSending, InHand
<1>2. j \in Jobs
  BY <1>1, InHandIsSending DEF RowsInUse
<1>3. "sending" \in JobStatuses
  BY DEF JobStatuses
<1>4. jobs' = jobs \/ (jobs[j].status = "queued" /\ jobs' = [jobs EXCEPT ![j].status = "sending"])
  BY DEF MarkJobSending
<1>5. JobsKept
  BY <1>2, <1>3, <1>4, JobsUntouched, StatusWritten DEF GoingStatuses, OverStatuses
<1>6. jobs' \in [Jobs -> Job]
  <2>1. [jobs[j] EXCEPT !.status = "sending"] \in Job
    BY <1>2, <1>3, JobRows, Rows
  <2>2. [jobs EXCEPT ![j].status = "sending"] = [jobs EXCEPT ![j] = [jobs[j] EXCEPT !.status = "sending"]]
    OBVIOUS
  <2>3. jobs \in [Jobs -> Job]
    BY DEF TypeOK
  <2> QED
    BY <1>2, <1>4, <2>1, <2>2, <2>3, Rows
<1>7. (IF run[w].draft = NoDraft THEN "drafting" ELSE "sending") \in Phases \cap InHand
  BY DEF Phases, InHand
<1>8. state \in Run /\ state.pc \in InHand /\ state.at = run[w].at
  BY <1>7, InHandMoves
<1>9. Become(w, state) /\ rcpts' = rcpts /\ UNCHANGED <<refused, graph, faults>>
  BY DEF MarkJobSending
<1> HIDE DEF state, j
<1>10. TypeOK'
  BY <1>6, <1>8, <1>9, RunTyped, GraphTyped, Rows DEF graph, TypeOK
<1>11. Owned'
  BY <1>1, <1>8, <1>9, OwnedUntouched
<1>12. RcptsKept
  BY <1>9, RcptsUntouched
<1> QED
  BY <1>5, <1>10, <1>11, <1>12 DEF RowsKept

LEMMA ErrorKeeps ==
  ASSUME TypeOK, NEW w \in Workers, AfterError(w)
  PROVE  \E result \in {"retry", "fail"} :
           Become(w, [run[w] EXCEPT !.pc = "outcome", !.result = result])
<1>1. PICK retryable \in BOOLEAN :
        Become(w, [run[w] EXCEPT !.pc = "outcome",
                 !.result = IF retryable /\ run[w].attempt < MaxAttempts THEN "retry" ELSE "fail"])
  BY DEF AfterError
<1>2. CASE retryable /\ run[w].attempt < MaxAttempts
  BY <1>1, <1>2
<1>3. CASE ~(retryable /\ run[w].attempt < MaxAttempts)
  BY <1>1, <1>3
<1> QED
  BY <1>2, <1>3

\* A run that comes to an outcome, or to another step with the same recipient.
LEMMA GoesOn ==
  ASSUME TypeOK, Owned, NEW w \in Workers, run[w].pc \in InHand,
         NEW state \in Run, Become(w, state), state.pc \in InHand, state.at = run[w].at,
         UNCHANGED <<jobs, rcpts, refused>>,
         drafts' \subseteq Drafts, nextDraft' \in 1..(MaxDrafts + 1), arrived' \in [Rcpts -> Nat],
         faults' \in 0..MaxFaults
  PROVE  RowsKept
  BY MovesOn

LEMMA ComesToOutcome ==
  ASSUME TypeOK, Owned, NEW w \in Workers, run[w].pc \in InHand,
         \E result \in {"sent", "retry", "fail"} :
           Become(w, [run[w] EXCEPT !.pc = "outcome", !.result = result]),
         UNCHANGED <<jobs, rcpts, refused>>,
         drafts' \subseteq Drafts, nextDraft' \in 1..(MaxDrafts + 1), arrived' \in [Rcpts -> Nat],
         faults' \in 0..MaxFaults
  PROVE  RowsKept
<1>1. PICK result \in {"sent", "retry", "fail"} :
        Become(w, [run[w] EXCEPT !.pc = "outcome", !.result = result])
  OBVIOUS
<1> DEFINE state == [run[w] EXCEPT !.pc = "outcome", !.result = result]
<1>2. state \in Run /\ state.pc = "outcome" /\ state.at = run[w].at
  <2>1. result \in {"none", "sent", "retry", "fail"}
    OBVIOUS
  <2> QED
    BY <2>1, InHandMoves
<1>3. Become(w, state)
  BY <1>1
<1> HIDE DEF state
<1> QED
  BY <1>2, <1>3, GoesOn DEF InHand

LEMMA CreatingKeeps ==
  ASSUME TypeOK, Owned, NEW w \in Workers, CreateDraft(w) \/ CreateDraftFails(w) PROVE RowsKept
<1>1. run[w].pc \in InHand
  BY DEF CreateDraft, CreateDraftFails, InHand
<1>2. CASE CreateDraft(w)
  <2>1. nextDraft \in Drafts
    BY <1>2 DEF CreateDraft
  <2>2. drafts' \subseteq Drafts /\ nextDraft' \in 1..(MaxDrafts + 1)
    BY <1>2, CommsAssumption DEF CreateDraft, TypeOK, Drafts
  <2> QED
    BY <1>1, <1>2, <2>1, <2>2, InHandMoves, GoesOn, GraphTyped DEF CreateDraft, InHand
<1>3. CASE CreateDraftFails(w)
  <2>1. \E result \in {"sent", "retry", "fail"} :
          Become(w, [run[w] EXCEPT !.pc = "outcome", !.result = result])
    BY <1>3, ErrorKeeps DEF CreateDraftFails
  <2> QED
    BY <1>1, <1>3, <2>1, ComesToOutcome, GraphTyped DEF CreateDraftFails, graph
<1> QED
  BY <1>2, <1>3

LEMMA SaveFailingKeeps ==
  ASSUME TypeOK, Owned, NEW w \in Workers, SaveDraftFails(w) PROVE RowsKept
<1>1. run[w].pc \in InHand
  BY DEF SaveDraftFails, InHand
<1>2. \E result \in {"sent", "retry", "fail"} :
        Become(w, [run[w] EXCEPT !.pc = "outcome", !.result = result])
  <2>1. CASE run[w].attempt < MaxAttempts
    BY <2>1 DEF SaveDraftFails
  <2>2. CASE ~(run[w].attempt < MaxAttempts)
    BY <2>2 DEF SaveDraftFails
  <2> QED
    BY <2>1, <2>2
<1>3. faults' \in 0..MaxFaults
  BY FaultsTyped DEF SaveDraftFails
<1> QED
  BY <1>1, <1>2, <1>3, ComesToOutcome, GraphTyped DEF SaveDraftFails, graph

LEMMA SendingKeeps ==
  ASSUME TypeOK, Owned, NEW w \in Workers, SendDraft(w) \/ SendDraftFails(w) PROVE RowsKept
<1>1. run[w].pc \in InHand
  BY DEF SendDraft, SendDraftFails, InHand
<1>2. CASE SendDraft(w)
  <2>1. drafts' \subseteq Drafts
    BY <1>2 DEF SendDraft, TypeOK
  <2>2. arrived' \in [Rcpts -> Nat]
    <3>1. run[w].at \in Rcpts
      BY <1>1, InHandIsSending
    <3>2. arrived[run[w].at] + 1 \in Nat
      BY <3>1, GraphTyped
    <3>3. arrived' = [arrived EXCEPT ![run[w].at] = arrived[run[w].at] + 1]
      BY <1>2 DEF SendDraft
    <3> QED
      BY <3>2, <3>3, GraphTyped
  <2>3. \E result \in {"sent", "retry", "fail"} :
          Become(w, [run[w] EXCEPT !.pc = "outcome", !.result = result])
    BY <1>2, ErrorKeeps DEF SendDraft
  <2> QED
    BY <1>1, <1>2, <2>1, <2>2, <2>3, ComesToOutcome, GraphTyped DEF SendDraft
<1>3. CASE SendDraftFails(w)
  <2>1. \E result \in {"sent", "retry", "fail"} :
          Become(w, [run[w] EXCEPT !.pc = "outcome", !.result = result])
    BY <1>3, ErrorKeeps DEF SendDraftFails
  <2> QED
    BY <1>1, <1>3, <2>1, ComesToOutcome, GraphTyped DEF SendDraftFails, graph
<1> QED
  BY <1>2, <1>3

\* What a run has in hand is written, and stays in flight or leaves its hand.
LEMMA SavingKeeps == ASSUME TypeOK, Owned, NEW w \in Workers, SaveDraft(w) PROVE RowsKept
<1> DEFINE r == run[w].at
           row == [rcpts[r] EXCEPT !.draft = run[w].draft]
           state == [run[w] EXCEPT !.pc = "sending"]
<1>1. run[w].pc \in InHand
  BY DEF SaveDraft, InHand
<1>2. r \in Rcpts /\ rcpts[r].status = "sending" /\ ~rcpts[r].stale /\ rcpts[r] \in Rcpt
  BY <1>1, InHandIsSending, Rows
<1>3. row \in Rcpt
  BY <1>2, Rows, RunFields, RcptRows
<1>4. row.status = "sending" /\ row.job = rcpts[r].job /\ row.stale = rcpts[r].stale
  BY <1>2 DEF Rcpt
<1>5. rcpts' = [rcpts EXCEPT ![r] = row] /\ Become(w, state) /\ jobs' = jobs
        /\ UNCHANGED <<refused, graph, faults>>
  BY DEF SaveDraft
<1>6. state \in Run /\ state.pc = "sending" /\ state.at = r
  BY InHandMoves DEF Phases
<1>7. RcptsKept
  BY <1>2, <1>3, <1>4, <1>5, RcptWritten
<1>8. rcpts'[r] = row /\ \A x \in Rcpts \ {r} : rcpts'[x] = rcpts[x]
  BY <1>2, <1>5 DEF TypeOK
<1>9. \A v \in Workers \ {w} : run[v].pc \in InHand => run[v].at \in Rcpts \ {r}
  BY <1>1, InHandIsSending DEF Owned
<1>10. \A x \in Rcpts : rcpts'[x].stale => rcpts'[x].status = "sending"
  BY <1>4, <1>8 DEF Owned
<1>11. rcpts' \in [Rcpts -> Rcpt]
  BY <1>2, <1>3, <1>5, Rows
<1>12. TypeOK'
  <2> HIDE DEF state
  <2> QED
    BY <1>5, <1>6, <1>11, RunTyped, GraphTyped DEF graph, TypeOK
<1>13. Owned'
  <2>1. \A v \in Workers \ {w} : run[v].pc \in InHand => rcpts'[run[v].at] = rcpts[run[v].at]
    BY <1>8, <1>9
  <2>2. /\ state.at \in Rcpts /\ rcpts'[state.at].status = "sending" /\ ~rcpts'[state.at].stale
        /\ \A v \in Workers \ {w} : run[v].pc \in InHand => run[v].at # state.at
    BY <1>2, <1>4, <1>6, <1>8, <1>9
  <2>3. state.pc \in InHand
    BY <1>6 DEF InHand
  <2> HIDE DEF state
  <2> QED
    BY <1>5, <1>10, <2>1, <2>2, <2>3, OwnedStays
<1>14. JobsKept
  BY <1>5, JobsUntouched
<1> QED
  BY <1>7, <1>12, <1>13, <1>14 DEF RowsKept

\* Between recipients a run has none.
LEMMA NextItemFields ==
  ASSUME TypeOK, NEW w \in Workers
  PROVE  NextItem(w) \in Run /\ NextItem(w).pc = "items" /\ NextItem(w).at = NoRcpt
           /\ NextItem(w).items = run[w].items
<1>1. run[w] \in Run
  BY Rows
<1>2. NextItem(w) \in Run
  BY <1>1, RunRows DEF NextItem
<1> QED
  BY <1>1, <1>2 DEF NextItem, Run

LEMMA RecordingKeeps == ASSUME TypeOK, Owned, NEW w \in Workers, RecordOutcome(w) PROVE RowsKept
<1> DEFINE r == run[w].at
           status == OutcomeStatus(run[w].result)
           waits == run[w].result = "retry"
           draft == IF run[w].result = "sent" THEN run[w].draft ELSE rcpts[r].draft
           row == [rcpts[r] EXCEPT !.status = status, !.waits = waits, !.draft = draft]
<1>1. run[w].pc \in InHand
  BY DEF RecordOutcome, InHand
<1>2. r \in Rcpts /\ rcpts[r].status = "sending" /\ ~rcpts[r].stale /\ rcpts[r] \in Rcpt
  BY <1>1, InHandIsSending, Rows
<1>3. status \in RcptStatuses /\ status # "unused"
  BY DEF OutcomeStatus, RcptStatuses
<1>4. draft \in Drafts \cup {NoDraft}
  BY <1>2, Rows, RunFields DEF Rcpt
<1>5. waits \in BOOLEAN
  OBVIOUS
<1>6. rcpts' = [rcpts EXCEPT ![r] = row]
  BY <1>2 DEF RecordOutcome
<1> HIDE DEF status, waits, draft
<1>7. row \in Rcpt
  BY <1>2, <1>3, <1>4, <1>5, RcptRows
<1>8. row.status = status /\ row.job = rcpts[r].job /\ row.stale = rcpts[r].stale
  BY <1>2 DEF Rcpt
<1>9. Become(w, NextItem(w)) /\ jobs' = jobs /\ UNCHANGED <<refused, graph, faults>>
  BY DEF RecordOutcome
<1> HIDE DEF row
<1>10. RcptsKept
  BY <1>2, <1>3, <1>6, <1>7, <1>8, RcptWritten
<1>11. rcpts'[r] = row /\ \A x \in Rcpts \ {r} : rcpts'[x] = rcpts[x]
  BY <1>2, <1>6 DEF TypeOK
<1>12. \A v \in Workers \ {w} : run[v].pc \in InHand => rcpts'[run[v].at] = rcpts[run[v].at]
  BY <1>1, <1>11, InHandIsSending DEF Owned
<1>13. \A x \in Rcpts : rcpts'[x].stale => rcpts'[x].status = "sending"
  BY <1>2, <1>8, <1>11 DEF Owned
<1>14. rcpts' \in [Rcpts -> Rcpt]
  BY <1>2, <1>6, <1>7, Rows
<1>15. TypeOK'
  BY <1>9, <1>14, NextItemFields, RunTyped, GraphTyped DEF graph, TypeOK
<1>16. Owned'
  BY <1>9, <1>12, <1>13, NextItemFields, OwnedStays DEF InHand
<1>17. JobsKept
  BY <1>9, JobsUntouched
<1> QED
  BY <1>10, <1>15, <1>16, <1>17 DEF RowsKept

LEMMA ItemsDoneKeeps == ASSUME TypeOK, Owned, NEW w \in Workers, ItemsDone(w) PROVE RowsKept
<1> DEFINE state == [run[w] EXCEPT !.pc = "settling"]
<1>1. state \in Run /\ state.pc = "settling" /\ state.at = run[w].at
  BY InHandMoves DEF Phases
<1>2. run[w].at = NoRcpt
  BY DEF ItemsDone, Owned, InHand
<1>3. Become(w, state)
  BY DEF ItemsDone
<1> HIDE DEF state
<1> QED
  BY <1>1, <1>2, <1>3, MovesOn, GraphTyped DEF ItemsDone, graph, InHand

LEMMA SettlingKeeps ==
  ASSUME TypeOK, RowsInUse, Owned, NEW w \in Workers, NEW j \in Jobs, Settle(w, j) PROVE RowsKept
<1> DEFINE touched == run[w].touched \ {j}
           state == [run[w] EXCEPT !.touched = touched]
           status == IF Sent(j) # {} THEN "sent" ELSE "failed"
<1>1. state \in Run /\ state.pc = run[w].pc /\ state.at = run[w].at
  <2>1. run[w] \in Run /\ touched \in SUBSET Jobs
    BY Rows, RunFields
  <2>2. state \in Run
    BY <2>1, RunRows
  <2> QED
    BY <2>1, <2>2 DEF Run
<1>2. Become(w, state) /\ UNCHANGED <<refused, graph, faults>>
  BY DEF Settle
<1>3. run[w].pc = "settling" /\ state.pc \notin InHand /\ state.at = NoRcpt
  BY <1>1 DEF Settle, Owned, InHand
<1> HIDE DEF state
<1>4. rcpts' = rcpts \/ rcpts' = WithWaitingCancelled(j)
  BY DEF Settle
<1>5. RcptsKept /\ rcpts' \in [Rcpts -> Rcpt]
  BY <1>4, WaitingCancelled, RcptsUntouched DEF TypeOK
<1>6. \A r \in Rcpts : \/ rcpts'[r] = rcpts[r]
                       \/ /\ rcpts[r].status \in WaitingStatuses
                          /\ rcpts'[r] = [rcpts[r] EXCEPT !.status = "cancelled"]
  BY <1>4, WaitingCancelled
<1>7. status \in JobStatuses /\ status \notin GoingStatuses
  BY DEF JobStatuses, GoingStatuses
<1>8. jobs' = jobs \/ (jobs[j].status \in GoingStatuses /\ jobs' = [jobs EXCEPT ![j].status = status])
  BY DEF Settle, CanComplete
<1> HIDE DEF status
<1>9. JobsKept
  BY <1>7, <1>8, JobsUntouched, StatusWritten DEF GoingStatuses, OverStatuses
<1>10. jobs' \in [Jobs -> Job]
  <2>1. [jobs[j] EXCEPT !.status = status] \in Job
    BY <1>7, JobRows, Rows
  <2>2. [jobs EXCEPT ![j].status = status] = [jobs EXCEPT ![j] = [jobs[j] EXCEPT !.status = status]]
    OBVIOUS
  <2>3. jobs \in [Jobs -> Job]
    BY DEF TypeOK
  <2> QED
    BY <1>8, <2>1, <2>2, <2>3, Rows
<1>11. TypeOK'
  BY <1>1, <1>2, <1>5, <1>10, RunTyped, GraphTyped DEF graph, TypeOK
<1>12. Owned'
  <2>1. \A v \in Workers \ {w} : run[v].pc \in InHand => rcpts'[run[v].at] = rcpts[run[v].at]
    BY <1>6, InHandIsSending, WaitingIsFree
  <2>2. \A x \in Rcpts : rcpts'[x].stale => rcpts'[x].status = "sending"
    <3>1. \A x \in Rcpts : [rcpts[x] EXCEPT !.status = "cancelled"].stale = rcpts[x].stale
      BY Rows DEF Rcpt
    <3> QED
      BY <1>6, <3>1 DEF Owned, WaitingStatuses
  <2> QED
    BY <1>2, <1>3, <2>1, <2>2, OwnedStays
<1> QED
  BY <1>5, <1>9, <1>11, <1>12 DEF RowsKept

\* A run that is over, or was stopped, lets go of what it had in hand: the recipient
\* stays in sending, for the recovery of stale sends.
LEMMA StoppingKeeps ==
  ASSUME TypeOK, Owned, NEW w \in Workers, RunEnds(w) \/ RunDies(w) PROVE RowsKept
<1>1. NoRun \in Run /\ NoRun.pc = "idle" /\ NoRun.at = NoRcpt
  BY RunRows DEF NoRun
<1>2. Become(w, NoRun) /\ UNCHANGED <<jobs, rcpts, refused, graph>>
  BY DEF RunEnds, RunDies
<1>3. faults' \in 0..MaxFaults
  BY FaultsTyped, GraphTyped DEF RunEnds, RunDies
<1> QED
  BY <1>1, <1>2, <1>3, MovesOn, GraphTyped DEF graph, InHand

\* A run that starts takes back what is stale, and only that.
LEMMA Recovery ==
  ASSUME TypeOK, NEW r \in Rcpts
  PROVE  /\ Recovered(r) \in Rcpt /\ Recovered(r).job = rcpts[r].job
         /\ ~(rcpts[r].status = "sending" /\ rcpts[r].stale) => Recovered(r) = rcpts[r]
         /\ rcpts[r].status = "sending" /\ rcpts[r].stale =>
              Recovered(r).status \in {"queued", "failed"} /\ ~Recovered(r).stale
<1> DEFINE status == IF rcpts[r].draft = NoDraft /\ rcpts[r].attempts < MaxAttempts
                     THEN "queued" ELSE "failed"
           row == [rcpts[r] EXCEPT !.stale = FALSE, !.status = status]
<1>1. rcpts[r] \in Rcpt
  BY Rows
<1>2. status \in {"queued", "failed"} /\ status \in RcptStatuses
  BY DEF RcptStatuses
<1>3. Recovered(r) = IF ~(rcpts[r].status = "sending" /\ rcpts[r].stale) THEN rcpts[r] ELSE row
  BY DEF Recovered
<1> HIDE DEF status
<1>4. row \in Rcpt
  BY <1>1, <1>2, RcptRows
<1>5. row.job = rcpts[r].job /\ row.status = status /\ row.stale = FALSE
  BY <1>1 DEF Rcpt
<1> HIDE DEF row
<1> QED
  BY <1>1, <1>2, <1>3, <1>4, <1>5

LEMMA StartingKeeps ==
  ASSUME TypeOK, RowsInUse, Owned, NEW w \in Workers, NEW mode \in Modes, RunStarts(w, mode)
  PROVE  RowsKept
<1> DEFINE touched == IF mode = "live" THEN StaleJobs ELSE {}
           state == [NoRun EXCEPT !.pc = "counting", !.mode = mode, !.touched = touched]
<1>1. touched \in SUBSET Jobs
  <2>1. StaleJobs \subseteq Jobs
    BY DEF StaleJobs, RowsInUse
  <2> QED
    BY <2>1
<1>2. state \in Run /\ state.pc = "counting" /\ state.at = NoRcpt
  <2>1. mode \in {"live", "dry-run"}
    BY CommsAssumption
  <2> QED
    BY <1>1, <2>1, RunRows DEF NoRun
<1>3. Become(w, state) /\ jobs' = jobs /\ UNCHANGED <<refused, graph, faults>>
  BY DEF RunStarts
<1> HIDE DEF state
<1>4. \A r \in Rcpts : rcpts'[r] = rcpts[r] \/ rcpts'[r] = Recovered(r)
  BY DEF RunStarts
<1>5. rcpts' \in [Rcpts -> Rcpt]
  <2>1. rcpts' = rcpts \/ rcpts' = [r \in Rcpts |-> Recovered(r)]
    BY DEF RunStarts
  <2> QED
    BY <2>1, Recovery DEF TypeOK
<1>6. RcptsKept
  BY <1>4, Recovery DEF RcptsKept
<1>7. TypeOK'
  BY <1>2, <1>3, <1>5, RunTyped, GraphTyped DEF graph, TypeOK
<1>8. Owned'
  <2>1. \A v \in Workers \ {w} : run[v].pc \in InHand => rcpts'[run[v].at] = rcpts[run[v].at]
    BY <1>4, Recovery, InHandIsSending
  <2>2. \A x \in Rcpts : rcpts'[x].stale => rcpts'[x].status = "sending"
    BY <1>4, Recovery DEF Owned
  <2> QED
    BY <1>2, <1>3, <2>1, <2>2, OwnedStays DEF InHand
<1>9. JobsKept
  BY <1>3, JobsUntouched
<1> QED
  BY <1>6, <1>7, <1>8, <1>9 DEF RowsKept

\* Steps of no run: what the runs have in hand stays.
LEMMA OwnedWithoutRuns ==
  ASSUME TypeOK, Owned, run' = run,
         \A v \in Workers : run[v].pc \in InHand => rcpts'[run[v].at] = rcpts[run[v].at],
         \A r \in Rcpts : rcpts'[r].stale => rcpts'[r].status = "sending"
  PROVE  Owned'
  BY DEF Owned

LEMMA ApprovingKeeps ==
  ASSUME TypeOK, Owned, NEW p \in People, NEW j \in Jobs, Approve(p, j) PROVE RowsKept
<1>1. TypeOK'
  BY DecisionTypes
<1>2. rcpts' = rcpts /\ run' = run
  BY DEF Approve
<1>3. jobs'[j] = [jobs[j] EXCEPT !.status = "queued", !.approver = p] /\ \A i \in Jobs \ {j} : jobs'[i] = jobs[i]
  BY DEF Approve, TypeOK
<1>4. /\ jobs'[j].by = jobs[j].by /\ jobs'[j].kind = jobs[j].kind /\ jobs'[j].key = jobs[j].key
      /\ jobs'[j].needs = jobs[j].needs /\ jobs'[j].approver = p /\ jobs'[j].status = "queued"
  BY <1>3, Rows DEF Job
<1>5. JobsKept
  BY ZenonT(60), <1>3, <1>4 DEF JobsKept, Approve, OverStatuses, Leave
<1>6. Owned'
  BY <1>2, OwnedWithoutRuns DEF Owned
<1> QED
  BY <1>1, <1>2, <1>5, <1>6, RcptsUntouched DEF RowsKept

LEMMA CancellingKeeps == ASSUME TypeOK, Owned, NEW j \in Jobs, Cancel(j) PROVE RowsKept
<1>1. TypeOK'
  BY DecisionTypes
<1>2. JobsKept
  BY StatusWritten DEF Cancel, Cancellable, OverStatuses, GoingStatuses, JobStatuses
<1>3. RcptsKept /\ \A r \in Rcpts : \/ rcpts'[r] = rcpts[r]
                                    \/ /\ rcpts[r].status \in WaitingStatuses
                                       /\ rcpts'[r] = [rcpts[r] EXCEPT !.status = "cancelled"]
  BY WaitingCancelled DEF Cancel
<1>4. \A x \in Rcpts : rcpts'[x].stale => rcpts'[x].status = "sending"
  <2>1. \A x \in Rcpts : [rcpts[x] EXCEPT !.status = "cancelled"].stale = rcpts[x].stale
    BY Rows DEF Rcpt
  <2> QED
    BY <1>3, <2>1 DEF Owned, WaitingStatuses
<1>5. \A v \in Workers : run[v].pc \in InHand => rcpts'[run[v].at] = rcpts[run[v].at]
  BY <1>3, InHandIsSending, WaitingIsFree
<1>6. Owned'
  BY <1>4, <1>5, OwnedWithoutRuns DEF Cancel
<1> QED
  BY <1>1, <1>2, <1>3, <1>6 DEF RowsKept

\* A recipient's times change and nothing else of it.
LEMMA TimesKeep ==
  ASSUME TypeOK, RowsInUse, Owned, NEW r \in Rcpts, StalePasses(r) \/ MinutePasses(r) \/ WaitPasses(r)
  PROVE  RowsKept /\ \A x \in Rcpts : rcpts'[x].status = rcpts[x].status /\ rcpts'[x].draft = rcpts[x].draft
<1>1. PICK row \in Rcpt :
        /\ rcpts' = [rcpts EXCEPT ![r] = row]
        /\ row.status = rcpts[r].status /\ row.job = rcpts[r].job /\ row.draft = rcpts[r].draft
        /\ row.stale # rcpts[r].stale => Orphan(r)
  <2>1. rcpts[r] \in Rcpt
    BY Rows
  <2>2. CASE StalePasses(r)
    <3> DEFINE row == [rcpts[r] EXCEPT !.stale = TRUE, !.recent = FALSE]
    <3>1. row \in Rcpt
      BY <2>1, RcptRows
    <3>2. row.status = rcpts[r].status /\ row.job = rcpts[r].job /\ row.draft = rcpts[r].draft
      BY <2>1 DEF Rcpt
    <3>3. rcpts' = [rcpts EXCEPT ![r] = row] /\ Orphan(r)
      BY <2>2 DEF StalePasses
    <3> QED
      BY <3>1, <3>2, <3>3
  <2>3. CASE MinutePasses(r)
    <3> DEFINE row == [rcpts[r] EXCEPT !.recent = FALSE]
    <3>1. row \in Rcpt
      BY <2>1, RcptRows
    <3>2. /\ row.status = rcpts[r].status /\ row.job = rcpts[r].job /\ row.draft = rcpts[r].draft
          /\ row.stale = rcpts[r].stale
      BY <2>1 DEF Rcpt
    <3>3. rcpts' = [rcpts EXCEPT ![r] = row]
      BY <2>3 DEF MinutePasses
    <3> QED
      BY <3>1, <3>2, <3>3
  <2>4. CASE WaitPasses(r)
    <3> DEFINE row == [rcpts[r] EXCEPT !.waits = FALSE]
    <3>1. row \in Rcpt
      BY <2>1, RcptRows
    <3>2. /\ row.status = rcpts[r].status /\ row.job = rcpts[r].job /\ row.draft = rcpts[r].draft
          /\ row.stale = rcpts[r].stale
      BY <2>1 DEF Rcpt
    <3>3. rcpts' = [rcpts EXCEPT ![r] = row]
      BY <2>4 DEF WaitPasses
    <3> QED
      BY <3>1, <3>2, <3>3
  <2> QED
    BY <2>2, <2>3, <2>4
<1>2. jobs' = jobs /\ run' = run /\ UNCHANGED <<refused, graph, faults>>
  BY DEF StalePasses, MinutePasses, WaitPasses
<1>3. rcpts[r].status # "unused"
  BY DEF StalePasses, Orphan, MinutePasses, WaitPasses, RowsInUse, UnusedRcpt
<1>4. rcpts'[r] = row /\ \A x \in Rcpts \ {r} : rcpts'[x] = rcpts[x]
  BY <1>1 DEF TypeOK
<1>5. RcptsKept
  BY <1>1, <1>3, RcptWritten
<1>6. rcpts' \in [Rcpts -> Rcpt]
  BY <1>1, Rows
<1>7. TypeOK'
  BY <1>2, <1>6 DEF TypeOK, graph
<1>8. \A v \in Workers : IF run[v].pc \in InHand
                         THEN run[v].at \in Rcpts /\ rcpts'[run[v].at].status = "sending" /\ ~rcpts'[run[v].at].stale
                         ELSE run[v].at = NoRcpt
  BY <1>1, <1>4 DEF Owned, Orphan
<1>9. \A x \in Rcpts : rcpts'[x].stale => rcpts'[x].status = "sending"
  BY <1>1, <1>4 DEF Owned, Orphan
<1>10. Owned'
  BY <1>2, <1>8, <1>9 DEF Owned
<1>11. JobsKept
  BY <1>2, JobsUntouched
<1> QED
  BY <1>1, <1>4, <1>5, <1>7, <1>10, <1>11 DEF RowsKept

LEMMA RecordChangeKeeps ==
  ASSUME TypeOK, Owned, NEW r \in Rcpts, RecordChanges(r) PROVE RowsKept
<1>1. jobs' = jobs /\ rcpts' = rcpts /\ run' = run /\ UNCHANGED <<graph, faults>>
  BY DEF RecordChanges
<1>2. refused' \subseteq Rcpts
  BY DEF RecordChanges, TypeOK
<1>3. TypeOK'
  BY <1>1, <1>2 DEF TypeOK, graph
<1>4. Owned'
  BY <1>1, OwnedWithoutRuns DEF Owned
<1> QED
  BY <1>1, <1>3, <1>4, JobsUntouched, RcptsUntouched DEF RowsKept

-----------------------------------------------------------------------------
(* Every step makes a new send or keeps the rows.                             *)

\* What queueCorrespondence and sendTestCorrespondence write.
NewSend(j, job, R) ==
  /\ j \in UnusedJobs /\ R \subseteq UnusedRcpts /\ WriteJob(j, job, R)
  /\ job.by \in People
  /\ job.status \in {"awaiting_approval", "queued"} /\ (job.status = "queued" => Leave(job))
  /\ job.key # NoKey => ~FindByKey(job.by, job.key)
  /\ job.kind = "mail" /\ ~job.needs =>
       Cardinality(R) + Cardinality(RecentRecipients(job.by)) <= Threshold
ANewSend == \E j \in Jobs, job \in Job, R \in SUBSET Rcpts : NewSend(j, job, R)

LEMMA SetsAreFinite ==
  ASSUME NEW S \in SUBSET Rcpts PROVE IsFiniteSet(S) /\ Cardinality(S) \in Nat
  BY CommsAssumption, FS_Subset, FS_CardinalityType

LEMMA QueuingIsANewSend ==
  ASSUME TypeOK, NEW p \in People, NEW key \in SubmitKeys \cup {NoKey}, NEW R \in SUBSET Rcpts,
         QueueMail(p, key, R)
  PROVE  ANewSend
<1> DEFINE needs == NeedsApproval(p, R)
           status == IF needs THEN "awaiting_approval" ELSE "queued"
           job == [UnusedJob EXCEPT !.status = status, !.by = p, !.key = key, !.needs = needs]
           j == CHOOSE x \in UnusedJobs : TRUE
<1>1. j \in UnusedJobs
  BY DEF QueueMail
<1>2. WriteJob(j, job, R) /\ R \subseteq UnusedRcpts /\ ~FindByKey(p, key)
  BY DEF QueueMail
<1>3. needs \in BOOLEAN
  BY DEF NeedsApproval
<1>4. status \in JobStatuses /\ status \in {"awaiting_approval", "queued"} /\ (status = "queued" => ~needs)
  BY DEF JobStatuses
<1>5. ~needs => Cardinality(R) + Cardinality(RecentRecipients(p)) <= Threshold
  <2>1. RecentRecipients(p) \in SUBSET Rcpts
    BY DEF RecentRecipients
  <2> QED
    BY <2>1, SetsAreFinite, CommsAssumption DEF NeedsApproval
<1> HIDE DEF needs, status, j
<1>6. job \in Job
  BY <1>3, <1>4, JobRows
<1>7. job.by = p /\ job.status = status /\ job.key = key /\ job.needs = needs
  BY DEF UnusedJob
<1> HIDE DEF job
<1>8. NewSend(j, job, R)
  BY <1>1, <1>2, <1>4, <1>5, <1>7 DEF NewSend, Leave
<1> QED
  BY <1>1, <1>6, <1>8 DEF ANewSend, UnusedJobs

LEMMA TestingIsANewSend ==
  ASSUME TypeOK, NEW p \in People, NEW r \in Rcpts, SendTest(p, r) PROVE ANewSend
<1> DEFINE job == [UnusedJob EXCEPT !.status = "queued", !.kind = "system", !.by = p]
           j == CHOOSE x \in UnusedJobs : TRUE
<1>1. j \in UnusedJobs
  BY DEF SendTest
<1>2. WriteJob(j, job, {r}) /\ {r} \subseteq UnusedRcpts
  BY DEF SendTest
<1>3. job \in Job
  BY JobRows
<1>4. job.by = p /\ job.status = "queued" /\ job.key = NoKey /\ ~job.needs /\ job.kind = "system"
  BY DEF UnusedJob
<1> HIDE DEF job, j
<1>5. NewSend(j, job, {r})
  BY <1>1, <1>2, <1>4 DEF NewSend, Leave
<1> QED
  BY <1>1, <1>3, <1>5 DEF ANewSend, UnusedJobs

LEMMA RunStepKeeps ==
  ASSUME TypeOK, RowsInUse, Owned, NEW w \in Workers, RunStep(w) PROVE RowsKept
<1>1. ASSUME NEW item \in run[w].items, Block(w, item) \/ WouldSend(w, item) \/ Claim(w, item)
      PROVE  RowsKept
  BY <1>1, MarkingKeeps, ClaimKeeps DEF Block, WouldSend
<1>2. ASSUME \E j \in Jobs : Settle(w, j) PROVE RowsKept
  BY <1>2, SettlingKeeps
<1> QED
  BY <1>1, <1>2, CountingKeeps, ReadingKeeps, MarkJobKeeps, CreatingKeeps, SavingKeeps, SendingKeeps,
     RecordingKeeps, ItemsDoneKeeps, StoppingKeeps DEF RunStep

LEMMA EveryStep ==
  ASSUME TypeOK, RowsInUse, Owned, Next PROVE ANewSend \/ RowsKept
<1>1. ASSUME RequestStep PROVE ANewSend \/ RowsKept
  BY <1>1, QueuingIsANewSend, TestingIsANewSend, ApprovingKeeps, CancellingKeeps DEF RequestStep
<1>2. ASSUME NEW w \in Workers, \/ RunStep(w) \/ SaveDraftFails(w) \/ RunDies(w)
                                \/ \E mode \in Modes : RunStarts(w, mode)
      PROVE  RowsKept
  BY <1>2, RunStepKeeps, SaveFailingKeeps, StoppingKeeps, StartingKeeps
<1>3. ASSUME TimeStep PROVE RowsKept
  BY <1>3, TimesKeep DEF TimeStep
<1>4. ASSUME NEW r \in Rcpts, RecordChanges(r) PROVE RowsKept
  BY <1>4, RecordChangeKeeps
<1> QED
  BY <1>1, <1>2, <1>3, <1>4 DEF Next

-----------------------------------------------------------------------------
(* What the steps do to Graph, and to where recipients and runs stand.         *)

\* A message goes out for a recipient in flight, and for one at a time.
LEMMA Arrivals ==
  ASSUME TypeOK, Owned, Next, NEW r \in Rcpts
  PROVE  \/ arrived'[r] = arrived[r]
         \/ /\ arrived'[r] = arrived[r] + 1 /\ rcpts[r].status = "sending"
            /\ \E w \in Workers : SendDraft(w) /\ run[w].at = r
<1>1. ASSUME NEW w \in Workers, SendDraft(w)
      PROVE  \/ arrived'[r] = arrived[r]
             \/ /\ arrived'[r] = arrived[r] + 1 /\ rcpts[r].status = "sending"
                /\ run[w].at = r
  BY <1>1, InHandIsSending DEF SendDraft, TypeOK, InHand
<1>2. ASSUME RequestStep PROVE arrived' = arrived
  BY <1>2 DEF RequestStep, QueueMail, SendTest, WriteJob, Approve, Cancel, graph
<1>3. ASSUME NEW w \in Workers, RunStep(w), ~SendDraft(w) PROVE arrived' = arrived
  BY <1>3 DEF RunStep, RunCounts, RunReads, Block, WouldSend, MarkAsRead, Claim, MarkJobSending,
     CreateDraft, CreateDraftFails, SaveDraft, SendDraftFails, RecordOutcome, ItemsDone, Settle, RunEnds, graph
<1>4. ASSUME NEW w \in Workers, \/ SaveDraftFails(w) \/ RunDies(w) \/ \E mode \in Modes : RunStarts(w, mode)
      PROVE  arrived' = arrived
  BY <1>4 DEF SaveDraftFails, RunDies, RunStarts, graph
<1>5. ASSUME \/ TimeStep \/ \E x \in Rcpts : RecordChanges(x) PROVE arrived' = arrived
  BY <1>5 DEF TimeStep, StalePasses, MinutePasses, WaitPasses, RecordChanges, graph
<1> QED
  BY <1>1, <1>2, <1>3, <1>4, <1>5 DEF Next

\* A recipient comes to be in flight by a claim, of a job that is going, and to be sent by
\* the recording of an outcome.
StatusMoves(r) ==
  \/ rcpts'[r].status = rcpts[r].status
  \/ rcpts'[r].status \notin {"sending", "sent"}
  \/ /\ rcpts'[r].status = "sending" /\ rcpts[r].status \in WaitingStatuses
     /\ jobs[rcpts[r].job].status \in GoingStatuses
  \/ /\ rcpts'[r].status = "sent" /\ rcpts[r].status = "sending"
     /\ \E w \in Workers : run[w].pc = "outcome" /\ run[w].result = "sent" /\ run[w].at = r

LEMMA EveryStatusMoves ==
  ASSUME TypeOK, RowsInUse, Owned, Next, NEW r \in Rcpts PROVE StatusMoves(r)
<1>0. rcpts[r] \in Rcpt
  BY Rows
<1>1. ASSUME rcpts' = rcpts PROVE StatusMoves(r)
  BY <1>1 DEF StatusMoves
<1>2. ASSUME NEW x \in Rcpts, NEW row, rcpts' = [rcpts EXCEPT ![x] = row],
             row.status = rcpts[x].status \/ row.status \notin {"sending", "sent"}
      PROVE  StatusMoves(r)
  BY <1>2 DEF StatusMoves, TypeOK
<1>3. ASSUME NEW j, rcpts' = WithWaitingCancelled(j) PROVE StatusMoves(r)
  <2>1. [rcpts[r] EXCEPT !.status = "cancelled"].status = "cancelled"
    BY <1>0 DEF Rcpt
  <2> QED
    BY <1>3, <2>1 DEF StatusMoves, WithWaitingCancelled
<1>4. ASSUME NEW j \in Jobs, NEW job \in Job, NEW R \in SUBSET Rcpts, WriteJob(j, job, R)
      PROVE  StatusMoves(r)
  <2>1. CASE r \in R
    <3>1. rcpts'[r] = [UnusedRcpt EXCEPT !.job = j, !.status = IF r \in refused THEN "blocked" ELSE "queued"]
      BY <1>4, <2>1 DEF WriteJob
    <3>2. rcpts'[r].status \in {"blocked", "queued"}
      BY <3>1 DEF UnusedRcpt
    <3> QED
      BY <3>2 DEF StatusMoves
  <2>2. CASE r \notin R
    BY <1>4, <2>2 DEF WriteJob, StatusMoves
  <2> QED
    BY <2>1, <2>2
<1>5. ASSUME RequestStep PROVE StatusMoves(r)
  <2>1. ANewSend => StatusMoves(r)
    BY <1>4 DEF ANewSend, NewSend
  <2> QED
    BY <1>1, <1>3, <1>5, <2>1, QueuingIsANewSend, TestingIsANewSend DEF RequestStep, Approve, Cancel
<1>6. ASSUME NEW w \in Workers, NEW item \in run[w].items,
             NEW st \in {"blocked", "would_send"}, MarkAsRead(w, item, st)
      PROVE  StatusMoves(r)
  <2> DEFINE x == item.rcpt
             row == [rcpts[x] EXCEPT !.status = st, !.waits = FALSE, !.recent = @ \/ st = "would_send"]
  <2>1. x \in Rcpts /\ rcpts[x] \in Rcpt
    BY DoneFields, Rows
  <2>2. row.status = st
    BY <2>1 DEF Rcpt
  <2>3. rcpts' = rcpts \/ rcpts' = [rcpts EXCEPT ![x] = row]
    BY <1>6 DEF MarkAsRead
  <2> HIDE DEF x, row
  <2> QED
    BY <1>1, <1>2, <2>1, <2>2, <2>3
<1>7. ASSUME NEW w \in Workers, NEW item \in run[w].items, Claim(w, item) PROVE StatusMoves(r)
  <2>1. CASE r = item.rcpt /\ CanClaim(r)
    <3>1. rcpts'[r].status = "sending"
      BY <1>0, <1>7, <2>1 DEF Claim, TypeOK, Rcpt
    <3> QED
      BY <2>1, <3>1 DEF StatusMoves, CanClaim
  <2>2. CASE ~(r = item.rcpt /\ CanClaim(r))
    BY <1>7, <2>2 DEF Claim, StatusMoves, TypeOK
  <2> QED
    BY <2>1, <2>2
<1>8. ASSUME NEW w \in Workers, SaveDraft(w) PROVE StatusMoves(r)
  <2>1. run[w].at \in Rcpts /\ rcpts[run[w].at] \in Rcpt
    BY <1>8, InHandIsSending, Rows DEF SaveDraft, InHand
  <2>2. [rcpts[run[w].at] EXCEPT !.draft = run[w].draft].status = rcpts[run[w].at].status
    BY <2>1 DEF Rcpt
  <2>3. rcpts' = [rcpts EXCEPT ![run[w].at] = [rcpts[run[w].at] EXCEPT !.draft = run[w].draft]]
    BY <1>8 DEF SaveDraft
  <2> QED
    BY <1>2, <2>1, <2>2, <2>3
<1>9. ASSUME NEW w \in Workers, RecordOutcome(w) PROVE StatusMoves(r)
  <2>1. run[w].at \in Rcpts /\ rcpts[run[w].at].status = "sending"
    BY <1>9, InHandIsSending DEF RecordOutcome, InHand
  <2>2. CASE r = run[w].at
    <3>1. rcpts'[r].status = OutcomeStatus(run[w].result)
      BY <1>0, <1>9, <2>1, <2>2 DEF RecordOutcome, TypeOK, Rcpt
    <3>2. run[w].result # "sent" => OutcomeStatus(run[w].result) \notin {"sending", "sent"}
      BY DEF OutcomeStatus
    <3>3. run[w].result = "sent" => OutcomeStatus(run[w].result) = "sent"
      BY DEF OutcomeStatus
    <3>4. run[w].pc = "outcome"
      BY <1>9 DEF RecordOutcome
    <3> QED
      BY <2>1, <2>2, <3>1, <3>2, <3>3, <3>4 DEF StatusMoves
  <2>3. CASE r # run[w].at
    BY <1>9, <2>1, <2>3 DEF RecordOutcome, StatusMoves, TypeOK
  <2> QED
    BY <2>2, <2>3
<1>10. ASSUME NEW w \in Workers, RunStep(w) PROVE StatusMoves(r)
  <2>1. ASSUME NEW j \in Jobs, Settle(w, j) PROVE StatusMoves(r)
    BY <1>1, <1>3, <2>1 DEF Settle
  <2>2. ASSUME \/ RunCounts(w) \/ RunReads(w) \/ MarkJobSending(w) \/ CreateDraft(w) \/ CreateDraftFails(w)
               \/ SendDraft(w) \/ SendDraftFails(w) \/ ItemsDone(w) \/ RunEnds(w)
        PROVE  rcpts' = rcpts
    BY <2>2 DEF RunCounts, RunReads, MarkJobSending, CreateDraft, CreateDraftFails, SendDraft,
       SendDraftFails, ItemsDone, RunEnds
  <2> QED
    BY <1>1, <1>6, <1>7, <1>8, <1>9, <1>10, <2>1, <2>2 DEF RunStep, Block, WouldSend
<1>11. ASSUME NEW w \in Workers, SaveDraftFails(w) \/ RunDies(w) PROVE StatusMoves(r)
  BY <1>1, <1>11 DEF SaveDraftFails, RunDies
<1>12. ASSUME NEW w \in Workers, NEW mode \in Modes, RunStarts(w, mode) PROVE StatusMoves(r)
  <2>1. rcpts'[r] = rcpts[r] \/ rcpts'[r] = Recovered(r)
    BY <1>12 DEF RunStarts
  <2> QED
    BY <2>1, Recovery DEF StatusMoves
<1>13. ASSUME TimeStep PROVE StatusMoves(r)
  BY <1>13, TimesKeep DEF TimeStep, StatusMoves
<1>14. ASSUME NEW x \in Rcpts, RecordChanges(x) PROVE StatusMoves(r)
  BY <1>1, <1>14 DEF RecordChanges
<1> QED
  BY <1>5, <1>10, <1>11, <1>12, <1>13, <1>14 DEF Next

\* A run comes to the outcome "sent" by sending.
LEMMA OutcomeComes ==
  ASSUME TypeOK, Owned, Next, NEW v \in Workers, run'[v].pc = "outcome", run'[v].result = "sent"
  PROVE  run'[v] = run[v] \/ (SendDraft(v) /\ run'[v].at = run[v].at)
<1>0. run[v] \in Run
  BY Rows
<1>1. CASE run' = run
  BY <1>1
<1>2. ASSUME NEW w \in Workers, RunStep(w) \/ SaveDraftFails(w) \/ RunDies(w)
                                \/ \E mode \in Modes : RunStarts(w, mode)
      PROVE  run'[v] = run[v] \/ (SendDraft(v) /\ run'[v].at = run[v].at)
  <2>1. CASE v # w
    <3>1. \E state : Become(w, state)
      BY <1>2 DEF RunStep, RunCounts, RunReads, Block, WouldSend, MarkAsRead, Claim, MarkJobSending,
         CreateDraft, CreateDraftFails, SaveDraft, SendDraft, SendDraftFails, AfterError, RecordOutcome,
         ItemsDone, Settle, RunEnds, SaveDraftFails, RunDies, RunStarts
    <3> QED
      BY <2>1, <3>1, Becomes
  <2>2. CASE v = w /\ SendDraft(w)
    <3>1. PICK result \in {"sent", "retry", "fail"} :
            Become(w, [run[w] EXCEPT !.pc = "outcome", !.result = result])
      BY <2>2, ErrorKeeps DEF SendDraft
    <3>2. run'[w] = [run[w] EXCEPT !.pc = "outcome", !.result = result]
      BY <3>1, Becomes
    <3> QED
      BY <1>0, <2>2, <3>2 DEF Run
  <2>3. CASE v = w /\ ~SendDraft(w)
    <3>1. ASSUME \E result \in {"retry", "fail"} :
                   Become(w, [run[w] EXCEPT !.pc = "outcome", !.result = result])
          PROVE  FALSE
      <4>1. PICK result \in {"retry", "fail"} : Become(w, [run[w] EXCEPT !.pc = "outcome", !.result = result])
        BY <3>1
      <4>2. run'[w] = [run[w] EXCEPT !.pc = "outcome", !.result = result]
        BY <4>1, Becomes
      <4> QED
        BY <1>0, <2>3, <4>2 DEF Run
    <3>2. ASSUME NEW state, Become(w, state), state.pc # "outcome" PROVE FALSE
      BY <2>3, <3>2, Becomes
    <3>3. ASSUME CreateDraftFails(w) \/ SaveDraftFails(w) PROVE FALSE
      <4>1. SaveDraftFails(w) => \E result \in {"retry", "fail"} :
              Become(w, [run[w] EXCEPT !.pc = "outcome", !.result = result])
        <5>1. CASE run[w].attempt < MaxAttempts
          BY <5>1 DEF SaveDraftFails
        <5>2. CASE ~(run[w].attempt < MaxAttempts)
          BY <5>2 DEF SaveDraftFails
        <5> QED
          BY <5>1, <5>2
      <4> QED
        BY <3>1, <3>3, <4>1, ErrorKeeps DEF CreateDraftFails
    <3>4. ASSUME SendDraftFails(w) PROVE FALSE
      BY <3>1, <3>4, ErrorKeeps DEF SendDraftFails
    <3>5. ASSUME RunCounts(w) PROVE FALSE
      BY <1>0, <2>3, <3>2, <3>5 DEF RunCounts, Run
    <3>6. ASSUME RunReads(w) PROVE FALSE
      BY <1>0, <2>3, <3>2, <3>6 DEF RunReads, Run
    <3>7. ASSUME NEW item \in run[w].items, NEW st, MarkAsRead(w, item, st) PROVE FALSE
      BY <3>2, <3>7, DoneFields DEF MarkAsRead
    <3>8. ASSUME NEW item \in run[w].items, Claim(w, item) PROVE FALSE
      <4>1. Done(w, item) \in Run /\ Done(w, item).pc = "items"
        BY <3>8, DoneFields DEF Claim
      <4> QED
        BY <3>2, <3>8, <4>1 DEF Claim, Run
    <3>9. ASSUME MarkJobSending(w) PROVE FALSE
      BY <1>0, <2>3, <3>2, <3>9 DEF MarkJobSending, Run
    <3>10. ASSUME CreateDraft(w) PROVE FALSE
      BY <1>0, <2>3, <3>2, <3>10 DEF CreateDraft, Run
    <3>11. ASSUME SaveDraft(w) \/ ItemsDone(w) PROVE FALSE
      BY <1>0, <2>3, <3>2, <3>11 DEF SaveDraft, ItemsDone, Run
    <3>12. ASSUME RecordOutcome(w) PROVE FALSE
      BY <3>2, <3>12, NextItemFields DEF RecordOutcome
    <3>13. ASSUME NEW j \in Jobs, Settle(w, j) PROVE FALSE
      BY <1>0, <2>3, <3>2, <3>13 DEF Settle, Run
    <3>14. ASSUME RunEnds(w) \/ RunDies(w) PROVE FALSE
      BY <3>2, <3>14 DEF RunEnds, RunDies, NoRun
    <3>15. ASSUME NEW mode \in Modes, RunStarts(w, mode) PROVE FALSE
      BY <2>3, <3>2, <3>15 DEF RunStarts, NoRun
    <3> QED
      BY <1>2, <2>3, <3>3, <3>4, <3>5, <3>6, <3>7, <3>8, <3>9, <3>10, <3>11, <3>12, <3>13, <3>14, <3>15
         DEF RunStep, Block, WouldSend
  <2> QED
    BY <2>1, <2>2, <2>3
<1>3. ASSUME RequestStep \/ TimeStep \/ \E r \in Rcpts : RecordChanges(r) PROVE run' = run
  BY <1>3 DEF RequestStep, QueueMail, SendTest, WriteJob, Approve, Cancel, TimeStep, StalePasses,
     MinutePasses, WaitPasses, RecordChanges
<1> QED
  BY <1>1, <1>2, <1>3 DEF Next

-----------------------------------------------------------------------------
(* The invariant holds at first, and every step keeps it.                      *)

\* What a new send leaves: its own row, its recipients, and the rest as it was.
LEMMA NewSendRows ==
  ASSUME TypeOK, RowsInUse, NEW j \in Jobs, NEW job \in Job, NEW R \in SUBSET Rcpts, NewSend(j, job, R)
  PROVE  /\ jobs[j] = UnusedJob /\ jobs'[j] = job /\ \A i \in Jobs \ {j} : jobs'[i] = jobs[i]
         /\ \A r \in R : /\ rcpts[r] = UnusedRcpt /\ arrived[r] = 0
                         /\ rcpts'[r].job = j /\ rcpts'[r].status \in {"blocked", "queued"}
                         /\ ~rcpts'[r].stale /\ ~rcpts'[r].recent /\ rcpts'[r].draft = NoDraft
         /\ \A r \in Rcpts \ R : rcpts'[r] = rcpts[r]
         /\ \A r \in Rcpts : rcpts[r].job # j
         /\ UNCHANGED <<refused, run, graph, faults>>
<1>1. jobs[j] = UnusedJob /\ jobs'[j] = job /\ \A i \in Jobs \ {j} : jobs'[i] = jobs[i]
  BY DEF NewSend, WriteJob, RowsInUse, UnusedJobs, TypeOK
<1>2. ASSUME NEW r \in R
      PROVE  /\ rcpts[r] = UnusedRcpt /\ arrived[r] = 0
             /\ rcpts'[r].job = j /\ rcpts'[r].status \in {"blocked", "queued"}
             /\ ~rcpts'[r].stale /\ ~rcpts'[r].recent /\ rcpts'[r].draft = NoDraft
  <2>1. rcpts[r].status = "unused"
    BY DEF NewSend, UnusedRcpts
  <2>2. rcpts'[r] = [UnusedRcpt EXCEPT !.job = j, !.status = IF r \in refused THEN "blocked" ELSE "queued"]
    BY DEF NewSend, WriteJob
  <2> QED
    BY <2>1, <2>2 DEF UnusedRcpt, RowsInUse
<1>3. \A r \in Rcpts \ R : rcpts'[r] = rcpts[r]
  BY DEF NewSend, WriteJob
<1>4. \A r \in Rcpts : rcpts[r].job # j
  <2>1. NoJob # j
    BY NothingIsNamedNothing
  <2> QED
    BY <2>1 DEF RowsInUse, UnusedRcpt, NewSend, UnusedJobs
<1> QED
  BY <1>1, <1>2, <1>3, <1>4 DEF NewSend, WriteJob

LEMMA TypesKept ==
  ASSUME TypeOK, RowsInUse, Owned, Next PROVE TypeOK'
<1>1. ASSUME NEW j \in Jobs, NEW job \in Job, NEW R \in SUBSET Rcpts, NewSend(j, job, R) PROVE TypeOK'
  <2>1. \A r \in R : [UnusedRcpt EXCEPT !.job = j, !.status = IF r \in refused THEN "blocked" ELSE "queued"] \in Rcpt
    <3>1. "blocked" \in RcptStatuses /\ "queued" \in RcptStatuses
      BY DEF RcptStatuses
    <3> QED
      BY <3>1, RcptRows
  <2>2. rcpts' \in [Rcpts -> Rcpt]
    BY <1>1, <2>1, Rows DEF NewSend, WriteJob
  <2>3. jobs' \in [Jobs -> Job]
    BY <1>1, Rows DEF NewSend, WriteJob
  <2> QED
    BY <1>1, <2>2, <2>3 DEF NewSend, WriteJob, TypeOK, graph
<1> QED
  BY <1>1, EveryStep DEF ANewSend, RowsKept

LEMMA RowsInUseKept ==
  ASSUME TypeOK, RowsInUse, Owned, Next PROVE RowsInUse'
<1>1. ASSUME NEW j \in Jobs, NEW job \in Job, NEW R \in SUBSET Rcpts, NewSend(j, job, R) PROVE RowsInUse'
  <2>1. job.status # "unused"
    BY <1>1 DEF NewSend
  <2>2. arrived' = arrived
    BY <1>1, NewSendRows DEF graph
  <2>3. \A i \in Jobs : jobs'[i].status = "unused" => jobs'[i] = UnusedJob
    BY <1>1, <2>1, NewSendRows DEF RowsInUse
  <2>4. ASSUME NEW r \in R
        PROVE  rcpts'[r].status # "unused" /\ rcpts'[r].job \in Jobs /\ jobs'[rcpts'[r].job].status # "unused"
    BY <1>1, <2>1, <2>4, NewSendRows
  <2>5. ASSUME NEW r \in Rcpts \ R
        PROVE  IF rcpts'[r].status = "unused" THEN rcpts'[r] = UnusedRcpt /\ arrived'[r] = 0
               ELSE rcpts'[r].job \in Jobs /\ jobs'[rcpts'[r].job].status # "unused"
    BY <1>1, <2>2, <2>5, NewSendRows DEF RowsInUse
  <2> QED
    BY <2>3, <2>4, <2>5 DEF RowsInUse
<1>2. ASSUME RowsKept PROVE RowsInUse'
  <2>1. \A i \in Jobs : jobs'[i].status = "unused" => jobs'[i] = UnusedJob
    BY <1>2 DEF RowsKept, JobsKept, RowsInUse
  <2>2. ASSUME NEW r \in Rcpts
        PROVE  IF rcpts'[r].status = "unused" THEN rcpts'[r] = UnusedRcpt /\ arrived'[r] = 0
               ELSE rcpts'[r].job \in Jobs /\ jobs'[rcpts'[r].job].status # "unused"
    BY <1>2, <2>2, Arrivals DEF RowsKept, RcptsKept, JobsKept, RowsInUse
  <2> QED
    BY <2>1, <2>2 DEF RowsInUse
<1> QED
  BY <1>1, <1>2, EveryStep DEF ANewSend

LEMMA OwnedKept ==
  ASSUME TypeOK, RowsInUse, Owned, Next PROVE Owned'
<1>1. ASSUME NEW j \in Jobs, NEW job \in Job, NEW R \in SUBSET Rcpts, NewSend(j, job, R) PROVE Owned'
  <2>1. run' = run
    BY <1>1, NewSendRows
  <2>2. \A v \in Workers : run[v].pc \in InHand => rcpts'[run[v].at] = rcpts[run[v].at]
    BY <1>1, NewSendRows, InHandIsSending DEF UnusedRcpt
  <2>3. \A r \in Rcpts : rcpts'[r].stale => rcpts'[r].status = "sending"
    BY <1>1, NewSendRows DEF Owned
  <2> QED
    BY <2>1, <2>2, <2>3, OwnedWithoutRuns
<1> QED
  BY <1>1, EveryStep DEF ANewSend, RowsKept

\* A recipient in use keeps its job, and the leave of a job is never taken back.
LEMMA LeaveStays ==
  ASSUME TypeOK, RowsInUse, Owned, Next, NEW r \in Rcpts, rcpts[r].status # "unused",
         Leave(jobs[rcpts[r].job])
  PROVE  rcpts'[r].job = rcpts[r].job /\ Leave(jobs'[rcpts[r].job])
<1>1. rcpts[r].job \in Jobs
  BY DEF RowsInUse
<1>2. ASSUME NEW j \in Jobs, NEW job \in Job, NEW R \in SUBSET Rcpts, NewSend(j, job, R)
      PROVE  rcpts'[r].job = rcpts[r].job /\ Leave(jobs'[rcpts[r].job])
  <2>1. r \notin R /\ rcpts[r].job # j
    BY <1>2, NewSendRows DEF UnusedRcpt
  <2>2. rcpts'[r] = rcpts[r] /\ jobs'[rcpts[r].job] = jobs[rcpts[r].job]
    BY <1>1, <1>2, <2>1, NewSendRows
  <2> QED
    BY <2>2
<1>3. ASSUME RowsKept PROVE rcpts'[r].job = rcpts[r].job /\ Leave(jobs'[rcpts[r].job])
  BY <1>1, <1>3 DEF RowsKept, JobsKept, RcptsKept
<1> QED
  BY <1>2, <1>3, EveryStep DEF ANewSend

LEMMA LeaveGivenKept ==
  ASSUME TypeOK, RowsInUse, Owned, LeaveGiven, Next PROVE LeaveGiven'
<1>1. ASSUME NEW i \in Jobs, jobs'[i].status \in GoingStatuses PROVE Leave(jobs'[i])
  <2>1. ASSUME NEW j \in Jobs, NEW job \in Job, NEW R \in SUBSET Rcpts, NewSend(j, job, R)
        PROVE  Leave(jobs'[i])
    <3>1. CASE i = j
      BY <1>1, <2>1, <3>1, NewSendRows DEF NewSend, GoingStatuses
    <3>2. CASE i # j
      <4>1. jobs'[i] = jobs[i]
        BY <2>1, <3>2, NewSendRows
      <4> QED
        BY <1>1, <4>1 DEF LeaveGiven
    <3> QED
      BY <3>1, <3>2
  <2>2. ASSUME RowsKept PROVE Leave(jobs'[i])
    BY <1>1, <2>2 DEF RowsKept, JobsKept, LeaveGiven
  <2> QED
    BY <2>1, <2>2, EveryStep DEF ANewSend
<1>2. ASSUME NEW r \in Rcpts, rcpts'[r].status = "sending" \/ arrived'[r] > 0
      PROVE  Leave(jobs'[rcpts'[r].job])
  <2>1. rcpts[r].status = "sending" \/ arrived[r] > 0
          \/ (rcpts[r].status \in WaitingStatuses /\ jobs[rcpts[r].job].status \in GoingStatuses)
    BY <1>2, Arrivals, EveryStatusMoves DEF StatusMoves
  <2>2. rcpts[r].status # "unused"
    BY <2>1 DEF WaitingStatuses, RowsInUse
  <2>3. Leave(jobs[rcpts[r].job])
    BY <2>1, <2>2 DEF LeaveGiven, RowsInUse
  <2> QED
    BY <2>2, <2>3, LeaveStays
<1> QED
  BY <1>1, <1>2 DEF LeaveGiven

LEMMA OutcomeIsTrueKept ==
  ASSUME TypeOK, RowsInUse, Owned, OutcomeIsTrue, Next PROVE OutcomeIsTrue'
<1> SUFFICES ASSUME NEW v \in Workers, run'[v].pc = "outcome", run'[v].result = "sent"
             PROVE  arrived'[run'[v].at] > 0
  BY DEF OutcomeIsTrue
<1>1. CASE run'[v] = run[v]
  <2>1. run[v].at \in Rcpts /\ arrived[run[v].at] > 0
    BY <1>1, InHandIsSending DEF OutcomeIsTrue, InHand
  <2>2. arrived[run[v].at] \in Nat
    BY <2>1 DEF TypeOK
  <2> QED
    BY <1>1, <2>1, <2>2, Arrivals
<1>2. CASE SendDraft(v) /\ run'[v].at = run[v].at
  <2>1. run[v].at \in Rcpts
    BY <1>2, InHandIsSending DEF SendDraft, InHand
  <2> QED
    BY <1>2, <2>1 DEF SendDraft, TypeOK
<1> QED
  BY <1>1, <1>2, OutcomeComes

LEMMA SentMeansGoneKept ==
  ASSUME TypeOK, RowsInUse, Owned, OutcomeIsTrue, SentMeansGone, Next PROVE SentMeansGone'
<1> SUFFICES ASSUME NEW r \in Rcpts, rcpts'[r].status = "sent" PROVE arrived'[r] > 0
  BY DEF SentMeansGone
<1>1. arrived[r] > 0
  BY EveryStatusMoves DEF StatusMoves, SentMeansGone, OutcomeIsTrue
<1>2. arrived[r] \in Nat
  BY DEF TypeOK
<1> QED
  BY <1>1, <1>2, Arrivals

LEMMA OneJobPerSubmitKept ==
  ASSUME TypeOK, RowsInUse, Owned, OneJobPerSubmit, Next PROVE OneJobPerSubmit'
<1>1. ASSUME NEW j \in Jobs, NEW job \in Job, NEW R \in SUBSET Rcpts, NewSend(j, job, R)
      PROVE  OneJobPerSubmit'
  <2>1. \A i \in Jobs : job.key # NoKey => ~(jobs[i].by = job.by /\ jobs[i].key = job.key)
    BY <1>1 DEF NewSend, FindByKey
  <2> QED
    BY <1>1, <2>1, NewSendRows DEF OneJobPerSubmit
<1>2. ASSUME RowsKept PROVE OneJobPerSubmit'
  BY <1>2 DEF RowsKept, JobsKept, OneJobPerSubmit
<1> QED
  BY <1>1, <1>2, EveryStep DEF ANewSend

\* What one person has sent without a manager only shrinks, but for a new send of theirs
\* that was counted.
LEMMA WithinThresholdKept ==
  ASSUME TypeOK, RowsInUse, Owned, WithinThreshold, Next PROVE WithinThreshold'
<1> DEFINE Unled(p) == {r \in RecentRecipients(p) : ~jobs[rcpts[r].job].needs}
<1> SUFFICES ASSUME NEW p \in People PROVE Cardinality(Unled(p)') <= Threshold
  BY DEF WithinThreshold
<1>1. Unled(p) \in SUBSET Rcpts /\ Unled(p)' \in SUBSET Rcpts /\ RecentRecipients(p) \in SUBSET Rcpts
  BY DEF RecentRecipients
<1>2. Cardinality(Unled(p)) <= Threshold
  BY DEF WithinThreshold
<1>3. ASSUME Unled(p)' \subseteq Unled(p) PROVE Cardinality(Unled(p)') <= Threshold
  <2>1. IsFiniteSet(Unled(p)) /\ Cardinality(Unled(p)) \in Nat
    BY <1>1, SetsAreFinite
  <2> HIDE DEF Unled
  <2>2. Cardinality(Unled(p)') <= Cardinality(Unled(p)) /\ Cardinality(Unled(p)') \in Nat
    BY <1>1, <1>3, <2>1, FS_Subset, SetsAreFinite
  <2> QED
    BY <1>2, <2>1, <2>2, CommsAssumption
<1>4. ASSUME RowsKept PROVE Unled(p)' \subseteq Unled(p)
  BY <1>4 DEF RowsKept, JobsKept, RcptsKept, RecentRecipients, OverStatuses
<1>5. ASSUME NEW j \in Jobs, NEW job \in Job, NEW R \in SUBSET Rcpts, NewSend(j, job, R)
      PROVE  Cardinality(Unled(p)') <= Threshold
  <2>1. ASSUME NEW r \in Rcpts, r \in Unled(p)', r \notin R PROVE r \in Unled(p)
    <3>1. rcpts'[r] = rcpts[r] /\ rcpts[r].job # j
      BY <1>5, <2>1, NewSendRows
    <3>2. jobs'[rcpts[r].job] = jobs[rcpts[r].job]
      BY <1>5, <2>1, <3>1, NewSendRows DEF RecentRecipients
    <3> QED
      BY <2>1, <3>1, <3>2 DEF RecentRecipients
  <2>2. ASSUME NEW r \in R, r \in Unled(p)' PROVE job.by = p /\ job.kind = "mail" /\ ~job.needs
    BY <1>5, <2>2, NewSendRows DEF RecentRecipients
  <2>3. CASE job.by = p /\ job.kind = "mail" /\ ~job.needs
    <3>1. Cardinality(R) + Cardinality(RecentRecipients(p)) <= Threshold
      BY <1>5, <2>3 DEF NewSend
    <3>2. IsFiniteSet(R) /\ IsFiniteSet(RecentRecipients(p))
      BY <1>1, SetsAreFinite
    <3>3. IsFiniteSet(R \cup RecentRecipients(p))
            /\ Cardinality(R \cup RecentRecipients(p)) <= Cardinality(R) + Cardinality(RecentRecipients(p))
      <4>1. /\ IsFiniteSet(R \cup RecentRecipients(p))
            /\ Cardinality(R \cup RecentRecipients(p)) =
                 Cardinality(R) + Cardinality(RecentRecipients(p)) - Cardinality(R \cap RecentRecipients(p))
        BY <3>2, FS_Union
      <4>2. /\ Cardinality(R \cap RecentRecipients(p)) \in Nat
            /\ Cardinality(R) \in Nat /\ Cardinality(RecentRecipients(p)) \in Nat
        BY <1>1, SetsAreFinite
      <4> QED
        BY <4>1, <4>2
    <3>4. Unled(p)' \subseteq R \cup RecentRecipients(p)
      BY <1>1, <2>1
    <3> HIDE DEF Unled
    <3>5. Cardinality(Unled(p)') <= Cardinality(R \cup RecentRecipients(p))
      BY <3>3, <3>4, FS_Subset
    <3>6. /\ Cardinality(Unled(p)') \in Nat /\ Cardinality(R \cup RecentRecipients(p)) \in Nat
          /\ Cardinality(R) \in Nat /\ Cardinality(RecentRecipients(p)) \in Nat
      BY <1>1, SetsAreFinite
    <3> QED
      BY <3>1, <3>3, <3>5, <3>6, CommsAssumption
  <2>4. CASE ~(job.by = p /\ job.kind = "mail" /\ ~job.needs)
    <3>1. Unled(p)' \subseteq Unled(p)
      BY <1>1, <2>1, <2>2, <2>4
    <3> QED
      BY <1>3, <3>1
  <2> QED
    BY <2>3, <2>4
<1> QED
  BY <1>3, <1>4, <1>5, EveryStep DEF ANewSend

\* Nothing of a send that needs a manager goes before somebody else has approved it: what
\* arrived was in flight with leave, and leave is not taken back.
LEMMA NothingGoesUnapprovedHolds ==
  ASSUME TypeOK, LeaveGiven PROVE NothingGoesUnapproved
  BY DEF LeaveGiven, Leave, NothingGoesUnapproved

THEOREM Invariance == Spec => []Inv
<1>1. Init => Inv
  <2> SUFFICES ASSUME Init PROVE Inv
    OBVIOUS
  <2>1. TypeOK
    <3>1. \A w \in Workers : run[w] \in Run
      BY RunRows DEF Init
    <3>2. faults \in 0..MaxFaults /\ nextDraft \in 1..(MaxDrafts + 1)
      BY CommsAssumption DEF Init
    <3>3. jobs \in [Jobs -> Job] /\ rcpts \in [Rcpts -> Rcpt]
      BY JobRows, RcptRows DEF Init
    <3>4. run \in [Workers -> Run]
      BY <3>1 DEF Init
    <3> QED
      BY <3>2, <3>3, <3>4 DEF Init, TypeOK
  <2>2. /\ \A j \in Jobs : jobs[j] = UnusedJob /\ jobs[j].status = "unused" /\ jobs[j].key = NoKey
        /\ \A r \in Rcpts : /\ rcpts[r] = UnusedRcpt /\ rcpts[r].status = "unused" /\ ~rcpts[r].stale
                            /\ rcpts[r].job = NoJob /\ arrived[r] = 0
        /\ \A w \in Workers : run[w].pc = "idle" /\ run[w].at = NoRcpt
    BY DEF Init, UnusedJob, UnusedRcpt, NoRun
  <2>3. RowsInUse /\ Owned /\ LeaveGiven /\ OutcomeIsTrue
    BY <2>2 DEF RowsInUse, Owned, InHand, LeaveGiven, GoingStatuses, OutcomeIsTrue
  <2>4. SentMeansGone /\ OneJobPerSubmit
    BY <2>2 DEF SentMeansGone, OneJobPerSubmit
  <2>5. WithinThreshold
    <3> SUFFICES ASSUME NEW p \in People
                 PROVE  Cardinality({r \in RecentRecipients(p) : ~jobs[rcpts[r].job].needs}) <= Threshold
      BY DEF WithinThreshold
    <3>1. RecentRecipients(p) = {}
      BY <2>2, NothingIsNamedNothing DEF RecentRecipients
    <3>2. {r \in RecentRecipients(p) : ~jobs[rcpts[r].job].needs} = {}
      BY <3>1
    <3>3. Cardinality({}) = 0 /\ 0 <= Threshold
      BY FS_EmptySet, CommsAssumption
    <3> QED
      BY <3>2, <3>3
  <2> QED
    BY <2>1, <2>3, <2>4, <2>5, NothingGoesUnapprovedHolds DEF Inv
<1>2. Inv /\ [Next]_vars => Inv'
  <2> SUFFICES ASSUME Inv, [Next]_vars PROVE Inv'
    OBVIOUS
  <2>1. CASE Next
    <3>1. TypeOK' /\ RowsInUse' /\ Owned' /\ LeaveGiven' /\ OutcomeIsTrue'
      BY <2>1, TypesKept, RowsInUseKept, OwnedKept, LeaveGivenKept, OutcomeIsTrueKept DEF Inv
    <3>2. SentMeansGone' /\ OneJobPerSubmit' /\ WithinThreshold'
      BY <2>1, SentMeansGoneKept, OneJobPerSubmitKept, WithinThresholdKept DEF Inv
    <3>3. NothingGoesUnapproved'
      BY <3>1 DEF LeaveGiven, Leave, NothingGoesUnapproved
    <3> QED
      BY <3>1, <3>2, <3>3 DEF Inv
  <2>2. CASE UNCHANGED vars
    BY <2>2 DEF Inv, vars, TypeOK, RowsInUse, Owned, LeaveGiven, OutcomeIsTrue, NothingGoesUnapproved,
       SentMeansGone, OneJobPerSubmit, WithinThreshold, RecentRecipients
  <2> QED
    BY <2>1, <2>2
<1> QED
  BY <1>1, <1>2, PTL DEF Spec

THEOREM TypeCorrect == Spec => []TypeOK
<1>1. Inv => TypeOK
  BY DEF Inv
<1> QED
  BY <1>1, Invariance, PTL

\* What needs a manager goes by leave of one, what is recorded as sent has gone, a repeated
\* submit makes no second send, and splitting one does not get around the threshold:
\* whatever the number of runs that overlap.
THEOREM MailGoesByTheRules ==
  Spec => [](NothingGoesUnapproved /\ SentMeansGone /\ OneJobPerSubmit /\ WithinThreshold)
<1>1. Inv => NothingGoesUnapproved /\ SentMeansGone /\ OneJobPerSubmit /\ WithinThreshold
  BY DEF Inv
<1> QED
  BY <1>1, Invariance, PTL

\* What is over stays over: a cancelled send stops, and no job ends twice, for any number
\* of runs that read the queue before.
THEOREM WhatIsOverStaysOver == Spec => OverIsOver
<1>1. ASSUME Inv, Next, NEW r \in Rcpts, rcpts[r].job \in Jobs, jobs[rcpts[r].job].status = "cancelled",
             rcpts[r].status # "sending"
      PROVE  rcpts'[r].status # "sending" /\ arrived'[r] = arrived[r]
  <2>1. rcpts'[r].status # "sending"
    BY <1>1, EveryStatusMoves DEF Inv, StatusMoves, GoingStatuses
  <2>2. arrived'[r] = arrived[r]
    BY <1>1, Arrivals DEF Inv
  <2> QED
    BY <2>1, <2>2
<1>2. ASSUME Inv, Next, NEW j \in Jobs, jobs[j].status \in OverStatuses
      PROVE  jobs'[j].status = jobs[j].status
  <2>1. ASSUME NEW i \in Jobs, NEW job \in Job, NEW R \in SUBSET Rcpts, NewSend(i, job, R)
        PROVE  jobs'[j].status = jobs[j].status
    BY <1>2, <2>1, NewSendRows DEF Inv, UnusedJob, OverStatuses
  <2> QED
    BY <1>2, <2>1, EveryStep DEF Inv, ANewSend, RowsKept, JobsKept
<1>3. Inv /\ [Next]_vars =>
        [\A r \in Rcpts :
           rcpts[r].job \in Jobs /\ jobs[rcpts[r].job].status = "cancelled" /\ rcpts[r].status # "sending"
             => rcpts'[r].status # "sending" /\ arrived'[r] = arrived[r]]_vars
  BY <1>1
<1>4. Inv /\ [Next]_vars =>
        [\A j \in Jobs : jobs[j].status \in OverStatuses => jobs'[j].status = jobs[j].status]_vars
  BY <1>2
<1> QED
  BY <1>3, <1>4, Invariance, PTL DEF Spec, OverIsOver, CancelStops, JobEndsOnce

-----------------------------------------------------------------------------
(* One run at a time: no email goes twice, and the budget holds.              *)

RunsAlone == \A v, w \in Workers : v = w

\* A draft that went is never sent again: what arrived is remembered with its draft, and
\* that draft is gone.
DraftsMade ==
  /\ \A d \in drafts : d < nextDraft
  /\ \A r \in Rcpts : rcpts[r].draft < nextDraft
OnceEach ==
  \A r \in Rcpts : /\ arrived[r] <= 1
                   /\ arrived[r] > 0 => rcpts[r].draft # NoDraft /\ rcpts[r].draft \notin drafts

\* The draft a run works with is the one the recipient's row has, or the one it will get.
DraftOf(state, draft) ==
  /\ state.pc = "claimed" => state.draft = draft
  /\ state.pc \in {"drafting", "saving"} => draft = NoDraft
  /\ state.pc = "saving" => state.draft # NoDraft /\ state.draft < nextDraft
  /\ state.pc = "sending" => state.draft = draft /\ draft # NoDraft
  /\ state.pc = "outcome" /\ state.result = "sent" => state.draft = draft
DraftsInHand == \A w \in Workers : run[w].pc \in InHand => DraftOf(run[w], rcpts[run[w].at].draft)

\* What a run has read and not dealt with is as it was read, once each, and not in hand.
ItemsAsRead ==
  \A w \in Workers : \A item \in run[w].items :
    /\ rcpts[item.rcpt].status # "unused" /\ item.draft = rcpts[item.rcpt].draft
    /\ run[w].pc \in InHand => item.rcpt # run[w].at
    /\ \A other \in run[w].items : other.rcpt = item.rcpt => other = item

\* What a run may still start, with what was started in the last minute, is within the budget.
Recent == {r \in Rcpts : rcpts[r].recent}
WithinReach ==
  \A w \in Workers :
    /\ IsFiniteSet(run[w].items)
    /\ run[w].pc = "reading" => run[w].budget + Cardinality(Recent) <= MaxPerMinute
    /\ run[w].pc \in InHand \cup {"items"} => Cardinality(run[w].items) + Cardinality(Recent) <= MaxPerMinute

AloneInv == DraftsMade /\ OnceEach /\ DraftsInHand /\ ItemsAsRead /\ WithinReach /\ WithinBudget

\* A recipient in use stays in use.
LEMMA UsedStays ==
  ASSUME TypeOK, RowsInUse, Owned, Next, NEW r \in Rcpts, rcpts[r].status # "unused"
  PROVE  rcpts'[r].status # "unused"
<1>1. ASSUME NEW j \in Jobs, NEW job \in Job, NEW R \in SUBSET Rcpts, NewSend(j, job, R)
      PROVE  rcpts'[r].status # "unused"
  BY <1>1, NewSendRows
<1> QED
  BY <1>1, EveryStep DEF ANewSend, RowsKept, RcptsKept

\* The draft of a recipient changes where a run saves the one it made, and nowhere else: an
\* outcome that is recorded as sent names the draft that the row has.
LEMMA DraftsStay ==
  ASSUME TypeOK, RowsInUse, Owned, DraftsInHand, Next, \A w \in Workers : ~SaveDraft(w), NEW r \in Rcpts
  PROVE  rcpts'[r].draft = rcpts[r].draft
<1>0. rcpts[r] \in Rcpt
  BY Rows
<1>1. ASSUME rcpts' = rcpts PROVE rcpts'[r].draft = rcpts[r].draft
  BY <1>1
<1>2. ASSUME NEW x \in Rcpts, NEW row, rcpts' = [rcpts EXCEPT ![x] = row], row.draft = rcpts[x].draft
      PROVE  rcpts'[r].draft = rcpts[r].draft
  BY <1>2 DEF TypeOK
<1>3. ASSUME NEW j, rcpts' = WithWaitingCancelled(j) PROVE rcpts'[r].draft = rcpts[r].draft
  <2>1. [rcpts[r] EXCEPT !.status = "cancelled"].draft = rcpts[r].draft
    BY <1>0 DEF Rcpt
  <2> QED
    BY <1>3, <2>1 DEF WithWaitingCancelled
<1>4. ASSUME NEW j \in Jobs, NEW job \in Job, NEW R \in SUBSET Rcpts, NewSend(j, job, R)
      PROVE  rcpts'[r].draft = rcpts[r].draft
  BY <1>4, NewSendRows DEF UnusedRcpt
<1>5. ASSUME RequestStep PROVE rcpts'[r].draft = rcpts[r].draft
  BY <1>1, <1>3, <1>4, <1>5, QueuingIsANewSend, TestingIsANewSend DEF RequestStep, ANewSend, Approve, Cancel
<1>6. ASSUME NEW w \in Workers, NEW item \in run[w].items, NEW st, MarkAsRead(w, item, st)
      PROVE  rcpts'[r].draft = rcpts[r].draft
  <2> DEFINE x == item.rcpt
             row == [rcpts[x] EXCEPT !.status = st, !.waits = FALSE, !.recent = @ \/ st = "would_send"]
  <2>1. x \in Rcpts /\ rcpts[x] \in Rcpt
    BY DoneFields, Rows
  <2>2. row.draft = rcpts[x].draft
    BY <2>1 DEF Rcpt
  <2>3. rcpts' = rcpts \/ rcpts' = [rcpts EXCEPT ![x] = row]
    BY <1>6 DEF MarkAsRead
  <2> HIDE DEF x, row
  <2> QED
    BY <1>1, <1>2, <2>1, <2>2, <2>3
<1>7. ASSUME NEW w \in Workers, NEW item \in run[w].items, Claim(w, item)
      PROVE  rcpts'[r].draft = rcpts[r].draft
  <2> DEFINE x == item.rcpt
             row == [rcpts[x] EXCEPT !.status = "sending", !.attempts = @ + 1, !.waits = FALSE, !.recent = TRUE]
  <2>1. x \in Rcpts /\ rcpts[x] \in Rcpt
    BY DoneFields, Rows
  <2>2. row.draft = rcpts[x].draft
    BY <2>1 DEF Rcpt
  <2>3. rcpts' = rcpts \/ rcpts' = [rcpts EXCEPT ![x] = row]
    BY <1>7 DEF Claim
  <2> HIDE DEF x, row
  <2> QED
    BY <1>1, <1>2, <2>1, <2>2, <2>3
<1>8. ASSUME NEW w \in Workers, RecordOutcome(w) PROVE rcpts'[r].draft = rcpts[r].draft
  <2> DEFINE x == run[w].at
             draft == IF run[w].result = "sent" THEN run[w].draft ELSE rcpts[x].draft
             status == OutcomeStatus(run[w].result)
             waits == run[w].result = "retry"
             row == [rcpts[x] EXCEPT !.status = status, !.waits = waits, !.draft = draft]
  <2>1. x \in Rcpts /\ rcpts[x].status = "sending" /\ rcpts[x] \in Rcpt
    BY <1>8, InHandIsSending, Rows DEF RecordOutcome, InHand
  <2>2. draft = rcpts[x].draft
    BY <1>8 DEF DraftsInHand, DraftOf, RecordOutcome, InHand
  <2>3. rcpts' = [rcpts EXCEPT ![x] = row]
    BY <1>8, <2>1 DEF RecordOutcome
  <2> HIDE DEF status, waits, draft
  <2>4. row.draft = draft
    BY <2>1 DEF Rcpt
  <2> HIDE DEF row, x
  <2> QED
    BY <1>2, <2>1, <2>2, <2>3, <2>4
<1>9. ASSUME NEW w \in Workers, RunStep(w) PROVE rcpts'[r].draft = rcpts[r].draft
  <2>1. ASSUME NEW j \in Jobs, Settle(w, j) PROVE rcpts'[r].draft = rcpts[r].draft
    BY <1>1, <1>3, <2>1 DEF Settle
  <2>2. ASSUME \/ RunCounts(w) \/ RunReads(w) \/ MarkJobSending(w) \/ CreateDraft(w) \/ CreateDraftFails(w)
               \/ SendDraft(w) \/ SendDraftFails(w) \/ ItemsDone(w) \/ RunEnds(w)
        PROVE  rcpts' = rcpts
    BY <2>2 DEF RunCounts, RunReads, MarkJobSending, CreateDraft, CreateDraftFails, SendDraft,
       SendDraftFails, ItemsDone, RunEnds
  <2> QED
    BY <1>1, <1>6, <1>7, <1>8, <1>9, <2>1, <2>2 DEF RunStep, Block, WouldSend
<1>10. ASSUME NEW w \in Workers, SaveDraftFails(w) \/ RunDies(w) PROVE rcpts'[r].draft = rcpts[r].draft
  BY <1>1, <1>10 DEF SaveDraftFails, RunDies
<1>11. ASSUME NEW w \in Workers, NEW mode \in Modes, RunStarts(w, mode) PROVE rcpts'[r].draft = rcpts[r].draft
  <2>1. Recovered(r).draft = rcpts[r].draft
    BY <1>0 DEF Recovered, Rcpt
  <2> QED
    BY <1>11, <2>1 DEF RunStarts
<1>12. ASSUME TimeStep PROVE rcpts'[r].draft = rcpts[r].draft
  BY <1>12, TimesKeep DEF TimeStep
<1>13. ASSUME NEW x \in Rcpts, RecordChanges(x) PROVE rcpts'[r].draft = rcpts[r].draft
  BY <1>1, <1>13 DEF RecordChanges
<1> QED
  BY <1>5, <1>9, <1>10, <1>11, <1>12, <1>13 DEF Next

\* Where a run saves, it saves what it made, for a recipient that had none.
LEMMA Saving ==
  ASSUME TypeOK, Owned, DraftsInHand, NEW w \in Workers, SaveDraft(w)
  PROVE  /\ run[w].at \in Rcpts /\ rcpts[run[w].at].draft = NoDraft
         /\ run[w].draft # NoDraft /\ run[w].draft < nextDraft
         /\ rcpts'[run[w].at].draft = run[w].draft
         /\ \A r \in Rcpts \ {run[w].at} : rcpts'[r] = rcpts[r]
         /\ UNCHANGED graph
<1>1. run[w].pc = "saving" /\ run[w].pc \in InHand
  BY DEF SaveDraft, InHand
<1>2. run[w].at \in Rcpts /\ rcpts[run[w].at] \in Rcpt
  BY <1>1, InHandIsSending, Rows
<1>3. DraftOf(run[w], rcpts[run[w].at].draft)
  BY <1>1 DEF DraftsInHand
<1>4. rcpts'[run[w].at].draft = run[w].draft
  BY <1>2 DEF SaveDraft, TypeOK, Rcpt
<1>5. \A r \in Rcpts \ {run[w].at} : rcpts'[r] = rcpts[r]
  BY <1>2 DEF SaveDraft, TypeOK
<1> QED
  BY <1>1, <1>2, <1>3, <1>4, <1>5 DEF DraftOf, SaveDraft

\* What every step does to Graph's drafts.
LEMMA GraphMoves ==
  ASSUME Next
  PROVE  \/ UNCHANGED graph
         \/ \E w \in Workers : CreateDraft(w)
         \/ \E w \in Workers : SendDraft(w)
<1>1. ASSUME RequestStep PROVE UNCHANGED graph
  BY <1>1 DEF RequestStep, QueueMail, SendTest, WriteJob, Approve, Cancel
<1>2. ASSUME NEW w \in Workers, RunStep(w), ~SendDraft(w), ~CreateDraft(w) PROVE UNCHANGED graph
  BY <1>2 DEF RunStep, RunCounts, RunReads, Block, WouldSend, MarkAsRead, Claim, MarkJobSending,
     CreateDraftFails, SaveDraft, SendDraftFails, RecordOutcome, ItemsDone, Settle, RunEnds
<1>3. ASSUME NEW w \in Workers, \/ SaveDraftFails(w) \/ RunDies(w) \/ \E mode \in Modes : RunStarts(w, mode)
      PROVE  UNCHANGED graph
  BY <1>3 DEF SaveDraftFails, RunDies, RunStarts
<1>4. ASSUME \/ TimeStep \/ \E x \in Rcpts : RecordChanges(x) PROVE UNCHANGED graph
  BY <1>4 DEF TimeStep, StalePasses, MinutePasses, WaitPasses, RecordChanges
<1> QED
  BY <1>1, <1>2, <1>3, <1>4 DEF Next

LEMMA DraftNumbers ==
  ASSUME TypeOK
  PROVE  /\ nextDraft \in Nat \ {0} /\ \A d \in drafts : d \in Nat \ {0}
         /\ \A r \in Rcpts : rcpts[r].draft \in Nat /\ arrived[r] \in Nat
         /\ \A w \in Workers : run[w].draft \in Nat
<1>1. \A d \in Drafts \cup {NoDraft} : d \in Nat
  BY CommsAssumption DEF Drafts, NoDraft
<1>2. \A d \in Drafts : d \in Nat \ {0}
  BY CommsAssumption DEF Drafts
<1>3. \A r \in Rcpts : rcpts[r].draft \in Drafts \cup {NoDraft}
  BY Rows DEF Rcpt
<1>4. \A w \in Workers : run[w].draft \in Drafts \cup {NoDraft}
  BY Rows, RunFields
<1>5. nextDraft \in Nat \ {0}
  BY CommsAssumption DEF TypeOK
<1> QED
  BY <1>1, <1>2, <1>3, <1>4, <1>5 DEF TypeOK

LEMMA DraftsMadeKept ==
  ASSUME TypeOK, RowsInUse, Owned, DraftsMade, DraftsInHand, Next PROVE DraftsMade'
<1>1. nextDraft' >= nextDraft /\ \A d \in drafts' : d < nextDraft'
  <2>1. CASE UNCHANGED graph
    BY <2>1, DraftNumbers DEF DraftsMade, graph
  <2>2. ASSUME NEW w \in Workers, CreateDraft(w) PROVE nextDraft' >= nextDraft /\ \A d \in drafts' : d < nextDraft'
    BY <2>2, DraftNumbers DEF DraftsMade, CreateDraft
  <2>3. ASSUME NEW w \in Workers, SendDraft(w) PROVE nextDraft' >= nextDraft /\ \A d \in drafts' : d < nextDraft'
    BY <2>3, DraftNumbers DEF DraftsMade, SendDraft
  <2> QED
    BY <2>1, <2>2, <2>3, GraphMoves
<1>2. nextDraft' \in Nat
  BY TypesKept, CommsAssumption DEF TypeOK
<1>3. ASSUME NEW r \in Rcpts PROVE rcpts'[r].draft < nextDraft'
  <2>1. rcpts'[r].draft < nextDraft /\ rcpts'[r].draft \in Nat
    <3>1. ASSUME NEW w \in Workers, SaveDraft(w) PROVE rcpts'[r].draft < nextDraft /\ rcpts'[r].draft \in Nat
      BY <3>1, Saving, DraftNumbers DEF DraftsMade
    <3>2. CASE \A w \in Workers : ~SaveDraft(w)
      BY <3>2, DraftsStay, DraftNumbers DEF DraftsMade
    <3> QED
      BY <3>1, <3>2
  <2> QED
    BY <1>1, <1>2, <2>1, DraftNumbers
<1> QED
  BY <1>1, <1>3 DEF DraftsMade

LEMMA OnceEachKept ==
  ASSUME TypeOK, RowsInUse, Owned, DraftsMade, OnceEach, DraftsInHand, Next PROVE OnceEach'
<1> SUFFICES ASSUME NEW r \in Rcpts
             PROVE  arrived'[r] <= 1 /\ (arrived'[r] > 0 => rcpts'[r].draft # NoDraft /\ rcpts'[r].draft \notin drafts')
  BY DEF OnceEach
<1>1. ASSUME NEW w \in Workers, SaveDraft(w)
      PROVE  arrived'[r] <= 1 /\ (arrived'[r] > 0 => rcpts'[r].draft # NoDraft /\ rcpts'[r].draft \notin drafts')
  <2>1. arrived' = arrived /\ drafts' = drafts
    BY <1>1, Saving DEF graph
  <2>2. CASE r = run[w].at
    <3>1. ~(arrived[r] > 0)
      BY <1>1, <2>2, Saving DEF OnceEach
    <3> QED
      BY <2>1, <3>1 DEF OnceEach
  <2>3. CASE r # run[w].at
    BY <1>1, <2>1, <2>3, Saving DEF OnceEach
  <2> QED
    BY <2>2, <2>3
<1>2. CASE \A w \in Workers : ~SaveDraft(w)
  <2>1. rcpts'[r].draft = rcpts[r].draft
    BY <1>2, DraftsStay
  <2>2. CASE UNCHANGED graph
    BY <2>1, <2>2 DEF OnceEach, graph
  <2>3. ASSUME NEW w \in Workers, CreateDraft(w)
        PROVE  arrived'[r] <= 1 /\ (arrived'[r] > 0 => rcpts'[r].draft # NoDraft /\ rcpts'[r].draft \notin drafts')
    BY <2>1, <2>3, DraftNumbers DEF CreateDraft, OnceEach, DraftsMade
  <2>4. ASSUME NEW w \in Workers, SendDraft(w)
        PROVE  arrived'[r] <= 1 /\ (arrived'[r] > 0 => rcpts'[r].draft # NoDraft /\ rcpts'[r].draft \notin drafts')
    <3>1. run[w].at \in Rcpts /\ DraftOf(run[w], rcpts[run[w].at].draft) /\ run[w].pc = "sending"
      BY <2>4, InHandIsSending DEF SendDraft, DraftsInHand, InHand
    <3>2. run[w].draft = rcpts[run[w].at].draft /\ run[w].draft # NoDraft
      BY <3>1 DEF DraftOf
    <3>3. run[w].draft \in drafts /\ drafts' = drafts \ {run[w].draft}
      BY <2>4 DEF SendDraft
    <3>4. CASE r = run[w].at
      <4>1. ~(arrived[r] > 0) /\ arrived[r] \in Nat
        BY <3>2, <3>3, <3>4, DraftNumbers DEF OnceEach
      <4>2. arrived'[r] = arrived[r] + 1
        BY <2>4, <3>4 DEF SendDraft, TypeOK
      <4> QED
        BY <2>1, <3>2, <3>3, <3>4, <4>1, <4>2
    <3>5. CASE r # run[w].at
      <4>1. arrived'[r] = arrived[r]
        BY <2>4, <3>1, <3>5 DEF SendDraft, TypeOK
      <4> QED
        BY <2>1, <3>3, <4>1 DEF OnceEach
    <3> QED
      BY <3>4, <3>5
  <2> QED
    BY <2>2, <2>3, <2>4, GraphMoves
<1> QED
  BY <1>1, <1>2

\* Where a step of a run leaves it, as far as its draft and its items go.
LEMMA RunMoves ==
  ASSUME TypeOK, NEW w \in Workers
  PROVE  /\ RunReads(w) => run'[w].pc = "items"
         /\ \A item \in run[w].items :
              /\ Claim(w, item) => /\ run'[w].items = run[w].items \ {item}
                                   /\ \/ run'[w].pc = "items"
                                      \/ /\ run'[w].pc = "claimed" /\ run'[w].at = item.rcpt
                                         /\ run'[w].draft = item.draft
              /\ \A st : MarkAsRead(w, item, st) => run'[w].items = run[w].items \ {item} /\ run'[w].pc = "items"
         /\ MarkJobSending(w) =>
              /\ run'[w].pc = (IF run[w].draft = NoDraft THEN "drafting" ELSE "sending")
              /\ run'[w].draft = run[w].draft /\ run'[w].at = run[w].at /\ run'[w].items = run[w].items
         /\ CreateDraft(w) =>
              /\ run'[w].pc = "saving" /\ run'[w].draft = nextDraft
              /\ run'[w].at = run[w].at /\ run'[w].items = run[w].items
         /\ SaveDraft(w) =>
              /\ run'[w].pc = "sending" /\ run'[w].draft = run[w].draft
              /\ run'[w].at = run[w].at /\ run'[w].items = run[w].items
         /\ CreateDraftFails(w) \/ SaveDraftFails(w) \/ SendDraft(w) \/ SendDraftFails(w) =>
              /\ run'[w].pc = "outcome" /\ run'[w].draft = run[w].draft
              /\ run'[w].at = run[w].at /\ run'[w].items = run[w].items
         /\ RecordOutcome(w) => run'[w].pc = "items" /\ run'[w].items = run[w].items
         /\ RunCounts(w) => run'[w].pc = "reading" /\ run'[w].items = run[w].items /\ run'[w].budget = Budget
         /\ ItemsDone(w) => run'[w].pc = "settling" /\ run'[w].items = run[w].items
         /\ \A j \in Jobs : Settle(w, j) => run'[w].pc = "settling" /\ run'[w].items = run[w].items
         /\ RunEnds(w) \/ RunDies(w) => run'[w].pc = "idle" /\ run'[w].items = {}
         /\ \A mode \in Modes : RunStarts(w, mode) => run'[w].pc = "counting" /\ run'[w].items = {}
<1>0. run[w] \in Run
  BY Rows
<1>1. ASSUME RunReads(w) PROVE run'[w].pc = "items"
  <2>1. PICK S \in SUBSET Due(run[w].mode) :
          Become(w, [run[w] EXCEPT !.pc = "items", !.items = {AsRead(r) : r \in S},
                                   !.touched = @ \cup {rcpts[r].job : r \in S}])
    BY <1>1 DEF RunReads
  <2> DEFINE items == {AsRead(r) : r \in S}
             touched == run[w].touched \cup {rcpts[r].job : r \in S}
  <2>2. run'[w] = [run[w] EXCEPT !.pc = "items", !.items = items, !.touched = touched]
    BY <2>1, Becomes
  <2> HIDE DEF items, touched
  <2> QED
    BY <1>0, <2>2 DEF Run
<1>2. ASSUME NEW item \in run[w].items, Claim(w, item)
      PROVE  /\ run'[w].items = run[w].items \ {item}
             /\ \/ run'[w].pc = "items"
                \/ /\ run'[w].pc = "claimed" /\ run'[w].at = item.rcpt /\ run'[w].draft = item.draft
  <2>1. Done(w, item) \in Run /\ Done(w, item).items = run[w].items \ {item} /\ Done(w, item).pc = "items"
    BY <1>2, DoneFields DEF Claim
  <2>2. CASE CanClaim(item.rcpt)
    <3> DEFINE state == [Done(w, item) EXCEPT !.pc = "claimed", !.at = item.rcpt, !.draft = item.draft,
                                              !.attempt = item.attempts + 1]
    <3>1. run'[w] = state
      BY <1>2, <2>2, Becomes DEF Claim
    <3>2. state.items = run[w].items \ {item} /\ state.pc = "claimed" /\ state.at = item.rcpt /\ state.draft = item.draft
      BY <2>1 DEF Run
    <3> QED
      BY <3>1, <3>2
  <2>3. CASE ~CanClaim(item.rcpt)
    BY <1>2, <2>1, <2>3, Becomes DEF Claim
  <2> QED
    BY <2>2, <2>3
<1>3. ASSUME NEW item \in run[w].items, NEW st, MarkAsRead(w, item, st)
      PROVE  run'[w].items = run[w].items \ {item} /\ run'[w].pc = "items"
  BY <1>3, DoneFields, Becomes DEF MarkAsRead
<1>4. MarkJobSending(w) =>
              /\ run'[w].pc = (IF run[w].draft = NoDraft THEN "drafting" ELSE "sending")
              /\ run'[w].draft = run[w].draft /\ run'[w].at = run[w].at /\ run'[w].items = run[w].items
  BY <1>0, Becomes DEF MarkJobSending, Run
<1>5. ASSUME CreateDraft(w)
      PROVE  /\ run'[w].pc = "saving" /\ run'[w].draft = nextDraft
             /\ run'[w].at = run[w].at /\ run'[w].items = run[w].items
  <2>1. run'[w] = [run[w] EXCEPT !.pc = "saving", !.draft = nextDraft]
    BY <1>5, Becomes DEF CreateDraft
  <2> QED
    BY <1>0, <2>1 DEF Run
<1>6. SaveDraft(w) =>
              /\ run'[w].pc = "sending" /\ run'[w].draft = run[w].draft
              /\ run'[w].at = run[w].at /\ run'[w].items = run[w].items
  BY <1>0, Becomes DEF SaveDraft, Run
<1>7. ASSUME NEW result, Become(w, [run[w] EXCEPT !.pc = "outcome", !.result = result])
      PROVE  /\ run'[w].pc = "outcome" /\ run'[w].draft = run[w].draft
             /\ run'[w].at = run[w].at /\ run'[w].items = run[w].items
  <2>1. run'[w] = [run[w] EXCEPT !.pc = "outcome", !.result = result]
    BY <1>7, Becomes
  <2> QED
    BY <1>0, <2>1 DEF Run
<1>8. CreateDraftFails(w) \/ SaveDraftFails(w) \/ SendDraft(w) \/ SendDraftFails(w) =>
              /\ run'[w].pc = "outcome" /\ run'[w].draft = run[w].draft
              /\ run'[w].at = run[w].at /\ run'[w].items = run[w].items
  BY <1>7 DEF CreateDraftFails, SaveDraftFails, SendDraft, SendDraftFails, AfterError
<1>9. RecordOutcome(w) => run'[w].pc = "items" /\ run'[w].items = run[w].items
  BY NextItemFields, Becomes DEF RecordOutcome
<1>10. ASSUME RunCounts(w)
       PROVE  run'[w].pc = "reading" /\ run'[w].items = run[w].items /\ run'[w].budget = Budget
  <2>1. run'[w] = [run[w] EXCEPT !.pc = "reading", !.budget = Budget]
    BY <1>10, Becomes DEF RunCounts
  <2> QED
    BY <1>0, <2>1 DEF Run
<1>11. ItemsDone(w) => run'[w].pc = "settling" /\ run'[w].items = run[w].items
  BY <1>0, Becomes DEF ItemsDone, Run
<1>12. \A j \in Jobs : Settle(w, j) => run'[w].pc = "settling" /\ run'[w].items = run[w].items
  BY <1>0, Becomes DEF Settle, Run
<1>13. RunEnds(w) \/ RunDies(w) => run'[w].pc = "idle" /\ run'[w].items = {}
  BY Becomes DEF RunEnds, RunDies, NoRun
<1>14. ASSUME NEW mode \in Modes, RunStarts(w, mode) PROVE run'[w].pc = "counting" /\ run'[w].items = {}
  <2> DEFINE touched == IF mode = "live" THEN StaleJobs ELSE {}
             state == [NoRun EXCEPT !.pc = "counting", !.mode = mode, !.touched = touched]
  <2>1. run'[w] = state
    BY <1>14, Becomes DEF RunStarts
  <2> HIDE DEF touched
  <2>2. state.pc = "counting" /\ state.items = {}
    BY DEF NoRun
  <2> QED
    BY <2>1, <2>2
<1> QED
  BY <1>1, <1>2, <1>3, <1>4, <1>5, <1>6, <1>8, <1>9, <1>10, <1>11, <1>12, <1>13, <1>14

\* A step is a run's, or leaves the runs and Graph alone.
LEMMA StepsOfRuns ==
  ASSUME Next
  PROVE  \/ RequestStep \/ TimeStep \/ \E r \in Rcpts : RecordChanges(r)
         \/ \E w \in Workers : \/ RunStep(w) \/ SaveDraftFails(w) \/ RunDies(w)
                               \/ \E mode \in Modes : RunStarts(w, mode)
  BY DEF Next

LEMMA Idle ==
  ASSUME RequestStep \/ TimeStep \/ \E r \in Rcpts : RecordChanges(r) PROVE run' = run /\ UNCHANGED graph
  BY DEF RequestStep, QueueMail, SendTest, WriteJob, Approve, Cancel, TimeStep, StalePasses,
     MinutePasses, WaitPasses, RecordChanges

LEMMA DraftsInHandKept ==
  ASSUME RunsAlone, TypeOK, RowsInUse, Owned, DraftsMade, OnceEach, DraftsInHand, ItemsAsRead, Next
  PROVE  DraftsInHand'
<1> SUFFICES ASSUME NEW w \in Workers, run'[w].pc \in InHand
             PROVE  DraftOf(run[w], rcpts[run[w].at].draft)'
  BY DEF DraftsInHand
<1>1. nextDraft' >= nextDraft /\ nextDraft \in Nat /\ nextDraft' \in Nat
  <2>1. nextDraft' = nextDraft \/ nextDraft' = nextDraft + 1
    BY GraphMoves DEF graph, CreateDraft, SendDraft
  <2> QED
    BY <2>1, DraftNumbers
<1>2. ASSUME RequestStep \/ TimeStep \/ \E r \in Rcpts : RecordChanges(r)
      PROVE  DraftOf(run[w], rcpts[run[w].at].draft)'
  <2>1. run' = run /\ nextDraft' = nextDraft
    BY <1>2, Idle DEF graph
  <2>2. \A v \in Workers : ~SaveDraft(v)
    <3>1. ASSUME NEW v \in Workers, SaveDraft(v) PROVE FALSE
      <4>1. run'[v].pc = "sending" /\ run[v].pc = "saving"
        BY <3>1, RunMoves DEF SaveDraft
      <4> QED
        BY <2>1, <4>1
    <3> QED
      BY <3>1
  <2>3. run[w].at \in Rcpts
    BY <2>1, InHandIsSending
  <2>4. rcpts'[run[w].at].draft = rcpts[run[w].at].draft
    BY <2>2, <2>3, DraftsStay
  <2>5. DraftOf(run[w], rcpts[run[w].at].draft)
    BY <2>1 DEF DraftsInHand
  <2> QED
    BY <2>1, <2>4, <2>5 DEF DraftOf
<1>3. ASSUME \/ RunStep(w) \/ SaveDraftFails(w) \/ RunDies(w) \/ \E mode \in Modes : RunStarts(w, mode)
      PROVE  DraftOf(run[w], rcpts[run[w].at].draft)'
  <2>1. CASE SaveDraft(w)
    <3>1. run'[w].pc = "sending" /\ run'[w].draft = run[w].draft /\ run'[w].at = run[w].at
      BY <2>1, RunMoves
    <3>2. rcpts'[run[w].at].draft = run[w].draft /\ run[w].draft # NoDraft
      BY <2>1, Saving
    <3> QED
      BY <3>1, <3>2 DEF DraftOf
  <2>2. ASSUME ~SaveDraft(w), NEW r \in Rcpts PROVE rcpts'[r].draft = rcpts[r].draft
    <3>1. \A v \in Workers : ~SaveDraft(v)
      BY <2>2 DEF RunsAlone
    <3> QED
      BY <3>1, DraftsStay
  <2>3. ASSUME NEW item \in run[w].items, Claim(w, item) PROVE DraftOf(run[w], rcpts[run[w].at].draft)'
    <3>1. ~SaveDraft(w)
      BY <2>3 DEF Claim, SaveDraft
    <3>2. run'[w].pc = "claimed" /\ run'[w].at = item.rcpt /\ run'[w].draft = item.draft /\ item.rcpt \in Rcpts
      BY <2>3, RunMoves, DoneFields DEF InHand
    <3>3. item.draft = rcpts[item.rcpt].draft
      BY DEF ItemsAsRead
    <3> QED
      BY <2>2, <3>1, <3>2, <3>3 DEF DraftOf
  <2>4. ASSUME MarkJobSending(w) PROVE DraftOf(run[w], rcpts[run[w].at].draft)'
    <3>1. ~SaveDraft(w) /\ run[w].pc = "claimed" /\ run[w].pc \in InHand
      BY <2>4 DEF MarkJobSending, SaveDraft, InHand
    <3>2. run[w].at \in Rcpts /\ run[w].draft = rcpts[run[w].at].draft
      BY <3>1, InHandIsSending DEF DraftsInHand, DraftOf
    <3>3. /\ run'[w].pc = (IF run[w].draft = NoDraft THEN "drafting" ELSE "sending")
          /\ run'[w].draft = run[w].draft /\ run'[w].at = run[w].at
      BY <2>4, RunMoves
    <3>4. rcpts'[run'[w].at].draft = run[w].draft
      BY <2>2, <3>1, <3>2, <3>3
    <3> QED
      BY <3>3, <3>4 DEF DraftOf
  <2>5. ASSUME CreateDraft(w) PROVE DraftOf(run[w], rcpts[run[w].at].draft)'
    <3>1. ~SaveDraft(w) /\ run[w].pc = "drafting" /\ run[w].pc \in InHand
      BY <2>5 DEF CreateDraft, SaveDraft, InHand
    <3>2. run[w].at \in Rcpts /\ NoDraft = rcpts[run[w].at].draft
      BY <3>1, InHandIsSending DEF DraftsInHand, DraftOf
    <3>3. run'[w].pc = "saving" /\ run'[w].draft = nextDraft /\ run'[w].at = run[w].at
      BY <2>5, RunMoves
    <3>4. rcpts'[run'[w].at].draft = NoDraft
      BY <2>2, <3>1, <3>2, <3>3
    <3>5. nextDraft # NoDraft /\ nextDraft < nextDraft'
      BY <2>5, DraftNumbers DEF CreateDraft, NoDraft
    <3> QED
      BY <3>3, <3>4, <3>5 DEF DraftOf
  <2>6. ASSUME CreateDraftFails(w) \/ SaveDraftFails(w) \/ SendDraftFails(w)
        PROVE  DraftOf(run[w], rcpts[run[w].at].draft)'
    <3>1. run'[w].pc = "outcome" /\ ~(run'[w] = run[w])
      BY <2>6, RunMoves DEF CreateDraftFails, SaveDraftFails, SendDraftFails
    <3>2. drafts' = drafts
      BY <2>6 DEF CreateDraftFails, SaveDraftFails, SendDraftFails, graph
    <3>3. SendDraft(w) => run[w].draft \in drafts /\ run[w].draft \notin drafts'
      BY DEF SendDraft
    <3>4. ~SendDraft(w)
      BY <3>2, <3>3
    <3>5. run'[w].result # "sent"
      BY <3>1, <3>4, OutcomeComes
    <3> QED
      BY <3>1, <3>5 DEF DraftOf
  <2>7. ASSUME SendDraft(w) PROVE DraftOf(run[w], rcpts[run[w].at].draft)'
    <3>1. ~SaveDraft(w) /\ run[w].pc = "sending" /\ run[w].pc \in InHand
      BY <2>7 DEF SendDraft, SaveDraft, InHand
    <3>2. run[w].at \in Rcpts /\ run[w].draft = rcpts[run[w].at].draft
      BY <3>1, InHandIsSending DEF DraftsInHand, DraftOf
    <3>3. run'[w].pc = "outcome" /\ run'[w].draft = run[w].draft /\ run'[w].at = run[w].at
      BY <2>7, RunMoves
    <3>4. rcpts'[run'[w].at].draft = run'[w].draft
      BY <2>2, <3>1, <3>2, <3>3
    <3> QED
      BY <3>3, <3>4 DEF DraftOf
  <2>8. ASSUME \/ RunCounts(w) \/ RunReads(w) \/ RecordOutcome(w) \/ ItemsDone(w)
               \/ (\E j \in Jobs : Settle(w, j)) \/ RunEnds(w) \/ RunDies(w)
               \/ (\E item \in run[w].items : Block(w, item) \/ WouldSend(w, item))
               \/ (\E mode \in Modes : RunStarts(w, mode))
        PROVE  FALSE
    <3>1. run'[w].pc \in {"reading", "items", "settling", "idle", "counting"}
      BY <2>8, RunMoves DEF Block, WouldSend
    <3> QED
      BY <3>1 DEF InHand
  <2> QED
    BY <1>3, <2>1, <2>3, <2>4, <2>5, <2>6, <2>7, <2>8 DEF RunStep
<1> QED
  BY <1>2, <1>3, StepsOfRuns DEF RunsAlone

\* The same of what a run has read: it stays as it was read while no other run works.
AsItWasRead(items, pc, at) ==
  \A item \in items :
    /\ rcpts[item.rcpt].status # "unused" /\ item.draft = rcpts[item.rcpt].draft
    /\ pc \in InHand => item.rcpt # at
    /\ \A other \in items : other.rcpt = item.rcpt => other = item

LEMMA ItemsAsReadKept ==
  ASSUME RunsAlone, TypeOK, RowsInUse, Owned, DraftsMade, OnceEach, DraftsInHand, ItemsAsRead, Next
  PROVE  ItemsAsRead'
<1> SUFFICES ASSUME NEW w \in Workers PROVE AsItWasRead(run[w].items, run[w].pc, run[w].at)'
  BY DEF ItemsAsRead, AsItWasRead
<1>1. AsItWasRead(run[w].items, run[w].pc, run[w].at)
  BY DEF ItemsAsRead, AsItWasRead
<1>2. \A item \in run[w].items : item.rcpt \in Rcpts
  BY DoneFields
\* What was read and not dealt with is still as it was read after the step.
<1>3. ASSUME NEW item \in run[w].items
      PROVE  rcpts'[item.rcpt].status # "unused" /\ item.draft = rcpts'[item.rcpt].draft
  <2>1. rcpts'[item.rcpt].status # "unused"
    BY <1>1, <1>2, UsedStays DEF AsItWasRead
  <2>2. rcpts'[item.rcpt].draft = rcpts[item.rcpt].draft
    <3>1. ASSUME NEW v \in Workers, SaveDraft(v) PROVE rcpts'[item.rcpt].draft = rcpts[item.rcpt].draft
      <4>1. v = w /\ run[w].pc \in InHand
        BY <3>1 DEF RunsAlone, SaveDraft, InHand
      <4>2. item.rcpt \in Rcpts \ {run[v].at}
        BY <1>1, <1>2, <4>1 DEF AsItWasRead
      <4> QED
        BY <3>1, <4>2, Saving
    <3>2. CASE \A v \in Workers : ~SaveDraft(v)
      BY <1>2, <3>2, DraftsStay
    <3> QED
      BY <3>1, <3>2
  <2> QED
    BY <1>1, <2>1, <2>2 DEF AsItWasRead
<1>4. ASSUME run'[w].items \subseteq run[w].items,
             run'[w].pc \in InHand => \A item \in run'[w].items : item.rcpt # run'[w].at
      PROVE  AsItWasRead(run[w].items, run[w].pc, run[w].at)'
  BY <1>1, <1>3, <1>4 DEF AsItWasRead
<1>5. ASSUME RequestStep \/ TimeStep \/ \E r \in Rcpts : RecordChanges(r)
      PROVE  AsItWasRead(run[w].items, run[w].pc, run[w].at)'
  BY <1>1, <1>4, <1>5, Idle DEF AsItWasRead
<1>6. ASSUME \/ RunStep(w) \/ SaveDraftFails(w) \/ RunDies(w) \/ \E mode \in Modes : RunStarts(w, mode)
      PROVE  AsItWasRead(run[w].items, run[w].pc, run[w].at)'
  <2>1. CASE RunReads(w)
    <3>1. PICK S \in SUBSET Due(run[w].mode) :
            Become(w, [run[w] EXCEPT !.pc = "items", !.items = {AsRead(r) : r \in S},
                                     !.touched = @ \cup {rcpts[r].job : r \in S}])
      BY <2>1 DEF RunReads
    <3> DEFINE items == {AsRead(r) : r \in S}
               touched == run[w].touched \cup {rcpts[r].job : r \in S}
    <3>2. run'[w] = [run[w] EXCEPT !.pc = "items", !.items = items, !.touched = touched]
      BY <3>1, Becomes
    <3>3. run'[w].items = items /\ run'[w].pc = "items"
      <4> HIDE DEF items, touched
      <4>1. run[w] \in Run
        BY Rows
      <4> QED
        BY <3>2, <4>1 DEF Run
    <3>4. rcpts' = rcpts
      BY <2>1 DEF RunReads
    <3>5. ASSUME NEW item \in items
          PROVE  /\ rcpts[item.rcpt].status # "unused" /\ item.draft = rcpts[item.rcpt].draft
                 /\ item = AsRead(item.rcpt)
      <4>1. PICK r \in S : item = AsRead(r)
        OBVIOUS
      <4>2. item.rcpt = r /\ item.draft = rcpts[r].draft
        BY <4>1 DEF AsRead
      <4>3. rcpts[r].status # "unused"
        BY DEF Due
      <4> QED
        BY <4>1, <4>2, <4>3
    <3> HIDE DEF items
    <3>6. \A item, other \in items : other.rcpt = item.rcpt => other = item
      BY <3>5
    <3>7. "items" \notin InHand
      BY DEF InHand
    <3> QED
      BY <3>3, <3>4, <3>5, <3>6, <3>7 DEF AsItWasRead
  <2>2. ASSUME NEW item \in run[w].items, Claim(w, item)
        PROVE  AsItWasRead(run[w].items, run[w].pc, run[w].at)'
    <3>1. run'[w].items = run[w].items \ {item} /\ (run'[w].pc = "items" \/ run'[w].at = item.rcpt)
      BY <2>2, RunMoves
    <3>2. run'[w].pc \in InHand => \A other \in run'[w].items : other.rcpt # run'[w].at
      BY <1>1, <3>1 DEF AsItWasRead, InHand
    <3> QED
      BY <1>4, <3>1, <3>2
  <2>3. ASSUME \/ MarkJobSending(w) \/ CreateDraft(w) \/ SaveDraft(w) \/ CreateDraftFails(w)
               \/ SaveDraftFails(w) \/ SendDraft(w) \/ SendDraftFails(w)
        PROVE  AsItWasRead(run[w].items, run[w].pc, run[w].at)'
    <3>1. run'[w].items = run[w].items /\ run'[w].at = run[w].at
      BY <2>3, RunMoves
    <3>2. run[w].pc \in InHand
      BY <2>3 DEF MarkJobSending, CreateDraft, SaveDraft, CreateDraftFails, SaveDraftFails, SendDraft,
         SendDraftFails, InHand
    <3> QED
      BY <1>1, <1>4, <3>1, <3>2 DEF AsItWasRead
  <2>4. ASSUME \/ RunCounts(w) \/ RecordOutcome(w) \/ ItemsDone(w)
               \/ (\E j \in Jobs : Settle(w, j)) \/ RunEnds(w) \/ RunDies(w)
               \/ (\E item \in run[w].items : Block(w, item) \/ WouldSend(w, item))
               \/ (\E mode \in Modes : RunStarts(w, mode))
        PROVE  AsItWasRead(run[w].items, run[w].pc, run[w].at)'
    <3>1. run'[w].items \subseteq run[w].items
      BY <2>4, RunMoves DEF Block, WouldSend
    <3>2. run'[w].pc \in {"reading", "items", "settling", "idle", "counting"}
      BY <2>4, RunMoves DEF Block, WouldSend
    <3>3. run'[w].pc \notin InHand
      BY <3>2 DEF InHand
    <3> QED
      BY <1>4, <3>1, <3>3
  <2> QED
    BY <1>6, <2>1, <2>2, <2>3, <2>4 DEF RunStep
<1> QED
  BY <1>5, <1>6, StepsOfRuns DEF RunsAlone

\* A recipient counts as started from its claim, or from what a dry run would have sent.
LEMMA RecentMoves ==
  ASSUME TypeOK, RowsInUse, Owned, Next
  PROVE  \/ Recent' \subseteq Recent
         \/ \E w \in Workers : \E item \in run[w].items :
              (Claim(w, item) \/ WouldSend(w, item)) /\ Recent' \subseteq Recent \cup {item.rcpt}
<1>0. \A r \in Rcpts : rcpts[r] \in Rcpt
  BY Rows
<1>1. ASSUME \A r \in Rcpts : rcpts'[r] = rcpts[r] \/ rcpts'[r].recent \in {FALSE, rcpts[r].recent}
      PROVE  Recent' \subseteq Recent
  BY <1>1 DEF Recent
<1>2. ASSUME NEW x \in Rcpts, NEW row, rcpts' = [rcpts EXCEPT ![x] = row], row.recent \in {FALSE, rcpts[x].recent}
      PROVE  Recent' \subseteq Recent
  BY <1>1, <1>2 DEF TypeOK
<1>3. ASSUME NEW j, rcpts' = WithWaitingCancelled(j) PROVE Recent' \subseteq Recent
  <2>1. \A r \in Rcpts : [rcpts[r] EXCEPT !.status = "cancelled"].recent = rcpts[r].recent
    BY <1>0 DEF Rcpt
  <2> QED
    BY <1>1, <1>3, <2>1 DEF WithWaitingCancelled
<1>4. ASSUME NEW j \in Jobs, NEW job \in Job, NEW R \in SUBSET Rcpts, NewSend(j, job, R)
      PROVE  Recent' \subseteq Recent
  BY <1>4, NewSendRows DEF Recent
<1>5. ASSUME RequestStep PROVE Recent' \subseteq Recent
  BY <1>1, <1>3, <1>4, <1>5, QueuingIsANewSend, TestingIsANewSend DEF RequestStep, ANewSend, Approve, Cancel
<1>6. ASSUME NEW w \in Workers, NEW item \in run[w].items, Claim(w, item) \/ WouldSend(w, item)
      PROVE  Recent' \subseteq Recent \cup {item.rcpt}
  <2>1. \A r \in Rcpts \ {item.rcpt} : rcpts'[r] = rcpts[r]
    BY <1>6, DoneFields DEF Claim, WouldSend, MarkAsRead, TypeOK
  <2> QED
    BY <2>1 DEF Recent
<1>7. ASSUME NEW w \in Workers, NEW item \in run[w].items, Block(w, item) PROVE Recent' \subseteq Recent
  <2> DEFINE x == item.rcpt
             recent == rcpts[x].recent \/ "blocked" = "would_send"
             row == [rcpts[x] EXCEPT !.status = "blocked", !.waits = FALSE, !.recent = recent]
  <2>1. x \in Rcpts
    BY DoneFields
  <2>2. rcpts' = rcpts \/ rcpts' = [rcpts EXCEPT ![x] = row]
    BY <1>7 DEF Block, MarkAsRead
  <2>3. recent = rcpts[x].recent
    <3>1. rcpts[x].recent \in BOOLEAN
      BY <1>0, <2>1 DEF Rcpt
    <3> QED
      BY <3>1
  <2> HIDE DEF recent
  <2>4. row.recent = recent
    BY <1>0, <2>1 DEF Rcpt
  <2> HIDE DEF row, x
  <2> QED
    BY <1>1, <1>2, <2>1, <2>2, <2>3, <2>4
<1>8. ASSUME NEW w \in Workers, SaveDraft(w) PROVE Recent' \subseteq Recent
  <2> DEFINE x == run[w].at
             row == [rcpts[x] EXCEPT !.draft = run[w].draft]
  <2>1. x \in Rcpts
    BY <1>8, InHandIsSending DEF SaveDraft, InHand
  <2>2. rcpts' = [rcpts EXCEPT ![x] = row] /\ row.recent = rcpts[x].recent
    BY <1>0, <1>8, <2>1 DEF SaveDraft, Rcpt
  <2> QED
    BY <1>2, <2>1, <2>2
<1>9. ASSUME NEW w \in Workers, RecordOutcome(w) PROVE Recent' \subseteq Recent
  <2> DEFINE x == run[w].at
             draft == IF run[w].result = "sent" THEN run[w].draft ELSE rcpts[x].draft
             status == OutcomeStatus(run[w].result)
             waits == run[w].result = "retry"
             row == [rcpts[x] EXCEPT !.status = status, !.waits = waits, !.draft = draft]
  <2>1. x \in Rcpts /\ rcpts[x].status = "sending"
    BY <1>9, InHandIsSending DEF RecordOutcome, InHand
  <2>2. rcpts' = [rcpts EXCEPT ![x] = row]
    BY <1>9, <2>1 DEF RecordOutcome
  <2> HIDE DEF status, waits, draft
  <2>3. row.recent = rcpts[x].recent
    BY <1>0, <2>1 DEF Rcpt
  <2> HIDE DEF row, x
  <2> QED
    BY <1>2, <2>1, <2>2, <2>3
<1>10. ASSUME NEW w \in Workers, RunStep(w), \A item \in run[w].items : ~Claim(w, item) /\ ~WouldSend(w, item)
       PROVE  Recent' \subseteq Recent
  <2>1. ASSUME NEW j \in Jobs, Settle(w, j) PROVE Recent' \subseteq Recent
    BY <1>1, <1>3, <2>1 DEF Settle
  <2>2. ASSUME \/ RunCounts(w) \/ RunReads(w) \/ MarkJobSending(w) \/ CreateDraft(w) \/ CreateDraftFails(w)
               \/ SendDraft(w) \/ SendDraftFails(w) \/ ItemsDone(w) \/ RunEnds(w)
        PROVE  rcpts' = rcpts
    BY <2>2 DEF RunCounts, RunReads, MarkJobSending, CreateDraft, CreateDraftFails, SendDraft,
       SendDraftFails, ItemsDone, RunEnds
  <2> QED
    BY <1>1, <1>7, <1>8, <1>9, <1>10, <2>1, <2>2 DEF RunStep
<1>11. ASSUME NEW w \in Workers, SaveDraftFails(w) \/ RunDies(w) PROVE Recent' \subseteq Recent
  BY <1>1, <1>11 DEF SaveDraftFails, RunDies
<1>12. ASSUME NEW w \in Workers, NEW mode \in Modes, RunStarts(w, mode) PROVE Recent' \subseteq Recent
  <2>1. \A r \in Rcpts : Recovered(r).recent = rcpts[r].recent
    BY <1>0 DEF Recovered, Rcpt
  <2> QED
    BY <1>1, <1>12, <2>1 DEF RunStarts
<1>13. ASSUME NEW r \in Rcpts, StalePasses(r) \/ MinutePasses(r) \/ WaitPasses(r) PROVE Recent' \subseteq Recent
  <2>1. /\ [rcpts[r] EXCEPT !.stale = TRUE, !.recent = FALSE].recent = FALSE
        /\ [rcpts[r] EXCEPT !.recent = FALSE].recent = FALSE
        /\ [rcpts[r] EXCEPT !.waits = FALSE].recent = rcpts[r].recent
    BY <1>0 DEF Rcpt
  <2>2. \/ rcpts' = [rcpts EXCEPT ![r] = [rcpts[r] EXCEPT !.stale = TRUE, !.recent = FALSE]]
        \/ rcpts' = [rcpts EXCEPT ![r] = [rcpts[r] EXCEPT !.recent = FALSE]]
        \/ rcpts' = [rcpts EXCEPT ![r] = [rcpts[r] EXCEPT !.waits = FALSE]]
    BY <1>13 DEF StalePasses, MinutePasses, WaitPasses
  <2> QED
    BY <1>2, <2>1, <2>2
<1>14. ASSUME NEW x \in Rcpts, RecordChanges(x) PROVE Recent' \subseteq Recent
  BY <1>1, <1>14 DEF RecordChanges
<1> QED
  BY <1>5, <1>6, <1>10, <1>11, <1>12, <1>13, <1>14 DEF Next, TimeStep

LEMMA RecentCounts ==
  /\ Recent \in SUBSET Rcpts /\ IsFiniteSet(Recent) /\ Cardinality(Recent) \in Nat
  /\ RecentAttempts = Cardinality(Recent)
  BY SetsAreFinite DEF Recent, RecentAttempts

\* A run reads no more than its budget.
LEMMA ReadWithinBudget ==
  ASSUME TypeOK, NEW w \in Workers, RunReads(w)
  PROVE  IsFiniteSet(run'[w].items) /\ Cardinality(run'[w].items) <= run[w].budget
<1>1. PICK S \in SUBSET Due(run[w].mode) :
        /\ Cardinality(S) = Least(run[w].budget, Cardinality(Due(run[w].mode)))
        /\ Become(w, [run[w] EXCEPT !.pc = "items", !.items = {AsRead(r) : r \in S},
                                    !.touched = @ \cup {rcpts[r].job : r \in S}])
  BY DEF RunReads
<1> DEFINE items == {AsRead(r) : r \in S}
           touched == run[w].touched \cup {rcpts[r].job : r \in S}
           f == [r \in S |-> AsRead(r)]
<1>2. run'[w].items = items
  <2>1. run'[w] = [run[w] EXCEPT !.pc = "items", !.items = items, !.touched = touched]
    BY <1>1, Becomes
  <2> HIDE DEF items, touched
  <2>2. run[w] \in Run
    BY Rows
  <2> QED
    BY <2>1, <2>2 DEF Run
<1>3. S \in SUBSET Rcpts /\ Due(run[w].mode) \in SUBSET Rcpts
  BY DEF Due
<1>4. IsFiniteSet(S) /\ Cardinality(S) \in Nat /\ Cardinality(Due(run[w].mode)) \in Nat
  BY <1>3, SetsAreFinite
<1>5. run[w].budget \in Nat
  BY Rows, RunFields, CommsAssumption
<1>6. Cardinality(S) <= run[w].budget
  BY <1>1, <1>4, <1>5 DEF Least
<1>7. f \in Surjection(S, items)
  BY DEF Surjection
<1>8. IsFiniteSet(items) /\ Cardinality(items) <= Cardinality(S)
  BY <1>4, <1>7, FS_Surjection
<1>9. Cardinality(items) \in Nat
  BY <1>8, FS_CardinalityType
<1> HIDE DEF items
<1> QED
  BY <1>2, <1>4, <1>5, <1>6, <1>8, <1>9

LEMMA BudgetKept ==
  ASSUME RunsAlone, TypeOK, RowsInUse, Owned, WithinReach, WithinBudget, Next
  PROVE  WithinReach' /\ WithinBudget'
<1> DEFINE n == Cardinality(Recent)
           m == Cardinality(Recent')
           Reach(state, k) ==
             /\ IsFiniteSet(state.items)
             /\ state.pc = "reading" => state.budget + k <= MaxPerMinute
             /\ state.pc \in InHand \cup {"items"} => Cardinality(state.items) + k <= MaxPerMinute
<1>0. n \in Nat /\ m \in Nat /\ n <= MaxPerMinute /\ MaxPerMinute \in Nat
      /\ IsFiniteSet(Recent) /\ IsFiniteSet(Recent') /\ RecentAttempts = n /\ RecentAttempts' = m
  <2>1. Recent' \in SUBSET Rcpts /\ RecentAttempts' = m
    BY DEF Recent, RecentAttempts
  <2> QED
    BY <2>1, RecentCounts, SetsAreFinite, CommsAssumption DEF WithinBudget
<1>1. Recent' \subseteq Recent => m <= n
  BY <1>0, FS_Subset
<1>2. ASSUME NEW x, Recent' \subseteq Recent \cup {x} PROVE m <= n + 1
  <2>1. IsFiniteSet(Recent \cup {x}) /\ Cardinality(Recent \cup {x}) <= n + 1
    BY <1>0, FS_AddElement
  <2>2. m <= Cardinality(Recent \cup {x}) /\ Cardinality(Recent \cup {x}) \in Nat
    BY <1>2, <2>1, FS_Subset, FS_CardinalityType
  <2> HIDE DEF n, m
  <2> QED
    BY <1>0, <2>1, <2>2
<1>3. \A w \in Workers : Reach(run[w], n)
  BY DEF WithinReach
<1>4. ASSUME NEW w \in Workers
      PROVE  /\ IsFiniteSet(run[w].items) /\ Cardinality(run[w].items) \in Nat /\ run[w].budget \in Nat
             /\ \A item \in run[w].items : /\ IsFiniteSet(run[w].items \ {item})
                                           /\ Cardinality(run[w].items \ {item}) = Cardinality(run[w].items) - 1
  <2>1. IsFiniteSet(run[w].items)
    BY <1>3
  <2>2. Cardinality(run[w].items) \in Nat
    BY <2>1, FS_CardinalityType
  <2>3. \A item \in run[w].items : /\ IsFiniteSet(run[w].items \ {item})
                                   /\ Cardinality(run[w].items \ {item}) = Cardinality(run[w].items) - 1
    BY <2>1, FS_RemoveElement
  <2>4. run[w].budget \in Nat
    BY Rows, RunFields, CommsAssumption
  <2> QED
    BY <2>1, <2>2, <2>3, <2>4
<1>5. ASSUME \A w \in Workers : Reach(run'[w], m), m <= MaxPerMinute PROVE WithinReach' /\ WithinBudget'
  <2>1. WithinReach'
    BY <1>5 DEF WithinReach
  <2>2. WithinBudget'
    BY <1>0, <1>5 DEF WithinBudget
  <2> QED
    BY <2>1, <2>2
<1>6. ASSUME NEW w \in Workers, NEW item \in run[w].items, Claim(w, item) \/ WouldSend(w, item),
             Recent' \subseteq Recent \cup {item.rcpt}
      PROVE  WithinReach' /\ WithinBudget'
  <2>1. m <= n + 1
    BY <1>2, <1>6
  <2>2. run'[w].items = run[w].items \ {item} /\ (run'[w].pc = "items" \/ run'[w].pc = "claimed")
    BY <1>6, RunMoves DEF WouldSend
  <2>3. Cardinality(run[w].items) + n <= MaxPerMinute
    BY <1>3, <1>6 DEF Claim, WouldSend, MarkAsRead
  <2>4. Cardinality(run'[w].items) + m <= MaxPerMinute /\ IsFiniteSet(run'[w].items)
    <3>1. Cardinality(run'[w].items) = Cardinality(run[w].items) - 1 /\ IsFiniteSet(run'[w].items)
      BY <1>4, <2>2
    <3>2. Cardinality(run[w].items) \in Nat
      BY <1>4
    <3> HIDE DEF n, m
    <3> QED
      BY <1>0, <2>1, <2>3, <3>1, <3>2
  <2>5. m <= MaxPerMinute
    <3>1. Cardinality(run'[w].items) \in Nat
      BY <2>4, FS_CardinalityType
    <3> HIDE DEF n, m
    <3> QED
      BY <1>0, <2>4, <3>1
  <2>6. Reach(run'[w], m)
    BY <2>2, <2>4
  <2> HIDE DEF Reach, m
  <2> QED
    BY <1>5, <2>5, <2>6 DEF RunsAlone
<1>7. ASSUME Recent' \subseteq Recent PROVE WithinReach' /\ WithinBudget'
  <2>1. m <= n /\ m <= MaxPerMinute
    BY <1>0, <1>1, <1>7
  <2>2. ASSUME NEW w \in Workers,
               IsFiniteSet(run'[w].items), run'[w].items \subseteq run[w].items,
               run'[w].pc # "reading",
               run'[w].pc \in InHand \cup {"items"} => run[w].pc \in InHand \cup {"items"}
        PROVE  Reach(run'[w], m)
    <3>1. Cardinality(run'[w].items) <= Cardinality(run[w].items) /\ Cardinality(run'[w].items) \in Nat
      BY <1>4, <2>2, FS_Subset, FS_CardinalityType
    <3>2. run'[w].pc \in InHand \cup {"items"} => Cardinality(run[w].items) + n <= MaxPerMinute
      BY <1>3, <2>2
    <3>3. Cardinality(run[w].items) \in Nat
      BY <1>4
    <3>4. run'[w].pc \in InHand \cup {"items"} => Cardinality(run'[w].items) + m <= MaxPerMinute
      <4> HIDE DEF n, m
      <4> QED
        BY <1>0, <2>1, <3>1, <3>2, <3>3
    <3> QED
      BY <2>2, <3>4
  <2>3. ASSUME NEW w \in Workers, run'[w] = run[w] PROVE Reach(run'[w], m)
    <3>1. Reach(run[w], n) /\ Cardinality(run[w].items) \in Nat /\ run[w].budget \in Nat
      BY <1>3, <1>4
    <3> HIDE DEF n, m
    <3> QED
      BY <1>0, <2>1, <2>3, <3>1
  <2>4. ASSUME NEW w \in Workers, RunCounts(w) PROVE Reach(run'[w], m)
    <3>1. run'[w].pc = "reading" /\ run'[w].items = run[w].items /\ run'[w].budget = Budget
      BY <2>4, RunMoves
    <3>2. Budget = MaxPerMinute - n
      BY <1>0 DEF Budget
    <3>3. IsFiniteSet(run'[w].items)
      BY <1>4, <3>1
    <3>4. run'[w].budget + m <= MaxPerMinute
      <4> HIDE DEF n, m
      <4> QED
        BY <1>0, <2>1, <3>1, <3>2
    <3> QED
      BY <3>1, <3>3, <3>4 DEF InHand
  <2>5. ASSUME NEW w \in Workers, RunReads(w) PROVE Reach(run'[w], m)
    <3>1. run'[w].pc = "items" /\ IsFiniteSet(run'[w].items) /\ Cardinality(run'[w].items) <= run[w].budget
      BY <2>5, RunMoves, ReadWithinBudget
    <3>2. run[w].budget + n <= MaxPerMinute /\ run[w].budget \in Nat /\ Cardinality(run'[w].items) \in Nat
      BY <1>3, <1>4, <2>5, <3>1, FS_CardinalityType DEF RunReads
    <3>3. Cardinality(run'[w].items) + m <= MaxPerMinute
      <4> HIDE DEF n, m
      <4> QED
        BY <1>0, <2>1, <3>1, <3>2
    <3> QED
      BY <3>1, <3>3
  <2>6. ASSUME NEW w \in Workers, RunStep(w) \/ SaveDraftFails(w) \/ RunDies(w)
                                    \/ \E mode \in Modes : RunStarts(w, mode)
        PROVE  Reach(run'[w], m)
    <3>1. ASSUME \E item \in run[w].items : Block(w, item) \/ WouldSend(w, item) \/ Claim(w, item)
          PROVE  Reach(run'[w], m)
      <4>1. PICK item \in run[w].items : Block(w, item) \/ WouldSend(w, item) \/ Claim(w, item)
        BY <3>1
      <4>2. /\ run'[w].items = run[w].items \ {item} /\ run[w].pc = "items"
            /\ run'[w].pc \in {"items", "claimed"}
        <5>1. CASE Claim(w, item)
          <6>1. run[w].pc = "items"
            BY <5>1 DEF Claim
          <6> QED
            BY <5>1, <6>1, RunMoves
        <5>2. ASSUME NEW st, MarkAsRead(w, item, st)
              PROVE  /\ run'[w].items = run[w].items \ {item} /\ run[w].pc = "items"
                     /\ run'[w].pc \in {"items", "claimed"}
          <6>1. run[w].pc = "items"
            BY <5>2 DEF MarkAsRead
          <6> QED
            BY <5>2, <6>1, RunMoves
        <5> QED
          BY <4>1, <5>1, <5>2 DEF Block, WouldSend
      <4> QED
        BY <1>4, <2>2, <4>2
    <3>2. ASSUME \/ MarkJobSending(w) \/ CreateDraft(w) \/ SaveDraft(w) \/ CreateDraftFails(w)
                 \/ SaveDraftFails(w) \/ SendDraft(w) \/ SendDraftFails(w) \/ RecordOutcome(w)
          PROVE  Reach(run'[w], m)
      <4>1. run'[w].items = run[w].items /\ run'[w].pc # "reading"
        BY <3>2, RunMoves
      <4>2. run[w].pc \in InHand
        BY <3>2 DEF MarkJobSending, CreateDraft, SaveDraft, CreateDraftFails, SaveDraftFails, SendDraft,
           SendDraftFails, RecordOutcome, InHand
      <4> QED
        BY <1>4, <2>2, <4>1, <4>2
    <3>3. ASSUME \/ ItemsDone(w) \/ (\E j \in Jobs : Settle(w, j)) \/ RunEnds(w) \/ RunDies(w)
                 \/ (\E mode \in Modes : RunStarts(w, mode))
          PROVE  Reach(run'[w], m)
      <4>1. run'[w].items \subseteq run[w].items /\ run'[w].pc \in {"settling", "idle", "counting"}
        BY <3>3, RunMoves
      <4>2. IsFiniteSet(run'[w].items)
        BY <1>4, <4>1, FS_Subset
      <4> QED
        BY <2>2, <4>1, <4>2 DEF InHand
    <3> HIDE DEF Reach, m
    <3> QED
      BY <2>4, <2>5, <2>6, <3>1, <3>2, <3>3 DEF RunStep
  <2>7. \A w \in Workers : Reach(run'[w], m)
    <3>1. CASE RequestStep \/ TimeStep \/ \E r \in Rcpts : RecordChanges(r)
      BY <2>3, <3>1, Idle
    <3> HIDE DEF Reach, m
    <3>2. CASE ~(RequestStep \/ TimeStep \/ \E r \in Rcpts : RecordChanges(r))
      BY <2>6, <3>2, StepsOfRuns DEF RunsAlone
    <3> QED
      BY <3>1, <3>2
  <2> HIDE DEF Reach, m
  <2> QED
    BY <1>5, <2>1, <2>7
<1> HIDE DEF n, m, Reach
<1> QED
  BY <1>6, <1>7, RecentMoves

\* With one run at a time the mail goes as it was meant: also once each and within the
\* budget.  With two it does not: each has a budget of its own, and one that read a
\* recipient before the other tried it does not know of the other's draft.
THEOREM MailGoesAsMeantWhenAlone ==
  ASSUME RunsAlone PROVE Spec => []MailGoesAsMeant
<1>1. Init => AloneInv
  <2> SUFFICES ASSUME Init PROVE AloneInv
    OBVIOUS
  <2>1. /\ \A r \in Rcpts : rcpts[r].draft = NoDraft /\ ~rcpts[r].recent /\ arrived[r] = 0
        /\ \A w \in Workers : run[w].pc = "idle" /\ run[w].items = {}
        /\ drafts = {} /\ nextDraft = 1
    BY DEF Init, UnusedRcpt, NoRun
  <2>2. DraftsMade /\ OnceEach
    BY <2>1 DEF DraftsMade, OnceEach, NoDraft
  <2>3. DraftsInHand /\ ItemsAsRead
    BY <2>1 DEF DraftsInHand, ItemsAsRead, InHand
  <2>4. WithinReach
    BY <2>1, FS_EmptySet DEF WithinReach, InHand
  <2>5. WithinBudget
    <3>1. Recent = {}
      BY <2>1 DEF Recent
    <3> QED
      BY <3>1, FS_EmptySet, RecentCounts, CommsAssumption DEF WithinBudget
  <2> QED
    BY <2>2, <2>3, <2>4, <2>5 DEF AloneInv
<1>2. Inv /\ AloneInv /\ [Next]_vars => AloneInv'
  <2> SUFFICES ASSUME Inv, AloneInv, [Next]_vars PROVE AloneInv'
    OBVIOUS
  <2>1. CASE Next
    <3>1. DraftsMade' /\ OnceEach' /\ DraftsInHand' /\ ItemsAsRead'
      BY <2>1, DraftsMadeKept, OnceEachKept, DraftsInHandKept, ItemsAsReadKept DEF Inv, AloneInv
    <3>2. WithinReach' /\ WithinBudget'
      BY <2>1, BudgetKept DEF Inv, AloneInv
    <3> QED
      BY <3>1, <3>2 DEF AloneInv
  <2>2. CASE UNCHANGED vars
    BY <2>2 DEF AloneInv, vars, DraftsMade, OnceEach, DraftsInHand, DraftOf, ItemsAsRead, WithinReach,
       Recent, WithinBudget, RecentAttempts
  <2> QED
    BY <2>1, <2>2
<1>3. Inv /\ AloneInv => MailGoesAsMeant
  BY DEF Inv, AloneInv, OnceEach, MailGoesAsMeant, SentAtMostOnce
<1> QED
  BY <1>1, <1>2, <1>3, Invariance, PTL DEF Spec

-----------------------------------------------------------------------------
(* MailReading: the readers.                                               *)

MailRow == [parsed : BOOLEAN, tries : 0..MaxTries, lease : {"free", "held", "lapsed"},
            error : BOOLEAN, class : {"none", "unknown", "low", "high"}, flagged : BOOLEAN]

Reader == [at : {"idle", "warm", "batch", "reading"}, mail : Mails \cup {NoMail}]

ReadingTypeOK ==
  /\ mails \in [Mails -> MailRow]
  /\ readers \in [Runs -> Reader]
  /\ resets \in 0..MaxResets

\* Who reads an email holds its lease, and the email has no reading yet.
ReadsUnderLease ==
  \A r \in Runs :
    IF readers[r].at = "reading"
    THEN /\ readers[r].mail \in Mails
         /\ mails[readers[r].mail].lease = "held"
         /\ ~mails[readers[r].mail].parsed
    ELSE readers[r].mail = NoMail

\* Nobody reads what another reads.
OneReaderEach ==
  \A r, q \in Runs :
    readers[r].at = "reading" /\ readers[q].at = "reading" /\ readers[r].mail = readers[q].mail
      => r = q

ReadingInv == ReadingTypeOK /\ ReadsUnderLease /\ OneReaderEach

\* One step that keeps every email a reading is under way on, and ends at
\* most one reader's work.
ReadingFinalStep ==
  \A e \in Mails : mails[e].parsed =>
      \/ mails'[e].parsed /\ mails'[e].class = mails[e].class
                          /\ mails'[e].error = mails[e].error
      \/ ~mails'[e].parsed /\ (mails[e].error \/ mails[e].class = "none")

LEMMA ReadingStarts == ReadingInit => ReadingInv
<1> SUFFICES ASSUME ReadingInit PROVE ReadingInv
  OBVIOUS
<1>1. Unread \in MailRow
  BY MailReadingAssumption DEF Unread, MailRow
<1>2. Resting \in Reader
  BY DEF Resting, Reader
<1>3. ReadingTypeOK
  BY <1>1, <1>2, MailReadingAssumption DEF ReadingInit, ReadingTypeOK
<1>4. \A r \in Runs : readers[r].at = "idle" /\ readers[r].mail = NoMail
  BY DEF ReadingInit, Resting
<1> QED
  BY <1>3, <1>4 DEF ReadingInv, ReadsUnderLease, OneReaderEach

\* The writes of an email keep its type.
LEMMA MailRows ==
  /\ Unread \in MailRow
  /\ \A row \in MailRow : [row EXCEPT !.parsed = TRUE, !.flagged = TRUE, !.error = TRUE, !.lease = "free"] \in MailRow
  /\ \A row \in MailRow : row.tries < MaxTries => [row EXCEPT !.tries = @ + 1, !.lease = "held"] \in MailRow
  /\ \A row \in MailRow, class \in {"unknown", "low", "high"}, f \in BOOLEAN :
       [row EXCEPT !.parsed = TRUE, !.class = class, !.error = FALSE, !.flagged = f, !.lease = "free"] \in MailRow
  /\ \A row \in MailRow : [row EXCEPT !.error = TRUE] \in MailRow
  /\ \A row \in MailRow : [row EXCEPT !.lease = "lapsed"] \in MailRow
  /\ \A row \in MailRow, f \in BOOLEAN : [row EXCEPT !.flagged = f] \in MailRow
<1>1. Unread \in MailRow
  BY MailReadingAssumption DEF Unread, MailRow
<1>2. \A row \in MailRow : [row EXCEPT !.parsed = TRUE, !.flagged = TRUE, !.error = TRUE, !.lease = "free"] \in MailRow
  BY DEF MailRow
<1>3. \A row \in MailRow : row.tries < MaxTries => [row EXCEPT !.tries = @ + 1, !.lease = "held"] \in MailRow
  <2> SUFFICES ASSUME NEW row \in MailRow, row.tries < MaxTries
               PROVE  [row EXCEPT !.tries = @ + 1, !.lease = "held"] \in MailRow
    OBVIOUS
  <2>1. row.tries + 1 \in 0..MaxTries
    BY MailReadingAssumption DEF MailRow
  <2> QED
    BY <2>1 DEF MailRow
<1>4. \A row \in MailRow, class \in {"unknown", "low", "high"}, f \in BOOLEAN :
       [row EXCEPT !.parsed = TRUE, !.class = class, !.error = FALSE, !.flagged = f, !.lease = "free"] \in MailRow
  BY DEF MailRow
<1>5. \A row \in MailRow : [row EXCEPT !.error = TRUE] \in MailRow
  BY DEF MailRow
<1>6. \A row \in MailRow : [row EXCEPT !.lease = "lapsed"] \in MailRow
  BY DEF MailRow
<1>7. \A row \in MailRow, f \in BOOLEAN : [row EXCEPT !.flagged = f] \in MailRow
  BY DEF MailRow
<1> QED
  BY <1>1, <1>2, <1>3, <1>4, <1>5, <1>6, <1>7

\* Giving up what is spent leaves what is read, and what is under a lease.
LEMMA Expires ==
  ASSUME ReadingInv
  PROVE  /\ ExpireExhausted \in [Mails -> MailRow]
         /\ \A e \in Mails : mails[e].parsed \/ mails[e].lease = "held" => ExpireExhausted[e] = mails[e]
  BY MailRows DEF ReadingInv, ReadingTypeOK, ExpireExhausted, Exhausted, LeaseOver

\* A run that starts, warms the classifier up or ends, while no email under a
\* lease is touched, keeps the invariant.
LEMMA RunMovesOn ==
  ASSUME ReadingInv, NEW r \in Runs, NEW place \in {"idle", "warm", "batch"},
         readers' = readers \/ Goes(r, place, NoMail),
         mails' \in [Mails -> MailRow],
         \A e \in Mails : mails[e].parsed \/ mails[e].lease = "held" => mails'[e] = mails[e],
         UNCHANGED resets
  PROVE  ReadingInv' /\ ReadingFinalStep
<1>1. readers' \in [Runs -> Reader] /\ resets' \in 0..MaxResets
  BY DEF ReadingInv, ReadingTypeOK, Reader, Goes
<1>2. \A q \in Runs : \/ readers'[q] = readers[q]
                      \/ readers'[q].at # "reading" /\ readers'[q].mail = NoMail
  BY DEF ReadingInv, ReadingTypeOK, Goes
<1>3. ReadsUnderLease'
  BY <1>2 DEF ReadingInv, ReadsUnderLease
<1>4. OneReaderEach'
  BY <1>2 DEF ReadingInv, OneReaderEach
<1>5. ReadingFinalStep
  BY DEF ReadingFinalStep
<1> QED
  BY <1>1, <1>3, <1>4, <1>5 DEF ReadingInv, ReadingTypeOK

LEMMA ClaimIsExclusive ==
  ASSUME ReadingInv, NEW r \in Runs, ClaimOne(r)
  PROVE  ReadingInv' /\ ReadingFinalStep
<1> PICK e \in Mails : /\ Claimable(e)
                       /\ mails' = [mails EXCEPT ![e].tries = @ + 1, ![e].lease = "held"]
                       /\ Goes(r, "reading", e)
  BY DEF ClaimOne
<1> DEFINE row == [mails[e] EXCEPT !.tries = @ + 1, !.lease = "held"]
<1>1. mails[e] \in MailRow /\ mails[e].tries < MaxTries /\ ~mails[e].parsed /\ mails[e].lease # "held"
  BY DEF Claimable, LeaseOver, ReadingInv, ReadingTypeOK
<1>2. row \in MailRow /\ row.lease = "held" /\ ~row.parsed
  <2>1. row \in MailRow
    BY <1>1, MailRows
  <2>2. row.lease = "held" /\ ~row.parsed
    BY <1>1 DEF MailRow
  <2> QED
    BY <2>1, <2>2
<1>3. mails' = [mails EXCEPT ![e] = row]
  BY DEF ReadingInv, ReadingTypeOK
<1> HIDE DEF row
<1>4. /\ mails' \in [Mails -> MailRow] /\ mails'[e] = row
      /\ \A f \in Mails : f # e => mails'[f] = mails[f]
  BY <1>2, <1>3 DEF ReadingInv, ReadingTypeOK
<1>5. readers' \in [Runs -> Reader] /\ resets' \in 0..MaxResets
  BY DEF ReadingInv, ReadingTypeOK, Reader, Goes, ClaimOne
<1>6. /\ readers'[r].at = "reading" /\ readers'[r].mail = e
      /\ \A q \in Runs : q # r => readers'[q] = readers[q]
  BY DEF ReadingInv, ReadingTypeOK, Goes
<1>7. \A q \in Runs : readers[q].at = "reading" => readers[q].mail # e
  BY <1>1 DEF ReadingInv, ReadsUnderLease
<1>8. ReadsUnderLease'
  <2>1. ASSUME NEW q \in Runs, q # r, readers[q].at = "reading"
        PROVE  /\ readers'[q] = readers[q] /\ readers[q].mail \in Mails
               /\ mails'[readers[q].mail] = mails[readers[q].mail]
               /\ mails[readers[q].mail].lease = "held" /\ ~mails[readers[q].mail].parsed
    BY <2>1, <1>4, <1>6, <1>7 DEF ReadingInv, ReadsUnderLease
  <2>2. ASSUME NEW q \in Runs, q # r, readers[q].at # "reading"
        PROVE  readers'[q] = readers[q] /\ readers[q].mail = NoMail
    BY <2>2, <1>6 DEF ReadingInv, ReadsUnderLease
  <2> QED
    <3>1. ASSUME NEW q \in Runs, readers'[q].at = "reading"
          PROVE  /\ readers'[q].mail \in Mails
                 /\ mails'[readers'[q].mail].lease = "held"
                 /\ ~mails'[readers'[q].mail].parsed
      <4>1. CASE q = r
        BY <4>1, <1>2, <1>4, <1>6
      <4>2. CASE q # r
        <5>1. readers[q].at = "reading"
          BY <3>1, <4>2, <1>6
        <5> QED
          BY <4>2, <5>1, <2>1
      <4> QED
        BY <4>1, <4>2
    <3>2. ASSUME NEW q \in Runs, readers'[q].at # "reading"
          PROVE  readers'[q].mail = NoMail
      BY <3>2, <2>1, <2>2, <1>6
    <3> QED
      BY <3>1, <3>2 DEF ReadsUnderLease
<1>9. OneReaderEach'
  BY <1>6, <1>7 DEF ReadingInv, OneReaderEach
<1>10. ReadingFinalStep
  BY <1>1, <1>4 DEF ReadingFinalStep
<1> QED
  BY <1>4, <1>5, <1>8, <1>9, <1>10 DEF ReadingInv, ReadingTypeOK

\* An answer is written to the email the run holds, and to no other.
LEMMA AnswersItsOwn ==
  ASSUME ReadingInv, NEW r \in Runs, NEW row \in MailRow, Answers(r, row)
  PROVE  ReadingInv' /\ ReadingFinalStep
<1> DEFINE e == readers[r].mail
<1>1. e \in Mails /\ ~mails[e].parsed
  BY DEF ReadingInv, ReadsUnderLease, Answers
<1>2. /\ mails' \in [Mails -> MailRow]
      /\ \A f \in Mails : f # e => mails'[f] = mails[f]
  BY <1>1 DEF ReadingInv, ReadingTypeOK, Answers
<1>3. readers' \in [Runs -> Reader] /\ resets' \in 0..MaxResets
  BY DEF ReadingInv, ReadingTypeOK, Reader, Goes, Answers
<1>4. /\ readers'[r].at # "reading" /\ readers'[r].mail = NoMail
      /\ \A q \in Runs : q # r => readers'[q] = readers[q]
  BY DEF ReadingInv, ReadingTypeOK, Goes, Answers
<1>5. \A q \in Runs : q # r /\ readers[q].at = "reading" => readers[q].mail # e
  BY DEF ReadingInv, OneReaderEach, Answers
<1> HIDE DEF e
<1>6. ReadsUnderLease'
  BY <1>2, <1>4, <1>5 DEF ReadingInv, ReadsUnderLease
<1>7. OneReaderEach'
  BY <1>4 DEF ReadingInv, OneReaderEach
<1>8. ReadingFinalStep
  BY <1>1, <1>2 DEF ReadingFinalStep
<1> QED
  BY <1>2, <1>3, <1>6, <1>7, <1>8 DEF ReadingInv, ReadingTypeOK

\* What leaves the readers alone and touches no email under a reading.
LEMMA ReadersUntouched ==
  ASSUME ReadingInv, UNCHANGED readers, resets' \in 0..MaxResets,
         mails' \in [Mails -> MailRow],
         \A r \in Runs : readers[r].at = "reading" =>
            /\ mails'[readers[r].mail].lease = mails[readers[r].mail].lease
            /\ mails'[readers[r].mail].parsed = mails[readers[r].mail].parsed
  PROVE  ReadingInv'
  BY DEF ReadingInv, ReadingTypeOK, ReadsUnderLease, OneReaderEach

LEMMA ReadingStep == ReadingInv /\ [ReadingNext]_readingVars => ReadingInv' /\ [ReadingFinalStep]_readingVars
<1> SUFFICES ASSUME ReadingInv, [ReadingNext]_readingVars
             PROVE  ReadingInv' /\ [ReadingFinalStep]_readingVars
  OBVIOUS
<1>0. CASE UNCHANGED readingVars
  BY <1>0 DEF readingVars, ReadingInv, ReadingTypeOK, ReadsUnderLease, OneReaderEach
<1>1. ASSUME NEW r \in Runs, ParseQueued(r) \/ RunParseBatch(r) \/ EndRun(r)
      PROVE  ReadingInv' /\ ReadingFinalStep
  <2>1. CASE ParseQueued(r)
    BY <2>1, RunMovesOn, Expires DEF ParseQueued
  <2>2. CASE RunParseBatch(r)
    BY <2>2, RunMovesOn, Expires DEF RunParseBatch
  <2>3. CASE EndRun(r)
    BY <2>3, RunMovesOn DEF EndRun, ReadingInv, ReadingTypeOK
  <2> QED
    BY <1>1, <2>1, <2>2, <2>3
<1>2. ASSUME NEW r \in Runs, ClaimOne(r)
      PROVE  ReadingInv' /\ ReadingFinalStep
  BY <1>2, ClaimIsExclusive
<1>3. ASSUME NEW r \in Runs,
             WriteSuccess(r) \/ RecordTransientError(r) \/ RecordNothing(r) \/ RecordPermanentError(r)
      PROVE  ReadingInv' /\ ReadingFinalStep
  <2>1. readers[r].at = "reading"
    BY <1>3 DEF WriteSuccess, RecordTransientError, RecordNothing, RecordPermanentError, Answers
  <2>2. Mine(r) \in MailRow
    BY <2>1 DEF Mine, ReadingInv, ReadingTypeOK, ReadsUnderLease
  <2>3. \E row \in MailRow : Answers(r, row)
    <3>1. CASE WriteSuccess(r)
      <4>1. PICK class \in {"unknown", "low", "high"} :
              Answers(r, [Mine(r) EXCEPT !.parsed = TRUE, !.class = class, !.error = FALSE,
                                   !.flagged = NeedsReview(class), !.lease = "free"])
        BY <3>1 DEF WriteSuccess
      <4>2. NeedsReview(class) \in BOOLEAN
        BY DEF NeedsReview
      <4> QED
        BY <4>1, <4>2, <2>2, MailRows
    <3>2. CASE RecordTransientError(r)
      BY <3>2, <2>2, MailRows DEF RecordTransientError
    <3>3. CASE RecordNothing(r)
      BY <3>3, <2>2 DEF RecordNothing
    <3>4. CASE RecordPermanentError(r)
      BY <3>4, <2>2, MailRows DEF RecordPermanentError
    <3> QED
      BY <1>3, <3>1, <3>2, <3>3, <3>4
  <2> QED
    BY <2>3, AnswersItsOwn
<1>4. ASSUME NEW e \in Mails, LeaseLapses(e) \/ FlagEmailForReview(e) \/ UnflagEmail(e)
      PROVE  ReadingInv' /\ ReadingFinalStep
  <2>1. mails[e] \in MailRow
    BY DEF ReadingInv, ReadingTypeOK
  <2>2. PICK row \in MailRow : /\ mails' = [mails EXCEPT ![e] = row]
                               /\ row.parsed = mails[e].parsed /\ row.class = mails[e].class
                               /\ row.error = mails[e].error
                               /\ row.lease = mails[e].lease \/ \A r \in Runs : readers[r].mail # e
    <3>1. CASE LeaseLapses(e)
      <4> DEFINE row == [mails[e] EXCEPT !.lease = "lapsed"]
      <4>1. row \in MailRow /\ mails' = [mails EXCEPT ![e] = row]
        BY <2>1, <3>1, MailRows DEF LeaseLapses
      <4>2. row.parsed = mails[e].parsed /\ row.class = mails[e].class /\ row.error = mails[e].error
        BY <2>1 DEF MailRow
      <4> QED
        BY <4>1, <4>2, <3>1 DEF LeaseLapses
    <3>2. CASE FlagEmailForReview(e)
      <4> DEFINE row == [mails[e] EXCEPT !.flagged = TRUE]
      <4>1. row \in MailRow /\ mails' = [mails EXCEPT ![e] = row]
        BY <2>1, <3>2, MailRows DEF FlagEmailForReview
      <4>2. /\ row.parsed = mails[e].parsed /\ row.class = mails[e].class
            /\ row.error = mails[e].error /\ row.lease = mails[e].lease
        BY <2>1 DEF MailRow
      <4> QED
        BY <4>1, <4>2
    <3>3. CASE UnflagEmail(e)
      <4> DEFINE row == [mails[e] EXCEPT !.flagged = FALSE]
      <4>1. row \in MailRow /\ mails' = [mails EXCEPT ![e] = row]
        BY <2>1, <3>3, MailRows DEF UnflagEmail
      <4>2. /\ row.parsed = mails[e].parsed /\ row.class = mails[e].class
            /\ row.error = mails[e].error /\ row.lease = mails[e].lease
        BY <2>1 DEF MailRow
      <4> QED
        BY <4>1, <4>2
    <3> QED
      BY <1>4, <3>1, <3>2, <3>3
  <2>3. /\ mails' \in [Mails -> MailRow] /\ mails'[e] = row
        /\ \A f \in Mails : f # e => mails'[f] = mails[f]
    BY <2>2 DEF ReadingInv, ReadingTypeOK
  <2>4. UNCHANGED <<readers, resets>>
    BY <1>4 DEF LeaseLapses, FlagEmailForReview, UnflagEmail
  <2>5. ReadingInv'
    BY <2>2, <2>3, <2>4, ReadersUntouched DEF ReadingInv, ReadingTypeOK, ReadsUnderLease
  <2>6. ReadingFinalStep
    BY <2>2, <2>3 DEF ReadingFinalStep
  <2> QED
    BY <2>5, <2>6
<1>5. ASSUME ResetFailedEmails
      PROVE  ReadingInv' /\ ReadingFinalStep
  <2>1. mails' \in [Mails -> MailRow]
    BY <1>5, MailRows DEF ResetFailedEmails, ReadingInv, ReadingTypeOK
  <2>2. \A e \in Mails : ~mails[e].parsed => mails'[e] = mails[e]
    BY <1>5 DEF ResetFailedEmails
  <2>3. resets' \in 0..MaxResets /\ UNCHANGED readers
    BY <1>5, MailReadingAssumption DEF ResetFailedEmails, ReadingInv, ReadingTypeOK
  <2>4. ReadingInv'
    BY <2>1, <2>2, <2>3, ReadersUntouched DEF ReadingInv, ReadsUnderLease
  <2>5. ReadingFinalStep
    BY <1>5 DEF ResetFailedEmails, ReadingFinalStep, Unread
  <2> QED
    BY <2>4, <2>5
<1> QED
  BY <1>0, <1>1, <1>2, <1>3, <1>4, <1>5 DEF ReadingNext

\* Whoever reads an email does so alone, under its lease, and it has no reading
\* yet, for any number of readers, emails and attempts.
THEOREM OneReadingAtATime == ReadingSpec => [](ReadsUnderLease /\ OneReaderEach)
<1>1. ReadingInv => ReadsUnderLease /\ OneReaderEach
  BY DEF ReadingInv
<1> QED
  BY <1>1, ReadingStarts, ReadingStep, PTL DEF ReadingSpec

\* A classified, rejected or given-up email is written over by nobody; only a
\* reset puts it back, and never a good reading.
THEOREM ReadingStaysFinal == ReadingSpec => ReadingIsFinal
<1>1. [ReadingFinalStep]_readingVars <=> [\A e \in Mails : mails[e].parsed =>
          \/ mails'[e].parsed /\ mails'[e].class = mails[e].class
                              /\ mails'[e].error = mails[e].error
          \/ ~mails'[e].parsed /\ (mails[e].error \/ mails[e].class = "none")]_readingVars
  BY DEF ReadingFinalStep
<1> QED
  BY <1>1, ReadingStarts, ReadingStep, PTL DEF ReadingSpec, ReadingIsFinal

-----------------------------------------------------------------------------
(* MailDesk: people and triage.                                            *)

Letter == [status : {"unread", "promoted", "archived"}, owner : Verdicts]

HandOver == [from : Verdicts, to : Verdicts]

Reply == [doing : {"promote", "note", "link", "decide"}, letter : Letters]
Assignment == [doing : {"assign"}, letter : Letters, from : Verdicts, to : MailStaff]

DeskTypeOK ==
  /\ letters \in [Letters -> Letter]
  /\ handed \in [Letters -> Seq(HandOver)]
  /\ recorded \in [Letters -> Nat]
  /\ sitting \in [Sitters -> {NotSitting} \cup Reply \cup Assignment]
  /\ triage \in [Triages -> SUBSET Letters]

\* What was written down as a reply has been dealt with.
CountedIsHandled == \A e \in Letters : recorded[e] # 0 => MailHandled(e)

DeskInv == DeskTypeOK /\ HandOversFollow /\ ReplyCountsOnce /\ CountedIsHandled

LEMMA SittingKinds ==
  /\ NotSitting.doing = "none"
  /\ \A s \in Reply : s.doing \in {"promote", "note", "link", "decide"} /\ s.letter \in Letters
  /\ \A s \in Assignment : /\ s.doing = "assign" /\ s.letter \in Letters
                           /\ s.from \in Verdicts /\ s.to \in Verdicts
  BY DEF NotSitting, Reply, Assignment, Verdicts

LEMMA DeskStarts == MailDeskInit => DeskInv
<1> SUFFICES ASSUME MailDeskInit PROVE DeskInv
  OBVIOUS
<1>1. DeskTypeOK
  BY DEF MailDeskInit, DeskTypeOK, Letter, Verdicts, HandOver
<1>2. HandOversFollow
  BY DEF MailDeskInit, HandOversFollow
<1>3. ReplyCountsOnce /\ CountedIsHandled
  BY DEF MailDeskInit, ReplyCountsOnce, CountedIsHandled
<1> QED
  BY <1>1, <1>2, <1>3 DEF DeskInv

\* A request that is opened or ends writes no email.
LEMMA OnlySitting ==
  ASSUME DeskInv, NEW u \in Sitters, NEW s \in {NotSitting} \cup Reply \cup Assignment,
         sitting' = [sitting EXCEPT ![u] = s],
         UNCHANGED <<letters, handed, recorded, triage>>
  PROVE  DeskInv'
<1>1. DeskTypeOK'
  BY DEF DeskInv, DeskTypeOK
<1> QED
  BY <1>1 DEF DeskInv, HandOversFollow, ReplyCountsOnce, CountedIsHandled, MailHandled

\* A run of triage writes no email by starting, skipping one or stopping.
LEMMA OnlyTriage ==
  ASSUME DeskInv, NEW t \in Triages, NEW todo \in SUBSET Letters,
         triage' = [triage EXCEPT ![t] = todo],
         UNCHANGED <<letters, handed, recorded, sitting>>
  PROVE  DeskInv'
<1>2. DeskTypeOK'
  BY DEF DeskInv, DeskTypeOK
<1> QED
  BY <1>2 DEF DeskInv, HandOversFollow, ReplyCountsOnce, CountedIsHandled, MailHandled

\* Dealing with an email, written down or not, keeps who has it.
LEMMA DealtWith ==
  ASSUME DeskInv, NEW e \in Letters, NEW status \in {"promoted", "archived"},
         letters' = [letters EXCEPT ![e].status = status],
         recorded' = recorded \/ (recorded' = [recorded EXCEPT ![e] = @ + 1] /\ ~MailHandled(e)),
         sitting' \in [Sitters -> {NotSitting} \cup Reply \cup Assignment],
         UNCHANGED <<handed, triage>>
  PROVE  DeskInv'
<1>1. /\ letters' \in [Letters -> Letter]
      /\ \A f \in Letters : letters'[f].owner = letters[f].owner
      /\ letters'[e].status = status
      /\ \A f \in Letters : f # e => letters'[f] = letters[f]
  <2> DEFINE row == [letters[e] EXCEPT !.status = status]
  <2>1. letters[e] \in Letter
    BY DEF DeskInv, DeskTypeOK
  <2>2. row \in Letter /\ row.owner = letters[e].owner /\ row.status = status
    BY <2>1 DEF Letter
  <2>3. letters' = [letters EXCEPT ![e] = row]
    OBVIOUS
  <2> HIDE DEF row
  <2> QED
    BY <2>2, <2>3 DEF DeskInv, DeskTypeOK
<1>2. /\ recorded' \in [Letters -> Nat]
      /\ \A f \in Letters : f # e => recorded'[f] = recorded[f]
      /\ recorded'[e] = recorded[e] \/ (recorded'[e] = recorded[e] + 1 /\ ~MailHandled(e))
  <2>1. recorded \in [Letters -> Nat]
    BY DEF DeskInv, DeskTypeOK
  <2>2. CASE recorded' = recorded
    BY <2>1, <2>2
  <2>3. CASE recorded' = [recorded EXCEPT ![e] = recorded[e] + 1] /\ ~MailHandled(e)
    <3>1. recorded[e] + 1 \in Nat
      BY <2>1
    <3> QED
      BY <2>1, <2>3, <3>1
  <2> QED
    BY <2>2, <2>3
<1>3. DeskTypeOK'
  BY <1>1, <1>2 DEF DeskInv, DeskTypeOK
<1>4. HandOversFollow'
  BY <1>1 DEF DeskInv, HandOversFollow
<1>5. \A f \in Letters : recorded'[f] <= 1
  <2>1. recorded[e] \in Nat
    BY DEF DeskInv, DeskTypeOK
  <2>2. ~MailHandled(e) => recorded[e] = 0
    BY DEF DeskInv, CountedIsHandled
  <2>3. \A f \in Letters : recorded[f] <= 1
    BY DEF DeskInv, ReplyCountsOnce
  <2>4. recorded'[e] <= 1
    BY <2>1, <2>2, <2>3, <1>2
  <2> QED
    BY <2>3, <2>4, <1>2
<1>6. CountedIsHandled'
  BY <1>1, <1>2 DEF DeskInv, CountedIsHandled, MailHandled
<1> QED
  BY <1>3, <1>4, <1>5, <1>6 DEF DeskInv, ReplyCountsOnce

\* The log of an email that `who` has now: its hand-overs follow on one another.
Whole(log, who) ==
  /\ \A i \in 1..Len(log) : log[i].from = IF i = 1 THEN NoOwner ELSE log[i - 1].to
  /\ who = IF Len(log) = 0 THEN NoOwner ELSE log[Len(log)].to

LEMMA WholeLogs ==
  ASSUME DeskTypeOK
  PROVE  HandOversFollow <=> \A e \in Letters : Whole(handed[e], letters[e].owner)
<1>1. ASSUME NEW e \in Letters
      PROVE  /\ Len(handed[e]) \in Nat
             /\ Len(handed[e]) + 1 = 1 <=> Len(handed[e]) = 0
             /\ Len(handed[e]) + 1 - 1 = Len(handed[e])
  BY DEF DeskTypeOK
<1> QED
  BY <1>1 DEF HandOversFollow, Whole

\* A hand-over from who has the email leaves its log whole.
LEMMA HandedOn ==
  ASSUME NEW log \in Seq(HandOver), NEW who, NEW row \in HandOver,
         Whole(log, who), row.from = who
  PROVE  Whole(Append(log, row), row.to)
<1> DEFINE n == Len(log)
           new == Append(log, row)
<1>1. n \in Nat /\ Len(new) = n + 1
  OBVIOUS
<1>2. new[n + 1] = row /\ \A i \in 1..n : new[i] = log[i]
  OBVIOUS
<1>3. /\ \A i \in 1..n : log[i].from = IF i = 1 THEN NoOwner ELSE log[i - 1].to
      /\ who = IF n = 0 THEN NoOwner ELSE log[n].to
  BY DEF Whole
<1> HIDE DEF n, new
<1>4. \A i \in 1..n : i - 1 \in 1..n \/ i = 1
  BY <1>1
<1>5. \A i \in 1..n : new[i].from = IF i = 1 THEN NoOwner ELSE new[i - 1].to
  BY <1>2, <1>3, <1>4
<1>6. new[n + 1].from = IF n + 1 = 1 THEN NoOwner ELSE new[n].to
  <2>1. CASE n = 0
    BY <1>2, <1>3, <2>1
  <2>2. CASE n # 0
    <3>1. n \in 1..n /\ n + 1 # 1
      BY <1>1, <2>2
    <3> QED
      BY <1>2, <1>3, <2>2, <3>1
  <2> QED
    BY <2>1, <2>2
<1>7. \A i \in 1..(n + 1) : new[i].from = IF i = 1 THEN NoOwner ELSE new[i - 1].to
  <2> TAKE i \in 1..(n + 1)
  <2>1. CASE i = n + 1
    <3>1. i - 1 = n
      BY <1>1, <2>1
    <3> QED
      BY <1>6, <2>1, <3>1
  <2>2. CASE i # n + 1
    <3>1. i \in 1..n
      BY <1>1, <2>2
    <3> QED
      BY <1>5, <3>1
  <2> QED
    BY <2>1, <2>2
<1> QED
  BY <1>1, <1>2, <1>7 DEF Whole, new

\* A hand-over from who has the email keeps the books.
LEMMA HandOverFollows ==
  ASSUME DeskInv, NEW e \in Letters, NEW from \in Verdicts, NEW to \in Verdicts,
         letters[e].owner = from, HandsOver(e, from, to),
         sitting' \in [Sitters -> {NotSitting} \cup Reply \cup Assignment],
         triage' \in [Triages -> SUBSET Letters],
         UNCHANGED recorded
  PROVE  DeskInv'
<1> DEFINE row == [from |-> from, to |-> to]
<1>1. row \in HandOver /\ row.from = from /\ row.to = to
  BY DEF HandOver
<1>2. handed[e] \in Seq(HandOver) /\ handed' = [handed EXCEPT ![e] = Append(handed[e], row)]
  BY DEF HandsOver, DeskInv, DeskTypeOK
<1> HIDE DEF row
<1>3. /\ handed' \in [Letters -> Seq(HandOver)]
      /\ handed'[e] = Append(handed[e], row)
      /\ \A f \in Letters : f # e => handed'[f] = handed[f]
  BY <1>1, <1>2 DEF DeskInv, DeskTypeOK
<1>4. /\ letters' \in [Letters -> Letter]
      /\ \A f \in Letters : letters'[f].status = letters[f].status
      /\ letters'[e].owner = to
      /\ \A f \in Letters : f # e => letters'[f] = letters[f]
  BY DEF HandsOver, DeskInv, DeskTypeOK, Letter
<1>5. DeskTypeOK'
  BY <1>3, <1>4 DEF DeskInv, DeskTypeOK
<1>7. HandOversFollow'
  <2>1. \A f \in Letters : f # e => Whole(handed'[f], letters'[f].owner)
    BY <1>3, <1>4, WholeLogs DEF DeskInv
  <2>2. Whole(handed'[e], letters'[e].owner)
    BY <1>1, <1>2, <1>3, <1>4, WholeLogs, HandedOn DEF DeskInv
  <2> QED
    BY <2>1, <2>2 DEF HandOversFollow, Whole
<1>8. ReplyCountsOnce' /\ CountedIsHandled'
  BY <1>4 DEF DeskInv, ReplyCountsOnce, CountedIsHandled, MailHandled
<1> QED
  BY <1>5, <1>7, <1>8 DEF DeskInv

LEMMA DeskStep == DeskInv /\ [MailDeskNext]_deskMailVars => DeskInv'
<1> SUFFICES ASSUME DeskInv, [MailDeskNext]_deskMailVars PROVE DeskInv'
  OBVIOUS
<1>0. CASE UNCHANGED deskMailVars
  BY <1>0 DEF deskMailVars, DeskInv, DeskTypeOK, HandOversFollow, ReplyCountsOnce, CountedIsHandled, MailHandled
<1>1. ASSUME NEW e \in Letters, ArchiveEmail(e) PROVE DeskInv'
  <2>1. sitting' \in [Sitters -> {NotSitting} \cup Reply \cup Assignment]
    BY <1>1 DEF ArchiveEmail, DeskInv, DeskTypeOK
  <2> QED
    BY <1>1, <2>1, DealtWith DEF ArchiveEmail
<1>2. CASE DecideInApp
  BY <1>2 DEF DecideInApp, DeskInv, DeskTypeOK, HandOversFollow, ReplyCountsOnce, CountedIsHandled, MailHandled
<1>3. ASSUME NEW u \in Sitters, RecordReply(u) PROVE DeskInv'
  <2>1. sitting[u] \in Reply
    BY <1>3, SittingKinds DEF RecordReply, DeskInv, DeskTypeOK
  <2> DEFINE e == sitting[u].letter
  <2>2. e \in Letters
    BY <2>1, SittingKinds
  <2>3. sitting' \in [Sitters -> {NotSitting} \cup Reply \cup Assignment]
    BY <1>3 DEF RecordReply, DeskInv, DeskTypeOK
  <2>4. /\ sitting' = [sitting EXCEPT ![u] = NotSitting]
        /\ UNCHANGED <<handed, triage>>
        /\ \/ UNCHANGED <<letters, recorded>>
           \/ /\ ~MailHandled(e)
              /\ letters' = [letters EXCEPT ![e].status = "promoted"]
              /\ recorded' = [recorded EXCEPT ![e] = @ + 1]
    BY <1>3 DEF RecordReply, Flips
  <2> HIDE DEF e
  <2>5. CASE UNCHANGED <<letters, recorded>>
    BY <2>4, <2>5, OnlySitting
  <2>6. CASE /\ ~MailHandled(e)
             /\ letters' = [letters EXCEPT ![e].status = "promoted"]
             /\ recorded' = [recorded EXCEPT ![e] = @ + 1]
    BY <2>2, <2>3, <2>4, <2>6, DealtWith
  <2> QED
    BY <2>4, <2>5, <2>6
<1>4. ASSUME NEW u \in Sitters, AssignEmail(u) PROVE DeskInv'
  <2>1. sitting[u] \in Assignment
    BY <1>4, SittingKinds DEF AssignEmail, DeskInv, DeskTypeOK
  <2> DEFINE s == sitting[u]
  <2>2. s.letter \in Letters /\ s.from \in Verdicts /\ s.to \in Verdicts
    BY <2>1, SittingKinds
  <2>3. sitting' \in [Sitters -> {NotSitting} \cup Reply \cup Assignment]
    BY <1>4 DEF AssignEmail, DeskInv, DeskTypeOK
  <2>4. /\ sitting' = [sitting EXCEPT ![u] = NotSitting]
        /\ UNCHANGED <<recorded, triage>>
        /\ \/ UNCHANGED <<letters, handed>>
           \/ letters[s.letter].owner = s.from /\ HandsOver(s.letter, s.from, s.to)
    BY <1>4 DEF AssignEmail, StillWith
  <2>5. triage' \in [Triages -> SUBSET Letters]
    BY <2>4 DEF DeskInv, DeskTypeOK
  <2> HIDE DEF s
  <2>6. CASE UNCHANGED <<letters, handed>>
    BY <2>4, <2>6, OnlySitting
  <2>7. CASE letters[s.letter].owner = s.from /\ HandsOver(s.letter, s.from, s.to)
    BY <2>2, <2>3, <2>4, <2>5, <2>7, HandOverFollows
  <2> QED
    BY <2>4, <2>6, <2>7
<1>5. ASSUME NEW u \in Sitters, DeskFails(u) PROVE DeskInv'
  BY <1>5, OnlySitting DEF DeskFails
<1>6. ASSUME NEW u \in Sitters, NEW e \in Letters, PromoteEmailToJob(u, e) PROVE DeskInv'
  <2>1. [doing |-> "promote", letter |-> e] \in Reply
    BY DEF Reply
  <2> QED
    BY <1>6, <2>1, OnlySitting DEF PromoteEmailToJob
<1>7. ASSUME NEW u \in Sitters, NEW e \in Letters, MarkPromoted(u, e) PROVE DeskInv'
  <2>1. sitting' \in [Sitters -> {NotSitting} \cup Reply \cup Assignment]
    BY <1>7 DEF MarkPromoted, DeskInv, DeskTypeOK
  <2> QED
    BY <1>7, <2>1, DealtWith DEF MarkPromoted
<1>8. ASSUME NEW u \in Sitters, NEW e \in Letters,
             OpenJobUpdate(u, e) \/ OpenDecision(u, e) \/ OpenDirectorReply(u, e)
      PROVE  DeskInv'
  <2>1. PICK what \in {"note", "decide", "link"} : OpenReply(u, e, what)
    BY <1>8 DEF OpenJobUpdate, OpenDecision, OpenDirectorReply
  <2>2. [doing |-> what, letter |-> e] \in Reply
    BY DEF Reply
  <2> QED
    BY <2>1, <2>2, OnlySitting DEF OpenReply
<1>9. ASSUME NEW u \in Sitters, NEW e \in Letters, NEW to \in MailStaff, OpenAssign(u, e, to)
      PROVE  DeskInv'
  <2>1. letters[e].owner \in Verdicts
    BY DEF DeskInv, DeskTypeOK, Letter
  <2>2. [doing |-> "assign", letter |-> e, from |-> letters[e].owner, to |-> to] \in Assignment
    BY <2>1 DEF Assignment
  <2> QED
    BY <1>9, <2>2, OnlySitting DEF OpenAssign
<1>10. ASSUME NEW t \in Triages, RunInboundTriage(t) \/ EndTriage(t) PROVE DeskInv'
  <2>1. \E todo \in SUBSET Letters : triage' = [triage EXCEPT ![t] = todo]
    <3>1. CASE RunInboundTriage(t)
      BY <3>1 DEF RunInboundTriage
    <3>2. CASE EndTriage(t)
      <4>1. PICK e \in triage[t] : triage' = [triage EXCEPT ![t] = triage[t] \ {e}]
        BY <3>2 DEF EndTriage
      <4>2. triage[t] \ {e} \in SUBSET Letters
        BY DEF DeskInv, DeskTypeOK
      <4> QED
        BY <4>1, <4>2
    <3> QED
      BY <1>10, <3>1, <3>2
  <2> QED
    BY <1>10, <2>1, OnlyTriage DEF RunInboundTriage, EndTriage
<1>11. ASSUME NEW t \in Triages, NEW e \in Letters, TriageEmail(t, e) PROVE DeskInv'
  <2> DEFINE todo == triage[t] \ {e}
  <2>1. todo \in SUBSET Letters /\ triage' = [triage EXCEPT ![t] = todo]
    BY <1>11 DEF TriageEmail, DeskInv, DeskTypeOK
  <2>2. /\ UNCHANGED <<recorded, sitting>>
        /\ \/ UNCHANGED <<letters, handed>>
           \/ \E chosen \in Verdicts : letters[e].owner = NoOwner /\ HandsOver(e, NoOwner, chosen)
    BY <1>11 DEF TriageEmail, StillWith
  <2>3. CASE UNCHANGED <<letters, handed>>
    BY <2>1, <2>2, <2>3, OnlyTriage
  <2>4. ASSUME NEW chosen \in Verdicts, letters[e].owner = NoOwner, HandsOver(e, NoOwner, chosen)
        PROVE  DeskInv'
    <3>1. NoOwner \in Verdicts
      BY DEF Verdicts
    <3>2. sitting' \in [Sitters -> {NotSitting} \cup Reply \cup Assignment]
      BY <2>2 DEF DeskInv, DeskTypeOK
    <3>3. triage' \in [Triages -> SUBSET Letters]
      BY <2>1 DEF DeskInv, DeskTypeOK
    <3> QED
      BY <2>2, <2>4, <3>1, <3>2, <3>3, HandOverFollows
  <2> QED
    BY <2>2, <2>3, <2>4
<1> QED
  BY <1>0, <1>1, <1>2, <1>3, <1>4, <1>5, <1>6, <1>7, <1>8, <1>9, <1>10, <1>11 DEF MailDeskNext

\* Every hand-over in an email's log starts where the one before it ended, and
\* its answer counts once, for any number of requests and triage runs at once.
THEOREM MailStaysAccountedFor == MailDeskSpec => []MailIsAccountedFor
<1>1. DeskInv => MailIsAccountedFor
  BY DEF DeskInv, MailIsAccountedFor
<1> QED
  BY <1>1, DeskStarts, DeskStep, PTL DEF MailDeskSpec

-----------------------------------------------------------------------------
(* MailSync: the pages of a mailbox and its watermark.                     *)

SyncTimes == 0..MaxClock

SyncRow == [stored : BOOLEAN, received : SyncTimes, box : Mailboxes]

SyncRun == [at : {"none", "begin", "list", "store"}, box : Mailboxes, since : SyncTimes,
            known : SUBSET Messages, seen : SUBSET Messages, todo : SUBSET Messages]

SyncTypeOK ==
  /\ clock \in 1..MaxClock
  /\ delivered \in [Mailboxes -> [Messages -> SyncTimes]]
  /\ mailRows \in [Messages -> SyncRow]
  /\ watermark \in [Mailboxes -> SyncTimes]
  /\ first \in [Mailboxes -> SyncTimes]
  /\ syncs \in [Syncs -> SyncRun]

\* Nothing has arrived, and no mailbox is read, past the clock.
NotBeyondTheClock ==
  \A b \in Mailboxes :
    /\ watermark[b] <= clock
    /\ \A m \in Messages : delivered[b][m] <= clock

\* What a mailbox holds from `first` up to a time is stored.
StoredUpTo(b, t) ==
  \A m \in Messages :
    delivered[b][m] # Never /\ first[b] <= delivered[b][m] /\ delivered[b][m] < t
      => mailRows[m].stored

\* A run reads on from where everything is stored; what it has seen is stored
\* or still to do, and nothing it has not seen is older than what it has.
PageByPage(s) ==
  s.at \in {"list", "store"} =>
    /\ s.since <= clock \/ s.since <= first[s.box]
    /\ StoredUpTo(s.box, s.since)
    /\ s.known \subseteq StoredMail
    /\ \A m \in s.seen : /\ delivered[s.box][m] # Never
                         /\ (s.at = "store" /\ m \in s.todo) \/ mailRows[m].stored
    /\ \A m \in Messages \ s.seen, n \in s.seen :
         delivered[s.box][m] # Never /\ s.since <= delivered[s.box][m]
           => delivered[s.box][n] <= delivered[s.box][m]
    /\ s.at = "store" => s.seen # {}

PagesInOrder == \A w \in Syncs : PageByPage(syncs[w])

SyncInv == SyncTypeOK /\ NotBeyondTheClock /\ PagesInOrder /\ PassedMailIsStored

\* A set of times has a newest.
LEMMA Newest ==
  ASSUME NEW N \in Nat, NEW S \in SUBSET (0..N), S # {}
  PROVE  Max(S) \in S /\ \A t \in S : t <= Max(S)
<1> DEFINE T == {N - t : t \in S}
           Less == {ss \in Nat \X Nat : ss[1] < ss[2]}
<1>1. T \subseteq Nat /\ T # {}
  <2>1. \A t \in S : N - t \in Nat
    OBVIOUS
  <2> QED
    BY <2>1
<1>2. IsWellFoundedOn(Less, Nat)
  BY NatLessThanWellFounded DEF OpToRel
<1>3. \E x \in T : \A y \in T : ~(<<y, x>> \in Less)
  <2> HIDE DEF Less, T
  <2> QED
    BY <1>1, <1>2, WFMin
<1> HIDE DEF T
<1>4. PICK x \in T : \A y \in T : ~(y < x)
  BY <1>1, <1>3
<1>5. PICK s \in S : x = N - s
  BY DEF T
<1>6. \A t \in S : N - t \in T
  BY DEF T
<1>7. \A t \in S : s >= t
  BY <1>4, <1>5, <1>6
<1> QED
  BY <1>7 DEF Max

\* What a run is once it is over with a mailbox.
LEMMA RunsEnd ==
  /\ NoSync \in SyncRun /\ NoSync.at = "none"
  /\ \A s : NextMailbox(s) \in SyncRun /\ NextMailbox(s).at \in {"none", "begin"}
<1>1. {} \in SUBSET Messages /\ Never \in SyncTimes /\ Primary \in Mailboxes /\ Extra \in Mailboxes
  BY MailSyncAssumption DEF Never, SyncTimes, Mailboxes
<1>2. NoSync \in SyncRun /\ NoSync.at = "none"
  BY <1>1 DEF NoSync, SyncRun
<1> DEFINE next == [NoSync EXCEPT !.at = "begin", !.box = Extra]
<1>3. next \in SyncRun /\ next.at = "begin"
  BY <1>1, <1>2 DEF SyncRun
<1> HIDE DEF next
<1>4. \A s : NextMailbox(s) = next \/ NextMailbox(s) = NoSync
  BY DEF NextMailbox, next
<1> QED
  BY <1>2, <1>3, <1>4

LEMMA SyncStarts == MailInit => SyncInv
<1> SUFFICES ASSUME MailInit PROVE SyncInv
  OBVIOUS
<1>1. NoMailRow \in SyncRow /\ NoSync \in SyncRun /\ NoSync.at = "none"
  BY MailSyncAssumption, RunsEnd DEF NoMailRow, SyncRow, SyncTimes, Mailboxes, Never
<1>2. SyncTypeOK
  BY <1>1, MailSyncAssumption DEF MailInit, SyncTypeOK, SyncTimes, Never
<1>3. NotBeyondTheClock
  BY DEF MailInit, NotBeyondTheClock, Never
<1>4. PagesInOrder
  BY <1>1 DEF MailInit, PagesInOrder, PageByPage
<1>5. PassedMailIsStored
  BY DEF MailInit, PassedMailIsStored, Never
<1> QED
  BY <1>2, <1>3, <1>4, <1>5 DEF SyncInv

\* No step takes back the time, a delivery, a start or a stored message; what is
\* delivered arrives now.
Grows ==
  /\ clock <= clock'
  /\ \A b \in Mailboxes, m \in Messages :
       \/ delivered'[b][m] = delivered[b][m]
       \/ delivered[b][m] = Never /\ delivered'[b][m] = clock
  /\ \A b \in Mailboxes : first[b] <= first'[b]
  /\ \A m \in Messages : mailRows[m].stored => mailRows'[m].stored

\* What is stored up to a time stays so.
LEMMA StoredStays ==
  ASSUME SyncInv, SyncTypeOK', Grows
  PROVE  \A b \in Mailboxes, t \in SyncTimes :
           StoredUpTo(b, t) /\ (t <= clock \/ t <= first[b]) => StoredUpTo(b, t)'
<1> SUFFICES ASSUME NEW b \in Mailboxes, NEW t \in SyncTimes, StoredUpTo(b, t),
                    t <= clock \/ t <= first[b],
                    NEW m \in Messages,
                    delivered'[b][m] # Never, first'[b] <= delivered'[b][m], delivered'[b][m] < t
             PROVE  mailRows'[m].stored
  BY DEF StoredUpTo
<1>1. /\ t \in Int /\ clock \in Int /\ first[b] \in Int /\ first'[b] \in Int
      /\ delivered[b][m] \in Int /\ delivered'[b][m] \in Int
  BY DEF SyncInv, SyncTypeOK, SyncTimes
<1>2. delivered'[b][m] = delivered[b][m] /\ first[b] <= delivered[b][m]
  BY <1>1 DEF Grows
<1> QED
  BY <1>1, <1>2 DEF StoredUpTo, Grows

\* A run that does not move keeps its place.
LEMMA RunKeepsPlace ==
  ASSUME SyncInv, SyncTypeOK', Grows, NEW w \in Syncs, syncs'[w] = syncs[w]
  PROVE  PageByPage(syncs[w])'
<1> DEFINE s == syncs[w]
           b == s.box
<1> SUFFICES ASSUME s.at \in {"list", "store"} PROVE PageByPage(syncs[w])'
  BY DEF PageByPage
<1>1. PageByPage(s) /\ s \in SyncRun /\ b \in Mailboxes
  BY DEF SyncInv, PagesInOrder, SyncTypeOK, SyncRun
<1>2. /\ s.since \in SyncTimes /\ s.since \in Int /\ clock \in Int /\ clock' \in Int
      /\ first[b] \in Int /\ first'[b] \in Int
      /\ s.seen \subseteq Messages
      /\ \A m \in Messages : delivered[b][m] \in Int /\ delivered'[b][m] \in Int /\ delivered[b][m] <= clock
  BY <1>1 DEF SyncInv, SyncTypeOK, SyncTimes, SyncRun, NotBeyondTheClock
<1> HIDE DEF s, b
<1>3. s.since <= clock \/ s.since <= first[b]
  BY <1>1 DEF PageByPage, s, b
<1>4. s.since <= clock' \/ s.since <= first'[b]
  <2>1. clock <= clock' /\ first[b] <= first'[b]
    BY <1>1 DEF Grows
  <2> QED
    BY <1>2, <1>3, <2>1
<1>5. StoredUpTo(b, s.since)
  BY <1>1 DEF PageByPage, s, b
<1>6. \A m \in Messages :
        delivered'[b][m] # Never /\ first'[b] <= delivered'[b][m] /\ delivered'[b][m] < s.since
          => mailRows'[m].stored
  BY <1>1, <1>2, <1>3, <1>5, StoredStays DEF StoredUpTo
<1>7. s.known \subseteq StoredMail'
  BY <1>1 DEF PageByPage, StoredMail, Grows, s
<1>8. \A m \in s.seen : /\ delivered'[b][m] # Never /\ delivered'[b][m] = delivered[b][m]
                        /\ (s.at = "store" /\ m \in s.todo) \/ mailRows'[m].stored
  <2> TAKE m \in s.seen
  <2>1. m \in Messages /\ delivered[b][m] # Never /\ ((s.at = "store" /\ m \in s.todo) \/ mailRows[m].stored)
    BY <1>1, <1>2 DEF PageByPage, s, b
  <2> QED
    BY <1>1, <2>1 DEF Grows
<1>9. \A m \in Messages \ s.seen, n \in s.seen :
        delivered'[b][m] # Never /\ s.since <= delivered'[b][m]
          => delivered'[b][n] <= delivered'[b][m]
  <2> SUFFICES ASSUME NEW m \in Messages \ s.seen, NEW n \in s.seen,
                      delivered'[b][m] # Never, s.since <= delivered'[b][m]
               PROVE  delivered'[b][n] <= delivered'[b][m]
    OBVIOUS
  <2>1. delivered'[b][n] = delivered[b][n] /\ n \in Messages
    BY <1>2, <1>8
  <2>2. CASE delivered'[b][m] = delivered[b][m]
    BY <1>1, <2>1, <2>2 DEF PageByPage, s, b
  <2>3. CASE delivered'[b][m] = clock
    BY <1>2, <2>1, <2>3
  <2> QED
    BY <1>1, <2>2, <2>3 DEF Grows
<1>10. s.at = "store" => s.seen # {}
  BY <1>1 DEF PageByPage, s
<1> QED
  BY <1>4, <1>6, <1>7, <1>8, <1>9, <1>10 DEF PageByPage, StoredUpTo, s, b

\* A step that grows, moves no watermark past the clock or over what is not
\* stored, and leaves every run it moves in order.
LEMMA SyncKept ==
  ASSUME SyncInv, SyncTypeOK', Grows, NotBeyondTheClock',
         \A b \in Mailboxes : watermark'[b] = watermark[b] \/ StoredUpTo(b, watermark[b])',
         \A w \in Syncs : syncs'[w] = syncs[w] \/ PageByPage(syncs[w])'
  PROVE  SyncInv'
<1>1. \A w \in Syncs : PageByPage(syncs[w])'
  BY RunKeepsPlace
<1>2. \A b \in Mailboxes : watermark[b] \in SyncTimes /\ watermark[b] <= clock /\ StoredUpTo(b, watermark[b])
  BY DEF SyncInv, SyncTypeOK, NotBeyondTheClock, PassedMailIsStored, StoredUpTo
<1>3. PassedMailIsStored'
  <2> SUFFICES ASSUME NEW b \in Mailboxes PROVE StoredUpTo(b, watermark[b])'
    BY DEF PassedMailIsStored, StoredUpTo
  <2>1. CASE watermark'[b] = watermark[b]
    BY <1>2, <2>1, StoredStays DEF StoredUpTo
  <2> QED
    BY <2>1
<1> QED
  BY <1>1, <1>3 DEF SyncInv, PagesInOrder

\* A run that is not reading has nothing to keep in order.
LEMMA NotReading ==
  ASSUME NEW w \in Syncs, syncs'[w].at \in {"none", "begin"}
  PROVE  PageByPage(syncs[w])'
  BY DEF PageByPage

LEMMA DeliverKeeps ==
  ASSUME SyncInv, NEW m \in Messages, Deliver(m)
  PROVE  SyncInv'
<1>1. PICK to \in (SUBSET Mailboxes) \ {{}} :
        /\ \A b \in Mailboxes : delivered[b][m] = Never
        /\ delivered' = [b \in Mailboxes |->
                          [delivered[b] EXCEPT ![m] = IF b \in to THEN clock ELSE @]]
  BY DEF Deliver
<1>2. UNCHANGED <<clock, mailRows, watermark, first, syncs>>
  BY DEF Deliver
<1>3. clock \in 1..MaxClock /\ clock \in SyncTimes
  BY MailSyncAssumption DEF SyncInv, SyncTypeOK, SyncTimes
<1>4. \A b \in Mailboxes : delivered[b] \in [Messages -> SyncTimes]
  BY DEF SyncInv, SyncTypeOK
<1>5. \A b \in Mailboxes :
        /\ delivered'[b] \in [Messages -> SyncTimes]
        /\ \A n \in Messages : \/ delivered'[b][n] = delivered[b][n]
                               \/ delivered[b][n] = Never /\ delivered'[b][n] = clock
  BY <1>1, <1>3, <1>4
<1>6. delivered' \in [Mailboxes -> [Messages -> SyncTimes]]
  BY <1>1, <1>5
<1>7. SyncTypeOK'
  BY <1>2, <1>6 DEF SyncInv, SyncTypeOK
<1>8. Grows
  BY <1>2, <1>3, <1>5 DEF Grows, SyncInv, SyncTypeOK, SyncTimes
<1>9. NotBeyondTheClock'
  BY <1>2, <1>3, <1>5 DEF SyncInv, NotBeyondTheClock
<1> QED
  BY <1>2, <1>7, <1>8, <1>9, SyncKept

LEMMA TickKeeps ==
  ASSUME SyncInv, TickMail
  PROVE  SyncInv'
<1>1. clock \in Int /\ clock' = clock + 1 /\ UNCHANGED <<delivered, mailRows, watermark, first, syncs>>
  BY DEF TickMail, SyncInv, SyncTypeOK
<1>2. SyncTypeOK'
  <2>1. clock' \in 1..MaxClock
    BY <1>1, MailSyncAssumption DEF TickMail, SyncInv, SyncTypeOK
  <2> QED
    BY <1>1, <2>1 DEF SyncInv, SyncTypeOK
<1>3. Grows
  BY <1>1 DEF Grows, SyncInv, SyncTypeOK, SyncTimes
<1>4. NotBeyondTheClock'
  BY <1>1 DEF SyncInv, NotBeyondTheClock, SyncTypeOK, SyncTimes
<1> QED
  BY <1>1, <1>2, <1>3, <1>4, SyncKept

LEMMA ReadWatermarkKeeps ==
  ASSUME SyncInv, NEW w \in Syncs, ReadWatermark(w)
  PROVE  SyncInv'
<1> DEFINE s == syncs[w]
           b == s.box
           since == IF watermark[b] # Never THEN watermark[b] ELSE StartOf(b)
           known == IF since = Never THEN {} ELSE {m \in StoredMail : mailRows[m].received >= since}
           next == [s EXCEPT !.at = "list", !.since = since, !.seen = {}, !.known = known]
<1>1. /\ watermark' = IF watermark[b] = Never /\ b = Extra THEN Advanced(b, since) ELSE watermark
      /\ first' = [first EXCEPT ![b] = IF watermark[b] = Never /\ since > @ THEN since ELSE @]
      /\ syncs' = [syncs EXCEPT ![w] = next]
      /\ UNCHANGED <<clock, delivered, mailRows>>
  BY DEF ReadWatermark
<1>2. s \in SyncRun /\ b \in Mailboxes
  BY DEF SyncInv, SyncTypeOK, SyncRun
<1>3. clock \in SyncTimes /\ clock \in Nat /\ clock > 0
  BY MailSyncAssumption DEF SyncInv, SyncTypeOK, SyncTimes
<1>4. watermark[b] \in SyncTimes /\ first[b] \in SyncTimes /\ watermark[b] <= clock
  BY <1>2 DEF SyncInv, SyncTypeOK, NotBeyondTheClock
<1>5. StartOf(b) \in SyncTimes
  <2> DEFINE S == {Never} \cup {mailRows[m].received : m \in StoredMail}
  <2>1. \A m \in StoredMail : mailRows[m].received \in SyncTimes
    BY DEF SyncInv, SyncTypeOK, SyncRow, StoredMail
  <2>2. Never \in SyncTimes
    BY MailSyncAssumption DEF Never, SyncTimes
  <2>3. S \in SUBSET (0..MaxClock) /\ S # {}
    BY <2>1, <2>2 DEF SyncTimes
  <2> HIDE DEF S
  <2>4. Max(S) \in SyncTimes
    BY <2>3, Newest, MailSyncAssumption DEF SyncTimes
  <2> QED
    BY <2>4, <1>3 DEF StartOf, S
<1>6. since \in SyncTimes
  BY <1>4, <1>5
<1>7. known \subseteq StoredMail /\ known \subseteq Messages
  BY DEF StoredMail
<1> HIDE DEF known
<1>8. /\ next \in SyncRun /\ next.at = "list" /\ next.box = b /\ next.since = since
      /\ next.seen = {} /\ next.known = known
  BY <1>2, <1>6, <1>7 DEF SyncRun
<1> HIDE DEF next
<1>9. /\ first'[b] \in SyncTimes /\ first[b] <= first'[b]
      /\ watermark[b] = Never => since <= first'[b]
      /\ \A c \in Mailboxes : c # b => first'[c] = first[c]
      /\ first' \in [Mailboxes -> SyncTimes]
  <2> HIDE DEF since, s
  <2> DEFINE x == IF watermark[b] = Never /\ since > first[b] THEN since ELSE first[b]
  <2>1. x \in SyncTimes /\ first[b] <= x /\ (watermark[b] = Never => since <= x)
    BY <1>4, <1>6 DEF SyncTimes
  <2>2. first' = [first EXCEPT ![b] = x]
    BY <1>1
  <2> HIDE DEF x
  <2> QED
    BY <1>2, <2>1, <2>2 DEF SyncInv, SyncTypeOK
<1>10. /\ watermark' \in [Mailboxes -> SyncTimes]
       /\ \A c \in Mailboxes : \/ watermark'[c] = watermark[c]
                               \/ c = b /\ watermark'[c] = since /\ since <= clock
  <2>1. CASE watermark[b] = Never /\ b = Extra
    <3>1. since = clock
      BY <2>1 DEF StartOf
    <3>2. watermark' = [watermark EXCEPT ![b] = IF watermark[b] <= since THEN since ELSE watermark[b]]
      BY <1>1, <2>1 DEF Advanced
    <3>3. watermark[b] <= since
      BY <1>3, <2>1, <3>1 DEF Never
    <3> HIDE DEF since, s
    <3> QED
      BY <1>2, <1>3, <1>6, <3>1, <3>2, <3>3 DEF SyncInv, SyncTypeOK
  <2>2. CASE ~(watermark[b] = Never /\ b = Extra)
    <3>1. watermark' = watermark
      BY <1>1, <2>2
    <3> QED
      BY <3>1 DEF SyncInv, SyncTypeOK
  <2> QED
    BY <2>1, <2>2
<1>11. watermark[b] # Never => since = watermark[b]
  OBVIOUS
<1> HIDE DEF since, s, b
<1>12. SyncTypeOK'
  BY <1>1, <1>8, <1>9, <1>10 DEF SyncInv, SyncTypeOK
<1>13. Grows
  <2>1. \A c \in Mailboxes : first[c] <= first'[c]
    BY <1>9 DEF SyncInv, SyncTypeOK, SyncTimes
  <2> QED
    BY <1>1, <1>3, <2>1 DEF Grows
<1>14. NotBeyondTheClock'
  BY <1>1, <1>10 DEF SyncInv, NotBeyondTheClock
<1>15. since <= clock \/ since <= first'[b]
  BY <1>4, <1>9, <1>11
<1>16. \A m \in Messages :
         delivered'[b][m] # Never /\ first'[b] <= delivered'[b][m] /\ delivered'[b][m] < since
           => mailRows'[m].stored
  <2>1. CASE watermark[b] # Never
    <3>1. since = watermark[b] /\ StoredUpTo(b, since)
      BY <1>2, <1>11, <2>1 DEF SyncInv, PassedMailIsStored, StoredUpTo
    <3> QED
      BY <1>2, <1>4, <1>6, <1>12, <1>13, <3>1, StoredStays DEF StoredUpTo
  <2>2. CASE watermark[b] = Never
    <3>1. \A m \in Messages : ~(first'[b] <= delivered'[b][m] /\ delivered'[b][m] < since)
      <4> TAKE m \in Messages
      <4>1. first'[b] \in Int /\ since \in Int /\ delivered'[b][m] \in Int
        BY <1>2, <1>6, <1>12 DEF SyncTypeOK, SyncTimes
      <4> QED
        BY <1>9, <2>2, <4>1
    <3> QED
      BY <3>1
  <2> QED
    BY <2>1, <2>2
<1>17. \A v \in Syncs : v # w => syncs'[v] = syncs[v]
  BY <1>1 DEF SyncInv, SyncTypeOK
<1>18. syncs'[w] = next
  BY <1>1 DEF SyncInv, SyncTypeOK
<1>19. PageByPage(syncs[w])'
  <2>1. known \subseteq StoredMail'
    BY <1>1, <1>7 DEF StoredMail
  <2> QED
    BY <1>1, <1>8, <1>15, <1>16, <1>18, <2>1 DEF PageByPage, StoredUpTo
<1>20. \A c \in Mailboxes : watermark'[c] = watermark[c] \/ StoredUpTo(c, watermark[c])'
  BY <1>10, <1>16 DEF StoredUpTo
<1> QED
  BY <1>12, <1>13, <1>14, <1>17, <1>19, <1>20, SyncKept

\* A page is not empty, is listed, and holds nothing newer than what is left.
LEMMA PageIsOldest ==
  ASSUME NEW s, Listed(s) # {}, NEW p \in Pages(s)
  PROVE  /\ p # {} /\ p \subseteq Listed(s)
         /\ \A m \in p, n \in Listed(s) \ p : delivered[s.box][m] <= delivered[s.box][n]
<1>1. IsFiniteSet(Listed(s))
  <2>1. Listed(s) \subseteq Messages
    BY DEF Listed
  <2> QED
    BY <2>1, MailSyncAssumption, FS_Subset
<1>2. Cardinality(Listed(s)) \in Nat /\ Cardinality(Listed(s)) # 0
  BY <1>1, FS_CardinalityType, FS_EmptySet
<1>3. /\ p \subseteq Listed(s)
      /\ \A m \in p, n \in Listed(s) \ p : delivered[s.box][m] <= delivered[s.box][n]
      /\ Cardinality(p) = Min({PageSize, Cardinality(Listed(s))})
  BY DEF Pages
<1> DEFINE k == Cardinality(Listed(s))
           S == {PageSize, k}
<1>4. PageSize \in Nat \ {0} /\ k \in Nat \ {0}
  BY <1>2, MailSyncAssumption
<1> HIDE DEF k
<1>5. \E x \in S : \A y \in S : x =< y
  <2>1. CASE PageSize <= k
    BY <1>4, <2>1
  <2>2. CASE k <= PageSize
    BY <1>4, <2>2
  <2> QED
    BY <1>4, <2>1, <2>2
<1>6. Min(S) \in S
  BY <1>5 DEF Min
<1>7. Cardinality(p) # 0
  BY <1>3, <1>4, <1>6 DEF k
<1>8. Cardinality({}) = 0
  BY FS_EmptySet
<1> QED
  BY <1>3, <1>7, <1>8

LEMMA FetchPageKeeps ==
  ASSUME SyncInv, NEW w \in Syncs, FetchPage(w)
  PROVE  SyncInv'
<1> DEFINE s == syncs[w]
           b == s.box
<1>1. s \in SyncRun /\ b \in Mailboxes /\ s.at = "list" /\ PageByPage(s)
  BY DEF FetchPage, SyncInv, SyncTypeOK, SyncRun, PagesInOrder
<1>2. UNCHANGED <<clock, delivered, mailRows, watermark, first>>
  BY DEF FetchPage
<1>3. Grows
  BY <1>2 DEF Grows, SyncInv, SyncTypeOK, SyncTimes
<1>4. NotBeyondTheClock'
  BY <1>2 DEF SyncInv, NotBeyondTheClock
<1>5. CASE Listed(s) = {}
  <2> DEFINE next == NextMailbox(s)
  <2>1. next \in SyncRun /\ next.at \in {"none", "begin"}
    BY RunsEnd
  <2>2. syncs' = [syncs EXCEPT ![w] = next]
    BY <1>5 DEF FetchPage
  <2> HIDE DEF next
  <2>3. SyncTypeOK' /\ syncs'[w] = next /\ \A v \in Syncs : v # w => syncs'[v] = syncs[v]
    BY <1>2, <2>1, <2>2 DEF SyncInv, SyncTypeOK
  <2>4. PageByPage(syncs[w])'
    BY <2>1, <2>3, NotReading
  <2> QED
    BY <1>2, <1>3, <1>4, <2>3, <2>4, SyncKept
<1>6. ASSUME Listed(s) # {} PROVE SyncInv'
  <2>1. PICK p \in Pages(s) : syncs' = [syncs EXCEPT ![w] =
                                [s EXCEPT !.at = "store", !.seen = @ \cup p, !.todo = p \ s.known]]
    BY <1>6 DEF FetchPage
  <2> DEFINE next == [s EXCEPT !.at = "store", !.seen = @ \cup p, !.todo = p \ s.known]
  <2>2. /\ p # {} /\ p \subseteq Listed(s)
        /\ \A m \in p, n \in Listed(s) \ p : delivered[b][m] <= delivered[b][n]
    BY <1>6, PageIsOldest
  <2>3. p \subseteq Messages
    BY <2>2 DEF Listed
  <2>4. /\ next \in SyncRun /\ next.at = "store" /\ next.box = b /\ next.since = s.since
        /\ next.seen = s.seen \cup p /\ next.known = s.known /\ next.todo = p \ s.known
    BY <1>1, <2>3 DEF SyncRun
  <2>5. syncs' = [syncs EXCEPT ![w] = next]
    BY <2>1
  <2> HIDE DEF next
  <2>6. SyncTypeOK' /\ syncs'[w] = next /\ \A v \in Syncs : v # w => syncs'[v] = syncs[v]
    BY <1>2, <2>4, <2>5 DEF SyncInv, SyncTypeOK
  <2>7. /\ s.since <= clock \/ s.since <= first[b]
        /\ StoredUpTo(b, s.since)
        /\ s.known \subseteq StoredMail
        /\ \A m \in s.seen : delivered[b][m] # Never /\ mailRows[m].stored
        /\ \A m \in Messages \ s.seen, n \in s.seen :
             delivered[b][m] # Never /\ s.since <= delivered[b][m] => delivered[b][n] <= delivered[b][m]
    BY <1>1 DEF PageByPage
  <2>8. Listed(s) = {m \in Messages \ s.seen : delivered[b][m] # Never /\ delivered[b][m] >= s.since}
    BY DEF Listed
  <2> HIDE DEF s, b
  <2>9. \A m \in next.seen : /\ delivered[b][m] # Never
                             /\ m \in next.todo \/ mailRows[m].stored
    BY <2>2, <2>4, <2>7, <2>8 DEF StoredMail
  <2>10. \A m \in Messages \ next.seen, n \in next.seen :
           delivered[b][m] # Never /\ s.since <= delivered[b][m] => delivered[b][n] <= delivered[b][m]
    <3> SUFFICES ASSUME NEW m \in Messages \ next.seen, NEW n \in next.seen,
                        delivered[b][m] # Never, s.since <= delivered[b][m]
                 PROVE  delivered[b][n] <= delivered[b][m]
      OBVIOUS
    <3>1. delivered[b][m] \in Int /\ s.since \in Int
      BY <1>1 DEF SyncInv, SyncTypeOK, SyncTimes, SyncRun
    <3>2. m \in Listed(s) \ p
      BY <2>4, <2>8, <3>1
    <3> QED
      BY <2>2, <2>4, <2>7, <3>2
  <2>11. next.seen # {}
    BY <2>2, <2>4
  <2>12. PageByPage(next)
    BY <2>4, <2>7, <2>9, <2>10, <2>11 DEF PageByPage
  <2>13. PageByPage(syncs[w])'
    BY <1>2, <2>6, <2>12 DEF PageByPage, StoredUpTo, StoredMail
  <2> QED
    BY <1>2, <1>3, <1>4, <2>6, <2>13, SyncKept
<1> QED
  BY <1>5, <1>6

\* A message that becomes a row, or a row that is added to.
LEMMA RowStored ==
  ASSUME SyncInv, NEW m \in Messages, NEW row \in SyncRow, row.stored,
         mailRows' = [mailRows EXCEPT ![m] = row], UNCHANGED <<clock, delivered, first>>
  PROVE  /\ mailRows' \in [Messages -> SyncRow]
         /\ mailRows'[m].stored
         /\ Grows
<1>1. /\ mailRows' \in [Messages -> SyncRow]
      /\ mailRows'[m].stored
      /\ \A n \in Messages : mailRows[n].stored => mailRows'[n].stored
  BY DEF SyncInv, SyncTypeOK
<1> QED
  BY <1>1 DEF Grows, SyncInv, SyncTypeOK, SyncTimes

LEMMA UpsertKeeps ==
  ASSUME SyncInv, NEW w \in Syncs, NEW m \in Messages, UpsertGraphEmail(w, m)
  PROVE  SyncInv'
<1> DEFINE s == syncs[w]
           b == s.box
           next == [s EXCEPT !.todo = s.todo \ {m}]
           row == Upserted(m, b)
<1>1. s \in SyncRun /\ b \in Mailboxes /\ s.at = "store" /\ PageByPage(s)
  BY DEF UpsertGraphEmail, SyncInv, SyncTypeOK, SyncRun, PagesInOrder
<1>2. UNCHANGED <<clock, delivered, watermark, first>> /\ mailRows' = [mailRows EXCEPT ![m] = row]
  BY DEF UpsertGraphEmail
<1>3. row \in SyncRow /\ row.stored
  <2>1. mailRows[m] \in SyncRow /\ delivered[b][m] \in SyncTimes
    BY <1>1 DEF SyncInv, SyncTypeOK
  <2>2. CASE ~mailRows[m].stored
    <3>1. row = [stored |-> TRUE, received |-> delivered[b][m], box |-> b]
      BY <2>2 DEF Upserted
    <3> HIDE DEF row, b
    <3> QED
      BY <3>1, <2>1, <1>1 DEF SyncRow
  <2>3. CASE mailRows[m].stored
    <3> DEFINE c == IF b = Extra THEN b ELSE mailRows[m].box
    <3>1. row = [mailRows[m] EXCEPT !.box = c]
      BY <2>3 DEF Upserted
    <3>2. c \in Mailboxes
      BY <1>1, <2>1 DEF SyncRow
    <3> HIDE DEF row, b, c
    <3> QED
      BY <3>1, <3>2, <2>1, <2>3 DEF SyncRow
  <2> QED
    BY <2>2, <2>3
<1>4. syncs' = [syncs EXCEPT ![w] = next]
  BY DEF UpsertGraphEmail
<1> HIDE DEF row
<1>5. mailRows' \in [Messages -> SyncRow] /\ mailRows'[m].stored /\ Grows
  BY <1>2, <1>3, RowStored
<1>6. /\ next \in SyncRun /\ next.at = "store" /\ next.box = b /\ next.since = s.since
      /\ next.seen = s.seen /\ next.known = s.known /\ next.todo = s.todo \ {m}
  BY <1>1 DEF SyncRun
<1> HIDE DEF next
<1>7. SyncTypeOK' /\ syncs'[w] = next /\ \A v \in Syncs : v # w => syncs'[v] = syncs[v]
  BY <1>2, <1>4, <1>5, <1>6 DEF SyncInv, SyncTypeOK
<1>8. NotBeyondTheClock'
  BY <1>2 DEF SyncInv, NotBeyondTheClock
<1>9. \A n \in Messages : mailRows[n].stored => mailRows'[n].stored
  BY <1>5 DEF Grows
<1>10. /\ s.since <= clock \/ s.since <= first[b]
       /\ StoredUpTo(b, s.since)
       /\ s.known \subseteq StoredMail
       /\ \A n \in s.seen : delivered[b][n] # Never /\ (n \in s.todo \/ mailRows[n].stored)
       /\ \A x \in Messages \ s.seen, n \in s.seen :
            delivered[b][x] # Never /\ s.since <= delivered[b][x] => delivered[b][n] <= delivered[b][x]
       /\ s.seen # {} /\ s.seen \subseteq Messages
  BY <1>1 DEF PageByPage, SyncRun
<1> HIDE DEF s, b
<1>11. \A n \in s.seen : n \in next.todo \/ mailRows'[n].stored
  BY <1>5, <1>6, <1>9, <1>10
<1>12. s.known \subseteq StoredMail'
  BY <1>9, <1>10 DEF StoredMail
<1>13. PageByPage(syncs[w])'
  BY <1>2, <1>6, <1>7, <1>9, <1>10, <1>11, <1>12 DEF PageByPage, StoredUpTo
<1> QED
  BY <1>2, <1>5, <1>7, <1>8, <1>13, SyncKept

LEMMA AdvanceKeeps ==
  ASSUME SyncInv, NEW w \in Syncs, AdvanceWatermark(w)
  PROVE  SyncInv'
<1> DEFINE s == syncs[w]
           b == s.box
           next == [s EXCEPT !.at = "list"]
           S == {delivered[b][m] : m \in s.seen}
           t == Max(S)
<1>1. s \in SyncRun /\ b \in Mailboxes /\ s.at = "store" /\ PageByPage(s) /\ s.todo = {}
  BY DEF AdvanceWatermark, SyncInv, SyncTypeOK, SyncRun, PagesInOrder, PageStored
<1>2. /\ UNCHANGED <<clock, delivered, mailRows, first>>
      /\ watermark' = [watermark EXCEPT ![b] = IF watermark[b] <= t THEN t ELSE watermark[b]]
      /\ syncs' = [syncs EXCEPT ![w] = next]
  BY DEF AdvanceWatermark, Advanced
<1>3. /\ s.since <= clock \/ s.since <= first[b]
      /\ StoredUpTo(b, s.since)
      /\ s.known \subseteq StoredMail
      /\ \A n \in s.seen : delivered[b][n] # Never /\ mailRows[n].stored
      /\ \A x \in Messages \ s.seen, n \in s.seen :
           delivered[b][x] # Never /\ s.since <= delivered[b][x] => delivered[b][n] <= delivered[b][x]
      /\ s.seen # {} /\ s.seen \subseteq Messages
  BY <1>1 DEF PageByPage, SyncRun
<1>4. /\ next \in SyncRun /\ next.at = "list" /\ next.box = b /\ next.since = s.since
      /\ next.seen = s.seen /\ next.known = s.known
  BY <1>1 DEF SyncRun
<1>5. /\ \A m \in Messages : delivered[b][m] \in SyncTimes /\ delivered[b][m] <= clock
      /\ s.since \in SyncTimes /\ clock \in Int
      /\ watermark[b] \in SyncTimes /\ watermark[b] <= clock
      /\ first[b] \in SyncTimes
  BY <1>1 DEF SyncInv, SyncTypeOK, SyncRun, NotBeyondTheClock
<1> HIDE DEF next, s, b
<1>6. S \in SUBSET (0..MaxClock) /\ S # {}
  BY <1>3, <1>5 DEF SyncTimes
<1> HIDE DEF S
<1>7. t \in S /\ \A x \in S : x <= t
  BY <1>6, Newest, MailSyncAssumption
<1> HIDE DEF t
<1>8. /\ t \in SyncTimes
      /\ \E n \in s.seen : t = delivered[b][n]
      /\ \A n \in s.seen : delivered[b][n] <= t
  BY <1>6, <1>7 DEF S, SyncTimes
<1>9. t <= clock
  BY <1>3, <1>5, <1>8
<1>10. /\ watermark' \in [Mailboxes -> SyncTimes]
       /\ watermark'[b] = watermark[b] \/ watermark'[b] = t
       /\ \A c \in Mailboxes : c # b => watermark'[c] = watermark[c]
  <2> DEFINE x == IF watermark[b] <= t THEN t ELSE watermark[b]
  <2>1. x \in SyncTimes /\ (x = watermark[b] \/ x = t)
    BY <1>5, <1>8
  <2>2. watermark' = [watermark EXCEPT ![b] = x]
    BY <1>2
  <2> HIDE DEF x
  <2> QED
    BY <1>1, <2>1, <2>2 DEF SyncInv, SyncTypeOK
<1>11. SyncTypeOK' /\ syncs'[w] = next /\ \A v \in Syncs : v # w => syncs'[v] = syncs[v]
  BY <1>2, <1>4, <1>10 DEF SyncInv, SyncTypeOK
<1>12. Grows
  BY <1>2 DEF Grows, SyncInv, SyncTypeOK, SyncTimes
<1>13. NotBeyondTheClock'
  BY <1>2, <1>5, <1>9, <1>10 DEF SyncInv, NotBeyondTheClock
<1>14. StoredUpTo(b, t)
  <2> SUFFICES ASSUME NEW m \in Messages, delivered[b][m] # Never,
                      first[b] <= delivered[b][m], delivered[b][m] < t
               PROVE  mailRows[m].stored
    BY DEF StoredUpTo
  <2>1. /\ delivered[b][m] \in Int /\ s.since \in Int /\ t \in Int
    BY <1>5, <1>8 DEF SyncTimes
  <2>2. CASE delivered[b][m] < s.since
    BY <1>3, <2>2 DEF StoredUpTo
  <2>3. CASE s.since <= delivered[b][m]
    <3>1. m \in s.seen
      BY <1>3, <1>8, <2>1, <2>3
    <3> QED
      BY <1>3, <3>1
  <2> QED
    BY <2>1, <2>2, <2>3
<1>15. \A c \in Mailboxes : watermark'[c] = watermark[c] \/ StoredUpTo(c, watermark[c])'
  BY <1>2, <1>10, <1>14 DEF StoredUpTo
<1>16. PageByPage(next)
  BY <1>3, <1>4 DEF PageByPage
<1>17. PageByPage(syncs[w])'
  BY <1>2, <1>11, <1>16 DEF PageByPage, StoredUpTo, StoredMail
<1> QED
  BY <1>11, <1>12, <1>13, <1>15, <1>17, SyncKept

LEMMA SyncFailsKeeps ==
  ASSUME SyncInv, NEW w \in Syncs, SyncFails(w)
  PROVE  SyncInv'
<1>1. UNCHANGED <<clock, delivered, mailRows, watermark, first>> /\ syncs' = [syncs EXCEPT ![w] = NoSync]
  BY DEF SyncFails
<1>2. SyncTypeOK' /\ syncs'[w] = NoSync /\ \A v \in Syncs : v # w => syncs'[v] = syncs[v]
  BY <1>1, RunsEnd DEF SyncInv, SyncTypeOK
<1>3. Grows
  BY <1>1 DEF Grows, SyncInv, SyncTypeOK, SyncTimes
<1>4. NotBeyondTheClock'
  BY <1>1 DEF SyncInv, NotBeyondTheClock
<1>5. PageByPage(syncs[w])'
  BY <1>2, RunsEnd, NotReading
<1> QED
  BY <1>1, <1>2, <1>3, <1>4, <1>5, SyncKept

LEMMA IngestKeeps ==
  ASSUME SyncInv, NEW m \in Messages, NEW t \in Times, IngestEmail(m, t)
  PROVE  SyncInv'
<1> DEFINE row == [NoMailRow EXCEPT !.stored = TRUE, !.received = t]
<1>1. /\ mailRows' = [mailRows EXCEPT ![m] = row]
      /\ UNCHANGED <<clock, delivered, watermark, first, syncs>>
  BY DEF IngestEmail
<1>2. row \in SyncRow /\ row.stored
  <2>1. t \in SyncTimes /\ Primary \in Mailboxes
    BY DEF Times, SyncTimes, Mailboxes
  <2>2. NoMailRow \in SyncRow
    BY <2>1, MailSyncAssumption DEF NoMailRow, SyncRow, SyncTimes, Never
  <2> QED
    BY <2>1, <2>2 DEF SyncRow
<1> HIDE DEF row
<1>3. mailRows' \in [Messages -> SyncRow] /\ Grows
  BY <1>1, <1>2, RowStored
<1>4. SyncTypeOK'
  BY <1>1, <1>3 DEF SyncInv, SyncTypeOK
<1>5. NotBeyondTheClock'
  BY <1>1 DEF SyncInv, NotBeyondTheClock
<1> QED
  BY <1>1, <1>3, <1>4, <1>5, SyncKept

LEMMA SyncStepKeeps == SyncInv /\ [MailSyncNext]_mailVars => SyncInv'
<1> SUFFICES ASSUME SyncInv, [MailSyncNext]_mailVars PROVE SyncInv'
  OBVIOUS
<1>1. CASE UNCHANGED mailVars
  BY <1>1 DEF mailVars, SyncInv, SyncTypeOK, NotBeyondTheClock, PagesInOrder, PageByPage,
              StoredUpTo, StoredMail, PassedMailIsStored
<1>2. ASSUME NEW m \in Messages, Deliver(m) PROVE SyncInv'
  BY <1>2, DeliverKeeps
<1>3. ASSUME NEW m \in Messages, NEW t \in Times, IngestEmail(m, t) PROVE SyncInv'
  BY <1>3, IngestKeeps
<1>4. CASE TickMail
  BY <1>4, TickKeeps
<1>5. ASSUME NEW w \in Syncs, SyncStep(w) PROVE SyncInv'
  BY <1>5, ReadWatermarkKeeps, FetchPageKeeps, AdvanceKeeps, SyncFailsKeeps, UpsertKeeps DEF SyncStep
<1> QED
  BY <1>1, <1>2, <1>3, <1>4, <1>5 DEF MailSyncNext

\* No sync steps over a message: what reached a mailbox between the start of its
\* reading and its watermark is stored, for any number of overlapping syncs, any
\* page size, failures anywhere, and any messages, times and deliveries.
THEOREM NoMailIsPassedOver == MailSyncSpec => []PassedMailIsStored
<1>1. SyncInv => PassedMailIsStored
  BY DEF SyncInv
<1> QED
  BY <1>1, SyncStarts, SyncStepKeeps, PTL DEF MailSyncSpec
=============================================================================
