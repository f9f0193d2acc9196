---------------------------- MODULE MailReading ----------------------------
(***************************************************************************)
(* The reading of stored mail by the classifier ("toddler"):               *)
(* src/src/functions/parseEmails.ts, with the flag a person may set or     *)
(* clear (flagEmailForReview of emails.ts, unflagEmail.ts).                *)
(*                                                                         *)
(* A run (timer, daily retry or queue) gives up the mail whose attempts    *)
(* are spent, then claims one email at a time under a lease, asks the      *)
(* classifier and writes what it answered. Each statement is a transaction *)
(* of its own and a run may die anywhere. A lease (CLAIM_LEASE_SECONDS,    *)
(* 600) outlives the run that took it (RUN_BUDGET_MS 540 s, and the host   *)
(* ends a run at 600 s), so it lapses only once nobody works under it.     *)
(* What the classifier says is abstracted to whether it classified the     *)
(* email, and with what confidence.                                        *)
(***************************************************************************)
EXTENDS Integers

CONSTANTS MailCount,    \* emails stored; they are claimed in the order of EmailID
          Runs,         \* runs that may be under way at once
          MaxTries,     \* MAX_ATTEMPTS
          MaxResets     \* bound on the resets of an administrator

ASSUME MailReadingAssumption ==
    /\ MailCount \in Nat \ {0}
    /\ MaxTries \in Nat \ {0}
    /\ MaxResets \in Nat

Mails == 1..MailCount
NoMail == 0

VARIABLES mails,   \* the AI columns of the Emails table
          readers, \* the runs
          resets   \* resets done

readingVars == <<mails, readers, resets>>

Unread == [parsed |-> FALSE, tries |-> 0, lease |-> "free", error |-> FALSE,
           class |-> "none", flagged |-> FALSE]

Resting == [at |-> "idle", mail |-> NoMail]

ReadingInit ==
    /\ mails = [e \in Mails |-> Unread]
    /\ readers = [r \in Runs |-> Resting]
    /\ resets = 0

-----------------------------------------------------------------------------

\* AIClaimedAt is null, or older than the lease.
LeaseIgnored(e) == TRUE
LeaseOver(e) == mails[e].lease # "held"

\* expireExhausted: unparsed, out of attempts, nobody working on it.
Exhausted(e) == ~mails[e].parsed /\ mails[e].tries >= MaxTries /\ LeaseOver(e)

\* claimOne's and hasUnparsedEmails' filter.
Claimable(e) == ~mails[e].parsed /\ mails[e].tries < MaxTries /\ LeaseOver(e)

ExpireExhausted ==
    [e \in Mails |->
        IF Exhausted(e)
        THEN [mails[e] EXCEPT !.parsed = TRUE, !.flagged = TRUE, !.error = TRUE, !.lease = "free"]
        ELSE mails[e]]

Goes(r, place, e) == readers' = [readers EXCEPT ![r] = [at |-> place, mail |-> e]]

\* parseQueued: give up what is spent; end when the queue is empty or the
\* classifier does not warm up.
ParseQueued(r) ==
    /\ readers[r].at = "idle"
    /\ mails' = ExpireExhausted
    /\ \/ (\E e \in Mails : Claimable(e)) /\ Goes(r, "warm", NoMail)
       \/ UNCHANGED readers
    /\ UNCHANGED resets

\* runParseBatch gives up what is spent once more.
RunParseBatch(r) ==
    /\ readers[r].at = "warm"
    /\ mails' = ExpireExhausted
    /\ Goes(r, "batch", NoMail)
    /\ UNCHANGED resets

\* claimOne: the first claimable email takes an attempt and a lease.
ClaimOne(r) ==
    /\ readers[r].at = "batch"
    /\ \E e \in Mails :
        /\ Claimable(e)
        /\ \A f \in Mails : Claimable(f) => e <= f
        /\ mails' = [mails EXCEPT ![e].tries = @ + 1, ![e].lease = "held"]
        /\ Goes(r, "reading", e)
    /\ UNCHANGED resets

\* The batch is over: nothing to claim, its size or its time is spent, the
\* claim failed, or the run died. A claimed email keeps its lease.
EndRun(r) ==
    /\ readers[r].at # "idle"
    /\ Goes(r, "idle", NoMail)
    /\ UNCHANGED <<mails, resets>>

Answers(r, row) ==
    /\ readers[r].at = "reading"
    /\ mails' = [mails EXCEPT ![readers[r].mail] = row]
    /\ Goes(r, "batch", NoMail)
    /\ UNCHANGED resets

Mine(r) == mails[readers[r].mail]

\* needsReview: something it did classify, with low confidence.
NeedsReview(class) == class = "low"

\* writeSuccess: the reading, the flag it asks for, the lease given back. A
\* sender on the skip list is written the same way without a call.
WriteSuccess(r) ==
    \E class \in {"unknown", "low", "high"} :
        Answers(r, [Mine(r) EXCEPT !.parsed = TRUE, !.class = class, !.error = FALSE,
                                   !.flagged = NeedsReview(class), !.lease = "free"])

\* recordTransientError: the lease stays, so that the retry waits for it.
RecordTransientError(r) == Answers(r, [Mine(r) EXCEPT !.error = TRUE])

\* The write of an outcome failed: nothing is recorded.
RecordNothing(r) == Answers(r, Mine(r))

\* recordPermanentError: the classifier refuses the email for good.
RecordPermanentError(r) ==
    Answers(r, [Mine(r) EXCEPT !.parsed = TRUE, !.flagged = TRUE, !.error = TRUE,
                               !.lease = "free"])

\* 600 s after the claim; by then the run that took it is over.
LeaseLapses(e) ==
    /\ mails[e].lease = "held"
    /\ \A r \in Runs : readers[r].mail # e
    /\ mails' = [mails EXCEPT ![e].lease = "lapsed"]
    /\ UNCHANGED <<readers, resets>>

-----------------------------------------------------------------------------
(* People.                                                                 *)

\* resetFailedEmails: finalised without a classification, or with an error.
ResetFailedEmails ==
    /\ resets < MaxResets
    /\ mails' = [e \in Mails |->
                    IF mails[e].parsed /\ (mails[e].error \/ mails[e].class = "none")
                    THEN Unread ELSE mails[e]]
    /\ resets' = resets + 1
    /\ UNCHANGED readers

FlagEmailForReview(e) ==
    /\ mails' = [mails EXCEPT ![e].flagged = TRUE]
    /\ UNCHANGED <<readers, resets>>

UnflagEmail(e) ==
    /\ mails[e].flagged
    /\ mails' = [mails EXCEPT ![e].flagged = FALSE]
    /\ UNCHANGED <<readers, resets>>

ReadingNext ==
    \/ \E r \in Runs :
        \/ ParseQueued(r) \/ RunParseBatch(r) \/ ClaimOne(r) \/ EndRun(r)
        \/ WriteSuccess(r) \/ RecordTransientError(r) \/ RecordNothing(r)
        \/ RecordPermanentError(r)
    \/ \E e \in Mails : LeaseLapses(e) \/ FlagEmailForReview(e) \/ UnflagEmail(e)
    \/ ResetFailedEmails

ReadingSpec == ReadingInit /\ [][ReadingNext]_readingVars

-----------------------------------------------------------------------------

\* The reading of an email is final: once it is classified, rejected or given
\* up, no other run, late answer or tidy-up writes over it; only an
\* administrator's reset puts it back, and that leaves a good reading alone
\* (parseEmails.ts:397-456, the lease, and 353, the reset).
ReadingIsFinal ==
    [][\A e \in Mails : mails[e].parsed =>
          \/ mails'[e].parsed /\ mails'[e].class = mails[e].class
                              /\ mails'[e].error = mails[e].error
          \/ ~mails'[e].parsed /\ (mails[e].error \/ mails[e].class = "none")]_readingVars
=============================================================================
