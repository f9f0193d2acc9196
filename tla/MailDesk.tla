------------------------------ MODULE MailDesk ------------------------------
(***************************************************************************)
(* What people and inbound triage do with stored mail: archiveEmail,       *)
(* promoteEmailToJob, promoteEmailToJobUpdate and recordEmailQuoteDecision *)
(* of src/src/functions/emails.ts, linkDirectorReply, and the routing of   *)
(* src/src/inboundTriage (run.ts, triage.ts, assign.ts).                   *)
(*                                                                         *)
(* Requests read the email first and write later, in a transaction of      *)
(* their own; a triage run reads its whole list first. In between, others  *)
(* write. Two emails may answer the same request for a director's          *)
(* decision on one quote. Who is ranked first, and whether the match is    *)
(* strong enough, is any outcome the ranker may have.                      *)
(***************************************************************************)
EXTENDS Integers, Sequences

CONSTANTS Letters,      \* emails in Incoming
          MailStaff,        \* people an email may be given to
          Sitters,      \* requests that may be under way at once
          Triages,      \* triage runs that may be under way at once
          NoOwner,      \* AssignedToUserId is null
          MaxHandOvers, \* bound on the outcomes logged for an email
          MaxNewJobs    \* bound on the jobs made from an email

ASSUME MailDeskAssumption ==
    /\ NoOwner \notin MailStaff
    /\ MaxHandOvers \in Nat
    /\ MaxNewJobs \in Nat

VARIABLES letters,  \* Emails: status and who has it
          routed,   \* EmailRoutingSets: does the email have one
          handed,   \* EmailRoutingOutcomes: previous and chosen person, in order
          quoteAt,  \* the quote both emails may answer
          recorded, \* times an email was written down as a reply
          newJobs,  \* jobs made from an email
          sitting,  \* the requests under way
          triage    \* the emails a triage run has still to route

deskMailVars == <<letters, routed, handed, quoteAt, recorded, newJobs, sitting, triage>>

NotSitting == [doing |-> "none"]

MailDeskInit ==
    /\ letters = [e \in Letters |-> [status |-> "unread", owner |-> NoOwner]]
    /\ routed = [e \in Letters |-> FALSE]
    /\ handed = [e \in Letters |-> <<>>]
    /\ quoteAt = "awaiting_director"
    /\ recorded = [e \in Letters |-> 0]
    /\ newJobs = [e \in Letters |-> 0]
    /\ sitting = [u \in Sitters |-> NotSitting]
    /\ triage = [t \in Triages |-> {}]

-----------------------------------------------------------------------------
(* Archive, promote.                                                       *)

\* archiveEmail and its ledger row: one transaction, whatever the status.
ArchiveEmail(e) ==
    /\ letters' = [letters EXCEPT ![e].status = "archived"]
    /\ UNCHANGED <<routed, handed, quoteAt, recorded, newJobs, sitting, triage>>

\* promoteEmailToJob makes the job first ...
PromoteEmailToJob(u, e) ==
    /\ sitting[u] = NotSitting
    /\ \A x \in Letters : newJobs[x] < MaxNewJobs
    /\ newJobs' = [newJobs EXCEPT ![e] = @ + 1]
    /\ sitting' = [sitting EXCEPT ![u] = [doing |-> "promote", letter |-> e]]
    /\ UNCHANGED <<letters, routed, handed, quoteAt, recorded, triage>>

\* ... and marks the email in a statement of its own; for a job that exists
\* that is all it does.
MarkPromoted(u, e) ==
    /\ sitting[u] \in {NotSitting, [doing |-> "promote", letter |-> e]}
    /\ letters' = [letters EXCEPT ![e].status = "promoted"]
    /\ sitting' = [sitting EXCEPT ![u] = NotSitting]
    /\ UNCHANGED <<routed, handed, quoteAt, recorded, newJobs, triage>>

-----------------------------------------------------------------------------
(* A reply written down: on the job, or as the director's decision.        *)

\* alreadyHandledResponse.
MailHandled(e) == letters[e].status \in {"promoted", "archived"}

\* A request reads the email, and goes on while nobody has dealt with it.
OpenReply(u, e, what) ==
    /\ sitting[u] = NotSitting
    /\ ~MailHandled(e)
    /\ sitting' = [sitting EXCEPT ![u] = [doing |-> what, letter |-> e]]
    /\ UNCHANGED <<letters, routed, handed, quoteAt, recorded, newJobs, triage>>

\* promoteEmailToJobUpdate: a note on the job.
OpenJobUpdate(u, e) == OpenReply(u, e, "note")

\* recordEmailQuoteDecision with EMAIL_REPLY_DECISIONS_ENABLED: the quote is
\* waiting for the director; whether sender and text will do is any outcome.
OpenDecision(u, e) == quoteAt = "awaiting_director" /\ OpenReply(u, e, "decide")

\* With the switch off it only files the reply on the job.
OpenDirectorReply(u, e) == OpenReply(u, e, "link")

\* The conditional flip of the email.
Flips(e) == ~MailHandled(e)

\* One transaction: the note or the decision, and the flip; rolled back when
\* the quote or the email has been dealt with since.
RecordReply(u) ==
    LET s == sitting[u]
        e == s.letter
        goes == Flips(e) /\ (s.doing = "decide" => quoteAt = "awaiting_director")
    IN  /\ s.doing \in {"note", "link", "decide"}
        /\ sitting' = [sitting EXCEPT ![u] = NotSitting]
        /\ letters' = IF goes THEN [letters EXCEPT ![e].status = "promoted"] ELSE letters
        /\ recorded' = IF goes THEN [recorded EXCEPT ![e] = @ + 1] ELSE recorded
        /\ quoteAt' = IF goes /\ s.doing = "decide" THEN "decided" ELSE quoteAt
        /\ UNCHANGED <<routed, handed, newJobs, triage>>

\* A director decides the quote in the app.
DecideInApp ==
    /\ quoteAt = "awaiting_director"
    /\ quoteAt' = "decided"
    /\ UNCHANGED <<letters, routed, handed, recorded, newJobs, sitting, triage>>

-----------------------------------------------------------------------------
(* Who has the email.                                                      *)

\* Both UPDATEs only write while the email is with the person it was read with.
StillWithAny(e, who) == TRUE
StillWith(e, who) == letters[e].owner = who

HandsOver(e, from, to) ==
    /\ Len(handed[e]) < MaxHandOvers
    /\ letters' = [letters EXCEPT ![e].owner = to]
    /\ handed' = [handed EXCEPT ![e] = Append(@, [from |-> from, to |-> to])]

\* assignEmail: the email is open and with whom the screen says it is.
OpenAssign(u, e, to) ==
    /\ sitting[u] = NotSitting
    /\ ~MailHandled(e)
    /\ letters[e].owner # to
    /\ sitting' = [sitting EXCEPT ![u] =
                      [doing |-> "assign", letter |-> e, from |-> letters[e].owner, to |-> to]]
    /\ UNCHANGED <<letters, routed, handed, quoteAt, recorded, newJobs, triage>>

\* One transaction: the person, a set when triage made none, the outcome and
\* the ledger row; nothing when somebody else has moved the email.
AssignEmail(u) ==
    LET s == sitting[u]
        e == s.letter
    IN  /\ s.doing = "assign"
        /\ sitting' = [sitting EXCEPT ![u] = NotSitting]
        /\ IF StillWith(e, s.from)
           THEN HandsOver(e, s.from, s.to) /\ routed' = [routed EXCEPT ![e] = TRUE]
           ELSE UNCHANGED <<letters, handed, routed>>
        /\ UNCHANGED <<quoteAt, recorded, newJobs, triage>>

\* loadPending: open, with nobody, never routed.
AwaitsTriage(e) == letters[e].status = "unread" /\ letters[e].owner = NoOwner /\ ~routed[e]

RunInboundTriage(t) ==
    /\ triage[t] = {}
    /\ \E e \in Letters : AwaitsTriage(e)
    /\ triage' = [triage EXCEPT ![t] = {e \in Letters : AwaitsTriage(e)}]
    /\ UNCHANGED <<letters, routed, handed, quoteAt, recorded, newJobs, sitting>>

\* decide: one of the staff, or the manager's queue.
Verdicts == MailStaff \cup {NoOwner}

\* triageEmail: the set, and for a strong match the assignment; rolled back
\* together when somebody has the email by now.
TriageEmail(t, e) ==
    /\ e \in triage[t]
    /\ triage' = [triage EXCEPT ![t] = @ \ {e}]
    /\ \E chosen \in Verdicts :
        IF chosen = NoOwner
        THEN routed' = [routed EXCEPT ![e] = TRUE] /\ UNCHANGED <<letters, handed>>
        ELSE IF StillWith(e, NoOwner)
        THEN routed' = [routed EXCEPT ![e] = TRUE] /\ HandsOver(e, NoOwner, chosen)
        ELSE UNCHANGED <<letters, handed, routed>>
    /\ UNCHANGED <<quoteAt, recorded, newJobs, sitting>>

\* The run stops: its time is up, an email failed, the host died.
EndTriage(t) ==
    /\ triage[t] # {}
    /\ \E e \in triage[t] : triage' = [triage EXCEPT ![t] = @ \ {e}]
    /\ UNCHANGED <<letters, routed, handed, quoteAt, recorded, newJobs, sitting>>

\* A request fails or is lost before its last statement.
DeskFails(u) ==
    /\ sitting[u] # NotSitting
    /\ sitting' = [sitting EXCEPT ![u] = NotSitting]
    /\ UNCHANGED <<letters, routed, handed, quoteAt, recorded, newJobs, triage>>

MailDeskNext ==
    \/ \E e \in Letters : ArchiveEmail(e)
    \/ DecideInApp
    \/ \E u \in Sitters :
        \/ RecordReply(u) \/ AssignEmail(u) \/ DeskFails(u)
        \/ \E e \in Letters :
            \/ PromoteEmailToJob(u, e) \/ MarkPromoted(u, e)
            \/ OpenJobUpdate(u, e) \/ OpenDecision(u, e) \/ OpenDirectorReply(u, e)
            \/ \E to \in MailStaff : OpenAssign(u, e, to)
    \/ \E t \in Triages : RunInboundTriage(t) \/ EndTriage(t)
                          \/ \E e \in Letters : TriageEmail(t, e)

MailDeskSpec == MailDeskInit /\ [][MailDeskNext]_deskMailVars

-----------------------------------------------------------------------------

\* The routing log tells the whole way of an email: every hand-over starts from
\* the person the one before it ended with, and the last names who has it, even
\* with triage runs and managers routing the same email at once (triage.ts:93,
\* assign.ts:41).
HandOversFollow ==
    \A e \in Letters :
        LET log == handed[e]
            Before(i) == IF i = 1 THEN NoOwner ELSE log[i - 1].to
        IN  /\ \A i \in 1..Len(log) : log[i].from = Before(i)
            /\ letters[e].owner = Before(Len(log) + 1)

\* An email is written down as a reply at most once, as a note or as the
\* director's decision, however many people act on it at once
\* (emails.ts:1030, 1301, director-reply-link.ts:64).
ReplyCountsOnce == \A e \in Letters : recorded[e] <= 1

\* The mail desk's books are right: who had an email, and that its answer counted once.
MailIsAccountedFor == HandOversFollow /\ ReplyCountsOnce
=============================================================================
