------------------------------ MODULE MailSync ------------------------------
(***************************************************************************)
(* The intake of mail: src/src/email/mail-sync.ts, the page reader of      *)
(* src/src/graph.ts, upsertGraphEmails and ingestEmail of                  *)
(* src/src/functions/emails.ts and processEmailSync of parseEmails.ts.     *)
(*                                                                         *)
(* A sync reads a mailbox from its watermark, oldest first, a page at a    *)
(* time, and moves the watermark to the newest message of a page it has    *)
(* stored. Several syncs may be under way, each statement is a transaction *)
(* of its own, and any of them may fail: a run that fails is over, and the *)
(* queue, the next webhook call or the daily retry starts another. The     *)
(* main mailbox is read first; the extra mailbox (read by triage) starts   *)
(* from the moment it is first read. Attachments and reply links, written  *)
(* to the same row, are left out.                                          *)
(* A message is its Message-ID and its sender; one message may reach both  *)
(* mailboxes. Graph is external: a message appears in a mailbox with the   *)
(* time it arrives.                                                        *)
(***************************************************************************)
EXTENDS Integers, FiniteSetsExt

CONSTANTS Messages,       \* the messages that may be sent
          Primary, Extra, \* the main mailbox and the one triage reads
          PageSize,       \* messages on a page of Graph's answer
          Syncs,          \* the runs of processEmailSync that may be under way
          MaxClock        \* bound on the clock

ASSUME MailSyncAssumption ==
    /\ IsFiniteSet(Messages)
    /\ Primary # Extra
    /\ PageSize \in Nat \ {0}
    /\ MaxClock \in Nat \ {0}

Mailboxes == {Primary, Extra}
Times == 1..MaxClock
Never == 0   \* no time: not delivered, no watermark

VARIABLES clock,    \* the time
          delivered,  \* when each message reached each mailbox
          mailRows, \* the Emails table
          watermark,     \* EmailSyncState: the watermark of each mailbox
          first,    \* history: where the reading of each mailbox started
          syncs     \* the runs under way

mailVars == <<clock, delivered, mailRows, watermark, first, syncs>>

\* No run, or one that has not read a watermark yet.
NoSync == [at |-> "none", box |-> Primary, since |-> Never,
           known |-> {}, seen |-> {}, todo |-> {}]

NoMailRow == [stored |-> FALSE, received |-> Never, box |-> Primary]

StoredMail == {m \in Messages : mailRows[m].stored}

MailInit ==
    /\ clock = 1
    /\ delivered = [b \in Mailboxes |-> [m \in Messages |-> Never]]
    /\ mailRows = [m \in Messages |-> NoMailRow]
    /\ watermark = [b \in Mailboxes |-> Never]
    /\ first = [b \in Mailboxes |-> Never]
    /\ syncs = [w \in Syncs |-> NoSync]

-----------------------------------------------------------------------------
(* Graph and the clock (external).                                         *)

\* A message is delivered to one mailbox, or to both at once.
Deliver(m) ==
    \E to \in (SUBSET Mailboxes) \ {{}} :
        /\ \A b \in Mailboxes : delivered[b][m] = Never
        /\ delivered' = [b \in Mailboxes |->
                          [delivered[b] EXCEPT ![m] = IF b \in to THEN clock ELSE @]]
        /\ UNCHANGED <<clock, mailRows, watermark, first, syncs>>

TickMail ==
    /\ clock < MaxClock
    /\ clock' = clock + 1
    /\ UNCHANGED <<delivered, mailRows, watermark, first, syncs>>

-----------------------------------------------------------------------------
(* A sync of one mailbox.                                                  *)

\* MERGE of the watermark: it only moves forward.
Advanced(b, t) == [watermark EXCEPT ![b] = IF @ <= t THEN t ELSE @]

\* Where a mailbox without a watermark starts: the extra one now, the main
\* one at the newest mail stored.
StartOf(b) == IF b = Extra THEN clock
              ELSE Max({Never} \cup {mailRows[m].received : m \in StoredMail})

\* readWatermark, then the messages already stored from there on. A run starts
\* with the main mailbox.
ReadWatermark(w) ==
    LET s == syncs[w]
        b == s.box
        since == IF watermark[b] # Never THEN watermark[b] ELSE StartOf(b)
    IN  /\ s.at \in {"none", "begin"}
        /\ watermark' = IF watermark[b] = Never /\ b = Extra THEN Advanced(b, since) ELSE watermark
        /\ first' = [first EXCEPT ![b] = IF watermark[b] = Never /\ since > @ THEN since ELSE @]
        /\ syncs' = [syncs EXCEPT ![w] =
                        [s EXCEPT !.at = "list", !.since = since, !.seen = {},
                                  !.known = IF since = Never THEN {}
                                            ELSE {m \in StoredMail : mailRows[m].received >= since}]]
        /\ UNCHANGED <<clock, delivered, mailRows>>

\* The messages Graph lists from `since` on that earlier pages did not hold.
Listed(s) ==
    {m \in Messages \ s.seen :
        delivered[s.box][m] # Never /\ delivered[s.box][m] >= s.since}

\* A page: the oldest of them.
Pages(s) ==
    {p \in SUBSET Listed(s) :
        /\ \A m \in p, n \in Listed(s) \ p : delivered[s.box][m] <= delivered[s.box][n]
        /\ Cardinality(p) = Min({PageSize, Cardinality(Listed(s))})}

\* The run goes on to the extra mailbox, or is over.
NextMailbox(s) == IF s.box = Primary THEN [NoSync EXCEPT !.at = "begin", !.box = Extra]
                  ELSE NoSync

\* graphFetchEmailPages: the next page, without the messages already stored;
\* the end of the mailbox when there is none.
FetchPage(w) ==
    LET s == syncs[w]
    IN  /\ s.at = "list"
        /\ IF Listed(s) = {}
           THEN syncs' = [syncs EXCEPT ![w] = NextMailbox(s)]
           ELSE \E p \in Pages(s) :
                    syncs' = [syncs EXCEPT ![w] =
                                [s EXCEPT !.at = "store", !.seen = @ \cup p,
                                          !.todo = p \ s.known]]
        /\ UNCHANGED <<clock, delivered, mailRows, watermark, first>>

\* INSERT_EMAIL: the row, or what a copy may add to the row that is there.
Upserted(m, b) ==
    IF ~mailRows[m].stored
    THEN [stored |-> TRUE, received |-> delivered[b][m], box |-> b]
    ELSE [mailRows[m] EXCEPT !.box = IF b = Extra THEN b ELSE @]

\* upsertGraphEmails: one message of the page, oldest first.
UpsertGraphEmail(w, m) ==
    LET s == syncs[w]
    IN  /\ s.at = "store"
        /\ m \in s.todo
        /\ \A n \in s.todo : delivered[s.box][m] <= delivered[s.box][n]
        /\ mailRows' = [mailRows EXCEPT ![m] = Upserted(m, s.box)]
        /\ syncs' = [syncs EXCEPT ![w].todo = @ \ {m}]
        /\ UNCHANGED <<clock, delivered, watermark, first>>

\* The page is stored.
PageRead(s) == s.seen # {}
PageStored(s) == s.todo = {}

\* The watermark moves to the newest message of the page.
AdvanceWatermark(w) ==
    LET s == syncs[w]
    IN  /\ s.at = "store"
        /\ PageStored(s)
        /\ watermark' = Advanced(s.box, Max({delivered[s.box][m] : m \in s.seen}))
        /\ syncs' = [syncs EXCEPT ![w].at = "list"]
        /\ UNCHANGED <<clock, delivered, mailRows, first>>

\* A statement or a Graph call fails, or the host dies: the run is over. Only
\* the failure of the main mailbox stops it from going on to the extra one.
SyncFails(w) ==
    /\ syncs[w].at # "none"
    /\ syncs' = [syncs EXCEPT ![w] = NoSync]
    /\ UNCHANGED <<clock, delivered, mailRows, watermark, first>>

\* ingestEmail: a person posts a message, with the time they give it.
IngestEmail(m, t) ==
    /\ ~mailRows[m].stored
    /\ mailRows' = [mailRows EXCEPT ![m] = [NoMailRow EXCEPT !.stored = TRUE, !.received = t]]
    /\ UNCHANGED <<clock, delivered, watermark, first, syncs>>

SyncStep(w) ==
    \/ ReadWatermark(w) \/ FetchPage(w) \/ AdvanceWatermark(w) \/ SyncFails(w)
    \/ \E m \in Messages : UpsertGraphEmail(w, m)

MailSyncNext ==
    \/ \E m \in Messages : Deliver(m) \/ \E t \in Times : IngestEmail(m, t)
    \/ TickMail
    \/ \E w \in Syncs : SyncStep(w)

MailSyncSpec == MailInit /\ [][MailSyncNext]_mailVars

-----------------------------------------------------------------------------

\* A message that reached a mailbox after its reading started, and before the
\* mailbox's watermark, is stored: no failure, redelivery or second sync makes
\* the intake step over a message, not even one that shares its time with the
\* newest message read (mail-sync.ts: a page is stored before the watermark
\* moves, and `ge` re-lists the newest time).
PassedMailIsStored ==
    \A b \in Mailboxes, m \in Messages :
        delivered[b][m] # Never /\ first[b] <= delivered[b][m] /\ delivered[b][m] < watermark[b]
            => mailRows[m].stored
=============================================================================
