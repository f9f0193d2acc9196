----------------------------- MODULE JobMachine -----------------------------
(***************************************************************************)
(* Where a job may move (src/src/jobStatusMachine.ts) and whether its money   *)
(* says so (src/src/jobTransitionGuard.ts).  Operators only: the job and the  *)
(* facts about its quotes and invoices are passed in.  Who may press the     *)
(* button is left out; every refusal of a move is kept.                      *)
(***************************************************************************)

Statuses == {"New", "Quote", "Awaiting Approval", "Work", "Tenant", "Done"}
Sides    == {"facilities", "accounts"}

\* Jobs.Status with Jobs.AwaitingRole.
States == [status : Statuses, side : Sides]
State(status, side) == [status |-> status, side |-> side]
NoState == [status |-> "none", side |-> "none"]

New        == State("New", "facilities")
Quoting    == State("Quote", "facilities")
QuoteDecision == State("Awaiting Approval", "facilities")
Working    == State("Work", "facilities")
InvoiceDecision == State("Awaiting Approval", "accounts")
Closed     == State("Done", "accounts")

Events == {"QUOTE_REQUESTED", "QUOTE_RECEIVED", "QUOTE_APPROVED", "PO_CREATED",
           "WORK_COMPLETED", "INVOICE_APPROVED", "INVOICE_PAID"}

\* TRANSITIONS: the edges a system event takes.
Edge(from, event, to) == [from |-> from, event |-> event, to |-> to]
Transitions ==
  { Edge(New, "QUOTE_REQUESTED", Quoting),
    Edge(New, "QUOTE_RECEIVED", QuoteDecision),
    Edge(Quoting, "QUOTE_RECEIVED", QuoteDecision),
    Edge(QuoteDecision, "QUOTE_APPROVED", Working),
    Edge(QuoteDecision, "PO_CREATED", Working),
    Edge(Working, "WORK_COMPLETED", InvoiceDecision),
    Edge(InvoiceDecision, "INVOICE_APPROVED", Closed),
    Edge(InvoiceDecision, "INVOICE_PAID", Closed) }

\* The state a system event moves a job to, or the state itself where it has no edge.
NextState(at, event) ==
  IF \E t \in Transitions : t.from = at /\ t.event = event
  THEN (CHOOSE t \in Transitions : t.from = at /\ t.event = event).to
  ELSE at

\* Leaving Tenant goes back to where the job was held.
UnblockTarget(held) ==
  IF held # NoState /\ held.status \notin {"Tenant", "Done"} THEN held ELSE Working

\* canTransition with resolveManualTarget: the states a person who picks the status
\* `target` may be sent to.  Empty where the pick is illegal.
ManualTargets(at, target, held, contract, internal) ==
  IF at.status = target \/ at.status = "Done" THEN {}
  ELSE IF target = "Tenant" THEN {State("Tenant", at.side)}
  ELSE IF at.status = "Tenant" /\ target = "Work" THEN {UnblockTarget(held)}
  ELSE IF contract /\ at = New /\ target = "Work" THEN {Working}
  ELSE IF internal /\ target = "Done" THEN {State("Done", at.side)}
  ELSE {t.to : t \in {e \in Transitions : e.from = at /\ e.to.status = target}}

\* The facts a manual move is decided on (GuardFacts).
Facts == [hasQuote : BOOLEAN, hasApprovedQuote : BOOLEAN, contract : BOOLEAN, internal : BOOLEAN,
          incoming : BOOLEAN, undecided : BOOLEAN, notInMyob : BOOLEAN]

\* Mutant: an approved quote, a contract or an internal job is not asked for.
GuardManualUnauthorised(to, f) ==
  /\ to = QuoteDecision => f.hasQuote
  /\ to.status = "Done" /\ ~f.internal => f.incoming /\ ~f.undecided /\ ~f.notInMyob

\* guardManual, once the machine has given a target.
GuardManual(to, f) ==
  /\ to = QuoteDecision => f.hasQuote
  /\ to.status = "Work" => f.hasApprovedQuote \/ f.contract \/ f.internal
  /\ to.status = "Done" /\ ~f.internal => f.incoming /\ ~f.undecided /\ ~f.notInMyob

\* guardReopen: where a done job lands.
ReopenTarget(internal) == IF internal THEN Working ELSE InvoiceDecision

\* flagChangeRefusal, and upsertJob's own rule that the contract flag moves only on a New job.
MayFlip(flag, status, hasMoneyRecords) ==
  ~hasMoneyRecords /\ (flag = "contract" => status = "New")
=============================================================================
