----------------------------- MODULE MoneyChain -----------------------------
(***************************************************************************)
(* One job and its money: quotes, purchase orders, invoices and payments     *)
(* (src/src/functions/quotes.ts, purchaseOrders.ts, invoices.ts, payments.ts), *)
(* and the job's own moves (jobs.ts, reopenJob.ts) that they allow or refuse.  *)
(*                                                                         *)
(* Every handler that runs in one SQL transaction under row locks is one     *)
(* action.  Sending a purchase order and previewing one are not: they read,  *)
(* call out and write in steps that interleave with everything else.         *)
(* A refused request changes nothing, so it is an action that is not enabled. *)
(***************************************************************************)
EXTENDS JobMachine, Integers, FiniteSets, FiniteSetsExt

CONSTANTS Quotes, POs, Invoices, Payments,  \* row ids; a deleted id is not used again
          Sends,       \* sendPurchaseOrder requests
          Amounts,     \* dollars
          Thresholds,  \* the director thresholds a decision may read
          None         \* no quote

ASSUME AmountsAssumption == Amounts \subseteq Nat \ {0} /\ Thresholds \subseteq Nat
ASSUME RowsAssumption == POs \cap Invoices = {} /\ None \notin Quotes \cup POs \cup Invoices \cup Payments
ASSUME PaymentsAssumption == IsFiniteSet(Payments)

VARIABLES
  job,        \* the Jobs row
  quotes, pos, invoices, payments,   \* the tables
  variances,  \* MoneyVariances: rises above the approved quote that were accepted
  sends,      \* sendPurchaseOrder requests in flight
  previews    \* the cost a preview in flight has rendered, 0 for none

vars == <<job, quotes, pos, invoices, payments, variances, sends, previews>>
flights == <<sends, previews>>

QuoteStatuses == {"pending", "awaiting_approval", "awaiting_director", "approved", "completed", "rejected"}
InvoiceStatuses == {"pending", "awaiting_approval", "approved", "director_approved", "rejected"}
NoRow == {"none", "deleted"}
SendSteps == {"idle", "read", "gated", "checked", "claimed", "mailed", "lost"}
NoCost == 0

\* The rows of each table.
Dollars == Amounts \cup {NoCost}
JobRow == [at : States, held : States \cup {NoState}, contract : BOOLEAN, internal : BOOLEAN,
           archived : BOOLEAN, approved : Quotes \cup {None}]
QuoteRow == [status : QuoteStatuses \cup NoRow, amount : Dollars, approvedAt : BOOLEAN]
PORow == [status : {"live"} \cup NoRow, cost : Dollars, pdf : Dollars,
          claimed : BOOLEAN, sent : BOOLEAN, myob : BOOLEAN, completed : BOOLEAN]
InvoiceRow == [status : InvoiceStatuses \cup NoRow, amount : Dollars, outgoing : BOOLEAN,
               approvedAt : BOOLEAN, required : BOOLEAN, directorAt : BOOLEAN, myob : BOOLEAN]
PaymentRow == [status : {"none", "pending", "paid"}, invoice : Invoices \cup {None},
               amount : Dollars, quote : Quotes \cup {None}]
VarianceRow == [quote : Quotes, subject : POs \cup Invoices, amount : Amounts]
SendRow == [step : SendSteps, po : POs \cup {None}, cost : Dollars]

TypeOK ==
  /\ job \in JobRow
  /\ quotes \in [Quotes -> QuoteRow]
  /\ pos \in [POs -> PORow]
  /\ invoices \in [Invoices -> InvoiceRow]
  /\ payments \in [Payments -> PaymentRow]
  /\ variances \subseteq VarianceRow
  /\ sends \in [Sends -> SendRow]
  /\ previews \in [POs -> Dollars]

\* One row written.
SetQuote(q, row) == quotes' = [quotes EXCEPT ![q] = row]
SetPO(p, row) == pos' = [pos EXCEPT ![p] = row]
SetInvoice(i, row) == invoices' = [invoices EXCEPT ![i] = row]
SetPayment(m, row) == payments' = [payments EXCEPT ![m] = row]
SetSend(s, row) == sends' = [sends EXCEPT ![s] = row]

(***************************************************************************)
(* The job, as the money rules read it.                                      *)
(***************************************************************************)

\* jobMoneyRefusal: internal jobs have no money, a done one only on-charge invoices.
TakesMoney(outgoing) ==
  /\ ~job.internal
  /\ job.at.status = "Done" => outgoing
  /\ ~job.archived

\* loadJobForMoney reads the quote's own status, not only the job's pointer to it.
HasApprovedQuote == job.approved # None /\ quotes[job.approved].status \in {"approved", "completed"}

\* purchaseOrderQuoteRefusal.
MayOrder == job.contract \/ HasApprovedQuote

\* advanceJobStatus: the event's edge, or no move.
Advance(j, event) == [j EXCEPT !.at = NextState(j.at, event)]

\* The threshold is an admin setting that changes at any time and is read per
\* decision (the role limits through a per-worker cache), so a decision takes any.
DirectorRequired(amount, threshold) == amount > threshold

\* approvalOutcome, short of a refusal.  Below the threshold it depends on the
\* caller's own limit, which is not modelled.
ApprovalOutcomes(amount, threshold) ==
  IF DirectorRequired(amount, threshold) THEN {"awaiting_director"} ELSE {"approved", "awaiting_approval"}

\* varianceDecision's "no_variance": no approved quote to measure against, within
\* it, or within a rise already accepted against that same quote for one of `subjects`.
Covered(amount, subjects) ==
  \/ job.approved = None
  \/ amount <= quotes[job.approved].amount
  \/ \E v \in variances : v.quote = job.approved /\ v.subject \in subjects /\ amount <= v.amount

\* recordVariance, for a rise that is accepted (the margin, or a director's override).
Accepted(amount, subject, subjects) ==
  IF Covered(amount, subjects) THEN variances
  ELSE variances \cup {[quote |-> job.approved, subject |-> subject, amount |-> amount]}

\* The payments recorded against an invoice.
PaymentsOf(i) == {m \in Payments : payments[m].status # "none" /\ payments[m].invoice = i}

\* Mutant: only what has been paid counts, not what is recorded to be.
PaidSoFarPaid(i, except) ==
  MapThenSumSet(LAMBDA m : payments[m].amount, {m \in PaymentsOf(i) \ {except} : payments[m].status = "paid"})
PaidSoFar(i, except) == MapThenSumSet(LAMBDA m : payments[m].amount, PaymentsOf(i) \ {except})

\* decideApprovalAmountEdit: was there an approval for the edit to invalidate?
WasApproved(row) ==
  row.approvedAt \/ row.status \in {"approved", "director_approved", "completed", "awaiting_director"}

-----------------------------------------------------------------------------
(***************************************************************************)
(* Quotes.                                                                   *)
(***************************************************************************)

NewQuote(amount) == [status |-> "pending", amount |-> amount, approvedAt |-> FALSE]

InsertQuote(q, amount) ==
  /\ quotes[q].status = "none"
  /\ TakesMoney(FALSE)
  /\ SetQuote(q, NewQuote(amount))
  /\ UNCHANGED <<pos, invoices, payments, variances, flights>>

CreateQuote(q, amount) == InsertQuote(q, amount) /\ job' = Advance(job, "QUOTE_RECEIVED")

\* A quote filed from an email does not move the job.
PromoteEmailToQuote(q, amount) == InsertQuote(q, amount) /\ UNCHANGED job

\* The job's pointer, cleared where it is this quote.
Unpoint(q) == [job EXCEPT !.approved = IF @ = q THEN None ELSE @]

\* A new amount or payee tears an approval down; other edits change nothing here.  (Here
\* and below, an edit to the amount the row has is one of its payee.)
EditQuote(q, amount) ==
  LET quote == quotes[q]
      cleared == WasApproved(quote)
  IN /\ quote.status \notin NoRow
     /\ TakesMoney(FALSE)
     /\ SetQuote(q, IF cleared THEN NewQuote(amount) ELSE [quote EXCEPT !.amount = amount])
     /\ job' = IF cleared THEN Unpoint(q) ELSE job
     /\ UNCHANGED <<pos, invoices, payments, variances, flights>>

\* The first approval.  Only a full one becomes the job's quote and starts the work.
ApproveQuote(q) == \E threshold \in Thresholds :
  \E outcome \in ApprovalOutcomes(quotes[q].amount, threshold) :
    /\ quotes[q].status \in {"pending", "awaiting_approval"}
    /\ TakesMoney(FALSE)
    /\ ~HasApprovedQuote
    /\ SetQuote(q, [quotes[q] EXCEPT !.status = outcome, !.approvedAt = TRUE])
    /\ job' = IF outcome = "approved" THEN Advance([job EXCEPT !.approved = q], "QUOTE_APPROVED") ELSE job
    /\ UNCHANGED <<pos, invoices, payments, variances, flights>>

\* Mutant: another quote may have been approved since.
DirectorApproveQuoteAnyway(q) ==
  /\ quotes[q].status = "awaiting_director"
  /\ TakesMoney(FALSE)
  /\ SetQuote(q, [quotes[q] EXCEPT !.status = "approved"])
  /\ job' = [job EXCEPT !.approved = q]
  /\ UNCHANGED <<pos, invoices, payments, variances, flights>>

\* approveDirectorQuote, from the app or from the director's reply by email.
DirectorApproveQuote(q) ==
  /\ quotes[q].status = "awaiting_director"
  /\ TakesMoney(FALSE)
  /\ ~HasApprovedQuote
  /\ SetQuote(q, [quotes[q] EXCEPT !.status = "approved"])
  /\ job' = [job EXCEPT !.approved = q]
  /\ UNCHANGED <<pos, invoices, payments, variances, flights>>

RejectQuote(q) ==
  /\ quotes[q].status \in {"pending", "awaiting_director"}
  /\ SetQuote(q, [quotes[q] EXCEPT !.status = "rejected"])
  /\ UNCHANGED <<job, pos, invoices, payments, variances, flights>>

UnapproveQuote(q) ==
  /\ quotes[q].status = "approved"
  /\ \A m \in Payments : payments[m].quote # q
  /\ SetQuote(q, [quotes[q] EXCEPT !.status = "pending", !.approvedAt = FALSE])
  /\ job' = Unpoint(q)
  /\ UNCHANGED <<pos, invoices, payments, variances, flights>>

CompleteQuote(q) ==
  /\ quotes[q].status = "approved"
  /\ SetQuote(q, [quotes[q] EXCEPT !.status = "completed"])
  /\ UNCHANGED <<job, pos, invoices, payments, variances, flights>>

UncompleteQuote(q) ==
  /\ quotes[q].status = "completed"
  /\ SetQuote(q, [quotes[q] EXCEPT !.status = "approved"])
  /\ UNCHANGED <<job, pos, invoices, payments, variances, flights>>

\* A payment's foreign key to the quote refuses the delete.
DeleteQuote(q) ==
  /\ quotes[q].status \notin NoRow \cup {"approved", "completed"}
  /\ \A m \in Payments : payments[m].quote # q
  /\ SetQuote(q, [status |-> "deleted", amount |-> NoCost, approvedAt |-> FALSE])
  /\ UNCHANGED <<job, pos, invoices, payments, variances, flights>>

-----------------------------------------------------------------------------
(***************************************************************************)
(* Purchase orders.                                                          *)
(***************************************************************************)

NewPO(cost) == [status |-> "live", cost |-> cost, pdf |-> NoCost,
                claimed |-> FALSE, sent |-> FALSE, myob |-> FALSE, completed |-> FALSE]
Live(p) == pos[p].status = "live"

\* Raised at any cost: the rise above the quote is checked on an edit and on the send.
CreatePO(p, cost) ==
  /\ pos[p].status = "none"
  /\ TakesMoney(FALSE)
  /\ MayOrder
  /\ SetPO(p, NewPO(cost))
  /\ job' = IF HasApprovedQuote THEN Advance(job, "PO_CREATED") ELSE job
  /\ UNCHANGED <<quotes, invoices, payments, variances, flights>>

\* decidePurchaseOrderEdit: a new cost or payee makes the sent and MYOB marks stale,
\* unless the order is completed.  The PDF and a send's claim are left alone.
EditPO(p, cost) ==
  LET po == pos[p]
      keeps == po.completed
  IN /\ Live(p)
     /\ TakesMoney(FALSE)
     /\ SetPO(p, [po EXCEPT !.cost = cost, !.sent = po.sent /\ keeps, !.myob = po.myob /\ keeps])
     /\ variances' = IF cost > po.cost THEN Accepted(cost, p, {p}) ELSE variances
     /\ UNCHANGED <<job, quotes, invoices, payments, flights>>

\* previewPurchaseOrder reads the order, renders it, and uploads the PDF over the last one.
PreviewReads(p) ==
  /\ Live(p)
  /\ previews[p] = NoCost
  /\ previews' = [previews EXCEPT ![p] = pos[p].cost]
  /\ UNCHANGED <<job, quotes, pos, invoices, payments, variances, sends>>

PreviewUploads(p) ==
  /\ previews[p] # NoCost
  /\ IF Live(p) THEN SetPO(p, [pos[p] EXCEPT !.pdf = previews[p]]) ELSE UNCHANGED pos
  /\ previews' = [previews EXCEPT ![p] = NoCost]
  /\ UNCHANGED <<job, quotes, invoices, payments, variances, sends>>

PreviewFails(p) ==
  /\ previews[p] # NoCost
  /\ previews' = [previews EXCEPT ![p] = NoCost]
  /\ UNCHANGED <<job, quotes, pos, invoices, payments, variances, sends>>

\* An order that went out or is completed stays.  A send's claim does not stop the delete.
DeletePO(p) ==
  /\ Live(p)
  /\ ~pos[p].sent /\ ~pos[p].completed
  /\ SetPO(p, [NewPO(NoCost) EXCEPT !.status = "deleted"])
  /\ UNCHANGED <<job, quotes, invoices, payments, variances, flights>>

MarkPOMyob(p) ==
  /\ Live(p)
  /\ SetPO(p, [pos[p] EXCEPT !.myob = TRUE])
  /\ UNCHANGED <<job, quotes, invoices, payments, variances, flights>>

UnmarkPOMyob(p) ==
  /\ Live(p)
  /\ ~pos[p].completed
  /\ SetPO(p, [pos[p] EXCEPT !.myob = FALSE])
  /\ UNCHANGED <<job, quotes, invoices, payments, variances, flights>>

CompletePO(p) ==
  /\ Live(p)
  /\ pos[p].myob
  /\ SetPO(p, [pos[p] EXCEPT !.completed = TRUE])
  /\ job' = Advance(job, "WORK_COMPLETED")
  /\ UNCHANGED <<quotes, invoices, payments, variances, flights>>

UncompletePO(p) ==
  /\ Live(p)
  /\ SetPO(p, [pos[p] EXCEPT !.completed = FALSE])
  /\ UNCHANGED <<job, quotes, invoices, payments, variances, flights>>

(***************************************************************************)
(* sendPurchaseOrder, step by step.  Nothing is locked between the steps.     *)
(***************************************************************************)

SendAt(s, step) == sends[s].step = step
SendGoesTo(s, step) == SetSend(s, [sends[s] EXCEPT !.step = step])
Resting == [step |-> "idle", po |-> None, cost |-> NoCost]
SendRests(s) == SetSend(s, Resting)

\* The order as it is read: it has a PDF and no send holds it.
SendReads(s, p) ==
  /\ SendAt(s, "idle")
  /\ Live(p)
  /\ pos[p].pdf # NoCost
  /\ ~pos[p].claimed
  /\ SetSend(s, [step |-> "read", po |-> p, cost |-> pos[p].cost])
  /\ UNCHANGED <<job, quotes, pos, invoices, payments, variances, previews>>

SendGate(s) ==
  /\ SendAt(s, "read")
  /\ TakesMoney(FALSE)
  /\ MayOrder
  /\ SendGoesTo(s, "gated")
  /\ UNCHANGED <<job, quotes, pos, invoices, payments, variances, previews>>

\* checkVariance on the cost that was read; an accepted rise is recorded before the mail.
SendChecks(s) ==
  /\ SendAt(s, "gated")
  /\ variances' = Accepted(sends[s].cost, sends[s].po, {sends[s].po})
  /\ SendGoesTo(s, "checked")
  /\ UNCHANGED <<job, quotes, pos, invoices, payments, previews>>

\* Mutant: the claim was looked at when the order was read, so it is just taken.
SendClaimsBlindly(s) ==
  /\ SendAt(s, "checked")
  /\ Live(sends[s].po)
  /\ SetPO(sends[s].po, [pos[sends[s].po] EXCEPT !.claimed = TRUE])
  /\ SendGoesTo(s, "claimed")
  /\ UNCHANGED <<job, quotes, invoices, payments, variances, previews>>

SendClaims(s) ==
  /\ SendAt(s, "checked")
  /\ Live(sends[s].po)
  /\ ~pos[sends[s].po].claimed
  /\ SetPO(sends[s].po, [pos[sends[s].po] EXCEPT !.claimed = TRUE])
  /\ SendGoesTo(s, "claimed")
  /\ UNCHANGED <<job, quotes, invoices, payments, variances, previews>>

\* A refusal, an error or a lost worker before the claim.
SendStops(s) ==
  /\ sends[s].step \in {"read", "gated", "checked"}
  /\ SendRests(s)
  /\ UNCHANGED <<job, quotes, pos, invoices, payments, variances, previews>>

\* The mail goes out with the PDF that is stored now.
SendMails(s) ==
  /\ SendAt(s, "claimed")
  /\ SendGoesTo(s, "mailed")
  /\ UNCHANGED <<job, quotes, pos, invoices, payments, variances, previews>>

\* Graph or the download fails: the claim is given back, unless that write fails too
\* (or the worker is gone), and then nothing in the code ever clears it.
SendMailFails(s) ==
  /\ SendAt(s, "claimed")
  /\ \/ Live(sends[s].po) /\ SetPO(sends[s].po, [pos[sends[s].po] EXCEPT !.claimed = FALSE])
     \/ UNCHANGED pos
  /\ SendRests(s)
  /\ UNCHANGED <<job, quotes, invoices, payments, variances, previews>>

\* The stamp and the release in one transaction; an order deleted meanwhile has no row to stamp.
SendRecords(s) ==
  /\ SendAt(s, "mailed")
  /\ IF Live(sends[s].po)
     THEN SetPO(sends[s].po, [pos[sends[s].po] EXCEPT !.claimed = FALSE, !.sent = TRUE])
     ELSE UNCHANGED pos
  /\ SendRests(s)
  /\ UNCHANGED <<job, quotes, invoices, payments, variances, previews>>

\* The mail is out and that is recorded nowhere: the request is over, the claim stays.
SendIsLost(s) ==
  /\ SendAt(s, "mailed")
  /\ SendGoesTo(s, "lost")
  /\ UNCHANGED <<job, quotes, pos, invoices, payments, variances, previews>>

-----------------------------------------------------------------------------
(***************************************************************************)
(* Invoices: incoming (the contractor's) or outgoing (on-charged).           *)
(***************************************************************************)

NewInvoice(amount, outgoing) ==
  [status |-> "pending", amount |-> amount, outgoing |-> outgoing,
   approvedAt |-> FALSE, required |-> FALSE, directorAt |-> FALSE, myob |-> FALSE]

CreateInvoice(i, amount, outgoing) ==
  /\ invoices[i].status = "none"
  /\ TakesMoney(outgoing)
  /\ SetInvoice(i, NewInvoice(amount, outgoing))
  /\ UNCHANGED <<job, quotes, pos, payments, variances, flights>>

\* promoteEmailToInvoice: always the contractor's.
PromoteEmailToInvoice(i, amount) == CreateInvoice(i, amount, FALSE)

\* A new amount or payee is refused once anything is paid, and tears an approval down.
\* A new direction alone does neither.
EditInvoice(i, amount, payee, outgoing) ==
  LET invoice == invoices[i]
      changed == amount # invoice.amount \/ payee
  IN /\ invoice.status \notin NoRow
     /\ TakesMoney(invoice.outgoing /\ outgoing)
     /\ changed \/ outgoing # invoice.outgoing
     /\ changed => PaymentsOf(i) = {}
     /\ SetInvoice(i, IF changed /\ WasApproved(invoice) THEN NewInvoice(amount, outgoing)
                      ELSE [invoice EXCEPT !.amount = amount, !.outgoing = outgoing])
     /\ UNCHANGED <<job, quotes, pos, payments, variances, flights>>

\* The first approval.  A contractor's invoice above the quote needs the rise accepted;
\* that is recorded once the invoice is approved, not while it waits for someone senior.
\* The director gate is stamped on the row, so a later threshold does not lift it.
ApproveInvoice(i) == \E threshold \in Thresholds :
  LET invoice == invoices[i]
  IN \E outcome \in ApprovalOutcomes(invoice.amount, threshold) :
       LET status == IF outcome = "awaiting_approval" THEN outcome ELSE "approved"
       IN /\ invoice.status \in {"pending", "awaiting_approval"}
          /\ TakesMoney(invoice.outgoing)
          /\ SetInvoice(i, [invoice EXCEPT !.status = status, !.approvedAt = TRUE,
                                           !.required = (outcome = "awaiting_director")])
          /\ variances' = IF status = "approved" /\ ~invoice.outgoing
                          THEN Accepted(invoice.amount, i, POs \cup Invoices) ELSE variances
          /\ UNCHANGED <<job, quotes, pos, payments, flights>>

DirectorApproveInvoice(i) ==
  /\ invoices[i].status = "approved"
  /\ TakesMoney(invoices[i].outgoing)
  /\ SetInvoice(i, [invoices[i] EXCEPT !.status = "director_approved", !.directorAt = TRUE])
  /\ UNCHANGED <<job, quotes, pos, payments, variances, flights>>

\* Mutant: the payments are not looked at.
UndoDirectorApproveUnpaid(i) ==
  /\ invoices[i].status = "director_approved"
  /\ ~invoices[i].myob
  /\ SetInvoice(i, [invoices[i] EXCEPT !.status = "approved", !.directorAt = FALSE, !.required = TRUE])
  /\ UNCHANGED <<job, quotes, pos, payments, variances, flights>>

\* Back to the first approval, which now certainly needs the director.
UndoDirectorApprove(i) ==
  /\ invoices[i].status = "director_approved"
  /\ ~invoices[i].myob
  /\ PaymentsOf(i) = {}
  /\ SetInvoice(i, [invoices[i] EXCEPT !.status = "approved", !.directorAt = FALSE, !.required = TRUE])
  /\ UNCHANGED <<job, quotes, pos, payments, variances, flights>>

RejectInvoice(i) ==
  /\ invoices[i].status \notin NoRow \cup {"director_approved", "rejected"}
  /\ ~invoices[i].myob
  /\ PaymentsOf(i) = {}
  /\ SetInvoice(i, [invoices[i] EXCEPT !.status = "rejected", !.required = FALSE])
  /\ UNCHANGED <<job, quotes, pos, payments, variances, flights>>

\* Mutant: the gate goes by today's threshold alone.
MarkInvoiceMyobToday(i) == \E threshold \in Thresholds :
  /\ \/ invoices[i].status = "director_approved"
     \/ invoices[i].status = "approved" /\ ~DirectorRequired(invoices[i].amount, threshold)
  /\ SetInvoice(i, [invoices[i] EXCEPT !.myob = TRUE])
  /\ UNCHANGED <<job, quotes, pos, payments, variances, flights>>

\* The director's approval, or the first one where no director was or is needed.
MarkInvoiceMyob(i) == \E threshold \in Thresholds :
  LET invoice == invoices[i]
      directorWasRequired == DirectorRequired(invoice.amount, threshold) \/ invoice.required
  IN /\ \/ invoice.status = "director_approved"
        \/ invoice.status = "approved" /\ ~directorWasRequired
     /\ SetInvoice(i, [invoices[i] EXCEPT !.myob = TRUE])
     /\ UNCHANGED <<job, quotes, pos, payments, variances, flights>>

UnmarkInvoiceMyob(i) ==
  /\ invoices[i].status \notin NoRow
  /\ SetInvoice(i, [invoices[i] EXCEPT !.myob = FALSE])
  /\ UNCHANGED <<job, quotes, pos, payments, variances, flights>>

DeleteInvoice(i) ==
  /\ invoices[i].status \notin NoRow \cup {"approved", "director_approved"}
  /\ ~invoices[i].myob
  /\ PaymentsOf(i) = {}
  /\ SetInvoice(i, [NewInvoice(NoCost, FALSE) EXCEPT !.status = "deleted"])
  /\ UNCHANGED <<job, quotes, pos, payments, variances, flights>>

-----------------------------------------------------------------------------
(***************************************************************************)
(* Payments.                                                                 *)
(***************************************************************************)

\* paymentInvoiceRefusal: an approved incoming invoice, by the director where one is
\* needed, with that much still unpaid net of the other payments.
MayPay(i, amount, m) == \E threshold \in Thresholds :
  /\ ~invoices[i].outgoing
  /\ invoices[i].status \in {"approved", "director_approved"}
  /\ DirectorRequired(invoices[i].amount, threshold) \/ invoices[i].required => invoices[i].directorAt
  /\ amount <= invoices[i].amount - PaidSoFar(i, m)

\* The quote a payment names is the caller's choice.
CreatePayment(m, i, amount, q) ==
  /\ payments[m].status = "none"
  /\ q # None => quotes[q].status \notin NoRow
  /\ MayPay(i, amount, m)
  /\ SetPayment(m, [status |-> "pending", invoice |-> i, amount |-> amount, quote |-> q])
  /\ UNCHANGED <<job, quotes, pos, invoices, variances, flights>>

EditPayment(m, amount) ==
  /\ payments[m].status = "pending"
  /\ amount # payments[m].amount
  /\ MayPay(payments[m].invoice, amount, m)
  /\ SetPayment(m, [payments[m] EXCEPT !.amount = amount])
  /\ UNCHANGED <<job, quotes, pos, invoices, variances, flights>>

MarkPaymentPaid(m) ==
  /\ payments[m].status = "pending"
  /\ MayPay(payments[m].invoice, payments[m].amount, m)
  /\ SetPayment(m, [payments[m] EXCEPT !.status = "paid"])
  /\ UNCHANGED <<job, quotes, pos, invoices, variances, flights>>

-----------------------------------------------------------------------------
(***************************************************************************)
(* The job's own moves.                                                      *)
(***************************************************************************)

\* summariseInvoices: the gate by amount alone, not by what was stamped at approval.
FullyApproved(invoice, threshold) ==
  \/ invoice.status = "director_approved"
  \/ invoice.status = "approved" /\ ~DirectorRequired(invoice.amount, threshold)

Standing == {i \in Invoices : invoices[i].status \notin NoRow \cup {"rejected"}}
Incoming == {i \in Standing : ~invoices[i].outgoing}

\* loadJobForTransition.
FactsAt(threshold) ==
  [hasQuote |-> \E q \in Quotes : quotes[q].status \notin NoRow \cup {"rejected"},
   hasApprovedQuote |-> HasApprovedQuote,
   contract |-> job.contract,
   internal |-> job.internal,
   incoming |-> Incoming # {},
   undecided |-> \E i \in Incoming : ~FullyApproved(invoices[i], threshold),
   notInMyob |-> \E i \in Standing : FullyApproved(invoices[i], threshold) /\ ~invoices[i].myob]

\* addJobEvent with a status: the machine's target, if the guard lets the job there.
MoveJob(target) == \E threshold \in Thresholds :
  \E to \in ManualTargets(job.at, target, job.held, job.contract, job.internal) :
    /\ GuardManual(to, FactsAt(threshold))
    /\ job' = [job EXCEPT !.at = to,
                          !.held = CASE to.status = "Tenant" -> job.at
                                     [] job.at.status = "Tenant" -> NoState
                                     [] OTHER -> @]
    /\ UNCHANGED <<quotes, pos, invoices, payments, variances, flights>>

ReopenJob ==
  /\ job.at.status = "Done"
  /\ job' = [job EXCEPT !.at = ReopenTarget(job.internal)]
  /\ UNCHANGED <<quotes, pos, invoices, payments, variances, flights>>

HasMoneyRecords ==
  \/ \E q \in Quotes : quotes[q].status \notin NoRow
  \/ \E p \in POs : Live(p)
  \/ \E i \in Invoices : invoices[i].status \notin NoRow

\* upsertJob, for the two flags that decide the money path.
FlipFlag(flag) ==
  /\ MayFlip(flag, job.at.status, HasMoneyRecords)
  /\ job' = IF flag = "contract" THEN [job EXCEPT !.contract = ~@] ELSE [job EXCEPT !.internal = ~@]
  /\ UNCHANGED <<quotes, pos, invoices, payments, variances, flights>>

ArchiveJob ==
  /\ ~job.archived
  /\ job' = [job EXCEPT !.archived = TRUE]
  /\ UNCHANGED <<quotes, pos, invoices, payments, variances, flights>>

UnarchiveJob ==
  /\ job.archived
  /\ job' = [job EXCEPT !.archived = FALSE]
  /\ UNCHANGED <<quotes, pos, invoices, payments, variances, flights>>

\* addJobRequestedContractor, for the job's first contractor.
RequestContractor ==
  /\ job' = Advance(job, "QUOTE_REQUESTED")
  /\ UNCHANGED <<quotes, pos, invoices, payments, variances, flights>>

\* promoteEmailToJobUpdate: the contractor writes that the work is done.
PromoteEmailToJobUpdate ==
  /\ job.at # NextState(job.at, "WORK_COMPLETED")
  /\ job' = Advance(job, "WORK_COMPLETED")
  /\ UNCHANGED <<quotes, pos, invoices, payments, variances, flights>>

-----------------------------------------------------------------------------
\* upsertJob: a job starts New, with facilities, its flags the manager's choice.
Init ==
  /\ job \in {[at |-> New, held |-> NoState, contract |-> contract, internal |-> internal,
              archived |-> FALSE, approved |-> None] : contract \in BOOLEAN, internal \in BOOLEAN}
  /\ quotes = [q \in Quotes |-> [status |-> "none", amount |-> NoCost, approvedAt |-> FALSE]]
  /\ pos = [p \in POs |-> [NewPO(NoCost) EXCEPT !.status = "none"]]
  /\ invoices = [i \in Invoices |-> [NewInvoice(NoCost, FALSE) EXCEPT !.status = "none"]]
  /\ payments = [m \in Payments |-> [status |-> "none", invoice |-> None, amount |-> NoCost, quote |-> None]]
  /\ variances = {}
  /\ sends = [s \in Sends |-> Resting]
  /\ previews = [p \in POs |-> NoCost]

QuoteStep(q) ==
  \/ \E amount \in Amounts : CreateQuote(q, amount) \/ PromoteEmailToQuote(q, amount) \/ EditQuote(q, amount)
  \/ ApproveQuote(q) \/ DirectorApproveQuote(q) \/ RejectQuote(q) \/ UnapproveQuote(q)
  \/ CompleteQuote(q) \/ UncompleteQuote(q) \/ DeleteQuote(q)

POStep(p) ==
  \/ \E cost \in Amounts : CreatePO(p, cost) \/ EditPO(p, cost)
  \/ PreviewReads(p) \/ PreviewUploads(p) \/ PreviewFails(p)
  \/ DeletePO(p) \/ MarkPOMyob(p) \/ UnmarkPOMyob(p) \/ CompletePO(p) \/ UncompletePO(p)

SendStep(s) ==
  \/ \E p \in POs : SendReads(s, p)
  \/ SendGate(s) \/ SendChecks(s) \/ SendClaims(s) \/ SendStops(s)
  \/ SendMails(s) \/ SendMailFails(s) \/ SendRecords(s) \/ SendIsLost(s)

InvoiceStep(i) ==
  \/ \E amount \in Amounts, outgoing \in BOOLEAN : CreateInvoice(i, amount, outgoing)
  \/ \E amount \in Amounts : PromoteEmailToInvoice(i, amount)
  \/ \E amount \in Amounts, payee, outgoing \in BOOLEAN : EditInvoice(i, amount, payee, outgoing)
  \/ ApproveInvoice(i) \/ DirectorApproveInvoice(i) \/ UndoDirectorApprove(i) \/ RejectInvoice(i)
  \/ MarkInvoiceMyob(i) \/ UnmarkInvoiceMyob(i) \/ DeleteInvoice(i)

PaymentStep(m) ==
  \/ \E i \in Invoices, amount \in Amounts, q \in Quotes \cup {None} : CreatePayment(m, i, amount, q)
  \/ \E amount \in Amounts : EditPayment(m, amount)
  \/ MarkPaymentPaid(m)

JobStep ==
  \/ \E target \in Statuses : MoveJob(target)
  \/ \E flag \in {"contract", "internal"} : FlipFlag(flag)
  \/ ReopenJob \/ ArchiveJob \/ UnarchiveJob \/ RequestContractor \/ PromoteEmailToJobUpdate

Next ==
  \/ \E q \in Quotes : QuoteStep(q)
  \/ \E p \in POs : POStep(p)
  \/ \E s \in Sends : SendStep(s)
  \/ \E i \in Invoices : InvoiceStep(i)
  \/ \E m \in Payments : PaymentStep(m)
  \/ JobStep

Spec == Init /\ [][Next]_vars

-----------------------------------------------------------------------------
(***************************************************************************)
(* Properties.                                                               *)
(***************************************************************************)

\* The job points at a quote exactly while that quote is approved or completed, so there
\* is never a second one: not with a quote waiting for the director while another is
\* approved, not with an approval torn down by an edit.
ApprovedQuoteIsOne ==
  \A q \in Quotes : job.approved = q <=> quotes[q].status \in {"approved", "completed"}

\* An order that Graph took stays claimed until that is recorded, and one send at a time is
\* past the claim: the order cannot be mailed again meanwhile.
HeldUntilRecorded ==
  /\ \A s \in Sends : sends[s].step \in {"claimed", "mailed", "lost"} /\ Live(sends[s].po) => pos[sends[s].po].claimed
  /\ \A s, t \in Sends : /\ s # t /\ sends[s].po = sends[t].po
                         /\ sends[s].step \in {"claimed", "mailed", "lost"}
                         => sends[t].step \notin {"claimed", "mailed", "lost"}

\* A completed order is in MYOB, whatever edits and marks came between.
CompletedIsInMyob == \A p \in POs : pos[p].completed => pos[p].myob

\* Work starts with an approved quote, under a contract, or on an internal job; no event,
\* hold or reopening gets a job there otherwise.
WorkOnlyWhenAuthorised ==
  [][job'.at.status = "Work" /\ job.at.status # "Work"
       => HasApprovedQuote' \/ job'.contract \/ job'.internal]_vars

\* An internal job has no money on it.
InternalHasNoMoney ==
  job.internal => ~HasMoneyRecords /\ \A m \in Payments : payments[m].status = "none"

\* An invoice in MYOB is approved still, by the director where one was asked for.
MyobMeansApproved ==
  \A i \in Invoices : invoices[i].myob =>
    /\ invoices[i].status \in {"approved", "director_approved"}
    /\ invoices[i].required => invoices[i].status = "director_approved"

\* A payment, recorded or made, rests on an approval that still stands, by the director
\* where one was asked for.
PaymentsRestOnApproval ==
  \A m \in Payments : payments[m].status # "none" =>
    LET invoice == invoices[payments[m].invoice]
    IN /\ invoice.status \in {"approved", "director_approved"}
       /\ invoice.required => invoice.directorAt

\* The payments of an invoice, recorded or made, never add up to more than the invoice.
NeverOverpaid ==
  \A i \in Invoices : MapThenSumSet(LAMBDA m : payments[m].amount, PaymentsOf(i)) <= invoices[i].amount

\* A job is done with at least one contractor's invoice, and every one that stands is
\* approved, by the director where one was asked for, and in MYOB.  The guard goes by the
\* threshold of the moment, not by the one the invoice was approved under.
DoneOnlyWhenSettled ==
  [][job'.at.status = "Done" /\ job.at.status # "Done" /\ ~job.internal
       => /\ Incoming # {}
          /\ \A i \in Incoming : /\ invoices[i].myob
                                 /\ invoices[i].status \in {"approved", "director_approved"}
                                 /\ invoices[i].required => invoices[i].directorAt]_vars

=============================================================================
