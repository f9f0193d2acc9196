------------------------- MODULE MoneyChain_proofs -------------------------
(***************************************************************************)
(* What MoneyChain guarantees for any sets of quotes, orders, invoices,      *)
(* payments and sends, any amounts and any thresholds.                       *)
(*                                                                         *)
(* One lemma per table says what a write of a row leaves of its type; one    *)
(* per property says that every step keeps it; Inv puts them together. What    *)
(* is paid of an invoice is a sum: the last section, by the lemmas of Sums.   *)
(***************************************************************************)
EXTENDS MoneyChain, Sums

\* A send that is under way is of some order.
SendsHaveOrders ==
  \A s \in Sends : sends[s].step # "idle" => sends[s].po \in POs /\ pos[sends[s].po].status # "none"

\* A payment is of some invoice.
PaymentsHaveInvoices == \A m \in Payments : payments[m].status # "none" => payments[m].invoice \in Invoices

\* The director's approval is on record where the status says so.
DirectorOnRecord == \A i \in Invoices : invoices[i].status = "director_approved" => invoices[i].directorAt

\* The inductive invariant: the properties and what they rest on.
Inv ==
  /\ TypeOK /\ SendsHaveOrders /\ PaymentsHaveInvoices /\ DirectorOnRecord
  /\ ApprovedQuoteIsOne /\ HeldUntilRecorded /\ CompletedIsInMyob
  /\ MyobMeansApproved /\ PaymentsRestOnApproval /\ InternalHasNoMoney

\* Dollars are counted in naturals.
LEMMA DollarsCount == \A d \in Dollars : d \in Nat
<1>1. \A d \in Amounts : d \in Nat
  BY AmountsAssumption
<1>2. NoCost \in Nat
  BY DEF NoCost
<1> QED
  BY <1>1, <1>2 DEF Dollars

\* The named states are states of a job.
LEMMA StatesAre ==
  /\ New \in States /\ Quoting \in States /\ QuoteDecision \in States
  /\ Working \in States /\ InvoiceDecision \in States /\ Closed \in States
  BY DEF New, Quoting, QuoteDecision, Working, InvoiceDecision, Closed, State, States, Statuses, Sides

\* Where each event that a handler raises can take a job.
LEMMA Moves ==
  ASSUME NEW at
  PROVE  /\ NextState(at, "QUOTE_REQUESTED") \in {at, Quoting}
         /\ NextState(at, "QUOTE_RECEIVED") \in {at, QuoteDecision}
         /\ NextState(at, "QUOTE_APPROVED") \in {at, Working}
         /\ NextState(at, "PO_CREATED") \in {at, Working}
         /\ NextState(at, "WORK_COMPLETED") \in {at, InvoiceDecision}
<1> DEFINE to(event) == CHOOSE t \in Transitions : t.from = at /\ t.event = event
<1>1. ASSUME NEW event, \E t \in Transitions : t.from = at /\ t.event = event
      PROVE  to(event) \in Transitions /\ to(event).event = event
  BY <1>1
<1>2. ASSUME NEW t \in Transitions
      PROVE  /\ t.event = "QUOTE_REQUESTED" => t.to = Quoting
             /\ t.event = "QUOTE_RECEIVED" => t.to = QuoteDecision
             /\ t.event = "QUOTE_APPROVED" => t.to = Working
             /\ t.event = "PO_CREATED" => t.to = Working
             /\ t.event = "WORK_COMPLETED" => t.to = InvoiceDecision
  BY <1>2 DEF Transitions, Edge
<1>3. QED
  BY <1>1, <1>2 DEF NextState

\* advanceJobStatus leads from a state to a state.
LEMMA AdvanceTypes ==
  ASSUME NEW at \in States
  PROVE  /\ NextState(at, "QUOTE_REQUESTED") \in States
         /\ NextState(at, "QUOTE_RECEIVED") \in States
         /\ NextState(at, "QUOTE_APPROVED") \in States
         /\ NextState(at, "PO_CREATED") \in States
         /\ NextState(at, "WORK_COMPLETED") \in States
  BY Moves, StatesAre


\* What each write of the job's row leaves.
LEMMA JobRows ==
  ASSUME NEW j \in JobRow
  PROVE  /\ j.at \in States /\ j.held \in States \cup {NoState} /\ j.approved \in Quotes \cup {None}
         /\ \A at \in States : [j EXCEPT !.at = at] \in JobRow
         /\ \A at \in States, held \in States \cup {NoState} : [j EXCEPT !.at = at, !.held = held] \in JobRow
         /\ \A q \in Quotes \cup {None} : [j EXCEPT !.approved = q] \in JobRow
         /\ \A b \in BOOLEAN : [j EXCEPT !.archived = b] \in JobRow
         /\ \A b \in BOOLEAN : [j EXCEPT !.contract = b] \in JobRow
         /\ \A b \in BOOLEAN : [j EXCEPT !.internal = b] \in JobRow
  BY DEF JobRow

\* An event leaves a job's row a job's row.
LEMMA Advances ==
  ASSUME NEW j \in JobRow, NEW event \in {"QUOTE_REQUESTED", "QUOTE_RECEIVED", "QUOTE_APPROVED", "PO_CREATED", "WORK_COMPLETED"}
  PROVE  Advance(j, event) \in JobRow
  BY JobRows, AdvanceTypes DEF Advance

\* What each write of a quote's row leaves.
LEMMA QuoteRows ==
  /\ \A a \in Amounts : NewQuote(a) \in QuoteRow
  /\ \A r \in QuoteRow : \A a \in Amounts : [r EXCEPT !.amount = a] \in QuoteRow
  /\ \A r \in QuoteRow : \A st \in QuoteStatuses : [r EXCEPT !.status = st] \in QuoteRow
  /\ \A r \in QuoteRow : \A st \in QuoteStatuses, b \in BOOLEAN : [r EXCEPT !.status = st, !.approvedAt = b] \in QuoteRow
  /\ [status |-> "deleted", amount |-> NoCost, approvedAt |-> FALSE] \in QuoteRow
  BY DEF QuoteRow, NewQuote, QuoteStatuses, NoRow, Dollars

\* A step that writes one quote and the job keeps the types.
LEMMA QuoteWritten ==
  ASSUME TypeOK, NEW q \in Quotes, NEW row \in QuoteRow, SetQuote(q, row), job' \in JobRow,
         UNCHANGED <<pos, invoices, payments, variances, flights>>
  PROVE  TypeOK'
  BY DEF TypeOK, SetQuote, flights

\* The quote handlers keep the types.
LEMMA QuoteTypes == ASSUME TypeOK, NEW q \in Quotes, QuoteStep(q) PROVE TypeOK'
<1> USE QuoteRows, JobRows
<1>0. quotes[q] \in QuoteRow /\ job \in JobRow
  BY DEF TypeOK
<1>1. ASSUME NEW amount \in Amounts, InsertQuote(q, amount), job' \in JobRow PROVE TypeOK'
  BY <1>1, QuoteWritten DEF InsertQuote
<1>2. ASSUME NEW amount \in Amounts, CreateQuote(q, amount) PROVE TypeOK'
  BY <1>0, <1>1, <1>2, Advances DEF CreateQuote
<1>3. ASSUME NEW amount \in Amounts, PromoteEmailToQuote(q, amount) PROVE TypeOK'
  BY <1>0, <1>1, <1>3 DEF PromoteEmailToQuote
<1>4. ASSUME NEW amount \in Amounts, EditQuote(q, amount) PROVE TypeOK'
  BY <1>0, <1>4, QuoteWritten DEF EditQuote, Unpoint
<1>5. ASSUME ApproveQuote(q) PROVE TypeOK'
  BY <1>0, <1>5, QuoteWritten, Advances DEF ApproveQuote, ApprovalOutcomes, QuoteStatuses
<1>6. ASSUME DirectorApproveQuote(q) PROVE TypeOK'
  BY <1>0, <1>6, QuoteWritten DEF DirectorApproveQuote, QuoteStatuses
<1>7. ASSUME RejectQuote(q) \/ CompleteQuote(q) \/ UncompleteQuote(q) \/ DeleteQuote(q) PROVE TypeOK'
  BY <1>0, <1>7, QuoteWritten DEF RejectQuote, CompleteQuote, UncompleteQuote, DeleteQuote, QuoteStatuses
<1>8. ASSUME UnapproveQuote(q) PROVE TypeOK'
  BY <1>0, <1>8, QuoteWritten DEF UnapproveQuote, Unpoint, QuoteStatuses
<1> QED
  BY <1>2, <1>3, <1>4, <1>5, <1>6, <1>7, <1>8 DEF QuoteStep

\* What each write of an order's row leaves.
LEMMA PORows ==
  /\ \A c \in Amounts : NewPO(c) \in PORow
  /\ [NewPO(NoCost) EXCEPT !.status = "deleted"] \in PORow
  /\ [NewPO(NoCost) EXCEPT !.status = "none"] \in PORow
  /\ \A r \in PORow : \A c \in Amounts, b1, b2 \in BOOLEAN :
       [r EXCEPT !.cost = c, !.sent = b1, !.myob = b2] \in PORow
  /\ \A r \in PORow : \A c \in Dollars : [r EXCEPT !.pdf = c] \in PORow
  /\ \A r \in PORow : \A b \in BOOLEAN : [r EXCEPT !.myob = b] \in PORow
  /\ \A r \in PORow : \A b \in BOOLEAN : [r EXCEPT !.completed = b] \in PORow
  /\ \A r \in PORow : \A b \in BOOLEAN : [r EXCEPT !.claimed = b] \in PORow
  /\ \A r \in PORow : [r EXCEPT !.claimed = FALSE, !.sent = TRUE] \in PORow
  /\ \A r \in PORow : r.cost \in Dollars /\ r.sent \in BOOLEAN /\ r.myob \in BOOLEAN /\ r.completed \in BOOLEAN
  BY DEF PORow, NewPO, NoRow, Dollars

\* One order written.
LEMMA POTable ==
  ASSUME pos \in [POs -> PORow], NEW p \in POs, NEW row \in PORow, SetPO(p, row)
  PROVE  pos' \in [POs -> PORow]
  BY DEF SetPO

\* A step that writes one order, the job and the accepted rises keeps the types.
LEMMA POWritten ==
  ASSUME TypeOK, NEW p \in POs, NEW row \in PORow, SetPO(p, row), job' \in JobRow,
         variances' \subseteq VarianceRow, UNCHANGED <<quotes, invoices, payments, flights>>
  PROVE  TypeOK'
  BY DEF TypeOK, SetPO, flights

\* recordVariance: a rise that is recorded is a real amount above a real quote.
LEMMA RiseTypes ==
  ASSUME TypeOK, NEW amount \in Dollars, NEW subject \in POs \cup Invoices, NEW subjects
  PROVE  Accepted(amount, subject, subjects) \subseteq VarianceRow
<1>1. CASE Covered(amount, subjects)
  BY <1>1 DEF Accepted, TypeOK
<1>2. CASE ~Covered(amount, subjects)
  <2>1. job.approved \in Quotes
    BY <1>2 DEF Covered, TypeOK, JobRow
  <2>2. amount \in Amounts
    <3>1. quotes[job.approved].amount \in Nat
      <4>1. quotes[job.approved] \in QuoteRow
        BY <2>1 DEF TypeOK
      <4>2. quotes[job.approved].amount \in Dollars
        BY <4>1 DEF QuoteRow
      <4> QED
        BY <4>2, DollarsCount
    <3>2. amount # NoCost
      BY <1>2, <3>1 DEF Covered, NoCost
    <3> QED
      BY <3>2 DEF Dollars
  <2> QED
    BY <1>2, <2>1, <2>2 DEF Accepted, VarianceRow, TypeOK
<1> QED BY <1>1, <1>2

\* The purchase order handlers and the preview keep the types.
LEMMA POTypes == ASSUME TypeOK, NEW p \in POs, POStep(p) PROVE TypeOK'
<1> USE PORows
<1>0. pos[p] \in PORow /\ job \in JobRow /\ variances \subseteq VarianceRow /\ previews[p] \in Dollars
  BY DEF TypeOK
<1>1. ASSUME NEW cost \in Amounts, CreatePO(p, cost) PROVE TypeOK'
  BY <1>0, <1>1, POWritten, Advances DEF CreatePO
<1>2. ASSUME NEW cost \in Amounts, EditPO(p, cost) PROVE TypeOK'
  <2>1. variances' \subseteq VarianceRow
    BY <1>0, <1>2, RiseTypes DEF EditPO, Dollars
  <2>2. job' \in JobRow /\ UNCHANGED <<quotes, invoices, payments, flights>>
    BY <1>0, <1>2 DEF EditPO
  <2> QED
    BY <1>0, <1>2, <2>1, <2>2, POWritten DEF EditPO
<1>3. ASSUME PreviewReads(p) \/ PreviewFails(p) PROVE TypeOK'
  BY <1>0, <1>3 DEF PreviewReads, PreviewFails, TypeOK, Dollars
<1>4. ASSUME PreviewUploads(p) PROVE TypeOK'
  <2>1. pos' \in [POs -> PORow]
    <3>1. CASE Live(p)
      <4>1. [pos[p] EXCEPT !.pdf = previews[p]] \in PORow
        BY <1>0
      <4> QED
        BY <1>4, <3>1, <4>1 DEF PreviewUploads, SetPO, TypeOK
    <3>2. CASE ~Live(p)
      BY <1>4, <3>2 DEF PreviewUploads, TypeOK
    <3> QED
      BY <3>1, <3>2
  <2> QED
    BY <1>4, <2>1 DEF PreviewUploads, TypeOK, Dollars
<1>5. ASSUME DeletePO(p) \/ MarkPOMyob(p) \/ UnmarkPOMyob(p) \/ UncompletePO(p) PROVE TypeOK'
  BY <1>0, <1>5, POWritten DEF DeletePO, MarkPOMyob, UnmarkPOMyob, UncompletePO
<1>6. ASSUME CompletePO(p) PROVE TypeOK'
  BY <1>0, <1>6, POWritten, Advances DEF CompletePO
<1> QED
  BY <1>1, <1>2, <1>3, <1>4, <1>5, <1>6 DEF POStep

\* What each write of an invoice's row leaves.
LEMMA InvoiceRows ==
  /\ \A a \in Amounts, b \in BOOLEAN : NewInvoice(a, b) \in InvoiceRow
  /\ [NewInvoice(NoCost, FALSE) EXCEPT !.status = "deleted"] \in InvoiceRow
  /\ [NewInvoice(NoCost, FALSE) EXCEPT !.status = "none"] \in InvoiceRow
  /\ \A r \in InvoiceRow : \A a \in Amounts, b \in BOOLEAN : [r EXCEPT !.amount = a, !.outgoing = b] \in InvoiceRow
  /\ \A r \in InvoiceRow : \A st \in InvoiceStatuses, b \in BOOLEAN :
       [r EXCEPT !.status = st, !.approvedAt = TRUE, !.required = b] \in InvoiceRow
  /\ \A r \in InvoiceRow : [r EXCEPT !.status = "director_approved", !.directorAt = TRUE] \in InvoiceRow
  /\ \A r \in InvoiceRow : [r EXCEPT !.status = "approved", !.directorAt = FALSE, !.required = TRUE] \in InvoiceRow
  /\ \A r \in InvoiceRow : [r EXCEPT !.status = "rejected", !.required = FALSE] \in InvoiceRow
  /\ \A r \in InvoiceRow : \A b \in BOOLEAN : [r EXCEPT !.myob = b] \in InvoiceRow
  /\ \A r \in InvoiceRow : r.amount \in Dollars
  BY DEF InvoiceRow, NewInvoice, InvoiceStatuses, NoRow, Dollars

\* A step that writes one invoice and the accepted rises keeps the types.
LEMMA InvoiceWritten ==
  ASSUME TypeOK, NEW i \in Invoices, NEW row \in InvoiceRow, SetInvoice(i, row),
         variances' \subseteq VarianceRow, UNCHANGED <<job, quotes, pos, payments, flights>>
  PROVE  TypeOK'
  BY DEF TypeOK, SetInvoice, flights

\* The invoice handlers keep the types.
LEMMA InvoiceTypes == ASSUME TypeOK, NEW i \in Invoices, InvoiceStep(i) PROVE TypeOK'
<1> USE InvoiceRows
<1>0. invoices[i] \in InvoiceRow /\ variances \subseteq VarianceRow
  BY DEF TypeOK
<1>1. ASSUME NEW amount \in Amounts, NEW outgoing \in BOOLEAN, CreateInvoice(i, amount, outgoing) PROVE TypeOK'
  BY <1>0, <1>1, InvoiceWritten DEF CreateInvoice
<1>2. ASSUME NEW amount \in Amounts, PromoteEmailToInvoice(i, amount) PROVE TypeOK'
  BY <1>1, <1>2 DEF PromoteEmailToInvoice
<1>3. ASSUME NEW amount \in Amounts, NEW payee \in BOOLEAN, NEW outgoing \in BOOLEAN,
             EditInvoice(i, amount, payee, outgoing)
      PROVE  TypeOK'
  BY <1>0, <1>3, InvoiceWritten DEF EditInvoice
<1>4. ASSUME ApproveInvoice(i) PROVE TypeOK'
  <2>1. PICK threshold \in Thresholds : \E outcome \in ApprovalOutcomes(invoices[i].amount, threshold) :
          LET status == IF outcome = "awaiting_approval" THEN outcome ELSE "approved"
          IN /\ SetInvoice(i, [invoices[i] EXCEPT !.status = status, !.approvedAt = TRUE,
                                           !.required = (outcome = "awaiting_director")])
             /\ variances' = IF status = "approved" /\ ~invoices[i].outgoing
                          THEN Accepted(invoices[i].amount, i, POs \cup Invoices) ELSE variances
             /\ UNCHANGED <<job, quotes, pos, payments, flights>>
    BY <1>4 DEF ApproveInvoice
  <2>2. variances' \subseteq VarianceRow
    BY <1>0, <2>1, RiseTypes
  <2> QED
    BY <1>0, <2>1, <2>2, InvoiceWritten DEF InvoiceStatuses
<1>5. ASSUME DirectorApproveInvoice(i) \/ UndoDirectorApprove(i) \/ RejectInvoice(i) PROVE TypeOK'
  BY <1>0, <1>5, InvoiceWritten DEF DirectorApproveInvoice, UndoDirectorApprove, RejectInvoice
<1>6. ASSUME MarkInvoiceMyob(i) \/ UnmarkInvoiceMyob(i) \/ DeleteInvoice(i) PROVE TypeOK'
  BY <1>0, <1>6, InvoiceWritten DEF MarkInvoiceMyob, UnmarkInvoiceMyob, DeleteInvoice
<1> QED
  BY <1>1, <1>2, <1>3, <1>4, <1>5, <1>6 DEF InvoiceStep

\* What each step of a send leaves of it.
LEMMA SendRows ==
  /\ Resting \in SendRow
  /\ \A p \in POs, c \in Dollars : [step |-> "read", po |-> p, cost |-> c] \in SendRow
  /\ \A r \in SendRow : \A step \in SendSteps : [r EXCEPT !.step = step] \in SendRow
  /\ \A r \in SendRow : r.cost \in Dollars /\ r.po \in POs \cup {None}
  BY DEF SendRow, Resting, SendSteps, Dollars

\* A step of one send keeps the types where the orders keep theirs.
LEMMA SendWritten ==
  ASSUME TypeOK, NEW s \in Sends, NEW row \in SendRow, SetSend(s, row), variances' \subseteq VarianceRow,
         pos' \in [POs -> PORow], UNCHANGED <<job, quotes, invoices, payments, previews>>
  PROVE  TypeOK'
  BY DEF TypeOK, SetSend

\* sendPurchaseOrder keeps the types: a send under way has an order to write.
LEMMA SendTypes == ASSUME TypeOK, SendsHaveOrders, NEW s \in Sends, SendStep(s) PROVE TypeOK'
<1> USE SendRows
<1>0. /\ sends[s] \in SendRow /\ variances \subseteq VarianceRow /\ pos \in [POs -> PORow]
      /\ sends[s].step # "idle" => sends[s].po \in POs
  BY DEF TypeOK, SendsHaveOrders
<1>1. ASSUME NEW p \in POs, SendReads(s, p) PROVE TypeOK'
  BY <1>0, <1>1, SendWritten, PORows DEF SendReads
<1>2. ASSUME SendGate(s) \/ SendStops(s) \/ SendMails(s) \/ SendIsLost(s) PROVE TypeOK'
  BY <1>0, <1>2, SendWritten DEF SendGate, SendStops, SendMails, SendIsLost, SendGoesTo, SendRests, SendSteps
<1>3. ASSUME SendChecks(s) PROVE TypeOK'
  <2>1. variances' \subseteq VarianceRow
    BY <1>0, <1>3, RiseTypes DEF SendChecks, SendAt
  <2> QED
    BY <1>0, <1>3, <2>1, SendWritten DEF SendChecks, SendGoesTo, SendSteps
<1>4. ASSUME SendClaims(s) PROVE TypeOK'
  <2>1. pos' \in [POs -> PORow]
    BY <1>0, <1>4, PORows, POTable DEF SendClaims, SendAt
  <2> QED
    BY <1>0, <1>4, <2>1, SendWritten DEF SendClaims, SendGoesTo, SendSteps
<1>5. ASSUME SendMailFails(s) PROVE TypeOK'
  <2>1. pos' \in [POs -> PORow]
    BY <1>0, <1>5, PORows, POTable DEF SendMailFails, SendAt
  <2> QED
    BY <1>0, <1>5, <2>1, SendWritten DEF SendMailFails, SendRests
<1>6. ASSUME SendRecords(s) PROVE TypeOK'
  <2>1. pos' \in [POs -> PORow]
    BY <1>0, <1>6, PORows, POTable DEF SendRecords, SendAt
  <2> QED
    BY <1>0, <1>6, <2>1, SendWritten DEF SendRecords, SendRests
<1> QED
  BY <1>1, <1>2, <1>3, <1>4, <1>5, <1>6 DEF SendStep

\* What each write of a payment's row leaves.
LEMMA PaymentRows ==
  /\ \A i \in Invoices, a \in Amounts, q \in Quotes \cup {None} :
       [status |-> "pending", invoice |-> i, amount |-> a, quote |-> q] \in PaymentRow
  /\ \A r \in PaymentRow : \A a \in Amounts : [r EXCEPT !.amount = a] \in PaymentRow
  /\ \A r \in PaymentRow : [r EXCEPT !.status = "paid"] \in PaymentRow
  BY DEF PaymentRow, Dollars

\* A step that writes one payment keeps the types.
LEMMA PaymentWritten ==
  ASSUME TypeOK, NEW m \in Payments, NEW row \in PaymentRow, SetPayment(m, row),
         UNCHANGED <<job, quotes, pos, invoices, variances, flights>>
  PROVE  TypeOK'
  BY DEF TypeOK, SetPayment, flights

\* The payment handlers keep the types.
LEMMA PaymentTypes == ASSUME TypeOK, NEW m \in Payments, PaymentStep(m) PROVE TypeOK'
<1>0. payments[m] \in PaymentRow
  BY DEF TypeOK
<1>1. ASSUME NEW i \in Invoices, NEW amount \in Amounts, NEW q \in Quotes \cup {None}, CreatePayment(m, i, amount, q)
      PROVE  TypeOK'
  BY <1>1, PaymentRows, PaymentWritten DEF CreatePayment
<1>2. ASSUME NEW amount \in Amounts, EditPayment(m, amount) PROVE TypeOK'
  BY <1>0, <1>2, PaymentRows, PaymentWritten DEF EditPayment
<1>3. ASSUME MarkPaymentPaid(m) PROVE TypeOK'
  BY <1>0, <1>3, PaymentRows, PaymentWritten DEF MarkPaymentPaid
<1> QED
  BY <1>1, <1>2, <1>3 DEF PaymentStep

\* Where a person may send a job, and what the machine then holds.
LEMMA ManualTypes ==
  ASSUME NEW at \in States, NEW target \in Statuses, NEW held \in States \cup {NoState},
         NEW contract, NEW internal, NEW to \in ManualTargets(at, target, held, contract, internal)
  PROVE  to \in States
<1>1. \A t \in Transitions : t.to \in States
  BY StatesAre DEF Transitions, Edge
<1>2. State("Tenant", at.side) \in States /\ State("Done", at.side) \in States
  BY DEF State, States, Statuses, Sides
<1>3. UnblockTarget(held) \in States
  BY StatesAre DEF UnblockTarget
<1> QED
  BY <1>1, <1>2, <1>3, StatesAre DEF ManualTargets

\* A step that writes only the job keeps the types.
LEMMA JobWritten ==
  ASSUME TypeOK, job' \in JobRow, UNCHANGED <<quotes, pos, invoices, payments, variances, flights>>
  PROVE  TypeOK'
  BY DEF TypeOK, flights

\* The job's own handlers keep the types.
LEMMA JobTypes == ASSUME TypeOK, JobStep PROVE TypeOK'
<1>0. job \in JobRow /\ job.internal \in BOOLEAN /\ job.contract \in BOOLEAN
  BY DEF TypeOK, JobRow
<1>1. ASSUME NEW target \in Statuses, MoveJob(target) PROVE TypeOK'
  <2>1. PICK to \in ManualTargets(job.at, target, job.held, job.contract, job.internal) :
          /\ job' = [job EXCEPT !.at = to,
                                !.held = CASE to.status = "Tenant" -> job.at
                                           [] job.at.status = "Tenant" -> NoState
                                           [] OTHER -> @]
          /\ UNCHANGED <<quotes, pos, invoices, payments, variances, flights>>
    BY <1>1 DEF MoveJob
  <2>2. to \in States
    BY <1>0, <2>1, JobRows, ManualTypes
  <2>3. PICK held \in States \cup {NoState} : job' = [job EXCEPT !.at = to, !.held = held]
    BY <1>0, <2>1, JobRows
  <2>4. job' \in JobRow
    BY <1>0, <2>2, <2>3, JobRows
  <2> QED
    BY <2>1, <2>4, JobWritten
<1>2. ASSUME ReopenJob PROVE TypeOK'
  BY <1>0, <1>2, JobRows, StatesAre, JobWritten DEF ReopenJob, ReopenTarget
<1>3. ASSUME NEW flag, FlipFlag(flag) PROVE TypeOK'
  BY <1>0, <1>3, JobRows, JobWritten DEF FlipFlag
<1>4. ASSUME ArchiveJob \/ UnarchiveJob PROVE TypeOK'
  BY <1>0, <1>4, JobRows, JobWritten DEF ArchiveJob, UnarchiveJob
<1>5. ASSUME RequestContractor \/ PromoteEmailToJobUpdate PROVE TypeOK'
  BY <1>0, <1>5, Advances, JobWritten DEF RequestContractor, PromoteEmailToJobUpdate
<1> QED
  BY <1>1, <1>2, <1>3, <1>4, <1>5 DEF JobStep

\* What each kind of step leaves alone.
LEMMA Untouched ==
  /\ \A q \in Quotes : QuoteStep(q) => UNCHANGED <<pos, invoices, payments, variances, sends, previews>>
  /\ \A p \in POs : POStep(p) => UNCHANGED <<quotes, invoices, payments, sends>>
  /\ \A s \in Sends : SendStep(s) => UNCHANGED <<job, quotes, invoices, payments, previews>>
  /\ \A i \in Invoices : InvoiceStep(i) => UNCHANGED <<job, quotes, pos, payments, sends, previews>>
  /\ \A m \in Payments : PaymentStep(m) => UNCHANGED <<job, quotes, pos, invoices, variances, sends, previews>>
  /\ JobStep => UNCHANGED <<quotes, pos, invoices, payments, variances, sends, previews>>
<1>1. ASSUME NEW q \in Quotes, QuoteStep(q) PROVE UNCHANGED <<pos, invoices, payments, variances, sends, previews>>
  BY <1>1 DEF QuoteStep, CreateQuote, PromoteEmailToQuote, InsertQuote, EditQuote, ApproveQuote, DirectorApproveQuote,
    RejectQuote, UnapproveQuote, CompleteQuote, UncompleteQuote, DeleteQuote, flights
<1>2. ASSUME NEW p \in POs, POStep(p) PROVE UNCHANGED <<quotes, invoices, payments, sends>>
  BY <1>2 DEF POStep, CreatePO, EditPO, PreviewReads, PreviewUploads, PreviewFails, DeletePO, MarkPOMyob,
    UnmarkPOMyob, CompletePO, UncompletePO, flights
<1>3. ASSUME NEW s \in Sends, SendStep(s) PROVE UNCHANGED <<job, quotes, invoices, payments, previews>>
  BY <1>3 DEF SendStep, SendReads, SendGate, SendChecks, SendClaims, SendStops, SendMails, SendMailFails,
    SendRecords, SendIsLost
<1>4. ASSUME NEW i \in Invoices, InvoiceStep(i) PROVE UNCHANGED <<job, quotes, pos, payments, sends, previews>>
  BY <1>4 DEF InvoiceStep, CreateInvoice, PromoteEmailToInvoice, EditInvoice, ApproveInvoice, DirectorApproveInvoice,
    UndoDirectorApprove, RejectInvoice, MarkInvoiceMyob, UnmarkInvoiceMyob, DeleteInvoice, flights
<1>5. ASSUME NEW m \in Payments, PaymentStep(m)
      PROVE  UNCHANGED <<job, quotes, pos, invoices, variances, sends, previews>>
  BY <1>5 DEF PaymentStep, CreatePayment, EditPayment, MarkPaymentPaid, flights
<1>6. ASSUME JobStep PROVE UNCHANGED <<quotes, pos, invoices, payments, variances, sends, previews>>
  BY <1>6 DEF JobStep, MoveJob, FlipFlag, ReopenJob, ArchiveJob, UnarchiveJob, RequestContractor,
    PromoteEmailToJobUpdate, flights
<1> QED
  BY <1>1, <1>2, <1>3, <1>4, <1>5, <1>6

\* Every step keeps the types.
LEMMA TypesHold == ASSUME TypeOK, SendsHaveOrders, [Next]_vars PROVE TypeOK'
<1>1. CASE UNCHANGED vars
  BY <1>1 DEF vars, TypeOK
<1> QED
  BY <1>1, QuoteTypes, POTypes, SendTypes, InvoiceTypes, PaymentTypes, JobTypes DEF Next

-----------------------------------------------------------------------------
(* Quotes. *)

\* Only steps of a quote move the job's pointer or a quote's status.
LEMMA PointerKept ==
  ASSUME TypeOK, \/ \E p \in POs : POStep(p)
                 \/ JobStep
  PROVE  job'.approved = job.approved
<1>0. job \in JobRow
  BY DEF TypeOK
<1>1. ASSUME NEW p \in POs, POStep(p) PROVE job'.approved = job.approved
  BY <1>0, <1>1 DEF POStep, CreatePO, EditPO, PreviewReads, PreviewUploads, PreviewFails, DeletePO, MarkPOMyob,
    UnmarkPOMyob, CompletePO, UncompletePO, Advance, JobRow
<1>2. ASSUME JobStep PROVE job'.approved = job.approved
  BY <1>0, <1>2 DEF JobStep, MoveJob, FlipFlag, ReopenJob, ArchiveJob, UnarchiveJob, RequestContractor,
    PromoteEmailToJobUpdate, Advance, JobRow
<1> QED
  BY <1>1, <1>2

\* A quote's handler moves the pointer and the quote's status together.
LEMMA QuotePointer ==
  ASSUME TypeOK, ApprovedQuoteIsOne, NEW q \in Quotes, QuoteStep(q)
  PROVE  ApprovedQuoteIsOne'
<1> USE RowsAssumption
<1>0. /\ job \in JobRow /\ quotes \in [Quotes -> QuoteRow] /\ quotes[q] \in QuoteRow
      /\ job.approved \in Quotes \cup {None}
  BY DEF TypeOK, JobRow
<1>1. ASSUME NEW row, SetQuote(q, row)
      PROVE  quotes'[q] = row /\ \A r \in Quotes : r # q => quotes'[r] = quotes[r]
  BY <1>0, <1>1 DEF SetQuote
<1>2. ASSUME NEW amount \in Amounts, InsertQuote(q, amount), job'.approved = job.approved PROVE ApprovedQuoteIsOne'
  BY <1>0, <1>1, <1>2 DEF InsertQuote, NewQuote, ApprovedQuoteIsOne
<1>3. ASSUME NEW amount \in Amounts, CreateQuote(q, amount) PROVE ApprovedQuoteIsOne'
  BY <1>0, <1>2, <1>3 DEF CreateQuote, Advance, JobRow
<1>4. ASSUME NEW amount \in Amounts, PromoteEmailToQuote(q, amount) PROVE ApprovedQuoteIsOne'
  BY <1>2, <1>4 DEF PromoteEmailToQuote
<1>5. ASSUME NEW amount \in Amounts, EditQuote(q, amount) PROVE ApprovedQuoteIsOne'
  <2>1. CASE WasApproved(quotes[q])
    <3>1. quotes'[q].status = "pending" /\ \A r \in Quotes : r # q => quotes'[r] = quotes[r]
      BY <1>1, <1>5, <2>1 DEF EditQuote, NewQuote
    <3>2. job'.approved = IF job.approved = q THEN None ELSE job.approved
      BY <1>0, <1>5, <2>1 DEF EditQuote, Unpoint, JobRow
    <3> QED
      BY <1>0, <3>1, <3>2 DEF ApprovedQuoteIsOne
  <2>2. CASE ~WasApproved(quotes[q])
    <3>1. quotes'[q].status = quotes[q].status /\ \A r \in Quotes : r # q => quotes'[r] = quotes[r]
      BY <1>0, <1>1, <1>5, <2>2 DEF EditQuote, QuoteRow
    <3>2. job' = job
      BY <1>5, <2>2 DEF EditQuote
    <3> QED
      BY <3>1, <3>2 DEF ApprovedQuoteIsOne
  <2> QED
    BY <2>1, <2>2
<1>6. ASSUME ~HasApprovedQuote PROVE \A r \in Quotes : quotes[r].status \notin {"approved", "completed"}
  BY <1>0, <1>6 DEF HasApprovedQuote, ApprovedQuoteIsOne
<1>7. ASSUME ApproveQuote(q) PROVE ApprovedQuoteIsOne'
  <2>1. PICK outcome \in {"awaiting_director", "approved", "awaiting_approval"} :
          /\ ~HasApprovedQuote
          /\ SetQuote(q, [quotes[q] EXCEPT !.status = outcome, !.approvedAt = TRUE])
          /\ job' = IF outcome = "approved" THEN Advance([job EXCEPT !.approved = q], "QUOTE_APPROVED") ELSE job
    BY <1>7 DEF ApproveQuote, ApprovalOutcomes
  <2>2. quotes'[q].status = outcome /\ \A r \in Quotes : r # q => quotes'[r] = quotes[r]
    <3>1. [quotes[q] EXCEPT !.status = outcome, !.approvedAt = TRUE].status = outcome
      BY <1>0 DEF QuoteRow
    <3> QED
      BY <1>1, <2>1, <3>1
  <2>3. job'.approved = IF outcome = "approved" THEN q ELSE job.approved
    BY <1>0, <2>1 DEF Advance, JobRow
  <2> QED
    BY <1>0, <1>6, <2>1, <2>2, <2>3 DEF ApprovedQuoteIsOne
<1>8. ASSUME DirectorApproveQuote(q) PROVE ApprovedQuoteIsOne'
  <2>1. quotes'[q].status = "approved" /\ \A r \in Quotes : r # q => quotes'[r] = quotes[r]
    BY <1>0, <1>1, <1>8 DEF DirectorApproveQuote, QuoteRow
  <2>2. job'.approved = q
    BY <1>0, <1>8 DEF DirectorApproveQuote, JobRow
  <2> QED
    BY <1>6, <1>8, <2>1, <2>2 DEF ApprovedQuoteIsOne, DirectorApproveQuote
<1>9. ASSUME UnapproveQuote(q) PROVE ApprovedQuoteIsOne'
  <2>1. quotes'[q].status = "pending" /\ \A r \in Quotes : r # q => quotes'[r] = quotes[r]
    <3>1. [quotes[q] EXCEPT !.status = "pending", !.approvedAt = FALSE].status = "pending"
      BY <1>0 DEF QuoteRow
    <3> QED
      BY <1>1, <1>9, <3>1 DEF UnapproveQuote
  <2>2. job'.approved = IF job.approved = q THEN None ELSE job.approved
    BY <1>0, <1>9 DEF UnapproveQuote, Unpoint, JobRow
  <2> QED
    BY <1>0, <2>1, <2>2 DEF ApprovedQuoteIsOne
<1>10. ASSUME RejectQuote(q) \/ CompleteQuote(q) \/ UncompleteQuote(q) \/ DeleteQuote(q) PROVE ApprovedQuoteIsOne'
  <2>1. quotes'[q].status \in {"approved", "completed"} <=> quotes[q].status \in {"approved", "completed"}
    BY <1>0, <1>1, <1>10 DEF RejectQuote, CompleteQuote, UncompleteQuote, DeleteQuote, QuoteRow
  <2>2. job' = job /\ \A r \in Quotes : r # q => quotes'[r] = quotes[r]
    BY <1>1, <1>10 DEF RejectQuote, CompleteQuote, UncompleteQuote, DeleteQuote
  <2> QED
    BY <2>1, <2>2 DEF ApprovedQuoteIsOne
<1> QED
  BY <1>3, <1>4, <1>5, <1>7, <1>8, <1>9, <1>10 DEF QuoteStep

\* Every step keeps the job's quote the approved one.
LEMMA QuotesHold == ASSUME TypeOK, ApprovedQuoteIsOne, [Next]_vars PROVE ApprovedQuoteIsOne'
<1>1. ASSUME job'.approved = job.approved, UNCHANGED quotes PROVE ApprovedQuoteIsOne'
  BY <1>1 DEF ApprovedQuoteIsOne
<1> QED
  BY <1>1, QuotePointer, PointerKept, Untouched DEF Next, vars

-----------------------------------------------------------------------------
(* Purchase orders. *)

\* Every step keeps a completed order in MYOB.
LEMMA CompletedPO ==
  ASSUME TypeOK, SendsHaveOrders, CompletedIsInMyob, [Next]_vars
  PROVE  CompletedIsInMyob'
<1>0. pos \in [POs -> PORow] /\ \A p \in POs : pos[p].completed \in BOOLEAN
  BY DEF TypeOK, PORow
<1>1. ASSUME NEW p \in POs, NEW row, SetPO(p, row), row.completed => row.myob PROVE CompletedIsInMyob'
  BY <1>0, <1>1 DEF SetPO, CompletedIsInMyob
<1>2. ASSUME UNCHANGED pos PROVE CompletedIsInMyob'
  BY <1>2 DEF CompletedIsInMyob
<1>3. ASSUME NEW p \in POs, POStep(p) PROVE CompletedIsInMyob'
  <2>0. pos[p] \in PORow /\ (pos[p].completed => pos[p].myob)
    BY <1>0 DEF CompletedIsInMyob
  <2>1. ASSUME NEW cost \in Amounts, CreatePO(p, cost) PROVE CompletedIsInMyob'
    BY <1>1, <2>1 DEF CreatePO, NewPO
  <2>2. ASSUME NEW cost \in Amounts, EditPO(p, cost) PROVE CompletedIsInMyob'
    BY <1>1, <2>0, <2>2 DEF EditPO, PORow
  <2>3. ASSUME PreviewReads(p) \/ PreviewFails(p) PROVE CompletedIsInMyob'
    BY <1>2, <2>3 DEF PreviewReads, PreviewFails
  <2>4. ASSUME PreviewUploads(p) PROVE CompletedIsInMyob'
    BY <1>1, <1>2, <2>0, <2>4 DEF PreviewUploads, PORow
  <2>5. ASSUME DeletePO(p) PROVE CompletedIsInMyob'
    BY <1>1, <2>5 DEF DeletePO, NewPO
  <2>6. ASSUME MarkPOMyob(p) \/ UnmarkPOMyob(p) \/ CompletePO(p) \/ UncompletePO(p) PROVE CompletedIsInMyob'
    BY <1>1, <2>0, <2>6 DEF MarkPOMyob, UnmarkPOMyob, CompletePO, UncompletePO, PORow
  <2> QED
    BY <1>3, <2>1, <2>2, <2>3, <2>4, <2>5, <2>6 DEF POStep
<1>4. ASSUME NEW s \in Sends, SendStep(s) PROVE CompletedIsInMyob'
  <2>1. CASE UNCHANGED pos
    BY <1>2, <2>1
  <2>2. CASE SendClaims(s) \/ SendMailFails(s) \/ SendRecords(s)
    <3>1. sends[s].po \in POs
      BY <2>2 DEF SendsHaveOrders, SendClaims, SendMailFails, SendRecords, SendAt
    <3>2. pos[sends[s].po] \in PORow /\ (pos[sends[s].po].completed => pos[sends[s].po].myob)
      BY <1>0, <3>1 DEF CompletedIsInMyob
    <3> QED
      BY <1>1, <1>2, <2>2, <3>1, <3>2 DEF SendClaims, SendMailFails, SendRecords, PORow
  <2> QED
    BY <1>4, <2>1, <2>2 DEF SendStep, SendReads, SendGate, SendChecks, SendStops, SendMails, SendIsLost
<1> QED
  BY <1>2, <1>3, <1>4, Untouched DEF Next, vars

-----------------------------------------------------------------------------
(* Sends. *)

\* What the steps of others leave of an order: its life moves forward, and a claim on it stays.
LEMMA OrdersGoOn ==
  ASSUME TypeOK, NEW p \in POs, POStep(p)
  PROVE  \A r \in POs : /\ pos[r].status # "none" => pos'[r].status # "none"
                        /\ pos[r].status # "none" /\ pos'[r].status = "live"
                             => pos[r].status = "live" /\ pos'[r].claimed = pos[r].claimed
<1> DEFINE GoesOn(r) == /\ pos[r].status # "none" => pos'[r].status # "none"
                        /\ pos[r].status # "none" /\ pos'[r].status = "live"
                             => pos[r].status = "live" /\ pos'[r].claimed = pos[r].claimed
<1>0. pos \in [POs -> PORow] /\ pos[p] \in PORow
  BY DEF TypeOK
<1>1. ASSUME NEW row, SetPO(p, row), \/ pos[p].status = "none"
                                     \/ row.status = "deleted"
                                     \/ row.status = pos[p].status /\ row.claimed = pos[p].claimed
      PROVE  \A r \in POs : GoesOn(r)
  BY <1>0, <1>1 DEF SetPO
<1>2. ASSUME UNCHANGED pos PROVE \A r \in POs : GoesOn(r)
  BY <1>2
<1>3. ASSUME NEW cost \in Amounts, CreatePO(p, cost) PROVE \A r \in POs : GoesOn(r)
  BY <1>1, <1>3 DEF CreatePO
<1>4. ASSUME NEW cost \in Amounts, EditPO(p, cost) PROVE \A r \in POs : GoesOn(r)
  <2>1. ASSUME NEW b1, NEW b2
        PROVE  LET row == [pos[p] EXCEPT !.cost = cost, !.sent = b1, !.myob = b2]
               IN row.status = pos[p].status /\ row.claimed = pos[p].claimed
    BY <1>0 DEF PORow
  <2>2. PICK b1, b2 : SetPO(p, [pos[p] EXCEPT !.cost = cost, !.sent = b1, !.myob = b2])
    BY <1>4 DEF EditPO
  <2>3. PICK row : SetPO(p, row) /\ row.status = pos[p].status /\ row.claimed = pos[p].claimed
    BY <2>1, <2>2
  <2> QED
    BY <1>1, <2>3
<1>5. ASSUME PreviewReads(p) \/ PreviewFails(p) PROVE \A r \in POs : GoesOn(r)
  BY <1>2, <1>5 DEF PreviewReads, PreviewFails
<1>6. ASSUME PreviewUploads(p) PROVE \A r \in POs : GoesOn(r)
  <2>1. LET row == [pos[p] EXCEPT !.pdf = previews[p]]
        IN row.status = pos[p].status /\ row.claimed = pos[p].claimed
    BY <1>0 DEF PORow
  <2> QED
    BY <1>1, <1>2, <1>6, <2>1 DEF PreviewUploads
<1>7. ASSUME DeletePO(p) PROVE \A r \in POs : GoesOn(r)
  BY <1>1, <1>7 DEF DeletePO, NewPO
<1>8. ASSUME MarkPOMyob(p) \/ UnmarkPOMyob(p) \/ CompletePO(p) \/ UncompletePO(p) PROVE \A r \in POs : GoesOn(r)
  <2>1. ASSUME NEW b
        PROVE  /\ LET row == [pos[p] EXCEPT !.myob = b]
                  IN row.status = pos[p].status /\ row.claimed = pos[p].claimed
               /\ LET row == [pos[p] EXCEPT !.completed = b]
                  IN row.status = pos[p].status /\ row.claimed = pos[p].claimed
    BY <1>0 DEF PORow
  <2> QED
    BY <1>1, <1>8, <2>1 DEF MarkPOMyob, UnmarkPOMyob, CompletePO, UncompletePO
<1> QED
  BY <1>3, <1>4, <1>5, <1>6, <1>7, <1>8 DEF POStep

\* The steps between a send's claim and its end.
Past == {"claimed", "mailed", "lost"}

\* A step of a send takes a claim only where no one holds it, and gives back only its own.
LEMMA SendStepHolds ==
  ASSUME TypeOK, SendsHaveOrders, HeldUntilRecorded, NEW s \in Sends, SendStep(s)
  PROVE  SendsHaveOrders' /\ HeldUntilRecorded'
<1>0. /\ sends \in [Sends -> SendRow] /\ sends[s] \in SendRow /\ pos \in [POs -> PORow]
      /\ sends[s].step # "idle" => sends[s].po \in POs /\ pos[sends[s].po].status # "none"
  BY DEF TypeOK, SendsHaveOrders
<1>1. ASSUME NEW row, SetSend(s, row)
      PROVE  sends'[s] = row /\ \A t \in Sends : t # s => sends'[t] = sends[t]
  BY <1>0, <1>1 DEF SetSend
<1>2. ASSUME NEW step
      PROVE  [sends[s] EXCEPT !.step = step].step = step /\ [sends[s] EXCEPT !.step = step].po = sends[s].po
  BY <1>0 DEF SendRow
\* A step that neither takes nor gives back a claim, and is not past it unless it was.
<1>3. ASSUME UNCHANGED pos, NEW row, SetSend(s, row), row.step \in Past => sends[s].step \in Past /\ row.po = sends[s].po,
             row.step # "idle" => row.po \in POs /\ pos[row.po].status # "none"
      PROVE  SendsHaveOrders' /\ HeldUntilRecorded'
  <2>1. sends'[s] = row /\ \A t \in Sends : t # s => sends'[t] = sends[t]
    BY <1>1, <1>3
  <2>2. SendsHaveOrders'
    BY <1>3, <2>1 DEF SendsHaveOrders
  <2>3. \A t \in Sends : sends'[t].step \in Past => sends[t].step \in Past /\ sends'[t].po = sends[t].po
    BY <1>3, <2>1
  <2> QED
    BY <1>3, <2>2, <2>3 DEF HeldUntilRecorded, Past, Live
\* A step that ends the send and may give its claim back.
<1>4. ASSUME sends[s].step \in Past, SetSend(s, Resting), NEW row,
             UNCHANGED pos \/ (SetPO(sends[s].po, row) /\ row.status = pos[sends[s].po].status)
      PROVE  SendsHaveOrders' /\ HeldUntilRecorded'
  <2>1. sends'[s].step = "idle" /\ \A t \in Sends : t # s => sends'[t] = sends[t]
    BY <1>1, <1>4 DEF Resting
  <2>2. sends[s].po \in POs
    BY <1>0, <1>4 DEF Past
  <2>3. \A p \in POs : pos'[p].status = pos[p].status /\ (p # sends[s].po => pos'[p] = pos[p])
    BY <1>0, <1>4, <2>2 DEF SetPO
  <2>4. \A t \in Sends : sends'[t].step # "idle" => sends'[t] = sends[t] /\ t # s
    BY <2>1
  <2>5. \A t \in Sends : sends'[t].step \in Past => sends'[t].po # sends[s].po /\ sends[t].po \in POs
    BY <1>4, <2>4 DEF HeldUntilRecorded, SendsHaveOrders, Past
  <2>6. SendsHaveOrders'
    BY <2>3, <2>4 DEF SendsHaveOrders
  <2> QED
    BY <2>3, <2>4, <2>5, <2>6 DEF HeldUntilRecorded, Past, Live
<1>5. ASSUME NEW p \in POs, SendReads(s, p) PROVE SendsHaveOrders' /\ HeldUntilRecorded'
  BY <1>3, <1>5 DEF SendReads, Live, Past
<1>6. ASSUME SendGate(s) \/ SendChecks(s) \/ SendMails(s) \/ SendIsLost(s) PROVE SendsHaveOrders' /\ HeldUntilRecorded'
  <2>1. PICK step : /\ SetSend(s, [sends[s] EXCEPT !.step = step])
                    /\ step \in Past => sends[s].step \in Past
                    /\ sends[s].step # "idle" /\ UNCHANGED pos
    BY <1>6 DEF SendGate, SendChecks, SendMails, SendIsLost, SendGoesTo, SendAt, Past
  <2>2. PICK row : SetSend(s, row) /\ row.step = step /\ row.po = sends[s].po
    BY <1>2, <2>1
  <2>3. sends[s].po \in POs /\ pos[sends[s].po].status # "none"
    BY <1>0, <2>1
  <2> QED
    BY <1>3, <2>1, <2>2, <2>3
<1>7. ASSUME SendStops(s) PROVE SendsHaveOrders' /\ HeldUntilRecorded'
  BY <1>3, <1>7 DEF SendStops, SendRests, Resting, Past
<1>8. ASSUME SendClaims(s) PROVE SendsHaveOrders' /\ HeldUntilRecorded'
  <2> DEFINE p == sends[s].po
  <2>1. /\ sends'[s].step = "claimed" /\ sends'[s].po = p /\ sends[s].step = "checked"
        /\ \A t \in Sends : t # s => sends'[t] = sends[t]
    <3>1. SetSend(s, [sends[s] EXCEPT !.step = "claimed"]) /\ sends[s].step = "checked"
      BY <1>8 DEF SendClaims, SendGoesTo, SendAt
    <3>2. PICK row : SetSend(s, row) /\ row = [sends[s] EXCEPT !.step = "claimed"]
      BY <3>1
    <3>3. row.step = "claimed" /\ row.po = p
      BY <1>2, <3>2
    <3> HIDE DEF p
    <3> QED
      BY <1>1, <3>1, <3>2, <3>3
  <2>2. p \in POs /\ Live(p) /\ ~pos[p].claimed
    BY <1>0, <1>8 DEF SendClaims, SendAt
  <2>3. pos'[p].claimed /\ \A r \in POs : pos'[r].status = pos[r].status /\ (r # p => pos'[r] = pos[r])
    <3>1. pos[p] \in PORow
      BY <1>0, <2>2
    <3>2. [pos[p] EXCEPT !.claimed = TRUE].claimed /\ [pos[p] EXCEPT !.claimed = TRUE].status = pos[p].status
      BY <3>1 DEF PORow
    <3> QED
      BY <1>0, <1>8, <2>2, <3>2 DEF SendClaims, SetPO
  <2>4. \A t \in Sends : t # s /\ sends[t].po = p => sends[t].step \notin Past
    BY <2>2 DEF HeldUntilRecorded, Past
  <2>5. \A t \in Sends : sends[t].step \in Past => sends[t].po \in POs
    BY DEF SendsHaveOrders, Past
  <2>6. SendsHaveOrders'
    BY <1>0, <2>1, <2>2, <2>3 DEF SendsHaveOrders
  <2>7. \A t \in Sends : sends'[t].step \in Past /\ pos'[sends'[t].po].status = "live" => pos'[sends'[t].po].claimed
    BY <2>1, <2>2, <2>3, <2>5 DEF HeldUntilRecorded, Past, Live
  <2>8. \A t, u \in Sends : t # u /\ sends'[t].po = sends'[u].po /\ sends'[t].step \in Past => sends'[u].step \notin Past
    BY <2>1, <2>4 DEF HeldUntilRecorded, Past
  <2> QED
    BY <2>6, <2>7, <2>8 DEF HeldUntilRecorded, Past, Live
<1>9. ASSUME SendMailFails(s) \/ SendRecords(s) PROVE SendsHaveOrders' /\ HeldUntilRecorded'
  <2>1. sends[s].po \in POs /\ sends[s].step \in Past
    BY <1>0, <1>9 DEF SendMailFails, SendRecords, SendAt, Past
  <2>2. pos[sends[s].po] \in PORow
    BY <1>0, <2>1
  <2>3. /\ [pos[sends[s].po] EXCEPT !.claimed = FALSE].status = pos[sends[s].po].status
        /\ [pos[sends[s].po] EXCEPT !.claimed = FALSE, !.sent = TRUE].status = pos[sends[s].po].status
    BY <2>2 DEF PORow
  <2> QED
    BY <1>4, <1>9, <2>1, <2>3 DEF SendMailFails, SendRecords, SendRests
<1> QED
  BY <1>5, <1>6, <1>7, <1>8, <1>9 DEF SendStep

\* Every step keeps an order claimed by at most the one send that is past its claim.
LEMMA SendsHold ==
  ASSUME TypeOK, SendsHaveOrders, HeldUntilRecorded, [Next]_vars
  PROVE  SendsHaveOrders' /\ HeldUntilRecorded'
<1>1. ASSUME UNCHANGED <<pos, sends>> PROVE SendsHaveOrders' /\ HeldUntilRecorded'
  BY <1>1 DEF SendsHaveOrders, HeldUntilRecorded, Live
<1>2. ASSUME NEW p \in POs, POStep(p) PROVE SendsHaveOrders' /\ HeldUntilRecorded'
  <2>1. UNCHANGED sends
    BY <1>2, Untouched
  <2>2. SendsHaveOrders'
    BY <1>2, <2>1, OrdersGoOn DEF SendsHaveOrders
  <2>3. \A s \in Sends : sends[s].step \in Past => sends[s].po \in POs /\ pos[sends[s].po].status # "none"
    BY DEF SendsHaveOrders, Past
  <2>4. \A s \in Sends : sends[s].step \in Past /\ pos'[sends[s].po].status = "live" => pos'[sends[s].po].claimed
    BY <1>2, <2>3, OrdersGoOn DEF HeldUntilRecorded, Past, Live
  <2> QED
    BY <2>1, <2>2, <2>4 DEF HeldUntilRecorded, Past, Live
<1> QED
  BY <1>1, <1>2, SendStepHolds, Untouched DEF Next, vars

-----------------------------------------------------------------------------
(* Invoices and payments. *)

\* An invoice on its own: what MYOB has is approved, and a director's approval is on record.
Sound(row) ==
  /\ row.myob => /\ row.status \in {"approved", "director_approved"}
                 /\ row.required => row.status = "director_approved"
  /\ row.status = "director_approved" => row.directorAt

\* An invoice that a payment may rest on.
Payable(row) == row.status \in {"approved", "director_approved"} /\ (row.required => row.directorAt)

\* Whatever is done to an invoice leaves it sound, and payable if it was and is paid.
LEMMA InvoiceRowHolds ==
  ASSUME TypeOK, NEW i \in Invoices, Sound(invoices[i]), InvoiceStep(i)
  PROVE  \E row : SetInvoice(i, row) /\ Sound(row)
                    /\ (PaymentsOf(i) = {} \/ (Payable(invoices[i]) => Payable(row)))
<1> DEFINE Goal == \E row : SetInvoice(i, row) /\ Sound(row)
                              /\ (PaymentsOf(i) = {} \/ (Payable(invoices[i]) => Payable(row)))
<1>0. invoices[i] \in InvoiceRow
  BY DEF TypeOK
<1>1. ASSUME NEW amount \in Amounts, NEW outgoing \in BOOLEAN, CreateInvoice(i, amount, outgoing) PROVE Goal
  <2>1. Sound(NewInvoice(amount, outgoing)) /\ ~Payable(invoices[i])
    BY <1>1 DEF CreateInvoice, NewInvoice, Sound, Payable
  <2> QED
    BY <1>1, <2>1 DEF CreateInvoice
<1>2. ASSUME NEW amount \in Amounts, PromoteEmailToInvoice(i, amount) PROVE Goal
  BY <1>1, <1>2 DEF PromoteEmailToInvoice
<1>3. ASSUME NEW amount \in Amounts, NEW payee \in BOOLEAN, NEW outgoing \in BOOLEAN,
             EditInvoice(i, amount, payee, outgoing)
      PROVE  Goal
  <2> DEFINE row == [invoices[i] EXCEPT !.amount = amount, !.outgoing = outgoing]
  <2>1. Sound(NewInvoice(amount, outgoing))
    BY DEF NewInvoice, Sound
  <2>2. Sound(row) /\ (Payable(invoices[i]) => Payable(row))
    <3>1. /\ row.status = invoices[i].status /\ row.required = invoices[i].required
          /\ row.directorAt = invoices[i].directorAt /\ row.myob = invoices[i].myob
      BY <1>0 DEF InvoiceRow
    <3> QED
      BY <3>1 DEF Sound, Payable
  <2>3. CASE PaymentsOf(i) = {}
    BY <1>3, <2>1, <2>2, <2>3 DEF EditInvoice
  <2>4. CASE PaymentsOf(i) # {}
    BY <1>3, <2>2, <2>4 DEF EditInvoice
  <2> QED
    BY <2>3, <2>4
<1>4. ASSUME ApproveInvoice(i) PROVE Goal
  <2>1. PICK status \in {"awaiting_approval", "approved"}, b \in BOOLEAN :
          /\ SetInvoice(i, [invoices[i] EXCEPT !.status = status, !.approvedAt = TRUE, !.required = b])
          /\ invoices[i].status \in {"pending", "awaiting_approval"}
    BY <1>4 DEF ApproveInvoice
  <2> DEFINE row == [invoices[i] EXCEPT !.status = status, !.approvedAt = TRUE, !.required = b]
  <2>2. row.status = status /\ row.myob = invoices[i].myob
    BY <1>0 DEF InvoiceRow
  <2>3. Sound(row) /\ ~Payable(invoices[i])
    BY <2>1, <2>2 DEF Sound, Payable
  <2> QED
    BY <2>1, <2>3
<1>5. ASSUME DirectorApproveInvoice(i) PROVE Goal
  <2> DEFINE row == [invoices[i] EXCEPT !.status = "director_approved", !.directorAt = TRUE]
  <2>1. row.status = "director_approved" /\ row.directorAt
    BY <1>0 DEF InvoiceRow
  <2>2. Sound(row) /\ Payable(row)
    BY <2>1 DEF Sound, Payable
  <2> QED
    BY <1>5, <2>2 DEF DirectorApproveInvoice
<1>6. ASSUME UndoDirectorApprove(i) PROVE Goal
  <2> DEFINE row == [invoices[i] EXCEPT !.status = "approved", !.directorAt = FALSE, !.required = TRUE]
  <2>1. row.status = "approved" /\ row.myob = invoices[i].myob
    BY <1>0 DEF InvoiceRow
  <2>2. Sound(row)
    BY <1>6, <2>1 DEF UndoDirectorApprove, Sound
  <2> QED
    BY <1>6, <2>2 DEF UndoDirectorApprove
<1>7. ASSUME RejectInvoice(i) PROVE Goal
  <2> DEFINE row == [invoices[i] EXCEPT !.status = "rejected", !.required = FALSE]
  <2>1. row.status = "rejected" /\ row.myob = invoices[i].myob
    BY <1>0 DEF InvoiceRow
  <2>2. Sound(row)
    BY <1>7, <2>1 DEF RejectInvoice, Sound
  <2> QED
    BY <1>7, <2>2 DEF RejectInvoice
<1>8. ASSUME NEW b, SetInvoice(i, [invoices[i] EXCEPT !.myob = b]),
             b => /\ invoices[i].status \in {"approved", "director_approved"}
                  /\ invoices[i].required => invoices[i].status = "director_approved"
      PROVE  Goal
  <2> DEFINE row == [invoices[i] EXCEPT !.myob = b]
  <2>1. /\ row.status = invoices[i].status /\ row.required = invoices[i].required
        /\ row.directorAt = invoices[i].directorAt /\ row.myob = b
    BY <1>0 DEF InvoiceRow
  <2>2. Sound(row) /\ (Payable(invoices[i]) => Payable(row))
    BY <1>8, <2>1 DEF Sound, Payable
  <2> QED
    BY <1>8, <2>2
<1>9. ASSUME MarkInvoiceMyob(i) PROVE Goal
  <2>1. /\ SetInvoice(i, [invoices[i] EXCEPT !.myob = TRUE])
        /\ invoices[i].status \in {"approved", "director_approved"}
        /\ invoices[i].required => invoices[i].status = "director_approved"
    BY <1>9 DEF MarkInvoiceMyob
  <2> QED
    BY <1>8, <2>1
<1>10. ASSUME UnmarkInvoiceMyob(i) PROVE Goal
  BY <1>8, <1>10 DEF UnmarkInvoiceMyob
<1>11. ASSUME DeleteInvoice(i) PROVE Goal
  <2> DEFINE row == [NewInvoice(NoCost, FALSE) EXCEPT !.status = "deleted"]
  <2>1. row.status = "deleted" /\ row.myob = FALSE
    BY DEF NewInvoice
  <2>2. Sound(row)
    BY <2>1 DEF Sound
  <2> QED
    BY <1>11, <2>2 DEF DeleteInvoice
<1> QED
  BY <1>1, <1>2, <1>3, <1>4, <1>5, <1>6, <1>7, <1>9, <1>10, <1>11 DEF InvoiceStep

\* Both, for every row.
InvoicesSound == \A i \in Invoices : Sound(invoices[i])
PaymentsPayable ==
  \A m \in Payments : payments[m].status # "none" =>
    payments[m].invoice \in Invoices /\ Payable(invoices[payments[m].invoice])

\* Every step keeps the invoices sound and every payment on a payable one.
LEMMA InvoicesHold ==
  ASSUME TypeOK, InvoicesSound, PaymentsPayable, [Next]_vars
  PROVE  InvoicesSound' /\ PaymentsPayable'
<1>0. invoices \in [Invoices -> InvoiceRow] /\ payments \in [Payments -> PaymentRow]
  BY DEF TypeOK
<1>1. ASSUME UNCHANGED <<invoices, payments>> PROVE InvoicesSound' /\ PaymentsPayable'
  BY <1>1 DEF InvoicesSound, PaymentsPayable
<1>2. ASSUME NEW i \in Invoices, InvoiceStep(i) PROVE InvoicesSound' /\ PaymentsPayable'
  <2>1. PICK row : SetInvoice(i, row) /\ Sound(row)
                     /\ (PaymentsOf(i) = {} \/ (Payable(invoices[i]) => Payable(row)))
    BY <1>2, InvoiceRowHolds DEF InvoicesSound
  <2>2. invoices'[i] = row /\ \A j \in Invoices : j # i => invoices'[j] = invoices[j]
    BY <1>0, <2>1 DEF SetInvoice
  <2>3. UNCHANGED payments
    BY <1>2, Untouched
  <2>4. InvoicesSound'
    BY <2>1, <2>2 DEF InvoicesSound
  <2>5. ASSUME NEW m \in Payments, payments[m].status # "none", payments[m].invoice = i PROVE Payable(row)
    BY <2>1, <2>5 DEF PaymentsOf, PaymentsPayable
  <2> QED
    BY <2>2, <2>3, <2>4, <2>5 DEF PaymentsPayable
<1>3. ASSUME NEW m \in Payments, PaymentStep(m) PROVE InvoicesSound' /\ PaymentsPayable'
  <2>1. UNCHANGED invoices
    BY <1>3, Untouched
  <2>2. ASSUME NEW i, NEW amount, NEW except, MayPay(i, amount, except) PROVE Payable(invoices[i])
    BY <2>2 DEF MayPay, Payable
  <2>3. PICK row : SetPayment(m, row) /\ row.invoice \in Invoices /\ Payable(invoices[row.invoice])
    <3>1. ASSUME NEW i \in Invoices, NEW amount \in Amounts, NEW q \in Quotes \cup {None},
                 CreatePayment(m, i, amount, q)
          PROVE  \E row : SetPayment(m, row) /\ row.invoice \in Invoices /\ Payable(invoices[row.invoice])
      BY <2>2, <3>1 DEF CreatePayment
    <3>2. ASSUME (\E amount \in Amounts : EditPayment(m, amount)) \/ MarkPaymentPaid(m)
          PROVE  \E row : SetPayment(m, row) /\ row.invoice \in Invoices /\ Payable(invoices[row.invoice])
      <4>1. payments[m] \in PaymentRow
        BY <1>0
      <4>2. /\ \A amount \in Amounts : [payments[m] EXCEPT !.amount = amount].invoice = payments[m].invoice
            /\ [payments[m] EXCEPT !.status = "paid"].invoice = payments[m].invoice
        BY <4>1 DEF PaymentRow
      <4>3. payments[m].invoice \in Invoices /\ Payable(invoices[payments[m].invoice])
        BY <3>2 DEF EditPayment, MarkPaymentPaid, PaymentsPayable
      <4> QED
        BY <3>2, <4>2, <4>3 DEF EditPayment, MarkPaymentPaid
    <3> QED
      BY <1>3, <3>1, <3>2 DEF PaymentStep
  <2>4. payments'[m] = row /\ \A n \in Payments : n # m => payments'[n] = payments[n]
    BY <1>0, <2>3 DEF SetPayment
  <2> QED
    BY <2>1, <2>3, <2>4 DEF InvoicesSound, PaymentsPayable
<1> QED
  BY <1>1, <1>2, <1>3, Untouched DEF Next, vars

-----------------------------------------------------------------------------
(* Internal jobs. *)

\* The quote and order handlers leave the job's internal flag alone.
LEMMA InternalKept ==
  ASSUME TypeOK
  PROVE  /\ \A q \in Quotes : QuoteStep(q) => job'.internal = job.internal
         /\ \A p \in POs : POStep(p) => job'.internal = job.internal
<1>0. job \in JobRow
  BY DEF TypeOK
<1>1. ASSUME NEW q \in Quotes, QuoteStep(q) PROVE job'.internal = job.internal
  BY <1>0, <1>1 DEF QuoteStep, CreateQuote, PromoteEmailToQuote, EditQuote, ApproveQuote, DirectorApproveQuote,
    RejectQuote, UnapproveQuote, CompleteQuote, UncompleteQuote, DeleteQuote, Unpoint, Advance, JobRow
<1>2. ASSUME NEW p \in POs, POStep(p) PROVE job'.internal = job.internal
  BY <1>0, <1>2 DEF POStep, CreatePO, EditPO, PreviewReads, PreviewUploads, PreviewFails, DeletePO, MarkPOMyob,
    UnmarkPOMyob, CompletePO, UncompletePO, Advance, JobRow
<1> QED
  BY <1>1, <1>2

\* A step that writes a row of money is of a job that is not internal.
LEMMA MoneyIsExternal ==
  ASSUME InternalHasNoMoney, PaymentsPayable
  PROVE  /\ \A q \in Quotes : QuoteStep(q) => ~job.internal
         /\ \A p \in POs : POStep(p) => ~job.internal \/ UNCHANGED pos
         /\ \A i \in Invoices : InvoiceStep(i) => ~job.internal
         /\ \A m \in Payments : PaymentStep(m) => ~job.internal
<1>0. /\ \A q \in Quotes : quotes[q].status \notin NoRow => ~job.internal
      /\ \A p \in POs : Live(p) => ~job.internal
      /\ \A i \in Invoices : invoices[i].status \notin NoRow => ~job.internal
      /\ \A m \in Payments : payments[m].status # "none" => ~job.internal
  BY DEF InternalHasNoMoney, HasMoneyRecords
<1>1. \A outgoing : TakesMoney(outgoing) => ~job.internal
  BY DEF TakesMoney
<1>2. ASSUME NEW q \in Quotes, QuoteStep(q) PROVE ~job.internal
  BY <1>0, <1>1, <1>2 DEF QuoteStep, CreateQuote, PromoteEmailToQuote, InsertQuote, EditQuote, ApproveQuote,
    DirectorApproveQuote, RejectQuote, UnapproveQuote, CompleteQuote, UncompleteQuote, DeleteQuote, NoRow
<1>3. ASSUME NEW p \in POs, POStep(p) PROVE ~job.internal \/ UNCHANGED pos
  BY <1>0, <1>1, <1>3 DEF POStep, CreatePO, EditPO, PreviewReads, PreviewUploads, PreviewFails, DeletePO, MarkPOMyob,
    UnmarkPOMyob, CompletePO, UncompletePO
<1>4. ASSUME NEW i \in Invoices, InvoiceStep(i) PROVE ~job.internal
  BY <1>0, <1>1, <1>4 DEF InvoiceStep, CreateInvoice, PromoteEmailToInvoice, EditInvoice, ApproveInvoice,
    DirectorApproveInvoice, UndoDirectorApprove, RejectInvoice, MarkInvoiceMyob, UnmarkInvoiceMyob, DeleteInvoice, NoRow
<1>5. ASSUME NEW m \in Payments, PaymentStep(m) PROVE ~job.internal
  BY <1>0, <1>5 DEF PaymentStep, CreatePayment, EditPayment, MarkPaymentPaid, MayPay, NoRow
<1> QED
  BY <1>2, <1>3, <1>4, <1>5

\* Every step keeps internal jobs free of money: jobMoneyRefusal refuses the money, and
\* flagChangeRefusal the flag.
LEMMA InternalHolds ==
  ASSUME TypeOK, SendsHaveOrders, PaymentsPayable, InternalHasNoMoney, [Next]_vars
  PROVE  InternalHasNoMoney'
<1>1. ASSUME ~job'.internal PROVE InternalHasNoMoney'
  BY <1>1 DEF InternalHasNoMoney
<1>2. ASSUME UNCHANGED <<quotes, invoices, payments>>, job'.internal = job.internal,
             \A p \in POs : pos'[p].status = pos[p].status
      PROVE  InternalHasNoMoney'
  BY <1>2 DEF InternalHasNoMoney, HasMoneyRecords, Live
<1>3. ASSUME NEW q \in Quotes, QuoteStep(q) PROVE InternalHasNoMoney'
  BY <1>1, <1>3, InternalKept, MoneyIsExternal
<1>4. ASSUME NEW p \in POs, POStep(p) PROVE InternalHasNoMoney'
  BY <1>1, <1>2, <1>4, InternalKept, MoneyIsExternal, Untouched
<1>5. ASSUME NEW i \in Invoices, InvoiceStep(i) PROVE InternalHasNoMoney'
  BY <1>1, <1>5, MoneyIsExternal, Untouched
<1>6. ASSUME NEW m \in Payments, PaymentStep(m) PROVE InternalHasNoMoney'
  BY <1>1, <1>6, MoneyIsExternal, Untouched
<1>7. ASSUME NEW s \in Sends, SendStep(s) PROVE InternalHasNoMoney'
  <2>1. \A p \in POs : pos'[p].status = pos[p].status
    <3>1. CASE UNCHANGED pos
      BY <3>1
    <3>2. CASE SendClaims(s) \/ SendMailFails(s) \/ SendRecords(s)
      <4>1. sends[s].po \in POs
        BY <3>2 DEF SendsHaveOrders, SendClaims, SendMailFails, SendRecords, SendAt
      <4>2. pos \in [POs -> PORow] /\ pos[sends[s].po] \in PORow
        BY <4>1 DEF TypeOK
      <4>3. /\ \A b \in BOOLEAN : [pos[sends[s].po] EXCEPT !.claimed = b].status = pos[sends[s].po].status
            /\ [pos[sends[s].po] EXCEPT !.claimed = FALSE, !.sent = TRUE].status = pos[sends[s].po].status
        BY <4>2 DEF PORow
      <4>4. ASSUME NEW row, SetPO(sends[s].po, row), row.status = pos[sends[s].po].status
            PROVE  \A p \in POs : pos'[p].status = pos[p].status
        BY <4>1, <4>2, <4>4 DEF SetPO
      <4> QED
        BY <3>2, <4>3, <4>4 DEF SendClaims, SendMailFails, SendRecords
    <3> QED
      BY <1>7, <3>1, <3>2 DEF SendStep, SendReads, SendGate, SendChecks, SendStops, SendMails, SendIsLost
  <2> QED
    BY <1>2, <1>7, <2>1, Untouched
<1>8. ASSUME JobStep PROVE InternalHasNoMoney'
  <2>1. CASE job'.internal = job.internal
    BY <1>2, <1>8, <2>1, Untouched
  <2>2. CASE job'.internal # job.internal
    <3>1. ~HasMoneyRecords
      <4>1. job \in JobRow
        BY DEF TypeOK
      <4> QED
        BY <1>8, <2>2, <4>1 DEF JobStep, MoveJob, FlipFlag, MayFlip, ReopenJob, ArchiveJob, UnarchiveJob,
          RequestContractor, PromoteEmailToJobUpdate, Advance, JobRow
    <3>2. \A m \in Payments : payments[m].status = "none"
      BY <3>1 DEF HasMoneyRecords, PaymentsPayable, Payable, NoRow
    <3> QED
      BY <1>8, <3>1, <3>2, Untouched DEF InternalHasNoMoney, HasMoneyRecords, Live
  <2> QED
    BY <2>1, <2>2
<1>9. ASSUME UNCHANGED vars PROVE InternalHasNoMoney'
  BY <1>2, <1>9 DEF vars
<1> QED
  BY <1>3, <1>4, <1>5, <1>6, <1>7, <1>8, <1>9 DEF Next

-----------------------------------------------------------------------------
(* The invariant. *)

\* The same facts, row by row and as the properties state them.
LEMMA RowsAgree ==
  /\ InvoicesSound <=> MyobMeansApproved /\ DirectorOnRecord
  /\ PaymentsPayable <=> PaymentsHaveInvoices /\ PaymentsRestOnApproval
  BY DEF InvoicesSound, Sound, MyobMeansApproved, DirectorOnRecord,
    PaymentsPayable, Payable, PaymentsHaveInvoices, PaymentsRestOnApproval

\* A job starts within the invariant.
LEMMA InitInv == ASSUME Init PROVE Inv
<1>0. PICK contract \in BOOLEAN, internal \in BOOLEAN :
        job = [at |-> New, held |-> NoState, contract |-> contract, internal |-> internal,
               archived |-> FALSE, approved |-> None]
  BY DEF Init
<1>1. TypeOK
  <2>1. job \in JobRow
    BY <1>0, StatesAre DEF JobRow
  <2>2. /\ [status |-> "none", amount |-> NoCost, approvedAt |-> FALSE] \in QuoteRow
        /\ [status |-> "none", invoice |-> None, amount |-> NoCost, quote |-> None] \in PaymentRow
    BY DEF QuoteRow, PaymentRow, NoRow, Dollars
  <2>3. variances \subseteq VarianceRow /\ NoCost \in Dollars
    BY DEF Init, Dollars
  <2>4. pos \in [POs -> PORow] /\ sends \in [Sends -> SendRow] /\ previews \in [POs -> Dollars]
    BY <2>3, PORows, SendRows DEF Init
  <2>5. quotes \in [Quotes -> QuoteRow] /\ payments \in [Payments -> PaymentRow]
    BY <2>2 DEF Init
  <2>6. invoices \in [Invoices -> InvoiceRow]
    BY InvoiceRows DEF Init
  <2> QED
    BY <2>1, <2>3, <2>4, <2>5, <2>6 DEF TypeOK
<1>2. /\ [NewPO(NoCost) EXCEPT !.status = "none"].status = "none"
      /\ ~[NewPO(NoCost) EXCEPT !.status = "none"].completed
      /\ [NewInvoice(NoCost, FALSE) EXCEPT !.status = "none"].status = "none"
      /\ ~[NewInvoice(NoCost, FALSE) EXCEPT !.status = "none"].myob
  BY DEF NewPO, NewInvoice
<1>3. /\ \A q \in Quotes : quotes[q].status = "none"
      /\ \A p \in POs : pos[p].status = "none" /\ ~pos[p].completed
      /\ \A i \in Invoices : invoices[i].status = "none" /\ ~invoices[i].myob
      /\ \A m \in Payments : payments[m].status = "none"
      /\ \A s \in Sends : sends[s].step = "idle"
      /\ job.approved = None
  <2>1. \A q \in Quotes : quotes[q].status = "none"
    BY DEF Init
  <2>2. \A p \in POs : pos[p].status = "none" /\ ~pos[p].completed
    BY <1>2 DEF Init
  <2>3. \A i \in Invoices : invoices[i].status = "none" /\ ~invoices[i].myob
    BY <1>2 DEF Init
  <2>4. \A m \in Payments : payments[m].status = "none"
    BY DEF Init
  <2>5. \A s \in Sends : sends[s].step = "idle"
    BY DEF Init, Resting
  <2> QED
    BY <1>0, <2>1, <2>2, <2>3, <2>4, <2>5
<1>4. SendsHaveOrders /\ HeldUntilRecorded /\ CompletedIsInMyob
  BY <1>3 DEF SendsHaveOrders, HeldUntilRecorded, CompletedIsInMyob
<1>5. PaymentsHaveInvoices /\ DirectorOnRecord /\ MyobMeansApproved /\ PaymentsRestOnApproval
  BY <1>3 DEF PaymentsHaveInvoices, DirectorOnRecord, MyobMeansApproved, PaymentsRestOnApproval
<1>6. ApprovedQuoteIsOne
  BY <1>3, RowsAssumption DEF ApprovedQuoteIsOne
<1>7. InternalHasNoMoney
  BY <1>3 DEF InternalHasNoMoney, HasMoneyRecords, NoRow, Live
<1> QED
  BY <1>1, <1>4, <1>5, <1>6, <1>7 DEF Inv

\* Every step keeps the invariant.
LEMMA NextInv == ASSUME Inv, [Next]_vars PROVE Inv'
<1>1. /\ TypeOK /\ SendsHaveOrders /\ ApprovedQuoteIsOne /\ HeldUntilRecorded /\ CompletedIsInMyob
      /\ InternalHasNoMoney /\ InvoicesSound /\ PaymentsPayable
  BY RowsAgree DEF Inv
<1>2. InvoicesSound' /\ PaymentsPayable'
  BY <1>1, InvoicesHold
<1>3. MyobMeansApproved' /\ DirectorOnRecord' /\ PaymentsHaveInvoices' /\ PaymentsRestOnApproval'
  BY <1>2 DEF InvoicesSound, Sound, MyobMeansApproved, DirectorOnRecord,
    PaymentsPayable, Payable, PaymentsHaveInvoices, PaymentsRestOnApproval
<1> QED
  BY <1>1, <1>3, TypesHold, QuotesHold, SendsHold, CompletedPO, InternalHolds DEF Inv

\* The invariant holds in every reachable state of every job, whatever its tables hold.
THEOREM InvHolds == Spec => []Inv
<1>1. Init => Inv
  BY InitInv
<1>2. Inv /\ [Next]_vars => Inv'
  BY NextInv
<1> QED
  BY <1>1, <1>2, PTL DEF Spec

\* Every row keeps its shape through every handler, and a rise is only ever recorded
\* against a quote: recordVariance is never reached without one.
THEOREM TypeCorrect == Spec => []TypeOK
<1>1. Inv => TypeOK
  BY DEF Inv
<1> QED
  BY <1>1, InvHolds, PTL

\* The job's pointer and the status of its quotes agree at all times, however first
\* approvals, director approvals, edits, completions and undos of several quotes interleave.
THEOREM OneApprovedQuote == Spec => []ApprovedQuoteIsOne
<1>1. Inv => ApprovedQuoteIsOne
  BY DEF Inv
<1> QED
  BY <1>1, InvHolds, PTL

\* sendPurchaseOrder: with any number of requests for any number of orders in any
\* interleaving, at most one is past its claim on an order, and the claim stays until it ends.
THEOREM HeldWhileMailed == Spec => []HeldUntilRecorded
<1>1. Inv => HeldUntilRecorded
  BY DEF Inv
<1> QED
  BY <1>1, InvHolds, PTL

\* A completed order is in MYOB after any sequence of edits, marks, previews and sends.
THEOREM CompletedInMyob == Spec => []CompletedIsInMyob
<1>1. Inv => CompletedIsInMyob
  BY DEF Inv
<1> QED
  BY <1>1, InvHolds, PTL

\* markInvoiceMyob and every later edit, undo and rejection: what is in MYOB is approved,
\* by the director where the row was stamped so, whatever the threshold does meanwhile.
THEOREM MyobIsApproved == Spec => []MyobMeansApproved
<1>1. Inv => MyobMeansApproved
  BY DEF Inv
<1> QED
  BY <1>1, InvHolds, PTL

\* No handler takes back the approval that a payment, recorded or made, rests on.
THEOREM PaymentsAreApproved == Spec => []PaymentsRestOnApproval
<1>1. Inv => PaymentsRestOnApproval
  BY DEF Inv
<1> QED
  BY <1>1, InvHolds, PTL

\* A job never becomes internal with money on it, and none is filed on it while it is.
THEOREM InternalIsMoneyless == Spec => []InternalHasNoMoney
<1>1. Inv => InternalHasNoMoney
  BY DEF Inv
<1> QED
  BY <1>1, InvHolds, PTL

-----------------------------------------------------------------------------
(* The job's moves. *)

\* Only these steps move a job, and each only to where its event leads.
LEMMA JobMoves ==
  ASSUME TypeOK, Next, job'.at.status # job.at.status
  PROVE  \/ \E q \in Quotes, amount \in Amounts : CreateQuote(q, amount) /\ job'.at = QuoteDecision
         \/ \E q \in Quotes : ApproveQuote(q) /\ job'.at = Working
         \/ \E p \in POs, cost \in Amounts : CreatePO(p, cost) /\ HasApprovedQuote /\ job'.at = Working
         \/ \E target \in Statuses : MoveJob(target)
         \/ ReopenJob
         \/ job'.at \in {Quoting, InvoiceDecision}
<1>0. job \in JobRow
  BY DEF TypeOK
<1>1. \A event : \A j \in JobRow : Advance(j, event).at = NextState(j.at, event)
  BY DEF Advance, JobRow
<1>2. \A q \in Quotes : [job EXCEPT !.approved = q] \in JobRow /\ [job EXCEPT !.approved = q].at = job.at
  BY <1>0 DEF JobRow
<1>3. ASSUME NEW q \in Quotes, QuoteStep(q)
      PROVE  \/ \E amount \in Amounts : CreateQuote(q, amount) /\ job'.at = QuoteDecision
             \/ ApproveQuote(q) /\ job'.at = Working
  <2>1. ASSUME NEW amount \in Amounts, CreateQuote(q, amount) PROVE job'.at = QuoteDecision
    BY <1>0, <1>1, <2>1, Moves DEF CreateQuote
  <2>2. ASSUME NEW amount \in Amounts, PromoteEmailToQuote(q, amount) \/ EditQuote(q, amount) PROVE FALSE
    BY <1>0, <2>2 DEF PromoteEmailToQuote, EditQuote, Unpoint, JobRow
  <2>3. ASSUME ApproveQuote(q) PROVE job'.at = Working
    BY <1>1, <1>2, <2>3, Moves DEF ApproveQuote
  <2>4. ASSUME DirectorApproveQuote(q) PROVE FALSE
    BY <1>2, <2>4 DEF DirectorApproveQuote
  <2>5. ASSUME UnapproveQuote(q) PROVE FALSE
    BY <1>0, <2>5 DEF UnapproveQuote, Unpoint, JobRow
  <2>6. ASSUME RejectQuote(q) \/ CompleteQuote(q) \/ UncompleteQuote(q) \/ DeleteQuote(q) PROVE FALSE
    BY <2>6 DEF RejectQuote, CompleteQuote, UncompleteQuote, DeleteQuote
  <2> QED
    BY <1>3, <2>1, <2>2, <2>3, <2>4, <2>5, <2>6 DEF QuoteStep
<1>4. ASSUME NEW p \in POs, POStep(p)
      PROVE  \/ \E cost \in Amounts : CreatePO(p, cost) /\ HasApprovedQuote /\ job'.at = Working
             \/ job'.at = InvoiceDecision
  <2>1. ASSUME NEW cost \in Amounts, CreatePO(p, cost) PROVE HasApprovedQuote /\ job'.at = Working
    BY <1>0, <1>1, <2>1, Moves DEF CreatePO
  <2>2. ASSUME CompletePO(p) PROVE job'.at = InvoiceDecision
    BY <1>0, <1>1, <2>2, Moves DEF CompletePO
  <2> QED
    BY <1>4, <2>1, <2>2 DEF POStep, EditPO, PreviewReads, PreviewUploads, PreviewFails, DeletePO, MarkPOMyob,
      UnmarkPOMyob, UncompletePO
<1>5. ASSUME JobStep
      PROVE  \/ \E target \in Statuses : MoveJob(target)
             \/ ReopenJob
             \/ job'.at \in {Quoting, InvoiceDecision}
  <2>1. ASSUME RequestContractor PROVE job'.at = Quoting
    BY <1>0, <1>1, <2>1, Moves DEF RequestContractor
  <2>2. ASSUME PromoteEmailToJobUpdate PROVE job'.at = InvoiceDecision
    BY <1>0, <1>1, <2>2, Moves DEF PromoteEmailToJobUpdate
  <2>3. ASSUME NEW flag, FlipFlag(flag) PROVE FALSE
    BY <1>0, <2>3 DEF FlipFlag, JobRow
  <2>4. ASSUME ArchiveJob \/ UnarchiveJob PROVE FALSE
    BY <1>0, <2>4 DEF ArchiveJob, UnarchiveJob, JobRow
  <2> QED
    BY <1>5, <2>1, <2>2, <2>3, <2>4 DEF JobStep
<1> QED
  BY <1>3, <1>4, <1>5, Untouched DEF Next

\* The status of each named state.
LEMMA StatusOf ==
  /\ Quoting.status = "Quote" /\ QuoteDecision.status = "Awaiting Approval" /\ Working.status = "Work"
  /\ InvoiceDecision.status = "Awaiting Approval"
  BY DEF Quoting, QuoteDecision, Working, InvoiceDecision, State

\* A manual move obeys the guard, and the flags stay.
LEMMA MoveObeys ==
  ASSUME TypeOK, NEW target \in Statuses, MoveJob(target)
  PROVE  /\ \E threshold \in Thresholds : GuardManual(job'.at, FactsAt(threshold))
         /\ job'.contract = job.contract /\ job'.internal = job.internal /\ job'.approved = job.approved
         /\ UNCHANGED <<quotes, invoices>>
<1>0. job \in JobRow
  BY DEF TypeOK
<1>1. PICK threshold \in Thresholds : \E to, held :
         /\ GuardManual(to, FactsAt(threshold))
         /\ job' = [job EXCEPT !.at = to, !.held = held]
         /\ UNCHANGED <<quotes, invoices>>
  BY DEF MoveJob
<1>2. \A to, held : LET j == [job EXCEPT !.at = to, !.held = held]
                    IN j.at = to /\ j.contract = job.contract /\ j.internal = job.internal /\ j.approved = job.approved
  BY <1>0 DEF JobRow
<1> QED
  BY <1>1, <1>2

\* A step into Work is one of an approved quote, a contract or an internal job.
LEMMA WorkStep ==
  ASSUME TypeOK, ApprovedQuoteIsOne', Next, job'.at.status = "Work", job.at.status # "Work"
  PROVE  HasApprovedQuote' \/ job'.contract \/ job'.internal
<1>0. job \in JobRow
  BY DEF TypeOK
<1>1. ASSUME NEW q \in Quotes, ApproveQuote(q), job'.at = Working PROVE HasApprovedQuote'
  <2>1. job' = Advance([job EXCEPT !.approved = q], "QUOTE_APPROVED")
    BY <1>0, <1>1, StatusOf DEF ApproveQuote
  <2>2. job'.approved = q
    BY <1>0, <2>1 DEF Advance, JobRow
  <2> QED
    BY <2>2, RowsAssumption DEF ApprovedQuoteIsOne, HasApprovedQuote
<1>2. ASSUME NEW p \in POs, NEW cost \in Amounts, CreatePO(p, cost), HasApprovedQuote PROVE HasApprovedQuote'
  <2>1. job' = Advance(job, "PO_CREATED") /\ UNCHANGED quotes
    BY <1>2 DEF CreatePO
  <2>2. job'.approved = job.approved
    BY <1>0, <2>1 DEF Advance, JobRow
  <2> QED
    BY <1>2, <2>1, <2>2 DEF HasApprovedQuote
<1>3. ASSUME NEW target \in Statuses, MoveJob(target) PROVE HasApprovedQuote' \/ job'.contract \/ job'.internal
  BY <1>3, MoveObeys DEF GuardManual, FactsAt, HasApprovedQuote
<1>4. ASSUME ReopenJob PROVE job'.internal
  BY <1>0, <1>4, StatusOf DEF ReopenJob, ReopenTarget, JobRow
<1> QED
  BY <1>1, <1>2, <1>3, <1>4, JobMoves, StatusOf

\* A step into Done is a manual one that passed the guard over settled invoices.
LEMMA DoneStep ==
  ASSUME TypeOK, MyobMeansApproved, DirectorOnRecord, Next,
         job'.at.status = "Done", job.at.status # "Done", ~job.internal
  PROVE  /\ Incoming # {}
         /\ \A i \in Incoming : /\ invoices[i].myob
                                /\ invoices[i].status \in {"approved", "director_approved"}
                                /\ invoices[i].required => invoices[i].directorAt
<1>1. PICK target \in Statuses : MoveJob(target)
  BY JobMoves, StatusOf DEF ReopenJob
<1>2. PICK threshold \in Thresholds : GuardManual(job'.at, FactsAt(threshold))
  BY <1>1, MoveObeys
<1>3. /\ Incoming # {}
      /\ \A i \in Incoming : FullyApproved(invoices[i], threshold)
      /\ \A i \in Standing : FullyApproved(invoices[i], threshold) => invoices[i].myob
  BY <1>2 DEF GuardManual, FactsAt
<1>4. ASSUME NEW i \in Incoming
      PROVE  /\ invoices[i].myob /\ invoices[i].status \in {"approved", "director_approved"}
             /\ invoices[i].required => invoices[i].directorAt
  <2>1. i \in Invoices /\ i \in Standing
    BY DEF Incoming, Standing
  <2> QED
    BY <1>3, <2>1 DEF MyobMeansApproved, DirectorOnRecord
<1> QED
  BY <1>3, <1>4

\* No event, hold, manual move or reopening brings a job to Work without an approved quote,
\* a contract or the internal flag: guardManual and the machine's edges together.
THEOREM WorkIsAuthorised == Spec => WorkOnlyWhenAuthorised
<1>1. Inv /\ Inv' /\ [Next]_vars
        => [job'.at.status = "Work" /\ job.at.status # "Work" => HasApprovedQuote' \/ job'.contract \/ job'.internal]_vars
  BY WorkStep DEF Inv
<1> QED
  BY <1>1, InvHolds, PTL DEF Spec, WorkOnlyWhenAuthorised

\* A job that is not internal closes only over settled contractors' invoices: summariseInvoices
\* goes by the threshold of the moment, and the stamp on the row does the rest.
THEOREM DoneIsSettled == Spec => DoneOnlyWhenSettled
<1>1. Inv /\ [Next]_vars
        => [job'.at.status = "Done" /\ job.at.status # "Done" /\ ~job.internal
              => /\ Incoming # {}
                 /\ \A i \in Incoming : /\ invoices[i].myob
                                        /\ invoices[i].status \in {"approved", "director_approved"}
                                        /\ invoices[i].required => invoices[i].directorAt]_vars
  BY DoneStep DEF Inv
<1> QED
  BY <1>1, InvHolds, PTL DEF Spec, DoneOnlyWhenSettled

-----------------------------------------------------------------------------
(* What is paid of an invoice.                                             *)

\* What a set of payments comes to, in a table of payments.
PaidIn(table, S) == MapThenSumSet(LAMBDA m : table[m].amount, S)
AmountsIn(table) == [m \in Payments |-> table[m].amount]

\* The sum of the model is the sum whose lemmas are in Sums.
LEMMA PaidIsTotal ==
  ASSUME NEW table, NEW S \in SUBSET Payments
  PROVE  PaidIn(table, S) = Total(AmountsIn(table), S)
<1> DEFINE w == AmountsIn(table)
           Paid(f) == f = [s \in SUBSET S |-> IF s = {} THEN 0 ELSE table[First(s)].amount + f[s \ {First(s)}]]
           g == CHOOSE f : Paid(f)
<1>1. IsFiniteSet(S)
  BY PaymentsAssumption, FS_Subset
<1>2. \A f : IsSum(f, w, S) => Paid(f)
  <2>1. \A s \in SUBSET S : s # {} => w[First(s)] = table[First(s)].amount
    BY FirstIn DEF AmountsIn
  <2> HIDE DEF w
  <2> QED
    BY <2>1 DEF IsSum
<1>3. Paid(g)
  <2>1. \E f : Paid(f)
    BY <1>1, <1>2, SumExists
  <2> HIDE DEF Paid
  <2> QED
    BY <2>1
<1>4. PaidIn(table, S) = g[S]
  BY DEF PaidIn, MapThenSumSet, MapThenFoldSet, First
<1> HIDE DEF g
<1>5. AddsUp(g, w, S)
  <2>1. \A s \in SUBSET S : s # {} => w[First(s)] = table[First(s)].amount
    BY FirstIn DEF AmountsIn
  <2> HIDE DEF w
  <2> QED
    BY <1>3, <2>1 DEF AddsUp
<1> QED
  BY <1>1, <1>4, <1>5, TotalWithin

\* A payment that is written anew counts what it now comes to.
LEMMA PaidAnew ==
  ASSUME NEW table \in [Payments -> PaymentRow], NEW after \in [Payments -> PaymentRow],
         NEW m \in Payments, \A n \in Payments \ {m} : after[n] = table[n], NEW S \in SUBSET Payments
  PROVE  /\ m \notin S => PaidIn(after, S) = PaidIn(table, S)
         /\ m \in S => PaidIn(after, S) = after[m].amount + PaidIn(table, S \ {m})
         /\ PaidIn(table, S) \in Int
<1> DEFINE w == AmountsIn(table)
           v == AmountsIn(after)
<1>1. /\ \A n \in Payments : w[n] \in Int /\ v[n] \in Int
      /\ v[m] = after[m].amount
      /\ \A n \in Payments \ {m} : v[n] = w[n]
  BY DollarsCount DEF AmountsIn, PaymentRow
<1> HIDE DEF w, v
<1>2. \A T \in SUBSET Payments : IsFiniteSet(T)
  BY PaymentsAssumption, FS_Subset
<1>3. \A T \in SUBSET Payments : PaidIn(table, T) = Total(w, T) /\ PaidIn(after, T) = Total(v, T)
  BY PaidIsTotal DEF w, v
<1>4. \A T \in SUBSET Payments : m \notin T => Total(v, T) = Total(w, T)
  <2> SUFFICES ASSUME NEW T \in SUBSET Payments, m \notin T PROVE Total(v, T) = Total(w, T)
    OBVIOUS
  <2>1. \A n \in T : v[n] = w[n]
    BY <1>1
  <2> QED
    BY <1>2, <2>1, TotalSame
<1>5. m \in S => Total(v, S) = v[m] + Total(v, S \ {m})
  BY <1>1, PaymentsAssumption, TotalOf
<1>6. Total(w, S) \in Int
  BY <1>1, PaymentsAssumption, TotalOf
<1> QED
  BY <1>1, <1>3, <1>4, <1>5, <1>6

\* An invoice that has payments keeps its amount.
LEMMA AmountKept ==
  ASSUME TypeOK, PaymentsPayable, NEW i \in Invoices, InvoiceStep(i)
  PROVE  \E row : SetInvoice(i, row) /\ row.amount \in Nat
                    /\ (PaymentsOf(i) = {} \/ row.amount = invoices[i].amount)
<1> DEFINE Kept(row) == row.amount \in Nat /\ (PaymentsOf(i) = {} \/ row.amount = invoices[i].amount)
           Holds == \E row : SetInvoice(i, row) /\ Kept(row)
<1>0. invoices[i] \in InvoiceRow /\ invoices[i].amount \in Nat /\ \A a \in Amounts : a \in Nat
  BY DollarsCount DEF TypeOK, InvoiceRow, Dollars
<1>1. ASSUME NEW amount \in Amounts, NEW outgoing \in BOOLEAN, CreateInvoice(i, amount, outgoing) PROVE Holds
  <2>1. PaymentsOf(i) = {}
    BY <1>1 DEF CreateInvoice, PaymentsOf, PaymentsPayable, Payable
  <2>2. NewInvoice(amount, outgoing).amount \in Nat
    BY <1>0 DEF NewInvoice
  <2> QED
    BY <1>1, <2>1, <2>2 DEF CreateInvoice
<1>2. ASSUME NEW amount \in Amounts, NEW payee \in BOOLEAN, NEW outgoing \in BOOLEAN,
             EditInvoice(i, amount, payee, outgoing)
      PROVE  Holds
  <2> DEFINE changed == amount # invoices[i].amount \/ payee
             row == IF changed /\ WasApproved(invoices[i]) THEN NewInvoice(amount, outgoing)
                    ELSE [invoices[i] EXCEPT !.amount = amount, !.outgoing = outgoing]
  <2>1. SetInvoice(i, row) /\ (changed => PaymentsOf(i) = {})
    BY <1>2 DEF EditInvoice
  <2>2. row.amount = amount
    BY <1>0 DEF NewInvoice, InvoiceRow
  <2>3. Kept(row)
    BY <1>0, <2>1, <2>2
  <2> HIDE DEF row, Kept
  <2> QED
    BY <2>1, <2>3
<1>4. ASSUME NEW row, SetInvoice(i, row), row.amount = invoices[i].amount PROVE Holds
  BY <1>0, <1>4
<1>5. ASSUME ApproveInvoice(i) PROVE Holds
  <2>1. PICK status, required : SetInvoice(i, [invoices[i] EXCEPT !.status = status, !.approvedAt = TRUE,
                                                                 !.required = required])
    BY <1>5 DEF ApproveInvoice
  <2> QED
    BY <1>0, <1>4, <2>1 DEF InvoiceRow
<1>6. ASSUME DirectorApproveInvoice(i) \/ UndoDirectorApprove(i) \/ RejectInvoice(i) \/ MarkInvoiceMyob(i)
               \/ UnmarkInvoiceMyob(i)
      PROVE  Holds
  BY <1>0, <1>4, <1>6 DEF DirectorApproveInvoice, UndoDirectorApprove, RejectInvoice, MarkInvoiceMyob,
    UnmarkInvoiceMyob, InvoiceRow
<1>7. ASSUME DeleteInvoice(i) PROVE Holds
  <2>1. [NewInvoice(NoCost, FALSE) EXCEPT !.status = "deleted"].amount \in Nat
    BY DEF NewInvoice, NoCost
  <2> QED
    BY <1>7, <2>1 DEF DeleteInvoice
<1> QED
  BY <1>1, <1>2, <1>5, <1>6, <1>7 DEF InvoiceStep, PromoteEmailToInvoice

\* A payment is written only with what its invoice still leaves unpaid.
LEMMA PaymentFits ==
  ASSUME TypeOK, PaymentsPayable, NEW m \in Payments, PaymentStep(m)
  PROVE  \E row : /\ SetPayment(m, row) /\ row.invoice \in Invoices
                  /\ payments[m].status # "none" => row.invoice = payments[m].invoice
                  /\ row.amount <= invoices[row.invoice].amount - PaidSoFar(row.invoice, m)
<1>0. payments[m] \in PaymentRow
  BY DEF TypeOK
<1>1. ASSUME NEW i \in Invoices, NEW amount \in Amounts, NEW q \in Quotes \cup {None}, CreatePayment(m, i, amount, q)
      PROVE  \E row : /\ SetPayment(m, row) /\ row.invoice \in Invoices
                      /\ payments[m].status # "none" => row.invoice = payments[m].invoice
                      /\ row.amount <= invoices[row.invoice].amount - PaidSoFar(row.invoice, m)
  <2> DEFINE row == [status |-> "pending", invoice |-> i, amount |-> amount, quote |-> q]
  <2>1. row.invoice = i /\ row.amount = amount
    OBVIOUS
  <2>2. SetPayment(m, row) /\ payments[m].status = "none" /\ amount <= invoices[i].amount - PaidSoFar(i, m)
    BY <1>1 DEF CreatePayment, MayPay
  <2> HIDE DEF row
  <2> QED
    BY <2>1, <2>2
<1>2. ASSUME NEW row, SetPayment(m, row), row.invoice = payments[m].invoice, payments[m].status # "none",
             MayPay(row.invoice, row.amount, m)
      PROVE  \E r : /\ SetPayment(m, r) /\ r.invoice \in Invoices
                    /\ payments[m].status # "none" => r.invoice = payments[m].invoice
                    /\ r.amount <= invoices[r.invoice].amount - PaidSoFar(r.invoice, m)
  BY <1>2 DEF PaymentsPayable, MayPay
<1>3. ASSUME NEW amount \in Amounts, EditPayment(m, amount) PROVE \E row : 
             /\ SetPayment(m, row) /\ row.invoice = payments[m].invoice /\ payments[m].status # "none"
             /\ MayPay(row.invoice, row.amount, m)
  <2> DEFINE row == [payments[m] EXCEPT !.amount = amount]
  <2>1. row.invoice = payments[m].invoice /\ row.amount = amount
    BY <1>0 DEF PaymentRow
  <2>2. SetPayment(m, row) /\ payments[m].status # "none" /\ MayPay(payments[m].invoice, amount, m)
    BY <1>3 DEF EditPayment
  <2> HIDE DEF row
  <2> QED
    BY <2>1, <2>2
<1>4. ASSUME MarkPaymentPaid(m) PROVE \E row :
             /\ SetPayment(m, row) /\ row.invoice = payments[m].invoice /\ payments[m].status # "none"
             /\ MayPay(row.invoice, row.amount, m)
  <2> DEFINE row == [payments[m] EXCEPT !.status = "paid"]
  <2>1. row.invoice = payments[m].invoice /\ row.amount = payments[m].amount
    BY <1>0 DEF PaymentRow
  <2>2. SetPayment(m, row) /\ payments[m].status # "none" /\ MayPay(payments[m].invoice, payments[m].amount, m)
    BY <1>4 DEF MarkPaymentPaid
  <2> HIDE DEF row
  <2> QED
    BY <2>1, <2>2
<1> QED
  BY <1>1, <1>2, <1>3, <1>4 DEF PaymentStep

\* NeverOverpaid, as these lemmas read it.
WithinTheInvoice == \A i \in Invoices : PaidIn(payments, PaymentsOf(i)) <= invoices[i].amount

\* What is paid stays within the invoice.
LEMMA PaidHolds ==
  ASSUME TypeOK, TypeOK', PaymentsPayable, WithinTheInvoice, [Next]_vars
  PROVE  WithinTheInvoice'
<1>0. /\ invoices \in [Invoices -> InvoiceRow] /\ payments \in [Payments -> PaymentRow]
      /\ invoices' \in [Invoices -> InvoiceRow] /\ payments' \in [Payments -> PaymentRow]
      /\ \A i \in Invoices : PaymentsOf(i) \in SUBSET Payments
      /\ \A i \in Invoices : invoices[i].amount \in Nat
  BY DollarsCount DEF TypeOK, PaymentsOf, InvoiceRow
<1>1. \A i \in Invoices : PaidIn(payments, PaymentsOf(i)) <= invoices[i].amount
  BY DEF WithinTheInvoice
<1>2. SUFFICES ASSUME NEW i \in Invoices
               PROVE  PaidIn(payments', PaymentsOf(i)') <= invoices'[i].amount
  BY DEF WithinTheInvoice
<1>3. CASE UNCHANGED <<payments, invoices>>
  BY <1>1, <1>3 DEF PaymentsOf
<1>4. ASSUME NEW j \in Invoices, InvoiceStep(j)
      PROVE  PaidIn(payments', PaymentsOf(i)') <= invoices'[i].amount
  <2>1. PICK row : SetInvoice(j, row) /\ row.amount \in Nat
                     /\ (PaymentsOf(j) = {} \/ row.amount = invoices[j].amount)
    BY <1>4, AmountKept
  <2>2. payments' = payments /\ PaymentsOf(i)' = PaymentsOf(i)
    BY <1>4, Untouched DEF PaymentsOf
  <2>3. invoices'[i] = IF i = j THEN row ELSE invoices[i]
    BY <1>0, <2>1 DEF SetInvoice
  <2>4. CASE i = j /\ PaymentsOf(i) = {}
    <3>1. PaidIn(payments, {}) = 0
      BY PaidIsTotal, TotalOfNone
    <3> QED
      BY <2>1, <2>2, <2>3, <2>4, <3>1
  <2>5. CASE ~(i = j /\ PaymentsOf(i) = {})
    BY <1>1, <2>1, <2>2, <2>3, <2>5
  <2> QED
    BY <2>4, <2>5
<1>5. ASSUME NEW m \in Payments, PaymentStep(m)
      PROVE  PaidIn(payments', PaymentsOf(i)') <= invoices'[i].amount
  <2>1. PICK row : /\ SetPayment(m, row) /\ row.invoice \in Invoices
                   /\ payments[m].status # "none" => row.invoice = payments[m].invoice
                   /\ row.amount <= invoices[row.invoice].amount - PaidSoFar(row.invoice, m)
    BY <1>5, PaymentFits
  <2>2. invoices' = invoices
    BY <1>5, Untouched
  <2>3. payments'[m] = row /\ \A n \in Payments \ {m} : payments'[n] = payments[n]
    BY <1>0, <2>1 DEF SetPayment
  <2>4. PaymentsOf(i)' \ {m} = PaymentsOf(i) \ {m} /\ PaymentsOf(i)' \in SUBSET Payments
    BY <2>3 DEF PaymentsOf
  <2>5. row \in PaymentRow /\ row.amount \in Nat
    BY <1>0, <2>3, DollarsCount DEF PaymentRow
  <2>6. CASE m \in PaymentsOf(i)'
    <3>1. row.invoice = i
      BY <2>3, <2>6 DEF PaymentsOf
    <3>2. PaidIn(payments', PaymentsOf(i)') = row.amount + PaidIn(payments, PaymentsOf(i) \ {m})
      BY <1>0, <2>3, <2>4, <2>6, PaidAnew
    <3>3. PaidSoFar(i, m) = PaidIn(payments, PaymentsOf(i) \ {m})
      BY DEF PaidSoFar, PaidIn
    <3>4. PaidIn(payments, PaymentsOf(i) \ {m}) \in Int
      BY <1>0, <2>3, PaidAnew
    <3> QED
      BY <1>0, <2>1, <2>2, <2>5, <3>1, <3>2, <3>3, <3>4
  <2>7. CASE m \notin PaymentsOf(i)'
    <3>1. m \notin PaymentsOf(i)
      <4> SUFFICES ASSUME m \in PaymentsOf(i) PROVE FALSE
        OBVIOUS
      <4>1. payments[m].status # "none" /\ payments[m].invoice = i
        BY DEF PaymentsOf
      <4>2. row.invoice = i
        BY <2>1, <4>1
      <4>3. row.status # "none"
        BY <1>5, <2>3, <1>0 DEF PaymentStep, CreatePayment, EditPayment, MarkPaymentPaid, SetPayment, PaymentRow
      <4> QED
        BY <2>3, <2>7, <4>2, <4>3 DEF PaymentsOf
    <3>2. PaymentsOf(i)' = PaymentsOf(i)
      BY <2>4, <2>7, <3>1
    <3>3. PaidIn(payments', PaymentsOf(i)) = PaidIn(payments, PaymentsOf(i))
      BY <1>0, <2>3, <3>1, PaidAnew
    <3> QED
      BY <1>1, <2>2, <3>2, <3>3
  <2> QED
    BY <2>6, <2>7
<1> QED
  BY <1>3, <1>4, <1>5, Untouched DEF Next, vars

LEMMA InitPaid == Init => WithinTheInvoice
<1> SUFFICES ASSUME Init, NEW i \in Invoices PROVE PaidIn(payments, PaymentsOf(i)) <= invoices[i].amount
  BY DEF WithinTheInvoice
<1>1. PaymentsOf(i) = {} /\ invoices[i].amount = 0
  BY DEF Init, PaymentsOf, NewInvoice, NoCost
<1>2. PaidIn(payments, {}) = 0
  BY PaidIsTotal, TotalOfNone
<1> QED
  BY <1>1, <1>2

(* No invoice is ever paid more than it comes to, in whatever order its payments are      *)
(* recorded, edited and marked paid and the invoice itself is edited: each write of a     *)
(* payment reads the balance without it, and an invoice with payments keeps its amount    *)
(* (upsertPayment, paymentInvoiceRefusal, markPaymentPaid, markPaidRefusal).               *)
THEOREM NothingIsOverpaid == Spec => []NeverOverpaid
<1>1. Init => WithinTheInvoice
  BY InitPaid
<1>2. Inv /\ Inv' /\ WithinTheInvoice /\ [Next]_vars => WithinTheInvoice'
  BY PaidHolds, RowsAgree DEF Inv
<1>3. WithinTheInvoice => NeverOverpaid
  BY DEF WithinTheInvoice, NeverOverpaid, PaidIn
<1> QED
  BY <1>1, <1>2, <1>3, InvHolds, PTL DEF Spec
=============================================================================

