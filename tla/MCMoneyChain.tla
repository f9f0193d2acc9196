---------------------------- MODULE MCMoneyChain ----------------------------
(* Small instances of MoneyChain for TLC. *)
EXTENDS MoneyChain, TLC

CONSTANTS q1, q2, p1, i1, i2, m1, m2, s1, s2

OneQuote == {q1}
TwoQuotes == {q1, q2}
OnePO == {p1}
TwoInvoices == {i1, i2}
TwoPayments == {m1, m2}
TwoSends == {s1, s2}

\* Bound: a job, its rows and the sends in flight weigh at most MaxLoad together.  A second
\* quote, invoice or send, a row deleted or rejected since and a hold on the job weigh double.
Weight(Rows, status(_)) ==
  LET made == Cardinality({r \in Rows : status(r) # "none"})
  IN made + (IF made = 2 THEN 1 ELSE 0) + Cardinality({r \in Rows : status(r) \in {"deleted", "rejected"}})
QuoteLoad == Weight(Quotes, LAMBDA q : quotes[q].status)
InvoiceLoad == Weight(Invoices, LAMBDA i : invoices[i].status)
POLoad == Weight(POs, LAMBDA p : pos[p].status)
SendLoad == Weight(Sends, LAMBDA s : IF sends[s].step = "idle" THEN "none" ELSE sends[s].step)
PaymentLoad == Cardinality({m \in Payments : payments[m].status # "none"})
JobLoad == (IF job.archived THEN 2 ELSE 0) + (IF job.at.status = "Tenant" THEN 2 ELSE 0)
MaxLoad == 4
WithinLoad == QuoteLoad + InvoiceLoad + POLoad + PaymentLoad + SendLoad + JobLoad <= MaxLoad

Symmetry == Permutations({q1, q2}) \cup Permutations({i1, i2})
              \cup Permutations({m1, m2}) \cup Permutations({s1, s2})
=============================================================================
