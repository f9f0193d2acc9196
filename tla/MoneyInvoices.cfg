SPECIFICATION Spec
CONSTANTS
  q1 = q1
  q2 = q2
  p1 = p1
  i1 = i1
  i2 = i2
  m1 = m1
  m2 = m2
  s1 = s1
  s2 = s2
  None = None
  Quotes <- OneQuote
  POs = {}
  Invoices <- TwoInvoices
  Payments <- TwoPayments
  Sends = {}
  Amounts = {1, 2}
  Thresholds = {1, 2}
CONSTRAINT WithinLoad
SYMMETRY Symmetry
INVARIANTS MyobMeansApproved PaymentsRestOnApproval NeverOverpaid
