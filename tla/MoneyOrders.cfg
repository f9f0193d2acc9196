SPECIFICATION Spec
CONSTANTS
  q1 = q1
  q2 = q2
  p1 = p1
  i1 = i1
  i2 = i2
  m1 = m1
  m2 = m2
  s1 = s1
  s2 = s2
  None = None
  Quotes <- TwoQuotes
  POs <- OnePO
  Invoices = {}
  Payments = {}
  Sends <- TwoSends
  Amounts = {1, 2}
  Thresholds = {1}
CONSTRAINT WithinLoad
SYMMETRY Symmetry
INVARIANTS ApprovedQuoteIsOne 
PROPERTIES WorkOnlyWhenAuthorised
