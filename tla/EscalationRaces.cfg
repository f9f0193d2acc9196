SPECIFICATION Spec
CONSTANTS
  j1 = j1
  r1 = r1
  r2 = r2
  Jobs <- OneJob
  Mailed = {}
  Keys <- ManualKeys
  Requests <- TwoRequests
  Top = 2
  Staffings <- FullStaffing
  MaxRows = 2
  MaxAttempts = 0
  SweepTries = 1
  MaxActions = 1
  MaxFaults = 0
SYMMETRY RequestSymmetry
INVARIANTS TypeOK ChainsWhole ClaimStopsTheClock
PROPERTIES ImplementsChains
