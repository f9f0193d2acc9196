SPECIFICATION FairSpec
CONSTANTS
  j1 = j1
  r1 = r1
  r2 = r2
  Jobs <- OneJob
  Mailed = {}
  Keys <- ManualKeys
  Requests <- OneRequest
  Top = 2
  Staffings <- FullStaffing
  MaxRows = 2
  MaxAttempts = 1
  SweepTries = 1
  MaxActions = 1
  MaxFaults = 1
PROPERTIES OverdueIsMoved NothingIsLeftHanging
