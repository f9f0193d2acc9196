SPECIFICATION FairSpec
CONSTANTS
  j1 = j1
  r1 = r1
  r2 = r2
  Jobs <- OneJob
  Mailed = {}
  Keys <- ChangeKeys
  Requests <- OneRequest
  Top = 1
  Staffings <- SoleLevel
  MaxRows = 2
  MaxAttempts = 0
  SweepTries = 1
  MaxActions = 1
  MaxFaults = 0
PROPERTIES DecisionEndsIt
