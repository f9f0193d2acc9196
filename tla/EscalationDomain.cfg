SPECIFICATION Spec
CONSTANTS
  j1 = j1
  r1 = r1
  r2 = r2
  Jobs <- OneJob
  Mailed <- OneJob
  Keys <- SceneKeys
  Requests <- OneRequest
  Top = 2
  Staffings <- TwoStaffings
  MaxRows = 2
  MaxAttempts = 0
  SweepTries = 1
  MaxActions = 1
  MaxFaults = 0
CONSTRAINT WithinAScene
INVARIANTS RowsFitTheirSubject
PROPERTIES ClosedStaysClosed
