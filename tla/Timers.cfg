SPECIFICATION TimersSpec
CONSTANTS
  j1 = j1
  j2 = j2
  r1 = r1
  r2 = r2
  p1 = p1
  p2 = p2
  k1 = k1
  w1 = w1
  w2 = w2
  Jobs <- OneJob
  Rcpts <- OneRcpt
  People <- OnePerson
  SubmitKeys = {}
  Workers <- TwoRuns
  Modes <- LiveOnly
  MaxPerMinute = 1
  MaxAttempts = 2
  Threshold = 1
  MaxDrafts = 2
  MaxFaults = 0
  Schedules = {sc}
  Managers = {m1}
  Steps = {1, 2}
  LeadDays = 0
  MaxDay = 2
INVARIANT PassedDatesAreRecorded
PROPERTIES
  OverIsOver
  EveryJobEnds
  DueIsTakenUp
CHECK_DEADLOCK FALSE
