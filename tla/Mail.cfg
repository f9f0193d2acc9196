SPECIFICATION MailRunSpec
CONSTANTS
  j1 = j1
  j2 = j2
  r1 = r1
  r2 = r2
  p1 = p1
  p2 = p2
  k1 = k1
  w1 = w1
  w2 = w2
  Jobs <- TwoJobs
  Rcpts <- TwoRcpts
  People <- TwoPeople
  SubmitKeys <- OneKey
  Workers <- OneRun
  Modes <- BothModes
  MaxPerMinute = 1
  MaxAttempts = 2
  Threshold = 1
  MaxDrafts = 2
  MaxFaults = 1
  Messages = {r1, r2}
  Primary = pm
  Extra = xm
  PageSize = 1
  Syncs = {w1, w2}
  MaxClock = 2
  MailCount = 2
  Runs = {w1, w2}
  MaxTries = 3
  MaxResets = 1
  Letters = {r1, r2}
  MailStaff = {p1, p2}
  Sitters = {w1, w2}
  Triages = {tr}
  NoOwner = NoOwner
  MaxHandOvers = 2
  MaxNewJobs = 1
CONSTRAINT WithinMail
SYMMETRY Symmetry
INVARIANTS
  
  PassedMailIsStored
  MailIsAccountedFor
PROPERTY ReadingIsFinal
CHECK_DEADLOCK FALSE
