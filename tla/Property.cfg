SPECIFICATION PropertySpec
CONSTANTS
  acct = acct
  dir = dir
  x1 = x1
  x2 = x2
  y1 = y1
  y2 = y2
  Reviews = {x1, x2}
  NoReview = NoReview
  Users = {acct, dir}
  NoUser = NoUser
  Rank <- MCRank
  Admins = {}
  MaxDate = 2
  LeaseRatchet = FALSE
  Rates <- MCRates
  OutOfBand <- MCOut
  Planners = {w1}
  MaxEdits = 1
  Methods = {"cpi", "other"}
  Bases <- MCBases
  Vacs = {v1}
  Pics = {x1, x2}
  VacReqs = {y1, y2}
  MaxPosts = 2
  Insps = {y1, y2, i3}
  LevelNames = {"g"}
  Rooms = {x1, x2}
  Findings = {f1}
  Nowhere = Nowhere
  MaxJobs = 2
  MaxQueued = 5
  FileIds = {x1, x2}
  MailBlobs = {mb}
  NoBlob = NoBlob
  MoneyRecords = {mr}
  DocLimit = 1
  EntryLimit = 2
  MaxRevision = 2
  Lessees = {x1, x2}
  NoLessee = NoLessee
  AreaRows = {y1, y2}
  Cells = {c1, c2}
  NoCell = NoCell
  Bays = {b1}
  BayEditors = {e1, e2}
  Notes = {n1}
CONSTRAINT IndexMatters
SYMMETRY PropertySymmetry
INVARIANTS
  
  
  
  RowsHaveTheirFile
PROPERTIES
  AppliedRentIsTheOneSeen
  HoldingsAreRemembered
CHECK_DEADLOCK FALSE
