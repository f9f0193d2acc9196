SPECIFICATION DeskSpec
CONSTANTS
  s1 = s1
  s2 = s2
  s3 = s3
  d1 = d1
  Nobody = Nobody
  Staff = {s1, s2, s3}
  CoverJobs = {jj}
  Questions = {qn}
  AskedFirst <- MCAsked
  RaisedBy <- MCRaised
  Pairs <- MCPairs
  MaxMoves = 1
  MaxLeaves = 2
  Editors = {u1, u2}
  Reliefs = {"r1", "r2"}
  NoPage = NoPage
  ReliefSpan <- MCSpans
  LastDays = {2, 3}
  MaxSaves = 2
  RegKeys = {k1, c1}
  Codes = {c1}
  Outs = {o1, o2}
  Sigs = {g1}
  NoSig = NoSig
  NoKey = NoKey
  MaxMoments = 3
  Moments <- MCMoments
  HolidaySets <- MCHolidays
  Weeks = {2, 3}
  Hours = {0, 1, 8, 9}
  AssetIds = {s1, s2}
  Places = {pl}
  Categories = {ca, cb}
  Clerks = {ck}
  Writers = {d1, f1}
  RoleOf <- MCRoleOf
  Audiences = {"all", "accounts"}
  NoSheet = NoSheet
  MaxVersions = 2
  MaxSecond = 1
  MaxPolicies = 1
SYMMETRY DeskSymmetry
INVARIANTS
  
  
  HoldersOnRecord
  WorkingHoursAreKept
  VerifiedIsAsSeen
PROPERTY StaysInForce
CHECK_DEADLOCK FALSE
