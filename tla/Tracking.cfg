SPECIFICATION TrackingSpec
CONSTANTS
  mgr = mgr
  dir = dir
  p1 = p1
  p2 = p2
  EventIds = {e1, e2}
  Staff = {mgr, dir}
  NoOne = NoOne
  Approvers = {mgr, dir}
  Directors = {dir}
  FirstExpiry = 3
  TermDays = 2
  Options = 1
  Expiries = {2}
  NoticeDays = 1
  WindowDays = 1
  HorizonDays = 1
  RenewalDays = 2
  WarningDays = 0
  LastDay = 4
  MaxRegisterEdits = 1
  JobConds = {"j"}
  DueConds = {"d"}
  LeaseConds = {"l"}
  KeyConds = {"k"}
  Tasks = {1, 2, 3, 4}
  NoTask = NoTask
  Syncs = {"s1", "s2"}
  MaxSyncs = 2
  Holdback = TRUE
  People = {p1, p2}
  Makers = {p2}
  MaxAsks = 2
INVARIANTS
  NothingAskedInVain
PROPERTIES
  ExercisedInTime
  ExpiryIsTakenUp
  JobTasksFollow
  DeferralComesBack
CHECK_DEADLOCK FALSE
