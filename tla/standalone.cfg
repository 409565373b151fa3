SPECIFICATION StandaloneSpec
CONSTANTS
  Procs = {q1, q2}
  MaxTurns = 2
  DevRuns = 2
  LockedRuns = 2
  CanaryRuns = 2
  Ceiling = 3
  PerRun = 2
  Threshold = 3
  Usage = {2}
  MaxStarts = 3
  MaxCrashes = 1
  RescueCeiling = 6
  MaxRescueStarts = 2
  Inputs = {1, 2}
  DiagCeiling = 3
  MaxAttempts = 2
  Revisions = {r1, r2}
  Manifests = {m1, m2}
  MaxDiagStarts = 3
  MaxEdits = 1
  MaxCommits = 3
  MaxInterrupts = 1
  Services = {p1, p2}
  Corpora <- KnownCorpora
  Scopes = {"standard", "express"}
  TopK = 2
  MaxTime = 1
  MaxDeploys = 1
  OwnOrders = {o1, o2}
  OtherOrders = {x1}
  IdLimit = 2
  Written = {"signed", "missing", "stalled", "tracking", "action", "override", "personal_data"}
  LiveIntents = {"stalled_tracking"}
  MaxFragments = 4
  MaxEntries = 2
  MaxConversations = 2
  MaxRequests = 4
  MaxReloads = 1
SYMMETRY Symmetry
INVARIANTS
  LedgerGovernsCalls
  RecordsCountEveryCall
  FavourableMeansComplete
  OneBudgetForBoth
  FailureLeavesReport
  RescueKeepsBudget
  DiagnosticsKeepBudget
  LockedRunsWhatWasFrozen
  ResolvesTheAuthority
  RequestSurvivesUnsafeFragments
  ShowsTheChosenConversation
  PageComesToRest
CHECK_DEADLOCK FALSE
