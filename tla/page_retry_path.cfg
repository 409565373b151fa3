SPECIFICATION PageSpec
CONSTANTS
  MaxConversations = 2
  MaxRequests = 4
  MaxReloads = 1
INVARIANTS

  VisibleRetryPath
CHECK_DEADLOCK FALSE
