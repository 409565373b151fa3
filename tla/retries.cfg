\* The Cases of one Conversation, expired and repeated Proposals, resumed writes;
\* handlers of one Conversation take turns, so one request stands for all
SPECIFICATION Spec
CONSTANTS
  None = None
  o1 = o1
  o2 = o2
  p1 = p1
  p2 = p2
  Conversations = {c1}
  Cases = {k1, k2}
  Requests = {r1}
  Orders = {o1}
  PackagesOf <- OnePackage
  ActionFaults = {"failed_retryable", "failed_terminal", "uncertain"}
  MaxProposals = 2
  MaxCrashes = 1
SYMMETRY Symmetry
INVARIANTS
  PendingMeansAwaited
  OneExecutionPerCase
  RetryFindsNoDoubt
  TicketsAreAccounted
  SourceShowsTickets
PROPERTY ClosedIsFinal
CHECK_DEADLOCK FALSE
