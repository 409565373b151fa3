\* A resumed write meets the ticket another Conversation got meanwhile
SPECIFICATION Spec
CONSTANTS
  None = None
  o1 = o1
  o2 = o2
  p1 = p1
  p2 = p2
  Conversations = {c1, c2}
  Cases = {k1, k2}
  Requests = {r1, r2}
  Orders = {o1}
  PackagesOf <- OnePackage
  ActionFaults = {"failed_retryable"}
  MaxProposals = 1
  MaxCrashes = 0
SYMMETRY Symmetry
PROPERTY SubmitsOnlyWithoutDuplicate
CHECK_DEADLOCK FALSE
