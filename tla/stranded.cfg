\* A restart while a confirmed Proposal is executed
SPECIFICATION Spec
CONSTANTS
  None = None
  o1 = o1
  o2 = o2
  p1 = p1
  p2 = p2
  Conversations = {c1}
  Cases = {k1}
  Requests = {r1, r2}
  Orders = {o1}
  PackagesOf <- OnePackage
  ActionFaults = {}
  MaxProposals = 1
  MaxCrashes = 1
INVARIANT OpenCaseHasMove
CHECK_DEADLOCK FALSE
