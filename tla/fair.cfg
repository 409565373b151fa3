\* One Case and a second Conversation that competes for the event loop, served fairly
SPECIFICATION FairSpec
CONSTANTS
  None = None
  o1 = o1
  o2 = o2
  p1 = p1
  p2 = p2
  Conversations = {c1, c2}
  Cases = {k1}
  Requests = {r1, r2}
  Orders = {o1}
  PackagesOf <- TwoPackages
  ActionFaults = {"failed_retryable", "failed_terminal", "uncertain"}
  MaxProposals = 2
  MaxCrashes = 0
PROPERTY RequestsEnd
CHECK_DEADLOCK FALSE
