\* One Case, three Runs, and one trouble beside the failing reads
SPECIFICATION Spec
CONSTANTS
  MaxReads = 6
  MaxRunTurns = 8
  MaxCaseTurns = 11
  BusinessDemo = TRUE
  Worlds <- MCWorlds
  FaultyTools = {"tickets"}
  MaxRuns = 3
  MaxTroubles = 1
INVARIANTS
  CaseBudgets
  ProposalIsGrounded
  FreshTickets
  RetryLaterCanRead
  GivesUpAfterRetry
  OpenQuestionIsAnswerable
PROPERTIES
  KeepsGovernance
  RunAdvances
