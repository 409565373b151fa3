\* A late report of a delivered package: one Run, and a ticket of the right issue
SPECIFICATION Spec
CONSTANTS
  MaxReads = 6
  MaxRunTurns = 8
  MaxCaseTurns = 11
  BusinessDemo = TRUE
  Worlds <- DeliveredWorlds
  FaultyTools = {}
  MaxRuns = 1
  MaxTroubles = 1
INVARIANT
  NoProposalOverTicket
