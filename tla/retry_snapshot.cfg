\* The shortest Run that reads the proof and then fails
SPECIFICATION Spec
CONSTANTS
  MaxReads = 6
  MaxRunTurns = 8
  MaxCaseTurns = 11
  BusinessDemo = TRUE
  Worlds <- MCWorlds
  FaultyTools = {}
  MaxRuns = 1
  MaxTroubles = 1
INVARIANT
  RetryFindsItsFacts
