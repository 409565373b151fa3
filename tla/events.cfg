\* Two browsers, two streams, a history of several pages, served fairly
\* through lost connections, reloads and restarts
SPECIFICATION FairSpec
CONSTANTS
  None = None
  Clients = {b1, b2}
  Streams = {s1, s2}
  PageSize = 2
  MaxEvents = 3
  MaxFaults = 2
INVARIANTS
  StreamsMissNothing
PROPERTIES
  StreamsOnlyAdvance
  KeepsOrder
  ViewsCatchUp
  QueuesAreReleased
CHECK_DEADLOCK FALSE
