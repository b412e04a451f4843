\* A goroutine that transmits over a queue and a buffer both of which it can fill.
SPECIFICATION FairSpec
CONSTANTS
  c1 = c1
  Callers <- MCCallers
  Frames = 2
  Versions = {1, 2, 3}
  ShortStatus = TRUE
  QueueCap = 2
  Room = 3
  VersionTries = 2
  Tries = 2
  MaxLine = 2
CHECK_DEADLOCK FALSE
INVARIANTS OverrunNeedsStale RunsConfigured
PROPERTIES QueueMoves
