\* One goroutine that transmits, the timer's and the program's.
SPECIFICATION FairSpec
CONSTANTS
  c1 = c1
  Callers <- MCCallers
  Timer = timer
  Main = main
  Nothing = Nothing
  Settings = 1
  Chunks = 1
  MaxPort = 1
CHECK_DEADLOCK FALSE
INVARIANTS QuietAgrees
PROPERTIES MixupNeedsCrossing StopsTransmitting
