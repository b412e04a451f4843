\* Two goroutines that transmit, two runs of the timer's function, bring-up and Close.
SPECIFICATION Spec
CONSTANTS
  c1 = c1
  c2 = c2
  t1 = t1
  t2 = t2
  Callers <- MCCallers
  TimerRuns <- MCTimerRuns
  Main = main
  NoOne = none
  Chunks = 1
SYMMETRY Symmetry
CHECK_DEADLOCK FALSE
INVARIANTS Guarded NeverDeaf BurstOfOneKind LinkSetupFirst WaitersWoken
