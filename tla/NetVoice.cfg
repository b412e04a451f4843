\* Streams, one of them identified by NoStream, and as many timer objects as the functions that run can leave behind.
SPECIFICATION FairSpec
CONSTANTS
  StreamIDs = {0, 1, 2}
  NoStream = 0
  Timers = {t1, t2, t3}
  Nil = Nil
  Calls = {k1, k2}
CHECK_DEADLOCK FALSE
INVARIANTS BackstopArmed PanicNeedsRace
PROPERTIES StreamEnds
