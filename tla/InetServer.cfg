\* One address that connects again and again and may fall silent: timers and handler interleaved.
SPECIFICATION FairSpec
CONSTANTS
  Addrs = {a1}
  Modules = {mA}
  Clients = {c1, c2}
  None = None
  Off = Off
  PongPeriod = 2
  PingPeriod = 1
CHECK_DEADLOCK FALSE
INVARIANTS EntriesTimed
PROPERTIES DroppedWhenSilent SilentIsDropped
