\* A CONN that arrives a second time.
SPECIFICATION Spec
CONSTANTS
  Addrs = {a1}
  Modules = {mA}
  Clients = {c1, c2}
  None = None
  Off = Off
  PongPeriod = 2
  PingPeriod = 1
CHECK_DEADLOCK FALSE
PROPERTIES OnlySilentDropped
