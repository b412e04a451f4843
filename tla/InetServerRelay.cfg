\* Two addresses, two modules, a client object for each.
SPECIFICATION Spec
CONSTANTS
  Addrs = {a1, a2}
  Modules = {mA, mB}
  Clients = {c1, c2}
  None = None
  Off = Off
  PongPeriod = 1
  PingPeriod = 1
SYMMETRY Symmetry
CHECK_DEADLOCK FALSE
PROPERTIES RelayScope
