\* A stream datagram relayed to another client.
SPECIFICATION Spec
CONSTANTS
  Addrs = {a1, a2}
  Modules = {mA}
  Clients = {c1, c2}
  None = None
  Off = Off
  PongPeriod = 1
  PingPeriod = 1
CHECK_DEADLOCK FALSE
INVARIANTS RelayedIsReadable
