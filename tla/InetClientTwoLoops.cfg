\* Real times: a tick is five seconds, ten retries.
SPECIFICATION ClientSpec
CONSTANTS
  Socks = {s1, s2, s3}
  Handlers = {h1, h2}
  Loops = {l1, l2}
  None = None
  Off = Off
  PingPeriod = 6
  MaxRetries = 10
  WaitTicks = 2
  BackoffTicks = 1
  AckTicks = 1
SYMMETRY Symmetry
CHECK_DEADLOCK FALSE
INVARIANTS OneHandler
