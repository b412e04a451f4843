\* A reflector that sends anything at any time, and a program that may close.
SPECIFICATION ClientSpec
CONSTANTS
  Socks = {s1, s2, s3}
  Handlers = {h1, h2}
  Loops = {l1, l2}
  None = None
  Off = Off
  PingPeriod = 2
  MaxRetries = 2
  WaitTicks = 1
  BackoffTicks = 1
  AckTicks = 1
SYMMETRY Symmetry
CHECK_DEADLOCK FALSE
INVARIANTS ConnectedIsWatched PanicNeedsDenial
